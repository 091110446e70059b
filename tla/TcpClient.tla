------------------------------ MODULE TcpClient ------------------------------
(***************************************************************************)
(* The client in its TCP variant: the threads of UserCommands, TcpSender   *)
(* and TcpReceiver, with SIGINT and internal errors.                       *)
(***************************************************************************)
EXTENDS UserCommands, CleanUp, TcpReceiver

ASSUME TcpServerAssumption ==
  ServerKinds \subseteq {"REPLY", "MSG", "BYE", "ERR", "UNKNOWN"}

(* History variable: the user, SIGINT, the server or an error has begun to  *)
(* end the session.  No step reads it.                                      *)
VARIABLE ending

allVars == <<vars, connection, ending>>

(* The states of a session that is ending.                                  *)
EndStates == {fsm_EMPTY_Q_BYE, fsm_ERR, fsm_SIGINT_BYE, fsm_END}

Init ==
  /\ fsm = fsm_START /\ queue = <<>> /\ lock = "none" /\ msgCounter = 0
  /\ named = FALSE
  /\ pc = [main |-> "m_while", sender |-> "s_while", receiver |-> "r_while"]
  /\ exited = "no"
  /\ cmd = "OTHER" /\ eof = FALSE /\ typed = 0
  /\ resetLoop = FALSE /\ msgToBeSend = NoMessage
  /\ wire = {} /\ requests = {}
  /\ rx = NoSrvMessage /\ repetitiveMsg = FALSE /\ confirmedMsgs = {}
  /\ srv = {} /\ dup = {} /\ acted = {}
  /\ sent = <<>> /\ stream = <<>> /\ told = 0 /\ answered = 0
  /\ ending = FALSE

(* The labels between a lock of the queue's mutex and its unlock.           *)
Inside(t) ==
  CASE t = "main"   -> {"m_eofAdd", "m_add"}
    [] t = "sender" -> {"s_authGet", "s_authSet", "s_join", "s_byeSet",
                        "s_byeSig", "s_errSet", "s_send", "s_pop"}
    [] OTHER        -> {"r_errPop", "r_errByeAdd", "r_unkPopAll", "r_unkErrAdd",
                        "r_unkByeAdd"}

Overlap == \E t, u \in Threads :
             t # u /\ pc[t] \in Inside(t) /\ pc[u] \in Inside(u)

(* Two threads at work on the linked list at once: one may go after the     *)
(* other, as the other actions have it, or the list is corrupted and        *)
(* nothing is known of the process any more.                                *)
Race ==
  /\ exited = "no" /\ Overlap
  /\ exited' = "race"
  /\ UNCHANGED <<interface, pc, mainVars, sendVars, recvVars>>

TcpSpuriousWakeup ==
  /\ Spurious /\ exited = "no"
  /\ \E t \in Threads :
       /\ pc[t] \in DOMAIN Resume
       /\ pc' = [pc EXCEPT ![t] = Resume[pc[t]]]
  /\ UNCHANGED <<exited, interface, mainVars, sendVars, recvVars>>

NoteEnding == ending' = (ending \/ fsm' \in EndStates)
Local(A)   == A /\ UNCHANGED connection /\ NoteEnding
Remote(A)  == A /\ NoteEnding

Next ==
  \/ Local(MainStep) \/ Local(UserInput)
  \/ Local(Sigint) \/ Local(sigintHandler)
  \/ Local(TcpSenderLocal) \/ Remote(TcpTransmission) \/ Local(SocketError)
  \/ Local(TcpReceiverLocal) \/ Remote(TcpDelivery) \/ Remote(Server)
  \/ Local(errHandling("sender")) \/ Local(errHandling("receiver"))
  \/ Local(TcpSpuriousWakeup) \/ Local(Race)

Spec == Init /\ [][Next]_allVars

-----------------------------------------------------------------------------
(* JOIN and MSG are queued and transmitted only after a positive REPLY was  *)
(* acted on, although the TCP sender has no state for a REPLY that is still *)
(* to come and the receiver reads the program state twice per REPLY.        *)
Authenticated == \E m \in acted : m.type = "REPLY" /\ m.ok
DataAfterLogin ==
  (\/ \E i \in DOMAIN sent  : sent[i] \in {"JOIN", "MSG"}
   \/ \E i \in DOMAIN queue : queue[i].type \in {"JOIN", "MSG"})
    => Authenticated

(* An AUTH is transmitted again only after the server has answered the one  *)
(* before it: main tests the state, sets it and queues in separate steps,   *)
(* the sender sets it once more, and no send is ever repeated.              *)
AuthsSent == Cardinality({i \in DOMAIN sent : sent[i] = "AUTH"})
OneLoginAtATime == AuthsSent <= answered + 1

(* The login is final until the session begins to end: a refused JOIN is    *)
(* not taken for a refused AUTH although the state is read twice for every  *)
(* negative REPLY, and no test of main or of the sender made before the     *)
(* login takes the state back.  In a session that is ending it may be: if   *)
(* SIGINT or main's EMPTY_Q_BYE comes between the two reads, a refused JOIN *)
(* sets START (module TcpClaims).                                           *)
NoLogout ==
  Authenticated /\ ~ending =>
    fsm \in {fsm_OPEN, fsm_JOIN_ATEMPT} /\ pc["receiver"] # "r_nokStart"

==============================================================================
