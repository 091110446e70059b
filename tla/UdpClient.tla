------------------------------ MODULE UdpClient ------------------------------
(***************************************************************************)
(* The client in its UDP variant: the main, sender and receiver threads    *)
(* over the shared program interface, with SIGINT and internal errors.     *)
(***************************************************************************)
EXTENDS UserCommands, CleanUp, UdpSender, UdpReceiver

ASSUME ServerAssumption == ServerKinds \subseteq SrvTypes

Init ==
  /\ fsm = fsm_START /\ queue = <<>> /\ lock = "none" /\ msgCounter = 0
  /\ named = FALSE
  /\ pc = [main |-> "m_while", sender |-> "s_while", receiver |-> "r_while"]
  /\ exited = "no"
  /\ cmd = "OTHER" /\ eof = FALSE /\ typed = 0
  /\ resetLoop = FALSE /\ msgToBeSend = NoMessage
  /\ wire = {} /\ requests = {}
  /\ rx = NoSrvMessage /\ repetitiveMsg = FALSE /\ confirmedMsgs = {}
  /\ srv = {} /\ dup = {} /\ acted = {}

(* The state after an undisturbed login: /auth was answered by CONF and a   *)
(* positive REPLY, whose confirmation was sent.  Runs about the open        *)
(* session start here.                                                      *)
LoginReply == [type |-> "REPLY", id |-> 0, ok |-> TRUE]
InitOpen ==
  /\ fsm = fsm_OPEN /\ queue = <<>> /\ lock = "none" /\ msgCounter = 1
  /\ named = TRUE
  /\ pc = [main |-> "m_while", sender |-> "s_while", receiver |-> "r_while"]
  /\ exited = "no"
  /\ cmd = "AUTH" /\ eof = FALSE /\ typed = 0
  /\ resetLoop = FALSE /\ msgToBeSend = NoMessage
  /\ wire = {0} /\ requests = {0}
  /\ rx = NoSrvMessage /\ repetitiveMsg = FALSE
  /\ confirmedMsgs = {[type |-> "REPLY", id |-> 0]}
  /\ srv = {LoginReply} /\ dup = {} /\ acted = {LoginReply}

(* A condition wait may return although nobody signalled the condition.     *)
SpuriousWakeup ==
  /\ Spurious /\ exited = "no"
  /\ \E t \in Threads :
       /\ pc[t] \in DOMAIN Resume
       /\ pc' = [pc EXCEPT ![t] = Resume[pc[t]]]
  /\ UNCHANGED <<exited, interface, mainVars, sendVars, recvVars>>

Next ==
  \/ MainStep \/ UserInput
  \/ Sigint \/ sigintHandler
  \/ SenderStep \/ SocketError \/ errHandling("sender")
  \/ ReceiverStep \/ Delivery \/ errHandling("receiver")
  \/ SpuriousWakeup

Spec     == Init /\ [][Next]_vars
OpenSpec == InitOpen /\ [][Next]_vars

-----------------------------------------------------------------------------
MainLabels == {"m_while", "m_eofSet", "m_eofLock", "m_eofAdd", "m_eofSig",
  "m_input", "m_authSet", "m_lock", "m_add", "m_exitSet", "m_exitSig",
  "m_wait", "m_waiting", "m_join"} \cup HandlerLabels
ErrLabels == {"e_set", "e_sig", "e_pop", "e_bye", "e_wait", "e_waiting",
  "e_exit"}
SenderLabels == {"s_while", "s_lock1", "s_filter", "s_timeout1", "s_timeout2",
  "s_toEnd", "s_toEndSig", "s_toErr", "s_toSendErr", "s_toSendBye", "s_toSig",
  "s_toLock", "s_empty1", "s_empty2", "s_emptyEnd", "s_emptySig", "s_ewait",
  "s_ewaiting", "s_lock2", "s_authGet", "s_authSet", "s_rwait", "s_rwaiting",
  "s_relock", "s_lwait", "s_lwaiting", "s_relogic", "s_open", "s_openSig",
  "s_join", "s_byeSet", "s_errSet", "s_send", "s_twaiting", "s_end"}
  \cup ErrLabels
ReceiverLabels == {"r_while", "r_recv", "r_dedup", "r_conf", "r_confGet",
  "r_confReply", "r_confEnd", "r_confMain", "r_confSig", "r_repeated",
  "r_reply1", "r_reply2", "r_result", "r_okFlag", "r_okSet", "r_okConfirm",
  "r_okSig1", "r_okSig2", "r_nok", "r_nokStart", "r_nokGet", "r_nokOpen",
  "r_nokConfirm", "r_nokSig", "r_counter", "r_msg", "r_msgSig1", "r_msgSig2",
  "r_print", "r_bye", "r_byeSet", "r_err", "r_errBye", "r_errSig1",
  "r_errSig2", "r_errSet", "r_unknown", "r_unkPop", "r_unkConfirm", "r_unkErr",
  "r_unkBye", "r_unkSig1", "r_unkSig2", "r_sigMain", "r_end"} \cup ErrLabels

Labels(t) == IF t = "main" THEN MainLabels
             ELSE IF t = "sender" THEN SenderLabels ELSE ReceiverLabels

AllLabels == MainLabels \cup SenderLabels \cup ReceiverLabels

Exits == {"no", "normal", "sigint", "internal", "comm", "segv"}

InterfaceOK ==
  /\ fsm \in FsmStates
  /\ queue \in Seq(Message)
  /\ lock \in Threads \cup {"none"}
  /\ msgCounter \in MsgIds
  /\ named \in BOOLEAN

PcOK == /\ pc \in [Threads -> AllLabels]
        /\ \A t \in Threads : pc[t] \in Labels(t)

MainOK == cmd \in UserCommandSet /\ eof \in BOOLEAN /\ typed \in 0 .. MaxTyped

SendOK == /\ resetLoop \in BOOLEAN /\ msgToBeSend \in Message
          /\ wire \subseteq MsgIds /\ requests \subseteq MsgIds

RecvOK ==
  /\ rx \in SrvMessage /\ repetitiveMsg \in BOOLEAN
  /\ confirmedMsgs \subseteq [type : SrvTypes, id : MsgIds]
  /\ srv \subseteq SrvMessage /\ dup \subseteq SrvMessage
  /\ acted \subseteq SrvMessage

(* Every variable keeps to its C type, the enums, the 8-bit send counter    *)
(* and the 16-bit ids, and no thread leaves its own code: a woken waiter    *)
(* goes on where its own wait was.                                          *)
TypeOK ==
  InterfaceOK /\ PcOK /\ exited \in Exits /\ MainOK /\ SendOK /\ RecvOK

(* The labels at which a thread relies on holding the queue's mutex.        *)
MainHolding     == {"m_eofAdd", "m_add"}
SenderHolding   == {"s_filter", "s_timeout1", "s_timeout2", "s_toEnd",
  "s_toEndSig", "s_toErr", "s_empty1", "s_empty2", "s_emptyEnd", "s_authGet",
  "s_authSet", "s_open", "s_openSig", "s_join", "s_byeSet", "s_errSet", "s_send"}
ReceiverHolding == {"r_confGet", "r_confReply", "r_confEnd", "r_confMain",
  "r_confSig", "r_nokStart", "r_nokGet", "r_nokOpen", "r_nokConfirm"}
Holding(t) == IF t = "main" THEN MainHolding
              ELSE IF t = "sender" THEN SenderHolding ELSE ReceiverHolding

(* A thread inside a critical section of the queue holds the queue's mutex, *)
(* on every path through the waits and re-locks of logicFSM and the         *)
(* unlock/lock pair around the error messages of a time-out; so no two      *)
(* threads are ever inside.                                                 *)
LockDiscipline == \A t \in Threads : pc[t] \in Holding(t) => lock = t

(* The ways on which the code does leave a critical section with the mutex  *)
(* locked: errHandling called inside it, SIGINT inside it, and the time-out *)
(* of the BYE, after which the sender looks at the state once more.         *)
LeavesLocked(t) ==
  IF t = "main" THEN {"h_set", "h_sig", "h_pop"}
  ELSE {"e_set", "e_sig", "e_pop"}
         \cup (IF t = "sender" THEN {"s_while", "s_end", "s_lock1"} ELSE {})

(* On every other way out the mutex is released: apart from those three     *)
(* nobody ends, waits for a condition or waits for the mutex while holding  *)
(* it, so they are the only causes of a thread waiting for itself or of     *)
(* everyone waiting for it.                                                 *)
MutexReleased ==
  \A t \in Threads : lock = t => pc[t] \in Holding(t) \cup LeavesLocked(t)

(* While a thread holds the mutex no other thread changes the queue: a step *)
(* that changes it moves nobody but the holder and a waiter it wakes.       *)
OnlyHolderChangesQueue ==
  [][queue' # queue =>
       \A t \in Threads : lock \notin {"none", t} =>
         pc'[t] = pc[t] \/ pc[t] \in DOMAIN Resume]_vars

(* Stop and wait: a message that was transmitted and may have to be         *)
(* transmitted again has nothing but confirmations in front of it, so the   *)
(* server never gets a newer message before an older one is settled.        *)
OneInFlight ==
  \A i \in DOMAIN queue : queue[i].sendCount > 0 =>
    \A j \in 1 .. i - 1 : queue[j].type = "CONF"

(* The message in flight, as StopAndWait has it.                            *)
InFlight == {i \in DOMAIN queue : queue[i].sendCount > 0}
Flight ==
  IF InFlight = {} THEN [type |-> "none", tries |-> 0]
  ELSE LET m == queue[CHOOSE i \in InFlight : \A j \in InFlight : i <= j]
       IN  [type |-> m.type, tries |-> m.sendCount]

StopAndWaitOf == INSTANCE StopAndWait
                   WITH Types <- MsgTypes, MaxTries <- udpMaxRetries + 1,
                        flight <- Flight

(* A message is out of the queue, or all messages but confirmations are.    *)
OutOfQueue == \/ Len(queue') < Len(queue)
              \/ \A i \in DOMAIN queue' : queue'[i].type = "CONF"

(* The three threads, their signals and time-outs together do no more than  *)
(* StopAndWait: a message goes out when none is in flight, is repeated as   *)
(* often as -r allows and nothing takes its place before it is settled.  A  *)
(* message is settled only by leaving the queue: if its counter wrapped to  *)
(* 0 while it stayed, this would not hold.                                  *)
ImplementsStopAndWait ==
  /\ StopAndWaitOf!Spec
  /\ [][StopAndWaitOf!Settle => OutOfQueue]_vars

(* The same of the client's own messages alone, without the confirmations:  *)
(* the first of them in flight.                                             *)
OwnInFlight == {i \in InFlight : queue[i].type # "CONF"}
OwnFlight ==
  IF OwnInFlight = {} THEN [type |-> "none", tries |-> 0]
  ELSE LET m == queue[CHOOSE i \in OwnInFlight : \A j \in OwnInFlight : i <= j]
       IN  [type |-> m.type, tries |-> m.sendCount]

OwnStopAndWaitOf == INSTANCE StopAndWait
                      WITH Types <- MsgTypes, MaxTries <- udpMaxRetries + 1,
                           flight <- OwnFlight

(* From the start of the program on, whatever confirmations are pushed in   *)
(* front of a message in flight and even if one of them is marked in its    *)
(* place and repeated, the client's own messages go out one at a time, the  *)
(* AUTH of the login included, each at most 1 + udpMaxRetries times before  *)
(* it leaves the queue.                                                     *)
OwnStopAndWait ==
  /\ OwnStopAndWaitOf!Spec
  /\ [][OwnStopAndWaitOf!Settle => OutOfQueue]_vars

(* No message is transmitted more than 1 + udpMaxRetries times, although    *)
(* the mutex is released between the test of the counter and the            *)
(* transmission, and the transmission after a blocked wait tests nothing.   *)
RetransmissionBound ==
  \A i \in DOMAIN queue : queue[i].sendCount <= udpMaxRetries + 1

(* JOIN and MSG are queued, and so transmitted, only after a positive reply *)
(* of the server was acted on, whatever the threads did to the program      *)
(* state between the test in main and the transmission.                     *)
Authenticated == \E m \in acted : m.type = "REPLY" /\ m.ok
AuthBeforeData ==
  \A i \in DOMAIN queue : queue[i].type \in {"JOIN", "MSG"} => Authenticated

(* At most one login is under way: /auth is accepted again only after the   *)
(* receiver has rejected the AUTH that was in the queue, although main      *)
(* tests the program state long before it queues the message.               *)
PendingAuth == {i \in DOMAIN queue : queue[i].msgFlags = "AUTH"}
OneAuth == \A i, j \in PendingAuth : i = j

(* The login is final: once a positive reply was acted on, the program      *)
(* state is never again one in front of it, although main, the sender and   *)
(* the receiver each set such states after a test made in an earlier step,  *)
(* and an AUTH may stay in the queue of the open session.                   *)
LoginIsFinal == Authenticated => fsm >= fsm_W84_REPLY_CONF

(* A message of the server whose id bytes are below the sign bit is printed *)
(* once, however often it is delivered, and although it is recorded as      *)
(* received and acted on in different steps.                                *)
NoDoublePrint ==
  pc["receiver"] = "r_print" /\ PlainId(rx.id) => rx \notin acted

(* Once the SIGINT handler has emptied the queue, no command of the user is *)
(* left to be transmitted.                                                  *)
NoUserDataAfterSigint ==
  pc["main"] \in {"h_bye", "h_sig2", "h_sig3", "h_wait", "h_waiting", "h_exit"}
    => \A i \in DOMAIN queue : queue[i].type \notin {"AUTH", "JOIN", "MSG"}
==============================================================================
