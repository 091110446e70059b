--------------------------- MODULE TcpClientProofs ---------------------------
(***************************************************************************)
(* The login of the TCP client: nothing of the user's is queued or sent    *)
(* before the server's positive reply was acted on, an AUTH is repeated    *)
(* only after an answer, and until the session begins to end it is never   *)
(* taken for one that is not logged in; for every command, server message  *)
(* and interleaving, and although the sender frees a mutex it does not     *)
(* hold, so that no critical section of the queue can be relied on.        *)
(*                                                                         *)
(* None of the three is inductive, as every thread acts on a program state *)
(* it read in an earlier step:                                             *)
(*  - LoginInv carries "authenticated" from the receiver's step that makes *)
(*    it true to every place that has seen a state behind the login;       *)
(*  - Budget counts what may still become an AUTH on the connection: the   *)
(*    AUTHs sent and queued, the one main is about to queue, the state     *)
(*    START, the REPLYs under way;                                         *)
(*  - SessionInv says who may still take the state back in front of the    *)
(*    login, and that nobody may once it is behind and no end has begun.   *)
(***************************************************************************)
EXTENDS TcpClient, FiniteSetTheorems, SequenceTheorems, TLAPS

(* The states of the TCP variant.                                           *)
States    == EndStates \cup {fsm_START, fsm_AUTH_W82, fsm_AUTH_SENDED, fsm_OPEN,
                             fsm_JOIN_ATEMPT}

(* What is queued; nothing in the queue is ever changed.                    *)
Kinds          == UserCommandSet \cup {"BYE", "ERR"}
UserMessage(c) == createMessage(TypeOf(c), FlagsOf(c), NoId)
Entries        == {UserMessage(c) : c \in UserCommandSet}
                    \cup {ByeMessage, ErrMessage}

(* What the server writes.                                                  *)
Written == [type : ServerKinds, id : {0}, ok : BOOLEAN]

PcIsFunction == pc = [t \in Threads |-> pc[t]]

Typed ==
  /\ PcIsFunction
  /\ fsm \in States /\ cmd \in UserCommandSet
  /\ queue \in Seq(Entries) /\ sent \in Seq(Kinds)
  /\ stream \in Seq(Written)
  /\ answered \in Nat

-----------------------------------------------------------------------------
Data == {"JOIN", "MSG"}
ReplyWay == {"r_okSet", "r_nokGet", "r_nokStart", "r_nokOpen"}

LoginInv ==
  /\ DataAfterLogin
  /\ fsm \in {fsm_OPEN, fsm_JOIN_ATEMPT} => Authenticated
  /\ pc["sender"] = "s_join" => Authenticated
  /\ pc["receiver"] = "r_nokOpen" => Authenticated
  /\ pc["receiver"] \in ReplyWay \cup {"r_reply1"} => rx.type = "REPLY"
  /\ pc["receiver"] = "r_okSet" => rx.ok
  /\ pc["main"] \in {"m_lock", "m_add"} /\ cmd \in Data => Authenticated
  /\ pc["main"] = "m_authSet" => cmd = "AUTH"

(* The AUTH main is about to queue.                                         *)
MainHasAuth == \/ pc["main"] = "m_authSet"
               \/ pc["main"] \in {"m_lock", "m_add"} /\ cmd = "AUTH"

(* The AUTHs in the queue, and those of them the sender has not got to yet. *)
AuthIn(q) == {i \in DOMAIN q : q[i].type = "AUTH"}
Waiting   == IF pc["sender"] \in {"s_send", "s_pop"} THEN AuthIn(queue) \ {1}
             ELSE AuthIn(queue)

SessionInv ==
  /\ \A i, j \in Waiting : i = j
  /\ MainHasAuth => Waiting = {}
  /\ fsm = fsm_START => Waiting = {} /\ (MainHasAuth => pc["main"] = "m_authSet")
  /\ fsm \in {fsm_AUTH_SENDED, fsm_OPEN, fsm_JOIN_ATEMPT}
       => Waiting = {} /\ ~MainHasAuth
  /\ pc["sender"] \in {"s_authGet", "s_authSet"} =>
       ~MainHasAuth /\ Waiting \subseteq {1} /\ fsm \in EndStates \cup {fsm_AUTH_W82}
  /\ pc["sender"] = "s_join" =>
       ~MainHasAuth /\ Waiting = {} /\ fsm \in EndStates \cup {fsm_OPEN}
  /\ pc["receiver"] \in ReplyWay =>
       /\ ~MainHasAuth /\ Waiting = {}
       /\ pc["sender"] \notin {"s_authGet", "s_authSet", "s_join"}
       /\ fsm \in EndStates \cup {fsm_AUTH_SENDED, fsm_JOIN_ATEMPT}
  /\ pc["receiver"] = "r_nokStart" => fsm # fsm_JOIN_ATEMPT

-----------------------------------------------------------------------------
(* What may still become an AUTH on the connection.                         *)
One(b) == IF b THEN 1 ELSE 0

AuthSent       == {i \in DOMAIN sent : sent[i] = "AUTH"}
RepliesIn(s)   == {i \in DOMAIN s : s[i].type = "REPLY"}
Queued         == IF pc["sender"] = "s_pop" THEN AuthIn(queue) \ {1}
                  ELSE AuthIn(queue)
MayAuth        == fsm = fsm_START /\ pc["main"] # "m_authSet"
MayBeRefused   == pc["receiver"] \in {"r_reply1", "r_nokGet", "r_nokStart"}

Budget ==
  Cardinality(AuthSent) + Cardinality(Queued) + One(MainHasAuth) + One(MayAuth)
    + One(MayBeRefused) + Cardinality(RepliesIn(stream)) <= answered + 1

-----------------------------------------------------------------------------
(* A step of t and the other threads: at most one of them is woken from its *)
(* wait, and neither the wait nor what follows it is a label the invariants *)
(* speak of.                                                                *)
Waits    == {"m_waiting", "h_waiting", "e_waiting", "s_ewaiting", "s_rwaiting",
             "s_lwaiting", "s_twaiting"}
Tracked  == ReplyWay \cup {"m_authSet", "m_lock", "m_add", "s_authGet",
                           "s_authSet", "s_join", "s_send", "s_pop", "r_reply1",
                           "r_print"}
Keeps(u) == \/ pc'[u] = pc[u]
            \/ pc[u] \notin Tracked /\ pc'[u] \notin Tracked
Others(t) == PcIsFunction' /\ \A u \in Threads \ {t} : Keeps(u)

Conditions == {"mainCond", "senderEmptyQueueCond", "rec2SenderCond"}

LEMMA ResumeIs ==
  /\ DOMAIN Resume = Waits
  /\ \A c \in Conditions : Parked[c] \subseteq Waits
  /\ \A l \in Waits : l \notin Tracked /\ Resume[l] \notin Tracked
<1>1. DOMAIN Resume = Waits
  BY DEF Resume, Waits
<1>2. \A c \in Conditions : Parked[c] \subseteq Waits
  BY DEF Conditions, Parked, Waits
<1>3. /\ Resume["m_waiting"] = "m_while" /\ Resume["h_waiting"] = "h_exit"
      /\ Resume["e_waiting"] = "e_exit" /\ Resume["s_ewaiting"] = "s_while"
      /\ Resume["s_rwaiting"] = "s_relock" /\ Resume["s_lwaiting"] = "s_relogic"
      /\ Resume["s_twaiting"] = "s_while"
  BY DEF Resume
<1> QED
  BY <1>1, <1>2, <1>3 DEF Waits, Tracked, ReplyWay

LEMMA AssignForm ==
  ASSUME PcIsFunction, NEW t \in Threads, NEW to, pc' = [pc EXCEPT ![t] = to]
  PROVE  pc'[t] = to /\ Others(t)
BY DEF PcIsFunction, Others, Keeps

LEMMA GotoForm ==
  ASSUME PcIsFunction, NEW t \in Threads, NEW from, NEW to, Goto(t, from, to)
  PROVE  pc[t] = from /\ pc'[t] = to /\ Others(t)
BY AssignForm DEF Goto

LEMMA SignalledForm ==
  ASSUME PcIsFunction, NEW t \in Threads, NEW c \in Conditions, NEW to,
         pc[t] \notin Waits, Signalled(t, c, to)
  PROVE  pc'[t] = to /\ Others(t)
<1>1. CASE Waiters(c) = {}
  BY <1>1, AssignForm DEF Signalled
<1>2. CASE Waiters(c) # {}
  <2>1. PICK w \in Waiters(c) : pc' = [pc EXCEPT ![t] = to, ![w] = Resume[pc[w]]]
    BY <1>2 DEF Signalled
  <2>2. w \in Threads /\ pc[w] \in Waits /\ w # t
    BY <2>1, ResumeIs DEF Waiters
  <2>3. pc[w] \notin Tracked /\ Resume[pc[w]] \notin Tracked
    BY <2>2, ResumeIs
  <2> QED
    BY <2>1, <2>2, <2>3 DEF PcIsFunction, Others, Keeps
<1> QED
  BY <1>1, <1>2

(* The forms of step: what each leaves alone that the invariants speak of.  *)
LEMMA LocalStepForm ==
  ASSUME PcIsFunction, NEW t \in Threads, NEW from, NEW to, LocalStep(t, from, to)
  PROVE  /\ pc[t] = from /\ pc'[t] = to /\ Others(t)
         /\ UNCHANGED <<fsm, queue, cmd, rx, acted>>
BY GotoForm DEF LocalStep, interface, mainVars, recvVars

LEMMA SetStepForm ==
  ASSUME PcIsFunction, NEW t \in Threads, NEW from, NEW s, NEW to,
         SetStep(t, from, s, to)
  PROVE  /\ pc[t] = from /\ pc'[t] = to /\ Others(t) /\ fsm' = s
         /\ UNCHANGED <<queue, cmd, rx, acted>>
BY GotoForm DEF SetStep, mainVars, recvVars

LEMMA SignalStepForm ==
  ASSUME PcIsFunction, NEW t \in Threads, NEW from, NEW to, NEW c \in Conditions,
         SignalStep(t, from, c, to), from \notin Waits
  PROVE  /\ pc[t] = from /\ pc'[t] = to /\ Others(t)
         /\ UNCHANGED <<fsm, queue, cmd, rx, acted>>
<1>1. pc[t] = from /\ Signalled(t, c, to)
  BY DEF SignalStep
<1>2. pc'[t] = to /\ Others(t)
  BY <1>1, SignalledForm
<1> QED
  BY <1>1, <1>2 DEF SignalStep, interface, mainVars, recvVars

LEMMA LockStepForm ==
  ASSUME PcIsFunction, NEW t \in Threads, NEW from, NEW to, LockStep(t, from, to)
  PROVE  /\ pc[t] = from /\ pc'[t] = to /\ Others(t)
         /\ UNCHANGED <<fsm, queue, cmd, rx, acted>>
BY GotoForm DEF LockStep, mainVars, recvVars

LEMMA LockedQueueStepForm ==
  ASSUME PcIsFunction, NEW t \in Threads, NEW from, NEW q, NEW to,
         LockedQueueStep(t, from, q, to)
  PROVE  /\ pc[t] = from /\ pc'[t] = to /\ Others(t) /\ queue' = q
         /\ UNCHANGED <<fsm, cmd, rx, acted>>
BY GotoForm DEF LockedQueueStep, mainVars, recvVars

LEMMA HolderStepForm ==
  ASSUME PcIsFunction, NEW t \in Threads, NEW from, NEW q, NEW l, NEW to,
         HolderStep(t, from, q, l, to)
  PROVE  /\ pc[t] = from /\ pc'[t] = to /\ Others(t) /\ queue' = q
         /\ UNCHANGED <<fsm, cmd, rx, acted>>
BY GotoForm DEF HolderStep, mainVars, recvVars

LEMMA ExitStepForm ==
  ASSUME PcIsFunction, NEW t \in Threads, NEW from, NEW how, ExitStep(t, from, how)
  PROVE  /\ pc[t] = from /\ pc'[t] = from /\ Others(t)
         /\ UNCHANGED <<fsm, queue, cmd, rx, acted>>
BY DEF ExitStep, PcIsFunction, Others, Keeps, interface, mainVars, recvVars

-----------------------------------------------------------------------------
(* What a step of main does.                                                *)
LastMessages == {ByeMessage, ErrMessage}

PlainQueue == \/ queue' = queue
              \/ queue' = <<>>
              \/ \E m \in LastMessages : queue' = Append(queue, m)

MainDoes ==
  /\ Others("main")
  /\ \/ PlainQueue
     \/ /\ pc["main"] = "m_add" /\ pc'["main"] \notin Tracked
        /\ queue' = Append(queue, UserMessage(cmd))
  /\ \/ fsm' = fsm
     \/ fsm' \in EndStates
     \/ pc["main"] = "m_authSet" /\ pc'["main"] = "m_lock" /\ fsm' = fsm_AUTH_W82
  /\ cmd' \in UserCommandSet
  /\ pc'["main"] = "m_authSet" =>
       /\ pc["main"] \notin Tracked /\ fsm = fsm_START /\ fsm' = fsm
       /\ cmd' = "AUTH" /\ queue' = queue
  /\ pc'["main"] = "m_lock" =>
       /\ queue' = queue
       /\ \/ pc["main"] = "m_authSet" /\ fsm' = fsm_AUTH_W82 /\ cmd' = cmd
          \/ /\ fsm' = fsm /\ cmd' # "AUTH" /\ pc["main"] \notin Tracked
             /\ cmd' \in Data => fsm = fsm_OPEN
  /\ pc'["main"] = "m_add" =>
       pc["main"] = "m_lock" /\ cmd' = cmd /\ queue' = queue /\ fsm' = fsm
  /\ UNCHANGED <<rx, acted, connection>>

LEMMA LastIs == ByeMessage \in LastMessages /\ ErrMessage \in LastMessages
BY DEF LastMessages

LEMMA MainAddDoes ==
  ASSUME Typed, MainAdd, UNCHANGED connection
  PROVE  MainDoes
<1> DEFINE next == IF cmd = "EXIT" THEN "m_exitSet" ELSE "m_wait"
<1>a. "main" \in Threads /\ PcIsFunction /\ cmd \in UserCommandSet
  BY DEF Threads, Typed
<1>1. pc["main"] = "m_add"
  BY DEF MainAdd
<1>2. pc'["main"] = next /\ Others("main")
  <2>1. CASE queue = <<>> \/ cmd = "AUTH"
    <3>1. Signalled("main", "senderEmptyQueueCond", next)
      BY <2>1 DEF MainAdd
    <3>2. pc["main"] \notin Waits
      BY <1>1 DEF Waits
    <3> QED
      BY <1>a, <3>1, <3>2, SignalledForm DEF Conditions
  <2>2. CASE ~(queue = <<>> \/ cmd = "AUTH")
    <3>1. pc' = [pc EXCEPT !["main"] = next]
      BY <2>2 DEF MainAdd
    <3> QED
      BY <1>a, <3>1, AssignForm
  <2> QED
    BY <2>1, <2>2
<1>3. next \in {"m_exitSet", "m_wait"}
  OBVIOUS
<1>4. /\ queue' = Append(queue, UserMessage(cmd))
      /\ UNCHANGED <<fsm, cmd, rx, acted>>
  BY DEF MainAdd, queueAddMessage, UserMessage, mainVars, recvVars
<1> QED
  BY <1>a, <1>1, <1>2, <1>3, <1>4 DEF MainDoes, Tracked, ReplyWay

LEMMA UserInputDoes ==
  ASSUME Typed, UserInput, UNCHANGED connection
  PROVE  MainDoes
<1>a. "main" \in Threads /\ PcIsFunction
  BY DEF Threads, Typed
<1>1. PICK c \in Commands, e \in EofMarks : UserTypes(c, e)
  BY DEF UserInput
<1>2. /\ pc["main"] = "m_input" /\ Others("main")
      /\ pc'["main"] = IF ~canBeSended(c) THEN "m_while"
                       ELSE IF c = "AUTH" THEN "m_authSet" ELSE "m_lock"
      /\ cmd' = IF canBeSended(c) THEN c ELSE "OTHER"
      /\ UNCHANGED <<fsm, queue, rx, acted>>
  BY <1>a, <1>1, GotoForm DEF UserTypes, recvVars
<1>3. c \in UserCommandSet
  BY <1>1, CommandsAssumption
<1>4. CASE ~canBeSended(c)
  BY <1>2, <1>4 DEF MainDoes, PlainQueue, Tracked, ReplyWay, UserCommandSet
<1>5. CASE canBeSended(c)
  <2>1. c = "AUTH" => fsm = fsm_START
    BY <1>5 DEF canBeSended, filterCommandsByFSM
  <2>2. c \in Data => fsm = fsm_OPEN
    BY <1>5 DEF canBeSended, filterCommandsByFSM, Data
  <2> QED
    BY <1>2, <1>3, <1>5, <2>1, <2>2
       DEF MainDoes, PlainQueue, Tracked, ReplyWay
<1> QED
  BY <1>4, <1>5

USE DEF MainDoes, PlainQueue, Tracked, ReplyWay, EndStates

LEMMA MainStepDoes ==
  ASSUME Typed, MainStep, UNCHANGED connection
  PROVE  MainDoes
<1>a. "main" \in Threads /\ PcIsFunction /\ cmd \in UserCommandSet
  BY DEF Threads, Typed
<1>1. CASE MainLoop
  BY <1>a, <1>1, LocalStepForm DEF MainLoop
<1>2. CASE MainEofSet
  BY <1>a, <1>2, SetStepForm DEF MainEofSet
<1>3. CASE MainEofLock
  BY <1>a, <1>3, LockStepForm DEF MainEofLock
<1>4. CASE MainEofBye
  <2>1. /\ pc["main"] = "m_eofAdd" /\ pc'["main"] = "m_eofSig" /\ Others("main")
        /\ queue' = Append(queue, ByeMessage) /\ UNCHANGED <<fsm, cmd, rx, acted>>
    BY <1>a, <1>4, HolderStepForm DEF MainEofBye, queueAddMessage
  <2> QED
    BY <1>a, <2>1, LastIs
<1>5. CASE MainEofSignal
  BY <1>a, <1>5, SignalStepForm DEF MainEofSignal, Conditions, Waits
<1>6. CASE MainAuthSet
  BY <1>a, <1>6, SetStepForm DEF MainAuthSet
<1>7. CASE MainLock
  BY <1>a, <1>7, LockStepForm DEF MainLock
<1>8. CASE MainAdd
  BY <1>8, MainAddDoes
<1>9. CASE MainExitSet
  BY <1>a, <1>9, SetStepForm DEF MainExitSet
<1>10. CASE MainExitSignal
  BY <1>a, <1>10, SignalStepForm DEF MainExitSignal, Conditions, Waits
<1>11. CASE MainWait
  BY <1>a, <1>11, LocalStepForm DEF MainWait
<1>12. CASE MainJoin
  BY <1>a, <1>12, ExitStepForm DEF MainJoin
<1> QED
  BY <1>1, <1>2, <1>3, <1>4, <1>5, <1>6, <1>7, <1>8, <1>9, <1>10, <1>11, <1>12
     DEF MainStep

LEMMA sigintHandlerDoes ==
  ASSUME Typed, sigintHandler \/ Sigint, UNCHANGED connection
  PROVE  MainDoes
<1>a. "main" \in Threads /\ PcIsFunction /\ cmd \in UserCommandSet
  BY DEF Threads, Typed
<1>1. CASE SigintSet
  BY <1>a, <1>1, SetStepForm DEF SigintSet
<1>2. CASE SigintSigMain
  BY <1>a, <1>2, SignalStepForm DEF SigintSigMain, Conditions, Waits
<1>3. CASE SigintPop
  BY <1>a, <1>3, LockedQueueStepForm DEF SigintPop
<1>4. CASE SigintBye
  <2>1. /\ pc["main"] = "h_bye" /\ pc'["main"] = "h_sig2" /\ Others("main")
        /\ queue' = Append(queue, ByeMessage) /\ UNCHANGED <<fsm, cmd, rx, acted>>
    BY <1>a, <1>4, LockedQueueStepForm DEF SigintBye, sendBye, queueAddMessage
  <2> QED
    BY <1>a, <2>1, LastIs
<1>5. CASE SigintSigEmpty
  BY <1>a, <1>5, SignalStepForm DEF SigintSigEmpty, Conditions, Waits
<1>6. CASE SigintSigRec
  BY <1>a, <1>6, SignalStepForm DEF SigintSigRec, Conditions, Waits
<1>7. CASE SigintWait
  BY <1>a, <1>7, LocalStepForm DEF SigintWait
<1>8. CASE SigintExit
  BY <1>a, <1>8, ExitStepForm DEF SigintExit
<1>9. CASE Sigint
  <2>1. pc' = [pc EXCEPT !["main"] = "h_set"] /\ UNCHANGED <<fsm, queue, cmd, rx, acted>>
    BY <1>9 DEF Sigint, interface, mainVars, recvVars
  <2>2. pc'["main"] = "h_set" /\ Others("main")
    BY <1>a, <2>1, AssignForm
  <2> QED
    BY <1>a, <2>1, <2>2
<1> QED
  BY <1>1, <1>2, <1>3, <1>4, <1>5, <1>6, <1>7, <1>8, <1>9
     DEF sigintHandler

HIDE DEF MainDoes, PlainQueue, Tracked, ReplyWay, EndStates

-----------------------------------------------------------------------------
(* What a step of the sender does: it transmits the first message, removes  *)
(* it, drops an AUTH in OPEN, or fills the queue at the end.                *)
Transmits ==
  /\ pc["sender"] \in SendLabels /\ pc'["sender"] = "s_pop"
  /\ queue # <<>> /\ UNCHANGED <<queue, fsm>>
  /\ sent' = Append(sent, Head(queue).type)

SenderDoes ==
  /\ Others("sender")
  /\ \/ Transmits
     \/ /\ sent' = sent
        /\ pc'["sender"] = "s_pop" => pc["sender"] = "s_pop"
  /\ pc["sender"] = "s_pop" =>
       \/ pc'["sender"] = "s_pop" /\ queue' = queue
       \/ pc'["sender"] \notin Tracked /\ queue # <<>> /\ queue' = Tail(queue)
  /\ pc["sender"] = "s_send" => pc'["sender"] \in {"s_send", "s_pop"} /\ queue' = queue
  /\ pc["sender"] # "s_pop" =>
       \/ PlainQueue
       \/ /\ pc'["sender"] = "s_send" /\ fsm = fsm_OPEN
          /\ queue # <<>> /\ queue' = Tail(queue)
  /\ \/ fsm' = fsm
     \/ fsm' \in EndStates
     \/ pc["sender"] = "s_authSet" /\ fsm' = fsm_AUTH_SENDED
     \/ pc["sender"] = "s_join" /\ fsm' = fsm_JOIN_ATEMPT
  /\ pc["sender"] \in {"s_authSet", "s_join"} =>
       pc'["sender"] = "s_send" /\ queue' = queue
  /\ pc'["sender"] = "s_authGet" =>
       /\ pc["sender"] \notin Tracked /\ UNCHANGED <<queue, fsm>>
       /\ queue # <<>> /\ Head(queue).msgFlags = "AUTH" /\ fsm \in PreOpen
  /\ pc'["sender"] = "s_authSet" =>
       pc["sender"] = "s_authGet" /\ UNCHANGED <<queue, fsm>>
  /\ pc'["sender"] = "s_join" =>
       pc["sender"] \notin Tracked /\ UNCHANGED <<queue, fsm>> /\ fsm = fsm_OPEN
  /\ UNCHANGED <<cmd, rx, acted, stream, answered>>

LEMMA LogicTargetIs ==
  ASSUME NEW m, NEW s \in States
  PROVE  /\ LogicTarget(m, s) \in {"s_authGet", "s_rwait", "s_lwait", "s_send",
              "s_open", "s_join", "s_byeSet", "s_errSet", "e_set"}
         /\ LogicTarget(m, s) = "s_authGet" => s \in PreOpen /\ m.msgFlags = "AUTH"
         /\ LogicTarget(m, s) = "s_join" => s = fsm_OPEN /\ m.type = "JOIN"
         /\ s = fsm_OPEN /\ m.type = "AUTH" => LogicTarget(m, s) = "s_send"
<1> USE DEF fsm_START, fsm_AUTH_W82, fsm_AUTH_SENDED, fsm_W84_REPLY,
            fsm_W84_REPLY_CONF, fsm_OPEN, fsm_JOIN_ATEMPT, fsm_EMPTY_Q_BYE,
            fsm_ERR, fsm_ERR_W84_CONF, fsm_SIGINT_BYE, fsm_END, PreOpen
<1>1. CASE s \in PreOpen
  <2>1. LogicTarget(m, s) =
          IF m.msgFlags = "AUTH" THEN "s_authGet" ELSE AfterAuthTest(m)
    BY <1>1 DEF LogicTarget
  <2> QED
    BY <1>1, <2>1 DEF AfterAuthTest
<1>2. CASE s = fsm_OPEN
  <2>1. LogicTarget(m, s) = IF m.type = "JOIN" THEN "s_join" ELSE "s_send"
    BY <1>2 DEF LogicTarget
  <2> QED
    BY <1>2, <2>1
<1>3. CASE s = fsm_ERR
  <2>1. LogicTarget(m, s) \in {"s_byeSet", "s_errSet", "s_send", "e_set"}
    BY <1>3 DEF LogicTarget
  <2> QED
    BY <1>3, <2>1
<1>4. CASE s \notin PreOpen \cup {fsm_OPEN, fsm_ERR}
  <2>0. s \notin {fsm_W84_REPLY_CONF, fsm_ERR_W84_CONF}
    BY DEF States, EndStates
  <2>1. LogicTarget(m, s) = "s_send"
    BY <1>4, <2>0 DEF LogicTarget
  <2> QED
    BY <1>4, <2>1
<1> QED
  BY <1>1, <1>2, <1>3, <1>4

USE DEF SenderDoes, PlainQueue, Tracked, ReplyWay, EndStates, connection

LEMMA LogicSwitchDoes ==
  ASSUME Typed, LogicSwitch("s_lock2"), UNCHANGED connection
  PROVE  SenderDoes
<1>a. "sender" \in Threads /\ PcIsFunction /\ fsm \in States
  BY DEF Threads, Typed
<1> DEFINE target == LogicTarget(Top, fsm)
<1>1. /\ pc["sender"] = "s_lock2" /\ pc'["sender"] = target /\ Others("sender")
      /\ queue # <<>> /\ UNCHANGED <<fsm, cmd, rx, acted>>
  BY <1>a, GotoForm DEF LogicSwitch, mainVars, recvVars
<1>2. /\ target \in {"s_authGet", "s_rwait", "s_lwait", "s_send", "s_open",
                     "s_join", "s_byeSet", "s_errSet", "e_set"}
      /\ target = "s_authGet" => fsm \in PreOpen /\ Top.msgFlags = "AUTH"
      /\ target = "s_join" => fsm = fsm_OPEN /\ Top.type = "JOIN"
      /\ fsm = fsm_OPEN /\ Top.type = "AUTH" => target = "s_send"
  BY <1>a, LogicTargetIs
<1>3. \/ queue' = queue
      \/ fsm = fsm_OPEN /\ Top.type = "AUTH" /\ queue' = Tail(queue)
  BY <1>1 DEF LogicSwitch, queuePopMessage
<1>4. target \in {"s_authGet", "s_join"} => queue' = queue
  BY <1>2, <1>3
<1>5. Top = Head(queue)
  BY DEF Top
<1> HIDE DEF target
<1> QED
  BY <1>1, <1>2, <1>3, <1>4, <1>5

LEMMA TcpSendDoes ==
  ASSUME Typed, NEW from \in SendLabels, TcpSend(from)
  PROVE  SenderDoes
<1>a. "sender" \in Threads /\ PcIsFunction
  BY DEF Threads, Typed
<1>1. /\ pc["sender"] = from /\ pc'["sender"] = "s_pop" /\ Others("sender")
      /\ queue # <<>> /\ sent' = Append(sent, Head(queue).type)
      /\ UNCHANGED <<fsm, queue, cmd, rx, acted, stream, answered>>
  BY <1>a, GotoForm DEF TcpSend, Top, mainVars, recvVars
<1>2. from \in {"s_send", "s_relock"}
  BY DEF SendLabels
<1> QED
  BY <1>1, <1>2 DEF Transmits

LEMMA TcpPopDoes ==
  ASSUME Typed, TcpPop, UNCHANGED connection
  PROVE  SenderDoes
<1>a. "sender" \in Threads /\ PcIsFunction
  BY DEF Threads, Typed
<1>1. /\ pc["sender"] = "s_pop" /\ queue # <<>> /\ queue' = Tail(queue)
      /\ UNCHANGED <<fsm, cmd, rx, acted>>
  BY DEF TcpPop, queuePopMessage, mainVars, recvVars
<1>2. pc'["sender"] = "s_twaiting" /\ Others("sender")
  <2>1. CASE msgToBeSend.type = "MSG"
    BY <1>a, <1>1, <2>1, SignalledForm DEF TcpPop, Conditions, Waits
  <2>2. CASE msgToBeSend.type # "MSG"
    BY <1>a, <2>2, AssignForm DEF TcpPop
  <2> QED
    BY <2>1, <2>2
<1> QED
  BY <1>1, <1>2

LEMMA EmptyEndDoes ==
  ASSUME Typed, EmptyEnd, UNCHANGED connection
  PROVE  SenderDoes
<1>a. "sender" \in Threads /\ PcIsFunction
  BY DEF Threads, Typed
<1>1. /\ pc["sender"] = "s_emptyEnd" /\ pc'["sender"] = "s_emptySig"
      /\ Others("sender") /\ fsm' = fsm_END /\ UNCHANGED <<queue, cmd, rx, acted>>
  BY <1>a, GotoForm DEF EmptyEnd, mainVars, recvVars
<1> QED
  BY <1>1

LEMMA TcpSenderLocalDoes ==
  ASSUME Typed, TcpSenderLocal, UNCHANGED connection
  PROVE  SenderDoes
<1>a. "sender" \in Threads /\ PcIsFunction
  BY DEF Threads, Typed
<1>1. CASE TcpLoop
  BY <1>a, <1>1, LocalStepForm DEF TcpLoop
<1>2. CASE TcpIsEmpty
  BY <1>a, <1>2, LocalStepForm DEF TcpIsEmpty
<1>3. CASE EmptyQBye
  BY <1>a, <1>3, LocalStepForm DEF EmptyQBye
<1>4. CASE EmptySigintBye
  BY <1>a, <1>4, LocalStepForm, HolderStepForm DEF EmptySigintBye
<1>5. CASE EmptyEnd
  BY <1>5, EmptyEndDoes
<1>6. CASE EmptySignal
  BY <1>a, <1>6, SignalStepForm DEF EmptySignal, Conditions, Waits
<1>7. CASE EmptyWait
  BY <1>a, <1>7, LocalStepForm DEF EmptyWait
<1>8. CASE TcpMakeRoom
  BY <1>a, <1>8, HolderStepForm DEF TcpMakeRoom
<1>9. CASE LogicSwitch("s_lock2")
  BY <1>9, LogicSwitchDoes
<1>10. CASE LogicNoMessage("s_lock2")
  BY <1>a, <1>10, ExitStepForm DEF LogicNoMessage
<1>11. CASE TcpAuthGet
  BY <1>a, <1>11, LocalStepForm DEF TcpAuthGet
<1>12. CASE TcpAuthSet
  BY <1>a, <1>12, SetStepForm DEF TcpAuthSet
<1>13. CASE LogicBlockedWait
  BY <1>a, <1>13, LocalStepForm DEF LogicBlockedWait
<1>14. CASE LogicJoin
  BY <1>a, <1>14, SetStepForm DEF LogicJoin
<1>15. CASE TcpBye
  BY <1>a, <1>15, SetStepForm DEF TcpBye
<1>16. CASE TcpByeSignal
  BY <1>a, <1>16, SignalStepForm DEF TcpByeSignal, Conditions, Waits
<1>17. CASE TcpErr
  BY <1>a, <1>17, LocalStepForm DEF TcpErr
<1>18. CASE \E from \in SendLabels : SendNoMessage(from)
  BY <1>a, <1>18, ExitStepForm DEF SendNoMessage, SendLabels
<1>19. CASE TcpPop
  BY <1>19, TcpPopDoes
<1>20. CASE TcpPopNoMessage
  BY <1>a, <1>20, ExitStepForm DEF TcpPopNoMessage
<1>21. CASE SendTimeout
  BY <1>a, <1>21, LocalStepForm DEF SendTimeout
<1> QED
  BY <1>1, <1>2, <1>3, <1>4, <1>5, <1>6, <1>7, <1>8, <1>9, <1>10, <1>11,
     <1>12, <1>13, <1>14, <1>15, <1>16, <1>17, <1>18, <1>19, <1>20, <1>21
     DEF TcpSenderLocal, emptyQueue, TcpLogicFSM

LEMMA SocketErrorDoes ==
  ASSUME Typed, SocketError, UNCHANGED connection
  PROVE  SenderDoes
<1>a. "sender" \in Threads /\ PcIsFunction
  BY DEF Threads, Typed
<1>1. PICK from \in SendLabels : ExitStep("sender", from, "comm")
  BY DEF SocketError, SendFails
<1> QED
  BY <1>a, <1>1, ExitStepForm DEF SendLabels

LEMMA SenderErrDoes ==
  ASSUME Typed, errHandling("sender"), UNCHANGED connection
  PROVE  SenderDoes
<1>a. "sender" \in Threads /\ PcIsFunction
  BY DEF Threads, Typed
<1>1. CASE ErrSet("sender")
  BY <1>a, <1>1, SetStepForm DEF ErrSet
<1>2. CASE ErrSignal("sender")
  BY <1>a, <1>2, SignalStepForm DEF ErrSignal, Conditions, Waits
<1>3. CASE ErrPop("sender")
  BY <1>a, <1>3, LockedQueueStepForm DEF ErrPop
<1>4. CASE ErrBye("sender")
  <2>1. /\ pc["sender"] = "e_bye" /\ pc'["sender"] = "e_wait" /\ Others("sender")
        /\ queue' = Append(queue, ByeMessage) /\ UNCHANGED <<fsm, cmd, rx, acted>>
    BY <1>a, <1>4, LockedQueueStepForm DEF ErrBye, sendBye, queueAddMessage
  <2> QED
    BY <1>a, <2>1, LastIs
<1>5. CASE ErrWait("sender")
  BY <1>a, <1>5, LocalStepForm DEF ErrWait
<1>6. CASE ErrExit("sender")
  BY <1>a, <1>6, ExitStepForm DEF ErrExit
<1> QED
  BY <1>1, <1>2, <1>3, <1>4, <1>5, <1>6 DEF errHandling

HIDE DEF SenderDoes, PlainQueue, Tracked, ReplyWay, EndStates, connection

-----------------------------------------------------------------------------
(* What a step of the receiver does.                                        *)
Reads ==
  /\ pc["receiver"] \notin Tracked
  /\ stream # <<>> /\ stream' \in {Tail(stream), <<>>}
  /\ pc'["receiver"] \in Tracked \ {"r_print"} =>
       /\ pc'["receiver"] = "r_reply1"
       /\ Head(stream).type = "REPLY" /\ rx'.type = "REPLY"

ReceiverDoes ==
  /\ Others("receiver")
  /\ PlainQueue
  /\ \/ fsm' = fsm
     \/ fsm' \in EndStates
     \/ pc["receiver"] = "r_okSet" /\ fsm' = fsm_OPEN /\ rx \in acted'
     \/ pc["receiver"] = "r_nokOpen" /\ fsm' = fsm_OPEN
     \/ pc["receiver"] = "r_nokStart" /\ fsm' = fsm_START
  /\ pc["receiver"] \in {"r_okSet", "r_nokOpen", "r_nokStart"} =>
       pc'["receiver"] \notin Tracked /\ queue' = queue
  /\ acted \subseteq acted'
  /\ \/ acted' = acted
     \/ pc["receiver"] = "r_okSet" /\ fsm' = fsm_OPEN
     \/ pc["receiver"] = "r_print" /\ acted' = acted \cup {rx}
  /\ pc'["receiver"] = "r_print" => rx'.type = "MSG"
  /\ pc'["receiver"] \in {"r_okSet", "r_nokGet"} =>
       /\ pc["receiver"] = "r_reply1" /\ UNCHANGED <<fsm, queue, rx>>
       /\ fsm \in {fsm_AUTH_SENDED, fsm_JOIN_ATEMPT}
       /\ pc'["receiver"] = "r_okSet" => rx.ok
  /\ pc'["receiver"] = "r_nokOpen" =>
       /\ pc["receiver"] = "r_nokGet" /\ UNCHANGED <<fsm, queue, rx>>
       /\ fsm = fsm_JOIN_ATEMPT
  /\ pc'["receiver"] = "r_nokStart" =>
       /\ pc["receiver"] = "r_nokGet" /\ UNCHANGED <<fsm, queue, rx>>
       /\ fsm # fsm_JOIN_ATEMPT
  /\ Reads \/ (stream' = stream /\ pc'["receiver"] # "r_reply1")
  /\ UNCHANGED <<cmd, sent, answered>>

USE DEF ReceiverDoes, PlainQueue, Tracked, ReplyWay, EndStates, connection

LEMMA TcpDeliveryDoes ==
  ASSUME Typed, TcpDelivery
  PROVE  ReceiverDoes
<1>a. "receiver" \in Threads /\ PcIsFunction
  BY DEF Threads, Typed
<1>1. PICK rest \in {Tail(stream), <<>>} : TcpReceive(Head(stream), rest)
  BY DEF TcpDelivery
<1> DEFINE m == Head(stream)
           to == IF DiscardedInStart(m, fsm) THEN "r_while" ELSE TcpHandlerOf(m)
<1>2. /\ pc["receiver"] = "r_recv" /\ pc'["receiver"] = to /\ Others("receiver")
      /\ rx' = m /\ stream' = rest
      /\ UNCHANGED <<fsm, queue, cmd, acted, sent, answered>>
  BY <1>a, <1>1, GotoForm DEF TcpReceive, interface, mainVars
<1>3. /\ to \in {"r_while", "r_reply1", "r_print", "r_byeSet", "r_err", "r_unknown"}
      /\ to = "r_reply1" => m.type = "REPLY"
      /\ to = "r_print" => m.type = "MSG"
  BY DEF TcpHandlerOf
<1>4. stream # <<>>
  BY DEF TcpDelivery
<1> HIDE DEF to, m
<1>5. Reads
  BY <1>1, <1>2, <1>3, <1>4 DEF Reads, m
<1>6. PlainQueue
  BY <1>2
<1>7. pc'["receiver"] = "r_print" => rx'.type = "MSG"
  BY <1>2, <1>3
<1> HIDE DEF Reads, PlainQueue
<1> QED
  BY <1>2, <1>3, <1>5, <1>6, <1>7

LEMMA TcpReplyDoes ==
  ASSUME Typed, TcpReply, UNCHANGED connection
  PROVE  ReceiverDoes
<1>a. "receiver" \in Threads /\ PcIsFunction
  BY DEF Threads, Typed
<1> DEFINE to == IF fsm \notin {fsm_AUTH_SENDED, fsm_JOIN_ATEMPT} THEN "r_sigMain"
                 ELSE IF rx.ok THEN "r_okSet" ELSE "r_nokGet"
<1>1. /\ pc["receiver"] = "r_reply1" /\ pc'["receiver"] = to /\ Others("receiver")
      /\ UNCHANGED <<fsm, queue, cmd, rx, acted>>
  BY <1>a, LocalStepForm DEF TcpReply
<1>2. /\ to \in {"r_sigMain", "r_okSet", "r_nokGet"}
      /\ to # "r_sigMain" => fsm \in {fsm_AUTH_SENDED, fsm_JOIN_ATEMPT}
      /\ to = "r_okSet" => rx.ok
  OBVIOUS
<1> HIDE DEF to
<1> QED
  BY <1>1, <1>2

LEMMA TcpReplyOkDoes ==
  ASSUME Typed, TcpReplyOk, UNCHANGED connection
  PROVE  ReceiverDoes
<1>a. "receiver" \in Threads /\ PcIsFunction
  BY DEF Threads, Typed
<1>1. /\ pc["receiver"] = "r_okSet" /\ pc'["receiver"] = "r_sigMain"
      /\ Others("receiver") /\ fsm' = fsm_OPEN /\ acted' = acted \cup {rx}
      /\ UNCHANGED <<queue, cmd, rx>>
  BY <1>a, GotoForm DEF TcpReplyOk, mainVars
<1> QED
  BY <1>1

LEMMA printIncomingMessageDoes ==
  ASSUME Typed, printIncomingMessage, UNCHANGED connection
  PROVE  ReceiverDoes
<1>a. "receiver" \in Threads /\ PcIsFunction
  BY DEF Threads, Typed
<1>1. /\ pc["receiver"] = "r_print" /\ pc'["receiver"] = "r_while"
      /\ Others("receiver") /\ acted' = acted \cup {rx}
      /\ UNCHANGED <<fsm, queue, cmd, rx>>
  BY <1>a, GotoForm DEF printIncomingMessage, interface, mainVars
<1> QED
  BY <1>1

LEMMA ReceiverLoopDoes ==
  ASSUME Typed, ReceiverLoop, UNCHANGED connection
  PROVE  ReceiverDoes
<1>a. "receiver" \in Threads /\ PcIsFunction
  BY DEF Threads, Typed
<1>1. /\ pc["receiver"] = "r_while" /\ pc'["receiver"] \in {"r_recv", "r_end"}
      /\ Others("receiver") /\ UNCHANGED <<fsm, queue, cmd, acted>>
  BY <1>a, GotoForm DEF ReceiverLoop, interface, mainVars
<1> QED
  BY <1>1

(* Two steps that lock the queue, and empty it or queue a last message.     *)
LEMMA InQueueDoes ==
  ASSUME Typed, NEW from, NEW in, NEW q, NEW to, InQueue(from, in, q, to),
         from \notin Tracked, in \notin Tracked, to \notin Tracked,
         q = <<>> \/ \E m \in LastMessages : q = Append(queue, m),
         UNCHANGED connection
  PROVE  ReceiverDoes
<1>a. "receiver" \in Threads /\ PcIsFunction
  BY DEF Threads, Typed
<1>1. CASE LockStep("receiver", from, in)
  BY <1>a, <1>1, LockStepForm
<1>2. CASE HolderStep("receiver", in, q, "none", to)
  <2>1. /\ pc["receiver"] = in /\ pc'["receiver"] = to /\ Others("receiver")
        /\ queue' = q /\ UNCHANGED <<fsm, cmd, rx, acted>>
    BY <1>a, <1>2, HolderStepForm
  <2>2. PlainQueue
    BY <2>1
  <2> HIDE DEF PlainQueue
  <2> QED
    BY <2>1, <2>2
<1> QED
  BY <1>1, <1>2 DEF InQueue

LEMMA TcpHandleReplyDoes ==
  ASSUME Typed, TcpHandleReply, UNCHANGED connection
  PROVE  ReceiverDoes
<1>a. "receiver" \in Threads /\ PcIsFunction
  BY DEF Threads, Typed
<1>1. CASE TcpReply
  BY <1>1, TcpReplyDoes
<1>2. CASE TcpReplyOk
  BY <1>2, TcpReplyOkDoes
<1>3. CASE TcpReplyNok
  BY <1>a, <1>3, LocalStepForm DEF TcpReplyNok
<1>4. CASE TcpReplyNokOpen
  BY <1>a, <1>4, SetStepForm DEF TcpReplyNokOpen
<1>5. CASE TcpReplyNokStart
  BY <1>a, <1>5, SetStepForm DEF TcpReplyNokStart
<1> QED
  BY <1>1, <1>2, <1>3, <1>4, <1>5 DEF TcpHandleReply

LEMMA TcpHandleEndDoes ==
  ASSUME Typed, TcpHandleEnd, UNCHANGED connection
  PROVE  ReceiverDoes
<1>a. "receiver" \in Threads /\ PcIsFunction
  BY DEF Threads, Typed
<1>b. \A m \in LastMessages : \E n \in LastMessages :
        queueAddMessage(queue, m) = Append(queue, n)
  BY DEF queueAddMessage
<1>1. CASE ByeSet
  BY <1>a, <1>1, SetStepForm DEF ByeSet
<1>2. CASE TcpErrPop
  BY <1>2, InQueueDoes DEF TcpErrPop
<1>3. CASE TcpErrBye
  BY <1>b, <1>3, InQueueDoes, LastIs DEF TcpErrBye
<1>4. CASE ErrSigEmpty
  BY <1>a, <1>4, SignalStepForm DEF ErrSigEmpty, Conditions, Waits
<1>5. CASE ErrSigRec
  BY <1>a, <1>5, SignalStepForm DEF ErrSigRec, Conditions, Waits
<1>6. CASE ErrSetErr
  BY <1>a, <1>6, SetStepForm DEF ErrSetErr
<1>7. CASE UnknownSet
  BY <1>a, <1>7, SetStepForm DEF UnknownSet
<1>8. CASE TcpUnknownPop
  BY <1>8, InQueueDoes DEF TcpUnknownPop
<1>9. CASE TcpUnknownErr
  <2>1. CASE InQueue("r_unkErr", "r_unkErrAdd", queueAddMessage(queue, ErrMessage),
                     "r_unkBye")
    BY <1>b, <2>1, InQueueDoes, LastIs
  <2>2. CASE LockStep("receiver", "r_unkErr", "e_set")
    BY <1>a, <2>2, LockStepForm
  <2> QED
    BY <1>9, <2>1, <2>2 DEF TcpUnknownErr
<1>10. CASE TcpUnknownBye
  BY <1>b, <1>10, InQueueDoes, LastIs DEF TcpUnknownBye
<1>11. CASE UnknownSigEmpty
  BY <1>a, <1>11, SignalStepForm DEF UnknownSigEmpty, Conditions, Waits
<1>12. CASE UnknownSigRec
  BY <1>a, <1>12, SignalStepForm DEF UnknownSigRec, Conditions, Waits
<1>13. CASE SigMain
  BY <1>a, <1>13, SignalStepForm DEF SigMain, Conditions, Waits
<1> QED
  BY <1>1, <1>2, <1>3, <1>4, <1>5, <1>6, <1>7, <1>8, <1>9, <1>10, <1>11, <1>12,
     <1>13 DEF TcpHandleEnd

LEMMA TcpReceiverLocalDoes ==
  ASSUME Typed, TcpReceiverLocal, UNCHANGED connection
  PROVE  ReceiverDoes
<1>a. "receiver" \in Threads /\ PcIsFunction
  BY DEF Threads, Typed
<1>1. CASE ReceiveTimeout
  BY <1>a, <1>1, LocalStepForm DEF ReceiveTimeout
<1> QED
  BY <1>1, ReceiverLoopDoes, TcpHandleReplyDoes, printIncomingMessageDoes,
     TcpHandleEndDoes DEF TcpReceiverLocal

LEMMA ReceiverErrDoes ==
  ASSUME Typed, errHandling("receiver"), UNCHANGED connection
  PROVE  ReceiverDoes
<1>a. "receiver" \in Threads /\ PcIsFunction
  BY DEF Threads, Typed
<1>1. CASE ErrSet("receiver")
  BY <1>a, <1>1, SetStepForm DEF ErrSet
<1>2. CASE ErrSignal("receiver")
  BY <1>a, <1>2, SignalStepForm DEF ErrSignal, Conditions, Waits
<1>3. CASE ErrPop("receiver")
  BY <1>a, <1>3, LockedQueueStepForm DEF ErrPop
<1>4. CASE ErrBye("receiver")
  <2>1. /\ pc["receiver"] = "e_bye" /\ pc'["receiver"] = "e_wait"
        /\ Others("receiver")
        /\ queue' = Append(queue, ByeMessage) /\ UNCHANGED <<fsm, cmd, rx, acted>>
    BY <1>a, <1>4, LockedQueueStepForm DEF ErrBye, sendBye, queueAddMessage
  <2> QED
    BY <1>a, <2>1, LastIs
<1>5. CASE ErrWait("receiver")
  BY <1>a, <1>5, LocalStepForm DEF ErrWait
<1>6. CASE ErrExit("receiver")
  BY <1>a, <1>6, ExitStepForm DEF ErrExit
<1> QED
  BY <1>1, <1>2, <1>3, <1>4, <1>5, <1>6 DEF errHandling

HIDE DEF ReceiverDoes, PlainQueue, Tracked, ReplyWay, EndStates, connection

-----------------------------------------------------------------------------
(* The rest: the server writes, a thread wakes for no reason, the list is   *)
(* corrupted, nothing happens.                                              *)
ServerDoes ==
  /\ pc' = pc /\ PcIsFunction'
  /\ UNCHANGED <<fsm, queue, cmd, rx, acted, sent>>
  /\ \E m \in Written :
       /\ stream' = Append(stream, m)
       /\ answered' = answered + One(m.type = "REPLY")

Wakes ==
  /\ PcIsFunction' /\ \A u \in Threads : Keeps(u)
  /\ UNCHANGED <<fsm, queue, cmd, rx, acted, connection>>

LEMMA ServerDoesIt == Typed /\ Server => ServerDoes
<1> SUFFICES ASSUME Typed, Server PROVE ServerDoes
  OBVIOUS
<1>1. PICK k \in ServerKinds, ok \in BOOLEAN :
        ServerWrites([type |-> k, id |-> 0, ok |-> ok])
  BY DEF Server
<1> DEFINE m == [type |-> k, id |-> 0, ok |-> ok]
<1>2. m \in Written
  BY DEF Written
<1>3. /\ stream' = Append(stream, m)
      /\ answered' = IF m.type = "REPLY" THEN answered + 1 ELSE answered
      /\ pc' = pc /\ UNCHANGED <<fsm, queue, cmd, rx, acted, sent>>
  BY <1>1 DEF ServerWrites, interface, mainVars, recvVars
<1>4. answered' = answered + One(m.type = "REPLY")
  BY <1>3 DEF One, Typed
<1>5. PcIsFunction'
  BY <1>3 DEF PcIsFunction, Typed
<1> QED
  BY <1>2, <1>3, <1>4, <1>5 DEF ServerDoes

LEMMA TcpSpuriousWakeupDoes ==
  ASSUME Typed, TcpSpuriousWakeup, UNCHANGED connection
  PROVE  Wakes
<1>1. PICK t \in Threads : /\ pc[t] \in DOMAIN Resume
                           /\ pc' = [pc EXCEPT ![t] = Resume[pc[t]]]
  BY DEF TcpSpuriousWakeup
<1>2. PcIsFunction
  BY DEF Typed
<1>3. pc'[t] = Resume[pc[t]] /\ Others(t)
  BY <1>1, <1>2, AssignForm
<1>4. Keeps(t)
  BY <1>1, <1>3, ResumeIs DEF Keeps
<1> QED
  BY <1>3, <1>4 DEF Wakes, Others, TcpSpuriousWakeup, interface, mainVars, recvVars

LEMMA NextDoes ==
  ASSUME Typed, [Next]_allVars
  PROVE  MainDoes \/ SenderDoes \/ ReceiverDoes \/ ServerDoes \/ Wakes
<1>1. CASE Local(Race) \/ UNCHANGED allVars
  BY <1>1 DEF Local, Race, allVars, vars, interface, mainVars, recvVars, Wakes, Keeps,
              Typed, PcIsFunction
<1>2. CASE Local(TcpSpuriousWakeup)
  BY <1>2, TcpSpuriousWakeupDoes DEF Local
<1>3. CASE Local(MainStep) \/ Local(UserInput) \/ Local(Sigint) \/ Local(sigintHandler)
  BY <1>3, MainStepDoes, UserInputDoes, sigintHandlerDoes DEF Local
<1>4. CASE \/ Local(TcpSenderLocal) \/ Remote(TcpTransmission) \/ Local(SocketError)
           \/ Local(errHandling("sender"))
  BY <1>4, TcpSenderLocalDoes, TcpSendDoes, SocketErrorDoes, SenderErrDoes
     DEF Local, Remote, TcpTransmission
<1>5. CASE \/ Local(TcpReceiverLocal) \/ Remote(TcpDelivery)
           \/ Local(errHandling("receiver"))
  BY <1>5, TcpReceiverLocalDoes, TcpDeliveryDoes, ReceiverErrDoes DEF Local, Remote
<1>6. CASE Remote(Server)
  BY <1>6, ServerDoesIt DEF Remote
<1> QED
  BY <1>1, <1>2, <1>3, <1>4, <1>5, <1>6 DEF Next

-----------------------------------------------------------------------------
(* Types.                                                                   *)
LEMMA EntryIs ==
  ASSUME NEW m \in Entries
  PROVE  m.type \in Kinds /\ (m.msgFlags = "AUTH" <=> m.type = "AUTH")
<1>1. CASE \E c \in UserCommandSet : m = UserMessage(c)
  <2>1. PICK c \in UserCommandSet : m = UserMessage(c)
    BY <1>1
  <2>2. m.type = TypeOf(c) /\ m.msgFlags = FlagsOf(c)
    BY <2>1 DEF UserMessage, createMessage
  <2> QED
    BY <2>2 DEF TypeOf, FlagsOf, Kinds, UserCommandSet
<1>2. CASE m \in {ByeMessage, ErrMessage}
  BY <1>2 DEF ByeMessage, ErrMessage, createMessage, Kinds
<1> QED
  BY <1>1, <1>2 DEF Entries

LEMMA LastEntry ==
  /\ LastMessages \subseteq Entries
  /\ \A m \in LastMessages : m.type \in {"BYE", "ERR"}
BY DEF LastMessages, Entries, ByeMessage, ErrMessage, createMessage

LEMMA UserEntry ==
  ASSUME NEW c \in UserCommandSet
  PROVE  /\ UserMessage(c) \in Entries
         /\ UserMessage(c).type = "AUTH" <=> c = "AUTH"
         /\ UserMessage(c).type \in Data => c \in Data
<1>1. UserMessage(c).type = TypeOf(c)
  BY DEF UserMessage, createMessage
<1> QED
  BY <1>1 DEF Entries, TypeOf, Data, UserCommandSet

LEMMA InitTyped == Init => Typed
BY DEF Init, Typed, PcIsFunction, Threads, States, UserCommandSet

LEMMA NextTyped == Typed /\ [Next]_allVars => Typed'
<1> SUFFICES ASSUME Typed, [Next]_allVars PROVE Typed'
  OBVIOUS
<1>a. /\ fsm_AUTH_W82 \in States /\ fsm_AUTH_SENDED \in States /\ fsm_OPEN \in States
      /\ fsm_JOIN_ATEMPT \in States /\ fsm_START \in States /\ EndStates \subseteq States
  BY DEF States
<1>b. PlainQueue => queue' \in Seq(Entries)
  <2>1. ASSUME NEW m \in LastMessages PROVE Append(queue, m) \in Seq(Entries)
    BY LastEntry DEF Typed
  <2>2. <<>> \in Seq(Entries)
    BY EmptySeq
  <2> QED
    BY <2>1, <2>2 DEF PlainQueue, Typed
<1>c. queue # <<>> => Tail(queue) \in Seq(Entries)
  BY DEF Typed
<1>1. CASE MainDoes
  <2>1. queue' \in Seq(Entries)
    BY <1>1, <1>b, UserEntry DEF MainDoes, Typed
  <2> QED
    BY <1>1, <1>a, <2>1 DEF MainDoes, Others, Typed, connection
<1>2. CASE SenderDoes
  <2>1. queue' \in Seq(Entries)
    BY <1>2, <1>b, <1>c DEF SenderDoes, Typed
  <2>2. sent' \in Seq(Kinds)
    <3>1. CASE Transmits
      <4>1. Head(queue) \in Entries
        BY <3>1 DEF Transmits, Typed
      <4>2. Head(queue).type \in Kinds
        BY <4>1, EntryIs
      <4> QED
        BY <3>1, <4>2 DEF Transmits, Typed
    <3> QED
      BY <1>2, <3>1 DEF SenderDoes, Typed
  <2> QED
    BY <1>2, <1>a, <2>1, <2>2 DEF SenderDoes, Others, Typed
<1>3. CASE ReceiverDoes
  <2>1. stream' \in Seq(Written)
    <3>1. CASE Reads
      <4>1. stream # <<>> /\ (stream' = Tail(stream) \/ stream' = <<>>)
        BY <3>1 DEF Reads
      <4>2. stream \in Seq(Written) /\ <<>> \in Seq(Written)
        BY EmptySeq DEF Typed
      <4>3. Tail(stream) \in Seq(Written)
        BY <4>1, <4>2
      <4> QED
        BY <4>1, <4>2, <4>3
    <3> QED
      BY <1>3, <3>1 DEF ReceiverDoes, Typed
  <2>2. /\ PcIsFunction' /\ fsm' \in States /\ queue' \in Seq(Entries)
        /\ UNCHANGED <<cmd, sent, answered>>
    BY <1>3, <1>a, <1>b DEF ReceiverDoes, Others, Typed
  <2> QED
    BY <2>1, <2>2 DEF Typed
<1>4. CASE ServerDoes
  <2>1. PICK m \in Written :
          /\ stream' = Append(stream, m)
          /\ answered' = answered + One(m.type = "REPLY")
    BY <1>4 DEF ServerDoes
  <2>2. answered' \in Nat
    BY <2>1 DEF One, Typed
  <2>3. stream' \in Seq(Written)
    BY <2>1 DEF Typed
  <2> QED
    BY <1>4, <2>2, <2>3 DEF ServerDoes, Typed
<1>5. CASE Wakes
  BY <1>5 DEF Wakes, Typed, connection
<1> QED
  BY <1>1, <1>2, <1>3, <1>4, <1>5, NextDoes

-----------------------------------------------------------------------------
(* Data only after the login.                                               *)
NoData(q)  == \A i \in DOMAIN q : q[i].type \notin Data
NoneSent(s) == \A i \in DOMAIN s : s[i] \notin Data

LEMMA DataAfterLoginIs ==
  DataAfterLogin <=> Authenticated \/ (NoData(queue) /\ NoneSent(sent))
BY DEF DataAfterLogin, NoData, NoneSent, Data

LEMMA PlainQueueData ==
  ASSUME Typed, PlainQueue, NoData(queue)
  PROVE  NoData(queue')
<1>1. CASE \E m \in LastMessages : queue' = Append(queue, m)
  <2>1. PICK m \in LastMessages : queue' = Append(queue, m)
    BY <1>1
  <2>2. m \in Entries /\ m.type \notin Data
    BY LastEntry DEF Data
  <2> QED
    BY <2>1, <2>2 DEF NoData, Typed
<1> QED
  BY <1>1 DEF PlainQueue, NoData

LEMMA TailData ==
  ASSUME Typed, queue # <<>>, NoData(queue)
  PROVE  NoData(Tail(queue))
BY DEF NoData, Typed

LEMMA NextLoginInv == Typed /\ LoginInv /\ [Next]_allVars => LoginInv'
<1> SUFFICES ASSUME Typed, LoginInv, [Next]_allVars PROVE LoginInv'
  OBVIOUS
<1> USE DEF Threads
<1>a. /\ fsm_START \notin {fsm_OPEN, fsm_JOIN_ATEMPT}
      /\ fsm_AUTH_W82 \notin {fsm_OPEN, fsm_JOIN_ATEMPT}
      /\ fsm_AUTH_SENDED \notin {fsm_OPEN, fsm_JOIN_ATEMPT}
      /\ \A s \in EndStates : s \notin {fsm_OPEN, fsm_JOIN_ATEMPT}
  BY DEF fsm_START, fsm_AUTH_W82, fsm_AUTH_SENDED, fsm_OPEN, fsm_JOIN_ATEMPT,
         EndStates, fsm_EMPTY_Q_BYE, fsm_ERR, fsm_SIGINT_BYE, fsm_END
<1>b. acted \subseteq acted' => (Authenticated => Authenticated')
  BY DEF Authenticated
<1>c. Authenticated \/ (NoData(queue) /\ NoneSent(sent))
  BY DataAfterLoginIs DEF LoginInv
<1>d. Authenticated' \/ (NoData(queue') /\ NoneSent(sent')) => DataAfterLogin'
  BY DEF DataAfterLogin, NoData, NoneSent, Data
<1> DEFINE Rest ==
  /\ fsm \in {fsm_OPEN, fsm_JOIN_ATEMPT} => Authenticated
  /\ pc["sender"] = "s_join" => Authenticated
  /\ pc["receiver"] = "r_nokOpen" => Authenticated
  /\ pc["receiver"] \in ReplyWay \cup {"r_reply1"} => rx.type = "REPLY"
  /\ pc["receiver"] = "r_okSet" => rx.ok
  /\ pc["main"] \in {"m_lock", "m_add"} /\ cmd \in Data => Authenticated
  /\ pc["main"] = "m_authSet" => cmd = "AUTH"
<1>e. Rest /\ (LoginInv' <=> DataAfterLogin' /\ Rest')
  BY DEF LoginInv
<1>1. CASE MainDoes
  <2>1. acted' = acted /\ rx' = rx /\ sent' = sent
    BY <1>1 DEF MainDoes, connection
  <2>2. Authenticated' \/ NoData(queue')
    <3>1. CASE /\ pc["main"] = "m_add"
               /\ queue' = Append(queue, UserMessage(cmd))
      <4>1. UserMessage(cmd) \in Entries
            /\ (Authenticated \/ UserMessage(cmd).type \notin Data)
        BY <3>1, <1>e, UserEntry DEF Typed
      <4> QED
        BY <1>b, <1>c, <2>1, <3>1, <4>1 DEF NoData, Typed
    <3> QED
      BY <1>1, <1>b, <1>c, <2>1, <3>1, PlainQueueData DEF MainDoes
  <2>3. DataAfterLogin'
    BY <1>b, <1>c, <1>d, <2>1, <2>2
  <2>4. Keeps("sender") /\ Keeps("receiver")
    BY <1>1 DEF MainDoes, Others
  <2>5. Rest'
    BY <1>1, <1>a, <1>b, <1>e, <2>1, <2>4
       DEF MainDoes, Keeps, Tracked, ReplyWay, Data
  <2> QED
    BY <1>e, <2>3, <2>5
<1>2. CASE SenderDoes
  <2>1. acted' = acted /\ rx' = rx /\ cmd' = cmd
    BY <1>2 DEF SenderDoes
  <2>2. Authenticated' \/ NoData(queue')
    BY <1>2, <1>b, <1>c, <2>1, PlainQueueData, TailData DEF SenderDoes
  <2>3. Authenticated' \/ NoneSent(sent')
    <3>1. CASE Transmits
      <4>1. /\ Head(queue) \in Entries /\ Head(queue) = queue[1] /\ 1 \in DOMAIN queue
            /\ sent' = Append(sent, Head(queue).type)
        BY <3>1 DEF Transmits, Typed
      <4>2. Head(queue).type \in Kinds
            /\ (Authenticated \/ Head(queue).type \notin Data)
        BY <1>c, <4>1, EntryIs DEF NoData
      <4> QED
        BY <1>b, <1>c, <2>1, <4>1, <4>2 DEF NoneSent, Typed
    <3> QED
      BY <1>2, <1>b, <1>c, <2>1, <3>1 DEF SenderDoes
  <2>4. DataAfterLogin'
    BY <1>d, <2>2, <2>3
  <2>5. Keeps("main") /\ Keeps("receiver")
    BY <1>2 DEF SenderDoes, Others
  <2>6. Rest'
    BY <1>2, <1>a, <1>b, <1>e, <2>1, <2>5
       DEF SenderDoes, Keeps, Tracked, ReplyWay
  <2> QED
    BY <1>e, <2>4, <2>6
<1>3. CASE ReceiverDoes
  <2>1. cmd' = cmd /\ sent' = sent /\ acted \subseteq acted'
    BY <1>3 DEF ReceiverDoes
  <2>2. DataAfterLogin'
    BY <1>3, <1>b, <1>c, <1>d, <2>1, PlainQueueData DEF ReceiverDoes
  <2>3. Keeps("main") /\ Keeps("sender")
    BY <1>3 DEF ReceiverDoes, Others
  <2>4. pc["receiver"] = "r_okSet" /\ rx \in acted' => Authenticated'
    BY <1>e DEF Authenticated, ReplyWay
  <2>5. fsm' \in {fsm_OPEN, fsm_JOIN_ATEMPT} => Authenticated'
    BY <1>3, <1>a, <1>b, <1>e, <2>1, <2>4 DEF ReceiverDoes
  <2>6. /\ pc'["receiver"] = "r_nokOpen" => Authenticated'
        /\ pc'["receiver"] \in ReplyWay \cup {"r_reply1"} => rx'.type = "REPLY"
        /\ pc'["receiver"] = "r_okSet" => rx'.ok
    BY <1>3, <1>b, <1>e, <2>1 DEF ReceiverDoes, Reads, Tracked, ReplyWay
  <2> QED
    BY <1>b, <1>e, <2>1, <2>2, <2>3, <2>5, <2>6 DEF Keeps, Tracked
<1>4. CASE ServerDoes
  BY <1>4, <1>b, <1>c, <1>d, <1>e DEF ServerDoes
<1>5. CASE Wakes
  <2>1. /\ Keeps("main") /\ Keeps("sender") /\ Keeps("receiver")
        /\ UNCHANGED <<fsm, queue, cmd, rx, acted, sent>>
    BY <1>5 DEF Wakes, connection
  <2> QED
    BY <1>b, <1>c, <1>d, <1>e, <2>1 DEF Keeps, Tracked, ReplyWay
<1> QED
  BY <1>1, <1>2, <1>3, <1>4, <1>5, NextDoes

(* JOIN and MSG are queued and transmitted only after a positive REPLY was  *)
(* acted on, with no mutex to rely on: for every command, message of the    *)
(* server and interleaving.                                                 *)
THEOREM DataAfterLoginHolds == Spec => []DataAfterLogin
<1>1. Init => LoginInv
  BY DEF Init, LoginInv, DataAfterLogin, fsm_START, fsm_OPEN, fsm_JOIN_ATEMPT, ReplyWay
<1>2. LoginInv => DataAfterLogin
  BY DEF LoginInv
<1> QED
  BY <1>1, <1>2, InitTyped, NextTyped, NextLoginInv, PTL DEF Spec

-----------------------------------------------------------------------------
(* No way back in front of the login.                                       *)
LEMMA PlainQueueAuth ==
  ASSUME Typed, PlainQueue
  PROVE  AuthIn(queue') \subseteq AuthIn(queue)
<1>1. CASE \E m \in LastMessages : queue' = Append(queue, m)
  <2>1. PICK m \in LastMessages : queue' = Append(queue, m)
    BY <1>1
  <2>2. m \in Entries /\ m.type # "AUTH"
    BY LastEntry
  <2> QED
    BY <2>1, <2>2 DEF AuthIn, Typed
<1> QED
  BY <1>1 DEF PlainQueue, AuthIn

LEMMA UserAddAuth ==
  ASSUME Typed, queue' = Append(queue, UserMessage(cmd))
  PROVE  AuthIn(queue') =
           AuthIn(queue) \cup (IF cmd = "AUTH" THEN {Len(queue) + 1} ELSE {})
<1>1. UserMessage(cmd) \in Entries /\ (UserMessage(cmd).type = "AUTH" <=> cmd = "AUTH")
  BY UserEntry DEF Typed
<1> QED
  BY <1>1 DEF AuthIn, Typed

LEMMA TailAuth ==
  ASSUME Typed, queue # <<>>, NEW i \in AuthIn(Tail(queue))
  PROVE  i \in Nat \ {0} /\ i + 1 \in AuthIn(queue)
<1>1. i \in 1 .. Len(queue) - 1 /\ Tail(queue)[i] = queue[i + 1]
  BY DEF AuthIn, Typed
<1> QED
  BY <1>1 DEF AuthIn, Typed

(* What the steps of a thread do to the AUTHs waiting to be sent.           *)
LEMMA MainWaiting ==
  ASSUME Typed, SessionInv, MainDoes
  PROVE  \/ Waiting' \subseteq Waiting
         \/ /\ pc["main"] = "m_add" /\ cmd = "AUTH" /\ pc'["main"] \notin Tracked
            /\ \A i, j \in Waiting' : i = j
<1>1. Keeps("sender")
  BY DEF MainDoes, Others, Threads
<1>2. pc'["sender"] \in {"s_send", "s_pop"} <=> pc["sender"] \in {"s_send", "s_pop"}
  BY <1>1 DEF Keeps, Tracked
<1>3. CASE PlainQueue
  BY <1>2, <1>3, PlainQueueAuth DEF Waiting
<1>4. CASE /\ pc["main"] = "m_add" /\ pc'["main"] \notin Tracked
           /\ queue' = Append(queue, UserMessage(cmd))
  <2>1. CASE cmd = "AUTH"
    <3>1. Waiting = {}
      BY <1>4, <2>1 DEF SessionInv, MainHasAuth
    <3>2. AuthIn(queue') = AuthIn(queue) \cup {Len(queue) + 1}
      BY <1>4, <2>1, UserAddAuth
    <3>3. Waiting' \subseteq {Len(queue) + 1}
      BY <1>2, <3>1, <3>2 DEF Waiting
    <3> QED
      BY <1>4, <2>1, <3>3
  <2>2. CASE cmd # "AUTH"
    <3>1. AuthIn(queue') = AuthIn(queue)
      BY <1>4, <2>2, UserAddAuth
    <3> QED
      BY <1>2, <3>1 DEF Waiting
  <2> QED
    BY <2>1, <2>2
<1> QED
  BY <1>3, <1>4 DEF MainDoes

LEMMA SenderWaiting ==
  ASSUME Typed, SessionInv, SenderDoes
  PROVE  /\ \A i, j \in Waiting' : i = j
         /\ Waiting = {} => Waiting' = {}
         /\ Waiting \subseteq {1} /\ pc["sender"] = "s_authSet" => Waiting' = {}
         /\ pc'["sender"] \in {"s_authGet", "s_authSet", "s_join"} => Waiting' = Waiting
<1>1. \A i, j \in Waiting : i = j
  BY DEF SessionInv
<1>2. CASE pc["sender"] = "s_pop" /\ pc'["sender"] \notin Tracked
           /\ queue # <<>> /\ queue' = Tail(queue)
  <2>1. \A i \in Waiting' : i \in Nat \ {0} /\ i + 1 \in Waiting
    <3>1. Waiting' = AuthIn(Tail(queue))
      BY <1>2 DEF Waiting, Tracked
    <3>2. Waiting = AuthIn(queue) \ {1}
      BY <1>2 DEF Waiting
    <3> QED
      BY <1>2, <3>1, <3>2, TailAuth
  <2>2. \A i, j \in Waiting' : i = j
    BY <1>1, <2>1
  <2> QED
    BY <1>2, <2>1, <2>2 DEF Tracked
<1>3. CASE pc["sender"] # "s_pop" /\ pc'["sender"] = "s_send" /\ fsm = fsm_OPEN
           /\ queue # <<>> /\ queue' = Tail(queue)
  <2>0. pc["sender"] \notin {"s_send", "s_pop", "s_authSet"}
    BY <1>3 DEF SenderDoes, SessionInv, EndStates, fsm_OPEN, fsm_AUTH_W82,
                fsm_EMPTY_Q_BYE, fsm_ERR, fsm_SIGINT_BYE, fsm_END
  <2>1. Waiting = {} /\ Waiting = AuthIn(queue)
    BY <1>3, <2>0 DEF SenderDoes, SessionInv, Waiting
  <2>2. AuthIn(Tail(queue)) = {}
    BY <1>3, <2>1, TailAuth
  <2>3. Waiting' = {}
    BY <1>3, <2>2 DEF Waiting
  <2> QED
    BY <1>3, <2>3
<1>4. CASE (pc["sender"] = "s_pop" /\ pc'["sender"] = "s_pop" /\ queue' = queue)
           \/ (pc["sender"] # "s_pop" /\ PlainQueue)
  <2>1. AuthIn(queue') \subseteq AuthIn(queue)
    BY <1>4, PlainQueueAuth
  <2>2. pc["sender"] \in {"s_send", "s_pop"} => pc'["sender"] \in {"s_send", "s_pop"}
    BY <1>4 DEF SenderDoes
  <2>3. Waiting' \subseteq Waiting
    BY <2>1, <2>2 DEF Waiting
  <2>4. pc["sender"] = "s_authSet" => Waiting' \subseteq Waiting \ {1}
    BY <2>1 DEF Waiting, SenderDoes
  <2>5. pc'["sender"] \in {"s_authGet", "s_authSet", "s_join"} => Waiting' = Waiting
    BY DEF SenderDoes, Waiting, Tracked
  <2> QED
    BY <1>1, <2>3, <2>4, <2>5
<1> QED
  BY <1>2, <1>3, <1>4 DEF SenderDoes

LEMMA ReceiverWaiting ==
  ASSUME Typed, ReceiverDoes
  PROVE  Waiting' \subseteq Waiting
<1>1. Keeps("sender") /\ AuthIn(queue') \subseteq AuthIn(queue)
  BY PlainQueueAuth DEF ReceiverDoes, Others, Threads
<1> QED
  BY <1>1 DEF Waiting, Keeps, Tracked

LEMMA NextSessionInv == Typed /\ SessionInv /\ [Next]_allVars => SessionInv'
<1> SUFFICES ASSUME Typed, SessionInv, [Next]_allVars PROVE SessionInv'
  OBVIOUS
<1> USE DEF fsm_START, fsm_AUTH_W82, fsm_AUTH_SENDED, fsm_OPEN, fsm_JOIN_ATEMPT,
            fsm_EMPTY_Q_BYE, fsm_ERR, fsm_SIGINT_BYE, fsm_END, EndStates, Threads
<1>1. CASE MainDoes
  <2>1. Keeps("sender") /\ Keeps("receiver")
    BY <1>1 DEF MainDoes, Others
  <2>2. CASE Waiting' \subseteq Waiting
    BY <1>1, <2>1, <2>2
       DEF MainDoes, SessionInv, MainHasAuth, Keeps, Tracked, ReplyWay
  <2>3. CASE /\ pc["main"] = "m_add" /\ cmd = "AUTH" /\ pc'["main"] \notin Tracked
             /\ \A i, j \in Waiting' : i = j
    BY <1>1, <2>1, <2>3
       DEF MainDoes, SessionInv, MainHasAuth, Keeps, Tracked, ReplyWay, Typed, States
  <2> QED
    BY <1>1, <2>2, <2>3, MainWaiting
<1>2. CASE SenderDoes
  <2>1. Keeps("main") /\ Keeps("receiver") /\ cmd' = cmd
    BY <1>2 DEF SenderDoes, Others
  <2>2. (MainHasAuth' <=> MainHasAuth) /\ (pc'["main"] = "m_authSet" <=> pc["main"] = "m_authSet")
    BY <2>1 DEF MainHasAuth, Keeps, Tracked
  <2>3. /\ \A i, j \in Waiting' : i = j
        /\ Waiting = {} => Waiting' = {}
        /\ Waiting \subseteq {1} /\ pc["sender"] = "s_authSet" => Waiting' = {}
        /\ pc'["sender"] \in {"s_authGet", "s_authSet", "s_join"} => Waiting' = Waiting
    BY <1>2, SenderWaiting
  <2>4. pc'["sender"] = "s_authGet" =>
          /\ 1 \in Waiting /\ fsm = fsm_AUTH_W82 /\ fsm' = fsm
          /\ ~MainHasAuth /\ Waiting \subseteq {1} /\ pc["receiver"] \notin ReplyWay
    <3> SUFFICES ASSUME pc'["sender"] = "s_authGet"
                 PROVE  /\ 1 \in Waiting /\ fsm = fsm_AUTH_W82 /\ fsm' = fsm
                        /\ ~MainHasAuth /\ Waiting \subseteq {1}
                        /\ pc["receiver"] \notin ReplyWay
      OBVIOUS
    <3>1. /\ pc["sender"] \notin Tracked /\ fsm' = fsm /\ fsm \in PreOpen
          /\ queue # <<>> /\ Head(queue).msgFlags = "AUTH"
      BY <1>2 DEF SenderDoes
    <3>2. 1 \in DOMAIN queue /\ Head(queue) = queue[1] /\ queue[1] \in Entries
      BY <3>1 DEF Typed
    <3>3. queue[1].type = "AUTH"
      BY <3>1, <3>2, EntryIs
    <3>4. 1 \in Waiting
      BY <3>1, <3>2, <3>3 DEF Waiting, AuthIn, Tracked
    <3>5. fsm = fsm_AUTH_W82
      BY <3>1, <3>4 DEF SessionInv, PreOpen, fsm_W84_REPLY, Typed, States
    <3> QED
      BY <3>1, <3>4, <3>5 DEF SessionInv
  <2>5. pc["sender"] = "s_authSet" => pc["receiver"] \notin ReplyWay
    BY DEF SessionInv
  <2>6. pc["sender"] = "s_join" => pc["receiver"] \notin ReplyWay
    BY DEF SessionInv
  <2>7. pc'["receiver"] \in ReplyWay => pc'["receiver"] = pc["receiver"]
    BY <2>1 DEF Keeps, Tracked
  <2>8. fsm' \in EndStates \/ fsm' = fsm
        \/ (pc["sender"] = "s_authSet" /\ fsm' = fsm_AUTH_SENDED)
        \/ (pc["sender"] = "s_join" /\ fsm' = fsm_JOIN_ATEMPT)
    BY <1>2 DEF SenderDoes
  <2>9. /\ pc'["sender"] = "s_authSet" => pc["sender"] = "s_authGet" /\ fsm' = fsm
        /\ pc'["sender"] = "s_join" => fsm' = fsm /\ fsm = fsm_OPEN
        /\ pc["sender"] \in {"s_authSet", "s_join"} => pc'["sender"] = "s_send"
    BY <1>2 DEF SenderDoes
  <2>10. pc'["sender"] = "s_join" => pc["receiver"] \notin ReplyWay
    BY <2>9 DEF SessionInv
  <2>11. "r_nokStart" \in ReplyWay
    BY DEF ReplyWay
  <2> QED
    BY <2>2, <2>3, <2>4, <2>5, <2>6, <2>7, <2>8, <2>9, <2>10, <2>11 DEF SessionInv
<1>3. CASE ReceiverDoes
  <2>1. Keeps("main") /\ Keeps("sender") /\ cmd' = cmd /\ Waiting' \subseteq Waiting
    BY <1>3, ReceiverWaiting DEF ReceiverDoes, Others
  <2>2. (MainHasAuth' <=> MainHasAuth) /\ (pc'["main"] = "m_authSet" <=> pc["main"] = "m_authSet")
    BY <2>1 DEF MainHasAuth, Keeps, Tracked
  <2>3. pc'["sender"] \in {"s_authGet", "s_authSet", "s_join"} =>
          pc'["sender"] = pc["sender"]
    BY <2>1 DEF Keeps, Tracked
  <2>4. pc'["receiver"] \in ReplyWay =>
          \/ pc["receiver"] \in ReplyWay /\ fsm' = fsm
          \/ fsm \in {fsm_AUTH_SENDED, fsm_JOIN_ATEMPT} /\ fsm' = fsm
    BY <1>3 DEF ReceiverDoes, ReplyWay
  <2>5. pc'["receiver"] = "r_nokStart" => fsm' # fsm_JOIN_ATEMPT
    BY <1>3 DEF ReceiverDoes
  <2>6. fsm' \in EndStates \/ fsm' = fsm
        \/ (pc["receiver"] \in ReplyWay /\ fsm' \in {fsm_OPEN, fsm_START})
    BY <1>3 DEF ReceiverDoes, ReplyWay
  <2>7. pc'["receiver"] \in ReplyWay =>
          pc["sender"] \notin {"s_authGet", "s_authSet", "s_join"}
    BY <2>4 DEF SessionInv
  <2> QED
    BY <2>1, <2>2, <2>3, <2>4, <2>5, <2>6, <2>7 DEF SessionInv
<1>4. CASE ServerDoes
  BY <1>4 DEF ServerDoes, SessionInv, MainHasAuth, Waiting
<1>5. CASE Wakes
  <2>1. /\ Keeps("main") /\ Keeps("sender") /\ Keeps("receiver")
        /\ UNCHANGED <<fsm, queue, cmd>>
    BY <1>5 DEF Wakes
  <2>2. Waiting' = Waiting /\ (MainHasAuth' <=> MainHasAuth)
    BY <2>1 DEF Waiting, MainHasAuth, Keeps, Tracked
  <2> QED
    BY <2>1, <2>2 DEF SessionInv, Keeps, Tracked, ReplyWay
<1> QED
  BY <1>1, <1>2, <1>3, <1>4, <1>5, NextDoes

(* The history variable tells whether a state of an ending was reached.     *)
EndNoted == fsm \in EndStates => ending

(* What is printed is no REPLY.                                             *)
Prints == pc["receiver"] = "r_print" => rx.type = "MSG"

LEMMA PrintsStep == Typed /\ Prints /\ [Next]_allVars => Prints'
<1> SUFFICES ASSUME Typed, Prints, [Next]_allVars PROVE Prints'
  OBVIOUS
<1> QED
  BY NextDoes DEF MainDoes, SenderDoes, ReceiverDoes, ServerDoes, Wakes, Others,
     Keeps, Tracked, ReplyWay, Threads, Prints

LEMMA EndingStep ==
  [Next]_allVars =>
    \/ ending' = (ending \/ fsm' \in EndStates)
    \/ UNCHANGED <<fsm, ending, acted, pc>>
BY DEF Next, Local, Remote, NoteEnding, allVars, vars, interface, recvVars

(* Until an end begins, the receiver alone moves the state between OPEN and *)
(* in front of the login, and it does so in one step with `acted`.          *)
LEMMA LogoutStep ==
  Typed /\ SessionInv /\ EndNoted /\ Prints /\ NoLogout /\ [Next]_allVars
    => EndNoted' /\ NoLogout'
<1> SUFFICES ASSUME Typed, SessionInv, EndNoted, Prints, NoLogout, [Next]_allVars
             PROVE  EndNoted' /\ NoLogout'
  OBVIOUS
<1> USE DEF fsm_START, fsm_AUTH_W82, fsm_AUTH_SENDED, fsm_OPEN, fsm_JOIN_ATEMPT,
            fsm_EMPTY_Q_BYE, fsm_ERR, fsm_SIGINT_BYE, fsm_END, EndStates
<1>1. EndNoted'
  BY EndingStep DEF EndNoted
<1>2. ASSUME ~ending' PROVE ~ending /\ fsm' \notin EndStates /\ fsm \notin EndStates
  BY <1>2, <1>1, EndingStep DEF EndNoted
<1>3. ASSUME Authenticated', ~ending'
      PROVE  fsm' \in {fsm_OPEN, fsm_JOIN_ATEMPT} /\ pc'["receiver"] # "r_nokStart"
  <2>1. CASE Authenticated
    <3>1. fsm \in {fsm_OPEN, fsm_JOIN_ATEMPT} /\ pc["receiver"] # "r_nokStart"
      BY <1>2, <1>3, <2>1 DEF NoLogout
    <3>2. pc["main"] # "m_authSet" /\ pc["sender"] # "s_authSet"
      BY <1>2, <1>3, <3>1 DEF SessionInv, MainHasAuth
    <3>3. pc["receiver"] = "r_nokGet" => fsm = fsm_JOIN_ATEMPT
      BY <1>2, <1>3, <3>1 DEF SessionInv, ReplyWay
    <3> QED
      BY <1>2, <1>3, <3>1, <3>2, <3>3, NextDoes
         DEF MainDoes, SenderDoes, ReceiverDoes, ServerDoes, Wakes, Others, Keeps,
             Tracked, ReplyWay, Threads
  <2>2. CASE ~Authenticated
    <3>1. acted' # acted
      BY <1>3, <2>2 DEF Authenticated
    <3>2. ReceiverDoes
      BY <3>1, NextDoes DEF MainDoes, SenderDoes, ServerDoes, Wakes
    <3>3. pc["receiver"] # "r_print"
      BY <1>3, <2>2, <3>1, <3>2 DEF ReceiverDoes, Prints, Authenticated
    <3>4. pc["receiver"] = "r_okSet" /\ fsm' = fsm_OPEN
      BY <3>1, <3>2, <3>3 DEF ReceiverDoes
    <3> QED BY <3>2, <3>4 DEF ReceiverDoes, Tracked, ReplyWay
  <2> QED BY <2>1, <2>2
<1> QED BY <1>1, <1>3 DEF NoLogout

(* The login is final until the session begins to end, for every command,   *)
(* message of the server and interleaving: until then the two reads of the  *)
(* state in the handling of a negative REPLY agree, and a refused JOIN does *)
(* not look like a refused AUTH.                                            *)
THEOREM NoLogoutHolds == Spec => []NoLogout
<1>1. Init => SessionInv
  BY DEF Init, SessionInv, Waiting, AuthIn, MainHasAuth, ReplyWay, fsm_START,
         fsm_AUTH_SENDED, fsm_OPEN, fsm_JOIN_ATEMPT
<1>2. Init => EndNoted /\ Prints /\ NoLogout
  BY DEF Init, EndNoted, Prints, NoLogout, Authenticated, EndStates, fsm_START,
         fsm_EMPTY_Q_BYE, fsm_ERR, fsm_SIGINT_BYE, fsm_END
<1> QED
  BY <1>1, <1>2, InitTyped, NextTyped, NextSessionInv, PrintsStep,
     LogoutStep, PTL DEF Spec

-----------------------------------------------------------------------------
(* One login at a time.                                                     *)

(* Indices that all move up by one are as many as before.                   *)
LEMMA ShiftCount ==
  ASSUME NEW A, IsFiniteSet(A), NEW B, B \subseteq Nat, \A i \in B : i + 1 \in A
  PROVE  /\ IsFiniteSet(B)
         /\ Cardinality(B) <= Cardinality(A)
<1> DEFINE f == [i \in B |-> i + 1]
<1>1. f \in [B -> A]
  OBVIOUS
<1>2. IsInjective(f)
  BY DEF IsInjective
<1>3. f \in Injection(B, A)
  BY <1>1, <1>2 DEF Injection
<1> HIDE DEF f
<1> QED
  BY <1>3, FS_Injection

LEMMA Finite ==
  ASSUME Typed
  PROVE  /\ IsFiniteSet(AuthSent) /\ Cardinality(AuthSent) \in Nat
         /\ IsFiniteSet(AuthIn(queue)) /\ Cardinality(AuthIn(queue)) \in Nat
         /\ IsFiniteSet(Queued) /\ Cardinality(Queued) \in Nat
         /\ IsFiniteSet(RepliesIn(stream)) /\ Cardinality(RepliesIn(stream)) \in Nat
<1>1. ASSUME NEW n \in Nat, NEW T \in SUBSET (1 .. n)
      PROVE  IsFiniteSet(T) /\ Cardinality(T) \in Nat
  <2>1. IsFiniteSet(1 .. n)
    BY FS_Interval
  <2>2. IsFiniteSet(T)
    BY <2>1, FS_Subset
  <2> QED
    BY <2>2, FS_CardinalityType
<1>2. /\ Len(sent) \in Nat /\ AuthSent \in SUBSET (1 .. Len(sent))
      /\ Len(queue) \in Nat /\ AuthIn(queue) \in SUBSET (1 .. Len(queue))
      /\ Len(stream) \in Nat /\ RepliesIn(stream) \in SUBSET (1 .. Len(stream))
  BY DEF Typed, AuthSent, AuthIn, RepliesIn
<1>3. Queued \in SUBSET (1 .. Len(queue))
  BY <1>2 DEF Queued
<1> QED
  BY <1>1, <1>2, <1>3

LEMMA FewerQueued ==
  ASSUME Typed, Queued' \subseteq Queued
  PROVE  Cardinality(Queued') <= Cardinality(Queued) /\ Cardinality(Queued') \in Nat
<1>1. IsFiniteSet(Queued)
  BY Finite
<1>2. IsFiniteSet(Queued') /\ Cardinality(Queued') <= Cardinality(Queued)
  BY <1>1, FS_Subset
<1> QED
  BY <1>2, FS_CardinalityType

LEMMA MainBudget ==
  ASSUME Typed, MainDoes
  PROVE  Cardinality(Queued') + One(MainHasAuth') + One(MayAuth')
           <= Cardinality(Queued) + One(MainHasAuth) + One(MayAuth)
<1> USE DEF fsm_START, fsm_AUTH_W82, EndStates, fsm_EMPTY_Q_BYE, fsm_ERR,
            fsm_SIGINT_BYE, fsm_END
<1>1. Keeps("sender")
  BY DEF MainDoes, Others, Threads
<1>2. pc'["sender"] = "s_pop" <=> pc["sender"] = "s_pop"
  BY <1>1 DEF Keeps, Tracked
<1>3. IsFiniteSet(Queued) /\ Cardinality(Queued) \in Nat
  BY Finite
<1>4. CASE Queued' \subseteq Queued
  <2>1. Cardinality(Queued') <= Cardinality(Queued) /\ Cardinality(Queued') \in Nat
    BY <1>4, FewerQueued
  <2>2. One(MainHasAuth') + One(MayAuth') <= One(MainHasAuth) + One(MayAuth)
    BY DEF MainDoes, MainHasAuth, MayAuth, One, Tracked
  <2>3. /\ One(MainHasAuth') + One(MayAuth') \in Int
        /\ One(MainHasAuth) + One(MayAuth) \in Int
    BY DEF One
  <2> QED
    BY <1>3, <2>1, <2>2, <2>3 DEF One
<1>5. CASE /\ pc["main"] = "m_add" /\ pc'["main"] \notin Tracked /\ cmd = "AUTH"
           /\ queue' = Append(queue, UserMessage(cmd))
  <2>1. AuthIn(queue') = AuthIn(queue) \cup {Len(queue) + 1}
    BY <1>5, UserAddAuth
  <2>2. Queued' \subseteq Queued \cup {Len(queue) + 1}
    BY <1>2, <2>1 DEF Queued
  <2>3. /\ IsFiniteSet(Queued \cup {Len(queue) + 1})
        /\ Cardinality(Queued \cup {Len(queue) + 1}) \in
             {Cardinality(Queued), Cardinality(Queued) + 1}
    BY <1>3, FS_AddElement
  <2>4. IsFiniteSet(Queued')
        /\ Cardinality(Queued') <= Cardinality(Queued \cup {Len(queue) + 1})
    BY <2>2, <2>3, FS_Subset
  <2>5. Cardinality(Queued') \in Nat
    BY <2>4, FS_CardinalityType
  <2>6. One(MainHasAuth) = 1 /\ One(MainHasAuth') = 0 /\ One(MayAuth') <= One(MayAuth)
    BY <1>5 DEF MainDoes, MainHasAuth, MayAuth, One, Tracked
  <2>7. One(MayAuth') \in Nat /\ One(MayAuth) \in Nat
    BY DEF One
  <2> QED
    BY <1>3, <2>3, <2>4, <2>5, <2>6, <2>7
<1>6. CASE PlainQueue
  BY <1>2, <1>4, <1>6, PlainQueueAuth DEF Queued
<1>7. CASE queue' = Append(queue, UserMessage(cmd)) /\ cmd # "AUTH"
  BY <1>2, <1>4, <1>7, UserAddAuth DEF Queued
<1> QED
  BY <1>5, <1>6, <1>7 DEF MainDoes

LEMMA SenderBudget ==
  ASSUME Typed, SenderDoes
  PROVE  Cardinality(AuthSent') + Cardinality(Queued')
           <= Cardinality(AuthSent) + Cardinality(Queued)
<1>a. /\ IsFiniteSet(AuthSent) /\ Cardinality(AuthSent) \in Nat
      /\ IsFiniteSet(AuthIn(queue)) /\ Cardinality(AuthIn(queue)) \in Nat
      /\ IsFiniteSet(Queued) /\ Cardinality(Queued) \in Nat
  BY Finite
<1>1. CASE Transmits
  <2>1. /\ pc["sender"] # "s_pop" /\ pc'["sender"] = "s_pop" /\ queue' = queue
        /\ sent' = Append(sent, Head(queue).type) /\ queue # <<>>
    BY <1>1 DEF Transmits, SendLabels
  <2>2. Queued = AuthIn(queue) /\ Queued' = AuthIn(queue) \ {1}
    BY <2>1 DEF Queued
  <2>3. /\ 1 \in DOMAIN queue /\ Head(queue) = queue[1] /\ Head(queue) \in Entries
    BY <2>1 DEF Typed
  <2>4. Head(queue).type \in Kinds /\ (Head(queue).type = "AUTH" <=> 1 \in AuthIn(queue))
    BY <2>3, EntryIs DEF AuthIn
  <2>5. Cardinality(Queued') =
          IF 1 \in AuthIn(queue) THEN Cardinality(Queued) - 1 ELSE Cardinality(Queued)
    BY <1>a, <2>2, FS_RemoveElement
  <2>6. AuthSent' = IF 1 \in AuthIn(queue) THEN AuthSent \cup {Len(sent) + 1}
                    ELSE AuthSent
    BY <2>1, <2>4 DEF AuthSent, Typed
  <2>7. Cardinality(AuthSent \cup {Len(sent) + 1}) \in
          {Cardinality(AuthSent), Cardinality(AuthSent) + 1}
    BY <1>a, FS_AddElement
  <2> QED
    BY <1>a, <2>5, <2>6, <2>7
<1>2. CASE /\ sent' = sent
           /\ pc'["sender"] = "s_pop" => pc["sender"] = "s_pop"
  <2>1. AuthSent' = AuthSent
    BY <1>2 DEF AuthSent
  <2>2. CASE Queued' \subseteq Queued
    BY <1>a, <2>1, <2>2, FewerQueued
  <2>3. CASE \A i \in Queued' : i \in Nat /\ i + 1 \in Queued
    <3>1. Queued' \subseteq Nat /\ \A i \in Queued' : i + 1 \in Queued
      BY <2>3
    <3>2. IsFiniteSet(Queued') /\ Cardinality(Queued') <= Cardinality(Queued)
      BY <1>a, <3>1, ShiftCount
    <3>3. Cardinality(Queued') \in Nat
      BY <3>2, FS_CardinalityType
    <3> QED
      BY <1>a, <2>1, <3>2, <3>3
  <2>4. CASE /\ pc["sender"] = "s_pop" /\ pc'["sender"] \notin Tracked
             /\ queue # <<>> /\ queue' = Tail(queue)
    <3>1. Queued' = AuthIn(Tail(queue)) /\ Queued = AuthIn(queue) \ {1}
      BY <2>4 DEF Queued, Tracked
    <3>2. \A i \in AuthIn(Tail(queue)) : i \in Nat \ {0} /\ i + 1 \in AuthIn(queue)
      BY <2>4, TailAuth
    <3> QED
      BY <2>3, <3>1, <3>2
  <2>5. CASE /\ pc["sender"] # "s_pop" /\ pc'["sender"] = "s_send"
             /\ queue # <<>> /\ queue' = Tail(queue)
    <3>1. Queued' = AuthIn(Tail(queue)) /\ Queued = AuthIn(queue)
      BY <2>5 DEF Queued
    <3>2. \A i \in AuthIn(Tail(queue)) : i \in Nat \ {0} /\ i + 1 \in AuthIn(queue)
      BY <2>5, TailAuth
    <3> QED
      BY <2>3, <3>1, <3>2
  <2>6. CASE pc["sender"] = "s_pop" /\ pc'["sender"] = "s_pop" /\ queue' = queue
    BY <2>2, <2>6 DEF Queued
  <2>7. CASE pc["sender"] # "s_pop" /\ PlainQueue
    BY <1>2, <2>2, <2>7, PlainQueueAuth DEF Queued
  <2> QED
    BY <2>4, <2>5, <2>6, <2>7 DEF SenderDoes
<1> QED
  BY <1>1, <1>2 DEF SenderDoes

LEMMA TailReplies ==
  ASSUME Typed, stream # <<>>, NEW i \in RepliesIn(Tail(stream))
  PROVE  i \in Nat \ {0} /\ i + 1 \in RepliesIn(stream)
<1>1. i \in 1 .. Len(stream) - 1 /\ Tail(stream)[i] = stream[i + 1]
  BY DEF RepliesIn, Typed
<1> QED
  BY <1>1 DEF RepliesIn, Typed

LEMMA ReadBudget ==
  ASSUME Typed, Reads
  PROVE  /\ Cardinality(RepliesIn(stream')) \in Nat
         /\ Cardinality(RepliesIn(stream')) + One(MayBeRefused')
              <= Cardinality(RepliesIn(stream))
<1> DEFINE R == RepliesIn(stream)
<1>1. IsFiniteSet(R) /\ Cardinality(R) \in Nat
  BY Finite
<1>2. /\ IsFiniteSet(R \ {1})
      /\ Cardinality(R \ {1}) = IF 1 \in R THEN Cardinality(R) - 1 ELSE Cardinality(R)
  BY <1>1, FS_RemoveElement
<1>3. stream # <<>> /\ (stream' = Tail(stream) \/ stream' = <<>>)
  BY DEF Reads
<1>4. RepliesIn(stream') \subseteq Nat
      /\ \A i \in RepliesIn(stream') : i + 1 \in R \ {1}
  <2>1. CASE stream' = Tail(stream)
    BY <1>3, <2>1, TailReplies
  <2>2. CASE stream' = <<>>
    BY <2>2 DEF RepliesIn
  <2> QED
    BY <1>3, <2>1, <2>2
<1>5. /\ IsFiniteSet(RepliesIn(stream'))
      /\ Cardinality(RepliesIn(stream')) <= Cardinality(R \ {1})
  BY <1>2, <1>4, ShiftCount
<1>6. Cardinality(RepliesIn(stream')) \in Nat
  BY <1>5, FS_CardinalityType
<1>7. MayBeRefused' => 1 \in R
  <2>1. MayBeRefused' => Head(stream).type = "REPLY"
    BY DEF Reads, MayBeRefused, Tracked, ReplyWay
  <2>2. 1 \in DOMAIN stream /\ Head(stream) = stream[1]
    BY <1>3 DEF Typed
  <2> QED
    BY <2>1, <2>2 DEF RepliesIn
<1> HIDE DEF R
<1>8. Cardinality(RepliesIn(stream')) + One(MayBeRefused') <= Cardinality(R)
  BY <1>1, <1>2, <1>5, <1>6, <1>7 DEF One
<1> QED
  BY <1>6, <1>8 DEF R

Counted == /\ Cardinality(AuthSent) \in Nat /\ Cardinality(Queued) \in Nat
           /\ Cardinality(RepliesIn(stream)) \in Nat /\ answered \in Nat

LEMMA TypedCounted == Typed => Counted
BY Finite DEF Counted, Typed

LEMMA NextBudget == Typed /\ Budget /\ [Next]_allVars => Budget'
<1> SUFFICES ASSUME Typed, Budget, [Next]_allVars PROVE Budget'
  OBVIOUS
<1> USE DEF Threads, fsm_START, fsm_AUTH_W82, fsm_AUTH_SENDED, fsm_OPEN,
            fsm_JOIN_ATEMPT, fsm_EMPTY_Q_BYE, fsm_ERR, fsm_SIGINT_BYE, fsm_END,
            EndStates
<1>a. Typed'
  BY NextTyped
<1>b. Counted /\ Counted'
  BY <1>a, TypedCounted, PTL
<1> DEFINE A == Cardinality(AuthSent)  Q == Cardinality(Queued)
           S == Cardinality(RepliesIn(stream))
           M == One(MainHasAuth)  Z == One(MayAuth)  H == One(MayBeRefused)
<1>c. /\ A \in Nat /\ Q \in Nat /\ S \in Nat /\ answered \in Nat
      /\ A' \in Nat /\ Q' \in Nat /\ S' \in Nat /\ answered' \in Nat
  BY <1>b DEF Counted
<1>d. /\ M \in Nat /\ Z \in Nat /\ H \in Nat
      /\ M' \in Nat /\ Z' \in Nat /\ H' \in Nat
  BY DEF One
<1>e. A + Q + M + Z + H + S <= answered + 1
  BY DEF Budget
<1>f. A' + Q' + M' + Z' + H' + S' <= answered' + 1 => Budget'
  BY DEF Budget
<1>1. CASE MainDoes
  <2>1. Q' + M' + Z' <= Q + M + Z
    BY <1>1, MainBudget
  <2>2. Keeps("receiver") /\ UNCHANGED <<sent, stream, answered>>
    BY <1>1 DEF MainDoes, Others, connection
  <2>3. A' = A /\ S' = S /\ H' = H
    BY <2>2 DEF AuthSent, RepliesIn, MayBeRefused, Keeps, Tracked, ReplyWay
  <2> QED
    BY <1>c, <1>d, <1>e, <1>f, <2>1, <2>2, <2>3
<1>2. CASE SenderDoes
  <2>1. A' + Q' <= A + Q
    BY <1>2, SenderBudget
  <2>2. /\ Keeps("main") /\ Keeps("receiver") /\ UNCHANGED <<cmd, stream, answered>>
        /\ fsm' = fsm_START => fsm = fsm_START
    BY <1>2 DEF SenderDoes, Others
  <2>3. S' = S /\ H' = H /\ M' = M /\ Z' <= Z
    BY <2>2 DEF RepliesIn, MayBeRefused, MainHasAuth, MayAuth, One, Keeps, Tracked,
                ReplyWay
  <2> QED
    BY <1>c, <1>d, <1>e, <1>f, <2>1, <2>2, <2>3
<1>3. CASE ReceiverDoes
  <2>1. /\ Keeps("main") /\ Keeps("sender") /\ UNCHANGED <<cmd, sent, answered>>
        /\ AuthIn(queue') \subseteq AuthIn(queue)
    BY <1>3, PlainQueueAuth DEF ReceiverDoes, Others
  <2>2. Queued' \subseteq Queued
    BY <2>1 DEF Queued, Keeps, Tracked
  <2>3. Q' <= Q
    BY <2>2, FewerQueued
  <2>4. A' = A /\ M' = M
    BY <2>1 DEF AuthSent, MainHasAuth, One, Keeps, Tracked
  <2>5. Z' + H' + S' <= Z + H + S
    <3>1. CASE Reads
      <4>1. S' + H' <= S
        BY <3>1, ReadBudget
      <4>2. Z' <= Z
        BY <1>3, <2>1, <3>1 DEF ReceiverDoes, Reads, MayAuth, One, Keeps, Tracked,
                                ReplyWay
      <4> QED
        BY <1>c, <1>d, <4>1, <4>2
    <3>2. CASE stream' = stream /\ pc'["receiver"] # "r_reply1"
      <4>1. S' = S
        BY <3>2
      <4>2. Z' + H' <= Z + H
        BY <1>3, <2>1, <3>2 DEF ReceiverDoes, MayAuth, MayBeRefused, One, Keeps,
                                Tracked, ReplyWay
      <4> QED
        BY <1>c, <1>d, <4>1, <4>2
    <3> QED
      BY <1>3, <3>1, <3>2 DEF ReceiverDoes
  <2> QED
    BY <1>c, <1>d, <1>e, <1>f, <2>1, <2>3, <2>4, <2>5
<1>4. CASE ServerDoes
  <2>1. A' = A /\ Q' = Q /\ M' = M /\ Z' = Z /\ H' = H
    BY <1>4 DEF ServerDoes, AuthSent, Queued, MainHasAuth, MayAuth, MayBeRefused
  <2>2. PICK m \in Written : /\ stream' = Append(stream, m)
                             /\ answered' = answered + One(m.type = "REPLY")
    BY <1>4 DEF ServerDoes
  <2>3. RepliesIn(stream') = IF m.type = "REPLY"
                             THEN RepliesIn(stream) \cup {Len(stream) + 1}
                             ELSE RepliesIn(stream)
    BY <2>2 DEF RepliesIn, Typed
  <2>4. Cardinality(RepliesIn(stream) \cup {Len(stream) + 1}) \in {S, S + 1}
    <3>1. IsFiniteSet(RepliesIn(stream))
      BY Finite
    <3> QED
      BY <1>c, <3>1, FS_AddElement
  <2>5. \/ S' <= S + 1 /\ answered' = answered + 1
        \/ S' = S /\ answered' = answered
    BY <1>c, <2>2, <2>3, <2>4 DEF One
  <2> QED
    BY <1>c, <1>d, <1>e, <1>f, <2>1, <2>5
<1>5. CASE Wakes
  <2>1. /\ Keeps("main") /\ Keeps("sender") /\ Keeps("receiver")
        /\ UNCHANGED <<fsm, queue, cmd, sent, stream, answered>>
    BY <1>5 DEF Wakes, connection
  <2>2. A' = A /\ Q' = Q /\ M' = M /\ Z' = Z /\ H' = H /\ S' = S
    BY <2>1 DEF AuthSent, Queued, MainHasAuth, MayAuth, MayBeRefused, RepliesIn,
                One, Keeps, Tracked, ReplyWay
  <2> QED
    BY <1>e, <1>f, <2>1, <2>2
<1> QED
  BY <1>1, <1>2, <1>3, <1>4, <1>5, NextDoes

(* An AUTH is transmitted again only after the server has answered the one  *)
(* before it, for every number of attempts: main tests the state, sets it   *)
(* and queues in separate steps, and the queue is emptied and filled by     *)
(* threads that do not exclude each other.                                  *)
THEOREM OneLoginAtATimeHolds == Spec => []OneLoginAtATime
<1>1. Init => Budget
  <2> SUFFICES ASSUME Init PROVE Budget
    OBVIOUS
  <2>1. AuthSent = {} /\ Queued = {} /\ RepliesIn(stream) = {} /\ answered = 0
        /\ ~MainHasAuth /\ ~MayBeRefused
    BY DEF Init, AuthSent, Queued, AuthIn, RepliesIn, MainHasAuth, MayBeRefused
  <2> QED
    BY <2>1, FS_EmptySet DEF Budget, One
<1>2. Typed /\ Budget => OneLoginAtATime
  <2> SUFFICES ASSUME Typed, Budget PROVE OneLoginAtATime
    OBVIOUS
  <2>1. Counted
    BY TypedCounted
  <2>2. /\ One(MainHasAuth) \in Nat /\ One(MayAuth) \in Nat
        /\ One(MayBeRefused) \in Nat
    BY DEF One
  <2>3. AuthsSent = Cardinality(AuthSent)
    BY DEF AuthsSent, AuthSent
  <2>4. Cardinality(AuthSent) <= answered + 1
    BY <2>1, <2>2 DEF Counted, Budget
  <2> QED
    BY <2>3, <2>4 DEF OneLoginAtATime
<1> QED
  BY <1>1, <1>2, InitTyped, NextTyped, NextBudget, PTL DEF Spec
==============================================================================
