---------------------------- MODULE UdpStepProofs ----------------------------
(***************************************************************************)
(* What a step of each thread of the UDP client may do, stated once for    *)
(* the proofs about the queue, the login, the receiver's records and the   *)
(* refinement: MainDoes, SenderDoes and ReceiverDoes say how a step of the *)
(* thread changes the mutex, the queue and the program state, at which     *)
(* labels, and under which condition it gets to the labels that matter.    *)
(* All a thread does to the others is to wake them from a wait.            *)
(*                                                                         *)
(* First result: the mutex is released on every way out of a critical      *)
(* section but the ones the code forgets.                                  *)
(***************************************************************************)
EXTENDS UdpClientProofs

Woken(u)  == pc[u] \in DOMAIN Resume /\ pc'[u] = Resume[pc[u]]
Others(t) == \A u \in Threads \ {t} : pc'[u] = pc[u] \/ Woken(u)

Mutexed(t) == Holding(t) \cup LeavesLocked(t)

(* A step of t locks the free mutex and releases its own, and keeps the     *)
(* mutex only on the way to a label where it is known to hold it.           *)
Mutex(t) ==
  /\ lock' \in {lock, "none", t}
  /\ lock' # lock => lock \in {"none", t}
  /\ lock' = t => pc'[t] \in Mutexed(t)

LEMMA WokenCases ==
  ASSUME NEW u \in Threads, Woken(u)
  PROVE  \/ pc[u] = "m_waiting" /\ pc'[u] = "m_while"
         \/ pc[u] = "h_waiting" /\ pc'[u] = "h_exit"
         \/ pc[u] = "e_waiting" /\ pc'[u] = "e_exit"
         \/ pc[u] = "s_ewaiting" /\ pc'[u] = "s_while"
         \/ pc[u] = "s_rwaiting" /\ pc'[u] = "s_relock"
         \/ pc[u] = "s_lwaiting" /\ pc'[u] = "s_relogic"
         \/ pc[u] = "s_twaiting" /\ pc'[u] = "s_while"
<1>1. DOMAIN Resume = Waits
  BY DEF Resume, Waits
<1>2. /\ Resume["m_waiting"] = "m_while" /\ Resume["h_waiting"] = "h_exit"
      /\ Resume["e_waiting"] = "e_exit" /\ Resume["s_ewaiting"] = "s_while"
      /\ Resume["s_rwaiting"] = "s_relock" /\ Resume["s_lwaiting"] = "s_relogic"
      /\ Resume["s_twaiting"] = "s_while"
  BY DEF Resume
<1> QED
  BY <1>1, <1>2 DEF Woken, Waits

-----------------------------------------------------------------------------
(* The forms of step.                                                       *)
LEMMA GotoForm ==
  ASSUME TypeOK, NEW t \in Threads, NEW from, NEW to, Goto(t, from, to)
  PROVE  pc[t] = from /\ pc'[t] = to /\ Others(t)
BY DEF TypeOK, PcOK, Goto, Others

LEMMA SignalledForm ==
  ASSUME TypeOK, NEW t \in Threads, NEW c \in Conditions, NEW to,
         pc[t] \notin Waits, Signalled(t, c, to)
  PROVE  pc'[t] = to /\ Others(t)
<1>1. CASE Waiters(c) = {}
  BY <1>1 DEF TypeOK, PcOK, Signalled, Others
<1>2. CASE Waiters(c) # {}
  <2>1. PICK w \in Waiters(c) : pc' = [pc EXCEPT ![t] = to, ![w] = Resume[pc[w]]]
    BY <1>2 DEF Signalled
  <2>2. w \in Threads /\ pc[w] \in DOMAIN Resume
    BY <2>1, ParkedInResume DEF Waiters
  <2>3. w # t
    BY <2>2 DEF Resume, Waits
  <2> QED
    BY <2>1, <2>2, <2>3 DEF TypeOK, PcOK, Others, Woken
<1> QED
  BY <1>1, <1>2

LEMMA LocalStepForm ==
  ASSUME TypeOK, NEW t \in Threads, NEW from, NEW to, LocalStep(t, from, to)
  PROVE  /\ pc[t] = from /\ pc'[t] = to /\ Others(t)
         /\ UNCHANGED <<fsm, queue, lock, msgCounter, named, mainVars, sendVars,
                        recvVars>>
BY GotoForm DEF LocalStep, interface

LEMMA SetStepForm ==
  ASSUME TypeOK, NEW t \in Threads, NEW from, NEW s, NEW to,
         SetStep(t, from, s, to)
  PROVE  /\ pc[t] = from /\ pc'[t] = to /\ Others(t) /\ fsm' = s
         /\ UNCHANGED <<queue, lock, msgCounter, named, mainVars, sendVars,
                        recvVars>>
BY GotoForm DEF SetStep

LEMMA SignalStepForm ==
  ASSUME TypeOK, NEW t \in Threads, NEW from, NEW to, NEW c \in Conditions,
         SignalStep(t, from, c, to), from \notin Waits
  PROVE  /\ pc[t] = from /\ pc'[t] = to /\ Others(t)
         /\ UNCHANGED <<fsm, queue, lock, msgCounter, named, mainVars, sendVars,
                        recvVars>>
<1>1. pc[t] = from /\ Signalled(t, c, to)
  BY DEF SignalStep
<1>2. pc'[t] = to /\ Others(t)
  BY <1>1, SignalledForm
<1> QED
  BY <1>1, <1>2 DEF SignalStep, interface

LEMMA LockStepForm ==
  ASSUME TypeOK, NEW t \in Threads, NEW from, NEW to, LockStep(t, from, to)
  PROVE  /\ pc[t] = from /\ pc'[t] = to /\ Others(t)
         /\ lock = "none" /\ lock' = t
         /\ UNCHANGED <<fsm, queue, msgCounter, named, mainVars, sendVars,
                        recvVars>>
BY GotoForm DEF LockStep

LEMMA LockedQueueStepForm ==
  ASSUME TypeOK, NEW t \in Threads, NEW from, NEW q, NEW to,
         LockedQueueStep(t, from, q, to)
  PROVE  /\ pc[t] = from /\ pc'[t] = to /\ Others(t)
         /\ lock = "none" /\ queue' = q
         /\ UNCHANGED <<fsm, lock, msgCounter, named, mainVars, sendVars,
                        recvVars>>
BY GotoForm DEF LockedQueueStep

LEMMA HolderStepForm ==
  ASSUME TypeOK, NEW t \in Threads, NEW from, NEW q, NEW l, NEW to,
         HolderStep(t, from, q, l, to)
  PROVE  /\ pc[t] = from /\ pc'[t] = to /\ Others(t)
         /\ lock' = l /\ queue' = q
         /\ UNCHANGED <<fsm, msgCounter, named, mainVars, sendVars, recvVars>>
BY GotoForm DEF HolderStep

LEMMA sendByeForm ==
  ASSUME TypeOK, NEW t \in Threads, NEW from, NEW to, sendBye(t, from, to)
  PROVE  /\ pc[t] = from /\ pc'[t] = to /\ Others(t)
         /\ lock = "none" /\ queue' = Append(queue, ByeMessage)
         /\ UNCHANGED <<fsm, lock, msgCounter, named, mainVars, sendVars,
                        recvVars>>
BY LockedQueueStepForm DEF sendBye, queueAddMessage

LEMMA sendErrorForm ==
  ASSUME TypeOK, NEW t \in Threads, NEW from, NEW to, sendError(t, from, to)
  PROVE  /\ pc[t] = from /\ Others(t) /\ lock = "none"
         /\ \/ /\ pc'[t] = to /\ lock' = lock
               /\ queue' = Append(queue, ErrMessage)
            \/ pc'[t] = "e_set" /\ lock' = t /\ queue' = queue
         /\ UNCHANGED <<fsm, msgCounter, named, mainVars, sendVars, recvVars>>
<1>1. CASE LockedQueueStep(t, from, queueAddMessage(queue, ErrMessage), to)
  BY <1>1, LockedQueueStepForm DEF queueAddMessage
<1>2. CASE LockStep(t, from, "e_set")
  BY <1>2, LockStepForm
<1> QED
  BY <1>1, <1>2 DEF sendError

LEMMA ExitStepForm ==
  ASSUME TypeOK, NEW t \in Threads, NEW from, NEW how, ExitStep(t, from, how)
  PROVE  /\ pc[t] = from /\ pc' = pc /\ Others(t)
         /\ UNCHANGED <<fsm, queue, lock, msgCounter, named, mainVars, sendVars,
                        recvVars>>
BY DEF ExitStep, Others, interface

-----------------------------------------------------------------------------
(* A thread that holds the mutex is at a label where it is known to: the    *)
(* invariant the descriptions below start from.                             *)
StepInv == IndInv /\ MutexReleased

(* After the SIGINT handler's pop.                                          *)
Emptied == {"h_bye", "h_sig2", "h_sig3", "h_wait", "h_waiting", "h_exit"}

(* The states that only lead to the end.                                    *)
Ending(s) == s >= fsm_EMPTY_Q_BYE

UserMessage(c) == createMessage(TypeOf(c), FlagsOf(c), NoId)

MainQueue ==
  \/ queue' = queue
  \/ queue' = <<>>
  \/ queue' = Append(queue, ByeMessage)
  \/ /\ pc["main"] = "m_add" /\ pc'["main"] \in {"m_exitSet", "m_wait"}
     /\ queue' = Append(queue, UserMessage(cmd))

MainFsm ==
  \/ fsm' = fsm
  \/ Ending(fsm')
  \/ pc["main"] = "m_authSet" /\ fsm' = fsm_AUTH_W82

MainEnters ==
  /\ pc'["main"] = "m_authSet" =>
       fsm = fsm_START /\ fsm' = fsm /\ cmd' = "AUTH" /\ queue' = queue
  /\ pc'["main"] = "m_lock" =>
       /\ queue' = queue
       /\ \/ pc["main"] = "m_authSet" /\ fsm' = fsm_AUTH_W82 /\ cmd' = cmd
          \/ /\ fsm' = fsm /\ cmd' # "AUTH"
             /\ cmd' \in {"JOIN", "MSG"} => fsm = fsm_OPEN
  /\ pc'["main"] = "m_add" =>
       pc["main"] = "m_lock" /\ cmd' = cmd /\ queue' = queue /\ fsm' = fsm
  /\ pc'["main"] \in Emptied => pc["main"] \in Emptied \/ queue' = <<>>

MainDoes ==
  /\ Others("main") /\ Mutex("main")
  /\ queue' # queue => lock \in {"none", "main"}
  /\ MainQueue /\ MainFsm /\ MainEnters
  /\ UNCHANGED <<msgCounter, sendVars, recvVars>>

LEMMA MainMutexed ==
  /\ Holding("main") = MainHolding
  /\ Mutexed("main") = MainHolding \cup {"h_set", "h_sig", "h_pop"}
BY DEF Mutexed, Holding, LeavesLocked

LEMMA MainAddDoes ==
  ASSUME StepInv, MainAdd
  PROVE  MainDoes
<1> DEFINE next == IF cmd = "EXIT" THEN "m_exitSet" ELSE "m_wait"
<1>a. "main" \in Threads /\ TypeOK
  BY DEF Threads, StepInv, IndInv
<1>1. pc["main"] = "m_add" /\ lock = "main"
  BY <1>a, MainMutexed
     DEF MainAdd, StepInv, IndInv, LockDiscipline, MainHolding
<1>2. pc'["main"] = next /\ Others("main")
  <2>1. CASE queue = <<>> \/ cmd = "AUTH"
    <3>1. Signalled("main", "senderEmptyQueueCond", next)
      BY <2>1 DEF MainAdd
    <3>2. pc["main"] \notin Waits
      BY <1>1 DEF Waits
    <3> QED
      BY <1>a, <3>1, <3>2, SignalledForm DEF Conditions
  <2>2. CASE ~(queue = <<>> \/ cmd = "AUTH")
    <3>1. pc' = [pc EXCEPT !["main"] = next]
      BY <2>2 DEF MainAdd
    <3> QED
      BY <1>a, <3>1 DEF TypeOK, PcOK, Others
  <2> QED
    BY <2>1, <2>2
<1>3. next \in {"m_exitSet", "m_wait"}
  OBVIOUS
<1>4. /\ queue' = Append(queue, UserMessage(cmd)) /\ lock' = "none"
      /\ UNCHANGED <<fsm, msgCounter, sendVars, recvVars>>
  BY DEF MainAdd, queueAddMessage, UserMessage
<1> QED
  BY <1>1, <1>2, <1>3, <1>4
     DEF MainDoes, Mutex, MainQueue, MainFsm, MainEnters, Emptied

LEMMA UserTypesDoes ==
  ASSUME StepInv, UserInput
  PROVE  MainDoes
<1>a. "main" \in Threads /\ TypeOK
  BY DEF Threads, StepInv, IndInv
<1>1. PICK c \in Commands, e \in EofMarks : UserTypes(c, e)
  BY DEF UserInput
<1>2. /\ pc["main"] = "m_input" /\ Others("main")
      /\ pc'["main"] = IF ~canBeSended(c) THEN "m_while"
                       ELSE IF c = "AUTH" THEN "m_authSet" ELSE "m_lock"
      /\ UNCHANGED <<fsm, queue, lock, msgCounter, sendVars, recvVars>>
  BY <1>a, <1>1, GotoForm DEF UserTypes
<1>3. lock # "main"
  BY <1>a, <1>2, MainMutexed
     DEF StepInv, MutexReleased, Mutexed, MainHolding
<1>4. CASE ~canBeSended(c)
  BY <1>2, <1>3, <1>4
     DEF MainDoes, Mutex, MainQueue, MainFsm, MainEnters, Emptied
<1>5. CASE canBeSended(c)
  <2>1. cmd' = c
    BY <1>1, <1>5 DEF UserTypes
  <2>2. c = "AUTH" => fsm = fsm_START
    BY <1>5 DEF canBeSended, filterCommandsByFSM
  <2>3. c \in {"JOIN", "MSG"} => fsm = fsm_OPEN
    BY <1>5 DEF canBeSended, filterCommandsByFSM
  <2> QED
    BY <1>2, <1>3, <1>5, <2>1, <2>2, <2>3
       DEF MainDoes, Mutex, MainQueue, MainFsm, MainEnters, Emptied
<1> QED
  BY <1>4, <1>5

USE DEF MainHolding, MainDoes, Mutex, MainQueue, MainFsm, MainEnters, Emptied,
        Ending, fsm_AUTH_W82, fsm_EMPTY_Q_BYE, fsm_SIGINT_BYE

LEMMA MainStepDoes ==
  ASSUME StepInv, MainStep
  PROVE  MainDoes
<1>a. "main" \in Threads /\ TypeOK
  BY DEF Threads, StepInv, IndInv
<1>b. lock = "main" => pc["main"] \in Mutexed("main")
  BY <1>a DEF StepInv, MutexReleased, Mutexed
<1>c. pc["main"] \in MainHolding => lock = "main"
  BY <1>a, MainMutexed DEF StepInv, IndInv, LockDiscipline
<1>1. CASE MainLoop
  BY <1>a, <1>b, <1>c, <1>1, MainMutexed, LocalStepForm
     DEF MainLoop
<1>2. CASE MainEofSet
  BY <1>a, <1>b, <1>c, <1>2, MainMutexed, SetStepForm
     DEF MainEofSet
<1>3. CASE MainEofLock
  BY <1>a, <1>b, <1>c, <1>3, MainMutexed, LockStepForm
     DEF MainEofLock
<1>4. CASE MainEofBye
  <2>1. /\ pc["main"] = "m_eofAdd" /\ pc'["main"] = "m_eofSig" /\ Others("main")
        /\ lock' = "none" /\ queue' = Append(queue, ByeMessage)
        /\ UNCHANGED <<fsm, msgCounter, sendVars, recvVars>>
    BY <1>a, <1>4, HolderStepForm DEF MainEofBye, queueAddMessage
  <2> QED
    BY <1>c, <2>1
<1>5. CASE MainEofSignal
  BY <1>a, <1>b, <1>c, <1>5, MainMutexed, SignalStepForm
     DEF MainEofSignal, Conditions, Waits
<1>6. CASE MainAuthSet
  BY <1>a, <1>b, <1>c, <1>6, MainMutexed, SetStepForm
     DEF MainAuthSet, mainVars
<1>7. CASE MainLock
  BY <1>a, <1>b, <1>c, <1>7, MainMutexed, LockStepForm
     DEF MainLock, mainVars
<1>8. CASE MainAdd
  BY <1>8, MainAddDoes
<1>9. CASE MainExitSet
  BY <1>a, <1>b, <1>c, <1>9, MainMutexed, SetStepForm
     DEF MainExitSet
<1>10. CASE MainExitSignal
  BY <1>a, <1>b, <1>c, <1>10, MainMutexed, SignalStepForm
     DEF MainExitSignal, Conditions, Waits
<1>11. CASE MainWait
  BY <1>a, <1>b, <1>c, <1>11, MainMutexed, LocalStepForm
     DEF MainWait
<1>12. CASE MainJoin
  BY <1>a, <1>b, <1>c, <1>12, MainMutexed, ExitStepForm
     DEF MainJoin
<1> QED
  BY <1>1, <1>2, <1>3, <1>4, <1>5, <1>6, <1>7, <1>8, <1>9, <1>10, <1>11, <1>12 DEF MainStep

LEMMA sigintHandlerDoes ==
  ASSUME StepInv, sigintHandler \/ Sigint
  PROVE  MainDoes
<1>a. "main" \in Threads /\ TypeOK
  BY DEF Threads, StepInv, IndInv
<1>b. lock = "main" => pc["main"] \in Mutexed("main")
  BY <1>a DEF StepInv, MutexReleased, Mutexed
<1>c. pc["main"] \in MainHolding => lock = "main"
  BY <1>a, MainMutexed DEF StepInv, IndInv, LockDiscipline
<1>1. CASE SigintSet
  BY <1>a, <1>b, <1>c, <1>1, MainMutexed, SetStepForm
     DEF SigintSet
<1>2. CASE SigintSigMain
  BY <1>a, <1>b, <1>c, <1>2, MainMutexed, SignalStepForm
     DEF SigintSigMain, Conditions, Waits
<1>3. CASE SigintPop
  BY <1>a, <1>b, <1>c, <1>3, MainMutexed, LockedQueueStepForm
     DEF SigintPop
<1>4. CASE SigintBye
  BY <1>a, <1>b, <1>c, <1>4, MainMutexed, sendByeForm
     DEF SigintBye
<1>5. CASE SigintSigEmpty
  BY <1>a, <1>b, <1>c, <1>5, MainMutexed, SignalStepForm
     DEF SigintSigEmpty, Conditions, Waits
<1>6. CASE SigintSigRec
  BY <1>a, <1>b, <1>c, <1>6, MainMutexed, SignalStepForm
     DEF SigintSigRec, Conditions, Waits
<1>7. CASE SigintWait
  BY <1>a, <1>b, <1>c, <1>7, MainMutexed, LocalStepForm
     DEF SigintWait
<1>8. CASE SigintExit
  BY <1>a, <1>b, <1>c, <1>8, MainMutexed, ExitStepForm
     DEF SigintExit
<1>9. CASE Sigint
  BY <1>a, <1>b, <1>9, MainMutexed
     DEF Sigint, TypeOK, PcOK, Others, HandlerLabels, interface
<1> QED
  BY <1>1, <1>2, <1>3, <1>4, <1>5, <1>6, <1>7, <1>8, <1>9 DEF sigintHandler

HIDE DEF MainHolding, MainDoes, Mutex, MainQueue, MainFsm, MainEnters, Emptied,
        Ending, fsm_AUTH_W82, fsm_EMPTY_Q_BYE, fsm_SIGINT_BYE

-----------------------------------------------------------------------------
(* From the test of the first message's counter to its transmission; and    *)
(* from the emptying of the queue at a time-out to its being filled again.  *)
ToSend == {"s_lock2", "s_authGet", "s_authSet", "s_rwait", "s_rwaiting",
  "s_relock", "s_lwait", "s_lwaiting", "s_relogic", "s_open", "s_openSig",
  "s_join", "s_byeSet", "s_errSet", "s_send"}
Refill == {"s_toSendErr", "s_toSendBye", "s_toSig", "s_toLock"}

LastMessages == {ByeMessage, ErrMessage}

SenderQueue ==
  \/ queue' = queue
  \/ queue' = <<>>
  \/ \E m \in LastMessages : queue' = Append(queue, m)
  \/ queue # <<>> /\ queue' = Tail(queue)
  \/ /\ pc["sender"] \in SendLabels /\ pc'["sender"] = "s_twaiting"
     /\ queue # <<>> /\ queue' = AfterSend(queue)

SenderFsm ==
  \/ fsm' = fsm
  \/ Ending(fsm')
  \/ pc["sender"] = "s_authSet" /\ fsm' = fsm_AUTH_SENDED
  \/ pc["sender"] = "s_open" /\ fsm' = fsm_OPEN
  \/ pc["sender"] = "s_join" /\ fsm' = fsm_JOIN_ATEMPT

SenderEnters ==
  /\ pc'["sender"] \in ToSend =>
       \/ queue' = queue
          /\ \/ pc["sender"] \in ToSend \cup {"s_toLock"}
             \/ queue # <<>> /\ ~TimedOut(Top)
       \/ queue # <<>> /\ Top.type = "AUTH" /\ queue' = Tail(queue)
          /\ pc["sender"] \in ToSend
  /\ pc'["sender"] \in Refill =>
       \/ queue' = <<>>
       \/ /\ pc["sender"] \in Refill
          /\ queue' = queue \/ \E m \in LastMessages : queue' = Append(queue, m)
  /\ pc'["sender"] \in {"s_authGet", "s_authSet"} =>
       fsm' = fsm /\ fsm <= fsm_W84_REPLY
  /\ pc'["sender"] = "s_authGet" =>
       queue' = queue /\ queue # <<>> /\ Top.msgFlags = "AUTH"
  /\ pc'["sender"] = "s_authSet" =>
       pc["sender"] = "s_authGet" /\ fsm <= fsm_AUTH_W82
  /\ pc'["sender"] = "s_open" => fsm' = fsm /\ fsm = fsm_W84_REPLY_CONF
  /\ pc'["sender"] = "s_join" =>
       /\ fsm' = fsm /\ fsm = fsm_OPEN
       /\ queue' = queue /\ queue # <<>> /\ Top.type = "JOIN"

SenderDoes ==
  /\ Others("sender") /\ Mutex("sender")
  /\ queue' # queue => lock \in {"none", "sender"}
  /\ SenderQueue /\ SenderFsm /\ SenderEnters
  /\ UNCHANGED <<msgCounter, mainVars, recvVars>>

LEMMA SenderMutexed ==
  /\ Holding("sender") = SenderHolding
  /\ Mutexed("sender") = SenderHolding \cup {"e_set", "e_sig", "e_pop",
                                             "s_while", "s_end", "s_lock1"}
<1>1. LeavesLocked("sender") = {"e_set", "e_sig", "e_pop"}
                                 \cup {"s_while", "s_end", "s_lock1"}
  BY DEF LeavesLocked
<1> QED
  BY <1>1 DEF Mutexed, Holding

(* Where the sender is when it holds the mutex, and that it holds it in its *)
(* critical sections.                                                       *)
LEMMA SenderLock ==
  ASSUME StepInv
  PROVE  /\ "sender" \in Threads /\ TypeOK
         /\ lock = "sender" => pc["sender"] \in Mutexed("sender")
         /\ pc["sender"] \in SenderHolding => lock = "sender"
<1>1. "sender" \in Threads /\ TypeOK
  BY DEF Threads, StepInv, IndInv
<1> QED
  BY <1>1, SenderMutexed
     DEF StepInv, IndInv, MutexReleased, Mutexed, LockDiscipline

USE DEF SenderHolding, SenderDoes, Mutex, SenderQueue, SenderFsm,
        SenderEnters, ToSend, Refill, LastMessages, SendLabels,
        Ending, fsm_AUTH_SENDED, fsm_W84_REPLY, fsm_W84_REPLY_CONF,
        fsm_OPEN, fsm_JOIN_ATEMPT, fsm_EMPTY_Q_BYE, fsm_ERR,
        fsm_ERR_W84_CONF, fsm_END_W84_CONF, fsm_END

LEMMA LeaveFilterDoes ==
  ASSUME StepInv, NEW from \in {"s_lock1", "s_filter", "s_toLock"},
         LeaveFilter(from),
         from # "s_toLock" => queue = <<>> \/ ~TimedOut(Top)
  PROVE  SenderDoes
<1>a. /\ "sender" \in Threads /\ TypeOK
      /\ lock = "sender" => pc["sender"] \in Mutexed("sender")
      /\ pc["sender"] \in SenderHolding => lock = "sender"
  BY SenderLock
<1>1. /\ pc["sender"] = from /\ pc'["sender"] = FilterEnd /\ Others("sender")
      /\ lock' = IF FilterEnd = "s_lock2" THEN "none" ELSE "sender"
      /\ UNCHANGED <<fsm, queue, msgCounter, mainVars, recvVars>>
  BY <1>a, GotoForm DEF LeaveFilter
<1>2. lock \in {"none", "sender"}
  BY <1>a, <1>1 DEF LeaveFilter, Acquirable
<1>3. FilterEnd \in {"s_while", "s_empty1", "s_lock2"}
      /\ (FilterEnd = "s_lock2" => queue # <<>>)
  BY DEF FilterEnd
<1> QED
  BY <1>1, <1>2, <1>3, SenderMutexed

LEMMA FilterTopDoes ==
  ASSUME StepInv, NEW from \in {"s_lock1", "s_filter"}, FilterTop(from)
  PROVE  SenderDoes
<1>a. /\ "sender" \in Threads /\ TypeOK
      /\ lock = "sender" => pc["sender"] \in Mutexed("sender")
      /\ pc["sender"] \in SenderHolding => lock = "sender"
  BY SenderLock
<1>b. pc["sender"] = from => lock \in {"none", "sender"}
  BY <1>a DEF FilterTop, Acquirable
<1>1. CASE (queue = <<>> \/ ~TimedOut(Top)) /\ LeaveFilter(from)
  BY <1>1, LeaveFilterDoes
<1>2. CASE HolderStep("sender", from, queue, "sender", "s_timeout1")
  BY <1>a, <1>b, <1>2, SenderMutexed, HolderStepForm
<1>3. CASE HolderStep("sender", from, queuePopMessage(queue), "sender", "s_filter")
  <2>1. /\ pc["sender"] = from /\ pc'["sender"] = "s_filter" /\ Others("sender")
        /\ lock' = "sender" /\ queue' = queuePopMessage(queue)
        /\ UNCHANGED <<fsm, msgCounter, mainVars, recvVars>>
    BY <1>a, <1>3, HolderStepForm
  <2> QED
    BY <1>b, <2>1, SenderMutexed DEF queuePopMessage
<1> QED
  BY <1>1, <1>2, <1>3 DEF FilterTop

LEMMA TimeoutEndSignalDoes ==
  ASSUME StepInv, TimeoutEndSignal
  PROVE  SenderDoes
<1>a. /\ "sender" \in Threads /\ TypeOK
      /\ lock = "sender" => pc["sender"] \in Mutexed("sender")
      /\ pc["sender"] \in SenderHolding => lock = "sender"
  BY SenderLock
<1>1. pc["sender"] = "s_toEndSig" /\ lock = "sender"
  BY <1>a DEF TimeoutEndSignal
<1>2. pc'["sender"] = "s_filter" /\ Others("sender")
  BY <1>a, <1>1, SignalledForm DEF TimeoutEndSignal, Conditions, Waits
<1>3. \/ queue' = queue
      \/ queue # <<>> /\ queue' = Tail(queue)
  BY DEF TimeoutEndSignal, queuePopMessage
<1> QED
  BY <1>1, <1>2, <1>3, SenderMutexed DEF TimeoutEndSignal

LEMMA TimeoutSetErrDoes ==
  ASSUME StepInv, TimeoutSetErr
  PROVE  SenderDoes
<1>a. /\ "sender" \in Threads /\ TypeOK
      /\ lock = "sender" => pc["sender"] \in Mutexed("sender")
      /\ pc["sender"] \in SenderHolding => lock = "sender"
  BY SenderLock
<1>1. pc["sender"] = "s_toErr" /\ pc'["sender"] = "s_toSendErr" /\ Others("sender")
  BY <1>a, GotoForm DEF TimeoutSetErr
<1> QED
  BY <1>a, <1>1, SenderMutexed DEF TimeoutSetErr

LEMMA filterResentMessagesDoes ==
  ASSUME StepInv, filterResentMessages
  PROVE  SenderDoes
<1>a. /\ "sender" \in Threads /\ TypeOK
      /\ lock = "sender" => pc["sender"] \in Mutexed("sender")
      /\ pc["sender"] \in SenderHolding => lock = "sender"
  BY SenderLock
<1>1. CASE \E from \in {"s_lock1", "s_filter"} : FilterTop(from)
  BY <1>1, FilterTopDoes
<1>2. CASE TimeoutOfErr
  <2>1. CASE LocalStep("sender", "s_timeout1", "s_timeout2")
    BY <1>a, <2>1, SenderMutexed, LocalStepForm
  <2>2. CASE HolderStep("sender", "s_timeout1", queuePopMessage(queue), "sender",
                        "s_filter")
    <3>1. /\ pc["sender"] = "s_timeout1" /\ pc'["sender"] = "s_filter"
          /\ Others("sender") /\ lock' = "sender"
          /\ queue' = queuePopMessage(queue)
          /\ UNCHANGED <<fsm, msgCounter, mainVars, recvVars>>
      BY <1>a, <2>2, HolderStepForm
    <3> QED
      BY <1>a, <3>1, SenderMutexed DEF queuePopMessage
  <2> QED
    BY <1>2, <2>1, <2>2 DEF TimeoutOfErr
<1>3. CASE TimeoutOfBye
  BY <1>a, <1>3, SenderMutexed, LocalStepForm DEF TimeoutOfBye
<1>4. CASE TimeoutEnd
  BY <1>a, <1>4, SenderMutexed, SetStepForm DEF TimeoutEnd
<1>5. CASE TimeoutEndSignal
  BY <1>5, TimeoutEndSignalDoes
<1>6. CASE TimeoutSetErr
  BY <1>6, TimeoutSetErrDoes
<1>7. CASE TimeoutSendError
  BY <1>a, <1>7, SenderMutexed, sendErrorForm DEF TimeoutSendError
<1>8. CASE TimeoutSendBye
  BY <1>a, <1>8, SenderMutexed, sendByeForm DEF TimeoutSendBye
<1>9. CASE TimeoutSignal
  BY <1>a, <1>9, SenderMutexed, SignalStepForm DEF TimeoutSignal, Conditions, Waits
<1>10. CASE LeaveFilter("s_toLock")
  BY <1>10, LeaveFilterDoes
<1> QED
  BY <1>1, <1>2, <1>3, <1>4, <1>5, <1>6, <1>7, <1>8, <1>9, <1>10
     DEF filterResentMessages

LEMMA EmptyEndDoes ==
  ASSUME StepInv, EmptyEnd
  PROVE  SenderDoes
<1>a. /\ "sender" \in Threads /\ TypeOK
      /\ lock = "sender" => pc["sender"] \in Mutexed("sender")
      /\ pc["sender"] \in SenderHolding => lock = "sender"
  BY SenderLock
<1>1. pc["sender"] = "s_emptyEnd" /\ pc'["sender"] = "s_emptySig" /\ Others("sender")
  BY <1>a, GotoForm DEF EmptyEnd
<1> QED
  BY <1>a, <1>1, SenderMutexed DEF EmptyEnd

LEMMA emptyQueueDoes ==
  ASSUME StepInv, emptyQueue
  PROVE  SenderDoes
<1>a. /\ "sender" \in Threads /\ TypeOK
      /\ lock = "sender" => pc["sender"] \in Mutexed("sender")
      /\ pc["sender"] \in SenderHolding => lock = "sender"
  BY SenderLock
<1>1. CASE EmptyQBye
  BY <1>a, <1>1, SenderMutexed, LocalStepForm DEF EmptyQBye
<1>2. CASE EmptySigintBye
  BY <1>a, <1>2, SenderMutexed, HolderStepForm, LocalStepForm
     DEF EmptySigintBye
<1>3. CASE EmptyEnd
  BY <1>3, EmptyEndDoes
<1>4. CASE EmptySignal
  BY <1>a, <1>4, SenderMutexed, SignalStepForm DEF EmptySignal, Conditions, Waits
<1>5. CASE EmptyWait
  BY <1>a, <1>5, SenderMutexed, LocalStepForm DEF EmptyWait
<1> QED
  BY <1>1, <1>2, <1>3, <1>4, <1>5
     DEF emptyQueue

LEMMA LogicTargetDoes ==
  ASSUME NEW m \in Message, NEW s \in FsmStates
  PROVE  /\ LogicTarget(m, s) \in ToSend \cup {"e_set"}
         /\ LogicTarget(m, s) \notin {"s_authSet", "s_openSig", "s_lock2",
                                     "s_rwaiting", "s_relock", "s_lwaiting",
                                     "s_relogic"}
         /\ LogicTarget(m, s) = "s_authGet" =>
              s <= fsm_W84_REPLY /\ m.msgFlags = "AUTH"
         /\ LogicTarget(m, s) = "s_open" => s = fsm_W84_REPLY_CONF
         /\ LogicTarget(m, s) = "s_join" => s = fsm_OPEN /\ m.type = "JOIN"
<1> USE DEF fsm_START, fsm_W84_REPLY, fsm_W84_REPLY_CONF, fsm_OPEN,
            fsm_ERR, fsm_ERR_W84_CONF, FsmStates, PreOpen, ToSend
<1>1. CASE s \in PreOpen
  <2>1. LogicTarget(m, s) =
          IF m.msgFlags = "AUTH" THEN "s_authGet" ELSE AfterAuthTest(m)
    BY <1>1 DEF LogicTarget
  <2> QED
    BY <1>1, <2>1 DEF AfterAuthTest
<1>2. CASE s = fsm_W84_REPLY_CONF
  <2>1. LogicTarget(m, s) = IF m.type = "CONF" THEN "s_open" ELSE "s_send"
    BY <1>2 DEF LogicTarget
  <2> QED
    BY <1>2, <2>1
<1>3. CASE s = fsm_OPEN
  <2>1. LogicTarget(m, s) = IF m.type = "JOIN" THEN "s_join" ELSE "s_send"
    BY <1>3 DEF LogicTarget
  <2> QED
    BY <1>3, <2>1
<1>4. CASE s \in {fsm_ERR, fsm_ERR_W84_CONF}
  <2>1. LogicTarget(m, s) \in {"s_byeSet", "s_errSet", "s_send", "e_set"}
    BY <1>4 DEF LogicTarget
  <2> QED
    BY <2>1
<1>5. CASE s \notin PreOpen \cup {fsm_W84_REPLY_CONF, fsm_OPEN, fsm_ERR,
                                  fsm_ERR_W84_CONF}
  <2>1. LogicTarget(m, s) = "s_send"
    BY <1>5 DEF LogicTarget
  <2> QED
    BY <2>1
<1> QED
  BY <1>1, <1>2, <1>3, <1>4, <1>5

LEMMA LogicSwitchDoes ==
  ASSUME StepInv, NEW from \in {"s_lock2", "s_relogic"}, LogicSwitch(from)
  PROVE  SenderDoes
<1>a. /\ "sender" \in Threads /\ TypeOK
      /\ lock = "sender" => pc["sender"] \in Mutexed("sender")
      /\ pc["sender"] \in SenderHolding => lock = "sender"
  BY SenderLock
<1> DEFINE target == LogicTarget(Top, fsm)
<1>1. /\ pc["sender"] = from /\ pc'["sender"] = target /\ Others("sender")
      /\ lock = "none" /\ lock' = LockAt(target) /\ queue # <<>>
      /\ UNCHANGED <<fsm, msgCounter, mainVars, recvVars>>
  BY <1>a, GotoForm DEF LogicSwitch, Acquirable
<1>2. Top \in Message /\ fsm \in FsmStates
  BY <1>a, <1>1 DEF Top, TypeOK, InterfaceOK
<1>3. /\ target \in ToSend \cup {"e_set"}
      /\ target \notin {"s_authSet", "s_openSig", "s_lock2", "s_rwaiting",
                       "s_relock", "s_lwaiting", "s_relogic"}
      /\ target = "s_authGet" => fsm <= fsm_W84_REPLY /\ Top.msgFlags = "AUTH"
      /\ target = "s_open" => fsm = fsm_W84_REPLY_CONF
      /\ target = "s_join" => fsm = fsm_OPEN /\ Top.type = "JOIN"
  BY <1>2, LogicTargetDoes
<1>4. \/ queue' = queue
      \/ fsm = fsm_OPEN /\ Top.type = "AUTH" /\ queue' = Tail(queue)
  BY <1>1 DEF LogicSwitch, queuePopMessage
<1>5. \/ lock' = "none"
      \/ lock' = "sender" /\ target \notin {"s_rwait", "s_lwait"}
  BY <1>1 DEF LockAt
<1> HIDE DEF target
<1> QED
  BY <1>1, <1>3, <1>4, <1>5, SenderMutexed

LEMMA LogicAuthTestDoes ==
  ASSUME StepInv, NEW from \in {"s_authGet", "s_authSet"}, NEW s,
         LogicAuthTest(from, s),
         s = fsm \/ (from = "s_authSet" /\ s = fsm_AUTH_SENDED)
  PROVE  SenderDoes
<1>a. /\ "sender" \in Threads /\ TypeOK
      /\ lock = "sender" => pc["sender"] \in Mutexed("sender")
      /\ pc["sender"] \in SenderHolding => lock = "sender"
  BY SenderLock
<1> DEFINE target == AfterAuthTest(msgToBeSend)
<1>1. /\ pc["sender"] = from /\ pc'["sender"] = target /\ Others("sender")
      /\ lock' = LockAt(target) /\ fsm' = s
      /\ UNCHANGED <<queue, msgCounter, mainVars, recvVars>>
  BY <1>a, GotoForm DEF LogicAuthTest
<1>2. target \in {"s_rwait", "s_lwait", "s_send"}
  BY DEF AfterAuthTest
<1>3. \/ lock' = "none"
      \/ lock' = "sender" /\ target \notin {"s_rwait", "s_lwait"}
  BY <1>1 DEF LockAt
<1> HIDE DEF target
<1> QED
  BY <1>a, <1>1, <1>2, <1>3, SenderMutexed

LEMMA logicFSMDoes ==
  ASSUME StepInv, logicFSM
  PROVE  SenderDoes
<1>a. /\ "sender" \in Threads /\ TypeOK
      /\ lock = "sender" => pc["sender"] \in Mutexed("sender")
      /\ pc["sender"] \in SenderHolding => lock = "sender"
  BY SenderLock
<1>1. CASE \E from \in {"s_lock2", "s_relogic"} : LogicSwitch(from)
  BY <1>1, LogicSwitchDoes
<1>2. CASE \E from \in {"s_lock2", "s_relogic"} : LogicNoMessage(from)
  BY <1>a, <1>2, SenderMutexed, ExitStepForm DEF LogicNoMessage
<1>3. CASE LogicAuthGet
  <2>1. CASE LocalStep("sender", "s_authGet", "s_authSet") /\ fsm <= fsm_AUTH_W82
    <3>1. fsm \in 0 .. 12
      BY <1>a DEF TypeOK, InterfaceOK, FsmStates
    <3> QED
      BY <1>a, <2>1, <3>1, SenderMutexed, LocalStepForm DEF fsm_AUTH_W82
  <2>2. CASE LogicAuthTest("s_authGet", fsm)
    BY <2>2, LogicAuthTestDoes
  <2> QED
    BY <1>3, <2>1, <2>2 DEF LogicAuthGet
<1>4. CASE LogicAuthSet
  BY <1>4, LogicAuthTestDoes DEF LogicAuthSet
<1>5. CASE LogicBlockedWait
  BY <1>a, <1>5, SenderMutexed, LocalStepForm DEF LogicBlockedWait
<1>6. CASE LogicReplyWait
  BY <1>a, <1>6, SenderMutexed, LocalStepForm DEF LogicReplyWait
<1>7. CASE LogicOpen
  BY <1>a, <1>7, SenderMutexed, SetStepForm DEF LogicOpen
<1>8. CASE LogicOpenSignal
  BY <1>a, <1>8, SenderMutexed, SignalStepForm DEF LogicOpenSignal, Conditions, Waits
<1>9. CASE LogicJoin
  BY <1>a, <1>9, SenderMutexed, SetStepForm DEF LogicJoin
<1>10. CASE LogicBye
  BY <1>a, <1>10, SenderMutexed, SetStepForm DEF LogicBye
<1>11. CASE LogicErr
  BY <1>a, <1>11, SenderMutexed, SetStepForm DEF LogicErr
<1> QED
  BY <1>1, <1>2, <1>3, <1>4, <1>5, <1>6, <1>7, <1>8, <1>9, <1>10, <1>11
     DEF logicFSM

LEMMA SendMessageDoes ==
  ASSUME StepInv, NEW from \in SendLabels, SendMessage(from)
  PROVE  SenderDoes
<1>a. /\ "sender" \in Threads /\ TypeOK
      /\ lock = "sender" => pc["sender"] \in Mutexed("sender")
      /\ pc["sender"] \in SenderHolding => lock = "sender"
  BY SenderLock
<1>1. pc["sender"] = from /\ pc'["sender"] = "s_twaiting" /\ Others("sender")
  BY <1>a, GotoForm DEF SendMessage
<1>2. lock \in {"none", "sender"}
  BY <1>a, <1>1 DEF SendMessage, Acquirable
<1> QED
  BY <1>1, <1>2, SenderMutexed DEF SendMessage

LEMMA transmissionDoes ==
  ASSUME StepInv, transmission \/ SocketError
  PROVE  SenderDoes
<1>a. /\ "sender" \in Threads /\ TypeOK
      /\ lock = "sender" => pc["sender"] \in Mutexed("sender")
      /\ pc["sender"] \in SenderHolding => lock = "sender"
  BY SenderLock
<1>1. CASE \E from \in SendLabels : SendMessage(from)
  BY <1>1, SendMessageDoes
<1>2. CASE \E from \in SendLabels : SendNoMessage(from)
  BY <1>a, <1>2, SenderMutexed, ExitStepForm DEF SendNoMessage
<1>3. CASE SendTimeout
  BY <1>a, <1>3, SenderMutexed, LocalStepForm DEF SendTimeout
<1>4. CASE SocketError
  BY <1>a, <1>4, SenderMutexed, ExitStepForm DEF SocketError, SendFails
<1> QED
  BY <1>1, <1>2, <1>3, <1>4
     DEF transmission

LEMMA SenderStepDoes ==
  ASSUME StepInv, SenderStep \/ SocketError
  PROVE  SenderDoes
<1>a. /\ "sender" \in Threads /\ TypeOK
      /\ lock = "sender" => pc["sender"] \in Mutexed("sender")
      /\ pc["sender"] \in SenderHolding => lock = "sender"
  BY SenderLock
<1>1. CASE SenderLoop
  BY <1>a, <1>1, SenderMutexed, LocalStepForm DEF SenderLoop
<1>2. CASE filterResentMessages
  BY <1>2, filterResentMessagesDoes
<1>3. CASE emptyQueue
  BY <1>3, emptyQueueDoes
<1>4. CASE logicFSM
  BY <1>4, logicFSMDoes
<1>5. CASE transmission \/ SocketError
  BY <1>5, transmissionDoes
<1> QED
  BY <1>1, <1>2, <1>3, <1>4, <1>5
     DEF SenderStep

LEMMA senderErrDoes ==
  ASSUME StepInv, errHandling("sender")
  PROVE  SenderDoes
<1>a. /\ "sender" \in Threads /\ TypeOK
      /\ lock = "sender" => pc["sender"] \in Mutexed("sender")
      /\ pc["sender"] \in SenderHolding => lock = "sender"
  BY SenderLock
<1>1. CASE ErrSet("sender")
  BY <1>a, <1>1, SenderMutexed, SetStepForm DEF ErrSet
<1>2. CASE ErrSignal("sender")
  BY <1>a, <1>2, SenderMutexed, SignalStepForm DEF ErrSignal, Conditions, Waits
<1>3. CASE ErrPop("sender")
  BY <1>a, <1>3, SenderMutexed, LockedQueueStepForm DEF ErrPop
<1>4. CASE ErrBye("sender")
  BY <1>a, <1>4, SenderMutexed, sendByeForm DEF ErrBye
<1>5. CASE ErrWait("sender")
  BY <1>a, <1>5, SenderMutexed, LocalStepForm DEF ErrWait
<1>6. CASE ErrExit("sender")
  BY <1>a, <1>6, SenderMutexed, ExitStepForm DEF ErrExit
<1> QED
  BY <1>1, <1>2, <1>3, <1>4, <1>5, <1>6
     DEF errHandling

HIDE DEF SenderHolding, SenderDoes, Mutex, SenderQueue, SenderFsm,
         SenderEnters, ToSend, Refill, LastMessages, SendLabels,
         Ending, fsm_AUTH_SENDED, fsm_W84_REPLY, fsm_W84_REPLY_CONF,
         fsm_OPEN, fsm_JOIN_ATEMPT, fsm_EMPTY_Q_BYE, fsm_ERR,
         fsm_ERR_W84_CONF, fsm_END_W84_CONF, fsm_END

-----------------------------------------------------------------------------
(* From a REPLY that is new to its effect; from a new MSG to its printing;  *)
(* and the handling of a message of unknown type.                           *)
NewReply == {"r_reply1", "r_reply2", "r_result", "r_okFlag", "r_okSet"}
NewMsg   == {"r_msgSig1", "r_msgSig2", "r_print"}
Unknown  == {"r_unknown", "r_unkPop", "r_unkConfirm", "r_unkErr", "r_unkBye",
             "r_unkSig1", "r_unkSig2"}

Record(m) == [type |-> m.type, id |-> m.id]

(* The confirmations the receiver puts in front of the queue.               *)
Confirmations == {Confirmation("CONFIRM"), Confirmation("NOK_REPLY")}

ReceiverQueue ==
  \/ queue' = queue
  \/ queue' = <<>>
  \/ \E m \in LastMessages : queue' = Append(queue, m)
  \/ \E c \in Confirmations, q \in {queue, <<>>} : queue' = <<c>> \o q
  \/ /\ pc["receiver"] = "r_okFlag"
     /\ queue # <<>> /\ queue' = [queue EXCEPT ![1].msgFlags = "CONFIRMED"]
  \/ /\ pc["receiver"] = "r_nok"
     /\ queue # <<>> /\ Head(queue).msgFlags = "AUTH"
     /\ queue' = [queue EXCEPT ![1].msgFlags = "REJECTED"]
  \/ /\ pc["receiver"] = "r_conf"
     /\ queue # <<>> /\ queue' = [queue EXCEPT ![1].confirmed = TRUE]

ReceiverFsm ==
  \/ fsm' = fsm
  \/ Ending(fsm')
  \/ pc["receiver"] = "r_confReply" /\ fsm' = fsm_W84_REPLY
  \/ /\ pc["receiver"] = "r_okSet" /\ fsm' = fsm_W84_REPLY_CONF
     /\ acted' = acted \cup {rx}
  \/ /\ pc["receiver"] = "r_nokStart" /\ fsm' = fsm_START
     /\ queue' = queue
  \/ pc["receiver"] = "r_nokOpen" /\ fsm' = fsm_OPEN

ReceiverEnters ==
  /\ pc'["receiver"] = "r_confReply" => fsm = fsm_AUTH_SENDED /\ fsm' = fsm
  /\ pc'["receiver"] = "r_result" =>
       fsm \in {fsm_W84_REPLY, fsm_JOIN_ATEMPT} /\ fsm' = fsm /\ queue' = queue
  /\ pc'["receiver"] \in {"r_okFlag", "r_okSet", "r_nok"} =>
       pc["receiver"] \in {"r_result", "r_okFlag", "r_nok"}
  /\ pc'["receiver"] \in NewReply =>
       rx' = rx /\ (pc["receiver"] \in NewReply \/ rx.type = "REPLY")
  /\ pc'["receiver"] = "r_okFlag" => fsm = fsm_W84_REPLY
  /\ pc'["receiver"] \in {"r_okFlag", "r_okSet"} =>
       pc["receiver"] = "r_okFlag" \/ rx.ok
  /\ pc'["receiver"] = "r_nokStart" =>
       /\ pc["receiver"] = "r_nok" /\ fsm' = fsm /\ queue # <<>> /\ Head(queue).msgFlags = "AUTH"
       /\ queue' = [queue EXCEPT ![1].msgFlags = "REJECTED"]
  /\ pc'["receiver"] = "r_nokOpen" => fsm = fsm_JOIN_ATEMPT /\ fsm' = fsm
  /\ pc'["receiver"] = "r_msg" => rx' = rx /\ rx.type = "MSG"
  /\ pc'["receiver"] \in Unknown =>
       \/ pc["receiver"] \in Unknown
       \/ pc["receiver"] = "r_dedup" /\ rx.type \in {"UNKNOWN", "MALFORMED"}
  /\ pc'["receiver"] = "r_dedup" =>
       rx'.type \in ServerKinds /\ rx'.type # "MALFORMED"

(* The records and what is acted on.                                        *)
ReceiverRecords ==
  /\ confirmedMsgs \subseteq confirmedMsgs'
  /\ \/ acted' = acted
     \/ /\ pc["receiver"] = "r_okSet" /\ pc'["receiver"] = "r_okConfirm"
        /\ acted' = acted \cup {rx} /\ fsm' = fsm_W84_REPLY_CONF
     \/ /\ pc["receiver"] = "r_print" /\ pc'["receiver"] = "r_while"
        /\ acted' = acted \cup {rx}
  /\ pc'["receiver"] \in NewReply =>
       pc["receiver"] \in NewReply \/ Record(rx) \in confirmedMsgs'
  /\ pc'["receiver"] \in NewMsg =>
       /\ rx' = rx
       /\ pc["receiver"] \in NewMsg \/ (pc["receiver"] = "r_msg" /\ ~repetitiveMsg)
  /\ pc'["receiver"] = "r_msg" /\ ~repetitiveMsg' =>
       /\ rx' = rx /\ ~queueContainsMessageId(confirmedMsgs, rx)
       /\ Record(rx) \in confirmedMsgs'

ReceiverDoes ==
  /\ Others("receiver") /\ Mutex("receiver")
  /\ queue' # queue =>
       lock \in {"none", "receiver"} \/ pc["receiver"] = "r_unkConfirm"
  /\ ReceiverQueue /\ ReceiverFsm /\ ReceiverEnters /\ ReceiverRecords
  /\ UNCHANGED <<mainVars, sendVars>>

LEMMA ReceiverMutexed ==
  /\ Holding("receiver") = ReceiverHolding
  /\ Mutexed("receiver") = ReceiverHolding \cup {"e_set", "e_sig", "e_pop"}
<1>1. LeavesLocked("receiver") = {"e_set", "e_sig", "e_pop"}
  BY DEF LeavesLocked
<1> QED
  BY <1>1 DEF Mutexed, Holding

LEMMA ReceiverLock ==
  ASSUME StepInv
  PROVE  /\ "receiver" \in Threads /\ TypeOK
         /\ lock = "receiver" => pc["receiver"] \in Mutexed("receiver")
         /\ pc["receiver"] \in ReceiverHolding => lock = "receiver"
<1>1. "receiver" \in Threads /\ TypeOK
  BY DEF Threads, StepInv, IndInv
<1> QED
  BY <1>1, ReceiverMutexed
     DEF StepInv, IndInv, MutexReleased, Mutexed, LockDiscipline

USE DEF ReceiverHolding, ReceiverDoes, Mutex, ReceiverQueue, ReceiverFsm,
        ReceiverEnters, ReceiverRecords, NewReply, NewMsg, Unknown,
        Ending, LastMessages, Confirmations, recvVars, fsm_START,
        fsm_AUTH_SENDED, fsm_W84_REPLY, fsm_W84_REPLY_CONF,
        fsm_OPEN, fsm_JOIN_ATEMPT, fsm_EMPTY_Q_BYE, fsm_ERR,
        fsm_END_W84_CONF, fsm_END

LEMMA ReceiverLoopDoes ==
  ASSUME StepInv, ReceiverLoop
  PROVE  ReceiverDoes
<1>a. /\ "receiver" \in Threads /\ TypeOK
      /\ lock = "receiver" => pc["receiver"] \in Mutexed("receiver")
      /\ pc["receiver"] \in ReceiverHolding => lock = "receiver"
  BY ReceiverLock
<1>1. /\ pc["receiver"] = "r_while" /\ pc'["receiver"] \in {"r_recv", "r_end"}
      /\ Others("receiver")
  BY <1>a, GotoForm DEF ReceiverLoop
<1> QED
  BY <1>a, <1>1, ReceiverMutexed DEF ReceiverLoop, interface

LEMMA DeliveryDoes ==
  ASSUME StepInv, Delivery
  PROVE  ReceiverDoes
<1>a. /\ "receiver" \in Threads /\ TypeOK
      /\ lock = "receiver" => pc["receiver"] \in Mutexed("receiver")
      /\ pc["receiver"] \in ReceiverHolding => lock = "receiver"
  BY ReceiverLock
<1>1. PICK m \in Deliverable : Receive(m)
  BY DEF Delivery
<1>2. m.type \in ServerKinds
  BY DEF Deliverable
<1>3. /\ pc["receiver"] = "r_recv" /\ Others("receiver")
      /\ pc'["receiver"] \in {"e_set", "r_while", "r_dedup"}
      /\ pc'["receiver"] = "r_dedup" => m.type # "MALFORMED"
      /\ rx' = m
      /\ UNCHANGED <<fsm, queue, lock, confirmedMsgs, acted, mainVars, sendVars>>
  BY <1>a, <1>1, GotoForm DEF Receive, interface
<1> QED
  BY <1>a, <1>2, <1>3, ReceiverMutexed

LEMMA FilterRepeatedDoes ==
  ASSUME StepInv, FilterRepeated
  PROVE  ReceiverDoes
<1>a. /\ "receiver" \in Threads /\ TypeOK
      /\ lock = "receiver" => pc["receiver"] \in Mutexed("receiver")
      /\ pc["receiver"] \in ReceiverHolding => lock = "receiver"
  BY ReceiverLock
<1> DEFINE repetitive == queueContainsMessageId(confirmedMsgs, rx)
           to         == HandlerOf(rx, repetitive)
<1>1. /\ pc["receiver"] = "r_dedup" /\ pc'["receiver"] = to /\ Others("receiver")
      /\ lock = "none" /\ repetitiveMsg' = repetitive
      /\ UNCHANGED <<fsm, queue, lock, rx, acted, mainVars, sendVars>>
  BY <1>a, GotoForm DEF FilterRepeated, interface
<1>2. /\ to \in {"r_conf", "r_repeated", "r_reply1", "r_msg", "r_bye", "r_err",
                 "r_unknown"}
      /\ to = "r_reply1" => rx.type = "REPLY" /\ ~repetitive
      /\ to = "r_msg" => rx.type = "MSG"
  BY DEF HandlerOf
<1>3. to = "r_unknown" => rx.type \in {"UNKNOWN", "MALFORMED"}
  <2>1. rx.type \in SrvTypes /\ rx.type # "SHORT"
    BY <1>a DEF FilterRepeated, TypeOK, RecvOK, SrvMessage
  <2>2. rx.type \in {"CONF", "REPLY", "MSG", "BYE", "ERR"} => to # "r_unknown"
    BY DEF HandlerOf
  <2> QED
    BY <2>1, <2>2 DEF SrvTypes
<1>4. /\ confirmedMsgs \subseteq confirmedMsgs'
      /\ rx.type # "CONF" /\ ~repetitive => Record(rx) \in confirmedMsgs'
  BY DEF FilterRepeated, queueAddMessageOnlyID, Record
<1> HIDE DEF repetitive, to
<1>5. pc'["receiver"] = "r_msg" /\ ~repetitiveMsg' =>
        ~repetitive /\ Record(rx) \in confirmedMsgs'
  BY <1>1, <1>2, <1>4
<1> QED
  BY <1>a, <1>1, <1>2, <1>3, <1>4, <1>5, ReceiverMutexed DEF repetitive

LEMMA ConfirmTopDoes ==
  ASSUME StepInv, ConfirmTop
  PROVE  ReceiverDoes
<1>a. /\ "receiver" \in Threads /\ TypeOK
      /\ lock = "receiver" => pc["receiver"] \in Mutexed("receiver")
      /\ pc["receiver"] \in ReceiverHolding => lock = "receiver"
  BY ReceiverLock
<1>1. pc["receiver"] = "r_conf" /\ pc'["receiver"] = "r_confGet" /\ Others("receiver")
  BY <1>a, GotoForm DEF ConfirmTop
<1> QED
  BY <1>a, <1>1, ReceiverMutexed DEF ConfirmTop

LEMMA ConfirmSigSenderDoes ==
  ASSUME StepInv, ConfirmSigSender
  PROVE  ReceiverDoes
<1>a. /\ "receiver" \in Threads /\ TypeOK
      /\ lock = "receiver" => pc["receiver"] \in Mutexed("receiver")
      /\ pc["receiver"] \in ReceiverHolding => lock = "receiver"
  BY ReceiverLock
<1>1. pc["receiver"] = "r_confSig" /\ lock = "receiver"
  BY <1>a DEF ConfirmSigSender
<1>2. pc'["receiver"] = "r_while" /\ Others("receiver")
  BY <1>a, <1>1, SignalledForm DEF ConfirmSigSender, Conditions, Waits
<1> QED
  BY <1>1, <1>2, ReceiverMutexed DEF ConfirmSigSender

LEMMA handleConfirmUDPDoes ==
  ASSUME StepInv, handleConfirmUDP
  PROVE  ReceiverDoes
<1>a. /\ "receiver" \in Threads /\ TypeOK
      /\ lock = "receiver" => pc["receiver"] \in Mutexed("receiver")
      /\ pc["receiver"] \in ReceiverHolding => lock = "receiver"
  BY ReceiverLock
<1>1. CASE ConfirmIgnored
  BY <1>a, <1>1, ReceiverMutexed, LocalStepForm DEF ConfirmIgnored
<1>2. CASE ConfirmTop
  BY <1>2, ConfirmTopDoes
<1>3. CASE ConfirmSwitch
  BY <1>a, <1>3, ReceiverMutexed, LocalStepForm DEF ConfirmSwitch
<1>4. CASE ConfirmAuth
  BY <1>a, <1>4, ReceiverMutexed, SetStepForm DEF ConfirmAuth
<1>5. CASE ConfirmBye
  BY <1>a, <1>5, ReceiverMutexed, SetStepForm DEF ConfirmBye
<1>6. CASE ConfirmSigMain
  BY <1>a, <1>6, ReceiverMutexed, SignalStepForm DEF ConfirmSigMain, Conditions, Waits
<1>7. CASE ConfirmSigSender
  BY <1>7, ConfirmSigSenderDoes
<1> QED
  BY <1>1, <1>2, <1>3, <1>4, <1>5, <1>6, <1>7
     DEF handleConfirmUDP

LEMMA ReplyOkFlagDoes ==
  ASSUME StepInv, ReplyOkFlag
  PROVE  ReceiverDoes
<1>a. /\ "receiver" \in Threads /\ TypeOK
      /\ lock = "receiver" => pc["receiver"] \in Mutexed("receiver")
      /\ pc["receiver"] \in ReceiverHolding => lock = "receiver"
  BY ReceiverLock
<1>1. /\ pc["receiver"] = "r_okFlag" /\ pc'["receiver"] = "r_okSet"
      /\ Others("receiver") /\ lock = "none"
      /\ queue' = queueSetMessageFlags(queue, "CONFIRMED")
      /\ UNCHANGED <<fsm, lock, mainVars, sendVars, recvVars>>
  BY <1>a, LockedQueueStepForm DEF ReplyOkFlag
<1>2. \/ queue' = queue
      \/ queue # <<>> /\ queue' = [queue EXCEPT ![1].msgFlags = "CONFIRMED"]
  BY <1>1 DEF queueSetMessageFlags
<1> QED
  BY <1>a, <1>1, <1>2, ReceiverMutexed

LEMMA ReplyOkSetDoes ==
  ASSUME StepInv, ReplyOkSet
  PROVE  ReceiverDoes
<1>a. /\ "receiver" \in Threads /\ TypeOK
      /\ lock = "receiver" => pc["receiver"] \in Mutexed("receiver")
      /\ pc["receiver"] \in ReceiverHolding => lock = "receiver"
  BY ReceiverLock
<1>1. /\ pc["receiver"] = "r_okSet" /\ pc'["receiver"] = "r_okConfirm"
      /\ Others("receiver")
  BY <1>a, GotoForm DEF ReplyOkSet
<1> QED
  BY <1>a, <1>1, ReceiverMutexed DEF ReplyOkSet

LEMMA ReplyNokTopDoes ==
  ASSUME StepInv, ReplyNokTop
  PROVE  ReceiverDoes
<1>a. /\ "receiver" \in Threads /\ TypeOK
      /\ lock = "receiver" => pc["receiver"] \in Mutexed("receiver")
      /\ pc["receiver"] \in ReceiverHolding => lock = "receiver"
  BY ReceiverLock
<1> DEFINE isAuth == Head(queue).msgFlags = "AUTH"
<1>1. /\ pc["receiver"] = "r_nok" /\ Others("receiver")
      /\ pc'["receiver"] = IF isAuth THEN "r_nokStart" ELSE "r_nokGet"
      /\ queue # <<>> /\ lock = "none" /\ lock' = "receiver"
      /\ queue' = IF isAuth THEN queueSetMessageFlags(queue, "REJECTED") ELSE queue
      /\ UNCHANGED <<fsm, mainVars, sendVars, recvVars>>
  BY <1>a, HolderStepForm DEF ReplyNokTop
<1>2. isAuth => queue' = [queue EXCEPT ![1].msgFlags = "REJECTED"]
  BY <1>1 DEF queueSetMessageFlags
<1> QED
  BY <1>a, <1>1, <1>2, ReceiverMutexed

LEMMA ReplyNokConfirmDoes ==
  ASSUME StepInv, ReplyNokConfirm
  PROVE  ReceiverDoes
<1>a. /\ "receiver" \in Threads /\ TypeOK
      /\ lock = "receiver" => pc["receiver"] \in Mutexed("receiver")
      /\ pc["receiver"] \in ReceiverHolding => lock = "receiver"
  BY ReceiverLock
<1>1. /\ pc["receiver"] = "r_nokConfirm" /\ pc'["receiver"] = "r_nokSig"
      /\ Others("receiver") /\ lock' = "none"
      /\ queue' = <<Confirmation("NOK_REPLY")>> \o queue
      /\ UNCHANGED <<fsm, mainVars, sendVars, recvVars>>
  BY <1>a, HolderStepForm
     DEF ReplyNokConfirm, sendConfirm, queueAddMessagePriority
<1> QED
  BY <1>a, <1>1, ReceiverMutexed

LEMMA ReplyCounterDoes ==
  ASSUME StepInv, ReplyCounter
  PROVE  ReceiverDoes
<1>a. /\ "receiver" \in Threads /\ TypeOK
      /\ lock = "receiver" => pc["receiver"] \in Mutexed("receiver")
      /\ pc["receiver"] \in ReceiverHolding => lock = "receiver"
  BY ReceiverLock
<1>1. pc["receiver"] = "r_counter" /\ pc'["receiver"] = "r_while" /\ Others("receiver")
  BY <1>a, GotoForm DEF ReplyCounter
<1> QED
  BY <1>a, <1>1, ReceiverMutexed DEF ReplyCounter

LEMMA handleReplyUDPDoes ==
  ASSUME StepInv, handleReplyUDP
  PROVE  ReceiverDoes
<1>a. /\ "receiver" \in Threads /\ TypeOK
      /\ lock = "receiver" => pc["receiver"] \in Mutexed("receiver")
      /\ pc["receiver"] \in ReceiverHolding => lock = "receiver"
  BY ReceiverLock
<1>1. CASE ReplyForAuth
  BY <1>a, <1>1, ReceiverMutexed, LocalStepForm DEF ReplyForAuth
<1>2. CASE ReplyForJoin
  BY <1>a, <1>2, ReceiverMutexed, LocalStepForm DEF ReplyForJoin
<1>3. CASE ReplyResult
  BY <1>a, <1>3, ReceiverMutexed, LocalStepForm DEF ReplyResult
<1>4. CASE ReplyOkFlag
  BY <1>4, ReplyOkFlagDoes
<1>5. CASE ReplyOkSet
  BY <1>5, ReplyOkSetDoes
<1>6. CASE ReplyOkConfirm
  <2>1. /\ pc["receiver"] = "r_okConfirm" /\ Others("receiver")
        /\ pc'["receiver"] = "r_okSig1"
        /\ lock = "none" /\ queue' = <<Confirmation("CONFIRM")>> \o queue
        /\ UNCHANGED <<fsm, lock, msgCounter, mainVars, sendVars, recvVars>>
    BY <1>a, <1>6, LockedQueueStepForm
       DEF ReplyOkConfirm, sendConfirm, queueAddMessagePriority
  <2> QED
    BY <1>a, <2>1, ReceiverMutexed
<1>7. CASE ReplyOkSigEmpty
  BY <1>a, <1>7, ReceiverMutexed, SignalStepForm DEF ReplyOkSigEmpty, Conditions, Waits
<1>8. CASE ReplyOkSigRec
  BY <1>a, <1>8, ReceiverMutexed, SignalStepForm DEF ReplyOkSigRec, Conditions, Waits
<1>9. CASE ReplyNokTop
  BY <1>9, ReplyNokTopDoes
<1>10. CASE ReplyNokNoTop
  BY <1>a, <1>10, ReceiverMutexed, ExitStepForm DEF ReplyNokNoTop
<1>11. CASE ReplyNokStart
  BY <1>a, <1>11, ReceiverMutexed, SetStepForm DEF ReplyNokStart
<1>12. CASE ReplyNokGet
  BY <1>a, <1>12, ReceiverMutexed, LocalStepForm DEF ReplyNokGet
<1>13. CASE ReplyNokOpen
  BY <1>a, <1>13, ReceiverMutexed, SetStepForm DEF ReplyNokOpen
<1>14. CASE ReplyNokConfirm
  BY <1>14, ReplyNokConfirmDoes
<1>15. CASE ReplyNokSignal
  BY <1>a, <1>15, ReceiverMutexed, SignalStepForm DEF ReplyNokSignal, Conditions, Waits
<1>16. CASE ReplyCounter
  BY <1>16, ReplyCounterDoes
<1> QED
  BY <1>1, <1>2, <1>3, <1>4, <1>5, <1>6, <1>7, <1>8, <1>9, <1>10, <1>11, <1>12, <1>13, <1>14, <1>15, <1>16
     DEF handleReplyUDP

LEMMA printIncomingMessageDoes ==
  ASSUME StepInv, printIncomingMessage
  PROVE  ReceiverDoes
<1>a. /\ "receiver" \in Threads /\ TypeOK
      /\ lock = "receiver" => pc["receiver"] \in Mutexed("receiver")
      /\ pc["receiver"] \in ReceiverHolding => lock = "receiver"
  BY ReceiverLock
<1>1. pc["receiver"] = "r_print" /\ pc'["receiver"] = "r_while" /\ Others("receiver")
  BY <1>a, GotoForm DEF printIncomingMessage
<1> QED
  BY <1>a, <1>1, ReceiverMutexed DEF printIncomingMessage, interface

LEMMA handleMsgDoes ==
  ASSUME StepInv, handleMsg
  PROVE  ReceiverDoes
<1>a. /\ "receiver" \in Threads /\ TypeOK
      /\ lock = "receiver" => pc["receiver"] \in Mutexed("receiver")
      /\ pc["receiver"] \in ReceiverHolding => lock = "receiver"
  BY ReceiverLock
<1>1. CASE MsgConfirm
  <2>1. /\ pc["receiver"] = "r_msg" /\ Others("receiver")
        /\ pc'["receiver"] = IF repetitiveMsg THEN "r_while" ELSE "r_msgSig1"
        /\ lock = "none" /\ queue' = <<Confirmation("CONFIRM")>> \o queue
        /\ UNCHANGED <<fsm, lock, msgCounter, mainVars, sendVars, recvVars>>
    BY <1>a, <1>1, LockedQueueStepForm
       DEF MsgConfirm, sendConfirm, queueAddMessagePriority
  <2> QED
    BY <1>a, <2>1, ReceiverMutexed
<1>2. CASE MsgSigEmpty
  BY <1>a, <1>2, ReceiverMutexed, SignalStepForm DEF MsgSigEmpty, Conditions, Waits
<1>3. CASE MsgSigRec
  BY <1>a, <1>3, ReceiverMutexed, SignalStepForm DEF MsgSigRec, Conditions, Waits
<1>4. CASE printIncomingMessage
  BY <1>4, printIncomingMessageDoes
<1> QED
  BY <1>1, <1>2, <1>3, <1>4
     DEF handleMsg

LEMMA ErrConfirmDoes ==
  ASSUME StepInv, ErrConfirm
  PROVE  ReceiverDoes
<1>a. /\ "receiver" \in Threads /\ TypeOK
      /\ lock = "receiver" => pc["receiver"] \in Mutexed("receiver")
      /\ pc["receiver"] \in ReceiverHolding => lock = "receiver"
  BY ReceiverLock
<1>1. /\ pc["receiver"] = "r_err" /\ pc'["receiver"] = "r_errBye"
      /\ Others("receiver") /\ lock = "none"
      /\ queue' = <<Confirmation("CONFIRM")>> \o <<>>
      /\ UNCHANGED <<fsm, lock, mainVars, sendVars, recvVars>>
  BY <1>a, LockedQueueStepForm
     DEF ErrConfirm, sendConfirm, queueAddMessagePriority
<1> QED
  BY <1>a, <1>1, ReceiverMutexed

LEMMA UnknownConfirmDoes ==
  ASSUME StepInv, UnknownConfirm
  PROVE  ReceiverDoes
<1>a. /\ "receiver" \in Threads /\ TypeOK
      /\ lock = "receiver" => pc["receiver"] \in Mutexed("receiver")
      /\ pc["receiver"] \in ReceiverHolding => lock = "receiver"
  BY ReceiverLock
<1>1. /\ pc["receiver"] = "r_unkConfirm" /\ pc'["receiver"] = "r_unkErr"
      /\ Others("receiver")
  BY <1>a, GotoForm DEF UnknownConfirm
<1>2. queue' = queue \/ queue' = <<Confirmation("CONFIRM")>> \o queue
  BY DEF UnknownConfirm, sendConfirm, queueAddMessagePriority
<1> QED
  BY <1>a, <1>1, <1>2, ReceiverMutexed DEF UnknownConfirm

LEMMA handleEndDoes ==
  ASSUME StepInv, handleEnd
  PROVE  ReceiverDoes
<1>a. /\ "receiver" \in Threads /\ TypeOK
      /\ lock = "receiver" => pc["receiver"] \in Mutexed("receiver")
      /\ pc["receiver"] \in ReceiverHolding => lock = "receiver"
  BY ReceiverLock
<1>1. CASE ByeConfirm
  <2>1. /\ pc["receiver"] = "r_bye" /\ Others("receiver")
        /\ pc'["receiver"] = "r_byeSet"
        /\ lock = "none" /\ queue' = <<Confirmation("CONFIRM")>> \o queue
        /\ UNCHANGED <<fsm, lock, msgCounter, mainVars, sendVars, recvVars>>
    BY <1>a, <1>1, LockedQueueStepForm
       DEF ByeConfirm, sendConfirm, queueAddMessagePriority
  <2> QED
    BY <1>a, <2>1, ReceiverMutexed
<1>2. CASE ByeSet
  BY <1>a, <1>2, ReceiverMutexed, SetStepForm DEF ByeSet
<1>3. CASE ErrConfirm
  BY <1>3, ErrConfirmDoes
<1>4. CASE ErrSendBye
  BY <1>a, <1>4, ReceiverMutexed, sendByeForm DEF ErrSendBye
<1>5. CASE ErrSigEmpty
  BY <1>a, <1>5, ReceiverMutexed, SignalStepForm DEF ErrSigEmpty, Conditions, Waits
<1>6. CASE ErrSigRec
  BY <1>a, <1>6, ReceiverMutexed, SignalStepForm DEF ErrSigRec, Conditions, Waits
<1>7. CASE ErrSetErr
  BY <1>a, <1>7, ReceiverMutexed, SetStepForm DEF ErrSetErr
<1>8. CASE UnknownSet
  BY <1>a, <1>8, ReceiverMutexed, SetStepForm DEF UnknownSet
<1>9. CASE UnknownPop
  BY <1>a, <1>9, ReceiverMutexed, LockedQueueStepForm DEF UnknownPop
<1>10. CASE UnknownConfirm
  BY <1>10, UnknownConfirmDoes
<1>11. CASE UnknownErr
  BY <1>a, <1>11, ReceiverMutexed, sendErrorForm DEF UnknownErr
<1>12. CASE UnknownBye
  BY <1>a, <1>12, ReceiverMutexed, sendByeForm DEF UnknownBye
<1>13. CASE UnknownSigEmpty
  BY <1>a, <1>13, ReceiverMutexed, SignalStepForm DEF UnknownSigEmpty, Conditions, Waits
<1>14. CASE UnknownSigRec
  BY <1>a, <1>14, ReceiverMutexed, SignalStepForm DEF UnknownSigRec, Conditions, Waits
<1>15. CASE SigMain
  BY <1>a, <1>15, ReceiverMutexed, SignalStepForm DEF SigMain, Conditions, Waits
<1> QED
  BY <1>1, <1>2, <1>3, <1>4, <1>5, <1>6, <1>7, <1>8, <1>9, <1>10, <1>11, <1>12, <1>13, <1>14, <1>15
     DEF handleEnd

LEMMA ReceiverStepDoes ==
  ASSUME StepInv, ReceiverStep
  PROVE  ReceiverDoes
<1>a. /\ "receiver" \in Threads /\ TypeOK
      /\ lock = "receiver" => pc["receiver"] \in Mutexed("receiver")
      /\ pc["receiver"] \in ReceiverHolding => lock = "receiver"
  BY ReceiverLock
<1>1. CASE ReceiverLoop
  BY <1>1, ReceiverLoopDoes
<1>2. CASE ReceiveTimeout
  BY <1>a, <1>2, ReceiverMutexed, LocalStepForm DEF ReceiveTimeout
<1>3. CASE FilterRepeated
  BY <1>3, FilterRepeatedDoes
<1>4. CASE RecordShort
  BY <1>a, <1>4, ReceiverMutexed, LockStepForm DEF RecordShort
<1>5. CASE handleConfirmUDP
  BY <1>5, handleConfirmUDPDoes
<1>6. CASE ReplyRepeated
  <2>1. /\ pc["receiver"] = "r_repeated" /\ Others("receiver")
        /\ pc'["receiver"] = "r_while"
        /\ lock = "none" /\ queue' = <<Confirmation("CONFIRM")>> \o queue
        /\ UNCHANGED <<fsm, lock, msgCounter, mainVars, sendVars, recvVars>>
    BY <1>a, <1>6, LockedQueueStepForm
       DEF ReplyRepeated, sendConfirm, queueAddMessagePriority
  <2> QED
    BY <1>a, <2>1, ReceiverMutexed
<1>7. CASE handleReplyUDP
  BY <1>7, handleReplyUDPDoes
<1>8. CASE handleMsg
  BY <1>8, handleMsgDoes
<1>9. CASE handleEnd
  BY <1>9, handleEndDoes
<1> QED
  BY <1>1, <1>2, <1>3, <1>4, <1>5, <1>6, <1>7, <1>8, <1>9
     DEF ReceiverStep

LEMMA receiverErrDoes ==
  ASSUME StepInv, errHandling("receiver")
  PROVE  ReceiverDoes
<1>a. /\ "receiver" \in Threads /\ TypeOK
      /\ lock = "receiver" => pc["receiver"] \in Mutexed("receiver")
      /\ pc["receiver"] \in ReceiverHolding => lock = "receiver"
  BY ReceiverLock
<1>1. CASE ErrSet("receiver")
  BY <1>a, <1>1, ReceiverMutexed, SetStepForm DEF ErrSet
<1>2. CASE ErrSignal("receiver")
  BY <1>a, <1>2, ReceiverMutexed, SignalStepForm DEF ErrSignal, Conditions, Waits
<1>3. CASE ErrPop("receiver")
  BY <1>a, <1>3, ReceiverMutexed, LockedQueueStepForm DEF ErrPop
<1>4. CASE ErrBye("receiver")
  BY <1>a, <1>4, ReceiverMutexed, sendByeForm DEF ErrBye
<1>5. CASE ErrWait("receiver")
  BY <1>a, <1>5, ReceiverMutexed, LocalStepForm DEF ErrWait
<1>6. CASE ErrExit("receiver")
  BY <1>a, <1>6, ReceiverMutexed, ExitStepForm DEF ErrExit
<1> QED
  BY <1>1, <1>2, <1>3, <1>4, <1>5, <1>6
     DEF errHandling

HIDE DEF ReceiverHolding, ReceiverDoes, Mutex, ReceiverQueue, ReceiverFsm,
         ReceiverEnters, ReceiverRecords, NewReply, NewMsg, Unknown,
         Ending, LastMessages, Confirmations, recvVars, fsm_START,
         fsm_AUTH_SENDED, fsm_W84_REPLY, fsm_W84_REPLY_CONF,
         fsm_OPEN, fsm_JOIN_ATEMPT, fsm_EMPTY_Q_BYE, fsm_ERR,
         fsm_END_W84_CONF, fsm_END

-----------------------------------------------------------------------------
(* A condition wait returns unsignalled, or nothing happens.                *)
Wakes == /\ \A u \in Threads : pc'[u] = pc[u] \/ Woken(u)
         /\ UNCHANGED <<fsm, queue, lock, mainVars, sendVars, recvVars>>

LEMMA WakesDoes ==
  ASSUME TypeOK, SpuriousWakeup \/ UNCHANGED vars
  PROVE  Wakes
<1>1. CASE SpuriousWakeup
  BY <1>1 DEF SpuriousWakeup, Wakes, Woken, TypeOK, PcOK, interface
<1>2. CASE UNCHANGED vars
  BY <1>2 DEF vars, Wakes, interface
<1> QED
  BY <1>1, <1>2

(* Every step is one of the four.                                           *)
LEMMA NextDoes ==
  ASSUME StepInv, [Next]_vars
  PROVE  MainDoes \/ SenderDoes \/ ReceiverDoes \/ Wakes
<1>1. CASE MainStep
  BY <1>1, MainStepDoes
<1>2. CASE UserInput
  BY <1>2, UserTypesDoes
<1>3. CASE Sigint \/ sigintHandler
  BY <1>3, sigintHandlerDoes
<1>4. CASE SenderStep \/ SocketError
  BY <1>4, SenderStepDoes
<1>5. CASE errHandling("sender")
  BY <1>5, senderErrDoes
<1>6. CASE ReceiverStep
  BY <1>6, ReceiverStepDoes
<1>7. CASE Delivery
  BY <1>7, DeliveryDoes
<1>8. CASE errHandling("receiver")
  BY <1>8, receiverErrDoes
<1>9. CASE SpuriousWakeup \/ UNCHANGED vars
  BY <1>9, WakesDoes DEF StepInv, IndInv
<1> QED
  BY <1>1, <1>2, <1>3, <1>4, <1>5, <1>6, <1>7, <1>8, <1>9 DEF Next

(* Whoever is woken was waiting, and nobody waits while holding the mutex.  *)
LEMMA MutexKeepsReleased ==
  ASSUME MutexReleased, NEW t \in Threads, Others(t), Mutex(t)
  PROVE  MutexReleased'
<1> SUFFICES ASSUME NEW u \in Threads, lock' = u
             PROVE  pc'[u] \in Mutexed(u)
  BY DEF MutexReleased, Mutexed
<1>1. CASE u = t
  BY <1>1 DEF Mutex
<1>2. CASE u # t
  <2>1. lock = u /\ pc[u] \in Mutexed(u)
    BY <1>2 DEF Mutex, Threads, MutexReleased, Mutexed
  <2>2. ~Woken(u)
    BY <2>1, WokenCases, MainMutexed, SenderMutexed, ReceiverMutexed
       DEF Threads, MainHolding, SenderHolding, ReceiverHolding
  <2> QED
    BY <1>2, <2>1, <2>2 DEF Others
<1> QED
  BY <1>1, <1>2

LEMMA NextStepInv == StepInv /\ [Next]_vars => StepInv'
<1> SUFFICES ASSUME StepInv, [Next]_vars PROVE StepInv'
  OBVIOUS
<1>1. IndInv'
  BY NextIndInv DEF StepInv
<1>2. "main" \in Threads /\ "sender" \in Threads /\ "receiver" \in Threads
  BY DEF Threads
<1>3. MutexReleased
  BY DEF StepInv
<1>4. CASE MainDoes
  BY <1>1, <1>2, <1>3, <1>4, MutexKeepsReleased DEF MainDoes, StepInv
<1>5. CASE SenderDoes
  BY <1>1, <1>2, <1>3, <1>5, MutexKeepsReleased DEF SenderDoes, StepInv
<1>6. CASE ReceiverDoes
  BY <1>1, <1>2, <1>3, <1>6, MutexKeepsReleased DEF ReceiverDoes, StepInv
<1>7. CASE Wakes
  <2> SUFFICES ASSUME NEW u \in Threads, lock' = u
               PROVE  pc'[u] \in Mutexed(u)
    BY <1>1 DEF MutexReleased, Mutexed, StepInv
  <2>2. lock = u /\ pc[u] \in Mutexed(u)
    BY <1>3, <1>7 DEF Wakes, MutexReleased, Mutexed
  <2>3. ~Woken(u)
    BY <2>2, WokenCases, MainMutexed, SenderMutexed, ReceiverMutexed
       DEF Threads, MainHolding, SenderHolding, ReceiverHolding
  <2> QED
    BY <1>7, <2>2, <2>3 DEF Wakes
<1> QED
  BY <1>4, <1>5, <1>6, <1>7, NextDoes

LEMMA InitStepInv == Init \/ InitOpen => StepInv
<1> SUFFICES ASSUME Init \/ InitOpen PROVE StepInv
  OBVIOUS
<1>1. lock = "none"
  BY DEF Init, InitOpen
<1> QED
  BY <1>1, InitIndInv, InitOpenIndInv DEF StepInv, MutexReleased, Threads

(* On every way out of a critical section the sender, the receiver and main *)
(* release the queue's mutex, except on the three the code forgets; nobody  *)
(* else ends, waits for a condition or asks for the mutex while holding it. *)
THEOREM MutexReleasedHolds ==
  (Spec => []MutexReleased) /\ (OpenSpec => []MutexReleased)
<1>1. StepInv => MutexReleased
  BY DEF StepInv
<1> QED
  BY <1>1, InitStepInv, NextStepInv, PTL DEF Spec, OpenSpec
==============================================================================
