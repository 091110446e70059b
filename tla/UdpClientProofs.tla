--------------------------- MODULE UdpClientProofs ---------------------------
(***************************************************************************)
(* Proofs about the UDP client for every number of retries, every width of *)
(* bytes and counters, every set of commands and server messages.          *)
(*                                                                         *)
(* The invariant is IndInv == TypeOK /\ LockDiscipline /\ CmdKnown.  TypeOK *)
(* needs CmdKnown, because main builds the message it queues from a        *)
(* command it read several steps earlier.  LockDiscipline is proved action *)
(* by action: a step that moves only thread t, and a waiter it wakes,      *)
(* leaves the other threads in the sections they were in, and no waiter    *)
(* goes on inside a section.                                               *)
(***************************************************************************)
EXTENDS UdpClient, TLAPS

LEMMA IdSizeNat == IdSize \in Nat \ {0}
BY ByteSizeAssumption DEF IdSize

LEMMA ModIds == \A x \in Int : x % IdSize \in MsgIds
BY IdSizeNat, SMT DEF MsgIds

LEMMA ReadMsgIdType == \A n \in MsgIds : ReadMsgId(n) \in MsgIds
<1> SUFFICES ASSUME NEW n \in MsgIds PROVE ReadMsgId(n) \in MsgIds
  OBVIOUS
<1>1. n \in Int
  BY IdSizeNat DEF MsgIds
<1>2. LowByte(n) \in Int /\ HighByte(n) \in Int
  BY <1>1, ByteSizeAssumption DEF LowByte, HighByte
<1>3. \A b \in Int : SignedChar(b) \in Int
  BY ByteSizeAssumption DEF SignedChar
<1>4. SignedChar(LowByte(n)) + SignedChar(HighByte(n)) * ByteSize \in Int
  BY <1>2, <1>3, ByteSizeAssumption
<1> QED
  BY <1>4, ModIds DEF ReadMsgId, convert2BytesToU16Int

LEMMA NextCounterType == \A n \in MsgIds : NextCounter(n) \in MsgIds
BY ReadMsgIdType, ModIds, IdSizeNat DEF NextCounter, MsgIds

LEMMA UpdateFirst ==
  ASSUME NEW q \in Seq(Message), q # <<>>, NEW m \in Message
  PROVE  /\ [q EXCEPT ![1] = m] \in Seq(Message)
         /\ Len([q EXCEPT ![1] = m]) = Len(q)
         /\ DOMAIN [q EXCEPT ![1] = m] = DOMAIN q
  OBVIOUS

LEMMA QueueOpsType ==
  ASSUME NEW q \in Seq(Message), NEW m \in Message
  PROVE  /\ queueAddMessage(q, m) \in Seq(Message)
         /\ queueAddMessagePriority(q, m) \in Seq(Message)
         /\ queuePopMessage(q) \in Seq(Message)
  BY DEF queueAddMessage, queueAddMessagePriority, queuePopMessage

LEMMA createMessageType ==
  ASSUME NEW type \in MsgTypes, NEW flags \in MsgFlags,
         NEW id \in MsgIds \cup {NoId}
  PROVE  createMessage(type, flags, id) \in Message
  BY ConstantsAssumption DEF createMessage, Message

LEMMA ConstantMessagesType ==
  NoMessage \in Message /\ ByeMessage \in Message /\ ErrMessage \in Message
<1>1. NoId \in MsgIds \cup {NoId}
  OBVIOUS
<1>2. {"CONF", "BYE", "ERR"} \subseteq MsgTypes
  BY DEF MsgTypes
<1>3. {"NONE", "BYE", "ERR"} \subseteq MsgFlags
  BY DEF MsgFlags
<1> QED
  BY <1>1, <1>2, <1>3, createMessageType DEF NoMessage, ByeMessage, ErrMessage

-----------------------------------------------------------------------------
(* What each form of step keeps of TypeOK.                                  *)
Conditions == {"mainCond", "senderEmptyQueueCond", "rec2SenderCond"}

LEMMA LabelsAll == \A t : Labels(t) \subseteq AllLabels
BY DEF Labels, AllLabels

LEMMA GotoType ==
  ASSUME PcOK, NEW t \in Threads, NEW from, NEW to \in Labels(t), Goto(t, from, to)
  PROVE  PcOK' /\ exited' = exited
BY LabelsAll DEF PcOK, Goto

LEMMA ResumeType ==
  ASSUME NEW w \in Threads, NEW l \in Labels(w), l \in DOMAIN Resume
  PROVE  Resume[l] \in Labels(w)
<1>1. DOMAIN Resume = {"m_waiting", "h_waiting", "e_waiting", "s_ewaiting",
                       "s_rwaiting", "s_lwaiting", "s_twaiting"}
  BY DEF Resume
<1>a. /\ Resume["m_waiting"] = "m_while" /\ Resume["h_waiting"] = "h_exit"
      /\ Resume["e_waiting"] = "e_exit" /\ Resume["s_ewaiting"] = "s_while"
      /\ Resume["s_rwaiting"] = "s_relock" /\ Resume["s_lwaiting"] = "s_relogic"
      /\ Resume["s_twaiting"] = "s_while"
  BY DEF Resume
<1>2. CASE w = "main"
  <2>1. l \in {"m_waiting", "h_waiting"}
    BY <1>1, <1>2 DEF Labels, MainLabels, HandlerLabels
  <2> QED
    BY <1>a, <1>2, <2>1 DEF Labels, MainLabels, HandlerLabels
<1>3. CASE w = "sender"
  <2>1. l \in {"e_waiting", "s_ewaiting", "s_rwaiting", "s_lwaiting",
               "s_twaiting"}
    BY <1>1, <1>3 DEF Labels, SenderLabels, ErrLabels
  <2> QED
    BY <1>a, <1>3, <2>1 DEF Labels, SenderLabels, ErrLabels
<1>4. CASE w = "receiver"
  <2>1. l = "e_waiting"
    BY <1>1, <1>4 DEF Labels, ReceiverLabels, ErrLabels
  <2> QED
    BY <1>a, <1>4, <2>1 DEF Labels, ReceiverLabels, ErrLabels
<1> QED
  BY <1>2, <1>3, <1>4 DEF Threads

LEMMA ParkedInResume ==
  ASSUME NEW c \in Conditions PROVE Parked[c] \subseteq DOMAIN Resume
BY DEF Conditions, Parked, Resume

LEMMA SignalledType ==
  ASSUME PcOK, NEW t \in Threads, NEW c \in Conditions, NEW to \in Labels(t), Signalled(t, c, to)
  PROVE  PcOK'
<1>1. CASE Waiters(c) = {}
  BY <1>1, LabelsAll DEF PcOK, Signalled
<1>2. CASE Waiters(c) # {}
  <2>1. PICK w \in Waiters(c) : pc' = [pc EXCEPT ![t] = to, ![w] = Resume[pc[w]]]
    BY <1>2 DEF Signalled
  <2>2. w \in Threads /\ pc[w] \in Labels(w) /\ pc[w] \in DOMAIN Resume
    BY <2>1, ParkedInResume DEF Waiters, PcOK
  <2>3. Resume[pc[w]] \in Labels(w)
    BY <2>2, ResumeType
  <2> QED
    BY <2>1, <2>2, <2>3, LabelsAll DEF PcOK
<1> QED
  BY <1>1, <1>2

LEMMA LocalStepType ==
  ASSUME TypeOK, NEW t \in Threads, NEW from, NEW to \in Labels(t), LocalStep(t, from, to)
  PROVE  TypeOK'
<1>1. PcOK' /\ exited' = exited
  BY GotoType DEF TypeOK, LocalStep
<1> QED
  BY <1>1 DEF TypeOK, LocalStep, InterfaceOK, MainOK, SendOK, RecvOK,
              interface, mainVars, sendVars, recvVars

LEMMA SetStepType ==
  ASSUME TypeOK, NEW t \in Threads, NEW from, NEW s \in FsmStates,
         NEW to \in Labels(t), SetStep(t, from, s, to)
  PROVE  TypeOK'
<1>1. PcOK' /\ exited' = exited
  BY GotoType DEF TypeOK, SetStep
<1> QED
  BY <1>1 DEF TypeOK, SetStep, InterfaceOK, MainOK, SendOK, RecvOK,
              mainVars, sendVars, recvVars

LEMMA SignalStepType ==
  ASSUME TypeOK, NEW t \in Threads, NEW from, NEW c \in Conditions,
         NEW to \in Labels(t), SignalStep(t, from, c, to)
  PROVE  TypeOK'
<1>1. PcOK'
  BY SignalledType DEF TypeOK, SignalStep
<1> QED
  BY <1>1 DEF TypeOK, SignalStep, InterfaceOK, MainOK, SendOK, RecvOK,
              interface, mainVars, sendVars, recvVars

LEMMA LockStepType ==
  ASSUME TypeOK, NEW t \in Threads, NEW from, NEW to \in Labels(t), LockStep(t, from, to)
  PROVE  TypeOK'
<1>1. PcOK' /\ exited' = exited
  BY GotoType DEF TypeOK, LockStep
<1> QED
  BY <1>1 DEF TypeOK, LockStep, InterfaceOK, MainOK, SendOK, RecvOK,
              mainVars, sendVars, recvVars

LEMMA LockedQueueStepType ==
  ASSUME TypeOK, NEW t \in Threads, NEW from, NEW q \in Seq(Message),
         NEW to \in Labels(t), LockedQueueStep(t, from, q, to)
  PROVE  TypeOK'
<1>1. PcOK' /\ exited' = exited
  BY GotoType DEF TypeOK, LockedQueueStep
<1> QED
  BY <1>1 DEF TypeOK, LockedQueueStep, InterfaceOK, MainOK, SendOK, RecvOK,
              mainVars, sendVars, recvVars

LEMMA HolderStepType ==
  ASSUME TypeOK, NEW t \in Threads, NEW from, NEW q \in Seq(Message),
         NEW l \in Threads \cup {"none"},
         NEW to \in Labels(t), HolderStep(t, from, q, l, to)
  PROVE  TypeOK'
<1>1. PcOK' /\ exited' = exited
  BY GotoType DEF TypeOK, HolderStep
<1> QED
  BY <1>1 DEF TypeOK, HolderStep, InterfaceOK, MainOK, SendOK, RecvOK,
              mainVars, sendVars, recvVars

LEMMA ExitStepType ==
  ASSUME TypeOK, NEW t, NEW from, NEW how \in Exits, ExitStep(t, from, how)
  PROVE  TypeOK'
BY DEF TypeOK, ExitStep, InterfaceOK, PcOK, MainOK, SendOK, RecvOK,
       interface, mainVars, sendVars, recvVars

LEMMA sendByeType ==
  ASSUME TypeOK, NEW t \in Threads, NEW from, NEW to \in Labels(t), sendBye(t, from, to)
  PROVE  TypeOK'
<1>1. queueAddMessage(queue, ByeMessage) \in Seq(Message)
  BY QueueOpsType, ConstantMessagesType DEF TypeOK, InterfaceOK
<1> QED
  BY <1>1, LockedQueueStepType DEF sendBye

LEMMA sendErrorType ==
  ASSUME TypeOK, NEW t \in {"sender", "receiver"}, NEW from, NEW to \in Labels(t), sendError(t, from, to)
  PROVE  TypeOK'
<1>1. queueAddMessage(queue, ErrMessage) \in Seq(Message)
  BY QueueOpsType, ConstantMessagesType DEF TypeOK, InterfaceOK
<1>2. "e_set" \in Labels(t)
  BY DEF Labels, SenderLabels, ReceiverLabels, ErrLabels
<1>3. t \in Threads
  BY DEF Threads
<1>4. CASE LockedQueueStep(t, from, queueAddMessage(queue, ErrMessage), to)
  BY <1>1, <1>3, <1>4, LockedQueueStepType
<1>5. CASE LockStep(t, from, "e_set")
  BY <1>2, <1>3, <1>5, LockStepType
<1> QED
  BY <1>4, <1>5 DEF sendError

-----------------------------------------------------------------------------
(* Every action keeps TypeOK.                                               *)
LEMMA LabelsOfThreads ==
  /\ Threads = {"main", "sender", "receiver"}
  /\ Labels("main") = MainLabels
  /\ Labels("sender") = SenderLabels
  /\ Labels("receiver") = ReceiverLabels
BY DEF Threads, Labels

LEMMA FsmType ==
  {fsm_START, fsm_AUTH_W82, fsm_AUTH_SENDED, fsm_W84_REPLY, fsm_W84_REPLY_CONF,
   fsm_OPEN, fsm_JOIN_ATEMPT, fsm_EMPTY_Q_BYE, fsm_ERR, fsm_ERR_W84_CONF,
   fsm_SIGINT_BYE, fsm_END_W84_CONF, fsm_END} \subseteq FsmStates
BY DEF fsm_START, fsm_AUTH_W82, fsm_AUTH_SENDED, fsm_W84_REPLY,
   fsm_W84_REPLY_CONF, fsm_OPEN, fsm_JOIN_ATEMPT, fsm_EMPTY_Q_BYE, fsm_ERR,
   fsm_ERR_W84_CONF, fsm_SIGINT_BYE, fsm_END_W84_CONF, fsm_END, FsmStates

LEMMA TypeOf_FlagsOf ==
  ASSUME NEW c \in UserCommandSet, c # "OTHER"
  PROVE  createMessage(TypeOf(c), FlagsOf(c), NoId) \in Message
<1>1. TypeOf(c) \in MsgTypes /\ FlagsOf(c) \in MsgFlags
  BY DEF UserCommandSet, TypeOf, FlagsOf, MsgTypes, MsgFlags
<1> QED
  BY <1>1, createMessageType

(* A command main is about to queue is one that sends something.            *)
CmdKnown == pc["main"] \in {"m_authSet", "m_lock", "m_add"} => cmd # "OTHER"

LEMMA MainAddType ==
  ASSUME TypeOK, CmdKnown, MainAdd
  PROVE  TypeOK'
<1> DEFINE next == IF cmd = "EXIT" THEN "m_exitSet" ELSE "m_wait"
<1>1. pc["main"] = "m_add" /\ cmd \in UserCommandSet /\ cmd # "OTHER"
  BY DEF MainAdd, CmdKnown, TypeOK, MainOK
<1>2. queue' \in Seq(Message)
  BY <1>1, TypeOf_FlagsOf, QueueOpsType DEF MainAdd, TypeOK, InterfaceOK
<1>3. next \in Labels("main")
  BY LabelsOfThreads DEF MainLabels
<1>4. PcOK'
  <2>1. CASE queue = <<>> \/ cmd = "AUTH"
    <3>1. Signalled("main", "senderEmptyQueueCond", next)
      BY <2>1 DEF MainAdd
    <3> QED
      BY <1>3, <3>1, LabelsOfThreads, SignalledType DEF TypeOK, Conditions
  <2>2. CASE ~(queue = <<>> \/ cmd = "AUTH")
    <3>1. pc' = [pc EXCEPT !["main"] = next]
      BY <2>2 DEF MainAdd
    <3> QED
      BY <1>3, <3>1, LabelsOfThreads, LabelsAll DEF TypeOK, PcOK
  <2> QED
    BY <2>1, <2>2
<1> QED
  BY <1>2, <1>4 DEF MainAdd, TypeOK, InterfaceOK, MainOK, SendOK, RecvOK,
     mainVars, sendVars, recvVars

LEMMA MainStepType ==
  ASSUME TypeOK, CmdKnown, MainStep
  PROVE  TypeOK'
<1>a. "main" \in Threads /\ Labels("main") = MainLabels
  BY LabelsOfThreads
<1>b. /\ queueAddMessage(queue, ByeMessage) \in Seq(Message)
      /\ "none" \in Threads \cup {"none"}
  BY QueueOpsType, ConstantMessagesType DEF TypeOK, InterfaceOK
<1>1. CASE MainLoop
  BY <1>a, <1>1, LocalStepType DEF MainLoop, MainLabels
<1>2. CASE MainEofSet
  BY <1>a, <1>2, SetStepType, FsmType DEF MainEofSet, MainLabels
<1>3. CASE MainEofLock
  BY <1>a, <1>3, LockStepType DEF MainEofLock, MainLabels
<1>4. CASE MainEofBye
  BY <1>a, <1>b, <1>4, HolderStepType DEF MainEofBye, MainLabels
<1>5. CASE MainEofSignal
  BY <1>a, <1>5, SignalStepType DEF MainEofSignal, MainLabels, Conditions
<1>6. CASE MainAuthSet
  BY <1>a, <1>6, SetStepType, FsmType DEF MainAuthSet, MainLabels
<1>7. CASE MainLock
  BY <1>a, <1>7, LockStepType DEF MainLock, MainLabels
<1>8. CASE MainAdd
  BY <1>8, MainAddType
<1>9. CASE MainExitSet
  BY <1>a, <1>9, SetStepType, FsmType DEF MainExitSet, MainLabels
<1>10. CASE MainExitSignal
  BY <1>a, <1>10, SignalStepType DEF MainExitSignal, MainLabels, Conditions
<1>11. CASE MainWait
  BY <1>a, <1>11, LocalStepType DEF MainWait, MainLabels
<1>12. CASE MainJoin
  BY <1>12, ExitStepType DEF MainJoin, Exits
<1> QED
  BY <1>1, <1>2, <1>3, <1>4, <1>5, <1>6, <1>7, <1>8, <1>9, <1>10, <1>11, <1>12 DEF MainStep

LEMMA UserInputType ==
  ASSUME TypeOK, UserInput
  PROVE  TypeOK'
<1>1. PICK c \in Commands, e \in EofMarks : UserTypes(c, e)
  BY DEF UserInput
<1>2. c \in UserCommandSet /\ e \in BOOLEAN
  BY CommandsAssumption, ConstantsAssumption
<1>3. PcOK' /\ exited' = exited
  BY <1>1, GotoType, LabelsOfThreads DEF TypeOK, UserTypes, MainLabels
<1>4. MainOK'
  BY <1>1, <1>2, ConstantsAssumption
     DEF TypeOK, MainOK, UserTypes, UserCommandSet
<1>5. InterfaceOK'
  BY <1>1 DEF TypeOK, InterfaceOK, UserTypes
<1> QED
  BY <1>1, <1>3, <1>4, <1>5
     DEF TypeOK, UserTypes, SendOK, RecvOK, sendVars, recvVars

LEMMA sigintHandlerType ==
  ASSUME TypeOK, sigintHandler
  PROVE  TypeOK'
<1>a. "main" \in Threads /\ Labels("main") = MainLabels
  BY LabelsOfThreads
<1>b. <<>> \in Seq(Message)
  OBVIOUS
<1>1. CASE SigintSet
  BY <1>a, <1>1, SetStepType, FsmType DEF SigintSet, MainLabels, HandlerLabels
<1>2. CASE SigintSigMain
  BY <1>a, <1>2, SignalStepType DEF SigintSigMain, MainLabels, HandlerLabels, Conditions
<1>3. CASE SigintPop
  BY <1>a, <1>b, <1>3, LockedQueueStepType DEF SigintPop, MainLabels, HandlerLabels
<1>4. CASE SigintBye
  BY <1>a, <1>4, sendByeType DEF SigintBye, MainLabels, HandlerLabels
<1>5. CASE SigintSigEmpty
  BY <1>a, <1>5, SignalStepType DEF SigintSigEmpty, MainLabels, HandlerLabels, Conditions
<1>6. CASE SigintSigRec
  BY <1>a, <1>6, SignalStepType DEF SigintSigRec, MainLabels, HandlerLabels, Conditions
<1>7. CASE SigintWait
  BY <1>a, <1>7, LocalStepType DEF SigintWait, MainLabels, HandlerLabels
<1>8. CASE SigintExit
  BY <1>8, ExitStepType DEF SigintExit, Exits
<1> QED
  BY <1>1, <1>2, <1>3, <1>4, <1>5, <1>6, <1>7, <1>8 DEF sigintHandler

LEMMA errHandlingType ==
  ASSUME TypeOK, NEW t \in {"sender", "receiver"}, errHandling(t)
  PROVE  TypeOK'
<1>a. /\ t \in Threads
      /\ {"e_sig", "e_pop", "e_bye", "e_wait", "e_waiting"} \subseteq Labels(t)
  BY LabelsOfThreads DEF SenderLabels, ReceiverLabels, ErrLabels
<1>b. <<>> \in Seq(Message)
  OBVIOUS
<1>1. CASE ErrSet(t)
  BY <1>a, <1>1, SetStepType, FsmType DEF ErrSet
<1>2. CASE ErrSignal(t)
  BY <1>a, <1>2, SignalStepType DEF ErrSignal, Conditions
<1>3. CASE ErrPop(t)
  BY <1>a, <1>b, <1>3, LockedQueueStepType DEF ErrPop
<1>4. CASE ErrBye(t)
  BY <1>a, <1>4, sendByeType DEF ErrBye
<1>5. CASE ErrWait(t)
  BY <1>a, <1>5, LocalStepType DEF ErrWait
<1>6. CASE ErrExit(t)
  BY <1>6, ExitStepType DEF ErrExit, Exits
<1> QED
  BY <1>1, <1>2, <1>3, <1>4, <1>5, <1>6 DEF errHandling

LEMMA LeaveFilterType ==
  ASSUME TypeOK, NEW from, LeaveFilter(from)
  PROVE  TypeOK'
<1>1. FilterEnd \in Labels("sender")
  BY LabelsOfThreads DEF FilterEnd, SenderLabels
<1>2. PcOK' /\ exited' = exited
  BY <1>1, GotoType, LabelsOfThreads DEF TypeOK, LeaveFilter
<1> QED
  BY <1>2, LabelsOfThreads DEF LeaveFilter, TypeOK, InterfaceOK, MainOK, SendOK,
     RecvOK, mainVars, recvVars

LEMMA FilterTopType ==
  ASSUME TypeOK, NEW from, FilterTop(from)
  PROVE  TypeOK'
<1>a. "sender" \in Threads /\ Labels("sender") = SenderLabels
  BY LabelsOfThreads
<1>b. queue \in Seq(Message) /\ queuePopMessage(queue) \in Seq(Message)
  BY ConstantMessagesType, QueueOpsType DEF TypeOK, InterfaceOK
<1>1. CASE LeaveFilter(from)
  BY <1>1, LeaveFilterType
<1>2. CASE HolderStep("sender", from, queue, "sender", "s_timeout1")
  BY <1>a, <1>b, <1>2, HolderStepType DEF SenderLabels
<1>3. CASE HolderStep("sender", from, queuePopMessage(queue), "sender", "s_filter")
  BY <1>a, <1>b, <1>3, HolderStepType DEF SenderLabels
<1> QED
  BY <1>1, <1>2, <1>3 DEF FilterTop

LEMMA TimeoutEndSignalType ==
  ASSUME TypeOK, TimeoutEndSignal
  PROVE  TypeOK'
<1>1. "s_filter" \in Labels("sender")
  BY LabelsOfThreads DEF SenderLabels
<1>2. PcOK'
  BY <1>1, SignalledType, LabelsOfThreads DEF TypeOK, TimeoutEndSignal, Conditions
<1>3. queue' \in Seq(Message)
  BY ConstantMessagesType, QueueOpsType
     DEF TypeOK, InterfaceOK, TimeoutEndSignal
<1> QED
  BY <1>2, <1>3 DEF TimeoutEndSignal, TypeOK, InterfaceOK, MainOK, SendOK,
     RecvOK, mainVars, recvVars

LEMMA TimeoutSetErrType ==
  ASSUME TypeOK, TimeoutSetErr
  PROVE  TypeOK'
<1>1. PcOK' /\ exited' = exited
  BY GotoType, LabelsOfThreads DEF TypeOK, TimeoutSetErr, SenderLabels
<1> QED
  BY <1>1, FsmType DEF TimeoutSetErr, TypeOK, InterfaceOK, MainOK, SendOK,
     RecvOK, mainVars, sendVars, recvVars

LEMMA filterResentMessagesType ==
  ASSUME TypeOK, filterResentMessages
  PROVE  TypeOK'
<1>a. "sender" \in Threads /\ Labels("sender") = SenderLabels
  BY LabelsOfThreads
<1>b. queue \in Seq(Message) /\ queuePopMessage(queue) \in Seq(Message)
  BY ConstantMessagesType, QueueOpsType DEF TypeOK, InterfaceOK
<1>1. CASE \E from \in {"s_lock1", "s_filter"} : FilterTop(from)
  BY <1>1, FilterTopType
<1>2. CASE TimeoutOfErr
  BY <1>a, <1>b, <1>2, HolderStepType, LocalStepType
     DEF TimeoutOfErr, SenderLabels
<1>3. CASE TimeoutOfBye
  BY <1>a, <1>3, LocalStepType DEF TimeoutOfBye, SenderLabels
<1>4. CASE TimeoutEnd
  BY <1>a, <1>4, SetStepType, FsmType DEF TimeoutEnd, SenderLabels
<1>5. CASE TimeoutEndSignal
  BY <1>5, TimeoutEndSignalType
<1>6. CASE TimeoutSetErr
  BY <1>6, TimeoutSetErrType
<1>7. CASE TimeoutSendError
  BY <1>a, <1>7, sendErrorType DEF TimeoutSendError, SenderLabels
<1>8. CASE TimeoutSendBye
  BY <1>a, <1>8, sendByeType DEF TimeoutSendBye, SenderLabels
<1>9. CASE TimeoutSignal
  BY <1>a, <1>9, SignalStepType DEF TimeoutSignal, SenderLabels, Conditions
<1>10. CASE LeaveFilter("s_toLock")
  BY <1>10, LeaveFilterType
<1> QED
  BY <1>1, <1>2, <1>3, <1>4, <1>5, <1>6, <1>7, <1>8, <1>9, <1>10 DEF filterResentMessages

LEMMA EmptyEndType ==
  ASSUME TypeOK, EmptyEnd
  PROVE  TypeOK'
<1>1. PcOK' /\ exited' = exited
  BY GotoType, LabelsOfThreads DEF TypeOK, EmptyEnd, SenderLabels
<1> QED
  BY <1>1, FsmType DEF EmptyEnd, TypeOK, InterfaceOK, MainOK, SendOK,
     RecvOK, mainVars, sendVars, recvVars

LEMMA emptyQueueType ==
  ASSUME TypeOK, emptyQueue
  PROVE  TypeOK'
<1>a. "sender" \in Threads /\ Labels("sender") = SenderLabels
  BY LabelsOfThreads
<1>b. queue \in Seq(Message) /\ queuePopMessage(queue) \in Seq(Message)
  BY ConstantMessagesType, QueueOpsType DEF TypeOK, InterfaceOK
<1>1. CASE EmptyQBye
  BY <1>a, <1>1, LocalStepType DEF EmptyQBye, SenderLabels
<1>2. CASE EmptySigintBye
  BY <1>a, <1>b, <1>2, HolderStepType, LocalStepType
     DEF EmptySigintBye, SenderLabels
<1>3. CASE EmptyEnd
  BY <1>3, EmptyEndType
<1>4. CASE EmptySignal
  BY <1>a, <1>4, SignalStepType DEF EmptySignal, SenderLabels, Conditions
<1>5. CASE EmptyWait
  BY <1>a, <1>5, LocalStepType DEF EmptyWait, SenderLabels
<1> QED
  BY <1>1, <1>2, <1>3, <1>4, <1>5 DEF emptyQueue

LEMMA LogicTargetType ==
  ASSUME NEW m, NEW s
  PROVE  /\ AfterAuthTest(m) \in {"s_rwait", "s_lwait", "s_send"}
         /\ LogicTarget(m, s) \in {"s_authGet", "s_rwait", "s_lwait", "s_send",
              "s_open", "s_join", "s_byeSet", "s_errSet", "e_set"}
         /\ LogicTarget(m, s) \in Labels("sender")
<1>1. AfterAuthTest(m) \in {"s_rwait", "s_lwait", "s_send"}
  BY DEF AfterAuthTest
<1>2. LogicTarget(m, s) \in {"s_authGet", "s_rwait", "s_lwait", "s_send",
         "s_open", "s_join", "s_byeSet", "s_errSet", "e_set"}
  BY <1>1 DEF LogicTarget
<1> QED
  BY <1>1, <1>2, LabelsOfThreads DEF SenderLabels, ErrLabels

LEMMA LogicSwitchType ==
  ASSUME TypeOK, NEW from, LogicSwitch(from)
  PROVE  TypeOK'
<1>1. LogicTarget(Top, fsm) \in Labels("sender")
  BY LogicTargetType
<1>2. PcOK' /\ exited' = exited
  BY <1>1, GotoType, LabelsOfThreads DEF TypeOK, LogicSwitch
<1>3. Top \in Message
  BY DEF TypeOK, InterfaceOK, LogicSwitch, Top
<1>4. queue' \in Seq(Message)
  BY <1>3, QueueOpsType DEF TypeOK, InterfaceOK, LogicSwitch
<1>5. msgToBeSend' \in Message /\ lock' \in Threads \cup {"none"}
  BY <1>3, ConstantMessagesType, LabelsOfThreads DEF LogicSwitch, LockAt
<1> QED
  BY <1>2, <1>4, <1>5 DEF LogicSwitch, TypeOK, InterfaceOK, MainOK, SendOK,
     RecvOK, mainVars, recvVars

LEMMA LogicAuthTestType ==
  ASSUME TypeOK, NEW from, NEW s \in FsmStates, LogicAuthTest(from, s)
  PROVE  TypeOK'
<1>1. AfterAuthTest(msgToBeSend) \in Labels("sender")
  BY LogicTargetType, LabelsOfThreads DEF SenderLabels
<1>2. PcOK' /\ exited' = exited
  BY <1>1, GotoType, LabelsOfThreads DEF TypeOK, LogicAuthTest
<1>3. msgToBeSend' \in Message /\ lock' \in Threads \cup {"none"}
  BY ConstantMessagesType, LabelsOfThreads DEF LogicAuthTest, LockAt
<1> QED
  BY <1>2, <1>3 DEF LogicAuthTest, TypeOK, InterfaceOK, MainOK, SendOK,
     RecvOK, mainVars, recvVars

LEMMA logicFSMType ==
  ASSUME TypeOK, logicFSM
  PROVE  TypeOK'
<1>a. "sender" \in Threads /\ Labels("sender") = SenderLabels
  BY LabelsOfThreads
<1>b. fsm \in FsmStates
  BY DEF TypeOK, InterfaceOK
<1>1. CASE \E from \in {"s_lock2", "s_relogic"} : LogicSwitch(from)
  BY <1>1, LogicSwitchType
<1>2. CASE \E from \in {"s_lock2", "s_relogic"} : LogicNoMessage(from)
  BY <1>2, ExitStepType DEF LogicNoMessage, Exits
<1>3. CASE LogicAuthGet
  BY <1>a, <1>b, <1>3, LocalStepType, LogicAuthTestType
     DEF LogicAuthGet, SenderLabels
<1>4. CASE LogicAuthSet
  BY <1>4, FsmType, LogicAuthTestType DEF LogicAuthSet
<1>5. CASE LogicBlockedWait
  BY <1>a, <1>5, LocalStepType DEF LogicBlockedWait, SenderLabels
<1>6. CASE LogicReplyWait
  BY <1>a, <1>6, LocalStepType DEF LogicReplyWait, SenderLabels
<1>7. CASE LogicOpen
  BY <1>a, <1>7, SetStepType, FsmType DEF LogicOpen, SenderLabels
<1>8. CASE LogicOpenSignal
  BY <1>a, <1>8, SignalStepType DEF LogicOpenSignal, SenderLabels, Conditions
<1>9. CASE LogicJoin
  BY <1>a, <1>9, SetStepType, FsmType DEF LogicJoin, SenderLabels
<1>10. CASE LogicBye
  BY <1>a, <1>10, SetStepType, FsmType DEF LogicBye, SenderLabels
<1>11. CASE LogicErr
  BY <1>a, <1>11, SetStepType, FsmType DEF LogicErr, SenderLabels
<1> QED
  BY <1>1, <1>2, <1>3, <1>4, <1>5, <1>6, <1>7, <1>8, <1>9, <1>10, <1>11 DEF logicFSM

LEMMA AfterSendType ==
  ASSUME NEW q \in Seq(Message), q # <<>>, msgCounter \in MsgIds
  PROVE  AfterSend(q) \in Seq(Message)
<1> DEFINE m == queueSetMessageID(Head(q))
<1>1. Head(q) \in Message
  OBVIOUS
<1>2. m \in Message
  BY <1>1 DEF queueSetMessageID, Message
<1>3. m.sendCount \in 0 .. CounterSize - 1
  BY <1>2 DEF Message
<1>4. (m.sendCount + 1) % CounterSize \in 0 .. CounterSize - 1
  BY <1>3, ConstantsAssumption
<1>5. queueMessageSended(m) \in Message
  BY <1>2, <1>4 DEF queueMessageSended, Message
<1>6. queuePopMessage(q) \in Seq(Message)
  BY <1>2, QueueOpsType
<1> QED
  BY <1>5, <1>6, UpdateFirst DEF AfterSend

LEMMA SendMessageType ==
  ASSUME TypeOK, NEW from, SendMessage(from)
  PROVE  TypeOK'
<1>1. PcOK' /\ exited' = exited
  BY GotoType, LabelsOfThreads DEF TypeOK, SendMessage, SenderLabels
<1>2. queue' \in Seq(Message)
  BY AfterSendType DEF TypeOK, InterfaceOK, SendMessage
<1>3. wire' \subseteq MsgIds /\ requests' \subseteq MsgIds
  BY DEF TypeOK, InterfaceOK, SendOK, SendMessage
<1> QED
  BY <1>1, <1>2, <1>3 DEF SendMessage, TypeOK, InterfaceOK, MainOK, SendOK,
     RecvOK, mainVars, recvVars

LEMMA transmissionType ==
  ASSUME TypeOK, transmission \/ SocketError
  PROVE  TypeOK'
<1>a. "sender" \in Threads /\ Labels("sender") = SenderLabels
  BY LabelsOfThreads
<1>1. CASE \E from \in SendLabels : SendMessage(from)
  BY <1>1, SendMessageType
<1>2. CASE \E from \in SendLabels : SendNoMessage(from)
  BY <1>2, ExitStepType DEF SendNoMessage, Exits
<1>3. CASE \E from \in SendLabels : SendFails(from)
  BY <1>3, ExitStepType DEF SendFails, Exits
<1>4. CASE SendTimeout
  BY <1>a, <1>4, LocalStepType DEF SendTimeout, SenderLabels
<1> QED
  BY <1>1, <1>2, <1>3, <1>4 DEF transmission, SocketError

LEMMA SenderStepType ==
  ASSUME TypeOK, SenderStep
  PROVE  TypeOK'
<1>a. "sender" \in Threads /\ Labels("sender") = SenderLabels
  BY LabelsOfThreads
<1>1. CASE SenderLoop
  BY <1>a, <1>1, LocalStepType DEF SenderLoop, SenderLabels
<1>2. CASE filterResentMessages
  BY <1>2, filterResentMessagesType
<1>3. CASE emptyQueue
  BY <1>3, emptyQueueType
<1>4. CASE logicFSM
  BY <1>4, logicFSMType
<1>5. CASE transmission
  BY <1>5, transmissionType
<1> QED
  BY <1>1, <1>2, <1>3, <1>4, <1>5 DEF SenderStep

LEMMA sendConfirmType ==
  ASSUME TypeOK, NEW q \in Seq(Message), NEW flags \in MsgFlags
  PROVE  /\ Confirmation(flags) \in Message
         /\ sendConfirm(q, flags) \in Seq(Message)
<1>1. rx.id \in MsgIds
  BY DEF TypeOK, RecvOK, SrvMessage
<1>2. Confirmation(flags) \in Message
  BY <1>1, createMessageType DEF Confirmation, MsgTypes
<1> QED
  BY <1>2, QueueOpsType DEF sendConfirm

LEMMA FlagsType ==
  ASSUME NEW q \in Seq(Message), NEW f \in MsgFlags
  PROVE  queueSetMessageFlags(q, f) \in Seq(Message)
<1>1. CASE q = <<>>
  BY <1>1 DEF queueSetMessageFlags
<1>2. CASE q # <<>>
  <2>1. q[1] \in Message
    BY <1>2
  <2>2. [q[1] EXCEPT !.msgFlags = f] \in Message
    BY <2>1 DEF Message
  <2> QED
    BY <1>2, <2>2, UpdateFirst DEF queueSetMessageFlags
<1> QED
  BY <1>1, <1>2

LEMMA ReceiverLoopType ==
  ASSUME TypeOK, ReceiverLoop
  PROVE  TypeOK'
<1>1. PcOK' /\ exited' = exited
  BY GotoType, LabelsOfThreads DEF TypeOK, ReceiverLoop, ReceiverLabels
<1>2. 0 \in MsgIds
  BY IdSizeNat DEF MsgIds
<1>3. RecvOK'
  BY <1>2 DEF TypeOK, RecvOK, ReceiverLoop, NoSrvMessage, SrvMessage, SrvTypes
<1> QED
  BY <1>1, <1>3 DEF ReceiverLoop, TypeOK, InterfaceOK, MainOK, SendOK,
     interface, mainVars, sendVars

LEMMA DeliveryType ==
  ASSUME TypeOK, Delivery
  PROVE  TypeOK'
<1>1. PICK m \in Deliverable : Receive(m)
  BY DEF Delivery
<1>2. m \in SrvMessage
  BY ServerAssumption DEF Deliverable, SrvMessage
<1>3. PcOK' /\ exited' = exited
  BY <1>1, GotoType, LabelsOfThreads DEF TypeOK, Receive, ReceiverLabels, ErrLabels
<1>4. RecvOK'
  BY <1>1, <1>2 DEF TypeOK, RecvOK, Receive
<1> QED
  BY <1>1, <1>3, <1>4 DEF Receive, TypeOK, InterfaceOK, MainOK, SendOK,
     interface, mainVars, sendVars

LEMMA FilterRepeatedType ==
  ASSUME TypeOK, FilterRepeated
  PROVE  TypeOK'
<1> DEFINE repetitive == queueContainsMessageId(confirmedMsgs, rx)
<1>1. HandlerOf(rx, repetitive) \in Labels("receiver")
  BY LabelsOfThreads DEF HandlerOf, ReceiverLabels
<1>2. PcOK' /\ exited' = exited
  BY <1>1, GotoType, LabelsOfThreads DEF TypeOK, FilterRepeated
<1>3. repetitive \in BOOLEAN
  BY DEF queueContainsMessageId
<1>4. [type |-> rx.type, id |-> rx.id] \in [type : SrvTypes, id : MsgIds]
  BY DEF TypeOK, RecvOK, SrvMessage
<1>5. RecvOK'
  BY <1>3, <1>4 DEF TypeOK, RecvOK, FilterRepeated, queueAddMessageOnlyID
<1> QED
  BY <1>2, <1>5 DEF FilterRepeated, TypeOK, InterfaceOK, MainOK, SendOK,
     interface, mainVars, sendVars

LEMMA ConfirmTopType ==
  ASSUME TypeOK, ConfirmTop
  PROVE  TypeOK'
<1>1. PcOK' /\ exited' = exited
  BY GotoType, LabelsOfThreads DEF TypeOK, ConfirmTop, ReceiverLabels
<1>2. queue[1] \in Message
  BY DEF TypeOK, InterfaceOK, ConfirmTop
<1>3. [queue[1] EXCEPT !.confirmed = TRUE] \in Message
  BY <1>2 DEF Message
<1>4. queue' \in Seq(Message)
  BY <1>3, UpdateFirst DEF TypeOK, InterfaceOK, ConfirmTop
<1>5. msgCounter' \in MsgIds
  BY NextCounterType DEF TypeOK, RecvOK, SrvMessage, ConfirmTop
<1> QED
  BY <1>1, <1>4, <1>5, LabelsOfThreads DEF ConfirmTop, TypeOK, InterfaceOK,
     MainOK, SendOK, RecvOK, mainVars, sendVars, recvVars

LEMMA ConfirmSigSenderType ==
  ASSUME TypeOK, ConfirmSigSender
  PROVE  TypeOK'
<1>1. PcOK'
  BY SignalledType, LabelsOfThreads
     DEF TypeOK, ConfirmSigSender, ReceiverLabels, Conditions
<1> QED
  BY <1>1 DEF ConfirmSigSender, TypeOK, InterfaceOK, MainOK, SendOK, RecvOK,
     mainVars, sendVars, recvVars

LEMMA handleConfirmUDPType ==
  ASSUME TypeOK, handleConfirmUDP
  PROVE  TypeOK'
<1>a. "receiver" \in Threads /\ Labels("receiver") = ReceiverLabels
  BY LabelsOfThreads
<1>1. CASE ConfirmIgnored
  BY <1>a, <1>1, LocalStepType DEF ConfirmIgnored, ReceiverLabels
<1>2. CASE ConfirmTop
  BY <1>2, ConfirmTopType
<1>3. CASE ConfirmSwitch
  BY <1>a, <1>3, LocalStepType DEF ConfirmSwitch, ReceiverLabels
<1>4. CASE ConfirmAuth
  BY <1>a, <1>4, SetStepType, FsmType DEF ConfirmAuth, ReceiverLabels
<1>5. CASE ConfirmBye
  BY <1>a, <1>5, SetStepType, FsmType DEF ConfirmBye, ReceiverLabels
<1>6. CASE ConfirmSigMain
  BY <1>a, <1>6, SignalStepType DEF ConfirmSigMain, ReceiverLabels, Conditions
<1>7. CASE ConfirmSigSender
  BY <1>7, ConfirmSigSenderType
<1> QED
  BY <1>1, <1>2, <1>3, <1>4, <1>5, <1>6, <1>7 DEF handleConfirmUDP

LEMMA ReplyOkSetType ==
  ASSUME TypeOK, ReplyOkSet
  PROVE  TypeOK'
<1>1. PcOK' /\ exited' = exited
  BY GotoType, LabelsOfThreads DEF TypeOK, ReplyOkSet, ReceiverLabels
<1> QED
  BY <1>1, FsmType DEF ReplyOkSet, TypeOK, InterfaceOK, MainOK, SendOK, RecvOK,
     mainVars, sendVars

LEMMA ReplyNokTopType ==
  ASSUME TypeOK, ReplyNokTop
  PROVE  TypeOK'
<1>1. queueSetMessageFlags(queue, "REJECTED") \in Seq(Message)
  BY FlagsType DEF TypeOK, InterfaceOK, MsgFlags
<1> QED
  BY <1>1, HolderStepType, LabelsOfThreads
     DEF ReplyNokTop, TypeOK, InterfaceOK, ReceiverLabels

LEMMA ReplyCounterType ==
  ASSUME TypeOK, ReplyCounter
  PROVE  TypeOK'
<1>1. PcOK' /\ exited' = exited
  BY GotoType, LabelsOfThreads DEF TypeOK, ReplyCounter, ReceiverLabels
<1>2. msgCounter' \in MsgIds
  BY NextCounterType DEF TypeOK, RecvOK, SrvMessage, ReplyCounter
<1> QED
  BY <1>1, <1>2 DEF ReplyCounter, TypeOK, InterfaceOK, MainOK, SendOK, RecvOK,
     mainVars, sendVars, recvVars

LEMMA handleReplyUDPType ==
  ASSUME TypeOK, handleReplyUDP
  PROVE  TypeOK'
<1>a. "receiver" \in Threads /\ Labels("receiver") = ReceiverLabels
  BY LabelsOfThreads
<1>b. queue \in Seq(Message) /\ <<>> \in Seq(Message)
      /\ \A q \in Seq(Message) : /\ sendConfirm(q, "CONFIRM") \in Seq(Message)
                               /\ sendConfirm(q, "NOK_REPLY") \in Seq(Message)
  BY sendConfirmType DEF TypeOK, InterfaceOK, MsgFlags
<1>c. queueSetMessageFlags(queue, "CONFIRMED") \in Seq(Message)
  BY <1>b, FlagsType DEF MsgFlags
<1>1. CASE ReplyForAuth
  BY <1>a, <1>1, LocalStepType DEF ReplyForAuth, ReceiverLabels
<1>2. CASE ReplyForJoin
  BY <1>a, <1>2, LocalStepType DEF ReplyForJoin, ReceiverLabels
<1>3. CASE ReplyResult
  BY <1>a, <1>3, LocalStepType DEF ReplyResult, ReceiverLabels
<1>4. CASE ReplyOkFlag
  BY <1>a, <1>c, <1>4, LockedQueueStepType DEF ReplyOkFlag, ReceiverLabels
<1>5. CASE ReplyOkSet
  BY <1>5, ReplyOkSetType
<1>6. CASE ReplyOkConfirm
  BY <1>a, <1>b, <1>6, LockedQueueStepType DEF ReplyOkConfirm, ReceiverLabels
<1>7. CASE ReplyOkSigEmpty
  BY <1>a, <1>7, SignalStepType DEF ReplyOkSigEmpty, ReceiverLabels, Conditions
<1>8. CASE ReplyOkSigRec
  BY <1>a, <1>8, SignalStepType DEF ReplyOkSigRec, ReceiverLabels, Conditions
<1>9. CASE ReplyNokTop
  BY <1>9, ReplyNokTopType
<1>10. CASE ReplyNokNoTop
  BY <1>10, ExitStepType DEF ReplyNokNoTop, Exits
<1>11. CASE ReplyNokStart
  BY <1>a, <1>11, SetStepType, FsmType DEF ReplyNokStart, ReceiverLabels
<1>12. CASE ReplyNokGet
  BY <1>a, <1>12, LocalStepType DEF ReplyNokGet, ReceiverLabels
<1>13. CASE ReplyNokOpen
  BY <1>a, <1>13, SetStepType, FsmType DEF ReplyNokOpen, ReceiverLabels
<1>14. CASE ReplyNokConfirm
  BY <1>a, <1>b, <1>14, HolderStepType DEF ReplyNokConfirm, ReceiverLabels
<1>15. CASE ReplyNokSignal
  BY <1>a, <1>15, SignalStepType DEF ReplyNokSignal, ReceiverLabels, Conditions
<1>16. CASE ReplyCounter
  BY <1>16, ReplyCounterType
<1> QED
  BY <1>1, <1>2, <1>3, <1>4, <1>5, <1>6, <1>7, <1>8, <1>9, <1>10, <1>11, <1>12, <1>13, <1>14, <1>15, <1>16 DEF handleReplyUDP

LEMMA printIncomingMessageType ==
  ASSUME TypeOK, printIncomingMessage
  PROVE  TypeOK'
<1>1. PcOK' /\ exited' = exited
  BY GotoType, LabelsOfThreads DEF TypeOK, printIncomingMessage, ReceiverLabels
<1> QED
  BY <1>1 DEF printIncomingMessage, TypeOK, InterfaceOK, MainOK, SendOK, RecvOK,
     interface, mainVars, sendVars

LEMMA handleMsgType ==
  ASSUME TypeOK, handleMsg
  PROVE  TypeOK'
<1>a. "receiver" \in Threads /\ Labels("receiver") = ReceiverLabels
  BY LabelsOfThreads
<1>b. queue \in Seq(Message) /\ <<>> \in Seq(Message)
      /\ \A q \in Seq(Message) : /\ sendConfirm(q, "CONFIRM") \in Seq(Message)
                               /\ sendConfirm(q, "NOK_REPLY") \in Seq(Message)
  BY sendConfirmType DEF TypeOK, InterfaceOK, MsgFlags
<1>1. CASE MsgConfirm
  BY <1>a, <1>b, <1>1, LockedQueueStepType DEF MsgConfirm, ReceiverLabels
<1>2. CASE MsgSigEmpty
  BY <1>a, <1>2, SignalStepType DEF MsgSigEmpty, ReceiverLabels, Conditions
<1>3. CASE MsgSigRec
  BY <1>a, <1>3, SignalStepType DEF MsgSigRec, ReceiverLabels, Conditions
<1>4. CASE printIncomingMessage
  BY <1>4, printIncomingMessageType
<1> QED
  BY <1>1, <1>2, <1>3, <1>4 DEF handleMsg

LEMMA UnknownConfirmType ==
  ASSUME TypeOK, UnknownConfirm
  PROVE  TypeOK'
<1>1. PcOK' /\ exited' = exited
  BY GotoType, LabelsOfThreads DEF TypeOK, UnknownConfirm, ReceiverLabels
<1>2. queue' \in Seq(Message)
  BY sendConfirmType DEF TypeOK, InterfaceOK, UnknownConfirm, MsgFlags
<1> QED
  BY <1>1, <1>2 DEF UnknownConfirm, TypeOK, InterfaceOK, MainOK, SendOK, RecvOK,
     mainVars, sendVars, recvVars

LEMMA handleEndType ==
  ASSUME TypeOK, handleEnd
  PROVE  TypeOK'
<1>a. "receiver" \in Threads /\ Labels("receiver") = ReceiverLabels
  BY LabelsOfThreads
<1>b. queue \in Seq(Message) /\ <<>> \in Seq(Message)
      /\ \A q \in Seq(Message) : /\ sendConfirm(q, "CONFIRM") \in Seq(Message)
                               /\ sendConfirm(q, "NOK_REPLY") \in Seq(Message)
  BY sendConfirmType DEF TypeOK, InterfaceOK, MsgFlags
<1>1. CASE ByeConfirm
  BY <1>a, <1>b, <1>1, LockedQueueStepType DEF ByeConfirm, ReceiverLabels
<1>2. CASE ByeSet
  BY <1>a, <1>2, SetStepType, FsmType DEF ByeSet, ReceiverLabels
<1>3. CASE ErrConfirm
  BY <1>a, <1>b, <1>3, LockedQueueStepType DEF ErrConfirm, ReceiverLabels
<1>4. CASE ErrSendBye
  BY <1>a, <1>4, sendByeType DEF ErrSendBye, ReceiverLabels
<1>5. CASE ErrSigEmpty
  BY <1>a, <1>5, SignalStepType DEF ErrSigEmpty, ReceiverLabels, Conditions
<1>6. CASE ErrSigRec
  BY <1>a, <1>6, SignalStepType DEF ErrSigRec, ReceiverLabels, Conditions
<1>7. CASE ErrSetErr
  BY <1>a, <1>7, SetStepType, FsmType DEF ErrSetErr, ReceiverLabels
<1>8. CASE UnknownSet
  BY <1>a, <1>8, SetStepType, FsmType DEF UnknownSet, ReceiverLabels
<1>9. CASE UnknownPop
  BY <1>a, <1>b, <1>9, LockedQueueStepType DEF UnknownPop, ReceiverLabels
<1>10. CASE UnknownConfirm
  BY <1>10, UnknownConfirmType
<1>11. CASE UnknownErr
  BY <1>a, <1>11, sendErrorType DEF UnknownErr, ReceiverLabels
<1>12. CASE UnknownBye
  BY <1>a, <1>12, sendByeType DEF UnknownBye, ReceiverLabels
<1>13. CASE UnknownSigEmpty
  BY <1>a, <1>13, SignalStepType DEF UnknownSigEmpty, ReceiverLabels, Conditions
<1>14. CASE UnknownSigRec
  BY <1>a, <1>14, SignalStepType DEF UnknownSigRec, ReceiverLabels, Conditions
<1>15. CASE SigMain
  BY <1>a, <1>15, SignalStepType DEF SigMain, ReceiverLabels, Conditions
<1> QED
  BY <1>1, <1>2, <1>3, <1>4, <1>5, <1>6, <1>7, <1>8, <1>9, <1>10, <1>11, <1>12, <1>13, <1>14, <1>15 DEF handleEnd

LEMMA ReceiverStepType ==
  ASSUME TypeOK, ReceiverStep
  PROVE  TypeOK'
<1>a. "receiver" \in Threads /\ Labels("receiver") = ReceiverLabels
  BY LabelsOfThreads
<1>b. queue \in Seq(Message) /\ <<>> \in Seq(Message)
      /\ \A q \in Seq(Message) : /\ sendConfirm(q, "CONFIRM") \in Seq(Message)
                               /\ sendConfirm(q, "NOK_REPLY") \in Seq(Message)
  BY sendConfirmType DEF TypeOK, InterfaceOK, MsgFlags
<1>1. CASE ReceiverLoop
  BY <1>1, ReceiverLoopType
<1>2. CASE ReceiveTimeout
  BY <1>a, <1>2, LocalStepType DEF ReceiveTimeout, ReceiverLabels
<1>3. CASE FilterRepeated
  BY <1>3, FilterRepeatedType
<1>4. CASE handleConfirmUDP
  BY <1>4, handleConfirmUDPType
<1>5. CASE ReplyRepeated
  BY <1>a, <1>b, <1>5, LockedQueueStepType DEF ReplyRepeated, ReceiverLabels
<1>6. CASE handleReplyUDP
  BY <1>6, handleReplyUDPType
<1>7. CASE handleMsg
  BY <1>7, handleMsgType
<1>8. CASE handleEnd
  BY <1>8, handleEndType
<1>9. CASE RecordShort
  BY <1>a, <1>9, LockStepType DEF RecordShort, ReceiverLabels, ErrLabels
<1> QED
  BY <1>1, <1>2, <1>3, <1>4, <1>5, <1>6, <1>7, <1>8, <1>9 DEF ReceiverStep

LEMMA SigintType ==
  ASSUME TypeOK, Sigint
  PROVE  TypeOK'
<1>1. "h_set" \in Labels("main") /\ "main" \in Threads
  BY LabelsOfThreads DEF MainLabels, HandlerLabels
<1>2. PcOK'
  BY <1>1, LabelsAll DEF Sigint, TypeOK, PcOK
<1> QED
  BY <1>2 DEF Sigint, TypeOK, InterfaceOK, MainOK, SendOK, RecvOK, interface,
     mainVars, sendVars, recvVars

LEMMA SpuriousWakeupType ==
  ASSUME TypeOK, SpuriousWakeup
  PROVE  TypeOK'
<1>1. PICK t \in Threads : /\ pc[t] \in DOMAIN Resume
                           /\ pc' = [pc EXCEPT ![t] = Resume[pc[t]]]
  BY DEF SpuriousWakeup
<1>2. Resume[pc[t]] \in Labels(t)
  BY <1>1, ResumeType DEF TypeOK, PcOK
<1>3. PcOK'
  BY <1>1, <1>2, LabelsAll DEF TypeOK, PcOK
<1> QED
  BY <1>3 DEF SpuriousWakeup, TypeOK, InterfaceOK, MainOK, SendOK, RecvOK,
     interface, mainVars, sendVars, recvVars

-----------------------------------------------------------------------------
(* The mutex.  Frame(t) is what a step of thread t does to the others: it   *)
(* wakes them at most, takes the mutex only when it is free, gives up only  *)
(* its own, and does not enter a critical section without it.               *)
Resumed  == {"m_while", "h_exit", "e_exit", "s_while", "s_relock", "s_relogic"}
Queueing == {"m_authSet", "m_lock", "m_add"}

Frame(t) ==
  /\ \A u \in Threads \ {t} : pc'[u] = pc[u] \/ pc'[u] \in Resumed
  /\ lock' = lock \/ lock = "none" \/ lock = t
  /\ pc'[t] \in Holding(t) => lock' = t
  /\ UNCHANGED <<cmd, eof, typed>>
  /\ pc'[t] \in Queueing => pc[t] \in Queueing

LEMMA HoldingOfThreads ==
  /\ Holding("main") = MainHolding
  /\ Holding("sender") = SenderHolding
  /\ Holding("receiver") = ReceiverHolding
BY DEF Holding

LEMMA ResumedFree ==
  ASSUME NEW u \in Threads, NEW l \in Resumed
  PROVE  l \notin Holding(u) /\ l \notin Queueing
BY DEF Resumed, Threads, Holding, MainHolding, SenderHolding, ReceiverHolding,
       Queueing

(* A step that keeps to its frame keeps the discipline.                     *)
LEMMA FrameKeepsDiscipline ==
  ASSUME LockDiscipline, NEW t \in Threads, Frame(t)
  PROVE  LockDiscipline'
<1> SUFFICES ASSUME NEW u \in Threads, pc'[u] \in Holding(u)
             PROVE  lock' = u
  BY DEF LockDiscipline
<1>1. CASE u = t
  BY <1>1 DEF Frame
<1>2. CASE u # t
  <2>1. pc'[u] = pc[u]
    BY <1>2, ResumedFree DEF Frame
  <2>2. lock = u /\ u # "none"
    BY <2>1 DEF LockDiscipline, Threads
  <2> QED
    BY <1>2, <2>2 DEF Frame
<1> QED
  BY <1>1, <1>2

LEMMA GotoFrame ==
  ASSUME TypeOK, NEW t \in Threads, NEW from, NEW to, Goto(t, from, to)
  PROVE  /\ pc[t] = from /\ pc'[t] = to
         /\ \A u \in Threads \ {t} : pc'[u] = pc[u] \/ pc'[u] \in Resumed
BY DEF TypeOK, PcOK, Goto

LEMMA ResumeResumed ==
  ASSUME NEW l \in DOMAIN Resume PROVE Resume[l] \in Resumed
<1>1. DOMAIN Resume = {"m_waiting", "h_waiting", "e_waiting", "s_ewaiting",
                       "s_rwaiting", "s_lwaiting", "s_twaiting"}
  BY DEF Resume
<1>2. /\ Resume["m_waiting"] = "m_while" /\ Resume["h_waiting"] = "h_exit"
      /\ Resume["e_waiting"] = "e_exit" /\ Resume["s_ewaiting"] = "s_while"
      /\ Resume["s_rwaiting"] = "s_relock" /\ Resume["s_lwaiting"] = "s_relogic"
      /\ Resume["s_twaiting"] = "s_while"
  BY DEF Resume
<1> QED
  BY <1>1, <1>2 DEF Resumed

Waits == {"m_waiting", "h_waiting", "e_waiting", "s_ewaiting", "s_rwaiting",
          "s_lwaiting", "s_twaiting"}

LEMMA SignalledFrame ==
  ASSUME TypeOK, NEW t \in Threads, NEW c \in Conditions, NEW to,
         pc[t] \notin Waits, Signalled(t, c, to)
  PROVE  /\ pc'[t] = to
         /\ \A u \in Threads \ {t} : pc'[u] = pc[u] \/ pc'[u] \in Resumed
<1>1. CASE Waiters(c) = {}
  BY <1>1 DEF TypeOK, PcOK, Signalled
<1>2. CASE Waiters(c) # {}
  <2>1. PICK w \in Waiters(c) : pc' = [pc EXCEPT ![t] = to, ![w] = Resume[pc[w]]]
    BY <1>2 DEF Signalled
  <2>2. w \in Threads /\ pc[w] \in DOMAIN Resume
    BY <2>1, ParkedInResume DEF Waiters
  <2>3. w # t
    BY <2>2 DEF Resume, Waits
  <2>4. Resume[pc[w]] \in Resumed
    BY <2>2, ResumeResumed
  <2> QED
    BY <2>1, <2>2, <2>3, <2>4 DEF TypeOK, PcOK
<1> QED
  BY <1>1, <1>2

LEMMA LocalStepFrame ==
  ASSUME TypeOK, LockDiscipline, NEW t \in Threads, NEW from, NEW to,
         LocalStep(t, from, to),
         to \in Holding(t) => from \in Holding(t),
         to \in Queueing => from \in Queueing
  PROVE  Frame(t)
<1>1. /\ pc[t] = from /\ pc'[t] = to
      /\ \A u \in Threads \ {t} : pc'[u] = pc[u] \/ pc'[u] \in Resumed
  BY GotoFrame DEF LocalStep
<1> QED
  BY <1>1 DEF Frame, LocalStep, LockDiscipline, interface, mainVars

LEMMA SetStepFrame ==
  ASSUME TypeOK, LockDiscipline, NEW t \in Threads, NEW from, NEW s, NEW to,
         SetStep(t, from, s, to),
         to \in Holding(t) => from \in Holding(t),
         to \in Queueing => from \in Queueing
  PROVE  Frame(t)
<1>1. /\ pc[t] = from /\ pc'[t] = to
      /\ \A u \in Threads \ {t} : pc'[u] = pc[u] \/ pc'[u] \in Resumed
  BY GotoFrame DEF SetStep
<1> QED
  BY <1>1 DEF Frame, SetStep, LockDiscipline, mainVars

LEMMA SignalStepFrame ==
  ASSUME TypeOK, LockDiscipline, NEW t \in Threads, NEW from, NEW to,
         NEW c \in Conditions, SignalStep(t, from, c, to), from \notin Waits,
         to \in Holding(t) => from \in Holding(t),
         to \in Queueing => from \in Queueing
  PROVE  Frame(t)
<1>1. pc[t] = from
  BY DEF SignalStep
<1>2. /\ pc'[t] = to
      /\ \A u \in Threads \ {t} : pc'[u] = pc[u] \/ pc'[u] \in Resumed
  BY <1>1, SignalledFrame DEF SignalStep
<1> QED
  BY <1>1, <1>2 DEF Frame, SignalStep, LockDiscipline, interface, mainVars

LEMMA LockStepFrame ==
  ASSUME TypeOK, NEW t \in Threads, NEW from, NEW to, LockStep(t, from, to),
         to \in Queueing => from \in Queueing
  PROVE  Frame(t)
<1>1. /\ pc[t] = from /\ pc'[t] = to
      /\ \A u \in Threads \ {t} : pc'[u] = pc[u] \/ pc'[u] \in Resumed
  BY GotoFrame DEF LockStep
<1> QED
  BY <1>1 DEF Frame, LockStep, mainVars

LEMMA LockedQueueStepFrame ==
  ASSUME TypeOK, NEW t \in Threads, NEW from, NEW q, NEW to,
         LockedQueueStep(t, from, q, to),
         to \notin Holding(t), to \notin Queueing
  PROVE  Frame(t)
<1>1. /\ pc[t] = from /\ pc'[t] = to
      /\ \A u \in Threads \ {t} : pc'[u] = pc[u] \/ pc'[u] \in Resumed
  BY GotoFrame DEF LockedQueueStep
<1> QED
  BY <1>1 DEF Frame, LockedQueueStep, mainVars

LEMMA HolderStepFrame ==
  ASSUME TypeOK, LockDiscipline, NEW t \in Threads, NEW from, NEW q, NEW l,
         NEW to, HolderStep(t, from, q, l, to),
         from \in Holding(t) \/ lock = "none",
         l = t \/ to \notin Holding(t), to \notin Queueing
  PROVE  Frame(t)
<1>1. /\ pc[t] = from /\ pc'[t] = to
      /\ \A u \in Threads \ {t} : pc'[u] = pc[u] \/ pc'[u] \in Resumed
  BY GotoFrame DEF HolderStep
<1> QED
  BY <1>1 DEF Frame, HolderStep, LockDiscipline, mainVars

LEMMA sendByeFrame ==
  ASSUME TypeOK, NEW t \in Threads, NEW from, NEW to, sendBye(t, from, to),
         to \notin Holding(t), to \notin Queueing
  PROVE  Frame(t)
BY LockedQueueStepFrame DEF sendBye

LEMMA sendErrorFrame ==
  ASSUME TypeOK, NEW t \in Threads, NEW from, NEW to, sendError(t, from, to),
         to \notin Holding(t), to \notin Queueing
  PROVE  Frame(t)
<1>1. "e_set" \notin Queueing
  BY DEF Queueing
<1>2. CASE LockStep(t, from, "e_set")
  BY <1>1, <1>2, LockStepFrame
<1>3. CASE LockedQueueStep(t, from, queueAddMessage(queue, ErrMessage), to)
  BY <1>3, LockedQueueStepFrame
<1> QED
  BY <1>2, <1>3 DEF sendError

LEMMA ExitStepFrame ==
  ASSUME TypeOK, LockDiscipline, NEW t \in Threads, NEW from, NEW how,
         ExitStep(t, from, how)
  PROVE  Frame(t)
BY DEF ExitStep, Frame, LockDiscipline, interface, mainVars

LEMMA MainAddFrame ==
  ASSUME TypeOK, MainAdd, LockDiscipline
  PROVE  Frame("main")
<1> DEFINE next == IF cmd = "EXIT" THEN "m_exitSet" ELSE "m_wait"
<1>a. "main" \in Threads /\ Holding("main") = MainHolding
  BY LabelsOfThreads, HoldingOfThreads
<1>1. pc["main"] = "m_add" /\ lock = "main"
  BY <1>a DEF MainAdd, LockDiscipline, MainHolding
<1>2. /\ pc'["main"] = next
      /\ \A u \in Threads \ {"main"} : pc'[u] = pc[u] \/ pc'[u] \in Resumed
  <2>1. CASE queue = <<>> \/ cmd = "AUTH"
    <3>1. Signalled("main", "senderEmptyQueueCond", next)
      BY <2>1 DEF MainAdd
    <3>2. pc["main"] \notin Waits
      BY <1>1 DEF Waits
    <3> QED
      BY <1>a, <3>1, <3>2, SignalledFrame DEF Conditions
  <2>2. CASE ~(queue = <<>> \/ cmd = "AUTH")
    <3>1. pc' = [pc EXCEPT !["main"] = next]
      BY <2>2 DEF MainAdd
    <3> QED
      BY <1>a, <3>1 DEF TypeOK, PcOK
  <2> QED
    BY <2>1, <2>2
<1>3. next \notin MainHolding /\ next \notin Queueing
  BY DEF MainHolding, Queueing
<1> QED
  BY <1>a, <1>1, <1>2, <1>3 DEF Frame, MainAdd, mainVars

LEMMA MainStepFrame ==
  ASSUME TypeOK, LockDiscipline, MainStep
  PROVE  Frame("main")
<1>a. "main" \in Threads /\ Holding("main") = MainHolding
  BY LabelsOfThreads, HoldingOfThreads
<1>1. CASE MainLoop
  BY <1>a, <1>1, LocalStepFrame DEF MainLoop, MainHolding, Queueing
<1>2. CASE MainEofSet
  BY <1>a, <1>2, SetStepFrame DEF MainEofSet, MainHolding, Queueing
<1>3. CASE MainEofLock
  BY <1>a, <1>3, LockStepFrame DEF MainEofLock, MainHolding, Queueing
<1>4. CASE MainEofBye
  BY <1>a, <1>4, HolderStepFrame DEF MainEofBye, MainHolding, Queueing
<1>5. CASE MainEofSignal
  BY <1>a, <1>5, SignalStepFrame
     DEF MainEofSignal, MainHolding, Queueing, Conditions, Waits
<1>6. CASE MainAuthSet
  BY <1>a, <1>6, SetStepFrame DEF MainAuthSet, MainHolding, Queueing
<1>7. CASE MainLock
  BY <1>a, <1>7, LockStepFrame DEF MainLock, MainHolding, Queueing
<1>8. CASE MainAdd
  BY <1>8, MainAddFrame
<1>9. CASE MainExitSet
  BY <1>a, <1>9, SetStepFrame DEF MainExitSet, MainHolding, Queueing
<1>10. CASE MainExitSignal
  BY <1>a, <1>10, SignalStepFrame
     DEF MainExitSignal, MainHolding, Queueing, Conditions, Waits
<1>11. CASE MainWait
  BY <1>a, <1>11, LocalStepFrame DEF MainWait, MainHolding, Queueing
<1>12. CASE MainJoin
  BY <1>a, <1>12, ExitStepFrame DEF MainJoin, MainHolding, Queueing
<1> QED
  BY <1>1, <1>2, <1>3, <1>4, <1>5, <1>6, <1>7, <1>8, <1>9, <1>10, <1>11, <1>12 DEF MainStep

LEMMA sigintHandlerFrame ==
  ASSUME TypeOK, LockDiscipline, sigintHandler \/ Sigint
  PROVE  Frame("main")
<1>a. "main" \in Threads /\ Holding("main") = MainHolding
  BY LabelsOfThreads, HoldingOfThreads
<1>1. CASE SigintSet
  BY <1>a, <1>1, SetStepFrame DEF SigintSet, MainHolding, Queueing
<1>2. CASE SigintSigMain
  BY <1>a, <1>2, SignalStepFrame
     DEF SigintSigMain, MainHolding, Queueing, Conditions, Waits
<1>3. CASE SigintPop
  BY <1>a, <1>3, LockedQueueStepFrame DEF SigintPop, MainHolding, Queueing
<1>4. CASE SigintBye
  BY <1>a, <1>4, sendByeFrame DEF SigintBye, MainHolding, Queueing
<1>5. CASE SigintSigEmpty
  BY <1>a, <1>5, SignalStepFrame
     DEF SigintSigEmpty, MainHolding, Queueing, Conditions, Waits
<1>6. CASE SigintSigRec
  BY <1>a, <1>6, SignalStepFrame
     DEF SigintSigRec, MainHolding, Queueing, Conditions, Waits
<1>7. CASE SigintWait
  BY <1>a, <1>7, LocalStepFrame DEF SigintWait, MainHolding, Queueing
<1>8. CASE SigintExit
  BY <1>a, <1>8, ExitStepFrame DEF SigintExit, MainHolding, Queueing
<1>9. CASE Sigint
  BY <1>a, <1>9 DEF Sigint, TypeOK, PcOK, Frame, MainHolding, Queueing,
     interface, mainVars
<1> QED
  BY <1>1, <1>2, <1>3, <1>4, <1>5, <1>6, <1>7, <1>8, <1>9 DEF sigintHandler

LEMMA errHandlingFrame ==
  ASSUME TypeOK, LockDiscipline, NEW t \in {"sender", "receiver"},
         errHandling(t)
  PROVE  Frame(t)
<1>a. t \in Threads /\ Holding(t) \in {SenderHolding, ReceiverHolding}
  BY LabelsOfThreads, HoldingOfThreads
<1>1. CASE ErrSet(t)
  BY <1>a, <1>1, SetStepFrame
     DEF ErrSet, SenderHolding, ReceiverHolding, Queueing
<1>2. CASE ErrSignal(t)
  BY <1>a, <1>2, SignalStepFrame
     DEF ErrSignal, SenderHolding, ReceiverHolding, Queueing, Conditions, Waits
<1>3. CASE ErrPop(t)
  BY <1>a, <1>3, LockedQueueStepFrame
     DEF ErrPop, SenderHolding, ReceiverHolding, Queueing
<1>4. CASE ErrBye(t)
  BY <1>a, <1>4, sendByeFrame
     DEF ErrBye, SenderHolding, ReceiverHolding, Queueing
<1>5. CASE ErrWait(t)
  BY <1>a, <1>5, LocalStepFrame
     DEF ErrWait, SenderHolding, ReceiverHolding, Queueing
<1>6. CASE ErrExit(t)
  BY <1>a, <1>6, ExitStepFrame
     DEF ErrExit, SenderHolding, ReceiverHolding, Queueing
<1> QED
  BY <1>1, <1>2, <1>3, <1>4, <1>5, <1>6 DEF errHandling

LEMMA LeaveFilterFrame ==
  ASSUME TypeOK, LockDiscipline, NEW from \in {"s_lock1", "s_filter", "s_toLock"},
         LeaveFilter(from)
  PROVE  Frame("sender")
<1>a. "sender" \in Threads /\ Holding("sender") = SenderHolding
  BY LabelsOfThreads, HoldingOfThreads
<1>1. /\ pc["sender"] = from /\ pc'["sender"] = FilterEnd
      /\ \A u \in Threads \ {"sender"} : pc'[u] = pc[u] \/ pc'[u] \in Resumed
  BY <1>a, GotoFrame DEF LeaveFilter
<1>2. lock = "none" \/ lock = "sender"
  BY <1>a, <1>1 DEF LeaveFilter, Acquirable, LockDiscipline, SenderHolding
<1>3. FilterEnd \notin Queueing /\ (lock' = "sender" \/ FilterEnd = "s_lock2")
  BY DEF LeaveFilter, FilterEnd, Queueing
<1> QED
  BY <1>a, <1>1, <1>2, <1>3 DEF Frame, LeaveFilter, SenderHolding, mainVars

LEMMA FilterTopFrame ==
  ASSUME TypeOK, LockDiscipline, NEW from \in {"s_lock1", "s_filter"},
         FilterTop(from)
  PROVE  Frame("sender")
<1>a. "sender" \in Threads /\ Holding("sender") = SenderHolding
  BY LabelsOfThreads, HoldingOfThreads
<1>b. from \in SenderHolding \/ lock = "none"
  BY DEF FilterTop, Acquirable, SenderHolding
<1>1. CASE LeaveFilter(from)
  BY <1>1, LeaveFilterFrame
<1>2. CASE HolderStep("sender", from, queue, "sender", "s_timeout1")
  BY <1>a, <1>b, <1>2, HolderStepFrame DEF Queueing
<1>3. CASE HolderStep("sender", from, queuePopMessage(queue), "sender", "s_filter")
  BY <1>a, <1>b, <1>3, HolderStepFrame DEF Queueing
<1> QED
  BY <1>1, <1>2, <1>3 DEF FilterTop

LEMMA TimeoutEndSignalFrame ==
  ASSUME TypeOK, LockDiscipline, TimeoutEndSignal
  PROVE  Frame("sender")
<1>a. "sender" \in Threads /\ Holding("sender") = SenderHolding
  BY LabelsOfThreads, HoldingOfThreads
<1>1. pc["sender"] = "s_toEndSig" /\ lock = "sender"
  BY <1>a DEF TimeoutEndSignal, LockDiscipline, SenderHolding
<1>2. /\ pc'["sender"] = "s_filter"
      /\ \A u \in Threads \ {"sender"} : pc'[u] = pc[u] \/ pc'[u] \in Resumed
  BY <1>a, <1>1, SignalledFrame DEF TimeoutEndSignal, Conditions, Waits
<1> QED
  BY <1>a, <1>1, <1>2 DEF Frame, TimeoutEndSignal, Queueing, mainVars

LEMMA TimeoutSetErrFrame ==
  ASSUME TypeOK, LockDiscipline, TimeoutSetErr
  PROVE  Frame("sender")
<1>a. "sender" \in Threads /\ Holding("sender") = SenderHolding
  BY LabelsOfThreads, HoldingOfThreads
<1>1. /\ pc'["sender"] \notin SenderHolding /\ pc'["sender"] \notin Queueing
      /\ lock = "sender"
      /\ \A u \in Threads \ {"sender"} : pc'[u] = pc[u] \/ pc'[u] \in Resumed
  BY <1>a, GotoFrame DEF TimeoutSetErr, LockDiscipline, SenderHolding, Queueing
<1> QED
  BY <1>a, <1>1 DEF Frame, TimeoutSetErr, mainVars

LEMMA filterResentMessagesFrame ==
  ASSUME TypeOK, LockDiscipline, filterResentMessages
  PROVE  Frame("sender")
<1>a. "sender" \in Threads /\ Holding("sender") = SenderHolding
  BY LabelsOfThreads, HoldingOfThreads
<1>1. CASE \E from \in {"s_lock1", "s_filter"} : FilterTop(from)
  BY <1>1, FilterTopFrame
<1>2. CASE TimeoutOfErr
  BY <1>a, <1>2, HolderStepFrame, LocalStepFrame
     DEF TimeoutOfErr, SenderHolding, Queueing
<1>3. CASE TimeoutOfBye
  BY <1>a, <1>3, LocalStepFrame DEF TimeoutOfBye, SenderHolding, Queueing
<1>4. CASE TimeoutEnd
  BY <1>a, <1>4, SetStepFrame DEF TimeoutEnd, SenderHolding, Queueing
<1>5. CASE TimeoutEndSignal
  BY <1>5, TimeoutEndSignalFrame
<1>6. CASE TimeoutSetErr
  BY <1>6, TimeoutSetErrFrame
<1>7. CASE TimeoutSendError
  BY <1>a, <1>7, sendErrorFrame DEF TimeoutSendError, SenderHolding, Queueing
<1>8. CASE TimeoutSendBye
  BY <1>a, <1>8, sendByeFrame DEF TimeoutSendBye, SenderHolding, Queueing
<1>9. CASE TimeoutSignal
  BY <1>a, <1>9, SignalStepFrame
     DEF TimeoutSignal, SenderHolding, Queueing, Conditions, Waits
<1>10. CASE LeaveFilter("s_toLock")
  BY <1>10, LeaveFilterFrame
<1> QED
  BY <1>1, <1>2, <1>3, <1>4, <1>5, <1>6, <1>7, <1>8, <1>9, <1>10 DEF filterResentMessages

LEMMA EmptyEndFrame ==
  ASSUME TypeOK, LockDiscipline, EmptyEnd
  PROVE  Frame("sender")
<1>a. "sender" \in Threads /\ Holding("sender") = SenderHolding
  BY LabelsOfThreads, HoldingOfThreads
<1>1. /\ pc'["sender"] \notin SenderHolding /\ pc'["sender"] \notin Queueing
      /\ lock = "sender"
      /\ \A u \in Threads \ {"sender"} : pc'[u] = pc[u] \/ pc'[u] \in Resumed
  BY <1>a, GotoFrame DEF EmptyEnd, LockDiscipline, SenderHolding, Queueing
<1> QED
  BY <1>a, <1>1 DEF Frame, EmptyEnd, mainVars

LEMMA emptyQueueFrame ==
  ASSUME TypeOK, LockDiscipline, emptyQueue
  PROVE  Frame("sender")
<1>a. "sender" \in Threads /\ Holding("sender") = SenderHolding
  BY LabelsOfThreads, HoldingOfThreads
<1>1. CASE EmptyQBye
  BY <1>a, <1>1, LocalStepFrame DEF EmptyQBye, SenderHolding, Queueing
<1>2. CASE EmptySigintBye
  BY <1>a, <1>2, HolderStepFrame, LocalStepFrame
     DEF EmptySigintBye, SenderHolding, Queueing
<1>3. CASE EmptyEnd
  BY <1>3, EmptyEndFrame
<1>4. CASE EmptySignal
  BY <1>a, <1>4, SignalStepFrame
     DEF EmptySignal, SenderHolding, Queueing, Conditions, Waits
<1>5. CASE EmptyWait
  BY <1>a, <1>5, LocalStepFrame DEF EmptyWait, SenderHolding, Queueing
<1> QED
  BY <1>1, <1>2, <1>3, <1>4, <1>5 DEF emptyQueue

LEMMA LogicSwitchFrame ==
  ASSUME TypeOK, LockDiscipline, NEW from \in {"s_lock2", "s_relogic"},
         LogicSwitch(from)
  PROVE  Frame("sender")
<1>a. "sender" \in Threads /\ Holding("sender") = SenderHolding
  BY LabelsOfThreads, HoldingOfThreads
<1> DEFINE target == LogicTarget(Top, fsm)
<1>1. /\ pc'["sender"] = target /\ lock = "none" /\ lock' = LockAt(target)
      /\ \A u \in Threads \ {"sender"} : pc'[u] = pc[u] \/ pc'[u] \in Resumed
  BY <1>a, GotoFrame DEF LogicSwitch, Acquirable
<1>2. target \in SenderHolding => LockAt(target) = "sender"
  BY DEF LockAt, SenderHolding
<1>3. target \notin Queueing
  BY LogicTargetType DEF Queueing
<1> QED
  BY <1>a, <1>1, <1>2, <1>3 DEF Frame, LogicSwitch, mainVars

LEMMA LogicAuthTestFrame ==
  ASSUME TypeOK, LockDiscipline, NEW from \in {"s_authGet", "s_authSet"}, NEW s,
         LogicAuthTest(from, s)
  PROVE  Frame("sender")
<1>a. "sender" \in Threads /\ Holding("sender") = SenderHolding
  BY LabelsOfThreads, HoldingOfThreads
<1> DEFINE target == AfterAuthTest(msgToBeSend)
<1>1. /\ pc["sender"] = from /\ pc'["sender"] = target /\ lock' = LockAt(target)
      /\ \A u \in Threads \ {"sender"} : pc'[u] = pc[u] \/ pc'[u] \in Resumed
  BY <1>a, GotoFrame DEF LogicAuthTest
<1>2. lock = "sender"
  BY <1>a, <1>1 DEF LockDiscipline, SenderHolding
<1>3. target \in SenderHolding => LockAt(target) = "sender"
  BY DEF LockAt, SenderHolding
<1>4. target \notin Queueing
  BY LogicTargetType DEF Queueing
<1> QED
  BY <1>a, <1>1, <1>2, <1>3, <1>4 DEF Frame, LogicAuthTest, mainVars

LEMMA logicFSMFrame ==
  ASSUME TypeOK, LockDiscipline, logicFSM
  PROVE  Frame("sender")
<1>a. "sender" \in Threads /\ Holding("sender") = SenderHolding
  BY LabelsOfThreads, HoldingOfThreads
<1>1. CASE \E from \in {"s_lock2", "s_relogic"} : LogicSwitch(from)
  BY <1>1, LogicSwitchFrame
<1>2. CASE \E from \in {"s_lock2", "s_relogic"} : LogicNoMessage(from)
  BY <1>a, <1>2, ExitStepFrame DEF LogicNoMessage
<1>3. CASE LogicAuthGet
  BY <1>a, <1>3, LocalStepFrame, LogicAuthTestFrame
     DEF LogicAuthGet, SenderHolding, Queueing
<1>4. CASE LogicAuthSet
  BY <1>4, LogicAuthTestFrame DEF LogicAuthSet
<1>5. CASE LogicBlockedWait
  BY <1>a, <1>5, LocalStepFrame DEF LogicBlockedWait, SenderHolding, Queueing
<1>6. CASE LogicReplyWait
  BY <1>a, <1>6, LocalStepFrame DEF LogicReplyWait, SenderHolding, Queueing
<1>7. CASE LogicOpen
  BY <1>a, <1>7, SetStepFrame DEF LogicOpen, SenderHolding, Queueing
<1>8. CASE LogicOpenSignal
  BY <1>a, <1>8, SignalStepFrame
     DEF LogicOpenSignal, SenderHolding, Queueing, Conditions, Waits
<1>9. CASE LogicJoin
  BY <1>a, <1>9, SetStepFrame DEF LogicJoin, SenderHolding, Queueing
<1>10. CASE LogicBye
  BY <1>a, <1>10, SetStepFrame DEF LogicBye, SenderHolding, Queueing
<1>11. CASE LogicErr
  BY <1>a, <1>11, SetStepFrame DEF LogicErr, SenderHolding, Queueing
<1> QED
  BY <1>1, <1>2, <1>3, <1>4, <1>5, <1>6, <1>7, <1>8, <1>9, <1>10, <1>11 DEF logicFSM

LEMMA SendMessageFrame ==
  ASSUME TypeOK, LockDiscipline, NEW from \in SendLabels, SendMessage(from)
  PROVE  Frame("sender")
<1>a. "sender" \in Threads /\ Holding("sender") = SenderHolding
  BY LabelsOfThreads, HoldingOfThreads
<1>1. /\ pc["sender"] = from /\ pc'["sender"] = "s_twaiting"
      /\ \A u \in Threads \ {"sender"} : pc'[u] = pc[u] \/ pc'[u] \in Resumed
  BY <1>a, GotoFrame DEF SendMessage
<1>2. lock = "none" \/ lock = "sender"
  BY <1>a, <1>1 DEF SendMessage, SendLabels, Acquirable, LockDiscipline,
     SenderHolding
<1> QED
  BY <1>a, <1>1, <1>2 DEF Frame, SendMessage, SenderHolding, Queueing, mainVars

LEMMA transmissionFrame ==
  ASSUME TypeOK, LockDiscipline, transmission \/ SocketError
  PROVE  Frame("sender")
<1>a. "sender" \in Threads /\ Holding("sender") = SenderHolding
  BY LabelsOfThreads, HoldingOfThreads
<1>1. CASE \E from \in SendLabels : SendMessage(from)
  BY <1>1, SendMessageFrame
<1>2. CASE \E from \in SendLabels : SendNoMessage(from)
  BY <1>a, <1>2, ExitStepFrame DEF SendNoMessage
<1>3. CASE \E from \in SendLabels : SendFails(from)
  BY <1>a, <1>3, ExitStepFrame DEF SendFails
<1>4. CASE SendTimeout
  BY <1>a, <1>4, LocalStepFrame DEF SendTimeout, SenderHolding, Queueing
<1> QED
  BY <1>1, <1>2, <1>3, <1>4 DEF transmission, SocketError

LEMMA SenderStepFrame ==
  ASSUME TypeOK, LockDiscipline, SenderStep
  PROVE  Frame("sender")
<1>a. "sender" \in Threads /\ Holding("sender") = SenderHolding
  BY LabelsOfThreads, HoldingOfThreads
<1>1. CASE SenderLoop
  BY <1>a, <1>1, LocalStepFrame DEF SenderLoop, SenderHolding, Queueing
<1>2. CASE filterResentMessages
  BY <1>2, filterResentMessagesFrame
<1>3. CASE emptyQueue
  BY <1>3, emptyQueueFrame
<1>4. CASE logicFSM
  BY <1>4, logicFSMFrame
<1>5. CASE transmission
  BY <1>5, transmissionFrame
<1> QED
  BY <1>1, <1>2, <1>3, <1>4, <1>5 DEF SenderStep

LEMMA ReceiverLoopFrame ==
  ASSUME TypeOK, LockDiscipline, ReceiverLoop
  PROVE  Frame("receiver")
<1>a. "receiver" \in Threads /\ Holding("receiver") = ReceiverHolding
  BY LabelsOfThreads, HoldingOfThreads
<1>1. /\ pc'["receiver"] \notin ReceiverHolding
      /\ pc'["receiver"] \notin Queueing
      /\ \A u \in Threads \ {"receiver"} : pc'[u] = pc[u] \/ pc'[u] \in Resumed
  BY <1>a, GotoFrame DEF ReceiverLoop, ReceiverHolding, Queueing
<1> QED
  BY <1>a, <1>1 DEF Frame, ReceiverLoop, interface, mainVars

LEMMA FilterRepeatedFrame ==
  ASSUME TypeOK, LockDiscipline, FilterRepeated
  PROVE  Frame("receiver")
<1>a. "receiver" \in Threads /\ Holding("receiver") = ReceiverHolding
  BY LabelsOfThreads, HoldingOfThreads
<1>1. /\ pc'["receiver"] \notin ReceiverHolding
      /\ pc'["receiver"] \notin Queueing
      /\ \A u \in Threads \ {"receiver"} : pc'[u] = pc[u] \/ pc'[u] \in Resumed
  BY <1>a, GotoFrame DEF FilterRepeated, ReceiverHolding, Queueing, HandlerOf
<1> QED
  BY <1>a, <1>1 DEF Frame, FilterRepeated, interface, mainVars

LEMMA DeliveryFrame ==
  ASSUME TypeOK, LockDiscipline, Delivery
  PROVE  Frame("receiver")
<1>a. "receiver" \in Threads /\ Holding("receiver") = ReceiverHolding
  BY LabelsOfThreads, HoldingOfThreads
<1>1. PICK m \in Deliverable : Receive(m)
  BY DEF Delivery
<1>2. /\ pc'["receiver"] \notin ReceiverHolding
      /\ pc'["receiver"] \notin Queueing
      /\ \A u \in Threads \ {"receiver"} : pc'[u] = pc[u] \/ pc'[u] \in Resumed
  BY <1>a, <1>1, GotoFrame DEF Receive, ReceiverHolding, Queueing
<1> QED
  BY <1>a, <1>1, <1>2 DEF Frame, Receive, interface, mainVars

LEMMA ConfirmTopFrame ==
  ASSUME TypeOK, LockDiscipline, ConfirmTop
  PROVE  Frame("receiver")
<1>a. "receiver" \in Threads /\ Holding("receiver") = ReceiverHolding
  BY LabelsOfThreads, HoldingOfThreads
<1>1. /\ pc'["receiver"] \notin Queueing
      /\ \A u \in Threads \ {"receiver"} : pc'[u] = pc[u] \/ pc'[u] \in Resumed
  BY <1>a, GotoFrame DEF ConfirmTop, Queueing
<1> QED
  BY <1>a, <1>1 DEF Frame, ConfirmTop, mainVars

LEMMA ConfirmSigSenderFrame ==
  ASSUME TypeOK, LockDiscipline, ConfirmSigSender
  PROVE  Frame("receiver")
<1>a. "receiver" \in Threads /\ Holding("receiver") = ReceiverHolding
  BY LabelsOfThreads, HoldingOfThreads
<1>1. pc["receiver"] = "r_confSig" /\ lock = "receiver"
  BY <1>a DEF ConfirmSigSender, LockDiscipline, ReceiverHolding
<1>2. /\ pc'["receiver"] = "r_while"
      /\ \A u \in Threads \ {"receiver"} : pc'[u] = pc[u] \/ pc'[u] \in Resumed
  BY <1>a, <1>1, SignalledFrame DEF ConfirmSigSender, Conditions, Waits
<1> QED
  BY <1>a, <1>1, <1>2 DEF Frame, ConfirmSigSender, ReceiverHolding, Queueing,
     mainVars

LEMMA handleConfirmUDPFrame ==
  ASSUME TypeOK, LockDiscipline, handleConfirmUDP
  PROVE  Frame("receiver")
<1>a. "receiver" \in Threads /\ Holding("receiver") = ReceiverHolding
  BY LabelsOfThreads, HoldingOfThreads
<1>1. CASE ConfirmIgnored
  BY <1>a, <1>1, LocalStepFrame DEF ConfirmIgnored, ReceiverHolding, Queueing
<1>2. CASE ConfirmTop
  BY <1>2, ConfirmTopFrame
<1>3. CASE ConfirmSwitch
  BY <1>a, <1>3, LocalStepFrame DEF ConfirmSwitch, ReceiverHolding, Queueing
<1>4. CASE ConfirmAuth
  BY <1>a, <1>4, SetStepFrame DEF ConfirmAuth, ReceiverHolding, Queueing
<1>5. CASE ConfirmBye
  BY <1>a, <1>5, SetStepFrame DEF ConfirmBye, ReceiverHolding, Queueing
<1>6. CASE ConfirmSigMain
  BY <1>a, <1>6, SignalStepFrame
     DEF ConfirmSigMain, ReceiverHolding, Queueing, Conditions, Waits
<1>7. CASE ConfirmSigSender
  BY <1>7, ConfirmSigSenderFrame
<1> QED
  BY <1>1, <1>2, <1>3, <1>4, <1>5, <1>6, <1>7 DEF handleConfirmUDP

LEMMA ReplyOkSetFrame ==
  ASSUME TypeOK, LockDiscipline, ReplyOkSet
  PROVE  Frame("receiver")
<1>a. "receiver" \in Threads /\ Holding("receiver") = ReceiverHolding
  BY LabelsOfThreads, HoldingOfThreads
<1>1. /\ pc'["receiver"] \notin ReceiverHolding
      /\ pc'["receiver"] \notin Queueing
      /\ \A u \in Threads \ {"receiver"} : pc'[u] = pc[u] \/ pc'[u] \in Resumed
  BY <1>a, GotoFrame DEF ReplyOkSet, ReceiverHolding, Queueing
<1> QED
  BY <1>a, <1>1 DEF Frame, ReplyOkSet, interface, mainVars

LEMMA ReplyCounterFrame ==
  ASSUME TypeOK, LockDiscipline, ReplyCounter
  PROVE  Frame("receiver")
<1>a. "receiver" \in Threads /\ Holding("receiver") = ReceiverHolding
  BY LabelsOfThreads, HoldingOfThreads
<1>1. /\ pc'["receiver"] \notin ReceiverHolding
      /\ pc'["receiver"] \notin Queueing
      /\ \A u \in Threads \ {"receiver"} : pc'[u] = pc[u] \/ pc'[u] \in Resumed
  BY <1>a, GotoFrame DEF ReplyCounter, ReceiverHolding, Queueing
<1> QED
  BY <1>a, <1>1 DEF Frame, ReplyCounter, interface, mainVars

LEMMA handleReplyUDPFrame ==
  ASSUME TypeOK, LockDiscipline, handleReplyUDP
  PROVE  Frame("receiver")
<1>a. "receiver" \in Threads /\ Holding("receiver") = ReceiverHolding
  BY LabelsOfThreads, HoldingOfThreads
<1>1. CASE ReplyForAuth
  BY <1>a, <1>1, LocalStepFrame DEF ReplyForAuth, ReceiverHolding, Queueing
<1>2. CASE ReplyForJoin
  BY <1>a, <1>2, LocalStepFrame DEF ReplyForJoin, ReceiverHolding, Queueing
<1>3. CASE ReplyResult
  BY <1>a, <1>3, LocalStepFrame DEF ReplyResult, ReceiverHolding, Queueing
<1>4. CASE ReplyOkFlag
  BY <1>a, <1>4, LockedQueueStepFrame DEF ReplyOkFlag, ReceiverHolding, Queueing
<1>5. CASE ReplyOkSet
  BY <1>5, ReplyOkSetFrame
<1>6. CASE ReplyOkConfirm
  BY <1>a, <1>6, LockedQueueStepFrame DEF ReplyOkConfirm, ReceiverHolding, Queueing
<1>7. CASE ReplyOkSigEmpty
  BY <1>a, <1>7, SignalStepFrame
     DEF ReplyOkSigEmpty, ReceiverHolding, Queueing, Conditions, Waits
<1>8. CASE ReplyOkSigRec
  BY <1>a, <1>8, SignalStepFrame
     DEF ReplyOkSigRec, ReceiverHolding, Queueing, Conditions, Waits
<1>9. CASE ReplyNokTop
  BY <1>a, <1>9, HolderStepFrame DEF ReplyNokTop, ReceiverHolding, Queueing
<1>10. CASE ReplyNokNoTop
  BY <1>a, <1>10, ExitStepFrame DEF ReplyNokNoTop
<1>11. CASE ReplyNokStart
  BY <1>a, <1>11, SetStepFrame DEF ReplyNokStart, ReceiverHolding, Queueing
<1>12. CASE ReplyNokGet
  BY <1>a, <1>12, LocalStepFrame DEF ReplyNokGet, ReceiverHolding, Queueing
<1>13. CASE ReplyNokOpen
  BY <1>a, <1>13, SetStepFrame DEF ReplyNokOpen, ReceiverHolding, Queueing
<1>14. CASE ReplyNokConfirm
  BY <1>a, <1>14, HolderStepFrame DEF ReplyNokConfirm, ReceiverHolding, Queueing
<1>15. CASE ReplyNokSignal
  BY <1>a, <1>15, SignalStepFrame
     DEF ReplyNokSignal, ReceiverHolding, Queueing, Conditions, Waits
<1>16. CASE ReplyCounter
  BY <1>16, ReplyCounterFrame
<1> QED
  BY <1>1, <1>2, <1>3, <1>4, <1>5, <1>6, <1>7, <1>8, <1>9, <1>10, <1>11, <1>12, <1>13, <1>14, <1>15, <1>16 DEF handleReplyUDP

LEMMA printIncomingMessageFrame ==
  ASSUME TypeOK, LockDiscipline, printIncomingMessage
  PROVE  Frame("receiver")
<1>a. "receiver" \in Threads /\ Holding("receiver") = ReceiverHolding
  BY LabelsOfThreads, HoldingOfThreads
<1>1. /\ pc'["receiver"] \notin ReceiverHolding
      /\ pc'["receiver"] \notin Queueing
      /\ \A u \in Threads \ {"receiver"} : pc'[u] = pc[u] \/ pc'[u] \in Resumed
  BY <1>a, GotoFrame DEF printIncomingMessage, ReceiverHolding, Queueing
<1> QED
  BY <1>a, <1>1 DEF Frame, printIncomingMessage, interface, mainVars

LEMMA handleMsgFrame ==
  ASSUME TypeOK, LockDiscipline, handleMsg
  PROVE  Frame("receiver")
<1>a. "receiver" \in Threads /\ Holding("receiver") = ReceiverHolding
  BY LabelsOfThreads, HoldingOfThreads
<1>1. CASE MsgConfirm
  BY <1>a, <1>1, LockedQueueStepFrame DEF MsgConfirm, ReceiverHolding, Queueing
<1>2. CASE MsgSigEmpty
  BY <1>a, <1>2, SignalStepFrame
     DEF MsgSigEmpty, ReceiverHolding, Queueing, Conditions, Waits
<1>3. CASE MsgSigRec
  BY <1>a, <1>3, SignalStepFrame
     DEF MsgSigRec, ReceiverHolding, Queueing, Conditions, Waits
<1>4. CASE printIncomingMessage
  BY <1>4, printIncomingMessageFrame
<1> QED
  BY <1>1, <1>2, <1>3, <1>4 DEF handleMsg

LEMMA UnknownConfirmFrame ==
  ASSUME TypeOK, LockDiscipline, UnknownConfirm
  PROVE  Frame("receiver")
<1>a. "receiver" \in Threads /\ Holding("receiver") = ReceiverHolding
  BY LabelsOfThreads, HoldingOfThreads
<1>1. /\ pc'["receiver"] \notin ReceiverHolding
      /\ pc'["receiver"] \notin Queueing
      /\ \A u \in Threads \ {"receiver"} : pc'[u] = pc[u] \/ pc'[u] \in Resumed
  BY <1>a, GotoFrame DEF UnknownConfirm, ReceiverHolding, Queueing
<1> QED
  BY <1>a, <1>1 DEF Frame, UnknownConfirm, interface, mainVars

LEMMA handleEndFrame ==
  ASSUME TypeOK, LockDiscipline, handleEnd
  PROVE  Frame("receiver")
<1>a. "receiver" \in Threads /\ Holding("receiver") = ReceiverHolding
  BY LabelsOfThreads, HoldingOfThreads
<1>1. CASE ByeConfirm
  BY <1>a, <1>1, LockedQueueStepFrame DEF ByeConfirm, ReceiverHolding, Queueing
<1>2. CASE ByeSet
  BY <1>a, <1>2, SetStepFrame DEF ByeSet, ReceiverHolding, Queueing
<1>3. CASE ErrConfirm
  BY <1>a, <1>3, LockedQueueStepFrame DEF ErrConfirm, ReceiverHolding, Queueing
<1>4. CASE ErrSendBye
  BY <1>a, <1>4, sendByeFrame DEF ErrSendBye, ReceiverHolding, Queueing
<1>5. CASE ErrSigEmpty
  BY <1>a, <1>5, SignalStepFrame
     DEF ErrSigEmpty, ReceiverHolding, Queueing, Conditions, Waits
<1>6. CASE ErrSigRec
  BY <1>a, <1>6, SignalStepFrame
     DEF ErrSigRec, ReceiverHolding, Queueing, Conditions, Waits
<1>7. CASE ErrSetErr
  BY <1>a, <1>7, SetStepFrame DEF ErrSetErr, ReceiverHolding, Queueing
<1>8. CASE UnknownSet
  BY <1>a, <1>8, SetStepFrame DEF UnknownSet, ReceiverHolding, Queueing
<1>9. CASE UnknownPop
  BY <1>a, <1>9, LockedQueueStepFrame DEF UnknownPop, ReceiverHolding, Queueing
<1>10. CASE UnknownConfirm
  BY <1>10, UnknownConfirmFrame
<1>11. CASE UnknownErr
  BY <1>a, <1>11, sendErrorFrame DEF UnknownErr, ReceiverHolding, Queueing
<1>12. CASE UnknownBye
  BY <1>a, <1>12, sendByeFrame DEF UnknownBye, ReceiverHolding, Queueing
<1>13. CASE UnknownSigEmpty
  BY <1>a, <1>13, SignalStepFrame
     DEF UnknownSigEmpty, ReceiverHolding, Queueing, Conditions, Waits
<1>14. CASE UnknownSigRec
  BY <1>a, <1>14, SignalStepFrame
     DEF UnknownSigRec, ReceiverHolding, Queueing, Conditions, Waits
<1>15. CASE SigMain
  BY <1>a, <1>15, SignalStepFrame
     DEF SigMain, ReceiverHolding, Queueing, Conditions, Waits
<1> QED
  BY <1>1, <1>2, <1>3, <1>4, <1>5, <1>6, <1>7, <1>8, <1>9, <1>10, <1>11, <1>12, <1>13, <1>14, <1>15 DEF handleEnd

LEMMA ReceiverStepFrame ==
  ASSUME TypeOK, LockDiscipline, ReceiverStep
  PROVE  Frame("receiver")
<1>a. "receiver" \in Threads /\ Holding("receiver") = ReceiverHolding
  BY LabelsOfThreads, HoldingOfThreads
<1>1. CASE ReceiverLoop
  BY <1>1, ReceiverLoopFrame
<1>2. CASE ReceiveTimeout
  BY <1>a, <1>2, LocalStepFrame DEF ReceiveTimeout, ReceiverHolding, Queueing
<1>3. CASE FilterRepeated
  BY <1>3, FilterRepeatedFrame
<1>4. CASE handleConfirmUDP
  BY <1>4, handleConfirmUDPFrame
<1>5. CASE ReplyRepeated
  BY <1>a, <1>5, LockedQueueStepFrame DEF ReplyRepeated, ReceiverHolding, Queueing
<1>6. CASE handleReplyUDP
  BY <1>6, handleReplyUDPFrame
<1>7. CASE handleMsg
  BY <1>7, handleMsgFrame
<1>8. CASE handleEnd
  BY <1>8, handleEndFrame
<1>9. CASE RecordShort
  BY <1>a, <1>9, LockStepFrame DEF RecordShort, Queueing
<1> QED
  BY <1>1, <1>2, <1>3, <1>4, <1>5, <1>6, <1>7, <1>8, <1>9 DEF ReceiverStep

LEMMA SpuriousWakeupFrame ==
  ASSUME TypeOK, LockDiscipline, SpuriousWakeup
  PROVE  \E t \in Threads : Frame(t)
<1>1. PICK t \in Threads : /\ pc[t] \in DOMAIN Resume
                           /\ pc' = [pc EXCEPT ![t] = Resume[pc[t]]]
  BY DEF SpuriousWakeup
<1>2. pc'[t] \notin Holding(t) /\ pc'[t] \notin Queueing
  BY <1>1, ResumeResumed, ResumedFree DEF TypeOK, PcOK
<1>3. Frame(t)
  BY <1>1, <1>2 DEF Frame, SpuriousWakeup, TypeOK, PcOK, interface, mainVars
<1> QED
  BY <1>3

(* The user's next line: its command is known whenever it is to be queued.  *)
LEMMA UserInputDiscipline ==
  ASSUME TypeOK, LockDiscipline, UserInput
  PROVE  LockDiscipline' /\ CmdKnown'
<1>a. "main" \in Threads /\ Holding("main") = MainHolding
  BY LabelsOfThreads, HoldingOfThreads
<1>1. PICK c \in Commands, e \in EofMarks : UserTypes(c, e)
  BY DEF UserInput
<1>2. /\ pc'["main"] \in {"m_while", "m_authSet", "m_lock"} /\ lock' = lock
      /\ \A u \in Threads \ {"main"} : pc'[u] = pc[u]
  BY <1>a, <1>1 DEF UserTypes, Goto, TypeOK, PcOK
<1>3. LockDiscipline'
  BY <1>a, <1>2 DEF LockDiscipline, MainHolding
<1>4. CASE canBeSended(c)
  <2>1. cmd' = c /\ c # "OTHER"
    BY <1>1, <1>4 DEF UserTypes, canBeSended, filterCommandsByFSM
  <2> QED
    BY <1>3, <2>1 DEF CmdKnown
<1>5. CASE ~canBeSended(c)
  <2>1. pc'["main"] = "m_while"
    BY <1>a, <1>1, <1>5 DEF UserTypes, Goto, TypeOK, PcOK
  <2> QED
    BY <1>3, <2>1 DEF CmdKnown
<1> QED
  BY <1>4, <1>5

LEMMA FrameKeepsCmdKnown ==
  ASSUME CmdKnown, NEW t \in Threads, Frame(t)
  PROVE  CmdKnown'
<1>1. pc'["main"] \in Queueing => pc["main"] \in Queueing
  BY LabelsOfThreads, ResumedFree DEF Frame
<1> QED
  BY <1>1 DEF Frame, CmdKnown, Queueing

-----------------------------------------------------------------------------
(* The inductive invariant: the type, the discipline of the mutex, and that *)
(* main queues only what it has a message for.  The discipline needs the    *)
(* type to know which labels a thread can be at; the type needs CmdKnown,   *)
(* because only a known command yields a message of the queue's type.       *)
IndInv == TypeOK /\ LockDiscipline /\ CmdKnown

LEMMA InitIndInv == Init => IndInv
<1> SUFFICES ASSUME Init PROVE IndInv
  OBVIOUS
<1>1. InterfaceOK /\ exited \in Exits
  <2>1. fsm \in FsmStates /\ lock \in Threads \cup {"none"} /\ exited \in Exits
    BY DEF Init, FsmStates, fsm_START, Exits
  <2>2. queue \in Seq(Message)
    BY DEF Init
  <2>3. msgCounter \in MsgIds
    BY IdSizeNat DEF Init, MsgIds
  <2>4. named \in BOOLEAN
    BY Zenon DEF Init
  <2> QED
    BY <2>1, <2>2, <2>3, <2>4 DEF InterfaceOK
<1>2. /\ pc["main"] = "m_while" /\ pc["sender"] = "s_while"
      /\ pc["receiver"] = "r_while" /\ DOMAIN pc = Threads
  BY DEF Init, Threads
<1>3. PcOK
  BY <1>2 DEF Init, PcOK, Threads, Labels, AllLabels, MainLabels, SenderLabels,
     ReceiverLabels
<1>4. MainOK
  <2>1. cmd \in UserCommandSet /\ typed \in 0 .. MaxTyped
    BY ConstantsAssumption DEF Init, UserCommandSet
  <2>2. eof \in BOOLEAN
    BY Zenon DEF Init
  <2> QED
    BY <2>1, <2>2 DEF MainOK
<1>5. SendOK
  <2>1. msgToBeSend \in Message /\ wire = {} /\ requests = {}
    BY ConstantMessagesType DEF Init
  <2>2. resetLoop \in BOOLEAN
    BY Zenon DEF Init
  <2> QED
    BY <2>1, <2>2 DEF SendOK
<1>6. RecvOK
  <2>1. NoSrvMessage \in SrvMessage
    BY IdSizeNat DEF SrvMessage, NoSrvMessage, SrvTypes, MsgIds
  <2>2. repetitiveMsg \in BOOLEAN
    BY Zenon DEF Init
  <2>3. rx = NoSrvMessage /\ confirmedMsgs = {} /\ srv = {} /\ dup = {} /\ acted = {}
    BY DEF Init
  <2> QED
    BY <2>1, <2>2, <2>3 DEF RecvOK
<1>7. LockDiscipline /\ CmdKnown
  BY <1>2 DEF LockDiscipline, CmdKnown, Threads, Holding, MainHolding,
     SenderHolding, ReceiverHolding
<1> QED
  BY <1>1, <1>3, <1>4, <1>5, <1>6, <1>7 DEF IndInv, TypeOK

(* The same of the state after the login.                                   *)
LEMMA InitOpenIndInv == InitOpen => IndInv
<1> SUFFICES ASSUME InitOpen PROVE IndInv
  OBVIOUS
<1>a. 0 \in MsgIds /\ 1 \in MsgIds
  <2>1. ByteSize \in Nat /\ ByteSize >= 2
    BY ByteSizeAssumption
  <2>2. ByteSize * ByteSize >= 2
    BY <2>1
  <2> QED
    BY <2>1, <2>2 DEF MsgIds, IdSize
<1>b. LoginReply \in SrvMessage /\ NoSrvMessage \in SrvMessage
  BY <1>a DEF LoginReply, NoSrvMessage, SrvMessage, SrvTypes
<1>1. InterfaceOK /\ exited \in Exits
  <2>1. fsm \in FsmStates /\ lock \in Threads \cup {"none"} /\ exited \in Exits
    BY DEF InitOpen, FsmStates, fsm_OPEN, Exits
  <2>2. queue \in Seq(Message) /\ msgCounter \in MsgIds
    BY <1>a DEF InitOpen
  <2>3. named \in BOOLEAN
    BY Zenon DEF InitOpen
  <2> QED
    BY <2>1, <2>2, <2>3 DEF InterfaceOK
<1>2. /\ pc["main"] = "m_while" /\ pc["sender"] = "s_while"
      /\ pc["receiver"] = "r_while" /\ DOMAIN pc = Threads
  BY DEF InitOpen, Threads
<1>3. PcOK
  BY <1>2 DEF InitOpen, PcOK, Threads, Labels, AllLabels, MainLabels,
     SenderLabels, ReceiverLabels
<1>4. MainOK
  <2>1. cmd \in UserCommandSet /\ typed \in 0 .. MaxTyped
    BY ConstantsAssumption DEF InitOpen, UserCommandSet
  <2>2. eof \in BOOLEAN
    BY Zenon DEF InitOpen
  <2> QED
    BY <2>1, <2>2 DEF MainOK
<1>5. SendOK
  <2>1. msgToBeSend \in Message /\ wire \subseteq MsgIds /\ requests \subseteq MsgIds
    BY <1>a, ConstantMessagesType DEF InitOpen
  <2>2. resetLoop \in BOOLEAN
    BY Zenon DEF InitOpen
  <2> QED
    BY <2>1, <2>2 DEF SendOK
<1>6. RecvOK
  <2>1. repetitiveMsg \in BOOLEAN
    BY Zenon DEF InitOpen
  <2>2. /\ rx = NoSrvMessage /\ srv = {LoginReply} /\ acted = {LoginReply}
        /\ dup = {}
    BY DEF InitOpen
  <2>3. confirmedMsgs \subseteq [type : SrvTypes, id : MsgIds]
    BY <1>a DEF InitOpen, SrvTypes
  <2> QED
    BY <1>b, <2>1, <2>2, <2>3 DEF RecvOK
<1>7. LockDiscipline /\ CmdKnown
  BY <1>2 DEF LockDiscipline, CmdKnown, Threads, Holding, MainHolding,
     SenderHolding, ReceiverHolding
<1> QED
  BY <1>1, <1>3, <1>4, <1>5, <1>6, <1>7 DEF IndInv, TypeOK

LEMMA FrameKeepsIndInv ==
  ASSUME IndInv, TypeOK', NEW t \in Threads, Frame(t)
  PROVE  IndInv'
BY FrameKeepsDiscipline, FrameKeepsCmdKnown DEF IndInv

LEMMA NextIndInv == IndInv /\ [Next]_vars => IndInv'
<1> SUFFICES ASSUME IndInv, [Next]_vars PROVE IndInv'
  OBVIOUS
<1> USE DEF IndInv
<1>a. "main" \in Threads /\ "sender" \in Threads /\ "receiver" \in Threads
  BY DEF Threads
<1>1. CASE MainStep
  BY <1>1, <1>a, MainStepType, MainStepFrame, FrameKeepsIndInv
<1>2. CASE UserInput
  BY <1>2, UserInputType, UserInputDiscipline
<1>3. CASE Sigint
  BY <1>3, <1>a, SigintType, sigintHandlerFrame, FrameKeepsIndInv
<1>4. CASE sigintHandler
  BY <1>4, <1>a, sigintHandlerType, sigintHandlerFrame, FrameKeepsIndInv
<1>5. CASE SenderStep
  BY <1>5, <1>a, SenderStepType, SenderStepFrame, FrameKeepsIndInv
<1>6. CASE SocketError
  BY <1>6, <1>a, transmissionType, transmissionFrame, FrameKeepsIndInv
<1>7. CASE errHandling("sender")
  BY <1>7, <1>a, errHandlingType, errHandlingFrame, FrameKeepsIndInv
<1>8. CASE ReceiverStep
  BY <1>8, <1>a, ReceiverStepType, ReceiverStepFrame, FrameKeepsIndInv
<1>9. CASE Delivery
  BY <1>9, <1>a, DeliveryType, DeliveryFrame, FrameKeepsIndInv
<1>10. CASE errHandling("receiver")
  BY <1>10, <1>a, errHandlingType, errHandlingFrame, FrameKeepsIndInv
<1>11. CASE SpuriousWakeup
  BY <1>11, SpuriousWakeupType, SpuriousWakeupFrame, FrameKeepsIndInv
<1>12. CASE UNCHANGED vars
  BY <1>12 DEF vars, interface, mainVars, sendVars, recvVars, TypeOK,
     InterfaceOK, PcOK, MainOK, SendOK, RecvOK, LockDiscipline, CmdKnown
<1> QED
  BY <1>1, <1>2, <1>3, <1>4, <1>5, <1>6, <1>7, <1>8, <1>9, <1>10, <1>11, <1>12
     DEF Next

(* Type correctness: whatever the user, the server, the network and the     *)
(* scheduler do, every variable of the UDP client keeps to its C type, and  *)
(* each thread stays in its own code.                                       *)
THEOREM TypeCorrect == (Spec => []TypeOK) /\ (OpenSpec => []TypeOK)
<1>1. IndInv => TypeOK
  BY DEF IndInv
<1> QED
  BY <1>1, InitIndInv, InitOpenIndInv, NextIndInv, PTL DEF Spec, OpenSpec

(* The sender, the receiver and main are inside a critical section of the   *)
(* sending queue only while they hold its mutex.                            *)
THEOREM LockDisciplineHolds ==
  (Spec => []LockDiscipline) /\ (OpenSpec => []LockDiscipline)
<1>1. IndInv => LockDiscipline
  BY DEF IndInv
<1> QED
  BY <1>1, InitIndInv, InitOpenIndInv, NextIndInv, PTL DEF Spec, OpenSpec
==============================================================================
