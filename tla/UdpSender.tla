------------------------------ MODULE UdpSender ------------------------------
(***************************************************************************)
(* The sender thread, UDP variant (protocolSender.c).                      *)
(*                                                                         *)
(* One turn of its loop: filterResentMessages under the queue's mutex,     *)
(* then the test for an empty queue, then logicFSM under the mutex taken   *)
(* anew, then the transmission of the first message and a timed wait.      *)
(***************************************************************************)
EXTENDS ProgramInterface

Top == Head(queue)

(* Each queueLock of the sender is one step with what follows it: `from` is  *)
(* the label at which the mutex is awaited, or one at which it is held.     *)
Acquirable(from) ==
  from \in {"s_lock1", "s_toLock", "s_lock2", "s_relogic", "s_relock"}
    => lock = "none"

SenderLoop == LocalStep("sender", "s_while",
                        IF fsm # fsm_END THEN "s_lock1" ELSE "s_end")

-----------------------------------------------------------------------------
(* Faulty variant of TimedOut: one transmission too many.                   *)
TimedOutLate(m) == m.sendCount > udpMaxRetries + 1

(* filterResentMessages                                                     *)
TimedOut(m) == m.sendCount > udpMaxRetries

(* A message that is not timed out is dropped when it was rejected, or when *)
(* it was confirmed and is not (any more) an unanswered AUTH.               *)
Finished(m) == \/ m.msgFlags = "REJECTED"
               \/ m.msgFlags # "AUTH" /\ m.confirmed

(* The loop ends.  With resetLoop the sender goes back to its outer loop    *)
(* and the mutex stays locked; otherwise it looks whether the queue is      *)
(* empty, and if it is not gives up the mutex for a moment.                 *)
FilterEnd ==
  IF resetLoop THEN "s_while" ELSE IF queue = <<>> THEN "s_empty1" ELSE "s_lock2"

LeaveFilter(from) ==
  /\ Acquirable(from)
  /\ Goto("sender", from, FilterEnd)
  /\ lock' = IF FilterEnd = "s_lock2" THEN "none" ELSE "sender"
  /\ resetLoop' = FALSE
  /\ UNCHANGED <<fsm, queue, msgCounter, named, mainVars, msgToBeSend, wire,
                 requests, recvVars>>

FilterTop(from) ==
  /\ Acquirable(from)
  /\ \/ /\ queue = <<>>
        /\ LeaveFilter(from)
     \/ /\ queue # <<>> /\ TimedOut(Top)
        /\ HolderStep("sender", from, queue, "sender", "s_timeout1")
     \/ /\ queue # <<>> /\ ~TimedOut(Top) /\ Finished(Top)
        /\ HolderStep("sender", from, queuePopMessage(queue), "sender",
                      "s_filter")
     \/ /\ queue # <<>> /\ ~TimedOut(Top) /\ ~Finished(Top)
        /\ LeaveFilter(from)

(* Faulty variant of TimeoutOfErr: the ERR is not dropped.                  *)
TimeoutKeepsErr ==
  \/ /\ fsm = fsm_ERR_W84_CONF
     /\ HolderStep("sender", "s_timeout1", queue, "sender", "s_filter")
  \/ /\ fsm # fsm_ERR_W84_CONF
     /\ LocalStep("sender", "s_timeout1", "s_timeout2")

(* ERR timed out: drop it and go on to the BYE behind it.                   *)
TimeoutOfErr ==
  \/ /\ fsm = fsm_ERR_W84_CONF
     /\ HolderStep("sender", "s_timeout1", queuePopMessage(queue), "sender",
                   "s_filter")
  \/ /\ fsm # fsm_ERR_W84_CONF
     /\ LocalStep("sender", "s_timeout1", "s_timeout2")

(* BYE timed out: END.  Anything else: the queue is emptied, ERR and BYE    *)
(* are queued in its place.                                                 *)
TimeoutOfBye == LocalStep("sender", "s_timeout2",
                          IF fsm = fsm_END_W84_CONF THEN "s_toEnd" ELSE "s_toErr")

TimeoutEnd == SetStep("sender", "s_toEnd", fsm_END, "s_toEndSig")

TimeoutEndSignal ==
  /\ exited = "no" /\ pc["sender"] = "s_toEndSig"
  /\ Signalled("sender", "mainCond", "s_filter")
  /\ resetLoop' = TRUE
  /\ queue' = queuePopMessage(queue)
  /\ UNCHANGED <<exited, fsm, lock, msgCounter, named, mainVars, msgToBeSend,
                 wire, requests, recvVars>>

TimeoutSetErr ==
  /\ Goto("sender", "s_toErr", "s_toSendErr")
  /\ queue' = <<>> /\ fsm' = fsm_ERR /\ lock' = "none"
  /\ UNCHANGED <<msgCounter, named, mainVars, sendVars, recvVars>>

TimeoutSendError == sendError("sender", "s_toSendErr", "s_toSendBye")
TimeoutSendBye   == sendBye("sender", "s_toSendBye", "s_toSig")
(* Faulty variant of TimeoutSignal: the mutex is not taken back.            *)
TimeoutNoRelock  == SignalStep("sender", "s_toSig", "mainCond", "s_filter")
TimeoutSignal    == SignalStep("sender", "s_toSig", "mainCond", "s_toLock")

filterResentMessages ==
  \/ \E from \in {"s_lock1", "s_filter"} : FilterTop(from)
  \/ TimeoutOfErr \/ TimeoutOfBye \/ TimeoutEnd \/ TimeoutEndSignal
  \/ TimeoutSetErr \/ TimeoutSendError \/ TimeoutSendBye \/ TimeoutSignal
  \/ LeaveFilter("s_toLock")

-----------------------------------------------------------------------------
(* The empty queue: END once everything was sent in a state that asks for   *)
(* it, otherwise a wait that only senderEmptyQueueCond ends.                *)
EmptyQBye == LocalStep("sender", "s_empty1",
                       IF fsm = fsm_EMPTY_Q_BYE THEN "s_emptyEnd" ELSE "s_empty2")

(* Faulty variant of EmptySigintBye: the sender waits with the mutex.       *)
EmptyKeepsLock ==
  \/ /\ fsm = fsm_SIGINT_BYE
     /\ LocalStep("sender", "s_empty2", "s_emptyEnd")
  \/ /\ fsm # fsm_SIGINT_BYE
     /\ LocalStep("sender", "s_empty2", "s_ewait")

EmptySigintBye ==
  \/ /\ fsm = fsm_SIGINT_BYE
     /\ LocalStep("sender", "s_empty2", "s_emptyEnd")
  \/ /\ fsm # fsm_SIGINT_BYE
     /\ HolderStep("sender", "s_empty2", queue, "none", "s_ewait")

EmptyEnd ==
  /\ Goto("sender", "s_emptyEnd", "s_emptySig")
  /\ fsm' = fsm_END /\ lock' = "none"
  /\ UNCHANGED <<queue, msgCounter, named, mainVars, sendVars, recvVars>>

EmptySignal == SignalStep("sender", "s_emptySig", "mainCond", "s_while")
EmptyWait   == LocalStep("sender", "s_ewait", "s_ewaiting")

emptyQueue ==
  EmptyQBye \/ EmptySigintBye \/ EmptyEnd \/ EmptySignal \/ EmptyWait

-----------------------------------------------------------------------------
(* logicFSM                                                                 *)

(* Before the client is authenticated only AUTH, and the confirmation of a  *)
(* negative reply, pass.                                                    *)
PreOpen         == fsm_START .. fsm_W84_REPLY
BlockedByFsm(m) == m.type # "AUTH" /\ m.msgFlags # "NOK_REPLY"

(* A confirmed AUTH waits for its reply instead of being sent again.        *)
AwaitsReply(m) == m.type = "AUTH" /\ m.confirmed /\ m.sendCount > 0

AfterAuthTest(m) ==
  IF BlockedByFsm(m) THEN "s_rwait"
  ELSE IF AwaitsReply(m) THEN "s_lwait" ELSE "s_send"

(* Where the switch leads for first message m in state s.                   *)
LogicTarget(m, s) ==
  CASE s \in PreOpen ->
         IF m.msgFlags = "AUTH" THEN "s_authGet" ELSE AfterAuthTest(m)
    [] s = fsm_W84_REPLY_CONF -> IF m.type = "CONF" THEN "s_open" ELSE "s_send"
    [] s = fsm_OPEN -> IF m.type = "JOIN" THEN "s_join" ELSE "s_send"
    [] s \in {fsm_ERR, fsm_ERR_W84_CONF} ->
         (CASE m.msgFlags = "BYE" -> "s_byeSet"
            [] m.msgFlags = "ERR" -> "s_errSet"
            [] m.msgFlags = "CONFIRM" -> "s_send"
            [] OTHER -> "e_set")
    [] OTHER -> "s_send"

(* The mutex is given up before a wait and kept on every other way.         *)
LockAt(l) == IF l \in {"s_rwait", "s_lwait"} THEN "none" ELSE "sender"

(* The first message is captured, then the state is read.  AUTH in OPEN is  *)
(* popped, and whatever is behind it is sent.                               *)
LogicSwitch(from) ==
  LET target == LogicTarget(Top, fsm) IN
  /\ Acquirable(from) /\ queue # <<>>
  /\ Goto("sender", from, target)
  /\ msgToBeSend' = IF target = "s_authGet" THEN Top ELSE NoMessage
  /\ queue' = IF fsm = fsm_OPEN /\ Top.type = "AUTH"
              THEN queuePopMessage(queue) ELSE queue
  /\ lock' = LockAt(target)
  /\ UNCHANGED <<fsm, msgCounter, named, mainVars, resetLoop, wire, requests,
                 recvVars>>

(* The mutex was free since the queue was last seen not to be empty.        *)
LogicNoMessage(from) ==
  Acquirable(from) /\ queue = <<>> /\ ExitStep("sender", from, "segv")

LogicAuthTest(from, s) ==
  LET target == AfterAuthTest(msgToBeSend) IN
  /\ Goto("sender", from, target)
  /\ fsm' = s
  /\ lock' = LockAt(target)
  /\ msgToBeSend' = NoMessage
  /\ UNCHANGED <<queue, msgCounter, named, mainVars, resetLoop, wire, requests,
                 recvVars>>

LogicAuthGet ==
  \/ /\ fsm <= fsm_AUTH_W82
     /\ LocalStep("sender", "s_authGet", "s_authSet")
  \/ /\ fsm > fsm_AUTH_W82
     /\ LogicAuthTest("s_authGet", fsm)

LogicAuthSet == LogicAuthTest("s_authSet", fsm_AUTH_SENDED)

LogicBlockedWait == LocalStep("sender", "s_rwait", "s_rwaiting")
LogicReplyWait   == LocalStep("sender", "s_lwait", "s_lwaiting")

LogicOpen       == SetStep("sender", "s_open", fsm_OPEN, "s_openSig")
LogicOpenSignal == SignalStep("sender", "s_openSig", "mainCond", "s_send")
LogicJoin       == SetStep("sender", "s_join", fsm_JOIN_ATEMPT, "s_send")
LogicBye        == SetStep("sender", "s_byeSet", fsm_END_W84_CONF, "s_send")
LogicErr        == SetStep("sender", "s_errSet", fsm_ERR_W84_CONF, "s_send")

(* After its wait for a reply logicFSM starts over, at s_relogic.           *)
logicFSM ==
  \/ \E from \in {"s_lock2", "s_relogic"} :
       LogicSwitch(from) \/ LogicNoMessage(from)
  \/ LogicAuthGet \/ LogicAuthSet \/ LogicBlockedWait \/ LogicReplyWait
  \/ LogicOpen \/ LogicOpenSignal \/ LogicJoin \/ LogicBye \/ LogicErr

-----------------------------------------------------------------------------
(* Transmission                                                             *)

(* queueSetMessageID: every transmission is labelled with the counter's     *)
(* present value, a confirmation keeps the id it confirms.                  *)
queueSetMessageID(m) ==
  IF m.msgFlags \in {"CONFIRM", "NOK_REPLY"} THEN m
  ELSE [m EXCEPT !.id = msgCounter]

(* Faulty variant of queueMessageSended: a transmission counts twice.       *)
queueMessageSendedTwice(m) ==
  [m EXCEPT !.sendCount = (m.sendCount + 2) % CounterSize]

(* queueMessageSended: sendCount is a uint8_t.                              *)
queueMessageSended(m) ==
  [m EXCEPT !.sendCount = (m.sendCount + 1) % CounterSize]

NotResent(m) == m.msgFlags \in {"CONFIRM", "NOK_REPLY"}

(* The queue after its first message was transmitted.                       *)
AfterSend(q) ==
  LET m == queueSetMessageID(Head(q)) IN
  IF NotResent(m) THEN queuePopMessage(q)
  ELSE [q EXCEPT ![1] = queueMessageSended(m)]

(* The first message is sent, whichever it is by now: at s_relock, after a  *)
(* blocked message's wait, the state is not looked at again.  `wire` keeps  *)
(* what the server may confirm, `requests` what it may reply to.  A signal  *)
(* that arrives before the timed wait begins is lost, but the wait ends by  *)
(* itself: entering it is not a step of its own.                            *)
SendMessage(from) ==
  /\ Acquirable(from) /\ queue # <<>>
  /\ Goto("sender", from, "s_twaiting")
  /\ wire' = IF Top.type = "CONF" THEN wire ELSE wire \cup {msgCounter}
  /\ requests' = IF Top.type \in {"AUTH", "JOIN"}
                 THEN requests \cup {msgCounter} ELSE requests
  /\ queue' = AfterSend(queue)
  /\ lock' = "none"
  /\ UNCHANGED <<fsm, msgCounter, named, mainVars, resetLoop, msgToBeSend,
                 recvVars>>

SendNoMessage(from) ==
  Acquirable(from) /\ queue = <<>> /\ ExitStep("sender", from, "segv")

(* sendto fails: errHandling(err_COMMUNICATION) ends the process at once.   *)
SendFails(from) ==
  Acquirable(from) /\ queue # <<>> /\ ExitStep("sender", from, "comm")

(* Faulty variant of SendTimeout: the wait for a confirmation has no limit. *)
NoSendTimeout == FALSE

(* udpTimeout expires.                                                      *)
SendTimeout == LocalStep("sender", "s_twaiting", "s_while")

SendLabels == {"s_send", "s_relock"}

transmission ==
  \/ \E from \in SendLabels : SendMessage(from) \/ SendNoMessage(from)
  \/ SendTimeout

SenderStep ==
  SenderLoop \/ filterResentMessages \/ emptyQueue \/ logicFSM \/ transmission

SocketError == \E from \in SendLabels : SendFails(from)
==============================================================================
