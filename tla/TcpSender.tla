------------------------------ MODULE TcpSender ------------------------------
(***************************************************************************)
(* The sender thread, TCP variant (protocolSender.c).                      *)
(*                                                                         *)
(* The variants share the loop.  In TCP nothing is filtered and nothing is *)
(* locked before the test for an empty queue; from there on the code is    *)
(* that of UdpSender, whose steps are used as they are, unlocking included.*)
(* An unlock by a thread that does not hold the mutex frees it all the     *)
(* same: the steps below therefore leave `lock` alone unless they lock or  *)
(* unlock.  A message is transmitted once and removed at once.             *)
(***************************************************************************)
EXTENDS UdpSender

VARIABLES
  sent,       \* the types of the messages transmitted, in order
  stream,     \* what the server has written and the client not yet read
  told,       \* number of messages the server has written
  answered    \* number of REPLYs among them

connection == <<sent, stream, told, answered>>

TcpLoop == LocalStep("sender", "s_while",
                     IF fsm # fsm_END THEN "s_isEmpty" ELSE "s_end")

(* queueIsEmpty, without the mutex.                                         *)
TcpIsEmpty == LocalStep("sender", "s_isEmpty",
                        IF queue = <<>> THEN "s_empty1" ELSE "s_unlock")

(* "make room for someone who is waiting": whoever holds the mutex loses it *)
TcpMakeRoom == HolderStep("sender", "s_unlock", queue, "none", "s_lock2")

-----------------------------------------------------------------------------
(* logicFSM.  An AUTH is never blocked and never confirmed: it is sent.     *)
TcpAuthGet == LocalStep("sender", "s_authGet",
                        IF fsm <= fsm_AUTH_W82 THEN "s_authSet" ELSE "s_send")
TcpAuthSet == SetStep("sender", "s_authSet", fsm_AUTH_SENDED, "s_send")

(* In the error state the BYE ends the program; an ERR changes nothing.     *)
TcpBye       == SetStep("sender", "s_byeSet", fsm_END, "s_byeSig")
TcpByeSignal == SignalStep("sender", "s_byeSig", "mainCond", "s_send")
TcpErr       == LocalStep("sender", "s_errSet", "s_send")

TcpLogicFSM ==
  \/ LogicSwitch("s_lock2") \/ LogicNoMessage("s_lock2")
  \/ TcpAuthGet \/ TcpAuthSet \/ LogicBlockedWait \/ LogicJoin
  \/ TcpBye \/ TcpByeSignal \/ TcpErr

-----------------------------------------------------------------------------
(* The first message is fetched, counted and transmitted ...                *)
TcpSend(from) ==
  /\ Acquirable(from) /\ queue # <<>>
  /\ Goto("sender", from, "s_pop")
  /\ msgToBeSend' = Top
  /\ msgCounter' = (msgCounter + 1) % IdSize
  /\ sent' = Append(sent, Top.type)
  /\ lock' = IF from = "s_relock" THEN "sender" ELSE lock
  /\ UNCHANGED <<fsm, queue, named, mainVars, resetLoop, wire, requests,
                 recvVars, stream, told, answered>>

(* Faulty variant of TcpPop: an AUTH is kept, as in the UDP variant.        *)
TcpPopKeepsAuth ==
  /\ exited = "no" /\ pc["sender"] = "s_pop" /\ queue # <<>>
  /\ IF msgToBeSend.type = "MSG"
     THEN Signalled("sender", "mainCond", "s_twaiting")
     ELSE pc' = [pc EXCEPT !["sender"] = "s_twaiting"]
  /\ queue' = IF msgToBeSend.type = "AUTH" THEN queue ELSE queuePopMessage(queue)
  /\ msgToBeSend' = NoMessage
  /\ lock' = "none"
  /\ UNCHANGED <<exited, fsm, msgCounter, named, mainVars, resetLoop, wire,
                 requests, recvVars>>

(* ... then main is signalled after a MSG, the first message is removed,    *)
(* the mutex released and a timed wait begun.                               *)
TcpPop ==
  /\ exited = "no" /\ pc["sender"] = "s_pop" /\ queue # <<>>
  /\ IF msgToBeSend.type = "MSG"
     THEN Signalled("sender", "mainCond", "s_twaiting")
     ELSE pc' = [pc EXCEPT !["sender"] = "s_twaiting"]
  /\ queue' = queuePopMessage(queue)
  /\ msgToBeSend' = NoMessage
  /\ lock' = "none"
  /\ UNCHANGED <<exited, fsm, msgCounter, named, mainVars, resetLoop, wire,
                 requests, recvVars>>

(* The flags of the first message are read, and the queue was emptied since *)
TcpPopNoMessage == queue = <<>> /\ ExitStep("sender", "s_pop", "segv")

TcpTransmission == \E from \in SendLabels : TcpSend(from)

(* The steps that leave the connection alone.                               *)
TcpSenderLocal ==
  \/ TcpLoop \/ TcpIsEmpty \/ emptyQueue \/ TcpMakeRoom \/ TcpLogicFSM
  \/ \E from \in SendLabels : SendNoMessage(from)
  \/ TcpPop \/ TcpPopNoMessage \/ SendTimeout
==============================================================================
