--------------------------- MODULE DocumentedClaims ---------------------------
(***************************************************************************)
(* Statements that the README, the comments and the assertions of the      *)
(* client make about it, and that its UDP variant does not keep.  Each is  *)
(* the property of one run whose counterexample is an execution of the     *)
(* code as it is.                                                          *)
(***************************************************************************)
EXTENDS UdpLiveness

(* README: "From the `Open` state based on the other modules or user input  *)
(* the program will always end in the `End` state where it will exit".  A   *)
(* negative REPLY that finds the queue empty makes handleReplyUDP read the  *)
(* flags through a NULL pointer.                                            *)
NoCrash == exited # "segv"

(* logicFSM asserts that in the error state only BYE, ERR and confirmations *)
(* are first in the queue; errHandling is its reaction.                     *)
OnlyByeInErrorState == pc["sender"] # "e_set"

(* "bye was sended, end program" (protocolSender): the state asks for END   *)
(* on an empty queue before the BYE has been queued.                        *)
ByeQueuedBeforeEnd ==
  pc["sender"] = "s_emptyEnd" => pc["main"] \notin {"m_eofLock", "m_eofAdd"}

(* README: the program "will always end in the `End` state where it will    *)
(* exit".  A thread that read the state earlier overwrites END.             *)
EndIsFinal == [][fsm = fsm_END => fsm' = fsm_END]_vars

(* "if it is repetitive message send confirm and do nothing": the message   *)
(* was acted on when it came first.  A REPLY that overtakes the CONF of its *)
(* request is recorded as received and thrown away.                         *)
RepeatedWasHandled == pc["receiver"] = "r_repeated" => rx \in acted

(* "auth was confirmed": the meaning of msg_flag_CONFIRMED.                 *)
ConfirmedFlagOnAuth ==
  \A i \in DOMAIN queue : queue[i].msgFlags = "CONFIRMED" => queue[i].type = "AUTH"

(* "wait on mainMutex, sender will singal that it sended last BYE and       *)
(* exited" (sigintHandler): when the handler goes on, the sender is done.   *)
SenderEndedBeforeExit == exited = "sigint" => pc["sender"] = "s_end"

(* "increase counter of messages no matter the response/reply"              *)
(* (handleReplyUDP): a REPLY never sets the counter back.  It is set from   *)
(* the server's id, which counts the server's messages, not ours.           *)
CounterIncreases ==
  [][pc["receiver"] = "r_counter" => msgCounter' >= msgCounter]_vars

(* filterResentMessages "filters out messages ... that were sent more than  *)
(* specified times ... or that are already confirmed": a confirmed message  *)
(* is not reported as timed out.                                            *)
ConfirmedNotTimedOut ==
  pc["sender"] = "s_timeout1" /\ queue # <<>> => ~Head(queue).confirmed

(* README: the mutex of the queue "allows only one caller to work with the  *)
(* queue at a time".  An unknown message is confirmed without it.           *)
OneCallerAtATime == OnlyHolderChangesQueue

(* README: the queue of received messages is "for controlling duplicate     *)
(* messages in the UDP variant".  A byte above 127 never compares equal.    *)
DuplicatesControlled == pc["receiver"] = "r_print" => rx \notin acted

(* "signal sender that new message has been added": the confirmation of a   *)
(* negative reply is transmitted.  No signal is sent there.                 *)
NokConfirmation == \E i \in DOMAIN queue : queue[i].msgFlags = "NOK_REPLY"
NokReplyConfirmed == NokConfirmation ~> (~NokConfirmation \/ Ended)

(* README: "The sender module's job is to send all messages from the        *)
(* MessageQueue to the server": a queued MSG is transmitted or dropped.     *)
MsgWaiting == \E i \in DOMAIN queue : queue[i].type = "MSG" /\ queue[i].sendCount = 0
QueuedMsgSent == MsgWaiting ~> (~MsgWaiting \/ Ended)

(* README: "If the *error* or *bye* message timeout sender will continue as *)
(* if they were sent and will try to correctly end the program".            *)
ByeEnds == (fsm = fsm_EMPTY_Q_BYE) ~> Ended

(* README: "the program will always end in the `End` state where it will    *)
(* exit": the END of a BYE that timed out leaves the mutex locked behind.   *)
EndStopsReceiver == (fsm = fsm_END) ~> (pc["receiver"] = "r_end" \/ Ended)

(* README: "if the message is retransmitted too many times *error* message  *)
(* will be sent to the server and communication will be ended", for every   *)
(* value of -r.                                                             *)
TooManyEnds == MsgInFlight ~> (fsm >= fsm_EMPTY_Q_BYE \/ Ended)
===============================================================================
