------------------------------ MODULE TcpClaims ------------------------------
(***************************************************************************)
(* Statements of the README and of comments in the source that the TCP     *)
(* variant does not keep, each the property of one configuration.          *)
(***************************************************************************)
EXTENDS TcpClient

(* Each thread that can go on eventually does (see UdpLiveness).            *)
FairSpec ==
  /\ Spec
  /\ WF_allVars(Local(MainStep)) /\ WF_allVars(Local(TcpReceiverLocal))
  /\ WF_allVars(Local(TcpSenderLocal) \/ Remote(TcpTransmission))
  /\ WF_allVars(Local(sigintHandler))
  /\ \A t \in {"sender", "receiver"} : WF_allVars(Local(errHandling(t)))

(* README: the program "will always end in the `End` state where it will    *)
(* exit".  The handling of ERR wakes the sender before it sets the state: a *)
(* sender that transmits and drops the BYE in the old state waits for ever  *)
(* on an empty queue.                                                       *)
ErrEnds ==
  (pc["receiver"] = "r_errSet" /\ fsm = fsm_OPEN)
    ~> (fsm = fsm_END \/ exited # "no")

(* protocolReceiver.c: "set state to start because auth wasn't sucessfull". *)
(* A JOIN refused after a successful login sets it as well when SIGINT or   *)
(* main's EMPTY_Q_BYE changes the state between the two reads.              *)
StartMeansRefused ==
  [][fsm # fsm_START /\ fsm' = fsm_START => ~Authenticated]_allVars

(* README: the mutex of the queue "allows only one caller to work with the  *)
(* queue at a time".  The sender releases it without having taken it.       *)
OneCallerInQueue == ~Overlap

(* README: "The receiver module's job is to receive all messages from the   *)
(* server".  Of the messages of one read only the first is looked at.       *)
EveryMessageRead == [][Len(stream') >= Len(stream) - 1]_allVars
==============================================================================
