----------------------------- MODULE UdpLiveness -----------------------------
(***************************************************************************)
(* What the UDP client eventually does, under the fairness its threads     *)
(* have.                                                                   *)
(*                                                                         *)
(* Fairness.  Each thread is scheduled by the operating system, so a       *)
(* thread that can go on eventually does.  Its steps include the ends of   *)
(* the sender's timed wait and of recvfrom, which time guarantees.         *)
(* Nothing is assumed of the user, of the network and the server, of       *)
(* sendto failing, of SIGINT or of spurious wake-ups; a mutex that is      *)
(* merely contended need not be granted (weak fairness only).              *)
(***************************************************************************)
EXTENDS UdpClient

ThreadFairness ==
  /\ WF_vars(MainStep) /\ WF_vars(SenderStep) /\ WF_vars(ReceiverStep)
  /\ WF_vars(sigintHandler)
  /\ \A t \in {"sender", "receiver"} : WF_vars(errHandling(t))

FairSpec     == Spec /\ ThreadFairness
FairOpenSpec == OpenSpec /\ ThreadFairness

Ended == exited # "no"

(* A message of the user was transmitted and is neither confirmed and       *)
(* dropped nor given up.                                                    *)
MsgInFlight ==
  \E i \in DOMAIN queue : queue[i].type = "MSG" /\ queue[i].sendCount > 0

(* From some time on the server has nothing more to say.                    *)
ServerFallsSilent == <>[](pc["receiver"] \in {"r_while", "r_recv", "r_end"})

(* The retransmission loop of protocolSender settles every message it has   *)
(* begun to transmit: once the server is quiet, each is confirmed, timed    *)
(* out or dropped with the queue, or the session is over, whatever          *)
(* confirmations, signals and messages of the server came in between.       *)
MsgSettled ==
  ServerFallsSilent => (MsgInFlight ~> (~MsgInFlight \/ fsm = fsm_END \/ Ended))

(* The server never answers.                                                *)
ServerSilent == [](pc["receiver"] \in {"r_while", "r_recv", "r_end"})

(* With a server that never answers, a transmitted message leads through    *)
(* the time-outs of the message, of the ERR and of the BYE to END: the      *)
(* chain of filterResentMessages does not stop half way.                    *)
SilentEnds == ServerSilent => (MsgInFlight ~> (fsm = fsm_END \/ Ended))
==============================================================================
