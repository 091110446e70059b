----------------------------- MODULE StopAndWait -----------------------------
(***************************************************************************)
(* What the UDP client promises the server about its own messages: one at  *)
(* a time, each repeated a limited number of times (README, "Sender").     *)
(***************************************************************************)
EXTENDS Naturals

CONSTANTS
  Types,      \* the types of message
  MaxTries    \* how often one message may be transmitted

VARIABLE flight   \* the message in flight and its transmissions so far

Nothing == [type |-> "none", tries |-> 0]

Init == flight = Nothing

Transmit ==
  /\ flight = Nothing
  /\ \E t \in Types : flight' = [type |-> t, tries |-> 1]

Retransmit ==
  /\ flight # Nothing /\ flight.tries < MaxTries
  /\ flight' = [flight EXCEPT !.tries = @ + 1]

(* Confirmed, rejected, given up, or dropped with everything else.          *)
Settle == flight # Nothing /\ flight' = Nothing

Next == Transmit \/ Retransmit \/ Settle

Spec == Init /\ [][Next]_flight
==============================================================================
