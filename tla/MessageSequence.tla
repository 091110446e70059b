--------------------------- MODULE MessageSequence ---------------------------
(***************************************************************************)
(* What the threads of the client rely on when they use a MessageQueue: a  *)
(* sequence of messages that grows at both ends and shrinks at its front,  *)
(* and questions about it whose answers are true of the sequence as it is. *)
(* Whether a message is among those received can be asked for some         *)
(* messages only: of the others it is always denied.                       *)
(***************************************************************************)
EXTENDS Naturals, Sequences

CONSTANTS Contents,   \* what a message may hold
          Findable,   \* those of them a search may find
          Same(_, _), \* a search for the one finds the other
          NULL        \* the answer when there is no message

VARIABLES items,      \* the messages, the next one to be sent first
          answer      \* the last question since the last change, and its answer

Init == items = <<>> /\ answer = <<"none">>

(* A change; what was answered before it is forgotten.                      *)
Change(s) == items' = s /\ answer' = <<"none">>

PutLast(c)  == Change(Append(items, c))
PutFirst(c) == Change(<<c>> \o items)
TakeFirst   == items # <<>> /\ Change(Tail(items))
SetFirst(c) == items # <<>> /\ Change([items EXCEPT ![1] = c])

AskFirst   == /\ answer' = <<"first", IF items = <<>> THEN NULL ELSE items[1]>>
              /\ UNCHANGED items
AskLength  == answer' = <<"length", Len(items)>> /\ UNCHANGED items
AskEmpty   == answer' = <<"empty", items = <<>> >> /\ UNCHANGED items
AskMember(c) ==
  /\ answer' = <<"member", c, /\ c \in Findable
                              /\ \E i \in 1 .. Len(items) : Same(c, items[i])>>
  /\ UNCHANGED items

Next == \/ \E c \in Contents : PutLast(c) \/ PutFirst(c) \/ SetFirst(c) \/ AskMember(c)
        \/ TakeFirst \/ AskFirst \/ AskLength \/ AskEmpty

Spec == Init /\ [][Next]_<<items, answer>>
==============================================================================
