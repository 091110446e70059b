------------------------------- MODULE MsgQueue -------------------------------
(***************************************************************************)
(* MessageQueue as it is in memory (msgQueue.c): a singly linked list of   *)
(* messages taken from malloc, with pointers to its first and last cell    *)
(* and a separate length.  Each operation is one step, as its callers hold *)
(* the queue's mutex; the loops that walk the list are one step per cell.  *)
(* A message is its address and what it holds: its type, its id (in the    *)
(* bytes of its buffer or, if it has none, in the cell) and its flags,     *)
(* which here include the counter of its transmissions.                    *)
(*                                                                         *)
(* `order` is a history variable: the cells in the order in which they are *)
(* to be sent.  No operation reads it.                                     *)
(***************************************************************************)
EXTENDS Sequences, FiniteSets, MessageId

CONSTANTS
  Addr,       \* bound: the cells malloc has to give
  NULL,
  Types,      \* types of messages
  Ids,        \* ids of messages
  Flags,      \* flags a message may have
  KeepId      \* those of confirmations, whose id is not ours to set

ASSUME IdsAssumption  == Ids \subseteq MsgIds
ASSUME AddrAssumption == NULL \notin Addr
ASSUME AddrFinite     == IsFiniteSet(Addr)

VARIABLES
  first, last, len,     \* MessageQueue
  behindMe, content,    \* Message, for every cell, stale once it is freed
  allocated, buffers,   \* the cells, and the cells' buffers, not yet freed
  op, cursor, wanted,   \* the loop in progress and its locals
  answer,               \* the last query since the last change, and its answer
  order

list    == <<first, last, len, behindMe, content, allocated, buffers, order>>
locals  == <<op, cursor, wanted>>
vars    == <<list, locals, answer>>

Pointers == Addr \cup {NULL}
Contents == [type : Types, id : Ids, flags : Flags]

(* queueInit.  What malloc will hand out holds whatever was there before.   *)
Init ==
  /\ first = NULL /\ last = NULL /\ len = 0
  /\ behindMe \in [Addr -> Pointers] /\ content \in [Addr -> Contents]
  /\ allocated = {} /\ buffers = {}
  /\ op = "none" /\ cursor = NULL /\ wanted = NULL
  /\ answer = <<"none">> /\ order = <<>>

(* createMessage: a cell and, if b, a buffer of its own for the contents.   *)
createMessage(a, c, b) ==
  /\ op = "none" /\ a \notin allocated
  /\ allocated' = allocated \cup {a}
  /\ buffers' = IF b THEN buffers \cup {a} ELSE buffers
  /\ content' = [content EXCEPT ![a] = c]
  /\ len' = len + 1
  /\ answer' = <<"none">> /\ UNCHANGED locals

queueAddMessage(a, c) ==
  /\ createMessage(a, c, TRUE)
  /\ first' = IF first = NULL THEN a ELSE first
  /\ last' = a
  /\ behindMe' = [b \in Addr |-> IF b = a THEN NULL
                                 ELSE IF b = last THEN a ELSE behindMe[b]]
  /\ order' = Append(order, a)

PushFirst(a) ==
  /\ first' = a
  /\ last' = IF last = NULL THEN a ELSE last
  /\ behindMe' = [behindMe EXCEPT ![a] = first]
  /\ order' = <<a>> \o order

queueAddMessagePriority(a, c) == createMessage(a, c, TRUE) /\ PushFirst(a)
queueAddMessageOnlyID(a, c)   == createMessage(a, c, FALSE) /\ PushFirst(a)

(* Faulty variant of PopFirst: `last` keeps pointing at a freed cell.       *)
PopKeepsLast ==
  /\ len > 0
  /\ first' = behindMe[first] /\ last' = last /\ len' = len - 1
  /\ allocated' = allocated \ {first} /\ buffers' = buffers \ {first}
  /\ order' = Tail(order)
  /\ answer' = <<"none">> /\ UNCHANGED <<behindMe, content, locals>>

(* The body of queuePopMessage for a queue that is not empty.               *)
PopFirst ==
  /\ len > 0
  /\ first' = behindMe[first]
  /\ last' = IF first = last THEN NULL ELSE last
  /\ len' = len - 1
  /\ allocated' = allocated \ {first} /\ buffers' = buffers \ {first}
  /\ order' = Tail(order)
  /\ answer' = <<"none">> /\ UNCHANGED <<behindMe, content, locals>>

queuePopMessage == op = "none" /\ PopFirst

(* queuePopAllMessages, which queueDestroy calls before it frees the queue. *)
PopAllCall(o) ==
  /\ op = "none" /\ op' = o
  /\ UNCHANGED <<list, cursor, wanted, answer>>

PopAllLoop == op \in {"popAll", "destroy"} /\ PopFirst

(* Faulty variant of PopAllEnd: the loop stops one message early.           *)
PopAllEndEarly ==
  /\ op \in {"popAll", "destroy"} /\ len <= 1
  /\ first' = NULL /\ last' = NULL
  /\ op' = IF op = "destroy" THEN "destroyed" ELSE "none"
  /\ UNCHANGED <<len, behindMe, content, allocated, buffers, order, cursor,
                 wanted, answer>>

PopAllEnd ==
  /\ op \in {"popAll", "destroy"} /\ len = 0
  /\ first' = NULL /\ last' = NULL
  /\ op' = IF op = "destroy" THEN "destroyed" ELSE "none"
  /\ UNCHANGED <<len, behindMe, content, allocated, buffers, order, cursor,
                 wanted, answer>>

(* A change to what the first message holds.                                *)
SetFirst(c) ==
  /\ op = "none" /\ first # NULL
  /\ content' = [content EXCEPT ![first] = c]
  /\ answer' = <<"none">>
  /\ UNCHANGED <<first, last, len, behindMe, allocated, buffers, order, locals>>

(* queueSetMessageFlags, and queueMessageSended, which counts.              *)
queueSetMessageFlags(f) == SetFirst([content[first] EXCEPT !.flags = f])

(* The id goes into the buffer of the message, if it is no confirmation.    *)
queueSetMessageID(n) ==
  /\ first \in buffers /\ content[first].flags \notin KeepId
  /\ SetFirst([content[first] EXCEPT !.id = n])

-----------------------------------------------------------------------------
(* Queries                                                                  *)
Answer(tag, value) ==
  /\ op = "none"
  /\ answer' = <<tag, value>>
  /\ UNCHANGED <<list, locals>>

queueGetMessage ==
  Answer("first", IF len > 0 /\ first # NULL THEN content[first] ELSE NULL)
queueLength  == Answer("length", len)
queueIsEmpty == Answer("empty", len = 0)

(* queueContainsMessageId: from cell to cell until a match or NULL.  It is  *)
(* only asked of queues whose messages have no buffers: the id of the cell  *)
(* is not set in the others.                                                *)
ContainsCall(c) ==
  /\ op = "none" /\ op' = "contains" /\ buffers = {}
  /\ cursor' = first /\ wanted' = c
  /\ UNCHANGED <<list, answer>>

(* Faulty variant of Matches: the types are not compared.                   *)
MatchesAnyType(incoming, c) == SameMessageId(incoming.id, c.id)

(* The bytes of the incoming id are signed, those kept in a cell are not.   *)
Matches(incoming, c) ==
  SameMessageId(incoming.id, c.id) /\ incoming.type = c.type

Match == cursor # NULL /\ Matches(wanted, content[cursor])

ContainsNext ==
  /\ op = "contains" /\ cursor # NULL /\ ~Match
  /\ cursor' = behindMe[cursor]
  /\ UNCHANGED <<list, op, wanted, answer>>

ContainsReturn ==
  /\ op = "contains" /\ (cursor = NULL \/ Match)
  /\ answer' = <<"member", wanted, cursor # NULL>>
  /\ op' = "none" /\ cursor' = NULL /\ wanted' = NULL
  /\ UNCHANGED list

Next ==
  \/ \E a \in Addr, c \in Contents :
       \/ queueAddMessage(a, c) \/ queueAddMessagePriority(a, c)
       \/ queueAddMessageOnlyID(a, c)
  \/ \E c \in Contents : ContainsCall(c)
  \/ \E f \in Flags : queueSetMessageFlags(f)
  \/ \E n \in Ids : queueSetMessageID(n)
  \/ queuePopMessage
  \/ \E o \in {"popAll", "destroy"} : PopAllCall(o)
  \/ PopAllLoop \/ PopAllEnd
  \/ queueGetMessage \/ queueLength \/ queueIsEmpty
  \/ ContainsNext \/ ContainsReturn

Spec == Init /\ [][Next]_vars

-----------------------------------------------------------------------------
TypeOK ==
  /\ first \in Pointers /\ last \in Pointers /\ len \in Nat
  /\ behindMe \in [Addr -> Pointers] /\ content \in [Addr -> Contents]
  /\ allocated \subseteq Addr /\ buffers \subseteq Addr
  /\ op \in {"none", "popAll", "destroy", "destroyed", "contains"}
  /\ cursor \in Pointers
  /\ wanted \in IF op = "contains" THEN Contents ELSE {NULL}
  /\ order \in Seq(Addr)

(* first, last, len and the chain of behindMe pointers agree with one       *)
(* another after every operation, whichever order the operations come in,   *)
(* down to the empty queue and back: the chain runs through distinct cells, *)
(* ends in NULL, and no freed cell is on it.                                *)
ListIntact ==
  /\ len = Len(order)
  /\ first = IF order = <<>> THEN NULL ELSE order[1]
  /\ last = IF order = <<>> THEN NULL ELSE order[Len(order)]
  /\ \A i \in 1 .. Len(order) :
       /\ order[i] \in allocated
       /\ behindMe[order[i]] = IF i = Len(order) THEN NULL ELSE order[i + 1]
       /\ \A j \in 1 .. Len(order) : order[i] = order[j] => i = j

(* A search is at a cell of the list, or past its end, and the cells before *)
(* it do not match what is looked for.                                      *)
SearchOK ==
  op = "contains" =>
    \E k \in 1 .. Len(order) + 1 :
      /\ cursor = IF k = Len(order) + 1 THEN NULL ELSE order[k]
      /\ \A j \in 1 .. k - 1 : ~Matches(wanted, content[order[j]])

(* The cells on the way from `first`, found by following behindMe only.     *)
Cell[i \in 1 .. Cardinality(Addr) + 1] ==
  IF i = 1 THEN first
  ELSE IF Cell[i - 1] = NULL THEN NULL ELSE behindMe[Cell[i - 1]]
Reached == {Cell[i] : i \in DOMAIN Cell} \ {NULL}

(* Every cell that was taken from malloc and not freed can be reached from  *)
(* `first` in at most as many steps as there are cells, and nothing else    *)
(* can: no operation leaks a message or its buffer, or leaves a pointer to  *)
(* freed memory on the way, and the walk of queueContainsMessageId ends.    *)
NothingLeaked ==
  /\ Reached = allocated /\ buffers \subseteq allocated
  /\ Cell[Cardinality(Addr) + 1] = NULL

(* The list is a MessageSequence: what the pointers hold, in the order of   *)
(* the chain, is the sequence the callers have in mind.  The loops of       *)
(* queuePopAllMessages and queueContainsMessageId are seen as single takes  *)
(* and as one answer.  The answer of queueContainsMessageId is the truth    *)
(* for an id without the sign bit; an id that has it is never found, and    *)
(* none is taken for another id.                                            *)
Items == [i \in 1 .. Len(order) |-> content[order[i]]]
SameMessage(c, d) == c.id = d.id /\ c.type = d.type
Sequence == INSTANCE MessageSequence WITH
              items <- Items, Same <- SameMessage,
              Findable <- {c \in Contents : PlainId(c.id)}
ImplementsSequence == Sequence!Spec
===============================================================================
