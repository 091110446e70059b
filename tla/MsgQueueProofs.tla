---------------------------- MODULE MsgQueueProofs ----------------------------
(***************************************************************************)
(* For any number of cells and any contents, the linked list of msgQueue.c *)
(* stays intact, leaks nothing and implements the abstract                 *)
(* MessageSequence.                                                        *)
(***************************************************************************)
EXTENDS MsgQueue, FiniteSetTheorems, FunctionTheorems, SequenceTheorems,
        TLAPS

IndInv == TypeOK /\ ListIntact /\ SearchOK

(* The facts about the chain that the operations need, without IFs.         *)
LEMMA ChainFacts ==
  ASSUME IndInv
  PROVE  /\ Len(order) \in Nat /\ DOMAIN order = 1 .. Len(order)
         /\ \A i \in 1 .. Len(order) : order[i] \in Addr /\ order[i] # NULL
         /\ first = NULL <=> len = 0
         /\ last = NULL <=> len = 0
         /\ order = <<>> <=> len = 0
         /\ len > 0 => first = order[1] /\ last = order[Len(order)]
BY AddrAssumption, EmptySeq, LenProperties, ElementOfSeq DEF IndInv, TypeOK, ListIntact, Pointers

(* createMessage and queueAddMessage: the new cell becomes the last one.    *)
LEMMA AddKeepsList ==
  ASSUME IndInv, NEW a \in Addr, NEW c \in Contents, queueAddMessage(a, c)
  PROVE  IndInv'
<1>f. Len(order) \in Nat /\ len = Len(order)
  BY ChainFacts DEF IndInv, ListIntact
<1>1. TypeOK'
  BY ChainFacts DEF queueAddMessage, createMessage, IndInv, TypeOK, Pointers, locals
<1>2. /\ Len(order') = Len(order) + 1
      /\ \A i \in 1 .. Len(order) : order'[i] = order[i]
      /\ order'[Len(order) + 1] = a
  BY DEF queueAddMessage, IndInv, TypeOK
<1>3. \A i \in 1 .. Len(order) : order[i] # a
  BY DEF queueAddMessage, createMessage, IndInv, ListIntact
<1>4. ListIntact'
  <2>1. len' = Len(order')
    BY <1>f, <1>2 DEF queueAddMessage, createMessage
  <2>2. order' # <<>>
    BY <1>f, <1>2, EmptySeq
  <2>3. first' = order'[1] /\ last' = order'[Len(order')]
    <3>1. CASE Len(order) = 0
      BY <3>1, <1>f, <1>2, ChainFacts DEF queueAddMessage
    <3>2. CASE Len(order) > 0
      BY <3>2, <1>f, <1>2, ChainFacts DEF queueAddMessage
    <3> QED BY <1>f, <3>1, <3>2
  <2>4. ASSUME NEW i \in 1 .. Len(order')
        PROVE  order'[i] \in allocated'
    BY <1>f, <1>2 DEF queueAddMessage, createMessage, IndInv, ListIntact
  <2>5. ASSUME NEW i \in 1 .. Len(order')
        PROVE  behindMe'[order'[i]] = IF i = Len(order') THEN NULL ELSE order'[i + 1]
    <3>1. CASE i = Len(order) + 1
      BY <3>1, <1>f, <1>2 DEF queueAddMessage
    <3>2. CASE i < Len(order)
      <4>1. i \in 1 .. Len(order) /\ Len(order) \in 1 .. Len(order)
            /\ i + 1 \in 1 .. Len(order) /\ i # Len(order) /\ i # Len(order')
        BY <3>2, <1>f, <1>2
      <4>2. order[i] # a /\ order[i] # last /\ order[i] \in Addr
        BY <4>1, <1>3, <1>f, ChainFacts DEF IndInv, ListIntact
      <4>3. behindMe'[order[i]] = behindMe[order[i]]
        BY <4>2 DEF queueAddMessage
      <4>4. behindMe[order[i]] = order[i + 1]
        BY <4>1 DEF IndInv, ListIntact
      <4> QED BY <4>1, <4>3, <4>4, <1>2
    <3>3. CASE i = Len(order)
      <4>1. i \in 1 .. Len(order) /\ i # Len(order') /\ order'[i] = order[i]
            /\ order'[i + 1] = a
        BY <3>3, <1>f, <1>2
      <4>2. order[i] = last /\ order[i] # a /\ order[i] \in Addr
        BY <3>3, <4>1, <1>3, <1>f, ChainFacts
      <4>3. behindMe'[order[i]] = a
        BY <4>2 DEF queueAddMessage
      <4> QED BY <4>1, <4>3
    <3> QED BY <3>1, <3>2, <3>3, <1>f, <1>2
  <2>6. ASSUME NEW i \in 1 .. Len(order'), NEW j \in 1 .. Len(order'),
               order'[i] = order'[j]
        PROVE  i = j
    BY <2>6, <1>f, <1>2, <1>3 DEF IndInv, ListIntact
  <2> QED BY <2>1, <2>2, <2>3, <2>4, <2>5, <2>6 DEF ListIntact
<1>5. SearchOK'
  BY DEF SearchOK, locals, queueAddMessage, createMessage
<1> QED BY <1>1, <1>4, <1>5 DEF IndInv

(* A message pushed in front becomes the first one.                         *)
LEMMA PushKeepsList ==
  ASSUME IndInv, NEW a \in Addr, NEW c \in Contents, NEW b \in BOOLEAN,
         createMessage(a, c, b), PushFirst(a)
  PROVE  IndInv'
<1>f. Len(order) \in Nat /\ len = Len(order)
  BY ChainFacts DEF IndInv, ListIntact
<1>0. <<a>> \in Seq(Addr) /\ Len(<<a>>) = 1 /\ <<a>>[1] = a
  OBVIOUS
<1>1. TypeOK'
  BY <1>0, <1>f, ConcatProperties
  DEF PushFirst, createMessage, IndInv, TypeOK, Pointers, locals
<1>2. /\ Len(order') = Len(order) + 1
      /\ order'[1] = a
      /\ \A i \in 2 .. Len(order) + 1 : order'[i] = order[i - 1]
  BY <1>0, <1>f, ConcatProperties DEF PushFirst, IndInv, TypeOK
<1>3. \A i \in 1 .. Len(order) : order[i] # a
  BY DEF createMessage, IndInv, ListIntact
<1>s. ASSUME NEW i \in 1 .. Len(order'), i > 1
      PROVE  i - 1 \in 1 .. Len(order) /\ order'[i] = order[i - 1]
  BY <1>f, <1>2, <1>s
<1>4. ListIntact'
  <2>1. len' = Len(order')
    BY <1>f, <1>2 DEF createMessage
  <2>2. order' # <<>>
    BY <1>f, <1>2, EmptySeq
  <2>3. first' = order'[1] /\ last' = order'[Len(order')]
    <3>1. CASE Len(order) = 0
      BY <3>1, <1>f, <1>2, ChainFacts DEF PushFirst
    <3>2. CASE Len(order) > 0
      BY <3>2, <1>f, <1>2, ChainFacts DEF PushFirst
    <3> QED BY <1>f, <3>1, <3>2
  <2>4. ASSUME NEW i \in 1 .. Len(order')
        PROVE  order'[i] \in allocated'
    <3>1. CASE i = 1
      BY <3>1, <1>2 DEF createMessage
    <3>2. CASE i > 1
      BY <3>2, <1>s DEF createMessage, IndInv, ListIntact
    <3> QED BY <3>1, <3>2, <1>f, <1>2
  <2>5. ASSUME NEW i \in 1 .. Len(order')
        PROVE  behindMe'[order'[i]] = IF i = Len(order') THEN NULL ELSE order'[i + 1]
    <3>1. CASE i = 1
      <4>1. behindMe'[order'[i]] = first
        BY <3>1, <1>2 DEF PushFirst, IndInv, TypeOK
      <4>2. CASE Len(order) = 0
        BY <3>1, <4>1, <4>2, <1>f, <1>2, ChainFacts
      <4>3. CASE Len(order) > 0
        <5>1. first = order[1] /\ order'[2] = order[1] /\ i # Len(order')
          BY <3>1, <4>3, <1>f, <1>2, ChainFacts
        <5> QED BY <3>1, <4>1, <5>1
      <4> QED BY <4>2, <4>3, <1>f
    <3>2. CASE i > 1
      <4>1. i - 1 \in 1 .. Len(order) /\ order'[i] = order[i - 1]
        BY <3>2, <1>s
      <4>2. order[i - 1] # a /\ order[i - 1] \in Addr
        BY <4>1, <1>3, ChainFacts
      <4>3. behindMe'[order'[i]] = behindMe[order[i - 1]]
        BY <4>1, <4>2 DEF PushFirst, IndInv, TypeOK
      <4>4. behindMe[order[i - 1]] = IF i - 1 = Len(order) THEN NULL ELSE order[i]
        BY <4>1, <1>f DEF IndInv, ListIntact
      <4>5. i # Len(order') => order'[i + 1] = order[i]
        BY <3>2, <1>f, <1>2
      <4> QED BY <4>3, <4>4, <4>5, <1>f, <1>2
    <3> QED BY <3>1, <3>2, <1>f, <1>2
  <2>6. ASSUME NEW i \in 1 .. Len(order'), NEW j \in 1 .. Len(order'),
               order'[i] = order'[j]
        PROVE  i = j
    <3>1. CASE i = 1 \/ j = 1
      BY <3>1, <2>6, <1>s, <1>2, <1>3, <1>f
    <3>2. CASE i > 1 /\ j > 1
      <4>1. i - 1 \in 1 .. Len(order) /\ j - 1 \in 1 .. Len(order)
            /\ order[i - 1] = order[j - 1]
        BY <3>2, <2>6, <1>s
      <4>2. i - 1 = j - 1
        BY <4>1 DEF IndInv, ListIntact
      <4> QED BY <4>2, <1>f, <1>2
    <3> QED BY <3>1, <3>2, <1>f, <1>2
  <2> QED BY <2>1, <2>2, <2>3, <2>4, <2>5, <2>6 DEF ListIntact
<1>5. SearchOK'
  BY DEF SearchOK, locals, createMessage
<1> QED BY <1>1, <1>4, <1>5 DEF IndInv

(* queuePopMessage: the second cell becomes the first one.                  *)
LEMMA PopKeepsList ==
  ASSUME IndInv, PopFirst, op # "contains"
  PROVE  IndInv'
<1> USE ChainFacts DEF PopFirst, IndInv
<1>0. order # <<>> /\ len = Len(order) /\ Len(order) > 0
  BY DEF ListIntact
<1>2. /\ order' \in Seq(Addr)
      /\ Len(order') = Len(order) - 1
      /\ \A i \in 1 .. Len(order) - 1 : order'[i] = order[i + 1]
  BY <1>0, HeadTailProperties DEF TypeOK
<1>1. TypeOK'
  BY <1>0, <1>2 DEF TypeOK, Pointers, locals
<1>4. ListIntact'
  <2>1. len' = Len(order')
    BY <1>0, <1>2
  <2>2. order' = <<>> <=> Len(order) = 1
    <3>1. ASSUME order' = <<>> PROVE Len(order') = 0
      BY <3>1, EmptySeq
    <3>2. ASSUME order' # <<>> PROVE Len(order') \in Nat \ {0}
      BY <3>2, <1>2, EmptySeq
    <3> QED BY <3>1, <3>2, <1>0, <1>2
  <2>3. first' = IF order' = <<>> THEN NULL ELSE order'[1]
    BY <1>0, <1>2, <2>2 DEF ListIntact
  <2>4. first = last <=> Len(order) = 1
    BY <1>0 DEF ListIntact
  <2>5. last' = IF order' = <<>> THEN NULL ELSE order'[Len(order')]
    BY <1>0, <1>2, <2>2, <2>4 DEF ListIntact
  <2>6. ASSUME NEW i \in 1 .. Len(order')
        PROVE  /\ order'[i] \in allocated'
               /\ behindMe'[order'[i]] = IF i = Len(order') THEN NULL ELSE order'[i + 1]
               /\ \A j \in 1 .. Len(order') : order'[i] = order'[j] => i = j
    <3>1. i + 1 \in 1 .. Len(order) /\ order'[i] = order[i + 1]
      BY <1>2
    <3>2. order[i + 1] # first
      BY <1>0, <3>1 DEF ListIntact
    <3>3. behindMe'[order'[i]] = IF i = Len(order') THEN NULL ELSE order'[i + 1]
      BY <1>0, <1>2, <3>1 DEF ListIntact
    <3>4. ASSUME NEW j \in 1 .. Len(order'), order'[i] = order'[j]
          PROVE  i = j
      <4>1. j + 1 \in 1 .. Len(order) /\ order'[j] = order[j + 1]
        BY <1>2
      <4>2. i + 1 = j + 1
        BY <3>1, <3>4, <4>1 DEF ListIntact
      <4> QED BY <4>2, <1>2
    <3> QED BY <3>1, <3>2, <3>3, <3>4 DEF ListIntact
  <2> QED BY <2>1, <2>3, <2>5, <2>6 DEF ListIntact
<1>5. SearchOK'
  BY DEF SearchOK, locals
<1> QED BY <1>1, <1>4, <1>5

(* The steps that leave the chain alone.                                    *)
LEMMA QuietKeepsList ==
  ASSUME IndInv, UNCHANGED <<first, last, len, behindMe, allocated, order>>
  PROVE  ListIntact'
BY DEF IndInv, ListIntact

LEMMA SearchKeepsList ==
  ASSUME IndInv, ContainsNext \/ ContainsReturn \/ \E c \in Contents : ContainsCall(c)
  PROVE  IndInv'
<1> USE ChainFacts DEF IndInv
<1>1. ListIntact'
  BY QuietKeepsList DEF ContainsNext, ContainsReturn, ContainsCall, list
<1>2. CASE \E c \in Contents : ContainsCall(c)
  <2>1. TypeOK'
    BY <1>2 DEF ContainsCall, TypeOK, list
  <2>2. op' = "contains" /\ order' = order /\ content' = content
    BY <1>2 DEF ContainsCall, list
  <2>3. 1 \in 1 .. Len(order') + 1
        /\ cursor' = IF 1 = Len(order') + 1 THEN NULL ELSE order'[1]
    BY <1>2, <2>2 DEF ContainsCall, ListIntact
  <2>4. SearchOK'
    BY <2>2, <2>3 DEF SearchOK
  <2> QED BY <1>1, <2>1, <2>4
<1>3. CASE ContainsReturn
  BY <1>1, <1>3 DEF ContainsReturn, TypeOK, SearchOK, Pointers, list
<1>4. CASE ContainsNext
  <2>1. PICK k \in 1 .. Len(order) + 1 :
          /\ cursor = IF k = Len(order) + 1 THEN NULL ELSE order[k]
          /\ \A j \in 1 .. k - 1 : ~Matches(wanted, content[order[j]])
    BY <1>4 DEF ContainsNext, SearchOK
  <2>2. k \in 1 .. Len(order) /\ cursor = order[k]
        /\ ~Matches(wanted, content[order[k]])
    BY <1>4, <2>1 DEF ContainsNext, Match
  <2>3. cursor' = IF k + 1 = Len(order) + 1 THEN NULL ELSE order[k + 1]
    BY <1>4, <2>2 DEF ContainsNext, ListIntact
  <2>4. \A j \in 1 .. (k + 1) - 1 : ~Matches(wanted, content[order[j]])
    BY <2>1, <2>2
  <2>5. k + 1 \in 1 .. Len(order) + 1
    BY <2>2
  <2>6. UNCHANGED <<order, content, wanted>>
    BY <1>4 DEF ContainsNext, list
  <2>7. SearchOK'
    BY <2>3, <2>4, <2>5, <2>6 DEF SearchOK
  <2>8. TypeOK'
    BY <1>4, <2>2 DEF ContainsNext, TypeOK, Pointers, list
  <2> QED BY <1>1, <2>7, <2>8
<1> QED BY <1>2, <1>3, <1>4

(* The setters write a message of the domain into the first cell.           *)
LEMMA SetterSets ==
  ASSUME IndInv, \/ \E f \in Flags : queueSetMessageFlags(f)
                 \/ \E n \in Ids : queueSetMessageID(n)
  PROVE  \E c \in Contents : SetFirst(c)
<1>1. ASSUME first # NULL PROVE content[first] \in Contents
  BY <1>1 DEF IndInv, TypeOK, Pointers
<1>2. ASSUME NEW f \in Flags, queueSetMessageFlags(f)
      PROVE  \E c \in Contents : SetFirst(c)
  <2>1. [content[first] EXCEPT !.flags = f] \in Contents
    BY <1>1, <1>2 DEF queueSetMessageFlags, SetFirst, Contents
  <2> QED BY <1>2, <2>1 DEF queueSetMessageFlags
<1>3. ASSUME NEW n \in Ids, queueSetMessageID(n)
      PROVE  \E c \in Contents : SetFirst(c)
  <2>1. [content[first] EXCEPT !.id = n] \in Contents
    BY <1>1, <1>3 DEF queueSetMessageID, SetFirst, Contents
  <2> QED BY <1>3, <2>1 DEF queueSetMessageID
<1> QED BY <1>2, <1>3

LEMMA StepKeepsList ==
  ASSUME IndInv, [Next]_vars
  PROVE  IndInv'
<1>1. ASSUME NEW a \in Addr, NEW c \in Contents, queueAddMessage(a, c)
      PROVE  IndInv'
  BY <1>1, AddKeepsList
<1>2. ASSUME NEW a \in Addr, NEW c \in Contents,
             queueAddMessagePriority(a, c) \/ queueAddMessageOnlyID(a, c)
      PROVE  IndInv'
  BY <1>2, PushKeepsList DEF queueAddMessagePriority, queueAddMessageOnlyID
<1>3. CASE queuePopMessage \/ PopAllLoop
  BY <1>3, PopKeepsList DEF queuePopMessage, PopAllLoop
<1>4. CASE ContainsNext \/ ContainsReturn \/ \E c \in Contents : ContainsCall(c)
  BY <1>4, SearchKeepsList
<1>5. CASE \/ \E f \in Flags : queueSetMessageFlags(f)
           \/ \E n \in Ids : queueSetMessageID(n)
  <2>1. PICK c \in Contents : SetFirst(c)
    BY <1>5, SetterSets
  <2>2. ListIntact'
    BY <2>1, QuietKeepsList DEF SetFirst
  <2> QED BY <2>1, <2>2 DEF IndInv, SetFirst, TypeOK, SearchOK, locals
<1>6. ASSUME NEW o \in {"popAll", "destroy"}, PopAllCall(o)
      PROVE  IndInv'
  <2>1. ListIntact'
    BY <1>6, QuietKeepsList DEF PopAllCall, list
  <2> QED BY <1>6, <2>1 DEF IndInv, PopAllCall, TypeOK, SearchOK, list
<1>7. CASE PopAllEnd
  <2>1. first = NULL /\ last = NULL
    BY <1>7, ChainFacts DEF PopAllEnd
  <2>2. ListIntact'
    BY <1>7, <2>1, QuietKeepsList DEF PopAllEnd
  <2> QED BY <1>7, <2>2 DEF IndInv, PopAllEnd, TypeOK, SearchOK, Pointers
<1>8. CASE queueGetMessage \/ queueLength \/ queueIsEmpty \/ UNCHANGED vars
  <2>1. ListIntact' /\ UNCHANGED <<list, locals>>
    BY <1>8, QuietKeepsList
    DEF queueGetMessage, queueLength, queueIsEmpty, Answer, vars, list
  <2> QED BY <2>1 DEF IndInv, TypeOK, SearchOK, list, locals
<1> QED BY <1>1, <1>2, <1>3, <1>4, <1>5, <1>6, <1>7, <1>8 DEF Next

LEMMA IndInvHolds == Spec => []IndInv
<1>1. Init => IndInv
  BY EmptySeq DEF Init, IndInv, TypeOK, ListIntact, SearchOK, Pointers
<1>2. IndInv /\ [Next]_vars => IndInv'
  BY StepKeepsList
<1> QED BY <1>1, <1>2, PTL DEF Spec

(* The list of msgQueue.c stays intact: first, last, len and the chain of   *)
(* behindMe pointers agree whatever operations are called in whatever order *)
(* and however many messages there are.                                     *)
THEOREM ListStaysIntact == Spec => []ListIntact
<1>1. IndInv => ListIntact
  BY DEF IndInv
<1> QED BY <1>1, IndInvHolds, PTL

-----------------------------------------------------------------------------
(* What is allocated is what is on the chain, and buffers belong to cells   *)
(* that are allocated.                                                      *)
Chain     == {order[i] : i \in 1 .. Len(order)}
Accounted == allocated = Chain /\ buffers \subseteq allocated

LEMMA AddKeepsAccounted ==
  ASSUME IndInv, Accounted, NEW a \in Addr, NEW c \in Contents,
         queueAddMessage(a, c)
  PROVE  Accounted'
<1>1. /\ Len(order') = Len(order) + 1 /\ Len(order) \in Nat
      /\ \A i \in 1 .. Len(order) : order'[i] = order[i]
      /\ order'[Len(order) + 1] = a
  BY ChainFacts DEF queueAddMessage, IndInv, TypeOK
<1>2. allocated' = allocated \cup {a} /\ buffers' = buffers \cup {a}
  BY DEF queueAddMessage, createMessage
<1>3. Chain' = Chain \cup {a}
  <2>1. ASSUME NEW x \in Chain' PROVE x \in Chain \cup {a}
    BY <1>1, <2>1 DEF Chain
  <2>2. ASSUME NEW x \in Chain \cup {a} PROVE x \in Chain'
    BY <1>1, <2>2 DEF Chain
  <2> QED BY <2>1, <2>2
<1> QED BY <1>2, <1>3 DEF Accounted

LEMMA PushKeepsAccounted ==
  ASSUME IndInv, Accounted, NEW a \in Addr, NEW c \in Contents, NEW b \in BOOLEAN,
         createMessage(a, c, b), PushFirst(a)
  PROVE  Accounted'
<1>1. /\ Len(order') = Len(order) + 1 /\ Len(order) \in Nat
      /\ \A i \in 1 .. Len(order) : order'[i + 1] = order[i]
      /\ order'[1] = a
  BY ChainFacts DEF PushFirst, IndInv, TypeOK
<1>2. allocated' = allocated \cup {a} /\ buffers' \subseteq buffers \cup {a}
  BY DEF createMessage
<1>3. Chain' = Chain \cup {a}
  <2>1. ASSUME NEW x \in Chain' PROVE x \in Chain \cup {a}
    <3>1. PICK i \in 1 .. Len(order') : x = order'[i]
      BY DEF Chain
    <3>2. CASE i = 1
      BY <1>1, <3>1, <3>2
    <3>3. CASE i # 1
      <4>1. i - 1 \in 1 .. Len(order) /\ order'[(i - 1) + 1] = order[i - 1]
            /\ (i - 1) + 1 = i
        BY <1>1, <3>3
      <4> QED BY <3>1, <4>1 DEF Chain
    <3> QED BY <3>2, <3>3
  <2>2. ASSUME NEW x \in Chain \cup {a} PROVE x \in Chain'
    BY <1>1, <2>2 DEF Chain
  <2> QED BY <2>1, <2>2
<1> QED BY <1>2, <1>3 DEF Accounted

LEMMA PopKeepsAccounted ==
  ASSUME IndInv, Accounted, PopFirst
  PROVE  Accounted'
<1>1. /\ Len(order) \in Nat /\ Len(order) > 0 /\ order # <<>> /\ first = order[1]
      /\ \A i, j \in 1 .. Len(order) : order[i] = order[j] => i = j
  BY ChainFacts DEF PopFirst, IndInv, ListIntact
<1>2. /\ Len(order') = Len(order) - 1
      /\ \A i \in 1 .. Len(order) - 1 : order'[i] = order[i + 1]
  BY <1>1, HeadTailProperties DEF PopFirst, IndInv, TypeOK
<1>3. Chain' = Chain \ {first}
  <2>1. ASSUME NEW x \in Chain' PROVE x \in Chain \ {first}
    <3>1. PICK i \in 1 .. Len(order) - 1 : x = order[i + 1]
      BY <1>2 DEF Chain
    <3>2. i + 1 \in 1 .. Len(order) /\ 1 \in 1 .. Len(order) /\ i + 1 # 1
      BY <1>1
    <3> QED BY <1>1, <3>1, <3>2 DEF Chain
  <2>2. ASSUME NEW x \in Chain \ {first} PROVE x \in Chain'
    <3>1. PICK i \in 1 .. Len(order) : x = order[i]
      BY DEF Chain
    <3>2. i # 1
      BY <1>1, <3>1
    <3>3. i - 1 \in 1 .. Len(order') /\ order'[i - 1] = order[i]
      <4>1. i - 1 \in 1 .. Len(order) - 1 /\ (i - 1) + 1 = i
        BY <1>1, <3>2
      <4> QED BY <1>2, <4>1
    <3> QED BY <3>1, <3>3 DEF Chain
  <2> QED BY <2>1, <2>2
<1>4. allocated' = allocated \ {first} /\ buffers' = buffers \ {first}
  BY DEF PopFirst
<1> QED BY <1>3, <1>4 DEF Accounted

LEMMA StepKeepsAccounted ==
  ASSUME IndInv, Accounted, [Next]_vars
  PROVE  Accounted'
<1>1. ASSUME NEW a \in Addr, NEW c \in Contents, queueAddMessage(a, c)
      PROVE  Accounted'
  BY <1>1, AddKeepsAccounted
<1>2. ASSUME NEW a \in Addr, NEW c \in Contents,
             queueAddMessagePriority(a, c) \/ queueAddMessageOnlyID(a, c)
      PROVE  Accounted'
  BY <1>2, PushKeepsAccounted DEF queueAddMessagePriority, queueAddMessageOnlyID
<1>3. CASE queuePopMessage \/ PopAllLoop
  BY <1>3, PopKeepsAccounted DEF queuePopMessage, PopAllLoop
<1>4. CASE UNCHANGED <<allocated, buffers, order>>
  BY <1>4 DEF Accounted, Chain
<1>5. ASSUME \/ ContainsNext \/ ContainsReturn \/ PopAllEnd
             \/ queueGetMessage \/ queueLength \/ queueIsEmpty \/ UNCHANGED vars
             \/ \E c \in Contents : ContainsCall(c)
             \/ \E f \in Flags : queueSetMessageFlags(f)
             \/ \E n \in Ids : queueSetMessageID(n)
             \/ \E o \in {"popAll", "destroy"} : PopAllCall(o)
      PROVE  UNCHANGED <<allocated, buffers, order>>
  BY <1>5 DEF ContainsNext, ContainsReturn, PopAllEnd, queueGetMessage,
     queueLength, queueIsEmpty, Answer, vars, list, queueSetMessageFlags,
     queueSetMessageID, SetFirst, ContainsCall, PopAllCall
<1> QED BY <1>1, <1>2, <1>3, <1>4, <1>5 DEF Next

-----------------------------------------------------------------------------
(* The walk from `first` along behindMe.  Cell is a recursive function; on  *)
(* a list that is intact it is the chain, followed by NULL.                 *)
Steps == 1 .. Cardinality(Addr) + 1
Walk  == [i \in Steps |-> IF i <= Len(order) THEN order[i] ELSE NULL]

(* The equation Cell is defined by.                                         *)
Follows(f) == f = [i \in Steps |-> IF i = 1 THEN first
                    ELSE IF f[i - 1] = NULL THEN NULL ELSE behindMe[f[i - 1]]]

LEMMA LeastElement ==
  ASSUME NEW T \in SUBSET Nat, T # {}
  PROVE  \E x \in T : \A y \in T : ~ (y < x)
<1>1. \E x \in T : \A y \in T : <<y, x>> \notin OpToRel(<, Nat)
  BY NatLessThanWellFounded, WFMin
<1>2. \A x, y \in Nat : y < x => <<y, x>> \in OpToRel(<, Nat)
  BY DEF OpToRel
<1> QED BY <1>1, <1>2

LEMMA AddrCount == Cardinality(Addr) \in Nat
BY AddrFinite, FS_CardinalityType

(* The cells on the chain are distinct, so there are no more of them than   *)
(* addresses.                                                               *)
LEMMA ChainFits ==
  ASSUME IndInv
  PROVE  Len(order) <= Cardinality(Addr)
<1>1. /\ Len(order) \in Nat /\ order \in [1 .. Len(order) -> Addr]
      /\ \A i, j \in 1 .. Len(order) : order[i] = order[j] => i = j
  BY ChainFacts, LenProperties DEF IndInv, TypeOK, ListIntact
<1>2. order \in Injection(1 .. Len(order), Addr)
  BY <1>1, Fun_IsInj
<1>3. Cardinality(1 .. Len(order)) = Len(order)
  BY <1>1, FS_Interval
<1> QED BY <1>2, <1>3, AddrFinite, FS_Injection

LEMMA WalkFollows ==
  ASSUME IndInv
  PROVE  Follows(Walk)
<1>1. /\ Len(order) \in Nat /\ Cardinality(Addr) \in Nat
      /\ \A i \in 1 .. Len(order) : order[i] # NULL
      /\ first = IF Len(order) = 0 THEN NULL ELSE order[1]
      /\ \A i \in 1 .. Len(order) :
           behindMe[order[i]] = IF i = Len(order) THEN NULL ELSE order[i + 1]
  BY ChainFacts, AddrCount DEF IndInv, ListIntact
<1>2. ASSUME NEW i \in Steps
      PROVE  Walk[i] = IF i = 1 THEN first
               ELSE IF Walk[i - 1] = NULL THEN NULL ELSE behindMe[Walk[i - 1]]
  <2>1. CASE i = 1
    BY <1>1, <2>1 DEF Walk, Steps
  <2>2. CASE i # 1
    <3>1. i - 1 \in Steps /\ (i - 1) + 1 = i /\ i - 1 >= 1
      BY <1>1, <2>2 DEF Steps
    <3>2. CASE i - 1 <= Len(order)
      <4>1. i - 1 \in 1 .. Len(order) /\ Walk[i - 1] = order[i - 1]
        BY <1>1, <3>1, <3>2 DEF Walk, Steps
      <4>2. behindMe[order[i - 1]] = IF i - 1 = Len(order) THEN NULL ELSE order[i]
        BY <1>1, <3>1, <4>1
      <4>3. Walk[i] = IF i - 1 = Len(order) THEN NULL ELSE order[i]
        BY <1>1, <3>1, <3>2 DEF Walk, Steps
      <4> QED BY <1>1, <2>2, <4>1, <4>2, <4>3
    <3>3. CASE i - 1 > Len(order)
      BY <1>1, <2>2, <3>1, <3>3 DEF Walk, Steps
    <3> QED BY <1>1, <3>1, <3>2, <3>3 DEF Steps
  <2> QED BY <2>1, <2>2
<1>3. Walk = [i \in Steps |-> Walk[i]]
  BY DEF Walk
<1> HIDE DEF Walk
<1> QED BY <1>2, <1>3 DEF Follows

(* Only one function follows the pointers from `first`.                     *)
LEMMA OneWalk ==
  ASSUME NEW f, NEW g, Follows(f), Follows(g)
  PROVE  f = g
<1> DEFINE T == {i \in Steps : f[i] # g[i]}
<1>1. SUFFICES ASSUME T # {} PROVE FALSE
  BY DEF Follows
<1>2. Steps \subseteq Nat
  BY AddrCount DEF Steps
<1>3. PICK i \in T : \A j \in T : ~ (j < i)
  BY <1>1, <1>2, LeastElement
<1>4. /\ f[i] = IF i = 1 THEN first
             ELSE IF f[i - 1] = NULL THEN NULL ELSE behindMe[f[i - 1]]
      /\ g[i] = IF i = 1 THEN first
             ELSE IF g[i - 1] = NULL THEN NULL ELSE behindMe[g[i - 1]]
  BY DEF Follows
<1>5. i # 1 => i - 1 \in Steps /\ i - 1 < i
  BY AddrCount DEF Steps
<1>6. i # 1 => f[i - 1] = g[i - 1]
  BY <1>3, <1>5
<1> QED BY <1>4, <1>6

LEMMA CellFollows ==
  ASSUME NEW f, Follows(f)
  PROVE  Follows(Cell)
BY Zenon DEF Follows, Cell, Steps

(* Nothing is leaked, for any number of cells: what malloc gave out and     *)
(* free did not take back is what the walk from `first` meets, and the walk *)
(* ends.                                                                    *)
THEOREM NothingLeakedHolds == Spec => []NothingLeaked
<1>1. Init => Accounted
  BY EmptySeq DEF Init, Accounted, Chain
<1>2. IndInv /\ Accounted /\ [Next]_vars => Accounted'
  BY StepKeepsAccounted
<1>3. ASSUME IndInv, Accounted PROVE NothingLeaked
  <2>1. Cell = Walk
    BY <1>3, WalkFollows, CellFollows, OneWalk
  <2>2. /\ Len(order) \in Nat /\ Cardinality(Addr) \in Nat
        /\ Len(order) <= Cardinality(Addr)
        /\ \A i \in 1 .. Len(order) : order[i] # NULL
    BY <1>3, ChainFacts, ChainFits, AddrCount
  <2>3. DOMAIN Walk = Steps
    BY DEF Walk
  <2>4. {Walk[i] : i \in Steps} \ {NULL} = Chain
    <3>1. ASSUME NEW x \in Chain PROVE x \in {Walk[i] : i \in Steps} \ {NULL}
      BY <2>2 DEF Chain, Walk, Steps
    <3>2. ASSUME NEW x \in {Walk[i] : i \in Steps} \ {NULL} PROVE x \in Chain
      BY <2>2 DEF Chain, Walk, Steps
    <3> QED BY <3>1, <3>2
  <2>5. Walk[Cardinality(Addr) + 1] = NULL
    BY <2>2 DEF Walk, Steps
  <2>6. Reached = Chain /\ Cell[Cardinality(Addr) + 1] = NULL
    <3> HIDE DEF Walk
    <3> QED BY <2>1, <2>3, <2>4, <2>5 DEF Reached
  <2> QED BY <1>3, <2>6 DEF NothingLeaked, Accounted
<1> QED BY <1>1, <1>2, <1>3, IndInvHolds, PTL DEF Spec

-----------------------------------------------------------------------------
(* Refinement                                                               *)
LEMMA ContentsInOrder ==
  ASSUME NEW cells \in Seq(Addr), NEW held \in [Addr -> Contents]
  PROVE  /\ [i \in 1 .. Len(cells) |-> held[cells[i]]] \in Seq(Contents)
         /\ Len([i \in 1 .. Len(cells) |-> held[cells[i]]]) = Len(cells)
<1>1. Len(cells) \in Nat /\ \A i \in 1 .. Len(cells) : held[cells[i]] \in Contents
  BY LenProperties, ElementOfSeq
<1>2. [i \in 1 .. Len(cells) |-> held[cells[i]]] \in [1 .. Len(cells) -> Contents]
  BY <1>1
<1>3. [i \in 1 .. Len(cells) |-> held[cells[i]]] \in Seq(Contents)
  BY <1>1, <1>2, SeqDef
<1> QED BY <1>1, <1>2, <1>3, LenProperties

LEMMA NextItems ==
  ASSUME TypeOK'
  PROVE  /\ Items' \in Seq(Contents) /\ Len(Items') = Len(order')
         /\ \A i \in 1 .. Len(order') : Items'[i] = content'[order'[i]]
BY ContentsInOrder DEF TypeOK, Items

LEMMA ItemsFacts ==
  ASSUME IndInv
  PROVE  /\ Items \in Seq(Contents) /\ Len(Items) = Len(order)
         /\ Len(order) \in Nat /\ len = Len(order)
         /\ \A i \in 1 .. Len(order) : Items[i] = content[order[i]]
         /\ \A i \in 1 .. Len(order) : content[order[i]] \in Contents
         /\ Items = <<>> <=> len = 0
<1>1. Len(order) \in Nat /\ len = Len(order)
  BY ChainFacts DEF IndInv, ListIntact
<1>2. \A i \in 1 .. Len(order) : content[order[i]] \in Contents
  BY ChainFacts DEF IndInv, TypeOK
<1>3. Items \in Seq(Contents) /\ Len(Items) = Len(order)
  BY ContentsInOrder DEF IndInv, TypeOK, Items
<1>4. Items = <<>> <=> len = 0
  BY <1>1, <1>3, EmptySeq
<1> QED BY <1>1, <1>2, <1>3, <1>4 DEF Items

(* The sequence with c appended, and with c put in front, read from cells.  *)
LEMMA AddIsPutLast ==
  ASSUME IndInv, IndInv', NEW a \in Addr, NEW c \in Contents, queueAddMessage(a, c)
  PROVE  Sequence!PutLast(c)
<1>1. Append(Items, c) \in Seq(Contents) /\ Len(Append(Items, c)) = Len(order) + 1
      /\ (\A i \in 1 .. Len(order) : Append(Items, c)[i] = content[order[i]])
      /\ Append(Items, c)[Len(order) + 1] = c
  BY ItemsFacts
<1>2. Items' \in Seq(Contents) /\ Len(Items') = Len(order')
      /\ \A i \in 1 .. Len(order') : Items'[i] = content'[order'[i]]
  BY NextItems DEF IndInv
<1>3. Len(order') = Len(order) + 1 /\ order'[Len(order) + 1] = a
      /\ \A i \in 1 .. Len(order) : order'[i] = order[i]
  BY DEF queueAddMessage, IndInv, TypeOK
<1>4. ASSUME NEW i \in 1 .. Len(order) PROVE content'[order[i]] = content[order[i]]
  BY DEF queueAddMessage, createMessage, IndInv, TypeOK, ListIntact
<1>5. content'[a] = c
  BY DEF queueAddMessage, createMessage, IndInv, TypeOK
<1>6. \A i \in 1 .. Len(order) + 1 : Items'[i] = Append(Items, c)[i]
  BY <1>1, <1>2, <1>3, <1>4, <1>5, ItemsFacts
<1>7. Items' = Append(Items, c)
  BY <1>1, <1>2, <1>3, <1>6, SeqEqual
<1> QED BY <1>7 DEF Sequence!PutLast, Sequence!Change, queueAddMessage, createMessage

LEMMA PushIsPutFirst ==
  ASSUME IndInv, IndInv', NEW a \in Addr, NEW c \in Contents, NEW b \in BOOLEAN,
         createMessage(a, c, b), PushFirst(a)
  PROVE  Sequence!PutFirst(c)
<1>0. /\ <<a>> \in Seq(Addr) /\ Len(<<a>>) = 1 /\ <<a>>[1] = a
      /\ <<c>> \in Seq(Contents) /\ Len(<<c>>) = 1 /\ <<c>>[1] = c
  OBVIOUS
<1>1. <<c>> \o Items \in Seq(Contents) /\ Len(<<c>> \o Items) = Len(order) + 1
      /\ (\A i \in 2 .. Len(order) + 1 : (<<c>> \o Items)[i] = content[order[i - 1]])
      /\ (<<c>> \o Items)[1] = c
  BY <1>0, ItemsFacts, ConcatProperties
<1>2. Items' \in Seq(Contents) /\ Len(Items') = Len(order')
      /\ \A i \in 1 .. Len(order') : Items'[i] = content'[order'[i]]
  BY NextItems DEF IndInv
<1>3. Len(order') = Len(order) + 1 /\ order'[1] = a
      /\ \A i \in 2 .. Len(order) + 1 : order'[i] = order[i - 1]
  BY <1>0, ItemsFacts, ConcatProperties DEF PushFirst, IndInv, TypeOK
<1>4. ASSUME NEW i \in 1 .. Len(order) PROVE content'[order[i]] = content[order[i]]
  BY DEF createMessage, IndInv, TypeOK, ListIntact
<1>5. content'[a] = c
  BY DEF createMessage, IndInv, TypeOK
<1>6. ASSUME NEW i \in 1 .. Len(order) + 1
      PROVE  Items'[i] = (<<c>> \o Items)[i]
  <2>1. CASE i = 1
    BY <2>1, <1>1, <1>2, <1>3, <1>5, ItemsFacts
  <2>2. CASE i > 1
    <3>1. i \in 2 .. Len(order) + 1 /\ i - 1 \in 1 .. Len(order)
      BY <2>2, ItemsFacts
    <3> QED BY <3>1, <1>1, <1>2, <1>3, <1>4
  <2> QED BY <2>1, <2>2, ItemsFacts
<1>7. Items' = <<c>> \o Items
  BY <1>1, <1>2, <1>3, <1>6, SeqEqual
<1> QED BY <1>7 DEF Sequence!PutFirst, Sequence!Change, createMessage

LEMMA PopIsTakeFirst ==
  ASSUME IndInv, IndInv', PopFirst
  PROVE  Sequence!TakeFirst
<1>0. Items # <<>> /\ order # <<>> /\ Len(order) \in Nat /\ Len(order) > 0
  BY ItemsFacts, ChainFacts DEF PopFirst
<1>1. Tail(Items) \in Seq(Contents) /\ Len(Tail(Items)) = Len(order) - 1
      /\ \A i \in 1 .. Len(order) - 1 : Tail(Items)[i] = content[order[i + 1]]
  BY <1>0, ItemsFacts, HeadTailProperties
<1>2. Items' \in Seq(Contents) /\ Len(Items') = Len(order')
      /\ \A i \in 1 .. Len(order') : Items'[i] = content'[order'[i]]
  BY NextItems DEF IndInv
<1>3. Len(order') = Len(order) - 1 /\ content' = content
      /\ \A i \in 1 .. Len(order) - 1 : order'[i] = order[i + 1]
  BY <1>0, HeadTailProperties DEF PopFirst, IndInv, TypeOK
<1>4. Items' = Tail(Items)
  BY <1>0, <1>1, <1>2, <1>3, SeqEqual
<1> QED BY <1>0, <1>4 DEF Sequence!TakeFirst, Sequence!Change, PopFirst

LEMMA SetIsSetFirst ==
  ASSUME IndInv, IndInv', NEW c \in Contents, SetFirst(c)
  PROVE  Sequence!SetFirst(c)
<1>0. Items # <<>> /\ Len(order) > 0 /\ Len(order) \in Nat /\ first = order[1]
      /\ 1 \in 1 .. Len(order)
  BY ItemsFacts, ChainFacts DEF SetFirst
<1>1. [Items EXCEPT ![1] = c] \in Seq(Contents)
      /\ Len([Items EXCEPT ![1] = c]) = Len(order)
      /\ \A i \in 1 .. Len(order) :
           [Items EXCEPT ![1] = c][i] = IF i = 1 THEN c ELSE content[order[i]]
  BY <1>0, ItemsFacts, ExceptSeq
<1>2. Items' \in Seq(Contents) /\ Len(Items') = Len(order')
      /\ \A i \in 1 .. Len(order') : Items'[i] = content'[order'[i]]
  BY NextItems DEF IndInv
<1>3. order' = order
  BY DEF SetFirst
<1>4. ASSUME NEW i \in 1 .. Len(order)
      PROVE  content'[order[i]] = IF i = 1 THEN c ELSE content[order[i]]
  <2>1. order[i] \in Addr /\ (order[i] = order[1] => i = 1)
    BY <1>0, ChainFacts DEF IndInv, ListIntact
  <2> QED BY <1>0, <2>1 DEF SetFirst, IndInv, TypeOK
<1>5. Items' = [Items EXCEPT ![1] = c]
  BY <1>1, <1>2, <1>3, <1>4, SeqEqual
<1> QED BY <1>0, <1>5 DEF Sequence!SetFirst, Sequence!Change, SetFirst

(* A byte read as signed equals a byte kept as unsigned exactly if they are *)
(* the same byte and it has no sign bit.                                    *)
LEMMA BytesMatch ==
  ASSUME NEW b \in Bytes, NEW c \in Bytes
  PROVE  ByteMatches(b, c) <=> b = c /\ b < ByteSize \div 2
BY ByteSizeAssumption DEF ByteMatches, SignedChar, Bytes

(* The two bytes of an id, and that they tell ids apart.                    *)
LEMMA BytesOfId ==
  ASSUME NEW n \in MsgIds
  PROVE  LowByte(n) \in Bytes /\ HighByte(n) \in Bytes
         /\ n = ByteSize * HighByte(n) + LowByte(n)
<1> DEFINE q == n \div ByteSize
           r == n % ByteSize
<1>1. n \in Nat /\ ByteSize \in Nat /\ ByteSize > 0 /\ n < ByteSize * ByteSize
  BY ByteSizeAssumption DEF MsgIds, IdSize
<1>2. q \in Int /\ r \in 0 .. ByteSize - 1 /\ n = ByteSize * q + r
  BY <1>1
<1> HIDE DEF q, r
<1>3. q >= 0
  BY <1>1, <1>2
<1>4. q < ByteSize
  BY <1>1, <1>2
<1>5. q \in 0 .. ByteSize - 1
  BY <1>1, <1>2, <1>3, <1>4
<1>6. LowByte(n) = r /\ HighByte(n) = q
  BY DEF LowByte, HighByte, q, r
<1> QED BY <1>2, <1>5, <1>6 DEF Bytes

(* What the comparison of queueContainsMessageId says of two ids.           *)
LEMMA SameMessageIdMeans ==
  ASSUME NEW n \in MsgIds, NEW s \in MsgIds
  PROVE  SameMessageId(n, s) <=> n = s /\ PlainId(n)
<1>1. SameMessageId(n, s) <=> /\ HighByte(n) = HighByte(s) /\ LowByte(n) = LowByte(s)
                              /\ PlainId(n)
  BY BytesOfId, BytesMatch DEF SameMessageId, PlainId
<1>2. HighByte(n) = HighByte(s) /\ LowByte(n) = LowByte(s) => n = s
  BY BytesOfId
<1> QED BY <1>1, <1>2

(* The search answers what is true of the whole sequence, if the id it      *)
(* looks for has no sign bit, and denies it otherwise.                      *)
LEMMA SearchIsAskMember ==
  ASSUME IndInv, ContainsReturn
  PROVE  wanted \in Contents /\ Sequence!AskMember(wanted)
<1>0. Len(Items) = Len(order) /\ Len(order) \in Nat
      /\ \A i \in 1 .. Len(order) : Items[i] = content[order[i]]
  BY ItemsFacts
<1>1. PICK k \in 1 .. Len(order) + 1 :
        /\ cursor = IF k = Len(order) + 1 THEN NULL ELSE order[k]
        /\ \A j \in 1 .. k - 1 : ~Matches(wanted, content[order[j]])
  BY DEF ContainsReturn, IndInv, SearchOK
<1>m. wanted \in Contents
  BY DEF IndInv, TypeOK, ContainsReturn
<1>p. ASSUME NEW i \in 1 .. Len(order)
      PROVE  Matches(wanted, content[order[i]])
               <=> PlainId(wanted.id) /\ SameMessage(wanted, content[order[i]])
  <2>1. content[order[i]] \in Contents
    BY ItemsFacts
  <2>2. wanted.id \in MsgIds /\ content[order[i]].id \in MsgIds
    BY <2>1, <1>m, IdsAssumption DEF Contents
  <2> QED BY <2>2, SameMessageIdMeans DEF Matches, SameMessage
<1>2. (cursor # NULL) = (/\ wanted \in {c \in Contents : PlainId(c.id)}
                         /\ \E i \in 1 .. Len(Items) : SameMessage(wanted, Items[i]))
  <2>1. CASE k = Len(order) + 1
    <3>1. cursor = NULL /\ \A i \in 1 .. Len(order) : ~Matches(wanted, content[order[i]])
      BY <2>1, <1>0, <1>1
    <3>2. \A i \in 1 .. Len(Items) : ~(PlainId(wanted.id) /\ SameMessage(wanted, Items[i]))
      BY <3>1, <1>0, <1>p
    <3> QED BY <3>1, <3>2
  <2>2. CASE k # Len(order) + 1
    <3>1. k \in 1 .. Len(order) /\ cursor = order[k] /\ cursor # NULL
      BY <2>2, <1>0, <1>1, ChainFacts
    <3>2. Matches(wanted, content[order[k]])
      BY <3>1 DEF ContainsReturn, Match
    <3>3. PlainId(wanted.id) /\ SameMessage(wanted, Items[k])
      BY <3>1, <3>2, <1>0, <1>p
    <3> QED BY <3>1, <3>3, <1>0, <1>m
  <2> QED BY <2>1, <2>2
<1>3. UNCHANGED Items
  BY DEF ContainsReturn, list, Items
<1> QED BY <1>2, <1>3, <1>m DEF ContainsReturn, Sequence!AskMember

LEMMA QueriesAnswer ==
  ASSUME IndInv
  PROVE  /\ queueGetMessage => Sequence!AskFirst
         /\ queueLength => Sequence!AskLength
         /\ queueIsEmpty => Sequence!AskEmpty
<1>1. \A t, v : Answer(t, v) => UNCHANGED Items /\ answer' = <<t, v>>
  BY DEF Answer, list, Items
<1>2. queueLength => Sequence!AskLength
  BY <1>1, ItemsFacts DEF queueLength, Sequence!AskLength
<1>3. queueIsEmpty => Sequence!AskEmpty
  <2>1. (len = 0) = (Items = <<>>)
    BY ItemsFacts
  <2> QED BY <1>1, <2>1 DEF queueIsEmpty, Sequence!AskEmpty
<1>4. queueGetMessage => Sequence!AskFirst
  <2>1. (IF len > 0 /\ first # NULL THEN content[first] ELSE NULL)
          = (IF Items = <<>> THEN NULL ELSE Items[1])
    <3>1. CASE len = 0
      BY <3>1, ItemsFacts
    <3>2. CASE len > 0
      BY <3>2, ItemsFacts, ChainFacts
    <3> QED BY <3>1, <3>2, ItemsFacts
  <2> QED BY <1>1, <2>1 DEF queueGetMessage, Sequence!AskFirst
<1> QED BY <1>2, <1>3, <1>4

LEMMA StepRefines ==
  ASSUME IndInv, IndInv', [Next]_vars
  PROVE  [Sequence!Next]_<<Items, answer>>
<1>1. ASSUME NEW a \in Addr, NEW c \in Contents, queueAddMessage(a, c)
      PROVE  Sequence!Next
  BY <1>1, AddIsPutLast DEF Sequence!Next
<1>2. ASSUME NEW a \in Addr, NEW c \in Contents,
             queueAddMessagePriority(a, c) \/ queueAddMessageOnlyID(a, c)
      PROVE  Sequence!Next
  <2>1. Sequence!PutFirst(c)
    BY <1>2, PushIsPutFirst DEF queueAddMessagePriority, queueAddMessageOnlyID
  <2> QED BY <2>1 DEF Sequence!Next
<1>3. CASE queuePopMessage \/ PopAllLoop
  BY <1>3, PopIsTakeFirst DEF queuePopMessage, PopAllLoop, Sequence!Next
<1>4. CASE \/ \E f \in Flags : queueSetMessageFlags(f)
           \/ \E n \in Ids : queueSetMessageID(n)
  <2>1. PICK c \in Contents : SetFirst(c)
    BY <1>4, SetterSets
  <2>2. Sequence!SetFirst(c)
    BY <2>1, SetIsSetFirst
  <2> QED BY <2>2 DEF Sequence!Next
<1>5. CASE ContainsReturn
  BY <1>5, SearchIsAskMember DEF Sequence!Next
<1>6. CASE queueGetMessage \/ queueLength \/ queueIsEmpty
  BY <1>6, QueriesAnswer DEF Sequence!Next
<1>7. ASSUME \/ \E o \in {"popAll", "destroy"} : PopAllCall(o)
             \/ PopAllEnd \/ ContainsNext \/ UNCHANGED vars
             \/ \E c \in Contents : ContainsCall(c)
      PROVE  UNCHANGED <<Items, answer>>
  BY <1>7 DEF PopAllCall, PopAllEnd, ContainsNext, ContainsCall, vars, list, Items
<1> QED BY <1>1, <1>2, <1>3, <1>4, <1>5, <1>6, <1>7 DEF Next

(* The linked list implements the sequence of messages its callers have in  *)
(* mind: every operation and every query of msgQueue.c does to the cells    *)
(* what the abstract one does to the sequence.  queueContainsMessageId      *)
(* answers truly for ids without a sign bit in either byte; it denies the   *)
(* others, contained or not, and never takes one id for another.            *)
THEOREM QueueImplementsSequence == Spec => ImplementsSequence
<1>1. Init => Sequence!Init
  <2>1. ASSUME Init PROVE Items = <<>>
    <3>1. Len(order) = 0
      BY <2>1, EmptySeq DEF Init
    <3> QED BY <3>1 DEF Items
  <2> QED BY <2>1 DEF Init, Sequence!Init
<1>2. IndInv /\ IndInv' /\ [Next]_vars => [Sequence!Next]_<<Items, answer>>
  BY StepRefines
<1> QED BY <1>1, <1>2, IndInvHolds, PTL DEF Spec, ImplementsSequence, Sequence!Spec
===============================================================================
