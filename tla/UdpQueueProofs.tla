---------------------------- MODULE UdpQueueProofs ----------------------------
(***************************************************************************)
(* The sending queue of the UDP client: at most one message in flight, the *)
(* bound on retransmissions, and nothing of the user's left to send once   *)
(* SIGINT was handled; for every number of retries, counter width and      *)
(* queue length.                                                           *)
(*                                                                         *)
(* The bound on retransmissions is not inductive: the counter is tested in *)
(* filterResentMessages and the transmission comes many steps later, the   *)
(* mutex being free in between.  QueueInv adds what the sender knows on    *)
(* the way: from the test to the transmission the first message may be     *)
(* sent once more (Sendable), and while it fills the queue anew after a    *)
(* time-out nothing in it was ever sent (Unsent).  For the AUTH that       *)
(* logicFSM drops in OPEN it needs OneInFlight as well: what comes to the  *)
(* front then was never sent.                                              *)
(***************************************************************************)
EXTENDS UdpStepProofs

(* The invariants as properties of a queue q.                               *)
OneInFlightIn(q) ==
  \A i \in DOMAIN q : q[i].sendCount > 0 =>
    \A j \in 1 .. i - 1 : q[j].type = "CONF"
BoundedIn(q) == \A i \in DOMAIN q : q[i].sendCount <= udpMaxRetries + 1
Sendable(q)  == q = <<>> \/ q[1].sendCount <= udpMaxRetries
Unsent(q)    == \A i \in DOMAIN q : q[i].sendCount = 0
NoneOf(T, q) == \A i \in DOMAIN q : q[i].type \notin T

QueueInv ==
  /\ OneInFlight /\ RetransmissionBound
  /\ pc["sender"] \in ToSend => Sendable(queue)
  /\ pc["sender"] \in Refill => Unsent(queue)

(* What a change of the queue from q to r preserves.                        *)
Kept(q, r) ==
  /\ OneInFlightIn(q) => OneInFlightIn(r)
  /\ BoundedIn(q) => BoundedIn(r)
  /\ Sendable(q) => Sendable(r)
  /\ Unsent(q) => Unsent(r)

LEMMA RetriesNat == udpMaxRetries \in Nat /\ CounterSize \in Nat \ {0}
BY ConstantsAssumption

LEMMA MessageFields ==
  ASSUME NEW m \in Message
  PROVE  m.sendCount \in Nat /\ m.type \in MsgTypes
BY RetriesNat DEF Message

LEMMA SeqAppend ==
  ASSUME NEW q \in Seq(Message), NEW m \in Message
  PROVE  /\ Append(q, m) \in Seq(Message)
         /\ DOMAIN Append(q, m) = 1 .. Len(q) + 1
         /\ \A i \in DOMAIN q : Append(q, m)[i] = q[i]
         /\ Append(q, m)[Len(q) + 1] = m
OBVIOUS

LEMMA SeqPush ==
  ASSUME NEW q \in Seq(Message), NEW m \in Message
  PROVE  /\ <<m>> \o q \in Seq(Message)
         /\ DOMAIN (<<m>> \o q) = 1 .. Len(q) + 1
         /\ (<<m>> \o q)[1] = m
         /\ \A i \in 2 .. Len(q) + 1 : (<<m>> \o q)[i] = q[i - 1]
OBVIOUS

LEMMA SeqTail ==
  ASSUME NEW q \in Seq(Message), q # <<>>
  PROVE  /\ Tail(q) \in Seq(Message)
         /\ DOMAIN Tail(q) = 1 .. Len(q) - 1
         /\ \A i \in DOMAIN Tail(q) : i + 1 \in DOMAIN q /\ Tail(q)[i] = q[i + 1]
OBVIOUS

LEMMA SeqFirst ==
  ASSUME NEW q \in Seq(Message), q # <<>>
  PROVE  /\ Head(q) \in Message /\ q[1] = Head(q)
         /\ DOMAIN q = 1 .. Len(q) /\ Len(q) \in Nat \ {0}
OBVIOUS

LEMMA SeqHead ==
  ASSUME NEW q \in Seq(Message), q # <<>>, NEW m \in Message
  PROVE  /\ [q EXCEPT ![1] = m] \in Seq(Message)
         /\ DOMAIN [q EXCEPT ![1] = m] = DOMAIN q
         /\ [q EXCEPT ![1] = m][1] = m
         /\ \A i \in DOMAIN q : i # 1 => [q EXCEPT ![1] = m][i] = q[i]
OBVIOUS

LEMMA KeptEmpty == ASSUME NEW q PROVE Kept(q, <<>>)
BY DEF Kept, OneInFlightIn, BoundedIn, Sendable, Unsent

(* A message never sent is added at the end.                                *)
LEMMA KeptAppend ==
  ASSUME NEW q \in Seq(Message), NEW m \in Message, m.sendCount = 0
  PROVE  Kept(q, Append(q, m))
<1> DEFINE r == Append(q, m)
<1>1. /\ DOMAIN r = 1 .. Len(q) + 1 /\ DOMAIN q = 1 .. Len(q) /\ Len(q) \in Nat
      /\ \A i \in DOMAIN q : r[i] = q[i]
      /\ r[Len(q) + 1] = m
  BY SeqAppend
<1>2. r # <<>> /\ (q = <<>> => Len(q) = 0) /\ (q # <<>> => 1 \in DOMAIN q)
  BY <1>1
<1> HIDE DEF r
<1>3. OneInFlightIn(q) => OneInFlightIn(r)
  BY <1>1 DEF OneInFlightIn
<1>4. BoundedIn(q) => BoundedIn(r)
  BY <1>1, RetriesNat DEF BoundedIn
<1>5. Sendable(q) => Sendable(r)
  BY <1>1, <1>2, RetriesNat DEF Sendable
<1>6. Unsent(q) => Unsent(r)
  BY <1>1 DEF Unsent
<1> QED
  BY <1>3, <1>4, <1>5, <1>6 DEF Kept, r

(* A confirmation never sent is put in front.                               *)
LEMMA KeptPush ==
  ASSUME NEW q \in Seq(Message), NEW m \in Message, m.sendCount = 0,
         m.type = "CONF"
  PROVE  Kept(q, <<m>> \o q)
<1> DEFINE r == <<m>> \o q
<1>1. /\ DOMAIN r = 1 .. Len(q) + 1 /\ DOMAIN q = 1 .. Len(q) /\ Len(q) \in Nat
      /\ r[1] = m
      /\ \A i \in 2 .. Len(q) + 1 : r[i] = q[i - 1]
  BY SeqPush
<1> HIDE DEF r
<1>3. OneInFlightIn(q) => OneInFlightIn(r)
  <2> SUFFICES ASSUME OneInFlightIn(q), NEW i \in DOMAIN r, r[i].sendCount > 0,
                      NEW j \in 1 .. i - 1
               PROVE  r[j].type = "CONF"
    BY DEF OneInFlightIn
  <2>1. i # 1 /\ i - 1 \in DOMAIN q /\ q[i - 1].sendCount > 0
    BY <1>1
  <2>2. CASE j = 1
    BY <1>1, <2>2
  <2>3. CASE j # 1
    BY <1>1, <2>1, <2>3 DEF OneInFlightIn
  <2> QED
    BY <2>2, <2>3
<1>4. BoundedIn(q) => BoundedIn(r)
  BY <1>1, RetriesNat DEF BoundedIn
<1>5. Sendable(r)
  BY <1>1, RetriesNat DEF Sendable
<1>6. Unsent(q) => Unsent(r)
  BY <1>1 DEF Unsent
<1> QED
  BY <1>3, <1>4, <1>5, <1>6 DEF Kept, r

(* The first message is replaced by one of the same type and counter.       *)
LEMMA KeptHead ==
  ASSUME NEW q \in Seq(Message), q # <<>>, NEW m \in Message,
         m.sendCount = Head(q).sendCount, m.type = Head(q).type
  PROVE  Kept(q, [q EXCEPT ![1] = m])
<1> DEFINE r == [q EXCEPT ![1] = m]
<1>1. /\ DOMAIN r = DOMAIN q /\ r[1] = m /\ q[1] = Head(q)
      /\ \A i \in DOMAIN q : i # 1 => r[i] = q[i]
      /\ DOMAIN q = 1 .. Len(q) /\ Len(q) \in Nat /\ r # <<>>
  BY SeqHead, SeqFirst
<1> HIDE DEF r
<1>2. \A i \in DOMAIN q : r[i].sendCount = q[i].sendCount /\ r[i].type = q[i].type
  BY <1>1
<1>3. OneInFlightIn(q) => OneInFlightIn(r)
  BY <1>1, <1>2 DEF OneInFlightIn
<1>4. BoundedIn(q) => BoundedIn(r)
  BY <1>1, <1>2 DEF BoundedIn
<1>5. Sendable(q) => Sendable(r)
  BY <1>1 DEF Sendable
<1>6. Unsent(q) => Unsent(r)
  BY <1>1, <1>2 DEF Unsent
<1> QED
  BY <1>3, <1>4, <1>5, <1>6 DEF Kept, r

(* The first message is dropped.                                            *)
LEMMA DroppedHead ==
  ASSUME NEW q \in Seq(Message), q # <<>>
  PROVE  /\ OneInFlightIn(q) => OneInFlightIn(Tail(q))
         /\ BoundedIn(q) => BoundedIn(Tail(q))
         /\ Unsent(q) => Unsent(Tail(q))
         /\ OneInFlightIn(q) /\ Head(q).type # "CONF" => Unsent(Tail(q))
<1> DEFINE r == Tail(q)
<1>1. /\ DOMAIN r = 1 .. Len(q) - 1 /\ DOMAIN q = 1 .. Len(q) /\ Len(q) \in Nat
      /\ q[1] = Head(q)
      /\ \A i \in DOMAIN r : i + 1 \in DOMAIN q /\ r[i] = q[i + 1]
      /\ \A i \in DOMAIN q : q[i].sendCount \in Nat
  BY SeqTail, SeqFirst, MessageFields
<1> HIDE DEF r
<1>2. OneInFlightIn(q) => OneInFlightIn(r)
  <2> SUFFICES ASSUME OneInFlightIn(q), NEW i \in DOMAIN r, r[i].sendCount > 0,
                      NEW j \in 1 .. i - 1
               PROVE  r[j].type = "CONF"
    BY DEF OneInFlightIn
  <2>1. /\ j \in DOMAIN r /\ r[j] = q[j + 1] /\ r[i] = q[i + 1]
        /\ i + 1 \in DOMAIN q /\ j + 1 \in 1 .. (i + 1) - 1
    BY <1>1
  <2> QED
    BY <2>1 DEF OneInFlightIn
<1>3. BoundedIn(q) => BoundedIn(r)
  BY <1>1 DEF BoundedIn
<1>4. Unsent(q) => Unsent(r)
  BY <1>1 DEF Unsent
<1>5. OneInFlightIn(q) /\ Head(q).type # "CONF" => Unsent(r)
  <2> SUFFICES ASSUME OneInFlightIn(q), Head(q).type # "CONF", NEW i \in DOMAIN r,
                      r[i].sendCount # 0
               PROVE  FALSE
    BY DEF Unsent
  <2>1. q[i + 1].sendCount > 0 /\ i + 1 \in DOMAIN q /\ 1 \in 1 .. (i + 1) - 1
    BY <1>1
  <2> QED
    BY <1>1, <2>1 DEF OneInFlightIn
<1> QED
  BY <1>2, <1>3, <1>4, <1>5 DEF r

(* What a transmission makes of the first message.                          *)
LEMMA SentMessage ==
  ASSUME TypeOK, NEW m \in Message
  PROVE  /\ queueMessageSended(queueSetMessageID(m)) \in Message
         /\ queueMessageSended(queueSetMessageID(m)).type = m.type
         /\ queueMessageSended(queueSetMessageID(m)).msgFlags = m.msgFlags
         /\ queueMessageSended(queueSetMessageID(m)).sendCount
              \in {0, m.sendCount + 1}
         /\ NotResent(queueSetMessageID(m)) <=> NotResent(m)
<1> DEFINE n == queueSetMessageID(m)
<1>1. /\ n \in Message /\ n.type = m.type /\ n.sendCount = m.sendCount
      /\ n.msgFlags = m.msgFlags
  BY DEF queueSetMessageID, Message, TypeOK, InterfaceOK
<1>2. m.sendCount \in 0 .. CounterSize - 1
  BY DEF Message
<1>3. (m.sendCount + 1) % CounterSize \in {0, m.sendCount + 1}
      /\ (m.sendCount + 1) % CounterSize \in 0 .. CounterSize - 1
  <2>1. CASE m.sendCount + 1 = CounterSize
    BY <1>2, <2>1, RetriesNat
  <2>2. CASE m.sendCount + 1 < CounterSize
    BY <1>2, <2>2, RetriesNat
  <2> QED
    BY <1>2, <2>1, <2>2, RetriesNat
<1> HIDE DEF n
<1> QED
  BY <1>1, <1>3 DEF queueMessageSended, Message, NotResent, n

LEMMA AfterSendKeeps ==
  ASSUME TypeOK, NEW q \in Seq(Message), q # <<>>
  PROVE  /\ OneInFlightIn(q) => OneInFlightIn(AfterSend(q))
         /\ BoundedIn(q) /\ Sendable(q) => BoundedIn(AfterSend(q))
<1> DEFINE m == queueMessageSended(queueSetMessageID(Head(q)))
           r == [q EXCEPT ![1] = m]
<1>1. CASE AfterSend(q) = Tail(q)
  BY <1>1, DroppedHead
<1>2. CASE AfterSend(q) = r
  <2>1. Head(q) \in Message
    BY SeqFirst
  <2>2. /\ m \in Message /\ m.type = Head(q).type
        /\ m.sendCount \in {0, Head(q).sendCount + 1}
        /\ Head(q).sendCount \in Nat
    BY <2>1, SentMessage, MessageFields
  <2> HIDE DEF m
  <2>3. /\ DOMAIN r = DOMAIN q /\ r[1] = m /\ q[1] = Head(q)
        /\ \A i \in DOMAIN q : i # 1 => r[i] = q[i]
        /\ DOMAIN q = 1 .. Len(q) /\ Len(q) \in Nat
    BY <2>2, SeqHead, SeqFirst
  <2> HIDE DEF r
  <2>4. \A i \in DOMAIN q : r[i].type = q[i].type
    BY <2>2, <2>3
  <2>5. OneInFlightIn(q) => OneInFlightIn(r)
    BY <2>3, <2>4 DEF OneInFlightIn
  <2>6. BoundedIn(q) /\ Sendable(q) => BoundedIn(r)
    BY <2>2, <2>3, RetriesNat DEF BoundedIn, Sendable
  <2> QED
    BY <1>2, <2>5, <2>6
<1> QED
  BY <1>1, <1>2 DEF AfterSend, queuePopMessage

LEMMA NewMessages ==
  ASSUME TypeOK, CmdKnown
  PROVE  /\ \A m \in LastMessages :
              /\ m \in Message /\ m.sendCount = 0 /\ m.type \in {"BYE", "ERR"}
              /\ m.msgFlags = m.type
         /\ \A c \in Confirmations :
              /\ c \in Message /\ c.sendCount = 0 /\ c.type = "CONF"
              /\ c.msgFlags \in {"CONFIRM", "NOK_REPLY"}
         /\ pc["main"] = "m_add" =>
              UserMessage(cmd) \in Message /\ UserMessage(cmd).sendCount = 0
<1>1. rx.id \in MsgIds
  BY DEF TypeOK, RecvOK, SrvMessage
<1>2. \A c \in Confirmations :
        /\ c \in Message /\ c.sendCount = 0 /\ c.type = "CONF"
        /\ c.msgFlags \in {"CONFIRM", "NOK_REPLY"}
  BY <1>1, createMessageType
     DEF Confirmations, Confirmation, createMessage, MsgTypes, MsgFlags
<1>3. pc["main"] = "m_add" => UserMessage(cmd) \in Message
  BY TypeOf_FlagsOf DEF CmdKnown, TypeOK, MainOK, UserMessage
<1> QED
  BY <1>2, <1>3, ConstantMessagesType
     DEF LastMessages, ByeMessage, ErrMessage, createMessage, UserMessage

-----------------------------------------------------------------------------
(* Main and the receiver only add messages that were never sent, or mark    *)
(* the first one.                                                           *)
LEMMA MainKeeps ==
  ASSUME TypeOK, CmdKnown, MainQueue
  PROVE  Kept(queue, queue')
<1>1. queue \in Seq(Message)
  BY DEF TypeOK, InterfaceOK
<1>2. CASE queue' = queue
  BY <1>2 DEF Kept
<1>3. CASE queue' = <<>>
  BY <1>3, KeptEmpty
<1>4. CASE queue' = Append(queue, ByeMessage)
  BY <1>1, <1>4, NewMessages, KeptAppend DEF LastMessages
<1>5. CASE pc["main"] = "m_add" /\ queue' = Append(queue, UserMessage(cmd))
  BY <1>1, <1>5, NewMessages, KeptAppend
<1> QED
  BY <1>2, <1>3, <1>4, <1>5 DEF MainQueue

(* The receiver's marks change nothing else of a message.                   *)
LEMMA MarkedMessage ==
  ASSUME NEW m \in Message, NEW f \in MsgFlags
  PROVE  /\ [m EXCEPT !.msgFlags = f] \in Message
         /\ [m EXCEPT !.msgFlags = f].sendCount = m.sendCount
         /\ [m EXCEPT !.msgFlags = f].type = m.type
         /\ [m EXCEPT !.msgFlags = f].msgFlags = f
         /\ [m EXCEPT !.confirmed = TRUE] \in Message
         /\ [m EXCEPT !.confirmed = TRUE].sendCount = m.sendCount
         /\ [m EXCEPT !.confirmed = TRUE].type = m.type
         /\ [m EXCEPT !.confirmed = TRUE].msgFlags = m.msgFlags
BY DEF Message

LEMMA ReceiverKeeps ==
  ASSUME TypeOK, CmdKnown, ReceiverQueue
  PROVE  Kept(queue, queue')
<1>1. queue \in Seq(Message) /\ <<>> \in Seq(Message)
  BY DEF TypeOK, InterfaceOK
<1>2. CASE queue' = queue
  BY <1>2 DEF Kept
<1>3. CASE queue' = <<>>
  BY <1>3, KeptEmpty
<1>4. CASE \E m \in LastMessages : queue' = Append(queue, m)
  BY <1>1, <1>4, NewMessages, KeptAppend
<1>5. CASE \E c \in Confirmations, q \in {queue, <<>>} : queue' = <<c>> \o q
  <2>1. PICK c \in Confirmations, q \in {queue, <<>>} : queue' = <<c>> \o q
    BY <1>5
  <2>2. Kept(q, queue')
    BY <1>1, <2>1, NewMessages, KeptPush
  <2>3. Kept(queue, q)
    BY KeptEmpty DEF Kept
  <2> QED
    BY <2>2, <2>3 DEF Kept
<1>6. CASE \E f \in MsgFlags :
             queue # <<>> /\ queue' = [queue EXCEPT ![1].msgFlags = f]
  <2>1. PICK f \in MsgFlags :
               queue # <<>> /\ queue' = [queue EXCEPT ![1].msgFlags = f]
    BY <1>6
  <2> DEFINE m == [Head(queue) EXCEPT !.msgFlags = f]
  <2>2. /\ m \in Message /\ m.sendCount = Head(queue).sendCount
        /\ m.type = Head(queue).type
    BY <1>1, <2>1, SeqFirst, MarkedMessage
  <2>3. queue' = [queue EXCEPT ![1] = m]
    BY <1>1, <2>1
  <2> QED
    BY <1>1, <2>1, <2>2, <2>3, KeptHead
<1>7. CASE queue # <<>> /\ queue' = [queue EXCEPT ![1].confirmed = TRUE]
  <2> DEFINE m == [Head(queue) EXCEPT !.confirmed = TRUE]
  <2>1. /\ m \in Message /\ m.sendCount = Head(queue).sendCount
        /\ m.type = Head(queue).type
    BY <1>1, <1>7, SeqFirst, MarkedMessage DEF MsgFlags
  <2>2. queue' = [queue EXCEPT ![1] = m]
    BY <1>1, <1>7
  <2> QED
    BY <1>1, <1>7, <2>1, <2>2, KeptHead
<1> QED
  BY <1>2, <1>3, <1>4, <1>5, <1>6, <1>7 DEF ReceiverQueue, MsgFlags

(* A step of another thread leaves the sender on its way.                   *)
LEMMA SenderStays ==
  ASSUME NEW t \in Threads \ {"sender"}, Others(t)
  PROVE  /\ pc'["sender"] \in ToSend => pc["sender"] \in ToSend
         /\ pc'["sender"] \in Refill => pc["sender"] \in Refill
<1>1. pc'["sender"] = pc["sender"] \/ Woken("sender")
  BY DEF Others, Threads
<1> QED
  BY <1>1, WokenCases DEF Threads, ToSend, Refill

LEMMA OthersKeepQueueInv ==
  ASSUME QueueInv, NEW t \in Threads \ {"sender"}, Others(t), Kept(queue, queue')
  PROVE  QueueInv'
BY SenderStays DEF QueueInv, Kept, OneInFlight, OneInFlightIn,
   RetransmissionBound, BoundedIn, Sendable, Unsent

(* The sender itself: it sends what is Sendable, and gets onto the way to a *)
(* transmission only by the test of the counter, from a queue it has just   *)
(* filled, or by dropping an AUTH that is in flight or was never sent.      *)
LEMMA SenderKeepsQueueInv ==
  ASSUME TypeOK, CmdKnown, QueueInv, SenderDoes
  PROVE  QueueInv'
<1>a. queue \in Seq(Message) /\ QueueInv
  BY DEF TypeOK, InterfaceOK
<1>b. OneInFlightIn(queue) /\ BoundedIn(queue)
  BY DEF QueueInv, OneInFlight, OneInFlightIn, RetransmissionBound, BoundedIn
<1>c. pc["sender"] \in SendLabels => Sendable(queue)
  BY DEF QueueInv, SendLabels, ToSend
<1>d. \A m \in LastMessages : Kept(queue, Append(queue, m))
  BY <1>a, NewMessages, KeptAppend
<1>1. OneInFlightIn(queue') /\ BoundedIn(queue')
  <2>1. CASE queue' = queue
    BY <1>b, <2>1
  <2>2. CASE queue' = <<>>
    BY <1>b, <2>2, KeptEmpty DEF Kept
  <2>3. CASE \E m \in LastMessages : queue' = Append(queue, m)
    BY <1>b, <1>d, <2>3 DEF Kept
  <2>4. CASE queue # <<>> /\ queue' = Tail(queue)
    BY <1>a, <1>b, <2>4, DroppedHead
  <2>5. CASE /\ pc["sender"] \in SendLabels
             /\ queue # <<>> /\ queue' = AfterSend(queue)
    BY <1>a, <1>b, <1>c, <2>5, AfterSendKeeps
  <2> QED
    BY <2>1, <2>2, <2>3, <2>4, <2>5 DEF SenderDoes, SenderQueue
<1>2. ASSUME pc'["sender"] \in ToSend PROVE Sendable(queue')
  <2>1. CASE queue' = queue /\ pc["sender"] \in ToSend
    BY <1>a, <2>1 DEF QueueInv
  <2>2. CASE queue' = queue /\ pc["sender"] = "s_toLock"
    <3>1. Unsent(queue)
      BY <1>a, <2>2 DEF QueueInv, Refill
    <3> QED
      BY <1>a, <2>2, <3>1, SeqFirst, RetriesNat DEF Unsent, Sendable
  <2>3. CASE queue' = queue /\ queue # <<>> /\ ~TimedOut(Top)
    BY <1>a, <2>3, SeqFirst, MessageFields, RetriesNat
       DEF TimedOut, Top, Sendable
  <2>4. CASE queue # <<>> /\ Top.type = "AUTH" /\ queue' = Tail(queue)
    <3>1. Unsent(queue')
      BY <1>a, <1>b, <2>4, DroppedHead DEF Top
    <3>2. queue' = <<>> \/ 1 \in DOMAIN queue'
      BY <1>a, <2>4, SeqTail
    <3> QED
      BY <3>1, <3>2, RetriesNat DEF Unsent, Sendable
  <2> QED
    BY <1>2, <2>1, <2>2, <2>3, <2>4 DEF SenderDoes, SenderEnters
<1>3. ASSUME pc'["sender"] \in Refill PROVE Unsent(queue')
  <2>1. CASE queue' = <<>>
    BY <2>1 DEF Unsent
  <2>2. CASE pc["sender"] \in Refill /\ queue' = queue
    BY <1>a, <2>2 DEF QueueInv
  <2>3. CASE /\ pc["sender"] \in Refill
             /\ \E m \in LastMessages : queue' = Append(queue, m)
    BY <1>a, <1>d, <2>3 DEF QueueInv, Kept
  <2> QED
    BY <1>3, <2>1, <2>2, <2>3 DEF SenderDoes, SenderEnters
<1> QED
  BY <1>1, <1>2, <1>3 DEF QueueInv, OneInFlight, OneInFlightIn,
     RetransmissionBound, BoundedIn

LEMMA NextQueueInv == StepInv /\ QueueInv /\ [Next]_vars => QueueInv'
<1> SUFFICES ASSUME StepInv, QueueInv, [Next]_vars PROVE QueueInv'
  OBVIOUS
<1>1. TypeOK /\ CmdKnown
  BY DEF StepInv, IndInv
<1>2. "main" \in Threads \ {"sender"} /\ "receiver" \in Threads \ {"sender"}
  BY DEF Threads
<1>3. CASE MainDoes
  BY <1>1, <1>2, <1>3, MainKeeps, OthersKeepQueueInv DEF MainDoes
<1>4. CASE SenderDoes
  BY <1>1, <1>4, SenderKeepsQueueInv
<1>5. CASE ReceiverDoes
  BY <1>1, <1>2, <1>5, ReceiverKeeps, OthersKeepQueueInv DEF ReceiverDoes
<1>6. CASE Wakes
  BY <1>2, <1>6, OthersKeepQueueInv DEF Wakes, Others, Kept
<1> QED
  BY <1>3, <1>4, <1>5, <1>6, NextDoes

LEMMA InitQueueInv == Init \/ InitOpen => QueueInv
<1> SUFFICES ASSUME Init \/ InitOpen PROVE QueueInv
  OBVIOUS
<1>1. queue = <<>>
  BY DEF Init, InitOpen
<1> QED
  BY <1>1 DEF QueueInv, OneInFlight, RetransmissionBound, Sendable, Unsent

(* Stop and wait: whatever is confirmed, timed out, pushed in front or      *)
(* dropped, a message in flight has nothing but confirmations before it.    *)
THEOREM OneInFlightHolds ==
  (Spec => []OneInFlight) /\ (OpenSpec => []OneInFlight)
<1>1. QueueInv => OneInFlight
  BY DEF QueueInv
<1> QED
  BY <1>1, InitStepInv, NextStepInv, InitQueueInv, NextQueueInv, PTL
     DEF Spec, OpenSpec

(* No message is transmitted more than 1 + udpMaxRetries times, although    *)
(* the test of the counter and the transmission are steps apart.            *)
THEOREM RetransmissionBoundHolds ==
  (Spec => []RetransmissionBound) /\ (OpenSpec => []RetransmissionBound)
<1>1. QueueInv => RetransmissionBound
  BY DEF QueueInv
<1> QED
  BY <1>1, InitStepInv, NextStepInv, InitQueueInv, NextQueueInv, PTL
     DEF Spec, OpenSpec

-----------------------------------------------------------------------------
(* No thread changes the type of a message, and the sender and the receiver *)
(* queue nothing but confirmations, ERR and BYE.                            *)
LEMMA NoneOfAppend ==
  ASSUME NEW T, NEW q \in Seq(Message), NEW m \in Message, m.type \notin T,
         NoneOf(T, q)
  PROVE  NoneOf(T, Append(q, m))
BY SeqAppend DEF NoneOf

LEMMA NoneOfPush ==
  ASSUME NEW T, NEW q \in Seq(Message), NEW m \in Message, m.type \notin T,
         NoneOf(T, q)
  PROVE  NoneOf(T, <<m>> \o q)
BY SeqPush DEF NoneOf

LEMMA NoneOfTail ==
  ASSUME NEW T, NEW q \in Seq(Message), q # <<>>, NoneOf(T, q)
  PROVE  NoneOf(T, Tail(q))
BY SeqTail DEF NoneOf

LEMMA NoneOfHead ==
  ASSUME NEW T, NEW q \in Seq(Message), q # <<>>, NEW m \in Message,
         m.type = Head(q).type, NoneOf(T, q)
  PROVE  NoneOf(T, [q EXCEPT ![1] = m])
BY SeqHead, SeqFirst DEF NoneOf

LEMMA SenderAddsNone ==
  ASSUME NEW T, T \cap {"CONF", "BYE", "ERR"} = {},
         TypeOK, CmdKnown, SenderQueue, NoneOf(T, queue)
  PROVE  NoneOf(T, queue')
<1>1. queue \in Seq(Message)
  BY DEF TypeOK, InterfaceOK
<1>2. CASE \E m \in LastMessages : queue' = Append(queue, m)
  BY <1>1, <1>2, NewMessages, NoneOfAppend
<1>3. CASE queue # <<>> /\ queue' = Tail(queue)
  BY <1>1, <1>3, NoneOfTail
<1>4. CASE queue # <<>> /\ queue' = AfterSend(queue)
  <2> DEFINE m == queueMessageSended(queueSetMessageID(Head(queue)))
  <2>1. m \in Message /\ m.type = Head(queue).type
    BY <1>1, <1>4, SeqFirst, SentMessage
  <2>2. queue' = Tail(queue) \/ queue' = [queue EXCEPT ![1] = m]
    BY <1>4 DEF AfterSend, queuePopMessage
  <2> HIDE DEF m
  <2>3. CASE queue' = Tail(queue)
    BY <1>1, <1>4, <2>3, NoneOfTail
  <2>4. CASE queue' = [queue EXCEPT ![1] = m]
    <3>1. NoneOf(T, [queue EXCEPT ![1] = m])
      BY <1>1, <1>4, <2>1, NoneOfHead
    <3> QED
      BY <2>4, <3>1
  <2> QED
    BY <2>2, <2>3, <2>4
<1> QED
  BY <1>2, <1>3, <1>4 DEF SenderQueue, NoneOf

LEMMA ReceiverAddsNone ==
  ASSUME NEW T, T \cap {"CONF", "BYE", "ERR"} = {},
         TypeOK, CmdKnown, ReceiverQueue, NoneOf(T, queue)
  PROVE  NoneOf(T, queue')
<1>1. queue \in Seq(Message) /\ <<>> \in Seq(Message) /\ NoneOf(T, <<>>)
  BY DEF TypeOK, InterfaceOK, NoneOf
<1>2. CASE \E m \in LastMessages : queue' = Append(queue, m)
  BY <1>1, <1>2, NewMessages, NoneOfAppend
<1>3. CASE \E c \in Confirmations, q \in {queue, <<>>} : queue' = <<c>> \o q
  <2>1. PICK c \in Confirmations, q \in {queue, <<>>} : queue' = <<c>> \o q
    BY <1>3
  <2>2. c \in Message /\ c.type \notin T /\ q \in Seq(Message) /\ NoneOf(T, q)
    BY <1>1, NewMessages
  <2> QED
    BY <2>1, <2>2, NoneOfPush
<1>4. CASE /\ queue # <<>>
           /\ \/ \E f \in MsgFlags : queue' = [queue EXCEPT ![1].msgFlags = f]
              \/ queue' = [queue EXCEPT ![1].confirmed = TRUE]
  <2>1. PICK m \in Message : /\ m.type = Head(queue).type
                             /\ queue' = [queue EXCEPT ![1] = m]
    <3>1. CASE queue' = [queue EXCEPT ![1].confirmed = TRUE]
      <4>1. queue' = [queue EXCEPT ![1] = [Head(queue) EXCEPT !.confirmed = TRUE]]
        BY <1>1, <1>4, <3>1
      <4>2. /\ [Head(queue) EXCEPT !.confirmed = TRUE] \in Message
            /\ [Head(queue) EXCEPT !.confirmed = TRUE].type = Head(queue).type
        BY <1>1, <1>4, SeqFirst, MarkedMessage DEF MsgFlags
      <4> QED
        BY <4>1, <4>2
    <3>2. CASE \E f \in MsgFlags : queue' = [queue EXCEPT ![1].msgFlags = f]
      <4>1. PICK f \in MsgFlags : queue' = [queue EXCEPT ![1].msgFlags = f]
        BY <3>2
      <4>2. queue' = [queue EXCEPT ![1] = [Head(queue) EXCEPT !.msgFlags = f]]
        BY <1>1, <1>4, <4>1
      <4> QED
        BY <1>1, <1>4, <4>2, SeqFirst, MarkedMessage
    <3> QED
      BY <1>4, <3>1, <3>2
  <2> QED
    BY <1>1, <1>4, <2>1, NoneOfHead
<1> QED
  BY <1>1, <1>2, <1>3, <1>4 DEF ReceiverQueue, MsgFlags

-----------------------------------------------------------------------------
(* SIGINT.  Only main queues what the user typed, and in its handler it     *)
(* queues nothing but a BYE.                                                *)
UserData == {"AUTH", "JOIN", "MSG"}

LEMMA MainNoUserData ==
  ASSUME TypeOK, CmdKnown, NoUserDataAfterSigint, MainDoes
  PROVE  NoUserDataAfterSigint'
<1> SUFFICES ASSUME pc'["main"] \in Emptied PROVE NoneOf(UserData, queue')
  BY DEF NoUserDataAfterSigint, NoneOf, Emptied, UserData
<1>1. queue \in Seq(Message)
  BY DEF TypeOK, InterfaceOK
<1>2. CASE queue' = <<>>
  BY <1>2 DEF NoneOf
<1>3. CASE pc["main"] \in Emptied
  <2>1. NoneOf(UserData, queue)
    BY <1>3 DEF NoUserDataAfterSigint, NoneOf, Emptied, UserData
  <2>2. queue' \in {queue, <<>>, Append(queue, ByeMessage)}
    BY <1>3 DEF MainDoes, MainQueue, Emptied
  <2> QED
    BY <1>1, <1>2, <2>1, <2>2, NewMessages, NoneOfAppend
       DEF LastMessages, UserData
<1> QED
  BY <1>2, <1>3 DEF MainDoes, MainEnters

LEMMA NextNoUserData ==
  StepInv /\ NoUserDataAfterSigint /\ [Next]_vars => NoUserDataAfterSigint'
<1> SUFFICES ASSUME StepInv, NoUserDataAfterSigint, [Next]_vars
             PROVE  NoUserDataAfterSigint'
  OBVIOUS
<1>1. TypeOK /\ CmdKnown
  BY DEF StepInv, IndInv
<1>2. CASE MainDoes
  BY <1>1, <1>2, MainNoUserData
<1>3. CASE SenderDoes \/ ReceiverDoes \/ Wakes
  <2>1. pc'["main"] = pc["main"] \/ Woken("main")
    BY <1>3 DEF SenderDoes, ReceiverDoes, Wakes, Others, Threads
  <2>2. pc'["main"] \in Emptied => pc["main"] \in Emptied
    BY <2>1, WokenCases DEF Threads, Emptied
  <2>3. NoneOf(UserData, queue) => NoneOf(UserData, queue')
    BY <1>1, <1>3, SenderAddsNone, ReceiverAddsNone
       DEF SenderDoes, ReceiverDoes, Wakes, UserData
  <2> QED
    BY <2>2, <2>3 DEF NoUserDataAfterSigint, NoneOf, Emptied, UserData
<1> QED
  BY <1>2, <1>3, NextDoes

(* After the SIGINT handler has emptied the queue, no AUTH, JOIN or MSG is  *)
(* ever in it again, whatever the sender and the receiver are doing.        *)
THEOREM NoUserDataAfterSigintHolds ==
  /\ Spec => []NoUserDataAfterSigint
  /\ OpenSpec => []NoUserDataAfterSigint
<1>1. Init \/ InitOpen => NoUserDataAfterSigint
  BY DEF Init, InitOpen, NoUserDataAfterSigint
<1> QED
  BY <1>1, InitStepInv, NextStepInv, NextNoUserData, PTL DEF Spec, OpenSpec
==============================================================================
