------------------------- MODULE UdpRefinementProofs -------------------------
(***************************************************************************)
(* The UDP client implements StopAndWait: for every counter width, number  *)
(* of retries below the largest value of the counter and queue length,     *)
(* each step of the three threads transmits a message when none is in      *)
(* flight, repeats the one that is, settles it by taking it out of the     *)
(* queue, or leaves it alone.                                              *)
(*                                                                         *)
(* From the start of the program this holds of the client's own messages   *)
(* and rests on QueueInv: OneInFlight leaves only confirmations in front   *)
(* of a message in flight, so one of the client's own is alone.            *)
(*                                                                         *)
(* In the open session it holds with the confirmations counted as well.    *)
(* OpenInv says what the login leaves behind: no way leads back in front   *)
(* of it, so nobody marks the first message for a login any more, so every *)
(* confirmation keeps the flag with which it is dropped when it is sent    *)
(* and is never in flight.  During the login that fails: a positive REPLY  *)
(* may mark a confirmation that was pushed in front of the AUTH, and that  *)
(* is then repeated.                                                       *)
(***************************************************************************)
EXTENDS UdpQueueProofs

(* A message as the open session queues it.                                 *)
Plain(m) == /\ m.msgFlags # "AUTH"
            /\ m.type = "CONF" => NotResent(m) /\ m.sendCount = 0
AllPlain(q) == \A i \in DOMAIN q : Plain(q[i])

OpenInv ==
  /\ fsm >= fsm_W84_REPLY_CONF
  /\ AllPlain(queue)
  /\ pc["main"] # "m_authSet"
  /\ pc["sender"] \notin {"s_authGet", "s_authSet"}
  /\ pc["receiver"] \notin {"r_confReply", "r_okFlag", "r_nokStart"}
  /\ pc["main"] \in {"m_lock", "m_add"} => cmd # "AUTH"

LEMMA StateNumbers ==
  /\ fsm_START = 0 /\ fsm_AUTH_SENDED = 2 /\ fsm_W84_REPLY = 3
  /\ fsm_W84_REPLY_CONF = 4 /\ fsm_OPEN = 5 /\ fsm_JOIN_ATEMPT = 6
  /\ \A s : Ending(s) => s >= 7
BY DEF fsm_START, fsm_AUTH_SENDED, fsm_W84_REPLY, fsm_W84_REPLY_CONF, fsm_OPEN,
       fsm_JOIN_ATEMPT, Ending, fsm_EMPTY_Q_BYE

LEMMA FsmNat == TypeOK => fsm \in Nat
BY DEF TypeOK, InterfaceOK, FsmStates

-----------------------------------------------------------------------------
(* The queue keeps to plain messages.                                       *)
LEMMA PlainAppend ==
  ASSUME NEW q \in Seq(Message), NEW m \in Message, Plain(m), AllPlain(q)
  PROVE  AllPlain(Append(q, m))
<1> DEFINE r == Append(q, m)
<1>1. /\ DOMAIN r = 1 .. Len(q) + 1 /\ DOMAIN q = 1 .. Len(q) /\ Len(q) \in Nat
      /\ \A i \in DOMAIN q : r[i] = q[i]
      /\ r[Len(q) + 1] = m
  BY SeqAppend
<1> HIDE DEF r
<1>2. \A i \in DOMAIN r : Plain(r[i])
  BY <1>1 DEF AllPlain
<1> QED
  BY <1>2 DEF AllPlain, r

LEMMA PlainPush ==
  ASSUME NEW q \in Seq(Message), NEW m \in Message, Plain(m), AllPlain(q)
  PROVE  AllPlain(<<m>> \o q)
<1> DEFINE r == <<m>> \o q
<1>1. /\ DOMAIN r = 1 .. Len(q) + 1 /\ DOMAIN q = 1 .. Len(q) /\ Len(q) \in Nat
      /\ r[1] = m
      /\ \A i \in 2 .. Len(q) + 1 : r[i] = q[i - 1]
  BY SeqPush
<1> HIDE DEF r
<1>2. \A i \in DOMAIN r : Plain(r[i])
  BY <1>1 DEF AllPlain
<1> QED
  BY <1>2 DEF AllPlain, r

LEMMA PlainTail ==
  ASSUME NEW q \in Seq(Message), q # <<>>, AllPlain(q)
  PROVE  AllPlain(Tail(q))
BY SeqTail DEF AllPlain

LEMMA PlainHead ==
  ASSUME NEW q \in Seq(Message), q # <<>>, AllPlain(q), NEW m \in Message, Plain(m)
  PROVE  AllPlain([q EXCEPT ![1] = m])
<1> DEFINE r == [q EXCEPT ![1] = m]
<1>1. /\ DOMAIN r = DOMAIN q /\ r[1] = m
      /\ \A i \in DOMAIN q : i # 1 => r[i] = q[i]
  BY SeqHead
<1> HIDE DEF r
<1>2. \A i \in DOMAIN r : Plain(r[i])
  BY <1>1 DEF AllPlain
<1> QED
  BY <1>2 DEF AllPlain, r

LEMMA FirstPlain ==
  ASSUME NEW q \in Seq(Message), q # <<>>, AllPlain(q)
  PROVE  Head(q) \in Message /\ Plain(Head(q))
BY SeqFirst DEF AllPlain

(* What is queued in the open session.                                      *)
LEMMA NewPlain ==
  ASSUME TypeOK, CmdKnown
  PROVE  /\ \A m \in LastMessages \cup Confirmations : m \in Message /\ Plain(m)
         /\ pc["main"] = "m_add" /\ cmd # "AUTH" =>
              UserMessage(cmd) \in Message /\ Plain(UserMessage(cmd))
<1>1. ASSUME pc["main"] = "m_add", cmd # "AUTH" PROVE Plain(UserMessage(cmd))
  <2>1. cmd \in UserCommandSet
    BY DEF TypeOK, MainOK
  <2>2. TypeOf(cmd) # "CONF" /\ FlagsOf(cmd) = "NONE"
    BY <1>1, <2>1 DEF UserCommandSet, TypeOf, FlagsOf
  <2> QED
    BY <2>2 DEF UserMessage, createMessage, Plain
<1>2. \A m \in LastMessages : m \in Message /\ Plain(m)
  BY NewMessages DEF Plain
<1>3. \A m \in Confirmations : m \in Message /\ Plain(m)
  BY NewMessages DEF Plain, NotResent
<1> QED
  BY <1>1, <1>2, <1>3, NewMessages

(* The first message as a transmission leaves it in the queue.              *)
Sent(m) == queueMessageSended(queueSetMessageID(m))

LEMMA SentCounts ==
  ASSUME TypeOK, NEW m \in Message, m.sendCount + 1 < CounterSize
  PROVE  Sent(m).sendCount = m.sendCount + 1
<1> DEFINE n == queueSetMessageID(m)
<1>1. n \in Message /\ n.sendCount = m.sendCount
  BY DEF queueSetMessageID, Message, TypeOK, InterfaceOK
<1>2. m.sendCount \in Nat
  BY MessageFields
<1>3. (m.sendCount + 1) % CounterSize = m.sendCount + 1
  BY <1>2, RetriesNat
<1> HIDE DEF n
<1>4. queueMessageSended(n).sendCount = (m.sendCount + 1) % CounterSize
  BY <1>1 DEF queueMessageSended, Message
<1> QED
  BY <1>3, <1>4 DEF Sent, n

LEMMA AfterSendIs ==
  ASSUME TypeOK, NEW q \in Seq(Message), q # <<>>, AllPlain(q)
  PROVE  \/ NotResent(Head(q)) /\ AfterSend(q) = Tail(q)
         \/ /\ Head(q).type # "CONF" /\ AfterSend(q) = [q EXCEPT ![1] = Sent(Head(q))]
            /\ Sent(Head(q)) \in Message /\ Plain(Sent(Head(q)))
            /\ Sent(Head(q)).type = Head(q).type
            /\ Sent(Head(q)).sendCount \in {0, Head(q).sendCount + 1}
<1>1. Head(q) \in Message /\ Plain(Head(q))
  BY FirstPlain
<1>2. CASE NotResent(Head(q))
  <2>1. NotResent(queueSetMessageID(Head(q)))
    BY <1>1, <1>2, SentMessage
  <2> QED
    BY <1>2, <2>1 DEF AfterSend, queuePopMessage
<1>3. CASE ~NotResent(Head(q))
  <2>1. /\ ~NotResent(queueSetMessageID(Head(q)))
        /\ Sent(Head(q)) \in Message /\ Sent(Head(q)).type = Head(q).type
        /\ Sent(Head(q)).msgFlags = Head(q).msgFlags
        /\ Sent(Head(q)).sendCount \in {0, Head(q).sendCount + 1}
    BY <1>1, <1>3, SentMessage DEF Sent
  <2>2. Head(q).type # "CONF" /\ Head(q).msgFlags # "AUTH"
    BY <1>1, <1>3 DEF Plain
  <2>3. Plain(Sent(Head(q)))
    BY <2>1, <2>2 DEF Plain
  <2>4. AfterSend(q) = [q EXCEPT ![1] = Sent(Head(q))]
    BY <2>1 DEF AfterSend, Sent
  <2> QED
    BY <2>1, <2>2, <2>3, <2>4
<1> QED
  BY <1>2, <1>3
-----------------------------------------------------------------------------
(* OpenInv is inductive.                                                    *)
LoginPath == {"m_authSet", "m_lock", "m_add", "s_authGet", "s_authSet",
              "r_confReply", "r_okFlag", "r_nokStart"}

LEMMA OthersStay ==
  ASSUME NEW t, Others(t), NEW u \in Threads \ {t}, pc'[u] \in LoginPath
  PROVE  pc'[u] = pc[u]
<1>1. pc'[u] = pc[u] \/ Woken(u)
  BY DEF Others
<1> QED
  BY <1>1, WokenCases DEF LoginPath

LEMMA OpenFsm ==
  ASSUME fsm >= 4, fsm' \in Nat, fsm' = fsm \/ Ending(fsm') \/ fsm' \in {4, 5, 6}
  PROVE  fsm' >= fsm_W84_REPLY_CONF
BY StateNumbers

LEMMA MainKeepsOpenInv ==
  ASSUME TypeOK, TypeOK', CmdKnown, OpenInv, MainDoes
  PROVE  OpenInv'
<1>a. /\ queue \in Seq(Message) /\ fsm \in Nat /\ fsm >= 4 /\ AllPlain(queue)
      /\ pc["main"] # "m_authSet"
  BY FsmNat, StateNumbers DEF TypeOK, InterfaceOK, OpenInv
<1>0. fsm' \in Nat
  BY DEF TypeOK, InterfaceOK, FsmStates
<1>1. fsm' >= fsm_W84_REPLY_CONF
  BY <1>0, <1>a, OpenFsm DEF MainDoes, MainFsm
<1>2. AllPlain(queue')
  <2>1. CASE queue' = queue \/ queue' = <<>>
    BY <1>a, <2>1 DEF AllPlain
  <2>2. CASE queue' = Append(queue, ByeMessage)
    BY <1>a, <2>2, NewPlain, PlainAppend DEF LastMessages
  <2>3. CASE pc["main"] = "m_add" /\ queue' = Append(queue, UserMessage(cmd))
    <3>1. cmd # "AUTH"
      BY <2>3 DEF OpenInv
    <3> QED
      BY <1>a, <2>3, <3>1, NewPlain, PlainAppend
  <2> QED
    BY <2>1, <2>2, <2>3 DEF MainDoes, MainQueue
<1>3. pc'["main"] # "m_authSet"
  BY <1>a, StateNumbers DEF MainDoes, MainEnters
<1>4. /\ pc'["sender"] \notin {"s_authGet", "s_authSet"}
      /\ pc'["receiver"] \notin {"r_confReply", "r_okFlag", "r_nokStart"}
  BY OthersStay DEF MainDoes, OpenInv, Threads, LoginPath
<1>5. pc'["main"] \in {"m_lock", "m_add"} => cmd' # "AUTH"
  <2>1. CASE pc'["main"] = "m_lock"
    BY <1>a, <2>1 DEF MainDoes, MainEnters
  <2>2. CASE pc'["main"] = "m_add"
    BY <2>2 DEF MainDoes, MainEnters, OpenInv
  <2> QED
    BY <2>1, <2>2
<1> QED
  BY <1>1, <1>2, <1>3, <1>4, <1>5 DEF OpenInv, AllPlain, Plain, NotResent

LEMMA SenderKeepsOpenInv ==
  ASSUME TypeOK, TypeOK', CmdKnown, OpenInv, SenderDoes
  PROVE  OpenInv'
<1>a. /\ queue \in Seq(Message) /\ fsm \in Nat /\ fsm >= 4 /\ AllPlain(queue)
      /\ pc["sender"] # "s_authSet"
  BY FsmNat, StateNumbers DEF TypeOK, InterfaceOK, OpenInv
<1>0. fsm' \in Nat
  BY DEF TypeOK, InterfaceOK, FsmStates
<1>1. fsm' >= fsm_W84_REPLY_CONF
  BY <1>0, <1>a, StateNumbers, OpenFsm DEF SenderDoes, SenderFsm
<1>2. AllPlain(queue')
  <2>1. CASE queue' = queue \/ queue' = <<>>
    BY <1>a, <2>1 DEF AllPlain
  <2>2. CASE \E m \in LastMessages : queue' = Append(queue, m)
    BY <1>a, <2>2, NewPlain, PlainAppend
  <2>3. CASE queue # <<>> /\ queue' = Tail(queue)
    BY <1>a, <2>3, PlainTail
  <2>4. CASE queue # <<>> /\ queue' = AfterSend(queue)
    <3>1. AllPlain(Tail(queue))
      BY <1>a, <2>4, PlainTail
    <3>2. Sent(Head(queue)) \in Message /\ Plain(Sent(Head(queue))) =>
            AllPlain([queue EXCEPT ![1] = Sent(Head(queue))])
      BY <1>a, <2>4, PlainHead
    <3> QED
      BY <1>a, <2>4, <3>1, <3>2, AfterSendIs
  <2> QED
    BY <2>1, <2>2, <2>3, <2>4 DEF SenderDoes, SenderQueue
<1>3. pc'["sender"] \notin {"s_authGet", "s_authSet"}
  BY <1>a, StateNumbers DEF SenderDoes, SenderEnters
<1>4. /\ pc'["main"] # "m_authSet"
      /\ pc'["receiver"] \notin {"r_confReply", "r_okFlag", "r_nokStart"}
      /\ pc'["main"] \in {"m_lock", "m_add"} => cmd' # "AUTH"
  BY OthersStay DEF SenderDoes, mainVars, OpenInv, Threads, LoginPath
<1> QED
  BY <1>1, <1>2, <1>3, <1>4 DEF OpenInv, AllPlain, Plain, NotResent

LEMMA ReceiverKeepsOpenInv ==
  ASSUME TypeOK, TypeOK', CmdKnown, OpenInv, ReceiverDoes
  PROVE  OpenInv'
<1>a. /\ queue \in Seq(Message) /\ <<>> \in Seq(Message) /\ fsm \in Nat /\ fsm >= 4
      /\ AllPlain(queue) /\ AllPlain(<<>>)
      /\ pc["receiver"] \notin {"r_confReply", "r_okFlag", "r_nokStart"}
  BY FsmNat, StateNumbers DEF TypeOK, InterfaceOK, OpenInv, AllPlain
<1>b. queue # <<>> => Head(queue) \in Message /\ Plain(Head(queue))
  BY <1>a, FirstPlain
<1>0. fsm' \in Nat
  BY DEF TypeOK, InterfaceOK, FsmStates
<1>1. fsm' >= fsm_W84_REPLY_CONF
  BY <1>0, <1>a, StateNumbers, OpenFsm DEF ReceiverDoes, ReceiverFsm
<1>2. AllPlain(queue')
  <2>1. CASE queue' = queue \/ queue' = <<>>
    BY <1>a, <2>1 DEF AllPlain
  <2>2. CASE \E m \in LastMessages : queue' = Append(queue, m)
    BY <1>a, <2>2, NewPlain, PlainAppend
  <2>3. CASE \E c \in Confirmations, q \in {queue, <<>>} : queue' = <<c>> \o q
    BY <1>a, <2>3, NewPlain, PlainPush
  <2>4. CASE queue # <<>> /\ queue' = [queue EXCEPT ![1].confirmed = TRUE]
    <3> DEFINE m == [Head(queue) EXCEPT !.confirmed = TRUE]
    <3>1. /\ m \in Message /\ m.msgFlags = Head(queue).msgFlags
          /\ m.type = Head(queue).type /\ m.sendCount = Head(queue).sendCount
      BY <1>b, <2>4, MarkedMessage DEF MsgFlags
    <3>2. queue' = [queue EXCEPT ![1] = m]
      BY <1>a, <2>4
    <3> HIDE DEF m
    <3>3. Plain(m)
      BY <1>b, <2>4, <3>1 DEF Plain, NotResent
    <3>4. AllPlain([queue EXCEPT ![1] = m])
      BY <1>a, <2>4, <3>1, <3>3, PlainHead
    <3> QED
      BY <3>2, <3>4
  <2>5. ~(queue # <<>> /\ Head(queue).msgFlags = "AUTH")
    BY <1>b DEF Plain
  <2> QED
    BY <1>a, <2>1, <2>2, <2>3, <2>4, <2>5 DEF ReceiverDoes, ReceiverQueue
<1>3. pc'["receiver"] \notin {"r_confReply", "r_okFlag", "r_nokStart"}
  <2>1. pc'["receiver"] # "r_nokStart"
    BY <1>b DEF ReceiverDoes, ReceiverEnters, Plain
  <2> QED
    BY <1>a, <2>1, StateNumbers DEF ReceiverDoes, ReceiverEnters
<1>4. /\ pc'["main"] # "m_authSet"
      /\ pc'["sender"] \notin {"s_authGet", "s_authSet"}
      /\ pc'["main"] \in {"m_lock", "m_add"} => cmd' # "AUTH"
  BY OthersStay DEF ReceiverDoes, mainVars, OpenInv, Threads, LoginPath
<1> QED
  BY <1>1, <1>2, <1>3, <1>4 DEF OpenInv, AllPlain, Plain, NotResent

LEMMA NextOpenInv == StepInv /\ OpenInv /\ [Next]_vars => OpenInv'
<1> SUFFICES ASSUME StepInv, OpenInv, [Next]_vars PROVE OpenInv'
  OBVIOUS
<1>1. TypeOK /\ TypeOK' /\ CmdKnown
  BY NextStepInv DEF StepInv, IndInv
<1>2. CASE MainDoes
  BY <1>1, <1>2, MainKeepsOpenInv
<1>3. CASE SenderDoes
  BY <1>1, <1>3, SenderKeepsOpenInv
<1>4. CASE ReceiverDoes
  BY <1>1, <1>4, ReceiverKeepsOpenInv
<1>5. CASE Wakes
  <2>1. UNCHANGED <<fsm, queue, cmd>> /\ Others("none")
    BY <1>5 DEF Wakes, mainVars, Others
  <2>2. \A u \in Threads : pc'[u] \in LoginPath => pc'[u] = pc[u]
    BY <2>1, OthersStay DEF Threads
  <2> QED
    BY <2>1, <2>2 DEF OpenInv, Threads, LoginPath
<1> QED
  BY <1>2, <1>3, <1>4, <1>5, NextDoes

LEMMA InitOpenOpenInv == InitOpen => OpenInv
BY StateNumbers DEF InitOpen, OpenInv, AllPlain
-----------------------------------------------------------------------------
(* The message of the client's own in flight in a queue q.                  *)
Flying(m) == m.sendCount > 0 /\ m.type # "CONF"
Sents(q)  == {i \in DOMAIN q : Flying(q[i])}
Quiet(q)  == \A i \in DOMAIN q : ~Flying(q[i])
FlightIn(q) ==
  IF Sents(q) = {} THEN [type |-> "none", tries |-> 0]
  ELSE LET m == q[CHOOSE i \in Sents(q) : \A j \in Sents(q) : i <= j]
       IN  [type |-> m.type, tries |-> m.sendCount]

NoFlight   == [type |-> "none", tries |-> 0]
FlightOf(m) == [type |-> m.type, tries |-> m.sendCount]

LEMMA OwnFlightIs == OwnFlight = FlightIn(queue) /\ OwnFlight' = FlightIn(queue')
<1>1. OwnInFlight = Sents(queue) /\ OwnInFlight' = Sents(queue')
  BY DEF OwnInFlight, InFlight, Sents, Flying
<1> QED
  BY <1>1 DEF OwnFlight, FlightIn

(* In the open session no confirmation is in flight.                        *)
LEMMA FlightIs ==
  /\ OpenInv => Flight = FlightIn(queue)
  /\ OpenInv' => Flight' = FlightIn(queue')
<1>1. OpenInv => InFlight = Sents(queue)
  BY DEF OpenInv, AllPlain, Plain, InFlight, Sents, Flying
<1>2. OpenInv' => InFlight' = Sents(queue')
  BY DEF OpenInv, AllPlain, Plain, InFlight, Sents, Flying
<1> QED
  BY <1>1, <1>2 DEF Flight, FlightIn

(* Message i of q is in flight, and no other.                               *)
FliesAt(q, i) == /\ i \in DOMAIN q /\ Flying(q[i])
                 /\ \A j \in DOMAIN q \ {i} : ~Flying(q[j])

LEMMA FlightNone ==
  ASSUME NEW q, Quiet(q)
  PROVE  FlightIn(q) = NoFlight
<1>1. Sents(q) = {}
  BY DEF Quiet, Sents
<1> QED
  BY <1>1 DEF FlightIn, NoFlight

LEMMA FlightOne ==
  ASSUME NEW q \in Seq(Message), NEW i, FliesAt(q, i)
  PROVE  FlightIn(q) = FlightOf(q[i])
<1>1. Sents(q) = {i} /\ i \in Nat
  BY DEF FliesAt, Sents
<1>2. (CHOOSE k \in Sents(q) : \A j \in Sents(q) : k <= j) = i
  BY <1>1
<1> QED
  BY <1>1, <1>2 DEF FlightIn, FlightOf

(* With nothing but confirmations in front of it, the message of the        *)
(* client's own in flight is the only one.                                  *)
LEMMA FlightCases ==
  ASSUME NEW q \in Seq(Message), OneInFlightIn(q)
  PROVE  Quiet(q) \/ \E i : FliesAt(q, i)
<1> SUFFICES ASSUME ~Quiet(q) PROVE \E i : FliesAt(q, i)
  OBVIOUS
<1>1. \A i \in DOMAIN q : i \in Nat \ {0}
  OBVIOUS
<1>2. PICK i \in DOMAIN q : Flying(q[i])
  BY DEF Quiet
<1>3. ASSUME NEW j \in DOMAIN q \ {i}, Flying(q[j]) PROVE FALSE
  BY <1>1, <1>2, <1>3 DEF OneInFlightIn, Flying
<1> QED
  BY <1>2, <1>3 DEF FliesAt

(* Two queues whose messages in flight agree.                               *)
LEMMA FlightSame ==
  ASSUME NEW q \in Seq(Message), NEW r \in Seq(Message), NEW i, NEW j,
         FliesAt(q, i), FliesAt(r, j), q[i].type = r[j].type,
         q[i].sendCount = r[j].sendCount
  PROVE  FlightIn(q) = FlightIn(r)
BY FlightOne DEF FlightOf

LEMMA FlightAppend ==
  ASSUME NEW q \in Seq(Message), OneInFlightIn(q),
         NEW m \in Message, ~Flying(m)
  PROVE  FlightIn(Append(q, m)) = FlightIn(q)
<1> DEFINE r == Append(q, m)
<1>1. /\ r \in Seq(Message)
      /\ DOMAIN r = 1 .. Len(q) + 1 /\ DOMAIN q = 1 .. Len(q) /\ Len(q) \in Nat
      /\ \A i \in DOMAIN q : r[i] = q[i]
      /\ r[Len(q) + 1] = m
  BY SeqAppend
<1> HIDE DEF r
<1>2. CASE Quiet(q)
  <2>1. Quiet(r)
    BY <1>1, <1>2 DEF Quiet
  <2> QED
    BY <1>2, <2>1, FlightNone DEF r
<1>3. ASSUME NEW i, FliesAt(q, i) PROVE FlightIn(r) = FlightIn(q)
  <2>1. FliesAt(r, i) /\ r[i] = q[i]
    BY <1>1, <1>3 DEF FliesAt
  <2> QED
    BY <1>1, <1>3, <2>1, FlightSame
<1> QED
  BY <1>2, <1>3, FlightCases DEF r

LEMMA FlightPush ==
  ASSUME NEW q \in Seq(Message), OneInFlightIn(q),
         NEW m \in Message, ~Flying(m)
  PROVE  FlightIn(<<m>> \o q) = FlightIn(q)
<1> DEFINE r == <<m>> \o q
<1>1. /\ r \in Seq(Message)
      /\ DOMAIN r = 1 .. Len(q) + 1 /\ DOMAIN q = 1 .. Len(q) /\ Len(q) \in Nat
      /\ r[1] = m
      /\ \A i \in 2 .. Len(q) + 1 : r[i] = q[i - 1]
  BY SeqPush
<1> HIDE DEF r
<1>2. CASE Quiet(q)
  <2>1. ASSUME NEW j \in DOMAIN r PROVE ~Flying(r[j])
    <3>1. CASE j = 1
      BY <1>1, <3>1
    <3>2. CASE j # 1
      <4>1. j - 1 \in DOMAIN q /\ r[j] = q[j - 1]
        BY <1>1, <3>2
      <4> QED
        BY <1>2, <4>1 DEF Quiet
    <3> QED
      BY <3>1, <3>2
  <2>2. Quiet(r)
    BY <2>1 DEF Quiet
  <2> QED
    BY <1>2, <2>2, FlightNone DEF r
<1>3. ASSUME NEW i, FliesAt(q, i) PROVE FlightIn(r) = FlightIn(q)
  <2>1. i + 1 \in 2 .. Len(q) + 1 /\ r[i + 1] = q[(i + 1) - 1] /\ (i + 1) - 1 = i
    BY <1>1, <1>3 DEF FliesAt
  <2>2. ASSUME NEW j \in DOMAIN r \ {i + 1} PROVE ~Flying(r[j])
    <3>1. CASE j = 1
      BY <1>1, <3>1
    <3>2. CASE j # 1
      <4>1. j - 1 \in DOMAIN q \ {i} /\ r[j] = q[j - 1]
        BY <1>1, <1>3, <2>2, <3>2 DEF FliesAt
      <4> QED
        BY <1>3, <4>1 DEF FliesAt
    <3> QED
      BY <3>1, <3>2
  <2>3. FliesAt(r, i + 1)
    BY <1>1, <1>3, <2>1, <2>2 DEF FliesAt
  <2> QED
    BY <1>1, <1>3, <2>1, <2>3, FlightSame
<1> QED
  BY <1>2, <1>3, FlightCases DEF r

LEMMA FlightHead ==
  ASSUME NEW q \in Seq(Message), OneInFlightIn(q), q # <<>>,
         NEW m \in Message, m.type = Head(q).type,
         m.type = "CONF" \/ m.sendCount = Head(q).sendCount
  PROVE  FlightIn([q EXCEPT ![1] = m]) = FlightIn(q)
<1> DEFINE r == [q EXCEPT ![1] = m]
<1>1. /\ r \in Seq(Message) /\ DOMAIN r = DOMAIN q /\ r[1] = m /\ q[1] = Head(q)
      /\ \A i \in DOMAIN q : i # 1 => r[i] = q[i]
  BY SeqHead, SeqFirst
<1> HIDE DEF r
<1>2. \A i \in DOMAIN q :
        /\ r[i].type = q[i].type
        /\ r[i].type = "CONF" \/ r[i].sendCount = q[i].sendCount
  BY <1>1
<1>3. CASE Quiet(q)
  <2>1. Quiet(r)
    BY <1>1, <1>2, <1>3 DEF Quiet, Flying
  <2> QED
    BY <1>3, <2>1, FlightNone DEF r
<1>4. ASSUME NEW i, FliesAt(q, i) PROVE FlightIn(r) = FlightIn(q)
  <2>1. /\ FliesAt(r, i) /\ r[i].type = q[i].type
        /\ r[i].sendCount = q[i].sendCount
    BY <1>1, <1>2, <1>4 DEF FliesAt, Flying
  <2> QED
    BY <1>1, <1>2, <1>4, <2>1, FlightSame
<1> QED
  BY <1>3, <1>4, FlightCases DEF r

(* The first message is dropped: it was in flight, or what is still is.     *)
LEMMA FlightTail ==
  ASSUME NEW q \in Seq(Message), OneInFlightIn(q), q # <<>>
  PROVE  FlightIn(Tail(q)) \in {FlightIn(q), NoFlight}
<1> DEFINE r == Tail(q)
<1>1. /\ r \in Seq(Message)
      /\ DOMAIN r = 1 .. Len(q) - 1 /\ DOMAIN q = 1 .. Len(q) /\ Len(q) \in Nat
      /\ \A i \in DOMAIN r : i + 1 \in DOMAIN q /\ r[i] = q[i + 1]
  BY SeqTail, SeqFirst
<1> HIDE DEF r
<1>2. CASE Quiet(r)
  BY <1>2, FlightNone DEF r
<1>3. ASSUME NEW i, FliesAt(q, i), ~Quiet(r) PROVE FlightIn(r) = FlightIn(q)
  <2>1. PICK j \in DOMAIN r : Flying(r[j])
    BY <1>3 DEF Quiet
  <2>2. j + 1 = i /\ r[j] = q[i] /\ j \in Nat
    BY <1>1, <1>3, <2>1 DEF FliesAt
  <2>3. \A k \in DOMAIN r \ {j} : ~Flying(r[k])
    BY <1>1, <1>3, <2>1, <2>2 DEF FliesAt
  <2>4. FliesAt(r, j)
    BY <1>3, <2>1, <2>2, <2>3 DEF FliesAt
  <2> QED
    BY <1>1, <1>3, <2>2, <2>4, FlightSame
<1>4. Quiet(q) => Quiet(r)
  BY <1>1 DEF Quiet
<1> QED
  BY <1>2, <1>3, <1>4, FlightCases DEF r
-----------------------------------------------------------------------------
(* The message in flight in q has left the queue r.                         *)
Gone(q, r) == \/ Len(r) < Len(q)
              \/ \A i \in DOMAIN r : r[i].type = "CONF"

(* From queue q to r: a step of StopAndWait, or none.                       *)
FlightStep(q, r) ==
  LET f == FlightIn(q)
      g == FlightIn(r)
  IN  \/ g = f
      \/ f = NoFlight /\ \E t \in MsgTypes : g = [type |-> t, tries |-> 1]
      \/ /\ f # NoFlight /\ f.tries < udpMaxRetries + 1
         /\ g = [f EXCEPT !.tries = @ + 1]
      \/ f # NoFlight /\ g = NoFlight /\ Gone(q, r)

(* The counter of a message is wider than the limit: all but -r 255.        *)
NoWrap == udpMaxRetries + 1 < CounterSize

LEMMA FlightDropped ==
  ASSUME NEW q \in Seq(Message), OneInFlightIn(q), q # <<>>
  PROVE  FlightStep(q, Tail(q))
<1>1. Len(Tail(q)) < Len(q)
  BY SeqTail, SeqFirst
<1>2. FlightIn(Tail(q)) \in {FlightIn(q), NoFlight}
  BY FlightTail
<1> QED
  BY <1>1, <1>2 DEF FlightStep, Gone

(* A transmission: the message is a confirmation and dropped, or one that   *)
(* was marked for the AUTH and stays, or a message of the client's own      *)
(* starts its flight, or it was in flight and may be sent once more.        *)
LEMMA FlightSend ==
  ASSUME NoWrap, TypeOK, NEW q \in Seq(Message), OneInFlightIn(q),
         Sendable(q), q # <<>>
  PROVE  FlightStep(q, AfterSend(q))
<1>1. CASE AfterSend(q) = Tail(q)
  BY <1>1, FlightDropped
<1>a. /\ Sent(Head(q)) \in Message
      /\ Sent(Head(q)).type = Head(q).type
      /\ Sent(Head(q)).sendCount \in {0, Head(q).sendCount + 1}
  BY SeqFirst, SentMessage DEF Sent
<1>b. AfterSend(q) = Tail(q) \/ AfterSend(q) = [q EXCEPT ![1] = Sent(Head(q))]
  BY DEF AfterSend, queuePopMessage, Sent
<1>3. CASE Head(q).type = "CONF" /\ AfterSend(q) = [q EXCEPT ![1] = Sent(Head(q))]
  BY <1>a, <1>3, FlightHead DEF FlightStep
<1>2. CASE Head(q).type # "CONF" /\ AfterSend(q) = [q EXCEPT ![1] = Sent(Head(q))]
  <2> DEFINE m == Sent(Head(q))
             r == [q EXCEPT ![1] = m]
  <2>1. /\ m \in Message /\ m.type = Head(q).type /\ m.type \in MsgTypes
        /\ m.sendCount \in {0, Head(q).sendCount + 1}
        /\ Head(q).sendCount \in Nat /\ Head(q).sendCount <= udpMaxRetries
    BY <1>a, SeqFirst, MessageFields DEF Sendable
  <2> HIDE DEF m
  <2>2. /\ r \in Seq(Message) /\ DOMAIN r = DOMAIN q /\ r[1] = m /\ q[1] = Head(q)
        /\ \A i \in DOMAIN q : i # 1 => r[i] = q[i]
        /\ DOMAIN q = 1 .. Len(q) /\ Len(q) \in Nat \ {0} /\ 1 \in DOMAIN q
    BY <2>1, SeqHead, SeqFirst
  <2> HIDE DEF r
  <2>3. \A i \in DOMAIN q \ {1} : ~Flying(q[i])
    <3> SUFFICES ASSUME NEW i \in DOMAIN q \ {1}, Flying(q[i]) PROVE FALSE
      OBVIOUS
    <3>1. q[i].sendCount > 0 /\ 1 \in 1 .. i - 1
      BY <2>2 DEF Flying
    <3> QED
      BY <1>2, <2>2, <3>1 DEF OneInFlightIn
  <2>4. \A i \in DOMAIN r \ {1} : ~Flying(r[i])
    BY <2>2, <2>3
  <2>5. FlightIn(q) = IF Head(q).sendCount = 0 THEN NoFlight ELSE FlightOf(Head(q))
    <3>1. CASE Head(q).sendCount = 0
      <4>1. Quiet(q)
        BY <2>2, <2>3, <3>1 DEF Quiet, Flying
      <4> QED
        BY <3>1, <4>1, FlightNone
    <3>2. CASE Head(q).sendCount # 0
      <4>1. FliesAt(q, 1)
        BY <1>2, <2>1, <2>2, <2>3, <3>2 DEF FliesAt, Flying
      <4> QED
        BY <2>2, <3>2, <4>1, FlightOne
    <3> QED
      BY <3>1, <3>2
  <2>6. FlightIn(r) = IF m.sendCount = 0 THEN NoFlight ELSE FlightOf(m)
    <3>1. CASE m.sendCount = 0
      <4>1. Quiet(r)
        BY <2>2, <2>4, <3>1 DEF Quiet, Flying
      <4> QED
        BY <3>1, <4>1, FlightNone
    <3>2. CASE m.sendCount # 0
      <4>1. FliesAt(r, 1)
        <5>1. Flying(m)
          BY <1>2, <2>1, <3>2 DEF Flying
        <5> QED
          BY <2>2, <2>4, <5>1 DEF FliesAt
      <4> QED
        BY <2>2, <3>2, <4>1, FlightOne
    <3> QED
      BY <3>1, <3>2
  <2>7. m.sendCount # 0
    <3>1. Head(q).sendCount + 1 < CounterSize
      BY <2>1, RetriesNat DEF NoWrap
    <3>2. m.sendCount = Head(q).sendCount + 1
      BY <2>2, <3>1, SentCounts, SeqFirst DEF m
    <3> QED
      BY <2>1, <3>2
  <2>8. CASE m.sendCount # 0 /\ Head(q).sendCount = 0
    <3>1. FlightIn(q) = NoFlight /\ FlightIn(r) = [type |-> m.type, tries |-> 1]
      BY <2>1, <2>5, <2>6, <2>8 DEF FlightOf
    <3> QED
      BY <1>2, <2>1, <3>1 DEF FlightStep, r, m
  <2>9. CASE m.sendCount # 0 /\ Head(q).sendCount # 0
    <3>1. /\ FlightIn(q) = [type |-> m.type, tries |-> Head(q).sendCount]
          /\ FlightIn(r) = [type |-> m.type, tries |-> Head(q).sendCount + 1]
      BY <2>1, <2>5, <2>6, <2>9 DEF FlightOf
    <3>2. FlightIn(q) # NoFlight /\ FlightIn(q).tries < udpMaxRetries + 1
      BY <2>1, <2>9, <3>1, RetriesNat DEF NoFlight
    <3>3. FlightIn(r) = [FlightIn(q) EXCEPT !.tries = @ + 1]
      BY <3>1
    <3> QED
      BY <1>2, <3>2, <3>3 DEF FlightStep, r, m
  <2> QED
    BY <2>7, <2>8, <2>9
<1> QED
  BY <1>b, <1>1, <1>2, <1>3

(* Everything is dropped, but for a confirmation.                           *)
LEMMA FlightEmptied ==
  ASSUME NEW q, NEW r, FlightIn(r) = NoFlight, \A i \in DOMAIN r : r[i].type = "CONF"
  PROVE  FlightStep(q, r)
BY DEF FlightStep, Gone

LEMMA FlightOfEmpty == FlightIn(<<>>) = NoFlight /\ DOMAIN <<>> = {}
BY FlightNone DEF Quiet

(* A flight that ends has left the queue.                                   *)
LEMMA FlightSettled ==
  ASSUME NEW q \in Seq(Message), OneInFlightIn(q), NEW r, FlightStep(q, r),
         FlightIn(q) # NoFlight, FlightIn(r) = NoFlight
  PROVE  Gone(q, r)
<1>1. ASSUME FlightIn(r) = [FlightIn(q) EXCEPT !.tries = @ + 1] PROVE FALSE
  <2>1. PICK i : FliesAt(q, i)
    BY FlightCases, FlightNone
  <2>2. FlightIn(q) = FlightOf(q[i]) /\ q[i] \in Message
    BY <2>1, FlightOne DEF FliesAt
  <2>3. q[i].sendCount \in Nat
    BY <2>2, MessageFields
  <2>4. FlightIn(r).tries = q[i].sendCount + 1
    BY <1>1, <2>2 DEF FlightOf
  <2> QED BY <2>3, <2>4 DEF NoFlight
<1> QED
  BY <1>1 DEF FlightStep

(* Each thread's steps, as steps of the flight.                             *)
FlightInv == StepInv /\ QueueInv

LEMMA QueueFacts ==
  ASSUME FlightInv
  PROVE  /\ TypeOK /\ CmdKnown /\ queue \in Seq(Message) /\ <<>> \in Seq(Message)
         /\ OneInFlightIn(queue) /\ OneInFlightIn(<<>>)
         /\ pc["sender"] \in SendLabels => Sendable(queue)
         /\ queue # <<>> => Head(queue) \in Message
<1>1. TypeOK /\ CmdKnown /\ queue \in Seq(Message)
  BY DEF FlightInv, StepInv, IndInv, TypeOK, InterfaceOK
<1>2. /\ OneInFlightIn(queue)
      /\ pc["sender"] \in SendLabels => Sendable(queue)
  BY DEF FlightInv, QueueInv, OneInFlight, OneInFlightIn, SendLabels, ToSend
<1>3. OneInFlightIn(<<>>) /\ <<>> \in Seq(Message)
  BY DEF OneInFlightIn
<1> QED
  BY <1>1, <1>2, <1>3, SeqFirst

(* What is queued has not been sent.                                        *)
LEMMA NewQuiet ==
  ASSUME FlightInv
  PROVE  /\ \A m \in LastMessages \cup Confirmations : m \in Message /\ ~Flying(m)
         /\ ByeMessage \in LastMessages
         /\ pc["main"] = "m_add" =>
              UserMessage(cmd) \in Message /\ ~Flying(UserMessage(cmd))
<1>1. ByeMessage \in LastMessages
  BY DEF LastMessages
<1> QED
  BY <1>1, QueueFacts, NewMessages DEF Flying

LEMMA MainFlies ==
  ASSUME FlightInv, MainQueue
  PROVE  FlightStep(queue, queue')
<1>1. CASE queue' = queue
  BY <1>1 DEF FlightStep
<1>2. CASE queue' = <<>>
  BY <1>2, FlightEmptied, FlightOfEmpty
<1>3. CASE queue' = Append(queue, ByeMessage)
  BY <1>3, QueueFacts, NewQuiet, FlightAppend DEF FlightStep
<1>4. CASE pc["main"] = "m_add" /\ queue' = Append(queue, UserMessage(cmd))
  BY <1>4, QueueFacts, NewQuiet, FlightAppend DEF FlightStep
<1> QED
  BY <1>1, <1>2, <1>3, <1>4 DEF MainQueue

LEMMA SenderFlies ==
  ASSUME NoWrap, FlightInv, SenderQueue
  PROVE  FlightStep(queue, queue')
<1>1. CASE queue' = queue
  BY <1>1 DEF FlightStep
<1>2. CASE queue' = <<>>
  BY <1>2, FlightEmptied, FlightOfEmpty
<1>3. CASE \E m \in LastMessages : queue' = Append(queue, m)
  BY <1>3, QueueFacts, NewQuiet, FlightAppend DEF FlightStep
<1>4. CASE queue # <<>> /\ queue' = Tail(queue)
  BY <1>4, QueueFacts, FlightDropped
<1>5. CASE /\ pc["sender"] \in SendLabels
           /\ queue # <<>> /\ queue' = AfterSend(queue)
  BY <1>5, QueueFacts, FlightSend
<1> QED
  BY <1>1, <1>2, <1>3, <1>4, <1>5 DEF SenderQueue

LEMMA ReceiverFlies ==
  ASSUME FlightInv, ReceiverQueue
  PROVE  FlightStep(queue, queue')
<1>1. CASE queue' = queue
  BY <1>1 DEF FlightStep
<1>2. CASE queue' = <<>>
  BY <1>2, FlightEmptied, FlightOfEmpty
<1>3. CASE \E m \in LastMessages : queue' = Append(queue, m)
  BY <1>3, QueueFacts, NewQuiet, FlightAppend DEF FlightStep
<1>4. CASE \E c \in Confirmations : queue' = <<c>> \o queue
  BY <1>4, QueueFacts, NewQuiet, FlightPush DEF FlightStep
<1>5. CASE \E c \in Confirmations : queue' = <<c>> \o <<>>
  <2>1. PICK c \in Confirmations : queue' = <<c>> \o <<>>
    BY <1>5
  <2>2. FlightIn(queue') = NoFlight
    BY <2>1, QueueFacts, NewQuiet, FlightPush, FlightOfEmpty
  <2>3. c \in Message /\ c.type = "CONF"
    BY QueueFacts, NewMessages
  <2>4. \A i \in DOMAIN queue' : queue'[i].type = "CONF"
    BY <2>1, <2>3
  <2> QED
    BY <2>2, <2>4, FlightEmptied
<1>6. ASSUME NEW m \in Message, queue # <<>>, m.type = Head(queue).type,
             m.sendCount = Head(queue).sendCount, queue' = [queue EXCEPT ![1] = m]
      PROVE  FlightStep(queue, queue')
  BY <1>6, QueueFacts, FlightHead DEF FlightStep
<1>7. CASE queue # <<>> /\ queue' = [queue EXCEPT ![1].confirmed = TRUE]
  <2> DEFINE m == [Head(queue) EXCEPT !.confirmed = TRUE]
  <2>1. /\ m \in Message /\ m.type = Head(queue).type
        /\ m.sendCount = Head(queue).sendCount
    BY <1>7, QueueFacts, MarkedMessage DEF MsgFlags
  <2>2. queue' = [queue EXCEPT ![1] = m]
    BY <1>7, QueueFacts
  <2> QED
    BY <1>6, <1>7, <2>1, <2>2
<1>8. ASSUME NEW f \in MsgFlags, queue # <<>>,
             queue' = [queue EXCEPT ![1].msgFlags = f]
      PROVE  FlightStep(queue, queue')
  <2> DEFINE m == [Head(queue) EXCEPT !.msgFlags = f]
  <2>1. /\ m \in Message /\ m.type = Head(queue).type
        /\ m.sendCount = Head(queue).sendCount
    BY <1>8, QueueFacts, MarkedMessage
  <2>2. queue' = [queue EXCEPT ![1] = m]
    BY <1>8, QueueFacts
  <2> QED
    BY <1>6, <1>8, <2>1, <2>2
<1>9. "CONFIRMED" \in MsgFlags /\ "REJECTED" \in MsgFlags
  BY DEF MsgFlags
<1> QED
  BY <1>1, <1>2, <1>3, <1>4, <1>5, <1>7, <1>8, <1>9 DEF ReceiverQueue

LEMMA NextFlies ==
  ASSUME NoWrap, FlightInv, [Next]_vars
  PROVE  FlightStep(queue, queue')
<1>1. MainDoes \/ SenderDoes \/ ReceiverDoes \/ Wakes
  BY NextDoes DEF FlightInv
<1>2. CASE MainDoes
  BY <1>2, MainFlies DEF MainDoes
<1>3. CASE SenderDoes
  BY <1>3, SenderFlies DEF SenderDoes
<1>4. CASE ReceiverDoes
  BY <1>4, ReceiverFlies DEF ReceiverDoes
<1>5. CASE Wakes
  BY <1>5 DEF Wakes, FlightStep
<1> QED
  BY <1>1, <1>2, <1>3, <1>4, <1>5

LEMMA NextFlightInv == FlightInv /\ [Next]_vars => FlightInv'
BY NextStepInv, NextQueueInv DEF FlightInv

LEMMA FlightStarts ==
  Init \/ InitOpen => FlightInv /\ FlightIn(queue) = NoFlight
<1>1. Init \/ InitOpen => queue = <<>>
  BY DEF Init, InitOpen
<1>2. FlightIn(<<>>) = NoFlight
  BY FlightNone DEF Quiet
<1> QED
  BY <1>1, <1>2, InitStepInv, InitQueueInv DEF FlightInv

(* From the first state of the program on, and from the open session on,    *)
(* the client's own messages go out one at a time, each at most             *)
(* udpMaxRetries times more before it leaves the queue: a confirmation      *)
(* pushed in front of a message in flight, and one that a REPLY marks in    *)
(* the place of the AUTH and that is then repeated, changes nothing of the  *)
(* message behind it.  For every limit below the largest value of the       *)
(* counter; with a limit equal to it the counter wraps and the message is   *)
(* sent for ever.                                                           *)
THEOREM OwnStopAndWaitHolds ==
  ASSUME NoWrap
  PROVE  (Spec => OwnStopAndWait) /\ (OpenSpec => OwnStopAndWait)
<1>1. Init \/ InitOpen => FlightInv /\ OwnStopAndWaitOf!Init
  BY FlightStarts, OwnFlightIs
     DEF NoFlight, OwnStopAndWaitOf!Init, OwnStopAndWaitOf!Nothing
<1>2. FlightInv /\ [Next]_vars =>
        /\ [OwnStopAndWaitOf!Next]_OwnFlight
        /\ [OwnStopAndWaitOf!Settle => OutOfQueue]_vars
  <2> SUFFICES ASSUME FlightInv, [Next]_vars
               PROVE  /\ [OwnStopAndWaitOf!Next]_OwnFlight
                      /\ OwnStopAndWaitOf!Settle => OutOfQueue
    OBVIOUS
  <2>1. FlightStep(queue, queue') /\ OwnFlight = FlightIn(queue)
        /\ OwnFlight' = FlightIn(queue')
    BY NextFlies, OwnFlightIs
  <2>2. OwnStopAndWaitOf!Settle => OutOfQueue
    BY <2>1, QueueFacts, FlightSettled DEF NoFlight, OwnStopAndWaitOf!Settle,
       OwnStopAndWaitOf!Nothing, OutOfQueue, Gone
  <2> QED
    BY <2>1, <2>2 DEF FlightStep, NoFlight, OwnStopAndWaitOf!Next,
       OwnStopAndWaitOf!Transmit, OwnStopAndWaitOf!Retransmit,
       OwnStopAndWaitOf!Settle, OwnStopAndWaitOf!Nothing
<1> QED
  BY <1>1, <1>2, NextFlightInv, PTL
     DEF Spec, OpenSpec, OwnStopAndWait, OwnStopAndWaitOf!Spec

(* In the open session the three threads, their signals and time-outs do no *)
(* more than StopAndWait, confirmations included: a message goes out when   *)
(* none is in flight, is repeated at most udpMaxRetries times, and nothing  *)
(* takes its place before it has left the queue; for every limit below the  *)
(* largest value of the counter.                                            *)
THEOREM ImplementsStopAndWaitHolds ==
  ASSUME NoWrap
  PROVE  OpenSpec => ImplementsStopAndWait
<1>1. InitOpen => FlightInv /\ OpenInv /\ StopAndWaitOf!Init
  BY FlightStarts, InitOpenOpenInv, FlightIs
     DEF NoFlight, StopAndWaitOf!Init, StopAndWaitOf!Nothing
<1>2. FlightInv /\ OpenInv /\ [Next]_vars => FlightInv' /\ OpenInv'
  BY NextFlightInv, NextOpenInv DEF FlightInv
<1>3. FlightInv /\ OpenInv /\ [Next]_vars =>
        /\ [StopAndWaitOf!Next]_Flight
        /\ [StopAndWaitOf!Settle => OutOfQueue]_vars
  <2> SUFFICES ASSUME FlightInv, OpenInv, [Next]_vars
               PROVE  /\ [StopAndWaitOf!Next]_Flight
                      /\ StopAndWaitOf!Settle => OutOfQueue
    OBVIOUS
  <2>1. FlightStep(queue, queue') /\ Flight = FlightIn(queue)
        /\ Flight' = FlightIn(queue')
    BY <1>2, NextFlies, FlightIs
  <2>2. StopAndWaitOf!Settle => OutOfQueue
    BY <2>1, QueueFacts, FlightSettled DEF NoFlight, StopAndWaitOf!Settle,
       StopAndWaitOf!Nothing, OutOfQueue, Gone
  <2> QED
    BY <2>1, <2>2 DEF FlightStep, NoFlight, StopAndWaitOf!Next,
       StopAndWaitOf!Transmit, StopAndWaitOf!Retransmit,
       StopAndWaitOf!Settle, StopAndWaitOf!Nothing
<1> QED
  BY <1>1, <1>2, <1>3, PTL
     DEF OpenSpec, ImplementsStopAndWait, StopAndWaitOf!Spec
==============================================================================
