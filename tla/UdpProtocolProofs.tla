-------------------------- MODULE UdpProtocolProofs --------------------------
(***************************************************************************)
(* The UDP client as the server sees it, for every command, message of the *)
(* server, id, duplicate and interleaving.                                 *)
(*                                                                         *)
(* The login: nothing of the user's is queued before the server's positive *)
(* reply was acted on, at most one AUTH is under way, and after the login  *)
(* no way leads back in front of it.  All three are about decisions taken  *)
(* on a program state read earlier, so none is inductive.  AuthInv carries *)
(* "authenticated" from the receiver's step that makes it true to every    *)
(* place where a thread has seen a state behind the login but not yet      *)
(* acted on it; LoginInv says who may still bring an AUTH into the queue,  *)
(* or the state back to START, and that these never overlap; FinalInv says *)
(* in which state each thread is that will set one in front of the login,  *)
(* and that an AUTH left in the queue is gone before a JOIN is answered.   *)
(*                                                                         *)
(* The server's messages: a message is printed once, however often it is   *)
(* delivered, and the queue is changed only under its mutex.               *)
(* NoDoublePrint compares a message with everything acted on before.  What *)
(* the code keeps is the list of records, made before the message is acted *)
(* on, so the invariant says that a record outlives its message: whatever  *)
(* was acted on, or is on its way to be, is recorded (Recorded), and a MSG *)
(* that was not found among the records has not been acted on (Fresh).     *)
(***************************************************************************)
EXTENDS UdpQueueProofs

-----------------------------------------------------------------------------
(* The login.                                                               *)
LoggedIn == {fsm_W84_REPLY_CONF, fsm_OPEN, fsm_JOIN_ATEMPT}

AuthInv ==
  /\ AuthBeforeData
  /\ fsm \in LoggedIn => Authenticated
  /\ pc["sender"] \in {"s_open", "s_join"} => Authenticated
  /\ pc["receiver"] = "r_nokOpen" => Authenticated
  /\ pc["receiver"] \in NewReply => rx.type = "REPLY"
  /\ pc["receiver"] \in {"r_okFlag", "r_okSet"} => rx.ok
  /\ pc["main"] \in {"m_lock", "m_add"} /\ cmd \in {"JOIN", "MSG"}
       => Authenticated
  /\ pc["main"] = "m_authSet" => cmd = "AUTH"

Data == {"JOIN", "MSG"}

LEMMA AuthBeforeDataIs == AuthBeforeData <=> Authenticated \/ NoneOf(Data, queue)
BY DEF AuthBeforeData, NoneOf, Data

LEMMA FsmNumbers ==
  /\ LoggedIn = {4, 5, 6} /\ fsm_START = 0 /\ fsm_AUTH_W82 = 1
  /\ fsm_AUTH_SENDED = 2 /\ fsm_W84_REPLY = 3
  /\ \A s : Ending(s) => s \notin LoggedIn /\ s # fsm_START
BY DEF LoggedIn, fsm_START, fsm_AUTH_W82, fsm_AUTH_SENDED, fsm_W84_REPLY,
       fsm_W84_REPLY_CONF, fsm_OPEN, fsm_JOIN_ATEMPT, Ending, fsm_EMPTY_Q_BYE

(* A thread that another one's step wakes goes on at none of the labels the *)
(* invariants speak of.                                                     *)
Watched == {"m_authSet", "m_lock", "m_add", "s_open", "s_join", "s_authGet",
            "s_authSet", "r_nokOpen", "r_nokStart", "r_nok", "r_confReply",
            "r_msg"} \cup NewReply \cup NewMsg

LEMMA WatchedStays ==
  ASSUME NEW t, Others(t), NEW u \in Threads \ {t}, pc'[u] \in Watched
  PROVE  pc'[u] = pc[u]
<1>1. pc'[u] = pc[u] \/ Woken(u)
  BY DEF Others
<1> QED
  BY <1>1, WokenCases DEF Watched, NewReply, NewMsg

LEMMA MainKeepsAuthInv ==
  ASSUME TypeOK, CmdKnown, AuthInv, MainDoes
  PROVE  AuthInv'
<1>a. AuthInv /\ queue \in Seq(Message)
  BY DEF TypeOK, InterfaceOK
<1>1. UNCHANGED <<rx, acted>> /\ (Authenticated <=> Authenticated')
  BY DEF MainDoes, recvVars, Authenticated
<1>2. /\ \A l \in {"s_open", "s_join"} : pc'["sender"] = l => pc["sender"] = l
      /\ \A l \in {"r_nokOpen"} \cup NewReply :
           pc'["receiver"] = l => pc["receiver"] = l
  BY WatchedStays DEF MainDoes, Threads, Watched
<1>3. fsm' \in LoggedIn => fsm \in LoggedIn
  BY FsmNumbers DEF MainDoes, MainFsm
<1>4. /\ pc'["main"] \in {"m_lock", "m_add"} /\ cmd' \in {"JOIN", "MSG"}
           => Authenticated
  <2>1. CASE pc'["main"] = "m_lock"
    BY <1>a, <2>1 DEF MainDoes, MainEnters, AuthInv, LoggedIn
  <2>2. CASE pc'["main"] = "m_add"
    BY <1>a, <2>2 DEF MainDoes, MainEnters, AuthInv
  <2> QED
    BY <2>1, <2>2
<1>5. AuthBeforeData'
  <2>1. CASE Authenticated
    BY <1>1, <2>1 DEF AuthBeforeData
  <2>2. CASE ~Authenticated
    <3>1. NoneOf(Data, queue)
      BY <1>a, <2>2, AuthBeforeDataIs DEF AuthInv
    <3>2. NoneOf(Data, queue')
      <4>2. CASE queue' = queue \/ queue' = <<>>
        BY <3>1, <4>2 DEF NoneOf
      <4>3. CASE queue' = Append(queue, ByeMessage)
        BY <1>a, <3>1, <4>3, NewMessages, NoneOfAppend DEF LastMessages, Data
      <4>4. CASE pc["main"] = "m_add" /\ queue' = Append(queue, UserMessage(cmd))
        <5>1. cmd \notin {"JOIN", "MSG"}
          BY <1>a, <2>2, <4>4 DEF AuthInv
        <5>2. UserMessage(cmd).type \notin Data
          BY <5>1 DEF UserMessage, createMessage, TypeOf, Data
        <5> QED
          BY <1>a, <3>1, <4>4, <5>2, NewMessages, NoneOfAppend
      <4> QED
        BY <4>2, <4>3, <4>4 DEF MainDoes, MainQueue
    <3> QED
      BY <3>2 DEF AuthBeforeData, NoneOf, Data
  <2> QED
    BY <2>1, <2>2
<1>6. pc'["main"] = "m_authSet" => cmd' = "AUTH"
  BY DEF MainDoes, MainEnters
<1> QED
  BY <1>a, <1>1, <1>2, <1>3, <1>4, <1>5, <1>6 DEF AuthInv, NewReply

LEMMA SenderKeepsAuthInv ==
  ASSUME TypeOK, CmdKnown, AuthInv, SenderDoes
  PROVE  AuthInv'
<1>a. AuthInv /\ queue \in Seq(Message)
  BY DEF TypeOK, InterfaceOK
<1>1. UNCHANGED <<rx, acted, cmd>> /\ (Authenticated <=> Authenticated')
  BY DEF SenderDoes, recvVars, mainVars, Authenticated
<1>2. /\ \A l \in {"m_authSet", "m_lock", "m_add"} :
           pc'["main"] = l => pc["main"] = l
      /\ \A l \in {"r_nokOpen"} \cup NewReply :
           pc'["receiver"] = l => pc["receiver"] = l
  BY WatchedStays DEF SenderDoes, Threads, Watched
<1>3. fsm' \in LoggedIn => Authenticated
  BY <1>a, FsmNumbers DEF SenderDoes, SenderFsm, AuthInv
<1>4. pc'["sender"] \in {"s_open", "s_join"} => Authenticated
  BY <1>a DEF SenderDoes, SenderEnters, AuthInv, LoggedIn
<1>5. AuthBeforeData'
  <2>1. CASE Authenticated
    BY <1>1, <2>1 DEF AuthBeforeData
  <2>2. CASE ~Authenticated
    <3>1. NoneOf(Data, queue)
      BY <1>a, <2>2, AuthBeforeDataIs DEF AuthInv
    <3>2. NoneOf(Data, queue')
      BY <3>1, SenderAddsNone DEF SenderDoes, Data
    <3> QED
      BY <3>2 DEF AuthBeforeData, NoneOf, Data
  <2> QED
    BY <2>1, <2>2
<1> QED
  BY <1>a, <1>1, <1>2, <1>3, <1>4, <1>5 DEF AuthInv, NewReply

LEMMA ReceiverKeepsAuthInv ==
  ASSUME TypeOK, CmdKnown, AuthInv, ReceiverDoes
  PROVE  AuthInv'
<1>a. AuthInv /\ queue \in Seq(Message)
  BY DEF TypeOK, InterfaceOK
<1>1. UNCHANGED cmd /\ (Authenticated => Authenticated')
  BY DEF ReceiverDoes, ReceiverRecords, mainVars, Authenticated
<1>2. /\ \A l \in {"m_authSet", "m_lock", "m_add"} :
           pc'["main"] = l => pc["main"] = l
      /\ \A l \in {"s_open", "s_join"} : pc'["sender"] = l => pc["sender"] = l
  BY WatchedStays DEF ReceiverDoes, Threads, Watched
<1>3. fsm' \in LoggedIn => Authenticated'
  <2>1. CASE pc["receiver"] = "r_okSet" /\ acted' = acted \cup {rx}
    BY <1>a, <2>1 DEF AuthInv, NewReply, Authenticated
  <2>2. CASE pc["receiver"] = "r_nokOpen"
    BY <1>a, <1>1, <2>2 DEF AuthInv
  <2>3. CASE fsm' = fsm \/ Ending(fsm') \/ fsm' \in {fsm_W84_REPLY, fsm_START}
    BY <1>a, <1>1, <2>3, FsmNumbers DEF AuthInv
  <2> QED
    BY <2>1, <2>2, <2>3 DEF ReceiverDoes, ReceiverFsm
<1>4. pc'["receiver"] = "r_nokOpen" => Authenticated'
  BY <1>a, <1>1 DEF ReceiverDoes, ReceiverEnters, AuthInv, LoggedIn
<1>5. pc'["receiver"] \in NewReply => rx'.type = "REPLY"
  BY <1>a DEF ReceiverDoes, ReceiverEnters, AuthInv
<1>6. pc'["receiver"] \in {"r_okFlag", "r_okSet"} => rx'.ok
  BY <1>a DEF ReceiverDoes, ReceiverEnters, AuthInv, NewReply
<1>7. AuthBeforeData'
  <2>1. CASE Authenticated
    BY <1>1, <2>1 DEF AuthBeforeData
  <2>2. CASE ~Authenticated
    <3>1. NoneOf(Data, queue)
      BY <1>a, <2>2, AuthBeforeDataIs DEF AuthInv
    <3>2. NoneOf(Data, queue')
      BY <3>1, ReceiverAddsNone DEF ReceiverDoes, Data
    <3> QED
      BY <3>2 DEF AuthBeforeData, NoneOf, Data
  <2> QED
    BY <2>1, <2>2
<1> QED
  BY <1>a, <1>1, <1>2, <1>3, <1>4, <1>5, <1>6, <1>7 DEF AuthInv

LEMMA NextAuthInv == StepInv /\ AuthInv /\ [Next]_vars => AuthInv'
<1> SUFFICES ASSUME StepInv, AuthInv, [Next]_vars PROVE AuthInv'
  OBVIOUS
<1>1. TypeOK /\ CmdKnown
  BY DEF StepInv, IndInv
<1>2. CASE MainDoes
  BY <1>1, <1>2, MainKeepsAuthInv
<1>3. CASE SenderDoes
  BY <1>1, <1>3, SenderKeepsAuthInv
<1>4. CASE ReceiverDoes
  BY <1>1, <1>4, ReceiverKeepsAuthInv
<1>5. CASE Wakes
  <2>1. \A u \in Threads : pc'[u] \in Watched => pc'[u] = pc[u]
    BY <1>5, WokenCases DEF Wakes, Watched, NewReply, NewMsg
  <2>2. UNCHANGED <<fsm, queue, cmd, rx, acted>>
    BY <1>5 DEF Wakes, mainVars, recvVars
  <2> QED
    BY <2>1, <2>2 DEF AuthInv, AuthBeforeData, Authenticated, Threads, Watched,
       NewReply
<1> QED
  BY <1>2, <1>3, <1>4, <1>5, NextDoes

LEMMA InitAuthInv == Init \/ InitOpen => AuthInv
<1>1. CASE Init
  BY <1>1, FsmNumbers DEF Init, AuthInv, AuthBeforeData, NewReply
<1>2. CASE InitOpen
  <2>1. Authenticated
    BY <1>2 DEF InitOpen, LoginReply, Authenticated
  <2> QED
    BY <1>2, <2>1 DEF InitOpen, AuthInv, AuthBeforeData, NewReply
<1> QED
  BY <1>1, <1>2

(* JOIN and MSG are in the queue only after a positive reply of the server  *)
(* was acted on, although main, the sender and the receiver all act on a    *)
(* program state they read earlier.                                         *)
THEOREM AuthBeforeDataHolds ==
  (Spec => []AuthBeforeData) /\ (OpenSpec => []AuthBeforeData)
<1>1. AuthInv => AuthBeforeData
  BY DEF AuthInv
<1> QED
  BY <1>1, InitStepInv, NextStepInv, InitAuthInv, NextAuthInv, PTL
     DEF Spec, OpenSpec

-----------------------------------------------------------------------------
(* One login at a time.  Main is on its way to queue an AUTH from the test  *)
(* of the state to the queueing; the receiver is at r_nokStart between      *)
(* rejecting the queued AUTH and setting the state back to START.           *)
MainHasAuth ==
  pc["main"] \in {"m_authSet", "m_lock", "m_add"} /\ cmd = "AUTH"

LoginInv ==
  /\ OneAuth
  /\ MainHasAuth => PendingAuth = {}
  /\ fsm = fsm_START =>
       PendingAuth = {} /\ (MainHasAuth => pc["main"] = "m_authSet")
  /\ pc["receiver"] = "r_nokStart" =>
       PendingAuth = {} /\ ~MainHasAuth /\ fsm # fsm_START

OneAuthIn(q) == \A i, j \in DOMAIN q :
  q[i].msgFlags = "AUTH" /\ q[j].msgFlags = "AUTH" => i = j
NoAuthIn(q)  == \A i \in DOMAIN q : q[i].msgFlags # "AUTH"

(* An AUTH stands in front of every JOIN.                                   *)
AuthFirst(q) == \A i, j \in DOMAIN q :
  i <= j /\ q[i].type = "JOIN" => q[j].msgFlags # "AUTH"

LEMMA AuthIn ==
  /\ (OneAuth <=> OneAuthIn(queue))
  /\ (PendingAuth = {} <=> NoAuthIn(queue))
BY DEF OneAuth, PendingAuth, OneAuthIn, NoAuthIn

(* A change of the queue from q to r that brings no AUTH.                   *)
BringsNoAuth(q, r) ==
  /\ OneAuthIn(q) => OneAuthIn(r)
  /\ NoAuthIn(q) => NoAuthIn(r)
  /\ AuthFirst(q) => AuthFirst(r)

LEMMA NoAuthEmpty == ASSUME NEW q PROVE BringsNoAuth(q, <<>>)
BY DEF BringsNoAuth, OneAuthIn, NoAuthIn, AuthFirst

LEMMA NoAuthAppend ==
  ASSUME NEW q \in Seq(Message), NEW m \in Message
  PROVE  /\ m.msgFlags # "AUTH" => BringsNoAuth(q, Append(q, m))
         /\ NoAuthIn(q) => OneAuthIn(Append(q, m))
         /\ NoneOf(Data, q) /\ m.type # "JOIN" => AuthFirst(Append(q, m))
<1> DEFINE r == Append(q, m)
<1>1. /\ DOMAIN r = 1 .. Len(q) + 1 /\ DOMAIN q = 1 .. Len(q) /\ Len(q) \in Nat
      /\ \A i \in DOMAIN q : r[i] = q[i]
      /\ r[Len(q) + 1] = m
  BY SeqAppend
<1> HIDE DEF r
<1>2. m.msgFlags # "AUTH" => BringsNoAuth(q, r)
  BY <1>1 DEF BringsNoAuth, OneAuthIn, NoAuthIn, AuthFirst
<1>3. NoAuthIn(q) => OneAuthIn(r)
  BY <1>1 DEF OneAuthIn, NoAuthIn
<1>4. NoneOf(Data, q) /\ m.type # "JOIN" => AuthFirst(r)
  BY <1>1 DEF AuthFirst, NoneOf, Data
<1> QED
  BY <1>2, <1>3, <1>4 DEF r

LEMMA NoAuthPush ==
  ASSUME NEW q \in Seq(Message), NEW m \in Message, m.msgFlags # "AUTH",
         m.type # "JOIN"
  PROVE  BringsNoAuth(q, <<m>> \o q)
<1> DEFINE r == <<m>> \o q
<1>1. /\ DOMAIN r = 1 .. Len(q) + 1 /\ DOMAIN q = 1 .. Len(q) /\ Len(q) \in Nat
      /\ r[1] = m
      /\ \A i \in 2 .. Len(q) + 1 : r[i] = q[i - 1]
  BY SeqPush
<1> HIDE DEF r
<1>2. NoAuthIn(q) => NoAuthIn(r)
  BY <1>1 DEF NoAuthIn
<1>3. ASSUME OneAuthIn(q), NEW i \in DOMAIN r, NEW j \in DOMAIN r,
             r[i].msgFlags = "AUTH", r[j].msgFlags = "AUTH"
      PROVE  i = j
  <2>1. /\ i - 1 \in DOMAIN q /\ j - 1 \in DOMAIN q
        /\ q[i - 1].msgFlags = "AUTH" /\ q[j - 1].msgFlags = "AUTH"
    BY <1>1, <1>3
  <2>2. i - 1 = j - 1
    BY <1>3, <2>1 DEF OneAuthIn
  <2> QED
    BY <1>1, <2>2
<1>4. ASSUME AuthFirst(q), NEW i \in DOMAIN r, NEW j \in DOMAIN r,
             i <= j, r[i].type = "JOIN"
      PROVE  r[j].msgFlags # "AUTH"
  <2>1. /\ i - 1 \in DOMAIN q /\ j - 1 \in DOMAIN q /\ i - 1 <= j - 1
        /\ q[i - 1].type = "JOIN" /\ r[j] = q[j - 1]
    BY <1>1, <1>4
  <2> QED
    BY <1>4, <2>1 DEF AuthFirst
<1> QED
  BY <1>2, <1>3, <1>4 DEF BringsNoAuth, OneAuthIn, AuthFirst, r

LEMMA NoAuthTail ==
  ASSUME NEW q \in Seq(Message), q # <<>>
  PROVE  BringsNoAuth(q, Tail(q))
<1> DEFINE r == Tail(q)
<1>1. /\ DOMAIN r = 1 .. Len(q) - 1 /\ DOMAIN q = 1 .. Len(q) /\ Len(q) \in Nat
      /\ \A i \in DOMAIN r : i + 1 \in DOMAIN q /\ r[i] = q[i + 1]
  BY SeqTail, SeqFirst
<1> HIDE DEF r
<1>2. NoAuthIn(q) => NoAuthIn(r)
  BY <1>1 DEF NoAuthIn
<1>3. ASSUME OneAuthIn(q), NEW i \in DOMAIN r, NEW j \in DOMAIN r,
             r[i].msgFlags = "AUTH", r[j].msgFlags = "AUTH"
      PROVE  i = j
  <2>1. i + 1 = j + 1
    BY <1>1, <1>3 DEF OneAuthIn
  <2> QED
    BY <1>1, <2>1
<1>4. ASSUME AuthFirst(q), NEW i \in DOMAIN r, NEW j \in DOMAIN r,
             i <= j, r[i].type = "JOIN"
      PROVE  r[j].msgFlags # "AUTH"
  <2>1. /\ i + 1 \in DOMAIN q /\ j + 1 \in DOMAIN q /\ i + 1 <= j + 1
        /\ q[i + 1].type = "JOIN" /\ r[j] = q[j + 1]
    BY <1>1, <1>4
  <2> QED
    BY <1>4, <2>1 DEF AuthFirst
<1> QED
  BY <1>2, <1>3, <1>4 DEF BringsNoAuth, OneAuthIn, AuthFirst, r

(* The first message changes; it is an AUTH only if it was one.             *)
LEMMA NoAuthHead ==
  ASSUME NEW q \in Seq(Message), q # <<>>, NEW m \in Message,
         m.type = Head(q).type
  PROVE  /\ (m.msgFlags = "AUTH" => Head(q).msgFlags = "AUTH") =>
              BringsNoAuth(q, [q EXCEPT ![1] = m])
         /\ OneAuthIn(q) /\ Head(q).msgFlags = "AUTH" /\ m.msgFlags # "AUTH" =>
              NoAuthIn([q EXCEPT ![1] = m])
<1> DEFINE r == [q EXCEPT ![1] = m]
<1>1. /\ DOMAIN r = DOMAIN q /\ r[1] = m /\ q[1] = Head(q) /\ 1 \in DOMAIN q
      /\ \A i \in DOMAIN q : i # 1 => r[i] = q[i]
  BY SeqHead, SeqFirst
<1> HIDE DEF r
<1>2. (m.msgFlags = "AUTH" => Head(q).msgFlags = "AUTH") => BringsNoAuth(q, r)
  BY <1>1 DEF BringsNoAuth, OneAuthIn, NoAuthIn, AuthFirst
<1>3. OneAuthIn(q) /\ Head(q).msgFlags = "AUTH" /\ m.msgFlags # "AUTH" =>
        NoAuthIn(r)
  BY <1>1 DEF OneAuthIn, NoAuthIn
<1> QED
  BY <1>2, <1>3 DEF r

LEMMA SenderBringsNoAuth ==
  ASSUME TypeOK, CmdKnown, SenderQueue
  PROVE  BringsNoAuth(queue, queue')
<1>1. queue \in Seq(Message)
  BY DEF TypeOK, InterfaceOK
<1>2. CASE queue' = queue
  BY <1>2 DEF BringsNoAuth
<1>3. CASE queue' = <<>>
  BY <1>3, NoAuthEmpty
<1>4. CASE \E m \in LastMessages : queue' = Append(queue, m)
  BY <1>1, <1>4, NewMessages, NoAuthAppend
<1>5. CASE queue # <<>> /\ queue' = Tail(queue)
  BY <1>1, <1>5, NoAuthTail
<1>6. CASE queue # <<>> /\ queue' = AfterSend(queue)
  <2> DEFINE m == queueMessageSended(queueSetMessageID(Head(queue)))
  <2>1. /\ m \in Message /\ m.msgFlags = Head(queue).msgFlags
        /\ m.type = Head(queue).type
    BY <1>1, <1>6, SeqFirst, SentMessage
  <2>2. queue' = Tail(queue) \/ queue' = [queue EXCEPT ![1] = m]
    BY <1>6 DEF AfterSend, queuePopMessage
  <2> HIDE DEF m
  <2>3. BringsNoAuth(queue, [queue EXCEPT ![1] = m])
    BY <1>1, <1>6, <2>1, NoAuthHead
  <2>4. BringsNoAuth(queue, Tail(queue))
    BY <1>1, <1>6, NoAuthTail
  <2> QED
    BY <2>2, <2>3, <2>4
<1> QED
  BY <1>2, <1>3, <1>4, <1>5, <1>6 DEF SenderQueue

(* A negative reply rejects the one AUTH there is.                          *)
LEMMA Rejected ==
  ASSUME TypeOK, queue # <<>>, Head(queue).msgFlags = "AUTH",
         queue' = [queue EXCEPT ![1].msgFlags = "REJECTED"]
  PROVE  BringsNoAuth(queue, queue') /\ (OneAuthIn(queue) => NoAuthIn(queue'))
<1> DEFINE m == [Head(queue) EXCEPT !.msgFlags = "REJECTED"]
<1>1. queue \in Seq(Message)
  BY DEF TypeOK, InterfaceOK
<1>2. m \in Message /\ m.msgFlags = "REJECTED" /\ m.type = Head(queue).type
  BY <1>1, SeqFirst, MarkedMessage DEF MsgFlags
<1>3. queue' = [queue EXCEPT ![1] = m]
  BY <1>1
<1> HIDE DEF m
<1> QED
  BY <1>1, <1>2, <1>3, NoAuthHead

LEMMA ReceiverBringsNoAuth ==
  ASSUME TypeOK, CmdKnown, ReceiverQueue
  PROVE  BringsNoAuth(queue, queue')
<1>1. queue \in Seq(Message) /\ <<>> \in Seq(Message)
  BY DEF TypeOK, InterfaceOK
<1>2. CASE queue' = queue
  BY <1>2 DEF BringsNoAuth
<1>3. CASE queue' = <<>>
  BY <1>3, NoAuthEmpty
<1>4. CASE \E m \in LastMessages : queue' = Append(queue, m)
  BY <1>1, <1>4, NewMessages, NoAuthAppend
<1>5. CASE \E c \in Confirmations, q \in {queue, <<>>} : queue' = <<c>> \o q
  <2>1. PICK c \in Confirmations, q \in {queue, <<>>} : queue' = <<c>> \o q
    BY <1>5
  <2>2. /\ c \in Message /\ c.msgFlags # "AUTH" /\ c.type # "JOIN"
        /\ q \in Seq(Message)
    BY <1>1, NewMessages
  <2>3. BringsNoAuth(q, queue')
    BY <2>1, <2>2, NoAuthPush
  <2>4. BringsNoAuth(queue, q)
    BY NoAuthEmpty DEF BringsNoAuth
  <2> QED
    BY <2>3, <2>4 DEF BringsNoAuth
<1>6. CASE queue # <<>> /\ queue' = [queue EXCEPT ![1].msgFlags = "CONFIRMED"]
  <2> DEFINE m == [Head(queue) EXCEPT !.msgFlags = "CONFIRMED"]
  <2>1. m \in Message /\ m.msgFlags = "CONFIRMED" /\ m.type = Head(queue).type
    BY <1>1, <1>6, SeqFirst, MarkedMessage DEF MsgFlags
  <2>2. queue' = [queue EXCEPT ![1] = m]
    BY <1>1, <1>6
  <2> HIDE DEF m
  <2> QED
    BY <1>1, <1>6, <2>1, <2>2, NoAuthHead
<1>7. CASE queue # <<>> /\ queue' = [queue EXCEPT ![1].confirmed = TRUE]
  <2> DEFINE m == [Head(queue) EXCEPT !.confirmed = TRUE]
  <2>1. /\ m \in Message /\ m.msgFlags = Head(queue).msgFlags
        /\ m.type = Head(queue).type
    BY <1>1, <1>7, SeqFirst, MarkedMessage DEF MsgFlags
  <2>2. queue' = [queue EXCEPT ![1] = m]
    BY <1>1, <1>7
  <2> HIDE DEF m
  <2>3. BringsNoAuth(queue, [queue EXCEPT ![1] = m])
    BY <1>1, <1>7, <2>1, NoAuthHead
  <2> QED
    BY <2>2, <2>3
<1>8. CASE /\ queue # <<>> /\ Head(queue).msgFlags = "AUTH"
           /\ queue' = [queue EXCEPT ![1].msgFlags = "REJECTED"]
  BY <1>8, Rejected
<1> QED
  BY <1>2, <1>3, <1>4, <1>5, <1>6, <1>7, <1>8 DEF ReceiverQueue

(* LoginInv with the queue as an argument, and what it is about.            *)
LEMMA LoginInvIs ==
  LoginInv <=>
    /\ OneAuthIn(queue)
    /\ MainHasAuth => NoAuthIn(queue)
    /\ fsm = fsm_START =>
         NoAuthIn(queue) /\ (MainHasAuth => pc["main"] = "m_authSet")
    /\ pc["receiver"] = "r_nokStart" =>
         NoAuthIn(queue) /\ ~MainHasAuth /\ fsm # fsm_START
BY AuthIn DEF LoginInv

LEMMA LoginInvPrime ==
  ASSUME OneAuthIn(queue'), MainHasAuth' => NoAuthIn(queue'),
         fsm' = fsm_START =>
           NoAuthIn(queue') /\ (MainHasAuth' => pc'["main"] = "m_authSet"),
         pc'["receiver"] = "r_nokStart" =>
           NoAuthIn(queue') /\ ~MainHasAuth' /\ fsm' # fsm_START
  PROVE  LoginInv'
BY DEF LoginInv, OneAuth, PendingAuth, OneAuthIn, NoAuthIn

(* Main brings an AUTH only when it queues the user's.                      *)
LEMMA MainBringsOneAuth ==
  ASSUME TypeOK, CmdKnown, MainDoes
  PROVE  \/ BringsNoAuth(queue, queue')
         \/ /\ pc["main"] = "m_add" /\ pc'["main"] \in {"m_exitSet", "m_wait"}
            /\ queue' = Append(queue, UserMessage(cmd)) /\ cmd = "AUTH"
<1>a. queue \in Seq(Message)
  BY DEF TypeOK, InterfaceOK
<1>1. CASE queue' = queue
  BY <1>1 DEF BringsNoAuth
<1>2. CASE queue' = <<>>
  BY <1>2, NoAuthEmpty
<1>3. CASE queue' = Append(queue, ByeMessage)
  BY <1>a, <1>3, NewMessages, NoAuthAppend DEF LastMessages
<1>4. CASE /\ pc["main"] = "m_add" /\ pc'["main"] \in {"m_exitSet", "m_wait"}
           /\ queue' = Append(queue, UserMessage(cmd)) /\ cmd # "AUTH"
  <2>1. UserMessage(cmd).msgFlags # "AUTH"
    BY <1>4 DEF UserMessage, createMessage, FlagsOf
  <2> QED
    BY <1>a, <1>4, <2>1, NewMessages, NoAuthAppend
<1> QED
  BY <1>1, <1>2, <1>3, <1>4 DEF MainDoes, MainQueue

LEMMA MainKeepsLoginInv ==
  ASSUME TypeOK, CmdKnown, LoginInv, MainDoes
  PROVE  LoginInv'
<1>a. queue \in Seq(Message)
  BY DEF TypeOK, InterfaceOK
<1>b. /\ OneAuthIn(queue)
      /\ MainHasAuth => NoAuthIn(queue)
      /\ fsm = fsm_START =>
           NoAuthIn(queue) /\ (MainHasAuth => pc["main"] = "m_authSet")
      /\ pc["receiver"] = "r_nokStart" =>
           NoAuthIn(queue) /\ ~MainHasAuth /\ fsm # fsm_START
  BY LoginInvIs
<1>1. pc'["receiver"] = "r_nokStart" => pc["receiver"] = "r_nokStart"
  BY WatchedStays DEF MainDoes, Threads, Watched
<1>2. /\ fsm' = fsm_START => fsm = fsm_START /\ fsm' = fsm
      /\ pc["main"] = "m_authSet" => (fsm' = fsm \/ fsm' # fsm_START)
  BY FsmNumbers DEF MainDoes, MainFsm
<1>3. MainHasAuth' => /\ queue' = queue
                      /\ \/ pc'["main"] = "m_authSet" /\ fsm = fsm_START
                         \/ /\ pc'["main"] = "m_lock" /\ pc["main"] = "m_authSet"
                            /\ fsm' # fsm_START /\ cmd = "AUTH"
                         \/ /\ pc'["main"] = "m_add" /\ pc["main"] = "m_lock"
                            /\ fsm' = fsm /\ cmd = "AUTH"
  BY FsmNumbers DEF MainDoes, MainEnters, MainHasAuth
<1>4. CASE BringsNoAuth(queue, queue')
  <2>1. OneAuthIn(queue') /\ (NoAuthIn(queue) => NoAuthIn(queue'))
    BY <1>b, <1>4 DEF BringsNoAuth
  <2>2. MainHasAuth' => NoAuthIn(queue')
    BY <1>b, <1>3 DEF MainHasAuth
  <2>3. fsm' = fsm_START =>
          NoAuthIn(queue') /\ (MainHasAuth' => pc'["main"] = "m_authSet")
    BY <1>b, <1>2, <1>3, <2>1 DEF MainHasAuth
  <2>4. pc'["receiver"] = "r_nokStart" =>
          NoAuthIn(queue') /\ ~MainHasAuth' /\ fsm' # fsm_START
    BY <1>b, <1>1, <1>2, <1>3, <2>1 DEF MainHasAuth
  <2> QED
    BY <2>1, <2>2, <2>3, <2>4, LoginInvPrime
<1>5. CASE /\ pc["main"] = "m_add" /\ pc'["main"] \in {"m_exitSet", "m_wait"}
           /\ queue' = Append(queue, UserMessage(cmd)) /\ cmd = "AUTH"
  <2>1. MainHasAuth /\ ~MainHasAuth' /\ fsm # fsm_START /\ fsm' # fsm_START
    BY <1>b, <1>2, <1>5 DEF MainHasAuth
  <2>2. OneAuthIn(queue')
    BY <1>a, <1>b, <1>5, <2>1, NewMessages, NoAuthAppend
  <2> QED
    BY <1>b, <1>1, <2>1, <2>2, LoginInvPrime
<1> QED
  BY <1>4, <1>5, MainBringsOneAuth

(* The sender and the receiver bring no AUTH, and the state back to START   *)
(* only from r_nokStart.                                                    *)
LEMMA OthersKeepLoginInv ==
  ASSUME LoginInv, BringsNoAuth(queue, queue'), UNCHANGED cmd,
         pc'["main"] \in Watched => pc'["main"] = pc["main"],
         fsm' = fsm_START => fsm = fsm_START \/ pc["receiver"] = "r_nokStart",
         pc'["receiver"] = "r_nokStart" =>
           \/ pc["receiver"] = "r_nokStart" /\ fsm' # fsm_START
           \/ /\ fsm' = fsm /\ ~NoAuthIn(queue)
              /\ OneAuthIn(queue) => NoAuthIn(queue')
  PROVE  LoginInv'
<1>b. /\ OneAuthIn(queue)
      /\ MainHasAuth => NoAuthIn(queue)
      /\ fsm = fsm_START =>
           NoAuthIn(queue) /\ (MainHasAuth => pc["main"] = "m_authSet")
      /\ pc["receiver"] = "r_nokStart" =>
           NoAuthIn(queue) /\ ~MainHasAuth /\ fsm # fsm_START
  BY LoginInvIs
<1>1. OneAuthIn(queue') /\ (NoAuthIn(queue) => NoAuthIn(queue'))
  BY <1>b DEF BringsNoAuth
<1>2. MainHasAuth' => MainHasAuth /\ pc'["main"] = pc["main"]
  BY DEF MainHasAuth, Watched
<1>3. fsm' = fsm_START =>
        NoAuthIn(queue') /\ (MainHasAuth' => pc'["main"] = "m_authSet")
  BY <1>b, <1>1, <1>2
<1>4. pc'["receiver"] = "r_nokStart" =>
        NoAuthIn(queue') /\ ~MainHasAuth' /\ fsm' # fsm_START
  BY <1>b, <1>1, <1>2
<1> QED
  BY <1>b, <1>1, <1>2, <1>3, <1>4, LoginInvPrime

LEMMA NextLoginInv == StepInv /\ LoginInv /\ [Next]_vars => LoginInv'
<1> SUFFICES ASSUME StepInv, LoginInv, [Next]_vars PROVE LoginInv'
  OBVIOUS
<1>1. TypeOK /\ CmdKnown
  BY DEF StepInv, IndInv
<1>2. CASE MainDoes
  BY <1>1, <1>2, MainKeepsLoginInv
<1>3. CASE SenderDoes
  <2>1. BringsNoAuth(queue, queue') /\ UNCHANGED cmd
    BY <1>1, <1>3, SenderBringsNoAuth DEF SenderDoes, mainVars
  <2>2. /\ pc'["main"] \in Watched => pc'["main"] = pc["main"]
        /\ pc'["receiver"] = "r_nokStart" => pc["receiver"] = "r_nokStart"
    BY <1>3, WatchedStays DEF SenderDoes, Threads, Watched
  <2>3. fsm' = fsm_START => fsm = fsm_START
    BY <1>3, FsmNumbers DEF SenderDoes, SenderFsm, fsm_OPEN, fsm_JOIN_ATEMPT
  <2>4. pc["receiver"] = "r_nokStart" => fsm # fsm_START
    BY DEF LoginInv
  <2> QED
    BY <2>1, <2>2, <2>3, <2>4, OthersKeepLoginInv
<1>4. CASE ReceiverDoes
  <2>1. BringsNoAuth(queue, queue') /\ UNCHANGED cmd
    BY <1>1, <1>4, ReceiverBringsNoAuth DEF ReceiverDoes, mainVars
  <2>2. pc'["main"] \in Watched => pc'["main"] = pc["main"]
    BY <1>4, WatchedStays DEF ReceiverDoes, Threads, Watched
  <2>3. fsm' = fsm_START => fsm = fsm_START \/ pc["receiver"] = "r_nokStart"
    BY <1>4, FsmNumbers
       DEF ReceiverDoes, ReceiverFsm, fsm_OPEN, fsm_W84_REPLY_CONF
  <2>4. ASSUME pc'["receiver"] = "r_nokStart"
        PROVE  /\ fsm' = fsm /\ ~NoAuthIn(queue)
               /\ OneAuthIn(queue) => NoAuthIn(queue')
    <3>1. /\ fsm' = fsm /\ queue # <<>> /\ Head(queue).msgFlags = "AUTH"
          /\ queue' = [queue EXCEPT ![1].msgFlags = "REJECTED"]
      BY <1>4, <2>4 DEF ReceiverDoes, ReceiverEnters
    <3>2. ~NoAuthIn(queue)
      BY <1>1, <3>1, SeqFirst DEF NoAuthIn, TypeOK, InterfaceOK
    <3> QED
      BY <1>1, <3>1, <3>2, Rejected
  <2> QED
    BY <2>1, <2>2, <2>3, <2>4, OthersKeepLoginInv
<1>5. CASE Wakes
  <2>1. \A u \in Threads : pc'[u] \in Watched => pc'[u] = pc[u]
    BY <1>5, WokenCases DEF Wakes, Watched, NewReply, NewMsg
  <2>2. /\ pc'["main"] \in Watched => pc'["main"] = pc["main"]
        /\ pc'["receiver"] = "r_nokStart" => pc["receiver"] = "r_nokStart"
    BY <2>1 DEF Threads, Watched
  <2>3. UNCHANGED <<fsm, queue, cmd>> /\ BringsNoAuth(queue, queue')
    BY <1>5 DEF Wakes, mainVars, BringsNoAuth
  <2>4. pc["receiver"] = "r_nokStart" => fsm # fsm_START
    BY DEF LoginInv
  <2> QED
    BY <2>2, <2>3, <2>4, OthersKeepLoginInv
<1> QED
  BY <1>2, <1>3, <1>4, <1>5, NextDoes

LEMMA InitLoginInv == Init \/ InitOpen => LoginInv
<1> SUFFICES ASSUME Init \/ InitOpen PROVE LoginInv
  OBVIOUS
<1>1. /\ queue = <<>> /\ pc["main"] = "m_while"
      /\ pc["receiver"] = "r_while"
  BY DEF Init, InitOpen
<1>2. OneAuthIn(queue) /\ NoAuthIn(queue) /\ ~MainHasAuth
  BY <1>1 DEF OneAuthIn, NoAuthIn, MainHasAuth
<1> QED
  BY <1>1, <1>2, LoginInvIs

(* At most one login is under way: main tests the state long before it      *)
(* queues the AUTH, and the receiver sets the state back to START only      *)
(* after the AUTH in the queue has been rejected.                           *)
THEOREM OneAuthHolds == (Spec => []OneAuth) /\ (OpenSpec => []OneAuth)
<1>1. LoginInv => OneAuth
  BY DEF LoginInv
<1> QED
  BY <1>1, InitStepInv, NextStepInv, InitLoginInv, NextLoginInv, PTL
     DEF Spec, OpenSpec

-----------------------------------------------------------------------------
(* The login is final.  Four places set a state in front of the login, each *)
(* after a test in an earlier step: main from m_authSet, the sender at      *)
(* s_authSet, the receiver at r_confReply and at r_nokStart.  The tests are *)
(* of different states, so that only one of the threads is between its test *)
(* and its assignment at a time, until somebody ends the session.           *)
Answering == {"r_result", "r_okFlag", "r_okSet", "r_nok", "r_nokStart"}

MainTurn == MainHasAuth => fsm \in {fsm_START, fsm_AUTH_W82} \/ Ending(fsm)

SenderTurn ==
  /\ pc["sender"] \in {"s_authGet", "s_authSet"} =>
       fsm # fsm_START /\ ~MainHasAuth
  /\ pc["sender"] = "s_authSet" => fsm = fsm_AUTH_W82 \/ Ending(fsm)

ReceiverTurn ==
  /\ pc["receiver"] = "r_confReply" => fsm = fsm_AUTH_SENDED \/ Ending(fsm)
  /\ pc["receiver"] \in Answering => fsm >= fsm_W84_REPLY
  /\ pc["receiver"] \in Answering \cup {"r_confReply"} =>
       ~MainHasAuth /\ pc["sender"] # "s_authSet"

(* After the login none of them is there, and a negative reply is not taken *)
(* for one to the AUTH: when a JOIN is under way no AUTH is queued.         *)
LoginOver ==
  /\ LoginIsFinal
  /\ Authenticated =>
       /\ ~MainHasAuth /\ pc["sender"] # "s_authSet"
       /\ pc["receiver"] \notin {"r_confReply", "r_nokStart"}
       /\ pc["receiver"] \in Answering => NoAuthIn(queue)
  /\ fsm = fsm_JOIN_ATEMPT \/ pc["sender"] = "s_join" => NoAuthIn(queue)
  /\ AuthFirst(queue)

(* What is printed is no reply.                                             *)
MsgInHand == pc["receiver"] \in NewMsg \cup {"r_msg"} => rx.type = "MSG"

FinalInv == MainTurn /\ SenderTurn /\ ReceiverTurn /\ LoginOver /\ MsgInHand

LEMMA LoginOverPrime ==
  ASSUME Authenticated' =>
           /\ fsm' >= fsm_W84_REPLY_CONF
           /\ ~MainHasAuth' /\ pc'["sender"] # "s_authSet"
           /\ pc'["receiver"] \notin {"r_confReply", "r_nokStart"}
           /\ pc'["receiver"] \in Answering => NoAuthIn(queue'),
         fsm' = fsm_JOIN_ATEMPT \/ pc'["sender"] = "s_join" => NoAuthIn(queue'),
         AuthFirst(queue')
  PROVE  LoginOver'
BY DEF LoginOver, LoginIsFinal, NoAuthIn, AuthFirst

LEMMA StateOrder ==
  /\ fsm_START = 0 /\ fsm_AUTH_W82 = 1 /\ fsm_AUTH_SENDED = 2
  /\ fsm_W84_REPLY = 3 /\ fsm_W84_REPLY_CONF = 4 /\ fsm_OPEN = 5
  /\ fsm_JOIN_ATEMPT = 6 /\ \A s : Ending(s) <=> s >= 7
  /\ TypeOK => fsm \in Nat
BY DEF fsm_START, fsm_AUTH_W82, fsm_AUTH_SENDED, fsm_W84_REPLY,
       fsm_W84_REPLY_CONF, fsm_OPEN, fsm_JOIN_ATEMPT, Ending, fsm_EMPTY_Q_BYE,
       TypeOK, InterfaceOK, FsmStates

LEMMA MainKeepsFinalInv ==
  ASSUME TypeOK, TypeOK', CmdKnown, AuthInv, LoginInv, FinalInv, MainDoes
  PROVE  FinalInv'
<1>a. queue \in Seq(Message) /\ fsm \in Nat /\ fsm' \in Nat
  BY StateOrder DEF TypeOK, InterfaceOK, FsmStates
<1>1. UNCHANGED rx /\ (Authenticated' <=> Authenticated)
  BY DEF MainDoes, recvVars, Authenticated
<1>2. /\ \A l \in {"s_authGet", "s_authSet", "s_join"} :
           pc'["sender"] = l => pc["sender"] = l
      /\ \A l \in {"r_confReply", "r_msg"} \cup Answering \cup NewMsg :
           pc'["receiver"] = l => pc["receiver"] = l
  BY WatchedStays DEF MainDoes, Threads, Watched, Answering, NewReply
<1>m. MsgInHand'
  BY <1>1, <1>2 DEF MsgInHand, FinalInv
<1>3. \/ fsm' = fsm
      \/ fsm' >= 7
      \/ fsm' = 1 /\ MainHasAuth
  BY StateOrder DEF MainDoes, MainFsm, MainHasAuth, AuthInv
<1>4. MainHasAuth' => /\ \/ fsm = 0 /\ fsm' = fsm
                         \/ MainHasAuth /\ (fsm' = 1 \/ fsm' = fsm)
                      /\ queue' = queue
  BY StateOrder DEF MainDoes, MainEnters, MainHasAuth
<1>5. CASE BringsNoAuth(queue, queue')
  <2>1. /\ NoAuthIn(queue) => NoAuthIn(queue')
        /\ AuthFirst(queue) => AuthFirst(queue')
    BY <1>5 DEF BringsNoAuth
  <2>2. MainTurn'
    BY <1>a, <1>3, <1>4, StateOrder DEF MainTurn, FinalInv
  <2>3. SenderTurn'
    BY <1>a, <1>2, <1>3, <1>4, StateOrder DEF SenderTurn, FinalInv
  <2>4. ReceiverTurn'
    BY <1>a, <1>2, <1>3, <1>4, StateOrder DEF ReceiverTurn, FinalInv, Answering
  <2>5. LoginOver'
    <3>1. Authenticated' =>
            /\ fsm' >= fsm_W84_REPLY_CONF
            /\ ~MainHasAuth' /\ pc'["sender"] # "s_authSet"
            /\ pc'["receiver"] \notin {"r_confReply", "r_nokStart"}
            /\ pc'["receiver"] \in Answering => NoAuthIn(queue')
      BY <1>a, <1>1, <1>2, <1>3, <1>4, <2>1, StateOrder
         DEF LoginOver, LoginIsFinal, FinalInv, Answering
    <3>2. fsm' = fsm_JOIN_ATEMPT \/ pc'["sender"] = "s_join" => NoAuthIn(queue')
      BY <1>a, <1>2, <1>3, <2>1, StateOrder DEF LoginOver, FinalInv
    <3> QED
      BY <2>1, <3>1, <3>2, LoginOverPrime DEF LoginOver, FinalInv
  <2> QED
    BY <1>m, <2>2, <2>3, <2>4, <2>5 DEF FinalInv
<1>6. CASE /\ pc["main"] = "m_add" /\ pc'["main"] \in {"m_exitSet", "m_wait"}
           /\ queue' = Append(queue, UserMessage(cmd)) /\ cmd = "AUTH"
  <2>1. MainHasAuth /\ ~MainHasAuth' /\ ~Authenticated
    BY <1>6 DEF MainHasAuth, FinalInv, LoginOver
  <2>2. fsm \in {0, 1} \/ fsm >= 7
    BY <2>1, StateOrder DEF FinalInv, MainTurn
  <2>3. fsm' \in {0, 1} \/ fsm' >= 7
    BY <1>3, <2>2
  <2>4. pc["sender"] # "s_join"
    BY <2>1 DEF AuthInv
  <2>5. AuthFirst(queue')
    <3>1. NoneOf(Data, queue)
      BY <2>1, AuthBeforeDataIs DEF AuthInv
    <3>2. UserMessage(cmd) \in Message
      BY <1>6, NewMessages
    <3>3. UserMessage(cmd).type = "AUTH"
      BY <1>6 DEF UserMessage, createMessage, TypeOf
    <3> QED
      BY <1>a, <1>6, <3>1, <3>2, <3>3, NoAuthAppend
  <2>6. SenderTurn' /\ ReceiverTurn'
    BY <1>a, <1>2, <1>3, <2>1, StateOrder
       DEF SenderTurn, ReceiverTurn, FinalInv
  <2>7. LoginOver'
    BY <1>1, <1>2, <2>1, <2>3, <2>4, <2>5, StateOrder, LoginOverPrime
  <2>8. MainTurn'
    BY <2>1 DEF MainTurn
  <2> QED
    BY <1>m, <2>6, <2>7, <2>8 DEF FinalInv
<1> QED
  BY <1>5, <1>6, MainBringsOneAuth

LEMMA SenderKeepsFinalInv ==
  ASSUME TypeOK, TypeOK', CmdKnown, AuthInv, LoginInv, FinalInv, SenderDoes
  PROVE  FinalInv'
<1>a. queue \in Seq(Message) /\ fsm \in Nat /\ fsm' \in Nat
  BY StateOrder DEF TypeOK, InterfaceOK, FsmStates
<1>1. UNCHANGED <<cmd, rx>> /\ (Authenticated' <=> Authenticated)
  BY DEF SenderDoes, mainVars, recvVars, Authenticated
<1>2. /\ MainHasAuth' => MainHasAuth
      /\ \A l \in {"r_confReply", "r_msg"} \cup Answering \cup NewMsg :
           pc'["receiver"] = l => pc["receiver"] = l
  BY <1>1, WatchedStays
     DEF SenderDoes, Threads, Watched, Answering, NewReply, MainHasAuth
<1>3. \/ fsm' = fsm
      \/ fsm' >= 7
      \/ fsm' = 2 /\ pc["sender"] = "s_authSet"
      \/ fsm' = 5 /\ Authenticated
      \/ fsm' = 6 /\ Authenticated /\ pc["sender"] = "s_join"
  BY StateOrder DEF SenderDoes, SenderFsm, AuthInv
<1>4. /\ NoAuthIn(queue) => NoAuthIn(queue')
      /\ AuthFirst(queue) => AuthFirst(queue')
  BY SenderBringsNoAuth DEF SenderDoes, BringsNoAuth
<1>5. pc'["sender"] = "s_authGet" => fsm' = fsm /\ fsm # 0 /\ ~MainHasAuth
  <2> SUFFICES ASSUME pc'["sender"] = "s_authGet"
               PROVE  fsm' = fsm /\ fsm # 0 /\ ~MainHasAuth
    OBVIOUS
  <2>1. fsm' = fsm /\ queue # <<>> /\ Head(queue).msgFlags = "AUTH"
    BY DEF SenderDoes, SenderEnters, Top
  <2>2. ~NoAuthIn(queue)
    BY <1>a, <2>1, SeqFirst DEF NoAuthIn
  <2> QED
    BY <2>1, <2>2, LoginInvIs, StateOrder
<1>6. pc'["sender"] = "s_authSet" => fsm' = fsm /\ fsm = 1 /\ ~MainHasAuth
  BY <1>a, StateOrder DEF SenderDoes, SenderEnters, FinalInv, SenderTurn
<1>7. pc'["sender"] = "s_join" => NoAuthIn(queue')
  <2> SUFFICES ASSUME pc'["sender"] = "s_join" PROVE NoAuthIn(queue')
    OBVIOUS
  <2>1. queue' = queue /\ queue # <<>> /\ Head(queue).type = "JOIN"
    BY DEF SenderDoes, SenderEnters, Top
  <2> QED
    BY <1>a, <2>1, SeqFirst DEF NoAuthIn, FinalInv, LoginOver, AuthFirst
<1>8. MainTurn'
  BY <1>a, <1>2, <1>3, StateOrder
     DEF MainTurn, SenderTurn, LoginOver, FinalInv
<1>9. SenderTurn'
  BY <1>a, <1>2, <1>5, <1>6, StateOrder DEF SenderTurn, FinalInv
<1>10. ReceiverTurn'
  BY <1>a, <1>2, <1>3, <1>6, StateOrder
     DEF ReceiverTurn, LoginOver, FinalInv, Answering
<1>11. LoginOver'
  <2>1. Authenticated' =>
          /\ fsm' >= fsm_W84_REPLY_CONF
          /\ ~MainHasAuth' /\ pc'["sender"] # "s_authSet"
          /\ pc'["receiver"] \notin {"r_confReply", "r_nokStart"}
          /\ pc'["receiver"] \in Answering => NoAuthIn(queue')
    BY <1>a, <1>1, <1>2, <1>3, <1>4, <1>6, StateOrder
       DEF LoginOver, LoginIsFinal, FinalInv, Answering
  <2>2. fsm' = fsm_JOIN_ATEMPT \/ pc'["sender"] = "s_join" => NoAuthIn(queue')
    BY <1>a, <1>3, <1>4, <1>7, StateOrder DEF LoginOver, FinalInv
  <2> QED
    BY <1>4, <2>1, <2>2, LoginOverPrime DEF LoginOver, FinalInv
<1>12. MsgInHand'
  BY <1>1, <1>2 DEF MsgInHand, FinalInv
<1> QED
  BY <1>8, <1>9, <1>10, <1>11, <1>12 DEF FinalInv

LEMMA ReceiverKeepsFinalInv ==
  ASSUME TypeOK, TypeOK', CmdKnown, LockDiscipline, AuthInv, LoginInv, FinalInv,
         ReceiverDoes
  PROVE  FinalInv'
<1>a. queue \in Seq(Message) /\ fsm \in Nat /\ fsm' \in Nat
  BY StateOrder DEF TypeOK, InterfaceOK, FsmStates
<1>1. UNCHANGED cmd
  BY DEF ReceiverDoes, mainVars
<1>2. /\ MainHasAuth' => MainHasAuth
      /\ \A l \in {"s_authGet", "s_authSet", "s_join"} :
           pc'["sender"] = l => pc["sender"] = l
  BY <1>1, WatchedStays DEF ReceiverDoes, Threads, Watched, MainHasAuth
<1>3. \/ fsm' = fsm
      \/ fsm' >= 7
      \/ fsm' = 3 /\ pc["receiver"] = "r_confReply"
      \/ fsm' = 4 /\ pc["receiver"] = "r_okSet"
      \/ fsm' = 0 /\ pc["receiver"] = "r_nokStart"
      \/ fsm' = 5 /\ Authenticated
  BY StateOrder DEF ReceiverDoes, ReceiverFsm, AuthInv
<1>4. /\ NoAuthIn(queue) => NoAuthIn(queue')
      /\ AuthFirst(queue) => AuthFirst(queue')
  BY ReceiverBringsNoAuth DEF ReceiverDoes, BringsNoAuth
<1>5. Authenticated' =>
        \/ Authenticated
        \/ /\ pc["receiver"] = "r_okSet" /\ pc'["receiver"] = "r_okConfirm"
           /\ fsm' >= 4
  <2>1. CASE acted' = acted
    BY <2>1 DEF Authenticated
  <2>2. CASE pc["receiver"] = "r_print" /\ acted' = acted \cup {rx}
    BY <2>2 DEF Authenticated, FinalInv, MsgInHand, NewMsg
  <2>3. CASE /\ pc["receiver"] = "r_okSet" /\ pc'["receiver"] = "r_okConfirm"
             /\ fsm' = fsm_W84_REPLY_CONF
    BY <1>a, <2>3, StateOrder
  <2> QED
    BY <2>1, <2>2, <2>3 DEF ReceiverDoes, ReceiverRecords
<1>6. /\ pc'["receiver"] = "r_confReply" => fsm = 2 /\ fsm' = fsm
      /\ pc'["receiver"] \in Answering =>
           pc["receiver"] \in Answering \/ (fsm \in {3, 6} /\ fsm' = fsm)
      /\ pc'["receiver"] = "r_nokStart" =>
           pc["receiver"] \in Answering /\ ~NoAuthIn(queue) /\ fsm' = fsm
  <2>1. pc'["receiver"] = "r_nokStart" =>
          /\ pc["receiver"] = "r_nok" /\ fsm' = fsm
          /\ queue # <<>> /\ Head(queue).msgFlags = "AUTH"
    BY DEF ReceiverDoes, ReceiverEnters
  <2>2. queue # <<>> /\ Head(queue).msgFlags = "AUTH" => ~NoAuthIn(queue)
    BY <1>a, SeqFirst DEF NoAuthIn
  <2>3. /\ pc'["receiver"] = "r_confReply" => fsm = 2 /\ fsm' = fsm
        /\ pc'["receiver"] = "r_result" => fsm \in {3, 6} /\ fsm' = fsm
        /\ pc'["receiver"] \in {"r_okFlag", "r_okSet", "r_nok"} =>
             pc["receiver"] \in {"r_result", "r_okFlag", "r_nok"}
    BY StateOrder DEF ReceiverDoes, ReceiverEnters
  <2> QED
    BY <2>1, <2>2, <2>3 DEF Answering
<1>7. pc["receiver"] = "r_nokStart" =>
        pc["sender"] \notin {"s_authGet", "s_authSet"}
  BY DEF LockDiscipline, Threads, Holding, SenderHolding, ReceiverHolding
<1>8. MainTurn'
  BY <1>a, <1>2, <1>3, StateOrder
     DEF MainTurn, ReceiverTurn, LoginOver, FinalInv, Answering
<1>9. SenderTurn'
  BY <1>a, <1>2, <1>3, <1>7, StateOrder
     DEF SenderTurn, ReceiverTurn, LoginOver, FinalInv, Answering
<1>10. ReceiverTurn'
  <2>1. /\ pc'["receiver"] = "r_confReply" => fsm' = 2
        /\ pc'["receiver"] \in Answering => fsm' >= 3
    <3>1. pc["receiver"] = "r_nokStart" /\ pc'["receiver"] \in Answering =>
            fsm \in {3, 6} /\ fsm' = fsm
      BY StateOrder DEF ReceiverDoes, ReceiverEnters, Answering
    <3> QED
      BY <1>a, <1>3, <1>6, <3>1, StateOrder DEF ReceiverTurn, FinalInv
  <2>2. pc'["receiver"] \in Answering \cup {"r_confReply"} =>
          ~MainHasAuth' /\ pc'["sender"] # "s_authSet"
    BY <1>a, <1>2, <1>6, StateOrder
       DEF MainTurn, SenderTurn, ReceiverTurn, FinalInv, Answering
  <2> QED
    BY <2>1, <2>2, StateOrder DEF ReceiverTurn
<1>11. LoginOver'
  <2>1. Authenticated' =>
          /\ fsm' >= fsm_W84_REPLY_CONF
          /\ ~MainHasAuth' /\ pc'["sender"] # "s_authSet"
          /\ pc'["receiver"] \notin {"r_confReply", "r_nokStart"}
          /\ pc'["receiver"] \in Answering => NoAuthIn(queue')
    <3>1. CASE Authenticated
      BY <1>a, <1>2, <1>3, <1>4, <1>6, <3>1, StateOrder
         DEF LoginOver, LoginIsFinal, FinalInv, Answering
    <3>2. CASE /\ pc["receiver"] = "r_okSet" /\ pc'["receiver"] = "r_okConfirm"
               /\ fsm' >= 4
      BY <1>2, <3>2, StateOrder DEF ReceiverTurn, FinalInv, Answering
    <3> QED
      BY <1>5, <3>1, <3>2
  <2>2. fsm' = fsm_JOIN_ATEMPT \/ pc'["sender"] = "s_join" => NoAuthIn(queue')
    BY <1>a, <1>2, <1>3, <1>4, StateOrder DEF LoginOver, FinalInv
  <2> QED
    BY <1>4, <2>1, <2>2, LoginOverPrime DEF LoginOver, FinalInv
<1>12. MsgInHand'
  BY DEF ReceiverDoes, ReceiverEnters, ReceiverRecords, MsgInHand, FinalInv
<1> QED
  BY <1>8, <1>9, <1>10, <1>11, <1>12 DEF FinalInv

LEMMA NextFinalInv ==
  StepInv /\ AuthInv /\ LoginInv /\ FinalInv /\ [Next]_vars => FinalInv'
<1> SUFFICES ASSUME StepInv, AuthInv, LoginInv, FinalInv, [Next]_vars
             PROVE  FinalInv'
  OBVIOUS
<1>1. TypeOK /\ TypeOK' /\ CmdKnown /\ LockDiscipline
  BY NextStepInv DEF StepInv, IndInv
<1>2. CASE MainDoes
  BY <1>1, <1>2, MainKeepsFinalInv
<1>3. CASE SenderDoes
  BY <1>1, <1>3, SenderKeepsFinalInv
<1>4. CASE ReceiverDoes
  BY <1>1, <1>4, ReceiverKeepsFinalInv
<1>5. CASE Wakes
  <2>1. \A u \in Threads : pc'[u] \in Watched => pc'[u] = pc[u]
    BY <1>5, WokenCases DEF Wakes, Watched, NewReply, NewMsg
  <2>2. UNCHANGED <<fsm, queue, cmd, rx, acted>>
    BY <1>5 DEF Wakes, mainVars, recvVars
  <2>3. /\ MainHasAuth' => MainHasAuth
        /\ \A l \in {"s_authGet", "s_authSet", "s_join"} :
             pc'["sender"] = l => pc["sender"] = l
        /\ \A l \in {"r_confReply", "r_msg"} \cup Answering \cup NewMsg :
             pc'["receiver"] = l => pc["receiver"] = l
    BY <2>1, <2>2 DEF MainHasAuth, Threads, Watched, Answering, NewReply
  <2>4. Authenticated' <=> Authenticated
    BY <2>2 DEF Authenticated
  <2>5. MainTurn' /\ SenderTurn' /\ ReceiverTurn' /\ MsgInHand'
    BY <2>2, <2>3
       DEF FinalInv, MainTurn, SenderTurn, ReceiverTurn, MsgInHand, Answering
  <2>6. LoginOver'
    BY <2>2, <2>3, <2>4, LoginOverPrime
       DEF FinalInv, LoginOver, LoginIsFinal, Answering
  <2> QED
    BY <2>5, <2>6 DEF FinalInv
<1> QED
  BY <1>2, <1>3, <1>4, <1>5, NextDoes

LEMMA InitFinalInv == Init \/ InitOpen => FinalInv
<1> SUFFICES ASSUME Init \/ InitOpen PROVE FinalInv
  OBVIOUS
<1>1. /\ queue = <<>> /\ pc["main"] = "m_while" /\ pc["sender"] = "s_while"
      /\ pc["receiver"] = "r_while" /\ (fsm = fsm_OPEN \/ acted = {})
  BY DEF Init, InitOpen
<1>2. NoAuthIn(queue) /\ AuthFirst(queue) /\ ~MainHasAuth
  BY <1>1 DEF NoAuthIn, AuthFirst, MainHasAuth
<1>3. Authenticated => fsm = fsm_OPEN
  BY <1>1 DEF Authenticated
<1> QED
  BY <1>1, <1>2, <1>3, StateOrder
     DEF FinalInv, MainTurn, SenderTurn, ReceiverTurn, LoginOver, LoginIsFinal,
         MsgInHand, Answering, NewMsg

(* Once a positive reply was acted on the program state is never again one  *)
(* in front of the login: no test made by main, the sender or the receiver  *)
(* before the login is acted on after it, and no negative reply to a JOIN   *)
(* is taken for one to the AUTH.                                            *)
THEOREM LoginIsFinalHolds ==
  (Spec => []LoginIsFinal) /\ (OpenSpec => []LoginIsFinal)
<1>1. FinalInv => LoginIsFinal
  BY DEF FinalInv, LoginOver
<1> QED
  BY <1>1, InitStepInv, NextStepInv, InitAuthInv, NextAuthInv, InitLoginInv,
     NextLoginInv, InitFinalInv, NextFinalInv, PTL DEF Spec, OpenSpec

-----------------------------------------------------------------------------
(* The server's messages.                                                   *)
Recorded == Record(rx) \in confirmedMsgs
Fresh    == PlainId(rx.id) => rx \notin acted

PrintInv ==
  /\ \A m \in acted : Record(m) \in confirmedMsgs
  /\ pc["receiver"] \in NewReply => Recorded
  /\ pc["receiver"] \in NewMsg => Recorded /\ Fresh
  /\ pc["receiver"] = "r_msg" /\ ~repetitiveMsg => Recorded /\ Fresh

(* An id whose two bytes are below the sign bit is found again.             *)
LEMMA PlainIdFound ==
  ASSUME NEW n \in MsgIds, PlainId(n)
  PROVE  SameMessageId(n, n)
BY DEF PlainId, SameMessageId, ByteMatches, SignedChar

LEMMA RecordFound ==
  ASSUME NEW m \in SrvMessage, PlainId(m.id), Record(m) \in confirmedMsgs
  PROVE  queueContainsMessageId(confirmedMsgs, m)
<1>1. Record(m).type = m.type /\ Record(m).id = m.id /\ m.id \in MsgIds
  BY DEF Record, SrvMessage
<1>2. SameMessageId(m.id, Record(m).id)
  BY <1>1, PlainIdFound
<1> QED
  BY <1>1, <1>2 DEF queueContainsMessageId

(* Nobody but the receiver takes it to the labels of the two invariants.    *)
ReceiverPaths == NewReply \cup NewMsg \cup Unknown \cup {"r_msg", "r_dedup"}

LEMMA ReceiverStays ==
  ASSUME pc'["receiver"] = pc["receiver"] \/ Woken("receiver"),
         pc'["receiver"] \in ReceiverPaths
  PROVE  pc'["receiver"] = pc["receiver"]
BY WokenCases DEF Threads, ReceiverPaths, NewReply, NewMsg, Unknown

LEMMA ReceiverKeepsPrintInv ==
  ASSUME TypeOK, PrintInv, ReceiverDoes
  PROVE  PrintInv'
<1>a. rx \in SrvMessage /\ PrintInv /\ ReceiverRecords
  BY DEF TypeOK, RecvOK, ReceiverDoes
<1>b. confirmedMsgs \subseteq confirmedMsgs'
  BY <1>a DEF ReceiverRecords
<1>1. \A m \in acted' : Record(m) \in confirmedMsgs'
  <2>1. CASE acted' = acted
    BY <1>a, <1>b, <2>1 DEF PrintInv
  <2>2. CASE pc["receiver"] \in {"r_okSet", "r_print"} /\ acted' = acted \cup {rx}
    <3>1. Record(rx) \in confirmedMsgs
      BY <1>a, <2>2 DEF PrintInv, NewReply, NewMsg, Recorded
    <3> QED
      BY <1>a, <1>b, <2>2, <3>1 DEF PrintInv
  <2> QED
    BY <1>a, <2>1, <2>2 DEF ReceiverRecords
<1>2. ASSUME pc'["receiver"] \in NewReply PROVE Record(rx') \in confirmedMsgs'
  <2>1. rx' = rx
    BY <1>2 DEF ReceiverDoes, ReceiverEnters
  <2>2. CASE pc["receiver"] \in NewReply
    BY <1>a, <1>b, <2>1, <2>2 DEF PrintInv, Recorded
  <2>3. CASE Record(rx) \in confirmedMsgs'
    BY <2>1, <2>3
  <2> QED
    BY <1>a, <1>2, <2>2, <2>3 DEF ReceiverRecords
<1>3. pc'["receiver"] \in NewMsg \cup {"r_msg"} => acted' = acted
  BY <1>a DEF ReceiverRecords, NewMsg
<1>4. ASSUME pc'["receiver"] \in NewMsg
      PROVE  Record(rx') \in confirmedMsgs' /\ (PlainId(rx'.id) => rx' \notin acted')
  <2>1. rx' = rx /\ Recorded /\ Fresh
    BY <1>a, <1>4 DEF ReceiverRecords, PrintInv
  <2> QED
    BY <1>b, <1>3, <1>4, <2>1 DEF Recorded, Fresh
<1>5. ASSUME pc'["receiver"] = "r_msg", ~repetitiveMsg'
      PROVE  Record(rx') \in confirmedMsgs' /\ (PlainId(rx'.id) => rx' \notin acted')
  <2>1. /\ rx' = rx /\ ~queueContainsMessageId(confirmedMsgs, rx)
        /\ Record(rx) \in confirmedMsgs'
    BY <1>a, <1>5 DEF ReceiverRecords
  <2>2. PlainId(rx.id) => rx \notin acted
    BY <1>a, <2>1, RecordFound DEF PrintInv
  <2> QED
    BY <1>3, <1>5, <2>1, <2>2
<1> QED
  BY <1>1, <1>2, <1>4, <1>5 DEF PrintInv, Recorded, Fresh, Record, PlainId

LEMMA NextPrintInv == StepInv /\ PrintInv /\ [Next]_vars => PrintInv'
<1> SUFFICES ASSUME StepInv, PrintInv, [Next]_vars PROVE PrintInv'
  OBVIOUS
<1>1. TypeOK
  BY DEF StepInv, IndInv
<1>2. CASE ReceiverDoes
  BY <1>1, <1>2, ReceiverKeepsPrintInv
<1>3. CASE MainDoes \/ SenderDoes \/ Wakes
  <2>1. /\ UNCHANGED <<rx, repetitiveMsg, confirmedMsgs, acted>>
        /\ pc'["receiver"] = pc["receiver"] \/ Woken("receiver")
    BY <1>3 DEF MainDoes, SenderDoes, Wakes, recvVars, Others, Threads
  <2>2. pc'["receiver"] \in ReceiverPaths => pc'["receiver"] = pc["receiver"]
    BY <2>1, ReceiverStays
  <2> QED
    BY <2>1, <2>2
       DEF PrintInv, Recorded, Fresh, Record, PlainId, ReceiverPaths
<1> QED
  BY <1>2, <1>3, NextDoes

LEMMA InitPrintInv == Init \/ InitOpen => PrintInv
<1>1. CASE Init
  BY <1>1 DEF Init, PrintInv, NewReply, NewMsg
<1>2. CASE InitOpen
  BY <1>2 DEF InitOpen, LoginReply, PrintInv, NewReply, NewMsg, Record
<1> QED
  BY <1>1, <1>2

(* No message with a plain id is printed twice, although it is recorded as  *)
(* received in one step, confirmed in another and printed in a third, and   *)
(* may be delivered again in between.                                       *)
THEOREM NoDoublePrintHolds ==
  (Spec => []NoDoublePrint) /\ (OpenSpec => []NoDoublePrint)
<1>1. PrintInv => NoDoublePrint
  BY DEF PrintInv, NoDoublePrint, NewMsg, Fresh
<1> QED
  BY <1>1, InitStepInv, NextStepInv, InitPrintInv, NextPrintInv, PTL
     DEF Spec, OpenSpec

-----------------------------------------------------------------------------
(* The only place where the queue is changed without its mutex is the       *)
(* confirmation of a message of unknown type, and the receiver gets there   *)
(* only with such a message.                                                *)
UnknownInv ==
  /\ pc["receiver"] = "r_dedup" => rx.type \in ServerKinds \ {"MALFORMED"}
  /\ pc["receiver"] \in Unknown => "UNKNOWN" \in ServerKinds

LEMMA NextUnknownInv == StepInv /\ UnknownInv /\ [Next]_vars => UnknownInv'
<1> SUFFICES ASSUME StepInv, UnknownInv, [Next]_vars PROVE UnknownInv'
  OBVIOUS
<1>2. CASE ReceiverDoes
  BY <1>2 DEF ReceiverDoes, ReceiverEnters, UnknownInv
<1>3. CASE MainDoes \/ SenderDoes \/ Wakes
  <2>1. /\ UNCHANGED rx
        /\ pc'["receiver"] = pc["receiver"] \/ Woken("receiver")
    BY <1>3 DEF MainDoes, SenderDoes, Wakes, recvVars, Others, Threads
  <2>2. pc'["receiver"] \in ReceiverPaths => pc'["receiver"] = pc["receiver"]
    BY <2>1, ReceiverStays
  <2> QED
    BY <2>1, <2>2 DEF UnknownInv, ReceiverPaths
<1> QED
  BY <1>2, <1>3, NextDoes

LEMMA HolderSteps ==
  ASSUME "UNKNOWN" \notin ServerKinds
  PROVE  StepInv /\ UnknownInv /\ [Next]_vars =>
           [queue' # queue =>
              \A t \in Threads : lock \notin {"none", t} =>
                pc'[t] = pc[t] \/ pc[t] \in DOMAIN Resume]_vars
<1> SUFFICES ASSUME StepInv, UnknownInv, [Next]_vars, queue' # queue,
                    NEW t \in Threads, lock \notin {"none", t}
             PROVE  pc'[t] = pc[t] \/ pc[t] \in DOMAIN Resume
  OBVIOUS
<1>1. pc["receiver"] # "r_unkConfirm"
  BY DEF UnknownInv, Unknown
<1>2. \E u \in Threads : Others(u) /\ lock \in {"none", u}
  BY <1>1, NextDoes DEF MainDoes, SenderDoes, ReceiverDoes, Wakes, Threads
<1> QED
  BY <1>2 DEF Others, Woken

(* While a thread holds the mutex no other thread changes the queue, as     *)
(* long as the server sends no message of unknown type: the confirmation of *)
(* such a message is queued without the mutex.                              *)
THEOREM OnlyHolderChangesQueueHolds ==
  ASSUME "UNKNOWN" \notin ServerKinds
  PROVE  /\ Spec => OnlyHolderChangesQueue
         /\ OpenSpec => OnlyHolderChangesQueue
<1>1. Init \/ InitOpen => UnknownInv
  BY DEF Init, InitOpen, UnknownInv, Unknown
<1> QED
  BY <1>1, InitStepInv, NextStepInv, NextUnknownInv, HolderSteps, PTL
     DEF Spec, OpenSpec, OnlyHolderChangesQueue
==============================================================================
