-------------------------- MODULE ProgramInterface --------------------------
(***************************************************************************)
(* What the three threads of the client share: the program state           *)
(* (fsmState), the queue of messages to send and its mutex, the message    *)
(* counter and the condition variables; and the forms of step from which   *)
(* the threads' modules build their actions.                               *)
(*                                                                         *)
(* Grain of atomicity.  getProgramState and setProgramState take fsmMutex  *)
(* for one read or one write, so each is one step.  Signalling a condition *)
(* is one step and entering a wait is one step.  Work done on the queue    *)
(* while its mutex is held is one step as long as it contains none of      *)
(* these; otherwise it is split and the thread keeps `lock`.               *)
(***************************************************************************)
EXTENDS Integers, Sequences, FiniteSets, MessageId

CONSTANTS
  udpMaxRetries,   \* netConfig->udpMaxRetries (-r, default 3)
  CounterSize,     \* number of values of the uint8_t sendCount
  Commands,        \* the commands the user may type
  ServerKinds,     \* the kinds of message the server may send
  SrvIds,          \* the ids the server may put on its own messages
  ConfIds,         \* bound: the ids of ours that the server confirms
  MaxTyped,        \* bound: number of lines the user types
  MaxQueue,        \* bound: input is taken only while the queue is shorter
  EofMarks,        \* whether a line may end in EOF: a subset of BOOLEAN
  Duplicates,      \* whether a message of the server may arrive twice
  SigintAllowed,   \* whether SIGINT may arrive
  Spurious         \* whether condition waits may return unsignalled

ASSUME ConstantsAssumption ==
  /\ CounterSize \in Nat \ {0}
  /\ udpMaxRetries \in 0 .. CounterSize - 1
  /\ SrvIds \subseteq MsgIds /\ ConfIds \subseteq MsgIds
  /\ MaxTyped \in Nat
  /\ MaxQueue \in Nat
  /\ EofMarks \subseteq BOOLEAN
  /\ Duplicates \in BOOLEAN
  /\ SigintAllowed \in BOOLEAN
  /\ Spurious \in BOOLEAN

(* fsm_t: the order is the one the `<` and `<=` tests of the code rely on.  *)
fsm_START        == 0
fsm_AUTH_W82     == 1      \* fsm_AUTH_W82_BE_SENDED
fsm_AUTH_SENDED  == 2
fsm_W84_REPLY    == 3
fsm_W84_REPLY_CONF == 4
fsm_OPEN         == 5
fsm_JOIN_ATEMPT  == 6
fsm_EMPTY_Q_BYE  == 7
fsm_ERR          == 8
fsm_ERR_W84_CONF == 9
fsm_SIGINT_BYE   == 10
fsm_END_W84_CONF == 11
fsm_END          == 12
FsmStates        == 0 .. 12

Threads == {"main", "sender", "receiver"}

VARIABLES
  fsm,            \* threads->fsmState
  queue,          \* threads->sendingQueue, first message first
  lock,           \* holder of sendingQueue->lock, or "none"
  msgCounter,     \* comDetails->msgCounter
  named,          \* comDetails->displayName has been allocated
  pc,             \* where each thread is
  exited,         \* how the process ended, "no" while it runs
  cmd, eof, typed,                      \* locals of userCommandHandling
  resetLoop, msgToBeSend,               \* locals of the sender
  wire, requests, \* the ids of all datagrams, and of all requests, sent
  rx, repetitiveMsg, confirmedMsgs,     \* locals of the receiver
  srv, dup,       \* the server's messages delivered once, and again
  acted           \* the server's messages the receiver has acted on

interface == <<fsm, queue, lock, msgCounter, named>>
mainVars  == <<cmd, eof, typed>>
sendVars  == <<resetLoop, msgToBeSend, wire, requests>>
recvVars  == <<rx, repetitiveMsg, confirmedMsgs, srv, dup, acted>>
vars      == <<interface, pc, exited, mainVars, sendVars, recvVars>>

-----------------------------------------------------------------------------
(* Messages.  A message that was never transmitted has no id: the bytes are *)
(* uninitialised memory (the assembler skips them).                         *)
MsgTypes == {"CONF", "AUTH", "JOIN", "MSG", "ERR", "BYE"}
MsgFlags == {"NONE", "NOK_REPLY", "AUTH", "REJECTED", "CONFIRMED", "ERR",
             "CONFIRM", "BYE"}
NoId == -1
Message == [type : MsgTypes, msgFlags : MsgFlags, confirmed : BOOLEAN,
            sendCount : 0 .. CounterSize - 1, id : MsgIds \cup {NoId}]

createMessage(type, flags, id) ==
  [type |-> type, msgFlags |-> flags, confirmed |-> FALSE, sendCount |-> 0,
   id |-> id]

NoMessage == createMessage("CONF", "NONE", NoId)

ByeMessage == createMessage("BYE", "BYE", NoId)
ErrMessage == createMessage("ERR", "ERR", NoId)

(* Faulty variant of queueAddMessage: the message is put at the wrong end.  *)
queueAddMessageFront(q, m) == <<m>> \o q

queueAddMessage(q, m)         == Append(q, m)
queueAddMessagePriority(q, m) == <<m>> \o q
queuePopMessage(q)            == IF q = <<>> THEN q ELSE Tail(q)
queueSetMessageFlags(q, f)    ==
  IF q = <<>> THEN q ELSE [q EXCEPT ![1].msgFlags = f]

(* The server's messages.  CONF carries the id of a datagram of ours.       *)
(* "MALFORMED" lacks a text field, "SHORT" ends before its id and is of a   *)
(* type that START throws away.                                             *)
SrvTypes   == {"CONF", "REPLY", "MSG", "BYE", "ERR", "UNKNOWN", "MALFORMED",
               "SHORT"}
SrvMessage == [type : SrvTypes, id : MsgIds, ok : BOOLEAN]
NoSrvMessage == [type |-> "CONF", id |-> 0, ok |-> FALSE]

-----------------------------------------------------------------------------
(* Condition variables.  A thread parked at a label of Parked[c] waits on   *)
(* the condition c; it goes on at Resume of that label.                     *)
Parked == [mainCond             |-> {"m_waiting", "h_waiting", "e_waiting"},
           senderEmptyQueueCond |-> {"s_ewaiting"},
           rec2SenderCond       |-> {"s_rwaiting", "s_lwaiting", "s_twaiting"}]

Resume == [m_waiting  |-> "m_while",  h_waiting  |-> "h_exit",
           e_waiting  |-> "e_exit",   s_ewaiting |-> "s_while",
           s_rwaiting |-> "s_relock", s_lwaiting |-> "s_relogic",
           s_twaiting |-> "s_while"]

Waiters(c) == {t \in Threads : pc[t] \in Parked[c]}

-----------------------------------------------------------------------------
(* Forms of step, for thread t going from label `from` to label `to`.       *)
Goto(t, from, to) ==
  /\ exited = "no" /\ pc[t] = from
  /\ pc' = [pc EXCEPT ![t] = to]
  /\ UNCHANGED exited

(* A branch on the program state or on a local: nothing else changes.       *)
LocalStep(t, from, to) ==
  Goto(t, from, to) /\ UNCHANGED <<interface, mainVars, sendVars, recvVars>>

(* setProgramState(s)                                                       *)
SetStep(t, from, s, to) ==
  /\ Goto(t, from, to)
  /\ fsm' = s
  /\ UNCHANGED <<queue, lock, msgCounter, named, mainVars, sendVars, recvVars>>

(* pthread_cond_signal(c): one waiter goes on; with none the signal is lost *)
Signalled(t, c, to) ==
  IF Waiters(c) = {}
  THEN pc' = [pc EXCEPT ![t] = to]
  ELSE \E w \in Waiters(c) :
         pc' = [pc EXCEPT ![t] = to, ![w] = Resume[pc[w]]]

SignalStep(t, from, c, to) ==
  /\ exited = "no" /\ pc[t] = from
  /\ Signalled(t, c, to)
  /\ UNCHANGED <<exited, interface, mainVars, sendVars, recvVars>>

(* queueLock                                                                *)
LockStep(t, from, to) ==
  /\ Goto(t, from, to)
  /\ lock = "none" /\ lock' = t
  /\ UNCHANGED <<fsm, queue, msgCounter, named, mainVars, sendVars, recvVars>>

(* queueLock; the queue becomes q; queueUnlock                              *)
LockedQueueStep(t, from, q, to) ==
  /\ Goto(t, from, to)
  /\ lock = "none"
  /\ queue' = q
  /\ UNCHANGED <<fsm, lock, msgCounter, named, mainVars, sendVars, recvVars>>

(* The holder of the mutex changes the queue and keeps or gives up the lock *)
HolderStep(t, from, q, l, to) ==
  /\ Goto(t, from, to)
  /\ queue' = q /\ lock' = l
  /\ UNCHANGED <<fsm, msgCounter, named, mainVars, sendVars, recvVars>>

(* sendBye: locks the queue itself                                          *)
sendBye(t, from, to) ==
  LockedQueueStep(t, from, queueAddMessage(queue, ByeMessage), to)

(* sendError: assembling the message needs a display name; without one the  *)
(* caller enters errHandling while it holds the queue's mutex.              *)
sendError(t, from, to) ==
  \/ /\ named
     /\ LockedQueueStep(t, from, queueAddMessage(queue, ErrMessage), to)
  \/ /\ ~named
     /\ LockStep(t, from, "e_set")

(* The process ends or dies: nothing of it runs any more.                   *)
ExitStep(t, from, how) ==
  /\ exited = "no" /\ pc[t] = from
  /\ exited' = how
  /\ UNCHANGED <<interface, pc, mainVars, sendVars, recvVars>>
============================================================================
