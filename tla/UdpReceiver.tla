----------------------------- MODULE UdpReceiver -----------------------------
(***************************************************************************)
(* The receiver thread, UDP variant (protocolReceiver.c), with the network *)
(* and the server as far as the receiver sees them.                        *)
(***************************************************************************)
EXTENDS ProgramInterface

Confirmation(flags) == createMessage("CONF", flags, rx.id)

(* sendConfirm: to the front of the queue.                                  *)
sendConfirm(q, flags) == queueAddMessagePriority(q, Confirmation(flags))

(* Duplicates are recognised by type and id bytes.                          *)
queueContainsMessageId(q, m) ==
  \E c \in q : c.type = m.type /\ SameMessageId(m.id, c.id)

-----------------------------------------------------------------------------
(* The environment.  A CONF is delivered late, repeatedly or never, any     *)
(* other message of the server late, twice or never, in any order.  The     *)
(* server labels each of its own messages with an id it has not used        *)
(* before, answers each AUTH or JOIN at most once and confirms only what    *)
(* was transmitted.                                                         *)
Replies  == {m \in srv : m.type = "REPLY"}

Known(m) == \E n \in srv : n.type = m.type /\ n.id = m.id

FromServer(m) ==
  \/ /\ m.type = "CONF" /\ ~m.ok
     /\ m.id \in ConfIds \cap wire
  \/ /\ m.type # "CONF"
     /\ Duplicates /\ m \in srv \ dup
  \/ /\ m.type # "CONF" /\ m.id \in SrvIds
     /\ m.ok => m.type = "REPLY"
     /\ m.type = "REPLY" => Cardinality(Replies) < Cardinality(requests)
     /\ \A n \in srv : n.id # m.id

(* A datagram that ends before its id is read with the id bytes an earlier  *)
(* one left in the buffer: with those of a recorded message of its type it  *)
(* passes for a repetition of that message (the model: once).               *)
ShortRepeats(m) ==
  /\ "SHORT" \in ServerKinds /\ ~m.ok /\ m \notin dup
  /\ queueContainsMessageId(confirmedMsgs, m)

Deliverable == {m \in [type : ServerKinds, id : MsgIds, ok : BOOLEAN] :
                  FromServer(m) \/ ShortRepeats(m)}

-----------------------------------------------------------------------------
(* protocolReceiver                                                         *)
ReceiverLoop ==
  /\ Goto("receiver", "r_while", IF fsm # fsm_END THEN "r_recv" ELSE "r_end")
  /\ rx' = NoSrvMessage /\ repetitiveMsg' = FALSE
  /\ UNCHANGED <<interface, mainVars, sendVars, confirmedMsgs, srv, dup, acted>>

(* recvfrom gives up after a second.                                        *)
ReceiveTimeout == LocalStep("receiver", "r_recv", "r_while")

(* In START everything but REPLY and CONF is thrown away.                   *)
DiscardedInStart(m, s) == s = fsm_START /\ m.type \notin {"REPLY", "CONF"}

(* A datagram is received and disassembled, and the state is read.  A       *)
(* required text field that is empty makes findZeroInString call            *)
(* errHandling before anything else is looked at.                           *)
Receive(m) ==
  /\ Len(queue) < MaxQueue
  /\ Goto("receiver", "r_recv",
          IF m.type = "MALFORMED" THEN "e_set"
          ELSE IF DiscardedInStart(m, fsm) THEN "r_while" ELSE "r_dedup")
  /\ rx' = m
  /\ srv' = IF m.type = "CONF" \/ Known(m) THEN srv ELSE srv \cup {m}
  /\ dup' = IF Known(m) THEN dup \cup {m} ELSE dup
  /\ UNCHANGED <<interface, mainVars, sendVars, repetitiveMsg, confirmedMsgs,
                 acted>>

-----------------------------------------------------------------------------
(* receiverFSM.  The record is made before the message is acted             *)
(* on.  The code records a CONF as well, but never asks about one.          *)
queueAddMessageOnlyID(q, m) ==
  IF m.type = "CONF" THEN q ELSE q \cup {[type |-> m.type, id |-> m.id]}

HandlerOf(m, repetitive) ==
  CASE m.type = "CONF"  -> "r_conf"
    [] m.type = "REPLY" -> IF repetitive THEN "r_repeated" ELSE "r_reply1"
    [] m.type = "MSG"   -> "r_msg"
    [] m.type = "BYE"   -> "r_bye"
    [] m.type = "ERR"   -> "r_err"
    [] OTHER            -> "r_unknown"

FilterRepeated ==
  LET repetitive == queueContainsMessageId(confirmedMsgs, rx) IN
  /\ rx.type # "SHORT"
  /\ Goto("receiver", "r_dedup", HandlerOf(rx, repetitive))
  /\ lock = "none"
  /\ repetitiveMsg' = repetitive
  /\ confirmedMsgs' = IF repetitive THEN confirmedMsgs
                      ELSE queueAddMessageOnlyID(confirmedMsgs, rx)
  /\ UNCHANGED <<interface, mainVars, sendVars, rx, srv, dup, acted>>

(* A datagram without an id that passes for no recorded message cannot be   *)
(* recorded: queueAddMessageOnlyID calls errHandling while the mutex of the *)
(* sending queue is locked.                                                 *)
RecordShort == rx.type = "SHORT" /\ LockStep("receiver", "r_dedup", "e_set")

-----------------------------------------------------------------------------
(* handleConfirmUDP                                                         *)
(* The id bytes of a message that was never transmitted are uninitialised:  *)
(* the comparison may come out either way.                                  *)
ConfirmsTop(m) ==
  IF m.id = NoId THEN BOOLEAN ELSE {ReadMsgId(rx.id) = ReadMsgId(m.id)}

(* An AUTH at the top is confirmed by any CONF.                             *)
Confirmable(same, m) == same \/ m.type = "AUTH"

(* Faulty variant of NextCounter: the sum is not truncated to 16 bits.      *)
NextCounterUncut(id) == ReadMsgId(id) + 1

NextCounter(id) == (ReadMsgId(id) + 1) % IdSize

ConfirmIgnored ==
  /\ lock = "none"
  /\ queue # <<>> => \E same \in ConfirmsTop(Head(queue)) :
                       ~Confirmable(same, Head(queue))
  /\ LocalStep("receiver", "r_conf", "r_while")

ConfirmTop ==
  /\ lock = "none" /\ queue # <<>>
  /\ \E same \in ConfirmsTop(Head(queue)) : Confirmable(same, Head(queue))
  /\ Goto("receiver", "r_conf", "r_confGet")
  /\ lock' = "receiver"
  /\ queue' = [queue EXCEPT ![1].confirmed = TRUE]
  /\ msgCounter' = NextCounter(rx.id)
  /\ UNCHANGED <<fsm, named, mainVars, sendVars, recvVars>>

ConfirmSwitch ==
  LocalStep("receiver", "r_confGet",
            CASE fsm = fsm_AUTH_SENDED  -> "r_confReply"
              [] fsm = fsm_END_W84_CONF -> "r_confEnd"
              [] fsm = fsm_OPEN         -> "r_confMain"
              [] OTHER                  -> "r_confSig")

ConfirmAuth   == SetStep("receiver", "r_confReply", fsm_W84_REPLY, "r_confSig")
ConfirmBye    == SetStep("receiver", "r_confEnd", fsm_END, "r_confMain")
ConfirmSigMain == SignalStep("receiver", "r_confMain", "mainCond", "r_confSig")

ConfirmSigSender ==
  /\ exited = "no" /\ pc["receiver"] = "r_confSig"
  /\ Signalled("receiver", "rec2SenderCond", "r_while")
  /\ lock' = "none"
  /\ UNCHANGED <<exited, fsm, queue, msgCounter, named, mainVars, sendVars,
                 recvVars>>

handleConfirmUDP ==
  \/ ConfirmIgnored \/ ConfirmTop \/ ConfirmSwitch \/ ConfirmAuth \/ ConfirmBye
  \/ ConfirmSigMain \/ ConfirmSigSender

-----------------------------------------------------------------------------
(* REPLY: a repeated one is only confirmed, and nobody is signalled.        *)
ReplyRepeated ==
  LockedQueueStep("receiver", "r_repeated", sendConfirm(queue, "CONFIRM"),
                  "r_while")

(* handleReplyUDP: acts only while a reply is awaited.                      *)
ReplyForAuth == LocalStep("receiver", "r_reply1",
                          IF fsm = fsm_W84_REPLY THEN "r_result" ELSE "r_reply2")
ReplyForJoin ==
  LocalStep("receiver", "r_reply2",
            IF fsm = fsm_JOIN_ATEMPT THEN "r_result" ELSE "r_while")
ReplyResult ==
  \/ /\ rx.ok
     /\ LocalStep("receiver", "r_result",
                  IF fsm = fsm_W84_REPLY THEN "r_okFlag" ELSE "r_okSet")
  \/ /\ ~rx.ok
     /\ LocalStep("receiver", "r_result", "r_nok")

ReplyOkFlag ==
  LockedQueueStep("receiver", "r_okFlag",
                  queueSetMessageFlags(queue, "CONFIRMED"), "r_okSet")

ReplyOkSet ==
  /\ Goto("receiver", "r_okSet", "r_okConfirm")
  /\ fsm' = fsm_W84_REPLY_CONF
  /\ acted' = acted \cup {rx}
  /\ UNCHANGED <<queue, lock, msgCounter, named, mainVars, sendVars, rx,
                 repetitiveMsg, confirmedMsgs, srv, dup>>

ReplyOkConfirm == LockedQueueStep("receiver", "r_okConfirm",
                                  sendConfirm(queue, "CONFIRM"), "r_okSig1")
ReplyOkSigEmpty == SignalStep("receiver", "r_okSig1", "senderEmptyQueueCond",
                              "r_okSig2")
ReplyOkSigRec   == SignalStep("receiver", "r_okSig2", "rec2SenderCond",
                              "r_counter")

(* Faulty variant of ReplyNokTop: the flags are not looked at, any negative *)
(* reply is one to the AUTH.                                                *)
ReplyNokAnyTop ==
  /\ lock = "none" /\ queue # <<>>
  /\ HolderStep("receiver", "r_nok", queueSetMessageFlags(queue, "REJECTED"),
                "receiver", "r_nokStart")
(* A negative reply: the flags of the first message are read unchecked.     *)
ReplyNokTop ==
  LET isAuth == Head(queue).msgFlags = "AUTH" IN
  /\ lock = "none" /\ queue # <<>>
  /\ HolderStep("receiver", "r_nok",
                IF isAuth THEN queueSetMessageFlags(queue, "REJECTED") ELSE queue,
                "receiver", IF isAuth THEN "r_nokStart" ELSE "r_nokGet")
ReplyNokNoTop ==
  lock = "none" /\ queue = <<>> /\ ExitStep("receiver", "r_nok", "segv")

ReplyNokStart == SetStep("receiver", "r_nokStart", fsm_START, "r_nokGet")
(* Faulty variant of ReplyNokGet: the test of the state is negated.         *)
ReplyNokGetNegated == LocalStep("receiver", "r_nokGet",
                                IF fsm # fsm_JOIN_ATEMPT THEN "r_nokOpen"
                                ELSE "r_nokConfirm")
ReplyNokGet   == LocalStep("receiver", "r_nokGet",
                           IF fsm = fsm_JOIN_ATEMPT THEN "r_nokOpen"
                           ELSE "r_nokConfirm")
ReplyNokOpen  == SetStep("receiver", "r_nokOpen", fsm_OPEN, "r_nokConfirm")
ReplyNokConfirm == HolderStep("receiver", "r_nokConfirm",
                              sendConfirm(queue, "NOK_REPLY"), "none", "r_nokSig")
ReplyNokSignal  == SignalStep("receiver", "r_nokSig", "mainCond", "r_counter")

(* The counter follows the server's id; no mutex is held.                   *)
ReplyCounter ==
  /\ Goto("receiver", "r_counter", "r_while")
  /\ msgCounter' = NextCounter(rx.id)
  /\ UNCHANGED <<fsm, queue, lock, named, mainVars, sendVars, recvVars>>

handleReplyUDP ==
  \/ ReplyForAuth \/ ReplyForJoin \/ ReplyResult
  \/ ReplyOkFlag \/ ReplyOkSet \/ ReplyOkConfirm \/ ReplyOkSigEmpty
  \/ ReplyOkSigRec
  \/ ReplyNokTop \/ ReplyNokNoTop \/ ReplyNokStart \/ ReplyNokGet
  \/ ReplyNokOpen \/ ReplyNokConfirm \/ ReplyNokSignal
  \/ ReplyCounter

-----------------------------------------------------------------------------
(* Faulty variants of MsgConfirm: a repeated message is printed again; the  *)
(* confirmation is queued without the mutex.                                *)
MsgPrintedAgain ==
  LockedQueueStep("receiver", "r_msg", sendConfirm(queue, "CONFIRM"),
                  "r_msgSig1")
MsgConfirmUnlocked ==
  HolderStep("receiver", "r_msg", sendConfirm(queue, "CONFIRM"), lock,
             IF repetitiveMsg THEN "r_while" ELSE "r_msgSig1")
(* MSG: confirmed always, printed once.                                     *)
MsgConfirm ==
  LockedQueueStep("receiver", "r_msg", sendConfirm(queue, "CONFIRM"),
                  IF repetitiveMsg THEN "r_while" ELSE "r_msgSig1")
MsgSigEmpty == SignalStep("receiver", "r_msgSig1", "senderEmptyQueueCond",
                          "r_msgSig2")
MsgSigRec   == SignalStep("receiver", "r_msgSig2", "rec2SenderCond", "r_print")

printIncomingMessage ==
  /\ Goto("receiver", "r_print", "r_while")
  /\ acted' = acted \cup {rx}
  /\ UNCHANGED <<interface, mainVars, sendVars, rx, repetitiveMsg,
                 confirmedMsgs, srv, dup>>

handleMsg == MsgConfirm \/ MsgSigEmpty \/ MsgSigRec \/ printIncomingMessage

(* BYE                                                                      *)
ByeConfirm == LockedQueueStep("receiver", "r_bye", sendConfirm(queue, "CONFIRM"),
                              "r_byeSet")
ByeSet     == SetStep("receiver", "r_byeSet", fsm_END, "r_sigMain")

(* ERR: the queue is replaced by the confirmation and a BYE; the state      *)
(* follows only after the sender was signalled.                             *)
ErrConfirm == LockedQueueStep("receiver", "r_err", sendConfirm(<<>>, "CONFIRM"),
                              "r_errBye")
ErrSendBye == sendBye("receiver", "r_errBye", "r_errSig1")
ErrSigEmpty == SignalStep("receiver", "r_errSig1", "senderEmptyQueueCond",
                          "r_errSig2")
ErrSigRec  == SignalStep("receiver", "r_errSig2", "rec2SenderCond", "r_errSet")
ErrSetErr  == SetStep("receiver", "r_errSet", fsm_ERR, "r_sigMain")

(* Any other type of message.                                               *)
UnknownSet == SetStep("receiver", "r_unknown", fsm_ERR, "r_unkPop")
UnknownPop == LockedQueueStep("receiver", "r_unkPop", <<>>, "r_unkConfirm")

(* sendConfirm without the mutex: when another thread is at work on the     *)
(* queue the two updates race, and this one may be lost.                    *)
UnknownConfirm ==
  /\ Goto("receiver", "r_unkConfirm", "r_unkErr")
  /\ \/ queue' = sendConfirm(queue, "CONFIRM")
     \/ lock # "none" /\ queue' = queue
  /\ UNCHANGED <<fsm, lock, msgCounter, named, mainVars, sendVars, recvVars>>

UnknownErr == sendError("receiver", "r_unkErr", "r_unkBye")
UnknownBye == sendBye("receiver", "r_unkBye", "r_unkSig1")
UnknownSigEmpty == SignalStep("receiver", "r_unkSig1", "senderEmptyQueueCond",
                              "r_unkSig2")
UnknownSigRec   == SignalStep("receiver", "r_unkSig2", "rec2SenderCond",
                              "r_sigMain")

(* The last statement of the BYE, ERR and unknown cases.                    *)
SigMain == SignalStep("receiver", "r_sigMain", "mainCond", "r_while")

handleEnd ==
  \/ ByeConfirm \/ ByeSet
  \/ ErrConfirm \/ ErrSendBye \/ ErrSigEmpty \/ ErrSigRec \/ ErrSetErr
  \/ UnknownSet \/ UnknownPop \/ UnknownConfirm \/ UnknownErr \/ UnknownBye
  \/ UnknownSigEmpty \/ UnknownSigRec \/ SigMain

ReceiverStep ==
  \/ ReceiverLoop \/ ReceiveTimeout \/ FilterRepeated \/ RecordShort
  \/ handleConfirmUDP
  \/ ReplyRepeated \/ handleReplyUDP \/ handleMsg \/ handleEnd

Delivery == pc["receiver"] = "r_recv" /\ \E m \in Deliverable : Receive(m)
==============================================================================
