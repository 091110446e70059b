----------------------------- MODULE TcpReceiver -----------------------------
(***************************************************************************)
(* The receiver thread, TCP variant (protocolReceiver.c), and the byte     *)
(* stream it reads from.                                                   *)
(*                                                                         *)
(* The steps the variants share are those of UdpReceiver.  Each critical   *)
(* section of the queue is split into its lock and the rest, because the   *)
(* sender of this variant may free the mutex in between.                   *)
(***************************************************************************)
EXTENDS UdpReceiver, TcpSender

CONSTANT MaxServer   \* bound: number of messages the server writes

ASSUME StreamAssumption == MaxServer \in Nat

-----------------------------------------------------------------------------
(* The environment.  The server writes messages, a REPLY only to an AUTH or *)
(* a JOIN that was transmitted and not yet answered, and nothing after a    *)
(* message that ends the session.                                           *)
Requests == SelectSeq(sent, LAMBDA t : t \in {"AUTH", "JOIN"})

ServerWrites(m) ==
  /\ told < MaxServer /\ exited = "no"
  /\ m.ok => m.type = "REPLY"
  /\ m.type = "REPLY" => answered < Len(Requests)
  /\ stream' = Append(stream, m)
  /\ told' = IF m.type \in {"REPLY", "MSG"} THEN told + 1 ELSE MaxServer
  /\ answered' = IF m.type = "REPLY" THEN answered + 1 ELSE answered
  /\ UNCHANGED <<interface, pc, exited, mainVars, sendVars, recvVars, sent>>

Server == \E k \in ServerKinds, ok \in BOOLEAN :
            ServerWrites([type |-> k, id |-> 0, ok |-> ok])

-----------------------------------------------------------------------------
(* disassebleProtocolTCP: one read is one message, the one its bytes begin  *)
(* with; what follows it in the same read is not looked at.  "UNKNOWN" are  *)
(* the corrupted and unknown messages, and the bytes of a read that begins  *)
(* or ends inside a message.                                                *)
TcpHandlerOf(m) ==
  CASE m.type = "REPLY" -> "r_reply1"
    [] m.type = "MSG"   -> "r_print"
    [] m.type = "BYE"   -> "r_byeSet"
    [] m.type = "ERR"   -> "r_err"
    [] OTHER            -> "r_unknown"

TcpReceive(m, rest) ==
  /\ Goto("receiver", "r_recv",
          IF DiscardedInStart(m, fsm) THEN "r_while" ELSE TcpHandlerOf(m))
  /\ rx' = m
  /\ stream' = rest
  /\ UNCHANGED <<interface, mainVars, sendVars, repetitiveMsg, confirmedMsgs,
                 srv, dup, acted, sent, told, answered>>

(* A read takes the first message, or all that has arrived.                 *)
TcpDelivery ==
  /\ stream # <<>>
  /\ \E rest \in {Tail(stream), <<>>} : TcpReceive(Head(stream), rest)

-----------------------------------------------------------------------------
(* REPLY: acted on while one is awaited, and main is signalled always.      *)
TcpReply ==
  LocalStep("receiver", "r_reply1",
            IF fsm \notin {fsm_AUTH_SENDED, fsm_JOIN_ATEMPT} THEN "r_sigMain"
            ELSE IF rx.ok THEN "r_okSet" ELSE "r_nokGet")

TcpReplyOk ==
  /\ Goto("receiver", "r_okSet", "r_sigMain")
  /\ fsm' = fsm_OPEN
  /\ acted' = acted \cup {rx}
  /\ UNCHANGED <<queue, lock, msgCounter, named, mainVars, sendVars, rx,
                 repetitiveMsg, confirmedMsgs, srv, dup>>

(* Faulty variant of TcpReplyNok: the session is taken for open whichever   *)
(* request was refused.                                                     *)
TcpReplyNokOpens == LocalStep("receiver", "r_nokGet", "r_nokOpen")
(* Faulty variant of TcpReplyNok: a refused JOIN ends the session.          *)
TcpReplyNokStarts == LocalStep("receiver", "r_nokGet", "r_nokStart")
(* The state is read again.                                                 *)
TcpReplyNok      == LocalStep("receiver", "r_nokGet",
                              IF fsm = fsm_JOIN_ATEMPT THEN "r_nokOpen"
                              ELSE "r_nokStart")
TcpReplyNokOpen  == SetStep("receiver", "r_nokOpen", fsm_OPEN, "r_sigMain")
TcpReplyNokStart == SetStep("receiver", "r_nokStart", fsm_START, "r_sigMain")

TcpHandleReply ==
  TcpReply \/ TcpReplyOk \/ TcpReplyNok \/ TcpReplyNokOpen \/ TcpReplyNokStart

-----------------------------------------------------------------------------
(* queueLock; ...; queueUnlock in two steps, the queue becoming q.          *)
InQueue(from, in, q, to) ==
  \/ LockStep("receiver", from, in)
  \/ HolderStep("receiver", in, q, "none", to)

TcpErrPop == InQueue("r_err", "r_errPop", <<>>, "r_errBye")
TcpErrBye == InQueue("r_errBye", "r_errByeAdd",
                     queueAddMessage(queue, ByeMessage), "r_errSig1")

TcpUnknownPop == InQueue("r_unkPop", "r_unkPopAll", <<>>, "r_unkErr")

(* sendError: the assembly needs a display name; its failure is reported    *)
(* with the mutex locked.                                                   *)
TcpUnknownErr ==
  \/ /\ named
     /\ InQueue("r_unkErr", "r_unkErrAdd", queueAddMessage(queue, ErrMessage),
                "r_unkBye")
  \/ /\ ~named
     /\ LockStep("receiver", "r_unkErr", "e_set")
TcpUnknownBye == InQueue("r_unkBye", "r_unkByeAdd",
                         queueAddMessage(queue, ByeMessage), "r_unkSig1")

TcpHandleEnd ==
  \/ ByeSet
  \/ TcpErrPop \/ TcpErrBye \/ ErrSigEmpty \/ ErrSigRec \/ ErrSetErr
  \/ UnknownSet \/ TcpUnknownPop \/ TcpUnknownErr \/ TcpUnknownBye
  \/ UnknownSigEmpty \/ UnknownSigRec \/ SigMain

(* recvfrom gives up after a second, or at once on a closed connection.     *)
TcpReceiverLocal ==
  \/ ReceiverLoop \/ ReceiveTimeout
  \/ TcpHandleReply \/ printIncomingMessage \/ TcpHandleEnd
==============================================================================
