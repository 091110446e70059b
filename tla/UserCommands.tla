---------------------------- MODULE UserCommands ----------------------------
(***************************************************************************)
(* The main thread: userCommandHandling and the end of main (main.c).      *)
(*                                                                         *)
(* A line the user types is one of the commands below; "OTHER" stands for  *)
(* every line that sends nothing whatever the program state: /help,        *)
(* /rename, an empty line, and a command whose arguments are missing or    *)
(* malformed.                                                              *)
(***************************************************************************)
EXTENDS ProgramInterface

UserCommandSet == {"AUTH", "JOIN", "MSG", "EXIT", "OTHER"}

ASSUME CommandsAssumption == Commands \subseteq UserCommandSet

(* Faulty variant: /auth is accepted until its AUTH was confirmed.          *)
filterAuthAgain(c, s) ==
  \/ c = "AUTH" /\ s <= fsm_AUTH_SENDED
  \/ c \in {"JOIN", "MSG"} /\ s = fsm_OPEN
  \/ c = "EXIT"

(* filterCommandsByFSM: whether command c is to be sent in program state s. *)
filterCommandsByFSM(c, s) ==
  \/ c = "AUTH" /\ s = fsm_START
  \/ c \in {"JOIN", "MSG"} /\ s = fsm_OPEN
  \/ c = "EXIT"

(* JOIN and MSG are assembled only when a display name is stored.           *)
assembled(c, hasName) == c \in {"JOIN", "MSG"} => hasName

canBeSended(c) == filterCommandsByFSM(c, fsm) /\ assembled(c, named)

(* The type and the flag of the message assembled for command c.            *)
TypeOf(c)  == IF c = "EXIT" THEN "BYE" ELSE c
FlagsOf(c) == IF c = "AUTH" THEN "AUTH" ELSE "NONE"

(* The loop condition; after an EOF was read the next turn says bye.        *)
MainLoop ==
  LocalStep("main", "m_while",
            IF fsm >= fsm_EMPTY_Q_BYE THEN "m_join"
            ELSE IF eof THEN "m_eofSet" ELSE "m_input")

MainEofSet    == SetStep("main", "m_eofSet", fsm_EMPTY_Q_BYE, "m_eofLock")
MainEofLock   == LockStep("main", "m_eofLock", "m_eofAdd")
MainEofBye    == HolderStep("main", "m_eofAdd",
                            queueAddMessage(queue, ByeMessage), "none",
                            "m_eofSig")
MainEofSignal == SignalStep("main", "m_eofSig", "senderEmptyQueueCond",
                            "m_while")

(* A line c is read, e tells whether it ended in EOF.  /auth stores the     *)
(* display name whatever the state, and only then is filtered; the state is *)
(* read here and acted on in later steps.                                   *)
UserTypes(c, e) ==
  /\ typed < MaxTyped /\ Len(queue) < MaxQueue
  /\ Goto("main", "m_input",
          IF ~canBeSended(c) THEN "m_while"
          ELSE IF c = "AUTH" THEN "m_authSet" ELSE "m_lock")
  /\ typed' = typed + 1
  /\ eof' = e
  /\ named' = (named \/ c = "AUTH")
  /\ cmd' = IF canBeSended(c) THEN c ELSE "OTHER"
  /\ UNCHANGED <<fsm, queue, lock, msgCounter, sendVars, recvVars>>

MainAuthSet == SetStep("main", "m_authSet", fsm_AUTH_W82, "m_lock")
MainLock    == LockStep("main", "m_lock", "m_add")

(* The message is queued; the sender is signalled if the queue was empty or *)
(* the message is an AUTH; the mutex is released.                           *)
MainAdd ==
  LET next == IF cmd = "EXIT" THEN "m_exitSet" ELSE "m_wait" IN
  /\ exited = "no" /\ pc["main"] = "m_add"
  /\ queue' = queueAddMessage(queue,
                              createMessage(TypeOf(cmd), FlagsOf(cmd), NoId))
  /\ lock' = "none"
  /\ IF queue = <<>> \/ cmd = "AUTH"
     THEN Signalled("main", "senderEmptyQueueCond", next)
     ELSE pc' = [pc EXCEPT !["main"] = next]
  /\ UNCHANGED <<fsm, msgCounter, named, exited, mainVars, sendVars, recvVars>>

MainExitSet    == SetStep("main", "m_exitSet", fsm_EMPTY_Q_BYE, "m_exitSig")
MainExitSignal == SignalStep("main", "m_exitSig", "senderEmptyQueueCond",
                             "m_wait")

(* pthread_cond_wait on mainCond: a signal sent before this step is lost.   *)
MainWait == LocalStep("main", "m_wait", "m_waiting")

(* main joins the receiver, then the sender, and the process ends.          *)
MainJoin ==
  /\ pc["receiver"] = "r_end" /\ pc["sender"] = "s_end"
  /\ ExitStep("main", "m_join", "normal")

UserInput == \E c \in Commands, e \in EofMarks : UserTypes(c, e)

MainStep ==
  \/ MainLoop \/ MainEofSet \/ MainEofLock \/ MainEofBye \/ MainEofSignal
  \/ MainAuthSet \/ MainLock \/ MainAdd \/ MainExitSet \/ MainExitSignal
  \/ MainWait \/ MainJoin
============================================================================
