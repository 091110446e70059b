------------------------------- MODULE CleanUp -------------------------------
(***************************************************************************)
(* The ways the program is torn down outside the normal path: the SIGINT   *)
(* handler (cleanUpMaster.c), which runs on the main thread, and           *)
(* errHandling for internal errors (main.c), which runs on the thread that *)
(* met the error.                                                          *)
(***************************************************************************)
EXTENDS ProgramInterface

HandlerLabels == {"h_set", "h_sig", "h_pop", "h_bye", "h_sig2", "h_sig3",
                  "h_wait", "h_waiting", "h_exit"}

(* SIGINT interrupts the main thread wherever it is, in a critical section  *)
(* or in a wait as well; the handler never returns to it.                   *)
Sigint ==
  /\ SigintAllowed /\ exited = "no"
  /\ pc["main"] \notin HandlerLabels
  /\ pc' = [pc EXCEPT !["main"] = "h_set"]
  /\ UNCHANGED <<exited, interface, mainVars, sendVars, recvVars>>

SigintSet     == SetStep("main", "h_set", fsm_SIGINT_BYE, "h_sig")
SigintSigMain == SignalStep("main", "h_sig", "mainCond", "h_pop")
(* Faulty variant of SigintPop: only the first message is dropped.          *)
SigintPopFirst == LockedQueueStep("main", "h_pop", queuePopMessage(queue),
                                  "h_bye")
SigintPop     == LockedQueueStep("main", "h_pop", <<>>, "h_bye")
SigintBye     == sendBye("main", "h_bye", "h_sig2")
SigintSigEmpty == SignalStep("main", "h_sig2", "senderEmptyQueueCond", "h_sig3")
SigintSigRec   == SignalStep("main", "h_sig3", "rec2SenderCond", "h_wait")
SigintWait    == LocalStep("main", "h_wait", "h_waiting")
SigintExit    == ExitStep("main", "h_exit", "sigint")

sigintHandler ==
  \/ SigintSet \/ SigintSigMain \/ SigintPop \/ SigintBye \/ SigintSigEmpty
  \/ SigintSigRec \/ SigintWait \/ SigintExit

(* errHandling(err_INTERNAL_...) on thread t.  A caller that holds the      *)
(* queue's mutex blocks at ErrPop for ever: the mutex is not recursive.     *)
ErrSet(t)    == SetStep(t, "e_set", fsm_ERR, "e_sig")
ErrSignal(t) == SignalStep(t, "e_sig", "mainCond", "e_pop")
ErrPop(t)    == LockedQueueStep(t, "e_pop", <<>>, "e_bye")
ErrBye(t)    == sendBye(t, "e_bye", "e_wait")
ErrWait(t)   == LocalStep(t, "e_wait", "e_waiting")
ErrExit(t)   == ExitStep(t, "e_exit", "internal")

errHandling(t) ==
  ErrSet(t) \/ ErrSignal(t) \/ ErrPop(t) \/ ErrBye(t) \/ ErrWait(t) \/ ErrExit(t)
==============================================================================
