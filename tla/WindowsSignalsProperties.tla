----------------------- MODULE WindowsSignalsProperties -----------------------
(***************************************************************************)
(* What the Windows signal support promises its callers: a file registered *)
(* with RemoveFileOnSignal and not withdrawn is gone when the process is   *)
(* killed, and no API call or console handler is left waiting forever.     *)
(***************************************************************************)
EXTENDS WindowsSignals

(* Places of a thread inside an API call, before it has returned. *)
InCall == {"call", "keep_locked"}

(* What Cleanup does for RemoveFileOnSignal's contract (Signals.h: "files *)
(* to be removed when a signal is received"): when the process dies by    *)
(* Ctrl-C or an unhandled exception, fs::remove has been called on every  *)
(* file whose registration succeeded and that no DontRemoveFileOnSignal   *)
(* withdrew.  Whether the call deletes the file is up to the OS: the     *)
(* FIXME in Cleanup says an open file cannot be deleted, and that is not  *)
(* modelled.  It depends on the CleanupExecuted test in                  *)
(* RemoveFileOnSignal refusing a file once Cleanup has emptied the list,  *)
(* racing a dying faulting thread.                                        *)
RemoveCalledOnDeath ==
    dead => \A f \in Files : wanted[f] => f \in removeCalled

(* Every API call a thread has started returns, and every console control *)
(* handler Windows has started returns, unless the process dies first: no *)
(* path leaves CriticalSection entered for another thread to wait on.     *)
CallsReturn ==
    /\ \A t \in Threads : pc[t] \in InCall ~> (pc[t] = "idle" \/ dead)
    /\ \A c \in CtrlCs : pc[c] = "handler" ~> (pc[c] = "handled" \/ dead)

(* The comment in Cleanup and its CleanupExecuted test: the files are     *)
(* handed to fs::remove and the signal handlers run once, whichever of the console     *)
(* handler and the exception filter gets there first.                     *)
HandlersRunOnce == handlerRuns <= 1
=============================================================================
