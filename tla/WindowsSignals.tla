--------------------------- MODULE WindowsSignals ---------------------------
(***************************************************************************)
(* The Windows signal support (lib/Support/Windows/Watchdog.inc): the      *)
(* registry of files to delete when the process is killed, the interrupt   *)
(* function, and the two ways the process is killed, a console control    *)
(* event (Ctrl-C) and an unhandled exception, all guarded by one           *)
(* recursive CRITICAL_SECTION.                                             *)
(*                                                                         *)
(* Actors.  Each user thread runs a script of API calls                    *)
(* (RemoveFileOnSignal, DontRemoveFileOnSignal, SetInterruptFunction) and  *)
(* may fault between two calls; Windows runs every console control event  *)
(* in a thread of its own, so each Ctrl-C is an actor.  A step is one      *)
(* stretch of code between two points where another thread can observe or *)
(* block it: the reads of FilesToRemove and CleanupExecuted made outside   *)
(* the critical section are steps of their own; a body run while holding   *)
(* the critical section is one step.                                       *)
(***************************************************************************)
EXTENDS Integers, Sequences, SequencesExt

CONSTANTS
    Threads,       \* the program's threads that call the API
    CtrlCs,        \* console control events, each run in its own thread
    Files,         \* file names
    Script,        \* Script[t]: the API calls thread t makes, in order
    FaultThreads,  \* threads that may raise an unhandled exception
    NoOwner        \* the critical section's owner when nobody holds it

Ops == [op : {"remove", "keep"}, file : Files] \cup [op : {"interrupt"}]

ASSUME ThreadsAssumption ==
    /\ Threads \cap CtrlCs = {}
    /\ FaultThreads \subseteq Threads
    /\ NoOwner \notin Threads \cup CtrlCs
    /\ Script \in [Threads -> Seq(Ops)]

Actors == Threads \cup CtrlCs

VARIABLES
    owner,            \* owning thread of CriticalSection, or NoOwner
    depth,            \* its recursion count
    registered,       \* RegisteredUnhandledExceptionFilter
    filesToRemove,    \* *FilesToRemove, in order
    filesAllocated,   \* FilesToRemove != NULL
    cleanupExecuted,  \* CleanupExecuted
    interruptFn,      \* InterruptFunction != 0
    removeCalled,     \* files Cleanup has called fs::remove on
    handlerRuns,      \* times RunSignalHandlers has run
    wanted,           \* wanted[f]: f registered and not withdrawn (history)
    pc,               \* each actor's place
    next,             \* next[t]: index in Script[t] of thread t's next call
    dead              \* the process has terminated

vars == <<owner, depth, registered, filesToRemove, filesAllocated,
          cleanupExecuted, interruptFn, removeCalled, handlerRuns, wanted, pc,
          next, dead>>

(* Places of a user thread: between calls, inside a call, in              *)
(* DontRemoveFileOnSignal past its FilesToRemove test, in the exception   *)
(* filter before or past Cleanup's entry.  Places of a Ctrl-C:            *)
(* not yet arrived, running its handler, handled.                         *)
ThreadPlaces == {"idle", "call", "keep_locked", "fault", "fault_locked",
                 "fault_exit"}
CtrlPlaces == {"absent", "handler", "handled"}

(* The globals' initial values (Watchdog.inc 278-289): nothing registered. *)
Init ==
    /\ owner = NoOwner
    /\ depth = 0
    /\ registered = FALSE
    /\ filesToRemove = <<>>
    /\ filesAllocated = FALSE
    /\ cleanupExecuted = FALSE
    /\ interruptFn = FALSE
    /\ removeCalled = {}
    /\ handlerRuns = 0
    /\ wanted = [f \in Files |-> FALSE]
    /\ pc = [a \in Actors |-> IF a \in Threads THEN "idle" ELSE "absent"]
    /\ next = [t \in Threads |-> 1]
    /\ dead = FALSE

-----------------------------------------------------------------------------
(* EnterCriticalSection returns for actor a: nobody holds the critical   *)
(* section, or a already does (it is recursive).                          *)
CanEnter(a) == owner \in {NoOwner, a}

(* EnterCriticalSection with no matching LeaveCriticalSection. *)
EnterOnly(a) == owner' = a /\ depth' = depth + 1

(* EnterCriticalSection ... LeaveCriticalSection: the count is back. *)
EnterLeave == UNCHANGED <<owner, depth>>

(* RegisterHandler: both branches end in EnterCriticalSection, which the   *)
(* caller must leave; the first call also installs the exception filter   *)
(* and the console handler.                                                *)
RegisterHandler(a) == CanEnter(a) /\ registered' = TRUE

(* The call thread t is making. *)
CurrentOp(t) == Script[t][next[t]]

(* Return from thread t's current call. *)
Return(t) ==
    /\ pc' = [pc EXCEPT ![t] = "idle"]
    /\ next' = [next EXCEPT ![t] = next[t] + 1]

(* Thread t starts its next call. *)
Call(t) ==
    /\ ~dead
    /\ pc[t] = "idle"
    /\ next[t] <= Len(Script[t])
    /\ pc' = [pc EXCEPT ![t] = "call"]
    /\ UNCHANGED <<owner, depth, registered, filesToRemove, filesAllocated,
                   cleanupExecuted, interruptFn, removeCalled, handlerRuns,
                   wanted, next, dead>>

(* A plausible slip: register the file without the CleanupExecuted test. *)
MutantRemoveFileOnSignal(t) ==
    LET f == CurrentOp(t).file
    IN  /\ ~dead
        /\ pc[t] = "call" /\ CurrentOp(t).op = "remove"
        /\ RegisterHandler(t)
        /\ filesToRemove' = Append(filesToRemove, f)
        /\ filesAllocated' = TRUE
        /\ wanted' = [wanted EXCEPT ![f] = TRUE]
        /\ EnterLeave
        /\ Return(t)
        /\ UNCHANGED <<cleanupExecuted, interruptFn, removeCalled, handlerRuns, dead>>

(* sys::RemoveFileOnSignal: RegisterHandler; once Cleanup has run, refuse *)
(* the file and return true with the critical section still entered;      *)
(* otherwise allocate the list if needed, append the file, leave.         *)
RemoveFileOnSignal(t) ==
    LET f == CurrentOp(t).file
    IN  /\ ~dead
        /\ pc[t] = "call" /\ CurrentOp(t).op = "remove"
        /\ RegisterHandler(t)
        /\ IF cleanupExecuted
           THEN /\ EnterOnly(t)
                /\ UNCHANGED <<filesToRemove, filesAllocated, wanted>>
           ELSE /\ filesToRemove' = Append(filesToRemove, f)
                /\ filesAllocated' = TRUE
                /\ wanted' = [wanted EXCEPT ![f] = TRUE]
                /\ EnterLeave
        /\ Return(t)
        /\ UNCHANGED <<cleanupExecuted, interruptFn, removeCalled, handlerRuns, dead>>

(* sys::DontRemoveFileOnSignal, first part: FilesToRemove == NULL is read *)
(* before the critical section is entered; if so, return.                 *)
DontRemoveCheck(t) ==
    /\ ~dead
    /\ pc[t] = "call" /\ CurrentOp(t).op = "keep"
    /\ IF filesAllocated
       THEN pc' = [pc EXCEPT ![t] = "keep_locked"] /\ UNCHANGED next
       ELSE Return(t)
    /\ UNCHANGED <<owner, depth, registered, filesToRemove, filesAllocated,
                   cleanupExecuted, interruptFn, removeCalled, handlerRuns,
                   wanted, dead>>

(* Erase the last occurrence of f in s, if any (the reverse find). *)
EraseLast(s, f) ==
    LET i == SelectLastInSeq(s, LAMBDA x : x = f)
    IN  IF i = 0 THEN s ELSE RemoveAt(s, i)

(* A plausible slip: the LeaveCriticalSection at the end is missing. *)
MutantDontRemoveFileOnSignal(t) ==
    LET f == CurrentOp(t).file
    IN  /\ ~dead
        /\ pc[t] = "keep_locked"
        /\ RegisterHandler(t)
        /\ filesToRemove' = EraseLast(filesToRemove, f)
        /\ wanted' = [wanted EXCEPT ![f] = FALSE]
        /\ EnterOnly(t)
        /\ Return(t)
        /\ UNCHANGED <<filesAllocated, cleanupExecuted, interruptFn, removeCalled,
                       handlerRuns, dead>>

(* sys::DontRemoveFileOnSignal, the rest: RegisterHandler, erase the last *)
(* occurrence of the file, leave.                                          *)
DontRemoveFileOnSignal(t) ==
    LET f == CurrentOp(t).file
    IN  /\ ~dead
        /\ pc[t] = "keep_locked"
        /\ RegisterHandler(t)
        /\ filesToRemove' = EraseLast(filesToRemove, f)
        /\ wanted' = [wanted EXCEPT ![f] = FALSE]
        /\ EnterLeave
        /\ Return(t)
        /\ UNCHANGED <<filesAllocated, cleanupExecuted, interruptFn, removeCalled,
                       handlerRuns, dead>>

(* sys::SetInterruptFunction: RegisterHandler, set, leave. *)
SetInterruptFunction(t) ==
    /\ ~dead
    /\ pc[t] = "call" /\ CurrentOp(t).op = "interrupt"
    /\ RegisterHandler(t)
    /\ interruptFn' = TRUE
    /\ EnterLeave
    /\ Return(t)
    /\ UNCHANGED <<filesToRemove, filesAllocated, cleanupExecuted, removeCalled,
                   handlerRuns, wanted, dead>>

-----------------------------------------------------------------------------
(* Cleanup past its CleanupExecuted test, inside its critical section:    *)
(* set CleanupExecuted, call fs::remove on and pop every listed file (an  *)
(* open file is not deleted: the FIXME; its outcome is not recorded), run *)
(* the signal handlers (RunSignalHandlers, counted).                      *)
CleanupBody ==
    /\ cleanupExecuted' = TRUE
    /\ removeCalled' = removeCalled \cup ToSet(filesToRemove)
    /\ filesToRemove' = <<>>
    /\ handlerRuns' = handlerRuns + 1

(* An unhandled exception in thread t, between two of its calls, enters   *)
(* LLVMUnhandledExceptionFilter if the filter is installed; otherwise the *)
(* process dies at once.                                                   *)
Fault(t) ==
    /\ ~dead
    /\ t \in FaultThreads
    /\ pc[t] = "idle"
    /\ IF registered
       THEN pc' = [pc EXCEPT ![t] = "fault"] /\ UNCHANGED dead
       ELSE dead' = TRUE /\ UNCHANGED pc
    /\ UNCHANGED <<owner, depth, registered, filesToRemove, filesAllocated,
                   cleanupExecuted, interruptFn, removeCalled, handlerRuns,
                   wanted, next>>

(* The filter calls Cleanup, whose CleanupExecuted test is made before    *)
(* the critical section is entered: return at once if it is set.          *)
FaultCleanupCheck(t) ==
    /\ ~dead
    /\ pc[t] = "fault"
    /\ pc' = [pc EXCEPT ![t] = IF cleanupExecuted THEN "fault_exit"
                                                 ELSE "fault_locked"]
    /\ UNCHANGED <<owner, depth, registered, filesToRemove, filesAllocated,
                   cleanupExecuted, interruptFn, removeCalled, handlerRuns,
                   wanted, next, dead>>

(* Cleanup's critical section. *)
FaultCleanup(t) ==
    /\ ~dead
    /\ pc[t] = "fault_locked"
    /\ CanEnter(t)
    /\ CleanupBody
    /\ EnterLeave
    /\ pc' = [pc EXCEPT ![t] = "fault_exit"]
    /\ UNCHANGED <<registered, filesAllocated, interruptFn, wanted, next, dead>>

(* The filter writes the minidump and the stack trace, then _exit. *)
FaultExit(t) ==
    /\ ~dead
    /\ pc[t] = "fault_exit"
    /\ dead' = TRUE
    /\ UNCHANGED <<owner, depth, registered, filesToRemove, filesAllocated,
                   cleanupExecuted, interruptFn, removeCalled, handlerRuns,
                   wanted, pc, next>>

(* A console control event c arrives.  Until the handler is installed   *)
(* the default handler kills the process.                                *)
CtrlC(c) ==
    /\ ~dead
    /\ pc[c] = "absent"
    /\ IF registered
       THEN pc' = [pc EXCEPT ![c] = "handler"] /\ UNCHANGED dead
       ELSE dead' = TRUE /\ UNCHANGED pc
    /\ UNCHANGED <<owner, depth, registered, filesToRemove, filesAllocated,
                   cleanupExecuted, interruptFn, removeCalled, handlerRuns,
                   wanted, next>>

(* LLVMConsoleCtrlHandler in c's thread: enter; Cleanup (its test is made *)
(* under the handler's own entry); take and clear InterruptFunction; if   *)
(* it was set, run it, leave and return TRUE: the process lives on;       *)
(* otherwise leave and return FALSE: the process dies.                    *)
LLVMConsoleCtrlHandler(c) ==
    /\ ~dead
    /\ pc[c] = "handler"
    /\ CanEnter(c)
    /\ IF cleanupExecuted
       THEN UNCHANGED <<cleanupExecuted, removeCalled, filesToRemove, handlerRuns>>
       ELSE CleanupBody
    /\ interruptFn' = FALSE
    /\ EnterLeave
    /\ pc' = [pc EXCEPT ![c] = "handled"]
    /\ dead' = ~interruptFn
    /\ UNCHANGED <<registered, filesAllocated, wanted, next>>

Next ==
    \/ \E t \in Threads :
          \/ Call(t) \/ RemoveFileOnSignal(t) \/ DontRemoveCheck(t)
          \/ DontRemoveFileOnSignal(t) \/ SetInterruptFunction(t)
          \/ Fault(t) \/ FaultCleanupCheck(t) \/ FaultCleanup(t) \/ FaultExit(t)
    \/ \E c \in CtrlCs : CtrlC(c) \/ LLVMConsoleCtrlHandler(c)

(* The steps a thread takes once it has started them: the operating      *)
(* system schedules every runnable thread.  Starting a call, a fault and *)
(* a Ctrl-C are the environment's choices and get no fairness.           *)
ThreadSteps(t) ==
    \/ RemoveFileOnSignal(t) \/ DontRemoveCheck(t) \/ DontRemoveFileOnSignal(t)
    \/ SetInterruptFunction(t)
    \/ FaultCleanupCheck(t) \/ FaultCleanup(t) \/ FaultExit(t)

Fairness ==
    /\ \A t \in Threads : WF_vars(ThreadSteps(t))
    /\ \A c \in CtrlCs : WF_vars(LLVMConsoleCtrlHandler(c))

Spec == Init /\ [][Next]_vars /\ Fairness

-----------------------------------------------------------------------------
(* Every variable holds a value of its kind. *)
TypeOK ==
    /\ owner \in Actors \cup {NoOwner}
    /\ depth \in Nat
    /\ registered \in BOOLEAN
    /\ filesToRemove \in Seq(Files)
    /\ filesAllocated \in BOOLEAN
    /\ cleanupExecuted \in BOOLEAN
    /\ interruptFn \in BOOLEAN
    /\ removeCalled \subseteq Files
    /\ handlerRuns \in Nat
    /\ wanted \in [Files -> BOOLEAN]
    /\ pc \in [Actors -> ThreadPlaces \cup CtrlPlaces]
    /\ \A t \in Threads : pc[t] \in ThreadPlaces
    /\ \A c \in CtrlCs : pc[c] \in CtrlPlaces
    /\ next \in [Threads -> Nat \ {0}]
    /\ dead \in BOOLEAN
=============================================================================
