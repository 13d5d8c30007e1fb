------------------------- MODULE WindowsSignalsProofs -------------------------
(***************************************************************************)
(* Proofs about the Windows signal support (Watchdog.inc), for any number  *)
(* of threads, console control events and files, and any call scripts.     *)
(***************************************************************************)
EXTENDS WindowsSignalsProperties, SequenceLemmas

(* The conjuncts of the inductive invariant behind                        *)
(* RemoveCalledOnDeath.  A thread inside a call is at a call of  *)
(* its script.                                                             *)
CallsInScript ==
    \A t \in Threads : pc[t] \in InCall => next[t] \in 1 .. Len(Script[t])

(* A wanted file is listed, or Cleanup has called fs::remove on it. *)
WantedListed ==
    \A f \in Files : wanted[f] => f \in ToSet(filesToRemove) \cup removeCalled

(* Cleanup leaves the list empty, and RemoveFileOnSignal refuses files     *)
(* after it.                                                               *)
CleanupEmptied == cleanupExecuted => filesToRemove = <<>>

(* A file is wanted only once the handlers are installed. *)
WantedNeedsHandlers == ~registered => \A f \in Files : ~wanted[f]

(* The exception filter reaches _exit only after Cleanup has run. *)
ExitAfterCleanup == \A t \in Threads : pc[t] = "fault_exit" => cleanupExecuted

(* So the process dies either before the handlers exist or after Cleanup. *)
DeathCovered == dead => cleanupExecuted \/ ~registered

IInv ==
    /\ TypeOK
    /\ CallsInScript
    /\ WantedListed
    /\ CleanupEmptied
    /\ WantedNeedsHandlers
    /\ ExitAfterCleanup
    /\ DeathCovered

(* EraseLast keeps a list of files a list of files, keeps every other     *)
(* file listed, and leaves an empty list empty.                            *)
LEMMA EraseLastFacts ==
    ASSUME NEW s \in Seq(Files), NEW f
    PROVE  /\ EraseLast(s, f) \in Seq(Files)
           /\ \A g \in ToSet(s) \ {f} : g \in ToSet(EraseLast(s, f))
           /\ s = <<>> => EraseLast(s, f) = <<>>
<1>1. CASE ~\E j \in 1 .. Len(s) : s[j] = f
    <2>1. SelectLastInSeq(s, LAMBDA x : x = f) = 0
        BY <1>1 DEF SelectLastInSeq
    <2>2. EraseLast(s, f) = s
        BY <2>1 DEF EraseLast
    <2>3. QED
        BY <2>2
<1>2. CASE \E j \in 1 .. Len(s) : s[j] = f
    <2>0. /\ SelectLastInSeq(s, LAMBDA x : x = f) \in 1 .. Len(s)
          /\ s[SelectLastInSeq(s, LAMBDA x : x = f)] = f
        BY <1>2, SelectLastHit
    <2>1. PICK last \in 1 .. Len(s) :
                /\ s[last] = f
                /\ SelectLastInSeq(s, LAMBDA x : x = f) = last
        BY <2>0
    <2>2. EraseLast(s, f) = RemoveAt(s, last)
        BY <2>1 DEF EraseLast
    <2>3. /\ RemoveAt(s, last) \in Seq(Files)
          /\ Len(RemoveAt(s, last)) = Len(s) - 1
          /\ \A m \in 1 .. Len(s) - 1 :
                RemoveAt(s, last)[m] = IF m < last THEN s[m] ELSE s[m + 1]
        BY <2>1, RemoveAtFacts
    <2>4. ASSUME NEW g \in ToSet(s) \ {f} PROVE g \in ToSet(RemoveAt(s, last))
        <3>1. PICK k \in 1 .. Len(s) : s[k] = g
            BY DEF ToSet
        <3>2. k # last
            BY <2>1, <3>1
        <3>3. CASE k < last
            <4>1. k \in 1 .. Len(s) - 1 /\ RemoveAt(s, last)[k] = s[k]
                BY <2>1, <2>3, <3>3
            <4>2. QED
                BY <2>3, <3>1, <4>1 DEF ToSet
        <3>4. CASE k > last
            <4>1. k - 1 \in 1 .. Len(s) - 1 /\ ~(k - 1 < last)
                BY <2>1, <3>4
            <4>2. RemoveAt(s, last)[k - 1] = s[k]
                BY <2>3, <4>1
            <4>3. QED
                BY <2>3, <3>1, <4>1, <4>2 DEF ToSet
        <3>5. QED
            BY <3>2, <3>3, <3>4
    <2>5. QED
        BY <2>1, <2>2, <2>3, <2>4
<1>3. QED
    BY <1>1, <1>2

-----------------------------------------------------------------------------
(* A record of a script is a call; "remove" and "keep" name a file. *)
LEMMA OpFile ==
    ASSUME NEW r \in Ops, r.op \in {"remove", "keep"}
    PROVE  r.file \in Files
BY DEF Ops

(* A thread inside a call is making a call of its script. *)
LEMMA CurrentOpType ==
    ASSUME IInv, NEW t \in Threads, pc[t] \in InCall
    PROVE  CurrentOp(t) \in Ops
BY ThreadsAssumption, ElementOfSeq DEF IInv, CallsInScript, CurrentOp

(* Actors are threads or console events, never both. *)
LEMMA ActorKinds ==
    ASSUME NEW t \in Threads PROVE t \notin CtrlCs
BY ThreadsAssumption

(* Moving thread t to a thread place keeps pc well typed. *)
LEMMA ThreadPcStep ==
    ASSUME TypeOK, NEW t \in Threads, NEW p \in ThreadPlaces,
           pc' = [pc EXCEPT ![t] = p]
    PROVE  /\ pc' \in [Actors -> ThreadPlaces \cup CtrlPlaces]
           /\ \A u \in Threads : pc'[u] \in ThreadPlaces
           /\ \A c \in CtrlCs : pc'[c] \in CtrlPlaces
BY ThreadsAssumption DEF TypeOK, Actors

(* Moving console event c to a console place keeps pc well typed. *)
LEMMA CtrlPcStep ==
    ASSUME TypeOK, NEW c \in CtrlCs, NEW p \in CtrlPlaces,
           pc' = [pc EXCEPT ![c] = p]
    PROVE  /\ pc' \in [Actors -> ThreadPlaces \cup CtrlPlaces]
           /\ \A u \in Threads : pc'[u] \in ThreadPlaces
           /\ \A d \in CtrlCs : pc'[d] \in CtrlPlaces
BY ThreadsAssumption DEF TypeOK, Actors

(* Return keeps next well typed and puts t between calls. *)
LEMMA ReturnType ==
    ASSUME TypeOK, NEW t \in Threads, Return(t)
    PROVE  /\ pc' \in [Actors -> ThreadPlaces \cup CtrlPlaces]
           /\ \A u \in Threads : pc'[u] \in ThreadPlaces
           /\ \A c \in CtrlCs : pc'[c] \in CtrlPlaces
           /\ next' \in [Threads -> Nat \ {0}]
           /\ pc'[t] = "idle"
           /\ \A u \in Actors \ {t} : pc'[u] = pc[u]
           /\ \A u \in Threads \ {t} : next'[u] = next[u]
<1>1. "idle" \in ThreadPlaces
    BY DEF ThreadPlaces
<1>2. pc' = [pc EXCEPT ![t] = "idle"] /\ next' = [next EXCEPT ![t] = next[t] + 1]
    BY DEF Return
<1>3. /\ pc' \in [Actors -> ThreadPlaces \cup CtrlPlaces]
      /\ \A u \in Threads : pc'[u] \in ThreadPlaces
      /\ \A c \in CtrlCs : pc'[c] \in CtrlPlaces
    BY <1>1, <1>2, ThreadPcStep
<1>4. next' \in [Threads -> Nat \ {0}] /\ \A u \in Threads \ {t} : next'[u] = next[u]
    BY <1>2 DEF TypeOK
<1>5. pc'[t] = "idle" /\ \A u \in Actors \ {t} : pc'[u] = pc[u]
    BY <1>2 DEF TypeOK, Actors
<1>6. QED
    BY <1>3, <1>4, <1>5

LEMMA InitIInv == Init => IInv
<1> SUFFICES ASSUME Init PROVE IInv
    OBVIOUS
<1>1. TypeOK
    <2>1. pc \in [Actors -> ThreadPlaces \cup CtrlPlaces]
        BY DEF Init, ThreadPlaces, CtrlPlaces
    <2>2. \A t \in Threads : pc[t] = "idle"
        BY DEF Init, Actors
    <2>3. \A c \in CtrlCs : pc[c] = "absent"
        BY ThreadsAssumption DEF Init, Actors
    <2>4. filesToRemove \in Seq(Files) /\ removeCalled \subseteq Files
        BY DEF Init
    <2>5. wanted \in [Files -> BOOLEAN] /\ next \in [Threads -> Nat \ {0}]
        BY DEF Init
    <2>6. owner \in Actors \cup {NoOwner} /\ depth \in Nat /\ handlerRuns \in Nat
        BY DEF Init
    <2>7. /\ registered \in BOOLEAN /\ filesAllocated \in BOOLEAN
          /\ cleanupExecuted \in BOOLEAN /\ interruptFn \in BOOLEAN /\ dead \in BOOLEAN
        BY DEF Init
    <2>8. \A t \in Threads : pc[t] \in ThreadPlaces
        BY <2>2 DEF ThreadPlaces
    <2>9. \A c \in CtrlCs : pc[c] \in CtrlPlaces
        BY <2>3 DEF CtrlPlaces
    <2>10. QED
        BY <2>1, <2>4, <2>5, <2>6, <2>7, <2>8, <2>9 DEF TypeOK
<1>2. CallsInScript /\ ExitAfterCleanup
    BY DEF Init, CallsInScript, ExitAfterCleanup, InCall, Actors
<1>3. WantedListed /\ CleanupEmptied /\ WantedNeedsHandlers /\ DeathCovered
    BY DEF Init, WantedListed, CleanupEmptied, WantedNeedsHandlers, DeathCovered
<1>4. QED
    BY <1>1, <1>2, <1>3 DEF IInv

(* Call: the thread enters a call of its script. *)
LEMMA CallStep ==
    ASSUME IInv, NEW t \in Threads, Call(t) PROVE IInv'
BY ActorKinds DEF Call, IInv, TypeOK, CallsInScript, WantedListed,
   CleanupEmptied, WantedNeedsHandlers, ExitAfterCleanup, DeathCovered,
   Actors, ThreadPlaces, CtrlPlaces, InCall


(* RemoveFileOnSignal: the file is appended, and so listed, unless       *)
(* Cleanup has run; then it is not wanted either.                         *)
LEMMA RemoveStep ==
    ASSUME IInv, NEW t \in Threads, RemoveFileOnSignal(t) PROVE IInv'
<1> DEFINE f == CurrentOp(t).file
<1>1. f \in Files
    BY CurrentOpType, OpFile DEF RemoveFileOnSignal, InCall
<1>2. TypeOK /\ registered' /\ ~dead
    BY DEF IInv, RemoveFileOnSignal, RegisterHandler
<1>3. CASE cleanupExecuted
    <2>1. /\ filesToRemove' = filesToRemove /\ filesAllocated' = filesAllocated
          /\ wanted' = wanted /\ removeCalled' = removeCalled
          /\ cleanupExecuted' = cleanupExecuted /\ interruptFn' = interruptFn
          /\ handlerRuns' = handlerRuns /\ dead' = dead
          /\ owner' = t /\ depth' = depth + 1 /\ Return(t)
        BY <1>3 DEF RemoveFileOnSignal, EnterOnly
    <2>2. TypeOK'
        <3>1. /\ pc' \in [Actors -> ThreadPlaces \cup CtrlPlaces]
              /\ \A u \in Threads : pc'[u] \in ThreadPlaces
              /\ \A c \in CtrlCs : pc'[c] \in CtrlPlaces
              /\ next' \in [Threads -> Nat \ {0}]
            BY <1>2, <2>1, ReturnType
        <3>2. owner' \in Actors \cup {NoOwner} /\ depth' \in Nat
            BY <1>2, <2>1 DEF TypeOK, Actors
        <3>3. QED
            BY <1>2, <2>1, <3>1, <3>2 DEF TypeOK
    <2>3. CallsInScript' /\ ExitAfterCleanup'
        BY <1>2, <2>1, ReturnType DEF IInv, CallsInScript, ExitAfterCleanup,
           InCall, Actors
    <2>4. WantedListed' /\ CleanupEmptied'
        BY <2>1 DEF IInv, WantedListed, CleanupEmptied
    <2>6. WantedNeedsHandlers' /\ DeathCovered'
        BY <1>2, <2>1 DEF WantedNeedsHandlers, DeathCovered
    <2>5. QED
        BY <2>2, <2>3, <2>4, <2>6 DEF IInv
<1>4. CASE ~cleanupExecuted
    <2>1. /\ filesToRemove' = Append(filesToRemove, f)
          /\ wanted' = [wanted EXCEPT ![f] = TRUE]
          /\ filesAllocated' = TRUE /\ owner' = owner /\ depth' = depth
          /\ removeCalled' = removeCalled /\ cleanupExecuted' = cleanupExecuted
          /\ interruptFn' = interruptFn /\ handlerRuns' = handlerRuns
          /\ dead' = dead /\ Return(t)
        BY <1>4 DEF RemoveFileOnSignal, EnterLeave
    <2>2. filesToRemove' \in Seq(Files)
          /\ ToSet(filesToRemove') = ToSet(filesToRemove) \cup {f}
        BY <1>1, <1>2, <2>1, AppendToSet DEF TypeOK
    <2>3. TypeOK'
        BY <1>1, <1>2, <2>1, <2>2, ReturnType DEF TypeOK
    <2>4. WantedListed'
        BY <1>2, <2>1, <2>2 DEF IInv, WantedListed, TypeOK
    <2>5. CallsInScript' /\ ExitAfterCleanup'
        BY <1>2, <2>1, ReturnType DEF IInv, CallsInScript, ExitAfterCleanup,
           InCall, Actors
    <2>6. CleanupEmptied'
        BY <1>4, <2>1 DEF CleanupEmptied
    <2>8. WantedNeedsHandlers' /\ DeathCovered'
        BY <1>2, <2>1 DEF WantedNeedsHandlers, DeathCovered
    <2>7. QED
        BY <2>3, <2>4, <2>5, <2>6, <2>8 DEF IInv
<1>5. QED
    BY <1>3, <1>4

(* DontRemoveFileOnSignal's unlocked test: returns, or goes on to the    *)
(* critical section; nothing else changes.                                *)
LEMMA KeepCheckStep ==
    ASSUME IInv, NEW t \in Threads, DontRemoveCheck(t) PROVE IInv'
<1>1. pc[t] = "call" /\ next[t] \in 1 .. Len(Script[t]) /\ TypeOK
    BY DEF DontRemoveCheck, IInv, CallsInScript, InCall
<1>2. CASE filesAllocated
    <2>1. pc' = [pc EXCEPT ![t] = "keep_locked"] /\ next' = next
        BY <1>2 DEF DontRemoveCheck
    <2>2. "keep_locked" \in ThreadPlaces
        BY DEF ThreadPlaces
    <2>3. TypeOK'
        BY <1>1, <2>1, <2>2, ThreadPcStep DEF DontRemoveCheck, TypeOK
    <2>4. CallsInScript' /\ ExitAfterCleanup'
        BY <1>1, <2>1 DEF DontRemoveCheck, IInv, CallsInScript,
           ExitAfterCleanup, InCall, TypeOK, Actors
    <2>5. QED
        BY <2>3, <2>4 DEF DontRemoveCheck, IInv, WantedListed, CleanupEmptied,
           WantedNeedsHandlers, DeathCovered
<1>3. CASE ~filesAllocated
    <2>1. Return(t)
        BY <1>3 DEF DontRemoveCheck
    <2>2. TypeOK'
        BY <1>1, <2>1, ReturnType DEF DontRemoveCheck, TypeOK
    <2>3. CallsInScript' /\ ExitAfterCleanup'
        BY <1>1, <2>1, ReturnType DEF DontRemoveCheck, IInv, CallsInScript,
           ExitAfterCleanup, InCall, Actors
    <2>4. QED
        BY <2>2, <2>3 DEF DontRemoveCheck, IInv, WantedListed, CleanupEmptied,
           WantedNeedsHandlers, DeathCovered
<1>4. QED
    BY <1>2, <1>3

(* DontRemoveFileOnSignal's critical section: the file is no longer      *)
(* wanted, and EraseLast keeps every other file listed.                   *)
LEMMA KeepStep ==
    ASSUME IInv, NEW t \in Threads, DontRemoveFileOnSignal(t) PROVE IInv'
<1> DEFINE f == CurrentOp(t).file
<1>1. /\ filesToRemove' \in Seq(Files)
      /\ \A g \in ToSet(filesToRemove) \ {f} : g \in ToSet(filesToRemove')
      /\ filesToRemove = <<>> => filesToRemove' = <<>>
    BY EraseLastFacts DEF IInv, TypeOK, DontRemoveFileOnSignal
<1>2. wanted' = [wanted EXCEPT ![f] = FALSE] /\ wanted \in [Files -> BOOLEAN]
    BY DEF DontRemoveFileOnSignal, IInv, TypeOK
<1>3. TypeOK'
    BY <1>1, <1>2, ReturnType DEF DontRemoveFileOnSignal, RegisterHandler,
       EnterLeave, IInv, TypeOK
<1>4. WantedListed'
    <2> SUFFICES ASSUME NEW g \in Files, wanted'[g]
                 PROVE  g \in ToSet(filesToRemove') \cup removeCalled'
        BY DEF WantedListed
    <2>1. g # f /\ wanted[g]
        BY <1>2
    <2>2. g \in ToSet(filesToRemove) \cup removeCalled
        BY <2>1 DEF IInv, WantedListed
    <2>3. QED
        BY <1>1, <2>1, <2>2 DEF DontRemoveFileOnSignal
<1>5. CleanupEmptied' /\ WantedNeedsHandlers'
    BY <1>1, <1>2 DEF DontRemoveFileOnSignal, RegisterHandler, IInv,
       CleanupEmptied, WantedNeedsHandlers
<1>6. CallsInScript' /\ ExitAfterCleanup' /\ DeathCovered'
    BY ReturnType DEF DontRemoveFileOnSignal, RegisterHandler, IInv,
       TypeOK, CallsInScript, ExitAfterCleanup, DeathCovered, InCall, Actors
<1>7. QED
    BY <1>3, <1>4, <1>5, <1>6 DEF IInv

(* SetInterruptFunction. *)
LEMMA InterruptStep ==
    ASSUME IInv, NEW t \in Threads, SetInterruptFunction(t) PROVE IInv'
BY ActorKinds DEF SetInterruptFunction, RegisterHandler, EnterLeave, Return, IInv, TypeOK, CallsInScript, WantedListed,
   CleanupEmptied, WantedNeedsHandlers, ExitAfterCleanup, DeathCovered,
   Actors, ThreadPlaces, CtrlPlaces, InCall

(* An unhandled exception. *)
LEMMA FaultStep ==
    ASSUME IInv, NEW t \in Threads, Fault(t) PROVE IInv'
BY ActorKinds DEF Fault, IInv, TypeOK, CallsInScript, WantedListed,
   CleanupEmptied, WantedNeedsHandlers, ExitAfterCleanup, DeathCovered,
   Actors, ThreadPlaces, CtrlPlaces, InCall

(* Cleanup's unlocked CleanupExecuted test in the exception filter. *)
LEMMA FaultCheckStep ==
    ASSUME IInv, NEW t \in Threads, FaultCleanupCheck(t) PROVE IInv'
BY ActorKinds DEF FaultCleanupCheck, IInv, TypeOK, CallsInScript, WantedListed,
   CleanupEmptied, WantedNeedsHandlers, ExitAfterCleanup, DeathCovered,
   Actors, ThreadPlaces, CtrlPlaces, InCall

(* Cleanup's critical section in the exception filter. *)
LEMMA FaultCleanupStep ==
    ASSUME IInv, NEW t \in Threads, FaultCleanup(t) PROVE IInv'
BY ActorKinds DEF FaultCleanup, CleanupBody, CanEnter, EnterLeave, ToSet, IInv, TypeOK, CallsInScript, WantedListed,
   CleanupEmptied, WantedNeedsHandlers, ExitAfterCleanup, DeathCovered,
   Actors, ThreadPlaces, CtrlPlaces, InCall

(* The filter's _exit. *)
LEMMA FaultExitStep ==
    ASSUME IInv, NEW t \in Threads, FaultExit(t) PROVE IInv'
BY DEF FaultExit, IInv, TypeOK, CallsInScript, WantedListed,
   CleanupEmptied, WantedNeedsHandlers, ExitAfterCleanup, DeathCovered,
   Actors, ThreadPlaces, CtrlPlaces, InCall

(* A console control event arrives. *)
LEMMA CtrlCStep ==
    ASSUME IInv, NEW c \in CtrlCs, CtrlC(c) PROVE IInv'
BY ThreadsAssumption DEF CtrlC, IInv, TypeOK, CallsInScript, WantedListed,
   CleanupEmptied, WantedNeedsHandlers, ExitAfterCleanup, DeathCovered,
   Actors, ThreadPlaces, CtrlPlaces, InCall

(* LLVMConsoleCtrlHandler: after it Cleanup has run, whichever branch the *)
(* CleanupExecuted test took, so the process may die.                     *)
LEMMA ConsoleStep ==
    ASSUME IInv, NEW c \in CtrlCs, LLVMConsoleCtrlHandler(c) PROVE IInv'
<1>1. TypeOK /\ c \notin Threads
    BY ThreadsAssumption DEF IInv
<1>2. pc' = [pc EXCEPT ![c] = "handled"] /\ "handled" \in CtrlPlaces
    BY DEF LLVMConsoleCtrlHandler, CtrlPlaces
<1>3. /\ pc' \in [Actors -> ThreadPlaces \cup CtrlPlaces]
      /\ \A u \in Threads : pc'[u] \in ThreadPlaces
      /\ \A d \in CtrlCs : pc'[d] \in CtrlPlaces
      /\ \A u \in Threads : pc'[u] = pc[u]
    BY <1>1, <1>2, CtrlPcStep DEF TypeOK, Actors
<1>4. /\ cleanupExecuted' = TRUE
      /\ filesToRemove' = <<>>
      /\ removeCalled' = removeCalled \cup ToSet(filesToRemove)
      /\ handlerRuns' \in Nat
    <2>1. CASE cleanupExecuted
        <3>1. filesToRemove = <<>>
            BY <2>1 DEF IInv, CleanupEmptied
        <3>2. ToSet(filesToRemove) = {}
            BY <3>1 DEF ToSet
        <3>3. QED
            BY <1>1, <2>1, <3>1, <3>2 DEF LLVMConsoleCtrlHandler, TypeOK
    <2>2. CASE ~cleanupExecuted
        BY <1>1, <2>2 DEF LLVMConsoleCtrlHandler, CleanupBody, TypeOK
    <2>3. QED
        BY <2>1, <2>2
<1>5. /\ wanted' = wanted /\ registered' = registered /\ next' = next
      /\ filesAllocated' = filesAllocated /\ owner' = owner /\ depth' = depth
      /\ interruptFn' = FALSE /\ dead' \in BOOLEAN
    BY <1>1 DEF LLVMConsoleCtrlHandler, EnterLeave, TypeOK
<1>6. ToSet(filesToRemove) \subseteq Files
    BY <1>1 DEF TypeOK, ToSet
<1>7. TypeOK'
    <2>1. filesToRemove' \in Seq(Files) /\ removeCalled' \subseteq Files
        BY <1>1, <1>4, <1>6 DEF TypeOK
    <2>2. /\ owner' \in Actors \cup {NoOwner} /\ depth' \in Nat
          /\ wanted' \in [Files -> BOOLEAN] /\ next' \in [Threads -> Nat \ {0}]
        BY <1>1, <1>5 DEF TypeOK
    <2>3. /\ registered' \in BOOLEAN /\ filesAllocated' \in BOOLEAN
          /\ cleanupExecuted' \in BOOLEAN /\ interruptFn' \in BOOLEAN
          /\ dead' \in BOOLEAN
        BY <1>1, <1>4, <1>5 DEF TypeOK
    <2>4. QED
        BY <1>3, <1>4, <2>1, <2>2, <2>3 DEF TypeOK
<1>8. WantedListed'
    BY <1>4, <1>5 DEF IInv, WantedListed
<1>9. CallsInScript' /\ WantedNeedsHandlers'
    BY <1>3, <1>5 DEF IInv, CallsInScript, WantedNeedsHandlers
<1>10. CleanupEmptied' /\ ExitAfterCleanup' /\ DeathCovered'
    BY <1>4 DEF CleanupEmptied, ExitAfterCleanup, DeathCovered
<1>11. QED
    BY <1>7, <1>8, <1>9, <1>10 DEF IInv

-----------------------------------------------------------------------------
(* Every step of Next, and a stutter, keeps the inductive invariant. *)
LEMMA NextIInv == IInv /\ [Next]_vars => IInv'
<1> SUFFICES ASSUME IInv, [Next]_vars PROVE IInv'
    OBVIOUS
<1>1. ASSUME NEW t \in Threads,
             \/ Call(t) \/ RemoveFileOnSignal(t) \/ DontRemoveCheck(t)
             \/ DontRemoveFileOnSignal(t) \/ SetInterruptFunction(t)
             \/ Fault(t) \/ FaultCleanupCheck(t) \/ FaultCleanup(t)
             \/ FaultExit(t)
      PROVE  IInv'
    BY <1>1, CallStep, RemoveStep, KeepCheckStep, KeepStep, InterruptStep,
       FaultStep, FaultCheckStep, FaultCleanupStep, FaultExitStep
<1>2. ASSUME NEW c \in CtrlCs, CtrlC(c) \/ LLVMConsoleCtrlHandler(c)
      PROVE  IInv'
    BY <1>2, CtrlCStep, ConsoleStep
<1>3. CASE UNCHANGED vars
    BY <1>3 DEF vars, IInv, TypeOK, CallsInScript, WantedListed,
       CleanupEmptied, WantedNeedsHandlers, ExitAfterCleanup, DeathCovered,
       CurrentOp, ToSet
<1>4. QED
    BY <1>1, <1>2, <1>3 DEF Next

(* The inductive invariant holds in every reachable state. *)
THEOREM IInvHolds == Spec => []IInv
BY InitIInv, NextIInv, PTL DEF Spec

(* Type correctness: every variable of the Windows signal support keeps   *)
(* its kind, for any threads, console events, files and scripts.          *)
LEMMA TypeCorrect == Spec => []TypeOK
<1>1. IInv => TypeOK
    BY DEF IInv
<1>2. QED
    BY <1>1, IInvHolds, PTL

(* RemoveFileOnSignal's contract, for any number of threads, console      *)
(* events and files and any call scripts: when the process dies by a      *)
(* console event or an unhandled exception, Cleanup has called fs::remove *)
(* on every file registered and not withdrawn (whether an open file is    *)
(* then deleted is the OS's business: Cleanup's FIXME).  The              *)
(* CleanupExecuted test in                                                *)
(* RemoveFileOnSignal (a file registered after Cleanup is refused) and    *)
(* Cleanup's removal of the whole list are what make it hold.             *)
THEOREM RemoveCalledOnDeathHolds == Spec => []RemoveCalledOnDeath
<1>1. IInv => RemoveCalledOnDeath
    <2> SUFFICES ASSUME IInv, dead, NEW f \in Files, wanted[f]
                 PROVE  f \in removeCalled
        BY DEF RemoveCalledOnDeath
    <2>1. registered
        BY DEF IInv, WantedNeedsHandlers
    <2>2. cleanupExecuted
        BY <2>1 DEF IInv, DeathCovered
    <2>3. ToSet(filesToRemove) = {}
        BY <2>2 DEF IInv, CleanupEmptied, ToSet
    <2>4. QED
        BY <2>3 DEF IInv, WantedListed
<1>2. QED
    BY <1>1, IInvHolds, PTL

=============================================================================
