# Verification models for the keystone assembler sources

This directory holds TLA+ models of parts of the repository under `src/`: the
assembler backends' fixup code, and the concurrency and process code of the
Support library. Each model comes with TLC configurations and TLAPS proofs.
Every definition is translated from the C++ source; `PROJECT.json` maps each
one to the lines it models.

## 1. The system and its parts

| Part | Source | What it does | State / concurrency |
|---|---|---|---|
| RISC-V asm backend | `src/unnamed/part_001` | Kind table (`getFixupKindInfo`), `adjustFixupValue`, `getSize`, `applyFixup`, `writeNopData` | Mutates a fragment's byte buffer once per fixup; errors go to `MCContext` |
| SystemZ asm backend | `src/llvm/lib/Target/SystemZ/MCTargetDesc/SystemZMCAsmBackend.cpp` | `extractBitsForFixup`, big-endian `applyFixup` with a bounds check, `writeNopData` | Byte buffer, `KsError` out-parameter |
| Mips backend header | `.../Mips/MCTargetDesc/MipsAsmBackend.h` | Declarations | none |
| Unix signals | `src/llvm/lib/Support/Unix/Signals.inc` | Files to remove on a signal, the interrupt function, callbacks, (un)registering handlers | Global state shared by application threads and asynchronous signal handlers; recursive `SignalsMutex` |
| Windows signals etc. | `src/llvm/lib/Support/Windows/Watchdog.inc` | The same API on one `CRITICAL_SECTION`, `Cleanup`, the console control handler thread, Win32 `Execute`/`Wait` | A second thread (console handler) and the critical section |
| Unix programs | `src/llvm/lib/Support/Unix/Program.inc` | `Execute` (spawn/fork) and `Wait` with an `alarm` timeout | The child process, `SIGALRM`, `errno` |
| Unix watchdog | `src/unnamed/part_003` | `alarm` on construction, `alarm(0)` on destruction | `SIGALRM` |
| SequenceToOffsetTable | `src/llvm/utils/TableGen/SequenceToOffsetTable.h` | Suffix-sharing table: `add`, `layout`, `get`, `emit` | A sorted map and an `Entries` counter; a call protocol |
| StringMatcher | `src/unnamed/part_000` | Generates a character-by-character matcher | Pure, recursive |
| InfoByHwMode | `src/llvm/utils/TableGen/InfoByHwMode.h` | Per-hardware-mode maps with a default | Pure |
| Host detection | `src/llvm/lib/Support/Host.cpp`, `Unix/Host.inc`, `Windows/Host.inc` | CPUID and `/proc/cpuinfo` decoding | Pure table lookups |
| Data and declarations | `part_002`, `part_004`, `X86DisassemblerTables.h` | Headers, build text and TableGen data | none |

### How the parts interact

The MC assembler is outside `src/`. It lays out fragments and resolves each
fixup to a value. It then calls the target backend's `applyFixup` once per
fixup, in whatever order the fixups come. A fixup left to a relocation gets the
value 0.

The backend's `adjustFixupValue` scatters the value's bits into the
instruction's immediate field. `applyFixup` then ORs the result into the bytes
the encoder emitted. Range and alignment problems are reported through
`MCContext::reportError`, and processing goes on after the report.

The Support library's signal code and program code share process-wide state:
the files to remove, `SIGALRM` and the handler table. The program's threads
call into them, and so do signal handlers that can interrupt any thread at any
instruction.

### What is hard here, and what should be true

**RISC-V fixups** (`part_001:102-221`)
- The immediate layouts are scrambled, especially J, B, CJ and CB. The branch
  and store forms reach bit 31.
- `hi20` rounds with +0x800 so that it pairs with a sign-extended `lo12`.
- `getSize` decides how many bytes are ORed in.
- What should be true:
  - The immediate read back through the ISA's layout is the value.
  - No bit outside the field changes.
  - Every reported error is justified.
  - Every out-of-range value is reported.

**SystemZ fixups**
- The value is halved with signed division, written big-endian, and has no
  range check.

**Unix signals**
- `RegisterHandlers` checks `NumRegisteredSignals` without the lock.
- `SignalHandler` clears `InterruptFunction` after unlocking.
- The recursive mutex lets a handler enter while the interrupted thread is
  inside `push_back`.
- What should be true:
  - Handlers are registered at most once.
  - A set interrupt function is never lost.

**Windows signals**
- `RemoveFileOnSignal` returns while still holding the critical section when
  cleanup has already run.
- `Cleanup` tests its flag before locking.
- What should be true:
  - Every critical section entered is left, so there is no deadlock.
  - Cleanup runs once.

**Program `Wait`**
- The alarm races the child's exit.
- Any `EINTR` is taken for a timeout.
- An error return leaves the alarm armed.
- What should be true:
  - The old `SIGALRM` disposition is restored on every return.
  - A timeout is reported only when the alarm fired.

**SequenceToOffsetTable**
- What should be true:
  - After any sequence of `add` calls, no stored sequence is a suffix of
    another.
  - `get` returns an offset at which the table holds the sequence.

## 2. What is modelled now

### `RISCVAsmBackend` (the RISC-V backend's fixup application)

**Constants**
- `Fixups`: the fragment's fixups, a sequence of `[kind, offset]`.
- `DataSize`: the fragment's `Data.size()`.
- `Values`: the resolved values the assembler may pass.
- `NotApplied`: a model value.

**State**
- `data`: the fragment's bytes, plus `Slack` = 3 bytes past its end, which
  stand for the memory a 4-byte write can reach.
- `applied`: the value each fixup was applied with.
- `errors`: the `reportError` calls, as `<<fixup, "range"|"align">>`.

**Values.** A 64-bit `Value` is a mathematical integer taken modulo 2^64.
`Bits(v,k,n)` is `(Value >> k) & (2^n-1)`.

**`adjustFixupValue`.** Each case of the switch is one operator. It returns the
terms of the OR the code builds, as `<<field, shift>>` pairs. Keeping the terms
apart keeps every number within TLC's 32-bit integers, even though the branch
and store forms set bit 31. `PackedByte` recombines byte `i` of
`(packed << TargetOffset)` from the terms.

**`ApplyFixup(i, v)`** is the whole of `applyFixup`:
- The early return for `v = 0`.
- The `reportError` calls of the jal and branch cases, through `AdjustErrors`.
- The shift by `TargetOffset`.
- The OR of `getSize` bytes.

The assembler's loop is the disjunction over the fixups not yet applied, which
allows every order.

**`Init`.** The buffer starts as `Template`: the encoder's real instruction
words with their fields zeroed (`BaseEncoding`), and zeros for data.

**Other modules**
- `RISCVISA` holds reference definitions from the ISA manual, independent of
  the code: the immediate layout of each instruction format, the PC-relative
  widths, and `Hi20`/`Lo12`.
- `RISCVFixupProperties` states the properties against those layouts.
- `MCRISCVAsmBackend` holds three fragments for TLC.

### Runs (RISC-V)

| Run | cfg | Checks | Result |
|---|---|---|---|
| `riscv_fixups_32` | `MCRISCVAsmBackend.cfg` | RoundTrip, NoClobber, NoSpuriousError | pass (7776 states) |
| `riscv_fixups_rvc` | `MCRISCVAsmBackendRVC.cfg` | NoClobber, RoundTrip | pass (6561 states) |
| `riscv_rvc_range` | `MCRISCVRvcRange.cfg` | OutOfRangeDiagnosed | violation |
| `riscv_data_overrun` | `MCRISCVDataOverrun.cfg` | NoClobber | violation |

The properties:
- **RoundTrip.** When a fixup is applied with a value its kind can represent,
  reading the immediate back out of the bytes through the ISA layout gives the
  value. For lui/auipc it gives the upper part that pairs with the
  sign-extended low 12 bits.
- **NoClobber.** Every bit that differs from what the encoder wrote lies in the
  field of an applied fixup.
- **NoSpuriousError.** Every reported error names an applied jal/branch fixup
  whose value really is out of range or odd.

The bounds:
- There are five or four fixups per fragment, with every order of application
  and every choice of value per fixup.
- The values are chosen to hit the edges: 0 (the early return), bit 11 set
  (the hi20 rounding), the ends of the c.j and c.beqz ranges, just beyond the
  13-bit and 21-bit ranges, odd values, and bit 6 without bit 7 (which tells
  apart the two swapped CJ bits).
- Each property's mutant in `RISCVAsmBackend` breaks it under these bounds.

`CHECK_DEADLOCK FALSE` is justified in every fixup run: the only state without
a successor is the one where every fixup has been applied, when the assembler
moves on.

What the violation runs show (see `findings` in `PROJECT.json`):
1. `getSize` returns 4 for every data kind. For `FK_Data_1`/`FK_Data_2` a
   negative datum's sign bytes are ORed over the next directive and past the
   buffer (the debug assert checks only `(TargetSize+7)/8` bytes); for
   `FK_Data_8` the upper half of a `.quad` is never written.
2. Compressed jumps and branches have no range or alignment check. An
   out-of-range offset is silently truncated.

### `SystemZAsmBackend` (the SystemZ backend's fixup application)

- `AsmBackendBits` holds the bit helpers shared with RISC-V (`Bits`, `IsInt`,
  `OrByte`, `ImmBit`).
- `SystemZAsmBackend`: `TargetSize` is the `Infos` table plus the generic data
  sizes; `FixupSize` is `(TargetSize + 7) / 8`; `ExtractBitsForFixup` halves
  PC-relative values with C's truncating division (`CDiv2`);
  `BigEndianByte` is the byte `uint8_t(Value >> ShiftValue)` of the insertion
  loop. `ApplyFixup(i, v)` is the whole of `applyFixup`: the bounds check
  (`KsError`, no write) or the big-endian OR. The fragment starts as the
  encoder's bytes (`Template`: `a7 f4` before a brc field, `c0 f4` before
  brcl).
- Run `systemz_fixups` (`MCSystemZAsmBackend.cfg`, 16807 states, pass) checks
  RoundTrip (big-endian read-back gives the halfword count or the datum) and
  NoClobber (only fields of fitting fixups change, including the three bytes
  past the buffer) over brc, a TLS-call marker, brcl, a `.quad` and a `.short`
  that overhangs the buffer, with values 0, ±6, -3 (odd: halved towards
  zero), 65538 and -70000 (beyond brc and `.short`).
- The missing range check for brc/brcl is a silent truncation; it is listed as
  a hazard and left to RoundTrip, which checks the representable values.

### `HostX86` (x86 `getHostCPUName`)

- State: the CPU (`cpu`, one CPUID profile: vendor, max leaf, leaf 1 EAX/EBX/
  ECX/EDX, XCR0, leaf 7 EBX, leaf 0x80000001 EDX) and the returned `name`.
  Registers are sets of their 1-bits.
- `DetectX86FamilyModel`, `GetAvailableFeatures`, the Intel family 6 table and
  its guessing chain, family 15, the AMD decoder and the name switches are
  operators; `GetHostCPUNameCall` is one call. `Type` and `Subtype` are
  uninitialised locals in the code (Host.cpp:757-758), so the call chooses
  their initial values from every enumerator and `"none"`; `Set` leaves an
  out-parameter with that value where the code does not assign it.
- `MCHostX86` enumerates 915 profiles: 10 Intel and 10 AMD family/model
  signatures, legacy families, brand ids 0 and 1, and 15 feature profiles
  (with and without OS support for AVX in XCR0, with and without leaf 7).
- Run `host_x86` (pass, 11890 states): FeatureImplications (AVX/AVX2/
  AVX-512/ADX reported only with the CPU bits, the XCR0 state and leaf 7),
  KnownIntelFamiliesNamed (for an Intel CPU with brand id 0 of family 3, 4, 6
  or 15, or a Pentium MMX, the name does not depend on the uninitialised
  values; the other family-5 models are left out because there it does, see
  `host_x86_uninit`),
  AMDAVXNameNeedsAVX (for the AMD families the decoder has a case for).
  The AMD signatures include Zen (family 17h), which the decoder does not
  know. For such a family the property does not hold: a Zen CPU can be
  named "bdver1" from stack garbage although AVX is unusable. That is the
  uninitialised-`Type` finding below, so the property is stated for the
  known families.
- Run `host_x86_uninit` (violation): NameDeterminedByCPUID. A family-4 Intel
  CPU with brand id 1 makes `getIntelProcessorTypeAndSubtype` return before
  assigning anything (line 302), and the name switch reads stack garbage:
  the same CPU can be named "atom". The AMD decoder's `default` case
  (line 701) has the same gap for families it does not list, such as Zen.
  Family 5 is a third such path. Every model but 4 sets
  `Type = INTEL_PENTIUM` and leaves `Subtype` unassigned (Host.cpp:333, 342),
  and the name switch tests `Subtype` against `INTEL_PENTIUM_MMX` (line 769).
  So a plain Pentium (family 5, model 1) is named "pentium-mmx" when the
  stack holds that value. TLC gives that trace when NameDeterminedByCPUID is
  restricted to family 5.
- The switches on Model and on Type/Subtype are written as CASE expressions
  with disjoint arms, and the name tables as records keyed by enumerator
  names. A TLA+ CASE picks any arm whose guard is true, not the first one,
  so the family 15h decoder tests AVX with an IF before its model ranges, as
  the code does (line 670).

### `SequenceToOffsetTable` and its abstract specification

- State: `seqs` (the `SeqMap` keys), `offset` (their values) and `entries`.
  `SeqLess` compares reversed sequences lexicographically, as the code's
  comparator does; `LowerBound`/`Before` are `lower_bound` and its
  predecessor. `Add(s)` is the whole of `add`: the early return when the
  lower bound has `s` as a suffix, the insert, and the erase of the preceding
  entry if it is a suffix of `s`. `Layout` assigns offsets in map order;
  `Get` and `Emit` are the lookup and the emitted table.
- `SequenceTableAbstract` says what the table promises: a growing set of
  stored sequences, closed under suffixes, frozen by layout.
  `SequenceTableProperties` maps the detailed state to it
  (`stored <- Stored`, the keys and all their suffixes; `frozen <- entries >
  0`) and checks `AbstractSpec == Abs!Spec` as a property.
- Run `seq_offset_table` (pass, 1353 states): NoSuffixKeys (no key is a suffix
  of another after any order of adds), GetCorrect (after layout, every added
  sequence is found and the emitted table holds it followed by the
  terminator at the offset `get` returns), and the refinement. Inputs are all
  sequences of length at most 3 over {1, 2}. `CHECK_DEADLOCK FALSE`: after
  `layout` the table accepts no more steps, which is where the generator
  stops using it.

### `InfoByHwMode`

- State: `maps`, one `Map` per object (two objects, modes {0, 1, 2}, default
  0, two infos). Actions: a client writing `Map` directly (it is public),
  the non-const `get` (which inserts a copy of the default on a miss), and
  `makeSimple`. `GetEntry` is the Map after the non-const `get`.
  `ConstGet`, `IsSimple`, `GetSimple` and `UnionModes` are operators. `UnionModes` walks the `std::set` of modes through `SetOrder`,
  its iteration order: each element once, ascending.
- Run `info_by_hwmode` (pass, 729 states, deadlock checked): UnionModesOrder
  (`union_modes` returns each mode of either map once, ascending, default
  last) and UnionModesWalkUpdatesOnce. The second is about the loop
  `union_modes` is written for: for each mode M of `union_modes(A, B)`,
  `A.get(M) = Transform(A.get(M))`. After the loop every mode of A that had
  an answer answers `Transform` of its old answer. The modes A had no entry
  for are included. This holds only because the non-const `get` copies the
  default into a mode that has no entry, and the default comes last: each
  copy is taken before the default is updated. After a copy, a later write
  to the default no longer reaches that mode (hazard at InfoByHwMode.h:80).
  The client loop is written with the model's own `GetEntry` and `SetEntry`.
  The update is the swap of the two infos, so a mode updated twice, or one
  that copied an updated default, shows up. The property is checked for
  every pair of objects in every reachable state.

### `WindowsSignals` (Watchdog.inc's signal support)

- Actors: user threads running a script of API calls, one thread per Ctrl-C
  event (Windows runs each console control handler in a new thread), and a
  thread that may raise an unhandled exception between two of its calls.
- State: the recursive critical section (`owner`, `depth`),
  `RegisteredUnhandledExceptionFilter`, `FilesToRemove` (and whether it is
  allocated), `CleanupExecuted`, `InterruptFunction`, `removeCalled` (the files `Cleanup`
  called `fs::remove` on), a
  count of `RunSignalHandlers` runs, a history variable `wanted` (the files a
  successful `RemoveFileOnSignal` registered and no `DontRemoveFileOnSignal`
  withdrew), each actor's place and whether the process has died.
- Steps are cut where another thread can observe them: the unlocked reads of
  `FilesToRemove` (`DontRemoveCheck`) and `CleanupExecuted`
  (`FaultCleanupCheck`) are steps of their own; a body that holds the critical
  section is one step. `RemoveFileOnSignal` on its `CleanupExecuted` path
  keeps the critical section (`EnterOnly`), as the code does.
- Fairness: weak fairness on each thread's steps once it is inside a call, a
  filter or a handler (the OS schedules every runnable thread); starting a
  call, faulting and Ctrl-C are the environment's and get none.
- `removeCalled` records calls, not deletions. `Cleanup`'s own FIXME
  (Watchdog.inc:649) says an open file cannot be deleted, and an output file
  is usually still open when the process is killed. Whether `fs::remove`
  succeeds is not modelled, so nothing here claims the files are gone.
- Run `win_signals` (pass, 1040 states): RemoveCalledOnDeath (when the
  process dies, `fs::remove` has been called on every registered and not
  withdrawn file; it rests on `RemoveFileOnSignal` refusing files once `Cleanup`
  ran, racing a dying faulting thread) and CallsReturn (every started call and
  console handler returns unless the process dies). The script sets the
  interrupt function after its last registration.
- Run `win_cs_leak` (violation of CallsReturn): with the interrupt function set
  first, a Ctrl-C the process survives runs `Cleanup`, a later
  `RemoveFileOnSignal` returns holding the critical section, and the next
  Ctrl-C handler and every other thread block forever.
- Run `win_cleanup_twice` (violation of HandlersRunOnce): the exception filter
  passes `Cleanup`'s unlocked test, a Ctrl-C handler runs `Cleanup`, then the
  filter runs it again.
- `CHECK_DEADLOCK FALSE`: the process may die (no successor) and the scripts
  end.

## 3. What is proved

`RISCVFixupProofs` proves one theorem for every fragment and every value set
allowed by the assumptions of `RISCVAsmBackend`. The assumptions are:
- Fixups are well-formed records.
- Fixups lie inside the buffer and are pairwise disjoint.
- Values satisfy |v| < 2^30.
- `NotApplied` is not an integer.

The theorem and its helper:
- Lemma `TypeCorrect` (`Spec => []TypeOK`) is a helper, not a result: the
  byte range holds by construction of the OR. It rests on lemmas
  `OrByteIsByte`, `TemplateType` and `AdjustErrorsType`.
- **`NoSpuriousErrorHolds`**: `Spec => []NoSpuriousError`.
  - The property is not inductive on its own: a step could in principle
    change `applied` under an old error.
  - The inductive invariant is `TypeOK /\ NoSpuriousError`, together with the
    fact that a fixup is applied at most once. An old error names an applied
    fixup, so it is not the one the step applies, and its value is unchanged.
  - A new error comes from `AdjustErrors`. Lemma `AdjustErrorsSound` shows it
    is justified, using `LowBitParity`: `Value & 1` is `v % 2`.

`SystemZFixupProofs` proves one theorem for every fragment layout, buffer
size and value set allowed by the assumptions of `SystemZAsmBackend`
(well-formed fixups with natural offsets, a natural `DataSize`, values with
|v| < 2^30, `NotApplied` not an integer). Unlike the RISC-V assumptions,
fixups may overlap and reach past the buffer: the bounds check at
SystemZMCAsmBackend.cpp:98 is what the proof relies on.
- Lemma `TypeCorrect` (`Spec => []TypeOK`, from `OrIsByte` and
  `TemplateType`) is a helper.
- **`NoClobberHolds`**: `Spec => []NoClobber`. The inductive invariant is
  `IInv == TypeOK /\ NoClobber`; `TypeOK` is needed because the step argument
  reads `applied` as a function. The argument per step:
  - an applied fixup stays applied, so an old witness stays a witness;
  - if the fixup does not fit, the check at line 98 returns and nothing is
    written;
  - otherwise every byte written lies in the fixup's field (lemma
    `WrittenInField`), because `Size` equals the field width of its kind
    (lemma `SizeIsFieldBytes`, a check of the Infos table against the
    formats), and the fixup itself is now an applied fitting witness.

`WindowsSignalsProofs` proves the Windows safety property for every set of
threads, console events and files, and every script of calls. It relies on
the generic sequence lemmas of `SequenceLemmas`:
- `MaxOfIndices`: a non-empty set of indices has a largest element. The
  proof uses well-founded induction (`WFMin` over `L - i`), because the
  induction theorems that take a predicate parameter cannot be instantiated
  by the installed provers.
- `SelectLastHit`: when f occurs in the list, `SelectLastInSeq` (the model of
  `std::find` from the back in `EraseFromFilesToRemove`) returns an index of f.
- `RemoveAtFacts`: what `RemoveAt` (the `erase`) leaves at each position.
- `AppendToSet`: `push_back` adds exactly one element.

The theorems:
- **`RemoveCalledOnDeathHolds`**: `Spec => []RemoveCalledOnDeath`.
  The property alone is not inductive: it says nothing of live processes,
  so a step that kills the process needs facts about the state before it.
  The inductive invariant `IInv` adds:
  - `WantedListed`: a wanted file is in `FilesToRemove` or in
    `removeCalled`.
    `DontRemoveFileOnSignal` erases only the last copy (lemma
    `EraseLastFacts`), which keeps every other file listed.
  - `WantedNeedsHandlers`: no file is wanted before the handlers are
    registered, because `RemoveFileOnSignal` registers them first.
  - `CleanupEmptied`: once `Cleanup` has run the list is empty. This is why a
    wanted file is then in `removeCalled`.
  - `ExitAfterCleanup` and `DeathCovered`: the fault path reaches its exit
    only after `Cleanup`, and a dead process either ran `Cleanup` or never
    registered the handlers.
  - `CallsInScript`: a thread inside a call has a script cursor within its
    script, so the operation it performs is defined.
  The proof has one lemma per action, with one step per conjunct that the
  action can disturb.
  What is proved is that `fs::remove` is called on each such file. Whether
  an open file is then deleted (Cleanup's FIXME) is outside the model.
- **`IInvHolds`** states `Spec => []IInv` on its own. Lemma `TypeCorrect`
  follows from it: the cursor is positive, and each thread and handler stays at its
  own program places.

`InfoByHwModeProofs` proves one theorem for every set of objects, modes
and infos allowed by `ModesAssumption` (modes are naturals and include
`DefaultMode`):
- Lemma `TypeCorrect`, a helper: every object's Map stays a function from
  some modes to infos. Lemma `SetEntryFacts` says what `Map[m] = v` does to
  a Map.
- **`UnionModesOrderHolds`**: `Spec => []UnionModesOrder`. The inductive
  invariant is `IInv == TypeOK /\ FiniteMaps`: every Map has finitely many
  entries, as a `std::map` does. Without finiteness a set need not have an
  increasing enumeration. The argument:
  - Lemma `SortedEnumerationExists` (in `SequenceLemmas`) builds the
    enumeration from each element's rank, the number of smaller elements
    plus one. The ranks are a bijection onto `1 .. Cardinality(S)`, by the
    cardinality theorems of `FiniteSetTheorems`.
  - Lemma `SortedListsAll`: an increasing function from `1 .. Cardinality(S)`
    into S is injective, hence onto S. So `SetOrder` (the `std::set`
    iteration) lists every mode once.
  - Lemma `UnionModesFacts`: appending DefaultMode after the other modes
    keeps every entry distinct, and the ascending order holds up to it.
  `SetOrder` is written as the `CHOOSE` of an increasing enumeration, not as
  the community `SetToSortSeq`. The prover treats TLC's `SortSeq` and
  `Permutations` as uninterpreted built-ins, so nothing could be proved
  about that form.

`HostX86Proofs` proves three theorems for every set of hosts and every
content of the uninitialised `Type` and `Subtype`. The only assumption used
is `CPUsAssumption` (every host answers a `CPUID` record). The inductive
invariant `IInv` says the host is one of `CPUs` and a returned name is in
`PossibleNames(cpu)`, the names the call computes for some stack content.
`IInv` was model-checked on the `host_x86` instance before it was proved.
- **`FeatureImplicationsHolds`**: `Spec => []FeatureImplications`, from
  lemma `FeatureImplicationsForAll`. That lemma covers every CPUID answer,
  not only the 915 profiles of the run.
- **`AMDAVXNameNeedsAVXHolds`**: `Spec => []AMDAVXNameNeedsAVX`. Lemma
  `AMDNameWithoutAVX` goes through the eight known families. Without AVX:
  - family 15h and 16h set Subtype to `AMD_BTVER1` before any model test;
  - every other family's Type selects a name outside the AVX list, whatever
    Subtype holds.
- **`KnownIntelFamiliesNamedHolds`**: `Spec => []KnownIntelFamiliesNamed`,
  for families 3, 4, 6 and 15 and the Pentium MMX (family 5, model 4). The
  other family-5 models are excluded on purpose. There the name does depend
  on the stack (see `host_x86_uninit`).
  Lemma `IntelNameIgnoresPrior` shows the name is independent of the prior
  values when Type is assigned, and Subtype too unless the switch ignores
  it (`AssignsWhatIsRead`). Lemma `Family6RowsAssign` checks that every row
  of the family 6 tables does this. Lemma `Family6GuessFound` shows that the
  guessing chain always has a first matching rule: its last rule needs no
  feature, and `MinOfIndices` (in `SequenceLemmas`) gives the least match.

`SequenceTableProofs` proves one theorem for every set of input sequences.
The only assumption used is `InputsAssumption`: the inputs are finite
sequences of integers, and there is at least one.
- **`NoSuffixKeysHolds`**: `Spec => []NoSuffixKeys`. After any sequence of
  `add` calls, no key of `Seqs` is a suffix of another.
  - **The order.** The argument rests on lemmas about `SeqLess`, the
    lexicographic order of the reversed sequences, which is the map's
    comparator:
    - it is a strict total order on `Seq(Int)` (`SeqLessOrder`);
    - a suffix sorts no later than the sequence it ends (`SuffixOrder`);
    - every sequence sorting between a suffix and its owner has that suffix
      too (`SuffixInterval`).
  - **`lower_bound` and `--I`.** `LowerBoundFacts` and `BeforeFacts` say what
    the two keys `add` inspects are. They are the least key not below the new
    sequence and the greatest key below it. Both rest on `SeqLessExtremes`:
    a finite non-empty set of sequences has a least and a greatest element.
    That in turn comes from `MinimalExists`, a rank argument in
    `SequenceLemmas` that needs no induction.
  - **The inductive invariant.** `IInv` adds two facts to `NoSuffixKeys`:
    the keys are among the inputs, and they are finitely many. Without
    finiteness, `lower_bound` and `--I` need not have a key to return. `IInv`
    was model-checked on the `seq_offset_table` instance before it was
    proved.
  - **The step.** In `AddIInv`, suppose the new sequence ended a key. That
    key sorts at or after it, so `lower_bound` finds a key the new sequence
    ends (`SuffixInterval`), and `add` returns early. Suppose instead a key
    ends the new sequence. That key sorts before it, and it is a suffix of
    the key just before the new one. By the old invariant it must be that
    key, which `add` erases.

Everything else is only model-checked:
- RoundTrip (both backends) and NoClobber for RISC-V. They depend on what the
  bit-scattering operators (`PackedByte`, `Bits`) compute for every value,
  which needs induction over data.
- `GetCorrect` and the refinement `AbstractSpec` for SequenceToOffsetTable.
  They depend on the laid-out table (`MapThenSumSet` and the emitted
  sequence), which is a fold over a set: a recursive function whose
  unfolding needs induction over data.
- `UnionModesWalkUpdatesOnce`. Its client loop is a recursive function over
  the list of modes, and unfolding it needs induction over data.
- The Windows liveness property `CallsReturn`. The provers handle neither
  liveness under fairness nor ENABLED.

## 4. Next steps

1. **`UnixSignals`**: threads calling `RemoveFileOnSignal`,
   `DontRemoveFileOnSignal`, `SetInterruptFunction` and `AddSignalHandler`
   against a signal delivered on any thread between any two steps, on the
   recursive `SignalsMutex` (hazards at Signals.inc:159, 234, 276, 297).
2. **`ProgramWait`**: `Wait` with an alarm timeout racing the child's exit
   and foreign signals (Program.inc:358, 377), absorbing the Unix
   watchdog.
3. **Proofs** about the laid-out table (`GetCorrect`), once the fold
   over the keys can be unfolded without an operator-parameter induction.
4. The NOP emitters and StringMatcher.

## 5. What stays out, and why

- **The non-x86 host detection and `getHostCPUFeatures`.** Text parsing of
  `/proc/cpuinfo` and OS queries, with nothing to interleave.
- **The intrinsics table.** TableGen data, no behaviour.
- **Process creation** (`Execute`, the Win32 process code, minidumps, stack
  traces). Operating-system I/O.
- **Callbacks.** `CallBacksToRun` and `RunSignalHandlers` are defined outside
  `src/`; the Windows model counts handler runs only. `AddSignalHandler`
  (Watchdog.inc:631-636) is in `src/`. It pushes onto that list without the
  critical section, and it is not modelled.
- **`RunInterruptHandlers`** (Watchdog.inc:659-666), another caller of
  `Cleanup`. It is not modelled; the Windows component is marked partly
  modelled.
- **Declarations-only files** (Mips header, X86 disassembler tables header,
  RISC-V MC header).
- **Out of the prover's reach.** Three things stay with TLC:
  - Liveness and `ENABLED`.
  - Induction over data: what a bit-scattering operator computes for every
    value.
  - Anything reached through a `RECURSIVE` operator.

  The proof modules therefore avoid `RECURSIVE`: `PackedByte` is a recursive
  function, not a recursive operator.
