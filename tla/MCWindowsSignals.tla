------------------------- MODULE MCWindowsSignals -------------------------
(***************************************************************************)
(* Two threads, two Ctrl-C events, two files; the second thread may fault. *)
(***************************************************************************)
EXTENDS WindowsSignalsProperties

CONSTANTS t1, t2, c1, c2, f1, f2

MCThreads == {t1, t2}
MCCtrlCs == {c1, c2}
MCFiles == {f1, f2}
MCFaultThreads == {t2}

(* A tool that registers its output file, keeps it once written,         *)
(* registers a second file and then sets an interrupt function for a      *)
(* clean shutdown; another thread withdraws a file (reaching the          *)
(* FilesToRemove == NULL return when it runs first) and may fault.        *)
MCScript ==
    (t1 :> << [op |-> "remove", file |-> f1], [op |-> "keep", file |-> f1],
              [op |-> "remove", file |-> f2], [op |-> "interrupt"] >>)
    @@ (t2 :> << [op |-> "keep", file |-> f2] >>)

(* The interrupt function set before the registrations: a Ctrl-C the    *)
(* process survives can come before a RemoveFileOnSignal.                *)
MCScriptInterrupt ==
    (t1 :> << [op |-> "interrupt"], [op |-> "remove", file |-> f1] >>)
    @@ (t2 :> << [op |-> "remove", file |-> f2] >>)
=============================================================================
