------------------------------ MODULE Commands ------------------------------
(***************************************************************************)
(* The program goredact (cmd/goredact/main.go, newRootCommand): one of its *)
(* two commands runs, on the same file system, and what must hold of the   *)
(* files a user named whichever it was.                                    *)
(***************************************************************************)
EXTENDS StreamCommand, ReportFile

VARIABLE command

vars == <<command, fileVars, o, reportVars>>

NoOptions == [input |-> Std, output |-> Std, stats |-> None, zstd |-> FALSE]
NoReport  == disturbed = 0 /\ name = None /\ paths = {} /\ unchecked = {}

Init ==
    \/ command = "stream" /\ StreamInit /\ NoReport
    \/ command = "dir" /\ ReportInit /\ o = NoOptions

RunStream == command = "stream" /\ StreamNext /\ UNCHANGED <<command, reportVars>>
RunDir    == command = "dir" /\ ReportNext /\ UNCHANGED <<command, o>>

Terminated == pc = "done" /\ UNCHANGED vars

Next == RunStream \/ RunDir \/ Terminated

Spec == Init /\ [][Next]_vars

----------------------------------------------------------------------------
(* What is scanned is never written: not the stream's input, however it    *)
(* could be mistaken for the output or the statistics, and not a file of   *)
(* the tree, whatever the report's name was made to be meanwhile.          *)
InputsUntouched == InputUntouched /\ TreeUntouched

NoDanglingLinks(fs) == \A n \in Names : fs.entry[n].kind = "link" => Exists(fs, n)

(* The redacted output is there and whole after a success, and after a     *)
(* failure of the statistics only, unless a link led nowhere at the start. *)
OutputSurvivesWithoutDanglingLinks == NoDanglingLinks(disk0) => OutputSurvives
=============================================================================
