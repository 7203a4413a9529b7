---------------------------- MODULE StreamCommand ----------------------------
(***************************************************************************)
(* "goredact stream" (cmd/goredact/main.go, runStream): the order in which *)
(* names are compared, files opened, written, closed, emptied and removed, *)
(* on every file system.  Truncations and removals in a cleanup succeed,   *)
(* and nothing else touches the files meanwhile.                           *)
(***************************************************************************)
EXTENDS LinkedFiles

CONSTANT
    Invocations   \* the command lines a run ranges over: input, output, stats

Std  == "-"       \* standard input, output or error
None == ""        \* no statistics

ASSUME StreamAssumption ==
    /\ Invocations \subseteq [input : Names \cup {Std}, output : Names \cup {Std},
                              stats : Names \cup {Std, None}, zstd : BOOLEAN]
    /\ Std \notin Names /\ None \notin Names

VARIABLE o    \* the options

StreamInit == Start("check") /\ o \in Invocations

(* Faulty: paths are compared, files are not.                              *)
SameFileNameByPath(a, b) == a # Std /\ b # Std /\ a = b
(* sameFileName: the same path, or the same existing file.                 *)
SameFileName(a, b) == a # Std /\ b # Std /\ (a = b \/ SameFile(disk, a, b))

(* The flags are parsed, the names compared, the engine built.             *)
Check ==
    /\ pc = "check"
    /\ IF \/ SameFileName(o.input, o.output)
          \/ /\ o.stats \notin {None, Std}
             /\ \/ SameFileName(o.stats, o.input)
                \/ SameFileName(o.stats, o.output)
       THEN Return("aliases")
       ELSE Return("usage") \/ Goto("openInput")
    /\ UNCHANGED <<disk0, o, disk, file>>

OpenInput ==
    /\ pc = "openInput"
    /\ \/ o.input \in {Std} \cup {n \in Names : Exists(disk, n)} /\ Goto("openOutput")
       \/ o.input # Std /\ Return("cannotOpenInput")
    /\ UNCHANGED <<disk0, o, disk, file>>

(* Opened, created if need be, and truncated.                              *)
OpenOutput ==
    /\ pc = "openOutput"
    /\ \/ /\ o.output = Std /\ Goto("scan") /\ UNCHANGED <<disk, file>>
       \/ /\ o.output # Std /\ Goto("scan")
          /\ LET opened == Created(disk, o.output, "empty")
             IN  /\ file' = FileAt(opened, o.output)
                 /\ disk' = Write(opened, file', "empty")
       \/ /\ o.output # Std /\ Return("cannotOpenOutput") /\ UNCHANGED <<disk, file>>
    /\ UNCHANGED <<disk0, o>>

ToOutput(content) == disk' = IF file = 0 THEN disk ELSE Write(disk, file, content)

(* Redact, or the start of the encoder before it, fails after some output. *)
ScanFails ==
    /\ pc = "scan"
    /\ \E content \in {"empty", "partial"} : ToOutput(content)
    /\ result' = "redactFailed" /\ pc' = "cleanup"
    /\ UNCHANGED <<disk0, o, file>>

(* Redact ends well; with -zstd the encoder's last block is still to come. *)
ScanSucceeds ==
    /\ pc = "scan"
    /\ ToOutput(IF o.zstd THEN "partial" ELSE "complete")
    /\ Goto(IF o.zstd THEN "closeEncoder" ELSE "closeOutput")
    /\ UNCHANGED <<disk0, o, file>>

CloseEncoder ==
    /\ pc = "closeEncoder"
    /\ \/ ToOutput("complete") /\ Goto("closeOutput")
       \/ UNCHANGED disk /\ result' = "cannotFinish" /\ pc' = "cleanup"
    /\ UNCHANGED <<disk0, o, file>>

(* The output is closed before success is declared.                        *)
CloseOutput ==
    /\ pc = "closeOutput"
    /\ file' = 0
    /\ \/ Goto("stats") /\ UNCHANGED disk
       \/ /\ file # 0
          /\ disk' = Write(disk, file, "partial")
          /\ result' = "cannotFinalize" /\ pc' = "closeFailed"
    /\ UNCHANGED <<disk0, o>>

(* Emptied by its path, then removed.                                      *)
CloseFailed ==
    /\ pc = "closeFailed"
    /\ disk' = Remove(Write(disk, FileAt(disk, o.output), "empty"), o.output)
    /\ pc' = "done"
    /\ UNCHANGED <<disk0, o, file, result>>

(* Faulty: the name is removed, the file behind it is left as it is.       *)
RemoveOutputOnly ==
    /\ pc = "cleanup"
    /\ disk' = IF file = 0 THEN disk ELSE Remove(disk, o.output)
    /\ pc' = "done"
    /\ UNCHANGED <<disk0, o, file, result>>

(* The deferred cleanup of a call that did not succeed.                    *)
RemoveOutput ==
    /\ pc = "cleanup"
    /\ disk' = IF file = 0 THEN disk ELSE Remove(Write(disk, file, "empty"), o.output)
    /\ pc' = "done"
    /\ UNCHANGED <<disk0, o, file, result>>

(* writeStats: to nowhere, to standard error, or to a file it truncates.   *)
WriteStats ==
    /\ pc = "stats"
    /\ \/ o.stats \in {None, Std} /\ Return("ok") /\ UNCHANGED disk
       \/ o.stats # None /\ Return("statsFailed") /\ UNCHANGED disk
       \/ /\ o.stats \notin {None, Std}
          /\ Return("ok") \/ Return("statsFailed")
          /\ LET opened == Created(disk, o.stats, "empty")
             IN  disk' = Write(opened, FileAt(opened, o.stats), "stats")
    /\ UNCHANGED <<disk0, o, file>>

StreamNext ==
    \/ Check \/ OpenInput \/ OpenOutput \/ ScanFails \/ ScanSucceeds \/ CloseEncoder
    \/ CloseOutput \/ CloseFailed \/ RemoveOutput \/ WriteStats

----------------------------------------------------------------------------
(* The file that is scanned is never written, by whatever name it could be *)
(* mistaken for the output or the statistics.                              *)
InputUntouched ==
    o.input # Std /\ Exists(disk0, o.input) =>
        /\ disk.holds[FileAt(disk0, o.input)] = "original"
        /\ disk.entry[o.input] = disk0.entry[o.input]

(* A scan that fails leaves no output behind, neither under its name nor   *)
(* through a link to it: "removed on failure" holds for the link's target. *)
FailureLeavesNothing ==
    pc = "done" /\ result \notin {"ok", "statsFailed"} =>
        \A i \in FileIds : disk.holds[i] \notin {"partial", "complete"}

(* The redacted output is there, and whole, when the command succeeds, and *)
(* when only its statistics failed.                                        *)
OutputSurvives ==
    pc = "done" /\ result \in {"ok", "statsFailed"} /\ o.output # Std =>
        Exists(disk, o.output) /\ disk.holds[FileAt(disk, o.output)] = "complete"
=============================================================================
