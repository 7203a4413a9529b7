---------------------------- MODULE CommandsInv ----------------------------
(***************************************************************************)
(* The inductive invariants of the two commands.                           *)
(***************************************************************************)
EXTENDS Commands

Entry == {Absent} \cup {File(i) : i \in FileIds} \cup {Link(n) : n \in Names}

WellFormed(fs) ==
    /\ fs.entry \in [Names -> Entry] /\ DOMAIN fs.holds = FileIds
    /\ fs = [entry |-> fs.entry, holds |-> fs.holds]
    /\ NoLinkChains(fs)

----------------------------------------------------------------------------
(* The stream command touches the file system so little that at every step *)
(* it is a function of the one it started on: with the output opened and   *)
(* holding so much, with the output gone, or with the statistics written.  *)
Opened == IF o.output = Std THEN disk0 ELSE Created(disk0, o.output, "empty")

OutputFile == IF o.output = Std THEN 0 ELSE FileAt(Opened, o.output)

WithOutput(content) == IF o.output = Std THEN disk0 ELSE Write(Opened, OutputFile, content)

OutputGone == IF o.output = Std THEN disk0 ELSE Remove(WithOutput("empty"), o.output)

WithStats ==
    LET opened == Created(WithOutput("complete"), o.stats, "empty")
    IN  Write(opened, FileAt(opened, o.stats), "stats")

(* What Check has made sure of, on the file system it looked at.           *)
Distinct(a, b) == a # Std /\ b # Std => a # b /\ ~SameFile(disk0, a, b)
OptionsApart ==
    /\ Distinct(o.input, o.output)
    /\ o.stats # None => Distinct(o.stats, o.input) /\ Distinct(o.stats, o.output)

(* Where the command stands: how far it has come, the file system, the     *)
(* file behind its descriptor and what it is about to return.              *)
StreamStage(p, fs, f, r) ==
    \/ p \in {"check", "openInput", "openOutput"} /\ fs = disk0 /\ f = 0 /\ r = "none"
    \/ p = "scan" /\ fs = WithOutput("empty") /\ f = OutputFile /\ r = "none"
    \/ p = "closeEncoder" /\ fs = WithOutput("partial") /\ f = OutputFile /\ r = "none"
    \/ p = "closeOutput" /\ fs = WithOutput("complete") /\ f = OutputFile /\ r = "none"
    \/ p = "stats" /\ fs = WithOutput("complete") /\ r = "none"
    \/ /\ p = "cleanup" /\ fs \in {WithOutput("empty"), WithOutput("partial")}
       /\ f = OutputFile /\ r \in {"redactFailed", "cannotFinish"}
    \/ /\ p = "closeFailed" /\ o.output # Std /\ fs = WithOutput("partial")
       /\ r = "cannotFinalize"
    \/ /\ p = "done" /\ fs = disk0
       /\ r \in {"aliases", "usage", "cannotOpenInput", "cannotOpenOutput"}
    \/ /\ p = "done" /\ fs = OutputGone
       /\ r \in {"redactFailed", "cannotFinish", "cannotFinalize"}
    \/ /\ p = "done" /\ r \in {"ok", "statsFailed"}
       /\ \/ fs = WithOutput("complete")
          \/ o.stats \notin {None, Std} /\ fs = WithStats

StreamInv ==
    /\ disk0 \in Disks /\ o \in Invocations
    /\ StreamStage(pc, disk, file, result)
    /\ pc # "check" /\ result # "aliases" => OptionsApart

----------------------------------------------------------------------------
(* Under any disturbance a name other than the report's stays what it was, *)
(* or is gone, or leads to the file created for the report; and no file    *)
(* but the one behind the descriptor has been written.                     *)
Tracked ==
    \A n \in Names \ {name} :
        \/ disk.entry[n] \in {disk0.entry[n], Absent}
        \/ pc \notin {"enumerate", "scan", "open"}
           /\ \E i \in Unused(disk0) : disk.entry[n] = File(i)

OnlyReportWritten ==
    /\ \A i \in FileIds :
          IF i = file THEN disk.holds[i] \in {disk0.holds[i], "empty", "report", "partialReport"}
                      ELSE disk.holds[i] = disk0.holds[i]
    /\ pc \in {"enumerate", "scan", "open"} => file = 0

NotWrittenYet == \A i \in FileIds : disk0.holds[i] = "original" => disk.holds[i] = "original"

(* The inputs refuseInputAlias has compared are not the report; before the *)
(* file is truncated it has compared them all.                             *)
ComparedApart == \A n \in paths \ unchecked : disk.entry[n] # File(file)

ReportInv ==
    /\ disk0 \in Disks /\ name \in ReportNames /\ WellFormed(disk)
    /\ paths \subseteq Tree \ {name} /\ unchecked \subseteq paths
    /\ \A n \in paths : disk0.entry[n].kind = "file"
    /\ Tracked /\ OnlyReportWritten
    /\ \/ pc \in {"enumerate", "scan", "open"} /\ unchecked = {}
       \/ pc = "refuse" /\ file \in FileIds /\ NotWrittenYet /\ ComparedApart
       \/ pc \in {"write", "cleanup"} /\ file \in FileIds /\ unchecked = {} /\ ComparedApart
       \/ pc = "done" /\ result \in {"ok", "cannotWrite"} /\ unchecked = {} /\ ComparedApart
       \/ /\ pc = "done" /\ NotWrittenYet
          /\ result \in {"aliases", "scanFailed", "cannotOpen", "refused", "cannotTruncate"}

CommandsInv ==
    \/ command = "stream" /\ StreamInv /\ NoReport
    \/ command = "dir" /\ ReportInv /\ o = NoOptions
=============================================================================
