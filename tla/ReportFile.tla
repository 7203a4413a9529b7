------------------------------ MODULE ReportFile ------------------------------
(***************************************************************************)
(* The report of "goredact dir" as a file (cmd/goredact: runDir's          *)
(* enumeration and excludeReportPath, then writeReport and                 *)
(* refuseInputAlias), while others replace the report's name and remove    *)
(* inputs.  Names are canonical paths, as regularFiles and                 *)
(* canonicalizeReportPath leave them.                                      *)
(***************************************************************************)
EXTENDS LinkedFiles

CONSTANTS
    Tree,          \* the names under the scan root
    ReportNames,   \* what -report-path ranges over
    Disturbances   \* bound: how often the file system is changed by others

ASSUME ReportAssumption ==
    /\ Tree \subseteq Names /\ ReportNames \subseteq Names
    /\ Disturbances \in Nat

VARIABLES
    disturbed,     \* how often others have changed the file system
    name,          \* -report-path
    paths,         \* the inputs: what is scanned and must not be written
    unchecked      \* refuseInputAlias: the inputs still to compare

reportVars == <<disturbed, name, paths, unchecked>>

ReportInit ==
    /\ Start("enumerate")
    /\ disturbed = 0 /\ name \in ReportNames /\ paths = {} /\ unchecked = {}

----------------------------------------------------------------------------
(* Others: the report's name is made another name's file, or a link to it; *)
(* an input is removed.                                                    *)
NoChains(d) == NoLinkChains(d) /\ disk' = d

Disturb ==
    /\ pc # "done" /\ disturbed < Disturbances /\ disturbed' = disturbed + 1
    /\ \/ \E n \in {m \in Names \ {name} : Exists(disk, m)} :
             \E e \in {File(FileAt(disk, n)), Link(n)} :
                NoChains([disk EXCEPT !.entry[name] = e])
       \/ \E n \in Tree \ {name} : disk' = Remove(disk, n)
    /\ UNCHANGED <<disk0, name, pc, paths, unchecked, file, result>>

----------------------------------------------------------------------------
RegularFiles == {n \in Tree : disk.entry[n].kind = "file"}

(* regularFiles and excludeReportPath: the report is no input under its    *)
(* own name, and may be none under another.                                *)
Enumerate ==
    /\ pc = "enumerate"
    /\ LET others == RegularFiles \ {name}
       IN  /\ paths' = {n \in others : ~SameFile(disk, name, n)}
           /\ IF paths' = others THEN Goto("scan") ELSE Return("aliases")
    /\ UNCHANGED <<disk0, disk, disturbed, name, unchecked, file>>

(* scanFiles reads the inputs.                                             *)
Scan ==
    /\ pc = "scan"
    /\ Goto("open") \/ Return("scanFailed")
    /\ UNCHANGED <<disk0, disk, disturbed, name, paths, unchecked, file>>

(* Faulty: the file is truncated as it is opened.                          *)
OpenTruncating ==
    /\ pc = "open"
    /\ \/ /\ LET opened == Created(disk, name, "empty")
             IN  file' = FileAt(opened, name) /\ disk' = Write(opened, file', "empty")
          /\ unchecked' = paths /\ Goto("refuse")
       \/ Return("cannotOpen") /\ UNCHANGED <<disk, unchecked, file>>
    /\ UNCHANGED <<disk0, disturbed, name, paths>>

(* Opened, and created if need be, but not truncated.                      *)
Open ==
    /\ pc = "open"
    /\ \/ /\ disk' = Created(disk, name, "empty")
          /\ file' = FileAt(disk', name)
          /\ unchecked' = paths /\ Goto("refuse")
       \/ Return("cannotOpen") /\ UNCHANGED <<disk, unchecked, file>>
    /\ UNCHANGED <<disk0, disturbed, name, paths>>

(* refuseInputAlias: one Stat after the other, against the open file.      *)
Refuse ==
    /\ pc = "refuse" /\ unchecked # {}
    /\ \E n \in unchecked :
          /\ unchecked' = unchecked \ {n}
          /\ IF Exists(disk, n) /\ FileAt(disk, n) = file
             THEN Return("refused")
             ELSE UNCHANGED <<pc, result>>
    /\ UNCHANGED <<disk0, disk, disturbed, name, paths, file>>

Truncate ==
    /\ pc = "refuse" /\ unchecked = {}
    /\ \/ disk' = Write(disk, file, "empty") /\ Goto("write")
       \/ Return("cannotTruncate") /\ UNCHANGED disk
    /\ UNCHANGED <<disk0, disturbed, name, paths, unchecked, file>>

(* The report is written and the file closed; either may fail.             *)
WriteAndClose ==
    /\ pc = "write"
    /\ \/ disk' = Write(disk, file, "report") /\ Return("ok")
       \/ disk' = Write(disk, file, "partialReport") /\ Goto("cleanup")
    /\ UNCHANGED <<disk0, disturbed, name, paths, unchecked, file>>

RemoveReport ==
    /\ pc = "cleanup" /\ Return("cannotWrite")
    /\ disk' = Remove(disk, name)
    /\ UNCHANGED <<disk0, disturbed, name, paths, unchecked, file>>

ReportNext ==
    \/ Disturb
    \/ Enumerate \/ Scan \/ Open \/ Refuse \/ Truncate \/ WriteAndClose \/ RemoveReport

----------------------------------------------------------------------------
(* An input that is still where it was enumerated holds what it held,      *)
(* whatever the report's name was made to be and when (writeReport's and   *)
(* refuseInputAlias's contract).                                           *)
TreeUntouched ==
    \A n \in paths :
        disk.entry[n] = disk0.entry[n] => disk.holds[FileAt(disk, n)] = "original"

(* A run that is refused or cannot scan leaves every file that still has   *)
(* its name as it was; the previous report is one of them.                 *)
RefusalKeepsReport ==
    pc = "done" /\ result \in {"aliases", "scanFailed", "cannotOpen", "refused", "cannotTruncate"} =>
        \A n \in Names : disk.entry[n].kind = "file" /\ disk.entry[n] = disk0.entry[n] =>
            disk.holds[disk.entry[n].id] = "original"

(* "Never leave a partial report behind": no name leads to one.            *)
NoPartialReport ==
    pc = "done" => \A n \in Names : Exists(disk, n) => disk.holds[FileAt(disk, n)] # "partialReport"
=============================================================================
