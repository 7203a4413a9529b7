----------------------------- MODULE LinkedFiles -----------------------------
(***************************************************************************)
(* The file system as far as the commands can tell: names are files, links *)
(* to another name (which need not exist), or absent; two names may be the *)
(* same file.  A link points at a name that is not itself a link.          *)
(***************************************************************************)
EXTENDS Integers, FiniteSets

CONSTANTS
    Names,     \* absolute paths
    FileIds,   \* inodes
    Disks      \* the file systems a run ranges over

Absent     == [kind |-> "absent"]
File(i)    == [kind |-> "file", id |-> i]
Link(n)    == [kind |-> "link", to |-> n]

(* A file system: what each name is, and what each file holds, "original"  *)
(* at first.                                                               *)
FileSystem ==
    {fs \in [entry : [Names -> {Absent} \cup {File(i) : i \in FileIds} \cup {Link(n) : n \in Names}],
               holds : [FileIds -> {"original", "unused"}]] :
        \A n \in Names : fs.entry[n].kind = "file" => fs.holds[fs.entry[n].id] = "original"}

NoLinkChains(fs) ==
    \A n \in Names : fs.entry[n].kind = "link" => fs.entry[fs.entry[n].to].kind # "link"

(* No file takes the inode of one that is gone.                            *)
Unused(fs) == {i \in FileIds : fs.holds[i] = "unused"}

(* There is room for the two files a command may create.                   *)
ASSUME DisksAssumption ==
    /\ FileIds \subseteq Nat \ {0} /\ Disks \subseteq FileSystem
    /\ \A d \in Disks : NoLinkChains(d) /\ \E i, j \in Unused(d) : i # j

(* What a command that runs on it keeps, whichever it is.                  *)
VARIABLES
    disk0, disk,   \* the file system, at the start and now
    pc,
    file,          \* the file behind the command's descriptor; 0 if none is open
    result         \* what the command returned

fileVars == <<disk0, disk, pc, file, result>>

Start(p) ==
    disk0 \in Disks /\ disk = disk0 /\ pc = p /\ file = 0 /\ result = "none"

Goto(p)   == pc' = p /\ UNCHANGED result
Return(r) == pc' = "done" /\ result' = r

----------------------------------------------------------------------------
(* The name that opening n reaches, and the file it finds there.           *)
Reached(fs, n) == IF fs.entry[n].kind = "link" THEN fs.entry[n].to ELSE n
Exists(fs, n)  == fs.entry[Reached(fs, n)].kind = "file"
FileAt(fs, n)  == fs.entry[Reached(fs, n)].id

(* os.SameFile of two os.Stat.                                             *)
SameFile(fs, a, b) == Exists(fs, a) /\ Exists(fs, b) /\ FileAt(fs, a) = FileAt(fs, b)

(* os.OpenFile with O_CREATE: what the file system is afterwards.  A link  *)
(* that leads nowhere is followed, and the file is created there.          *)
Created(fs, n, content) ==
    IF Exists(fs, n) THEN fs
    ELSE LET i == CHOOSE i \in Unused(fs) : TRUE
         IN  [entry |-> [fs.entry EXCEPT ![Reached(fs, n)] = File(i)],
              holds |-> [fs.holds EXCEPT ![i] = content]]

Write(fs, i, content) == [fs EXCEPT !.holds[i] = content]
Remove(fs, n)         == [fs EXCEPT !.entry[n] = Absent]

(* The names a file can still be reached through.                          *)
Reachable(fs, i) == {n \in Names : Exists(fs, n) /\ FileAt(fs, n) = i}
=============================================================================
