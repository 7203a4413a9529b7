--------------------------- MODULE CommandsProofs ---------------------------
(***************************************************************************)
(* What the two commands keep of the files a user named: for every file    *)
(* system without chains of links, every command line, every failure, and  *)
(* any number of disturbances.                                             *)
(***************************************************************************)
EXTENDS CommandsInv, TLAPS

----------------------------------------------------------------------------
(* The file system.                                                        *)

LEMMA EntryKinds ==
    ASSUME NEW e \in Entry
    PROVE  \/ e.kind = "absent" /\ e = Absent
           \/ e.kind = "file" /\ e.id \in FileIds /\ e = File(e.id)
           \/ e.kind = "link" /\ e.to \in Names /\ e = Link(e.to)
<1>1. CASE e = Absent BY <1>1 DEF Absent
<1>2. CASE \E i \in FileIds : e = File(i) BY <1>2 DEF File
<1>3. CASE \E n \in Names : e = Link(n) BY <1>3 DEF Link
<1> QED BY <1>1, <1>2, <1>3 DEF Entry

LEMMA KindsDiffer ==
    /\ Absent.kind = "absent"
    /\ \A i : File(i).kind = "file" /\ File(i).id = i
    /\ \A n : Link(n).kind = "link" /\ Link(n).to = n
BY DEF Absent, File, Link

(* The two ways a name stands.                                             *)
LEMMA Reaching ==
    ASSUME NEW fs, WellFormed(fs), NEW n \in Names
    PROVE  /\ Reached(fs, n) \in Names
           /\ fs.entry[n] \in Entry /\ fs.entry[Reached(fs, n)] \in Entry
           /\ \/ /\ Exists(fs, n) /\ FileAt(fs, n) \in FileIds
                 /\ fs.entry[Reached(fs, n)] = File(FileAt(fs, n))
              \/ /\ ~Exists(fs, n) /\ fs.entry[Reached(fs, n)] = Absent
<1>1. \A m \in Names : fs.entry[m] \in Entry BY DEF WellFormed
<1>2. Reached(fs, n) \in Names BY <1>1, EntryKinds DEF Reached
<1>3. fs.entry[Reached(fs, n)].kind # "link"
  <2>1. CASE fs.entry[n].kind = "link" BY <2>1 DEF WellFormed, NoLinkChains, Reached
  <2>2. CASE fs.entry[n].kind # "link" BY <2>2 DEF Reached
  <2> QED BY <2>1, <2>2
<1>4. fs.entry[Reached(fs, n)] \in Entry BY <1>1, <1>2
<1> DEFINE e == fs.entry[Reached(fs, n)]
<1>5. \/ e.kind = "absent" /\ e = Absent
      \/ e.kind = "file" /\ e.id \in FileIds /\ e = File(e.id)
  BY <1>3, <1>4, EntryKinds
<1>6. /\ Exists(fs, n) <=> e.kind = "file"
      /\ FileAt(fs, n) = e.id
  BY DEF Exists, FileAt
<1> HIDE DEF e
<1>7. \/ Exists(fs, n) /\ FileAt(fs, n) \in FileIds /\ e = File(FileAt(fs, n))
      \/ ~Exists(fs, n) /\ e = Absent
  BY <1>5, <1>6
<1> QED BY <1>1, <1>2, <1>4, <1>7 DEF e

LEMMA DiskFacts ==
    ASSUME NEW d \in Disks
    PROVE  /\ WellFormed(d) /\ \E i, j \in Unused(d) : i # j
           /\ \A i \in FileIds : d.holds[i] \in {"original", "unused"}
           /\ \A n \in Names : Exists(d, n) => d.holds[FileAt(d, n)] = "original"
<1>1. d \in FileSystem /\ NoLinkChains(d) /\ \E i, j \in Unused(d) : i # j BY DisksAssumption
<1>2. /\ d.entry \in [Names -> Entry] /\ d.holds \in [FileIds -> {"original", "unused"}]
      /\ d = [entry |-> d.entry, holds |-> d.holds]
      /\ \A n \in Names : d.entry[n].kind = "file" => d.holds[d.entry[n].id] = "original"
  BY <1>1 DEF FileSystem, Entry
<1>3. WellFormed(d) BY <1>1, <1>2 DEF WellFormed
<1>4. \A n \in Names : Exists(d, n) => d.holds[FileAt(d, n)] = "original"
  BY <1>2, <1>3, Reaching DEF Exists, FileAt
<1> QED BY <1>1, <1>2, <1>3, <1>4

LEMMA WriteFacts ==
    ASSUME NEW fs, WellFormed(fs), NEW i \in FileIds, NEW c
    PROVE  /\ WellFormed(Write(fs, i, c)) /\ Write(fs, i, c).entry = fs.entry
           /\ Write(fs, i, c).holds = [fs.holds EXCEPT ![i] = c]
<1> DEFINE h == [fs.holds EXCEPT ![i] = c]
           w == [entry |-> fs.entry, holds |-> h]
<1>1. Write(fs, i, c) = w BY DEF Write, WellFormed
<1>2. DOMAIN fs.holds = FileIds /\ fs.entry \in [Names -> Entry] /\ NoLinkChains(fs) BY DEF WellFormed
<1>3. DOMAIN h = FileIds BY <1>2
<1> HIDE DEF h
<1>4. w.entry = fs.entry /\ w.holds = h /\ w = [entry |-> w.entry, holds |-> w.holds] OBVIOUS
<1> HIDE DEF w
<1>5. NoLinkChains(w) BY <1>2, <1>4 DEF NoLinkChains
<1>6. WellFormed(w) BY <1>2, <1>3, <1>4, <1>5 DEF WellFormed
<1> QED BY <1>1, <1>4, <1>6 DEF h

LEMMA WriteTwice ==
    ASSUME NEW fs, WellFormed(fs), NEW i \in FileIds, NEW b, NEW c
    PROVE  Write(Write(fs, i, b), i, c) = Write(fs, i, c)
<1> DEFINE h(x) == [fs.holds EXCEPT ![i] = x]
           w(x) == [entry |-> fs.entry, holds |-> h(x)]
<1>1. \A x : Write(fs, i, x) = w(x) BY DEF Write, WellFormed
<1>2. [h(b) EXCEPT ![i] = c] = h(c) BY DEF WellFormed
<1> HIDE DEF h
<1>3. Write(w(b), i, c) = w(c) BY <1>2 DEF Write
<1> HIDE DEF w
<1> QED BY <1>1, <1>3

LEMMA RemoveFacts ==
    ASSUME NEW fs, WellFormed(fs), NEW n \in Names
    PROVE  /\ WellFormed(Remove(fs, n)) /\ Remove(fs, n).holds = fs.holds
           /\ Remove(fs, n).entry = [fs.entry EXCEPT ![n] = Absent]
<1> DEFINE e == [fs.entry EXCEPT ![n] = Absent]
           g == [entry |-> e, holds |-> fs.holds]
<1>1. Remove(fs, n) = g BY DEF Remove, WellFormed
<1>2. /\ DOMAIN fs.holds = FileIds /\ fs.entry \in [Names -> Entry] /\ NoLinkChains(fs) BY DEF WellFormed
<1>3. Absent \in Entry BY DEF Entry
<1>4. e \in [Names -> Entry] BY <1>2, <1>3
<1>5. /\ e[n] = Absent /\ \A m \in Names : m # n => e[m] = fs.entry[m] BY <1>2
<1>6. g.entry = e /\ g.holds = fs.holds /\ g = [entry |-> g.entry, holds |-> g.holds] OBVIOUS
<1> HIDE DEF e, g
<1>7. NoLinkChains(g)
  <2> SUFFICES ASSUME NEW m \in Names, e[m].kind = "link" PROVE e[e[m].to].kind # "link"
    BY <1>6 DEF NoLinkChains
  <2>1. m # n /\ e[m] = fs.entry[m] BY <1>5, KindsDiffer
  <2>2. e[m].to \in Names BY <1>4, EntryKinds
  <2>3. CASE e[m].to = n BY <1>5, <2>3, KindsDiffer
  <2>4. CASE e[m].to # n BY <1>2, <1>5, <2>1, <2>2, <2>4 DEF NoLinkChains
  <2> QED BY <2>3, <2>4
<1>8. WellFormed(g) BY <1>2, <1>4, <1>6, <1>7 DEF WellFormed
<1> QED BY <1>1, <1>6, <1>8 DEF e

(* An inode is left for a file to be created.                              *)
HasRoom(fs) == Unused(fs) # {}

(* A name that is created: what it reaches is a file then, and nothing     *)
(* else has changed, but that a new file holds something.                  *)
Opens(fs, n, c, g) ==
    /\ WellFormed(g) /\ Exists(g, n) /\ FileAt(g, n) \in FileIds
    /\ \A m \in Names : Reached(g, m) = Reached(fs, m)
    /\ \A m \in Names : m # Reached(fs, n) => g.entry[m] = fs.entry[m]
    /\ g.entry[Reached(fs, n)] = File(FileAt(g, n))
    /\ \/ Exists(fs, n) /\ g = fs
       \/ /\ ~Exists(fs, n) /\ FileAt(g, n) \in Unused(fs)
          /\ g.holds = [fs.holds EXCEPT ![FileAt(g, n)] = c]

LEMMA CreatedFacts ==
    ASSUME NEW fs, WellFormed(fs), HasRoom(fs), NEW n \in Names, NEW c,
           NEW g, g = Created(fs, n, c)
    PROVE  Opens(fs, n, c, g)
<1> DEFINE t == Reached(fs, n)
           i == CHOOSE i \in Unused(fs) : TRUE
           e == [fs.entry EXCEPT ![t] = File(i)]
           h == [fs.holds EXCEPT ![i] = c]
           r == [entry |-> e, holds |-> h]
<1>1. /\ t \in Names
      /\ \/ Exists(fs, n) /\ FileAt(fs, n) \in FileIds /\ fs.entry[t] = File(FileAt(fs, n))
         \/ ~Exists(fs, n) /\ fs.entry[t] = Absent
  BY Reaching
<1>2. i \in Unused(fs) /\ i \in FileIds BY DEF Unused, HasRoom
<1>3. CASE Exists(fs, n)
  <2>1. g = fs BY <1>3 DEF Created
  <2> QED BY <1>1, <1>3, <2>1 DEF Opens
<1>4. CASE ~Exists(fs, n)
  <2>1. g = r BY <1>4 DEF Created
  <2>2. r.entry = e /\ r.holds = h /\ r = [entry |-> r.entry, holds |-> r.holds] OBVIOUS
  <2>3. DOMAIN fs.holds = FileIds /\ fs.entry \in [Names -> Entry] /\ NoLinkChains(fs) BY DEF WellFormed
  <2>4. DOMAIN h = FileIds BY <2>3
  <2>5. File(i) \in Entry BY <1>2 DEF Entry
  <2>6. e \in [Names -> Entry] BY <2>3, <2>5
  <2>7. e[t] = File(i) /\ \A m \in Names : m # t => e[m] = fs.entry[m] BY <1>1, <2>3
  <2>8. fs.entry[t] = Absent BY <1>1, <1>4
  <2> HIDE DEF e, r, i
  <2>9. ASSUME NEW m \in Names
        PROVE  /\ e[m].kind = "link" <=> fs.entry[m].kind = "link"
               /\ e[m].kind = "link" => e[m] = fs.entry[m]
    <3>1. CASE m = t BY <2>7, <2>8, <3>1, KindsDiffer
    <3>2. CASE m # t BY <2>7, <3>2
    <3> QED BY <3>1, <3>2
  <2>10. \A m \in Names : fs.entry[m].kind = "link" => fs.entry[m].to \in Names
    BY <2>3, EntryKinds
  <2>11. NoLinkChains(r) BY <2>2, <2>3, <2>9, <2>10 DEF NoLinkChains
  <2>12. WellFormed(g) BY <2>1, <2>2, <2>4, <2>6, <2>11 DEF WellFormed
  <2>13. \A m \in Names : Reached(g, m) = Reached(fs, m) BY <2>1, <2>2, <2>9 DEF Reached
  <2>14. Reached(g, n) = t /\ g.entry[t] = File(i) BY <2>1, <2>2, <2>7, <2>13
  <2>15. Exists(g, n) /\ FileAt(g, n) = i BY <2>14, KindsDiffer DEF Exists, FileAt
  <2> QED BY <1>2, <1>4, <2>1, <2>2, <2>7, <2>12, <2>13, <2>14, <2>15 DEF Opens
<1> QED BY <1>3, <1>4

(* What a command does to open a name, created if need be, and write: the  *)
(* file behind n holds c then.                                             *)
Written(fs, n, c) == Write(Created(fs, n, "empty"), FileAt(Created(fs, n, "empty"), n), c)

Wrote(fs, n, c, g) ==
    /\ WellFormed(g) /\ Exists(g, n) /\ FileAt(g, n) \in FileIds
    /\ FileAt(g, n) = FileAt(Created(fs, n, "empty"), n)
    /\ g.holds = [fs.holds EXCEPT ![FileAt(g, n)] = c]
    /\ \A m \in Names : Reached(g, m) = Reached(fs, m)
    /\ \A m \in Names : m # Reached(fs, n) => g.entry[m] = fs.entry[m]
    /\ g.entry[Reached(fs, n)] = File(FileAt(g, n))
    /\ \/ Exists(fs, n) /\ FileAt(g, n) = FileAt(fs, n) /\ g.entry = fs.entry
       \/ ~Exists(fs, n) /\ FileAt(g, n) \in Unused(fs)

LEMMA WrittenFacts ==
    ASSUME NEW fs, WellFormed(fs), HasRoom(fs), NEW n \in Names, NEW c,
           NEW g, g = Written(fs, n, c)
    PROVE  Wrote(fs, n, c, g)
<1> DEFINE d == Created(fs, n, "empty")
           f == FileAt(d, n)
<1>0. Opens(fs, n, "empty", d) BY CreatedFacts
<1>1. /\ WellFormed(d) /\ Exists(d, n) /\ f \in FileIds
      /\ \A m \in Names : Reached(d, m) = Reached(fs, m)
      /\ \A m \in Names : m # Reached(fs, n) => d.entry[m] = fs.entry[m]
      /\ d.entry[Reached(fs, n)] = File(f)
      /\ \/ Exists(fs, n) /\ d = fs
         \/ /\ ~Exists(fs, n) /\ f \in Unused(fs)
            /\ d.holds = [fs.holds EXCEPT ![f] = "empty"]
  BY <1>0 DEF Opens
<1> HIDE DEF d
<1>2. g = Write(d, f, c) BY DEF Written, d
<1>3. /\ WellFormed(g) /\ g.entry = d.entry /\ g.holds = [d.holds EXCEPT ![f] = c]
  <2> HIDE DEF f
  <2> QED BY <1>1, <1>2, WriteFacts
<1>4. FileAt(g, n) = f /\ Exists(g, n) /\ \A m : Reached(g, m) = Reached(d, m)
  BY <1>1, <1>3 DEF FileAt, Exists, Reached
<1> HIDE DEF f
<1>5. g.holds = [fs.holds EXCEPT ![f] = c]
  <2>1. DOMAIN fs.holds = FileIds BY DEF WellFormed
  <2>2. CASE d = fs BY <1>3, <2>2
  <2>3. CASE d.holds = [fs.holds EXCEPT ![f] = "empty"] BY <1>3, <2>1, <2>3
  <2> QED BY <1>1, <2>2, <2>3
<1>6. CASE Exists(fs, n) /\ d = fs
  <2>1. f = FileAt(fs, n) /\ g.entry = fs.entry BY <1>3, <1>6 DEF f
  <2> QED BY <1>1, <1>3, <1>4, <1>5, <1>6, <2>1 DEF f, d, Wrote
<1>7. CASE ~Exists(fs, n) /\ f \in Unused(fs)
  BY <1>1, <1>3, <1>4, <1>5, <1>7 DEF f, d, Wrote
<1> QED BY <1>1, <1>6, <1>7

(* Writing through one name leaves alone what another leads to, unless     *)
(* both lead to one file.                                                  *)
LEMMA WrittenKeeps ==
    ASSUME NEW fs, WellFormed(fs), HasRoom(fs), NEW n \in Names, NEW c,
           NEW g, g = Written(fs, n, c), NEW m \in Names,
           Exists(fs, m), FileAt(fs, m) \notin Unused(fs), ~SameFile(fs, n, m)
    PROVE  /\ g.entry[m] = fs.entry[m] /\ Exists(g, m) /\ FileAt(g, m) = FileAt(fs, m)
           /\ FileAt(g, n) # FileAt(fs, m)
           /\ g.holds[FileAt(fs, m)] = fs.holds[FileAt(fs, m)]
<1> DEFINE f == FileAt(g, n) k == FileAt(fs, m) t == Reached(fs, n) u == Reached(fs, m)
<1>0. Wrote(fs, n, c, g) BY WrittenFacts
<1>1. /\ f \in FileIds /\ g.holds = [fs.holds EXCEPT ![f] = c]
      /\ Reached(g, m) = u
      /\ \A x \in Names : x # t => g.entry[x] = fs.entry[x]
      /\ \/ Exists(fs, n) /\ FileAt(g, n) = FileAt(fs, n) /\ g.entry = fs.entry
         \/ ~Exists(fs, n) /\ FileAt(g, n) \in Unused(fs)
  BY <1>0 DEF Wrote
<1>2. /\ u \in Names /\ k \in FileIds /\ fs.entry[u] = File(k) /\ fs.entry[m] \in Entry
  BY Reaching
<1>3. f # k BY <1>1 DEF SameFile
<1>4. g.entry[u] = fs.entry[u] /\ g.entry[m] = fs.entry[m]
  <2>1. CASE g.entry = fs.entry BY <2>1
  <2>2. CASE ~Exists(fs, n)
    <3>1. fs.entry[t] = Absent BY <2>2, Reaching
    <3>2. u # t BY <1>2, <3>1, KindsDiffer
    <3>3. m # t
      <4>1. CASE fs.entry[m].kind = "link" BY <3>1, <4>1, KindsDiffer
      <4>2. CASE fs.entry[m].kind # "link" BY <3>2, <4>2 DEF Reached
      <4> QED BY <4>1, <4>2
    <3> QED BY <1>1, <1>2, <3>2, <3>3
  <2> QED BY <1>1, <2>1, <2>2
<1>5. Exists(g, m) /\ FileAt(g, m) = k BY <1>1, <1>2, <1>4, KindsDiffer DEF Exists, FileAt
<1>6. g.holds[k] = fs.holds[k]
  <2>1. DOMAIN fs.holds = FileIds BY DEF WellFormed
  <2> HIDE DEF f, k
  <2> QED BY <1>1, <1>2, <1>3, <2>1
<1> QED BY <1>3, <1>4, <1>5, <1>6

(* A name that leads to a file afterwards led to it before, or leads to    *)
(* the one written.                                                        *)
LEMMA WrittenFiles ==
    ASSUME NEW fs, WellFormed(fs), HasRoom(fs), NEW n \in Names, NEW c,
           NEW g, g = Written(fs, n, c), NEW m \in Names
    PROVE  \/ ~Exists(g, m)
           \/ Exists(fs, m) /\ FileAt(g, m) = FileAt(fs, m)
           \/ ~Exists(fs, m) /\ Reached(fs, m) = Reached(fs, n) /\ FileAt(g, m) = FileAt(g, n)
<1> DEFINE t == Reached(fs, n) u == Reached(fs, m)
<1>0. Wrote(fs, n, c, g) BY WrittenFacts
<1>1. /\ FileAt(g, n) \in FileIds /\ g.holds = [fs.holds EXCEPT ![FileAt(g, n)] = c]
      /\ Reached(g, m) = u
      /\ \A x \in Names : x # t => g.entry[x] = fs.entry[x]
      /\ \/ Exists(fs, n) /\ FileAt(g, n) = FileAt(fs, n) /\ g.entry = fs.entry
         \/ ~Exists(fs, n) /\ FileAt(g, n) \in Unused(fs)
  BY <1>0 DEF Wrote
<1>4. g.entry[t] = File(FileAt(g, n)) BY <1>0 DEF Wrote
<1>5. u \in Names BY Reaching
<1>2. CASE g.entry[u] = fs.entry[u] BY <1>1, <1>4, <1>5, <1>2 DEF Exists, FileAt
<1>3. CASE u = t /\ ~Exists(fs, n) BY <1>1, <1>4, <1>5, <1>3, KindsDiffer DEF Exists, FileAt
<1> QED BY <1>1, <1>4, <1>5, <1>2, <1>3

----------------------------------------------------------------------------
(* The stream command.                                                     *)

LEMMA OptionFacts ==
    ASSUME o \in Invocations
    PROVE  /\ o.input \in Names \cup {Std} /\ o.output \in Names \cup {Std}
           /\ o.stats \in Names \cup {Std, None} /\ o.zstd \in BOOLEAN
           /\ Std \notin Names /\ None \notin Names
BY StreamAssumption

(* The output, when it is not the standard output.                         *)
LEMMA OutputFacts ==
    ASSUME disk0 \in Disks, o \in Invocations, o.output # Std
    PROVE  /\ o.output \in Names /\ OutputFile \in FileIds /\ OutputFile # 0
           /\ WellFormed(disk0) /\ HasRoom(disk0)
           /\ \A c : /\ WithOutput(c) = Written(disk0, o.output, c)
                     /\ WellFormed(WithOutput(c))
                     /\ FileAt(WithOutput(c), o.output) = OutputFile
                     /\ \A b : Write(WithOutput(b), OutputFile, c) = WithOutput(c)
           /\ OutputGone = Remove(WithOutput("empty"), o.output)
<1>1. o.output \in Names BY OptionFacts
<1>2. WellFormed(disk0) /\ HasRoom(disk0) BY DiskFacts DEF HasRoom
<1> DEFINE d == Created(disk0, o.output, "empty")
           f == FileAt(d, o.output)
<1>3. Opened = d /\ OutputFile = f BY DEF Opened, OutputFile
<1>4. \A c : WithOutput(c) = Write(d, f, c) BY <1>3 DEF WithOutput
<1>5. WellFormed(d) /\ f \in FileIds
  <2>1. Opens(disk0, o.output, "empty", d) BY <1>1, <1>2, CreatedFacts
  <2> QED BY <2>1 DEF Opens
<1>6. f # 0 BY <1>5, DisksAssumption
<1>7. \A c : Written(disk0, o.output, c) = Write(d, f, c) BY DEF Written
<1> HIDE DEF d, f
<1>8. ASSUME NEW c
      PROVE  /\ WellFormed(WithOutput(c)) /\ WithOutput(c).entry = d.entry
             /\ \A b : Write(WithOutput(b), f, c) = WithOutput(c)
  <2>1. WellFormed(Write(d, f, c)) /\ Write(d, f, c).entry = d.entry BY <1>5, WriteFacts
  <2>2. \A b : Write(Write(d, f, b), f, c) = Write(d, f, c) BY <1>5, WriteTwice
  <2> QED BY <1>4, <2>1, <2>2
<1>9. \A c : FileAt(WithOutput(c), o.output) = f BY <1>8 DEF FileAt, Reached, f
<1>10. OutputGone = Remove(WithOutput("empty"), o.output) BY DEF OutputGone
<1> QED BY <1>1, <1>2, <1>3, <1>4, <1>5, <1>6, <1>7, <1>8, <1>9, <1>10

LEMMA StandardOutput ==
    ASSUME o.output = Std
    PROVE  OutputFile = 0 /\ (\A c : WithOutput(c) = disk0) /\ OutputGone = disk0
BY DEF OutputFile, WithOutput, OutputGone

(* The invariant after a step, told of the file system and the options     *)
(* before it: neither changes.                                             *)
LEMMA StreamInvIs ==
    ASSUME disk0' = disk0, o' = o, disk0 \in Disks, o \in Invocations,
           StreamStage(pc', disk', file', result'),
           pc' # "check" /\ result' # "aliases" => OptionsApart
    PROVE  StreamInv'
<1>1. Opened' = Opened BY DEF Opened
<1>2. OutputFile' = OutputFile BY <1>1 DEF OutputFile
<1>3. \A c : WithOutput(c)' = WithOutput(c) BY <1>1, <1>2 DEF WithOutput
<1>4. OutputGone' = OutputGone BY <1>3 DEF OutputGone
<1>5. WithStats' = WithStats BY <1>3 DEF WithStats
<1>6. OptionsApart' = OptionsApart BY DEF OptionsApart, Distinct
<1>7. StreamStage(pc, disk, file, result)' BY <1>2, <1>3, <1>4, <1>5 DEF StreamStage
<1> QED BY <1>6, <1>7 DEF StreamInv

(* Check compares the names and files of the file system it starts on.     *)
LEMMA CheckedApart ==
    ASSUME disk = disk0, o \in Invocations,
           ~ \/ SameFileName(o.input, o.output)
             \/ /\ o.stats \notin {None, Std}
                /\ SameFileName(o.stats, o.input) \/ SameFileName(o.stats, o.output)
    PROVE  OptionsApart
BY DEF OptionsApart, Distinct, SameFileName

LEMMA StreamStep ==
    ASSUME StreamInv, StreamNext
    PROVE  StreamInv'
<1>1. /\ disk0 \in Disks /\ o \in Invocations /\ StreamStage(pc, disk, file, result)
      /\ pc # "check" /\ result # "aliases" => OptionsApart
  BY DEF StreamInv
<1>2. disk0' = disk0 /\ o' = o
  BY DEF StreamNext, Check, OpenInput, OpenOutput, ScanFails, ScanSucceeds, CloseEncoder,
         CloseOutput, CloseFailed, RemoveOutput, WriteStats
<1> DEFINE Kept == pc' # "check" /\ result' # "aliases" => OptionsApart
           Standing == StreamStage(pc', disk', file', result')
<1> SUFFICES Standing /\ Kept BY <1>1, <1>2, StreamInvIs
<1>3. OutputFile = 0 <=> o.output = Std BY <1>1, OutputFacts, StandardOutput
<1>4. ASSUME NEW c, NEW b, disk = WithOutput(b), file = OutputFile, ToOutput(c)
      PROVE  disk' = WithOutput(c)
  <2>1. CASE o.output = Std BY <1>3, <1>4, <2>1, StandardOutput DEF ToOutput
  <2>2. CASE o.output # Std BY <1>1, <1>3, <1>4, <2>2, OutputFacts DEF ToOutput
  <2> QED BY <2>1, <2>2
<1>5. CASE Check
  <2>1. disk = disk0 /\ file = 0 /\ result = "none" BY <1>1, <1>5 DEF Check, StreamStage
  <2>2. disk' = disk0 /\ file' = 0 BY <1>5, <2>1 DEF Check
  <2>3. CASE pc' = "done" /\ result' = "aliases" BY <2>2, <2>3 DEF StreamStage
  <2>4. CASE ~(pc' = "done" /\ result' = "aliases")
    <3>1. \/ pc' = "done" /\ result' = "usage"
          \/ pc' = "openInput" /\ result' = "none"
      BY <1>5, <2>1, <2>4 DEF Check, Return, Goto
    <3>2. OptionsApart BY <1>1, <1>5, <2>1, <2>4, CheckedApart DEF Check, Return
    <3> QED BY <2>2, <3>1, <3>2 DEF StreamStage
  <2> QED BY <2>3, <2>4
<1>6. CASE OpenInput
  <2>1. disk = disk0 /\ file = 0 /\ result = "none" /\ pc = "openInput"
    BY <1>1, <1>6 DEF OpenInput, StreamStage
  <2>2. /\ disk' = disk0 /\ file' = 0 /\ OptionsApart
        /\ \/ pc' = "openOutput" /\ result' = "none"
           \/ pc' = "done" /\ result' = "cannotOpenInput"
    BY <1>1, <1>6, <2>1 DEF OpenInput, Return, Goto
  <2> QED BY <2>2 DEF StreamStage
<1>7. CASE OpenOutput
  <2>1. disk = disk0 /\ file = 0 /\ result = "none" /\ pc = "openOutput" /\ OptionsApart
    BY <1>1, <1>7 DEF OpenOutput, StreamStage
  <2>2. CASE o.output = Std /\ Goto("scan") /\ UNCHANGED <<disk, file>>
    BY <2>1, <2>2, StandardOutput DEF Goto, StreamStage
  <2>3. CASE /\ o.output # Std /\ Goto("scan")
             /\ LET opened == Created(disk, o.output, "empty")
                IN  /\ file' = FileAt(opened, o.output)
                    /\ disk' = Write(opened, file', "empty")
    <3>1. file' = OutputFile BY <2>1, <2>3 DEF OutputFile, Opened
    <3>2. disk' = WithOutput("empty") BY <2>1, <2>3, <3>1 DEF WithOutput, Opened
    <3> QED BY <2>1, <2>3, <3>1, <3>2 DEF Goto, StreamStage
  <2>4. CASE o.output # Std /\ Return("cannotOpenOutput") /\ UNCHANGED <<disk, file>>
    BY <2>1, <2>4 DEF Return, StreamStage
  <2> QED BY <1>7, <2>2, <2>3, <2>4 DEF OpenOutput
<1>8. CASE ScanFails
  <2>1. disk = WithOutput("empty") /\ file = OutputFile /\ result = "none" /\ pc = "scan" /\ OptionsApart
    BY <1>1, <1>8 DEF ScanFails, StreamStage
  <2>2. disk' \in {WithOutput("empty"), WithOutput("partial")} BY <1>4, <1>8, <2>1 DEF ScanFails
  <2> QED BY <1>8, <2>1, <2>2 DEF ScanFails, StreamStage
<1>9. CASE ScanSucceeds
  <2>1. disk = WithOutput("empty") /\ file = OutputFile /\ result = "none" /\ pc = "scan" /\ OptionsApart
    BY <1>1, <1>9 DEF ScanSucceeds, StreamStage
  <2>2. CASE o.zstd
    <3>1. disk' = WithOutput("partial") BY <1>4, <1>9, <2>1, <2>2 DEF ScanSucceeds
    <3> QED BY <1>9, <2>1, <2>2, <3>1 DEF ScanSucceeds, Goto, StreamStage
  <2>3. CASE ~o.zstd
    <3>1. disk' = WithOutput("complete") BY <1>4, <1>9, <2>1, <2>3 DEF ScanSucceeds
    <3> QED BY <1>9, <2>1, <2>3, <3>1 DEF ScanSucceeds, Goto, StreamStage
  <2> QED BY <2>2, <2>3
<1>10. CASE CloseEncoder
  <2>1. disk = WithOutput("partial") /\ file = OutputFile /\ result = "none" /\ pc = "closeEncoder" /\ OptionsApart
    BY <1>1, <1>10 DEF CloseEncoder, StreamStage
  <2>2. CASE ToOutput("complete") /\ Goto("closeOutput")
    <3>1. disk' = WithOutput("complete") BY <1>4, <2>1, <2>2
    <3> QED BY <1>10, <2>1, <2>2, <3>1 DEF CloseEncoder, Goto, StreamStage
  <2>3. CASE UNCHANGED disk /\ result' = "cannotFinish" /\ pc' = "cleanup"
    BY <1>10, <2>1, <2>3 DEF CloseEncoder, StreamStage
  <2> QED BY <1>10, <2>2, <2>3 DEF CloseEncoder
<1>11. CASE CloseOutput
  <2>1. disk = WithOutput("complete") /\ file = OutputFile /\ result = "none" /\ pc = "closeOutput" /\ OptionsApart
    BY <1>1, <1>11 DEF CloseOutput, StreamStage
  <2>2. CASE Goto("stats") /\ UNCHANGED disk BY <2>1, <2>2 DEF Goto, StreamStage
  <2>3. CASE /\ file # 0 /\ disk' = Write(disk, file, "partial")
             /\ result' = "cannotFinalize" /\ pc' = "closeFailed"
    <3>1. o.output # Std BY <1>3, <2>1, <2>3
    <3>2. disk' = WithOutput("partial") BY <1>1, <2>1, <2>3, <3>1, OutputFacts
    <3> QED BY <2>1, <2>3, <3>1, <3>2 DEF StreamStage
  <2> QED BY <1>11, <2>2, <2>3 DEF CloseOutput
<1>12. CASE CloseFailed
  <2>1. disk = WithOutput("partial") /\ o.output # Std /\ result = "cannotFinalize" /\ OptionsApart
    BY <1>1, <1>12 DEF CloseFailed, StreamStage
  <2>2. FileAt(disk, o.output) = OutputFile BY <1>1, <2>1, OutputFacts
  <2>3. disk' = OutputGone BY <1>1, <1>12, <2>1, <2>2, OutputFacts DEF CloseFailed
  <2> QED BY <1>12, <2>1, <2>3 DEF CloseFailed, StreamStage
<1>13. CASE RemoveOutput
  <2>1. /\ disk \in {WithOutput("empty"), WithOutput("partial")} /\ file = OutputFile
        /\ result \in {"redactFailed", "cannotFinish"} /\ OptionsApart
    BY <1>1, <1>13 DEF RemoveOutput, StreamStage
  <2>2. disk' = OutputGone
    <3>1. CASE o.output = Std BY <1>3, <1>13, <2>1, <3>1, StandardOutput DEF RemoveOutput
    <3>2. CASE o.output # Std BY <1>1, <1>3, <1>13, <2>1, <3>2, OutputFacts DEF RemoveOutput
    <3> QED BY <3>1, <3>2
  <2> QED BY <1>13, <2>1, <2>2 DEF RemoveOutput, StreamStage
<1>14. CASE WriteStats
  <2>1. disk = WithOutput("complete") /\ result = "none" /\ pc = "stats" /\ OptionsApart
    BY <1>1, <1>14 DEF WriteStats, StreamStage
  <2>2. pc' = "done" /\ result' \in {"ok", "statsFailed"} BY <1>14 DEF WriteStats, Return
  <2>3. \/ disk' = WithOutput("complete")
        \/ o.stats \notin {None, Std} /\ disk' = WithStats
    BY <1>14, <2>1 DEF WriteStats, WithStats
  <2> QED BY <2>1, <2>2, <2>3 DEF StreamStage
<1> QED BY <1>5, <1>6, <1>7, <1>8, <1>9, <1>10, <1>11, <1>12, <1>13, <1>14 DEF StreamNext

(* What a name leads to that no check mistook for the output: the same as  *)
(* at the start, as long as only the output is written.                    *)
LEMMA OutputKeeps ==
    ASSUME disk0 \in Disks, o \in Invocations, o.output # Std,
           NEW m \in Names, Exists(disk0, m), ~SameFile(disk0, o.output, m),
           NEW c, NEW g, g = WithOutput(c)
    PROVE  /\ g.entry[m] = disk0.entry[m] /\ Exists(g, m) /\ FileAt(g, m) = FileAt(disk0, m)
           /\ OutputFile # FileAt(disk0, m) /\ FileAt(disk0, m) \in FileIds
           /\ g.holds[FileAt(disk0, m)] = "original"
<1>1. /\ o.output \in Names /\ WellFormed(disk0) /\ HasRoom(disk0)
      /\ g = Written(disk0, o.output, c) /\ FileAt(g, o.output) = OutputFile
  BY OutputFacts
<1>2. disk0.holds[FileAt(disk0, m)] = "original" BY DiskFacts
<1>3. FileAt(disk0, m) \notin Unused(disk0) BY <1>2 DEF Unused
<1>4. /\ g.entry[m] = disk0.entry[m] /\ Exists(g, m) /\ FileAt(g, m) = FileAt(disk0, m)
      /\ FileAt(g, o.output) # FileAt(disk0, m)
      /\ g.holds[FileAt(disk0, m)] = disk0.holds[FileAt(disk0, m)]
  BY <1>1, <1>3, WrittenKeeps
<1>5. FileAt(disk0, m) \in FileIds BY <1>1, Reaching
<1> QED BY <1>1, <1>2, <1>4, <1>5

(* The output is written, and a second file is to be: there is room.       *)
LEMMA RoomForStats ==
    ASSUME disk0 \in Disks, o \in Invocations, o.output # Std, NEW c, c # "unused"
    PROVE  /\ HasRoom(WithOutput(c))
           /\ \A i \in FileIds : WithOutput(c).holds[i] =
                IF i = OutputFile THEN c ELSE disk0.holds[i]
<1> DEFINE g == WithOutput(c)
<1>1. /\ o.output \in Names /\ WellFormed(disk0) /\ HasRoom(disk0) /\ OutputFile \in FileIds
      /\ g = Written(disk0, o.output, c) /\ FileAt(g, o.output) = OutputFile
  BY OutputFacts
<1> HIDE DEF g
<1>2. Wrote(disk0, o.output, c, g) BY <1>1, WrittenFacts
<1>3. g.holds = [disk0.holds EXCEPT ![OutputFile] = c] BY <1>1, <1>2 DEF Wrote
<1>4. DOMAIN disk0.holds = FileIds BY <1>1 DEF WellFormed
<1>5. \A i \in FileIds : g.holds[i] = IF i = OutputFile THEN c ELSE disk0.holds[i]
  BY <1>1, <1>3, <1>4
<1>6. PICK i, j \in Unused(disk0) : i # j BY DiskFacts
<1>7. i # OutputFile \/ j # OutputFile BY <1>6
<1>8. PICK k \in Unused(disk0) : k # OutputFile BY <1>6, <1>7
<1>9. k \in Unused(g) BY <1>5, <1>8 DEF Unused
<1> QED BY <1>5, <1>9 DEF g, HasRoom

(* The statistics do not go where the input is.                            *)
LEMMA StatsKeepInput ==
    ASSUME disk0 \in Disks, o \in Invocations, OptionsApart, o.stats \notin {None, Std},
           o.input # Std, Exists(disk0, o.input)
    PROVE  /\ WithStats.entry[o.input] = disk0.entry[o.input]
           /\ WithStats.holds[FileAt(disk0, o.input)] = "original"
<1> DEFINE in == o.input st == o.stats d == WithOutput("complete")
           k == FileAt(disk0, in)
<1>1. /\ in \in Names /\ st \in Names /\ WellFormed(disk0)
      /\ ~SameFile(disk0, st, in) /\ (o.output # Std => ~SameFile(disk0, o.output, in))
  <2>1. in \in Names /\ st \in Names BY OptionFacts
  <2>2. ~SameFile(disk0, st, in) BY DEF OptionsApart, Distinct
  <2>3. o.output # Std => ~SameFile(disk0, o.output, in) BY DEF OptionsApart, Distinct, SameFile
  <2>4. WellFormed(disk0) BY DiskFacts
  <2> QED BY <2>1, <2>2, <2>3, <2>4
<1>2. WithStats = Written(d, st, "stats") BY DEF WithStats, Written
<1>3. disk0.holds[k] = "original" BY <1>1, DiskFacts
<1> HIDE DEF d, k, in, st
<1>4. CASE o.output = Std
  <2>1. d = disk0 BY <1>4, StandardOutput DEF d
  <2>2. HasRoom(disk0) BY DiskFacts DEF HasRoom
  <2>3. FileAt(disk0, in) \notin Unused(disk0) BY <1>3 DEF Unused, k
  <2>4. /\ WithStats.entry[in] = disk0.entry[in]
        /\ WithStats.holds[FileAt(disk0, in)] = disk0.holds[FileAt(disk0, in)]
    BY <1>1, <1>2, <2>1, <2>2, <2>3, WrittenKeeps DEF in
  <2> QED BY <1>3, <2>4 DEF in, k
<1>5. CASE o.output # Std
  <2>1. /\ d.entry[in] = disk0.entry[in] /\ Exists(d, in) /\ FileAt(d, in) = k
        /\ OutputFile # k /\ k \in FileIds /\ d.holds[k] = "original"
    <3>1. Exists(disk0, in) BY DEF in
    <3> QED BY <1>1, <1>5, <3>1, OutputKeeps DEF d, k
  <2>2. /\ o.output \in Names /\ WellFormed(disk0) /\ HasRoom(disk0) /\ WellFormed(d)
        /\ d = Written(disk0, o.output, "complete") /\ FileAt(d, o.output) = OutputFile
    BY <1>5, OutputFacts DEF d
  <2>3. HasRoom(d) BY <1>5, RoomForStats DEF d
  <2>4. ~SameFile(d, st, in)
    <3> SUFFICES ASSUME Exists(d, st) PROVE FileAt(d, st) # k BY <2>1 DEF SameFile
    <3>1. \/ Exists(disk0, st) /\ FileAt(d, st) = FileAt(disk0, st)
          \/ FileAt(d, st) = FileAt(d, o.output)
      BY <1>1, <2>2, WrittenFiles
    <3>2. Exists(disk0, st) => FileAt(disk0, st) # k BY <1>1 DEF SameFile, k, in
    <3> QED BY <2>1, <2>2, <3>1, <3>2
  <2>5. FileAt(d, in) \notin Unused(d) BY <2>1 DEF Unused
  <2>6. /\ WithStats.entry[in] = d.entry[in]
        /\ WithStats.holds[FileAt(d, in)] = d.holds[FileAt(d, in)]
    BY <1>1, <1>2, <2>1, <2>2, <2>3, <2>4, <2>5, WrittenKeeps
  <2> QED BY <2>1, <2>6 DEF in, k
<1> QED BY <1>4, <1>5

LEMMA StreamKeepsInput == StreamInv => InputUntouched
<1> SUFFICES ASSUME StreamInv, o.input # Std, Exists(disk0, o.input)
             PROVE  /\ disk.holds[FileAt(disk0, o.input)] = "original"
                    /\ disk.entry[o.input] = disk0.entry[o.input]
  BY DEF InputUntouched
<1> DEFINE in == o.input k == FileAt(disk0, in)
<1>1. /\ disk0 \in Disks /\ o \in Invocations /\ StreamStage(pc, disk, file, result)
      /\ pc # "check" /\ result # "aliases" => OptionsApart
  BY DEF StreamInv
<1>2. in \in Names BY <1>1, OptionFacts
<1>3. disk0.holds[k] = "original" BY <1>1, <1>2, DiskFacts
<1>4. CASE disk = disk0 BY <1>3, <1>4
<1>5. ASSUME disk # disk0 PROVE OptionsApart BY <1>1, <1>5 DEF StreamStage
<1>6. ASSUME OptionsApart, o.output # Std, NEW c
      PROVE  /\ WithOutput(c).holds[k] = "original"
             /\ WithOutput(c).entry[in] = disk0.entry[in]
  <2>1. ~SameFile(disk0, o.output, in) BY <1>6 DEF OptionsApart, Distinct, SameFile
  <2> HIDE DEF in
  <2>2. Exists(disk0, in) BY DEF in
  <2> QED BY <1>1, <1>2, <1>6, <2>1, <2>2, OutputKeeps
<1>7. CASE o.output # Std /\ disk # disk0 /\ \E c : disk = WithOutput(c) BY <1>5, <1>6, <1>7
<1>8. CASE o.output # Std /\ disk # disk0 /\ disk = OutputGone
  <2>1. /\ o.output \in Names /\ WellFormed(WithOutput("empty"))
        /\ disk = Remove(WithOutput("empty"), o.output)
    BY <1>1, <1>8, OutputFacts
  <2>2. /\ disk.holds = WithOutput("empty").holds
        /\ disk.entry = [WithOutput("empty").entry EXCEPT ![o.output] = Absent]
    BY <2>1, RemoveFacts
  <2>3. in # o.output BY <1>5, <1>8 DEF OptionsApart, Distinct
  <2>4. disk.entry[in] = WithOutput("empty").entry[in]
    <3>1. DOMAIN WithOutput("empty").entry = Names BY <2>1 DEF WellFormed
    <3> HIDE DEF in
    <3> QED BY <1>2, <2>2, <2>3, <3>1
  <2> QED BY <1>5, <1>6, <1>8, <2>2, <2>4
<1>9. CASE o.stats \notin {None, Std} /\ disk # disk0 /\ disk = WithStats
  BY <1>1, <1>5, <1>9, StatsKeepInput
<1>10. CASE o.output = Std /\ ~(o.stats \notin {None, Std} /\ disk = WithStats)
  <2>1. disk = disk0 BY <1>1, <1>10, StandardOutput DEF StreamStage
  <2> QED BY <1>4, <2>1
<1>11. \/ disk = disk0 \/ disk = OutputGone \/ \E c : disk = WithOutput(c)
       \/ o.stats \notin {None, Std} /\ disk = WithStats
  BY <1>1 DEF StreamStage
<1> QED BY <1>4, <1>7, <1>8, <1>9, <1>10, <1>11

LEMMA StreamFailsClean == StreamInv => FailureLeavesNothing
<1> SUFFICES ASSUME StreamInv, pc = "done", result \notin {"ok", "statsFailed"}, NEW i \in FileIds
             PROVE  disk.holds[i] \notin {"partial", "complete"}
  BY DEF FailureLeavesNothing
<1>1. disk0 \in Disks /\ o \in Invocations /\ StreamStage(pc, disk, file, result) BY DEF StreamInv
<1>2. disk = disk0 \/ disk = OutputGone BY <1>1 DEF StreamStage
<1>3. disk0.holds[i] \in {"original", "unused"} BY <1>1, DiskFacts
<1>4. CASE disk = disk0 BY <1>3, <1>4
<1>5. CASE o.output = Std /\ disk = OutputGone BY <1>3, <1>5, StandardOutput
<1>6. CASE o.output # Std /\ disk = OutputGone
  <2>1. /\ o.output \in Names /\ WellFormed(WithOutput("empty"))
        /\ disk = Remove(WithOutput("empty"), o.output)
    BY <1>1, <1>6, OutputFacts
  <2>2. disk.holds = WithOutput("empty").holds BY <2>1, RemoveFacts
  <2>3. WithOutput("empty").holds[i] = IF i = OutputFile THEN "empty" ELSE disk0.holds[i]
    BY <1>1, <1>6, RoomForStats
  <2> QED BY <1>3, <2>2, <2>3
<1> QED BY <1>2, <1>4, <1>5, <1>6

LEMMA StreamOutputSurvives == StreamInv => OutputSurvivesWithoutDanglingLinks
<1> SUFFICES ASSUME StreamInv, NoDanglingLinks(disk0), pc = "done",
                    result \in {"ok", "statsFailed"}, o.output # Std
             PROVE  Exists(disk, o.output) /\ disk.holds[FileAt(disk, o.output)] = "complete"
  BY DEF OutputSurvivesWithoutDanglingLinks, OutputSurvives
<1> DEFINE d == WithOutput("complete") out == o.output st == o.stats
<1>1. /\ disk0 \in Disks /\ o \in Invocations /\ OptionsApart
      /\ disk = d \/ (st \notin {None, Std} /\ disk = WithStats)
  <2>1. /\ disk0 \in Disks /\ o \in Invocations /\ StreamStage(pc, disk, file, result)
        /\ pc # "check" /\ result # "aliases" => OptionsApart
    BY DEF StreamInv
  <2>2. OptionsApart BY <2>1
  <2>3. StreamStage("done", disk, file, result) BY <2>1
  <2>4. \/ disk = WithOutput("complete")
        \/ o.stats \notin {None, Std} /\ disk = WithStats
    BY <2>3 DEF StreamStage
  <2> QED BY <2>1, <2>2, <2>4
<1>2. /\ out \in Names /\ OutputFile \in FileIds /\ WellFormed(disk0) /\ HasRoom(disk0)
      /\ d = Written(disk0, out, "complete") /\ WellFormed(d) /\ FileAt(d, out) = OutputFile
  BY <1>1, OutputFacts
<1>3. HasRoom(d) /\ d.holds[OutputFile] = "complete" BY <1>1, <1>2, RoomForStats
<1> HIDE DEF d, out, st
<1>4. Wrote(disk0, out, "complete", d) BY <1>2, WrittenFacts
<1>5. /\ Exists(d, out) /\ \A m \in Names : Reached(d, m) = Reached(disk0, m)
      /\ \/ Exists(disk0, out) /\ OutputFile = FileAt(disk0, out)
         \/ ~Exists(disk0, out) /\ OutputFile \in Unused(disk0)
  BY <1>2, <1>4 DEF Wrote
<1>6. CASE disk = d BY <1>2, <1>3, <1>5, <1>6 DEF out
<1>7. CASE st \notin {None, Std} /\ disk = WithStats
  <2>1. /\ st \in Names /\ disk = Written(d, st, "stats")
        /\ st # out /\ ~SameFile(disk0, st, out)
    BY <1>1, <1>7, OptionFacts DEF WithStats, Written, OptionsApart, Distinct, d, out, st
  <2>2. ~SameFile(d, st, out)
    <3> SUFFICES ASSUME Exists(d, st) PROVE FileAt(d, st) # OutputFile BY <1>2 DEF SameFile
    <3>1. \/ Exists(disk0, st) /\ FileAt(d, st) = FileAt(disk0, st)
          \/ ~Exists(disk0, st) /\ Reached(disk0, st) = Reached(disk0, out)
      BY <1>2, <2>1, WrittenFiles
    <3>2. CASE Exists(disk0, st) /\ FileAt(d, st) = FileAt(disk0, st)
      <4>1. CASE Exists(disk0, out) BY <1>5, <2>1, <3>2, <4>1 DEF SameFile
      <4>2. CASE ~Exists(disk0, out)
        <5>1. disk0.holds[FileAt(disk0, st)] = "original" BY <1>1, <2>1, <3>2, DiskFacts
        <5>2. disk0.holds[OutputFile] = "unused" BY <1>5, <4>2 DEF Unused
        <5> QED BY <3>2, <5>1, <5>2
      <4> QED BY <4>1, <4>2
    <3>3. CASE ~Exists(disk0, st) /\ Reached(disk0, st) = Reached(disk0, out)
      <4>1. disk0.entry[st].kind # "link" BY <2>1, <3>3 DEF NoDanglingLinks
      <4>2. Reached(disk0, st) = st BY <4>1 DEF Reached
      <4>3. Reached(disk0, out) # out BY <2>1, <3>3, <4>2
      <4>4. disk0.entry[out].kind = "link" BY <4>3 DEF Reached
      <4>5. Exists(disk0, out) BY <1>2, <4>4 DEF NoDanglingLinks
      <4>6. Exists(disk0, st) BY <3>3, <4>5 DEF Exists
      <4> QED BY <3>3, <4>6
    <3> QED BY <3>1, <3>2, <3>3
  <2>3. FileAt(d, out) \notin Unused(d) BY <1>2, <1>3 DEF Unused
  <2>4. /\ Exists(disk, out) /\ FileAt(disk, out) = FileAt(d, out)
        /\ disk.holds[FileAt(d, out)] = d.holds[FileAt(d, out)]
    BY <1>2, <1>3, <1>5, <2>1, <2>2, <2>3, WrittenKeeps
  <2> QED BY <1>2, <1>3, <2>4 DEF out
<1> QED BY <1>1, <1>6, <1>7

----------------------------------------------------------------------------
(* The report.                                                             *)

LEMMA ReplaceFacts ==
    ASSUME NEW fs, WellFormed(fs), NEW n \in Names, NEW e \in Entry,
           NEW g, g = [fs EXCEPT !.entry[n] = e], NoLinkChains(g)
    PROVE  /\ WellFormed(g) /\ g.holds = fs.holds
           /\ \A m \in Names : m # n => g.entry[m] = fs.entry[m]
<1> DEFINE f == [fs.entry EXCEPT ![n] = e]
           w == [entry |-> f, holds |-> fs.holds]
<1>1. g = w BY DEF WellFormed
<1>2. DOMAIN fs.holds = FileIds /\ fs.entry \in [Names -> Entry] BY DEF WellFormed
<1>3. f \in [Names -> Entry] /\ \A m \in Names : m # n => f[m] = fs.entry[m] BY <1>2
<1> HIDE DEF f
<1>4. w.entry = f /\ w.holds = fs.holds /\ w = [entry |-> w.entry, holds |-> w.holds] OBVIOUS
<1> HIDE DEF w
<1> QED BY <1>1, <1>2, <1>3, <1>4 DEF WellFormed

(* Others only take names away, but for the report's own.                  *)
LEMMA DisturbKeeps ==
    ASSUME ReportInv, UNCHANGED <<disk0, name, pc, paths, unchecked, file, result>>,
           WellFormed(disk'), disk'.holds = disk.holds,
           \A m \in Names \ {name} : disk'.entry[m] \in {disk.entry[m], Absent}
    PROVE  ReportInv'
<1>1. Tracked' BY DEF ReportInv, Tracked
<1>2. OnlyReportWritten' BY DEF ReportInv, OnlyReportWritten
<1>3. NotWrittenYet => NotWrittenYet' BY DEF NotWrittenYet
<1>4. ComparedApart => ComparedApart'
  <2> SUFFICES ASSUME ComparedApart, NEW n \in paths \ unchecked PROVE disk'.entry[n] # File(file)
    BY DEF ComparedApart
  <2>1. n \in Names \ {name} BY ReportAssumption DEF ReportInv
  <2>2. disk.entry[n] # File(file) BY DEF ComparedApart
  <2> QED BY <2>1, <2>2, KindsDiffer
<1>5. /\ disk0' \in Disks /\ name' \in ReportNames /\ WellFormed(disk)'
      /\ paths' \subseteq Tree \ {name'} /\ unchecked' \subseteq paths'
      /\ \A n \in paths' : disk0'.entry[n].kind = "file"
  BY DEF ReportInv
<1>6. (\/ pc \in {"enumerate", "scan", "open"} /\ unchecked = {}
       \/ pc = "refuse" /\ file \in FileIds /\ NotWrittenYet /\ ComparedApart
       \/ pc \in {"write", "cleanup"} /\ file \in FileIds /\ unchecked = {} /\ ComparedApart
       \/ pc = "done" /\ result \in {"ok", "cannotWrite"} /\ unchecked = {} /\ ComparedApart
       \/ /\ pc = "done" /\ NotWrittenYet
          /\ result \in {"aliases", "scanFailed", "cannotOpen", "refused", "cannotTruncate"})'
  BY <1>3, <1>4 DEF ReportInv
<1> QED BY <1>1, <1>2, <1>5, <1>6 DEF ReportInv

LEMMA DisturbStep ==
    ASSUME ReportInv, Disturb
    PROVE  ReportInv'
<1>1. WellFormed(disk) /\ name \in Names BY ReportAssumption DEF ReportInv
<1>2. CASE \E n \in {m \in Names \ {name} : Exists(disk, m)} :
             \E e \in {File(FileAt(disk, n)), Link(n)} :
                NoChains([disk EXCEPT !.entry[name] = e])
  <2>0. PICK n \in {m \in Names \ {name} : Exists(disk, m)} :
           \E e \in {File(FileAt(disk, n)), Link(n)} :
              NoChains([disk EXCEPT !.entry[name] = e])
    BY <1>2
  <2>1. PICK e \in {File(FileAt(disk, n)), Link(n)} :
           NoChains([disk EXCEPT !.entry[name] = e])
    BY <2>0
  <2>2. e \in Entry
    <3>1. FileAt(disk, n) \in FileIds BY <1>1, <2>1, Reaching
    <3> QED BY <3>1 DEF Entry
  <2>3. disk' = [disk EXCEPT !.entry[name] = e] /\ NoLinkChains(disk') BY <2>1 DEF NoChains
  <2>4. /\ WellFormed(disk') /\ disk'.holds = disk.holds
        /\ \A m \in Names : m # name => disk'.entry[m] = disk.entry[m]
    BY <1>1, <2>2, <2>3, ReplaceFacts
  <2>5. UNCHANGED <<disk0, name, pc, paths, unchecked, file, result>> BY DEF Disturb
  <2> QED BY <2>4, <2>5, DisturbKeeps
<1>3. CASE \E n \in Tree \ {name} : disk' = Remove(disk, n)
  <2>1. PICK n \in Names : disk' = Remove(disk, n) BY <1>3, ReportAssumption
  <2>2. /\ WellFormed(disk') /\ disk'.holds = disk.holds
        /\ disk'.entry = [disk.entry EXCEPT ![n] = Absent]
    BY <1>1, <2>1, RemoveFacts
  <2>3. DOMAIN disk.entry = Names BY <1>1 DEF WellFormed
  <2>4. \A m \in Names : disk'.entry[m] \in {disk.entry[m], Absent} BY <2>2, <2>3
  <2>5. UNCHANGED <<disk0, name, pc, paths, unchecked, file, result>> BY DEF Disturb
  <2> QED BY <2>2, <2>4, <2>5, DisturbKeeps
<1> QED BY <1>2, <1>3 DEF Disturb

(* Before the report is opened nothing has been written.                   *)
LEMMA NothingWritten ==
    ASSUME ReportInv, file = 0
    PROVE  /\ \A i \in FileIds : disk.holds[i] = disk0.holds[i]
           /\ NotWrittenYet
           /\ Unused(disk) = Unused(disk0)
<1>1. \A i \in FileIds : i # 0 BY DisksAssumption
<1>2. \A i \in FileIds : disk.holds[i] = disk0.holds[i] BY <1>1 DEF ReportInv, OnlyReportWritten
<1> QED BY <1>2 DEF NotWrittenYet, Unused

LEMMA EnumerateStep ==
    ASSUME ReportInv, Enumerate
    PROVE  ReportInv'
<1>1. pc = "enumerate" /\ unchecked = {} /\ file = 0
  BY DEF Enumerate, ReportInv, OnlyReportWritten
<1>2. UNCHANGED <<disk0, disk, name, unchecked, file>> BY DEF Enumerate
<1>3. \/ pc' = "scan" /\ result' = result
      \/ pc' = "done" /\ result' = "aliases"
  BY DEF Enumerate, Goto, Return
<1>4. paths' \subseteq Tree \ {name} /\ \A n \in paths' : disk.entry[n].kind = "file"
  BY DEF Enumerate, RegularFiles
<1>5. \A n \in paths' : disk0.entry[n].kind = "file"
  <2> SUFFICES ASSUME NEW n \in paths' PROVE disk0.entry[n].kind = "file" OBVIOUS
  <2>1. n \in Names \ {name} BY <1>4, ReportAssumption
  <2>2. disk.entry[n] \in {disk0.entry[n], Absent} BY <1>1, <2>1 DEF ReportInv, Tracked
  <2> QED BY <1>4, <2>2, KindsDiffer
<1>6. Tracked' BY <1>1, <1>2 DEF ReportInv, Tracked
<1>7. OnlyReportWritten' BY <1>1, <1>2 DEF ReportInv, OnlyReportWritten
<1>8. NotWrittenYet' BY <1>1, <1>2, NothingWritten DEF NotWrittenYet
<1>9. WellFormed(disk)' BY <1>2 DEF ReportInv
<1>10. disk0' \in Disks /\ name' \in ReportNames BY <1>2 DEF ReportInv
<1> QED BY <1>1, <1>2, <1>3, <1>4, <1>5, <1>6, <1>7, <1>8, <1>9, <1>10 DEF ReportInv

LEMMA ScanStep ==
    ASSUME ReportInv, Scan
    PROVE  ReportInv'
<1>1. pc = "scan" /\ unchecked = {} /\ file = 0
  BY DEF Scan, ReportInv, OnlyReportWritten
<1>2. UNCHANGED <<disk0, disk, name, paths, unchecked, file>> BY DEF Scan
<1>3. \/ pc' = "open" /\ result' = result
      \/ pc' = "done" /\ result' = "scanFailed"
  BY DEF Scan, Goto, Return
<1>6. Tracked' BY <1>1, <1>2 DEF ReportInv, Tracked
<1>7. OnlyReportWritten' BY <1>1, <1>2 DEF ReportInv, OnlyReportWritten
<1>8. NotWrittenYet' BY <1>1, <1>2, NothingWritten DEF NotWrittenYet
<1>9. WellFormed(disk)' BY <1>2 DEF ReportInv
<1>10. /\ disk0' \in Disks /\ name' \in ReportNames
       /\ paths' \subseteq Tree \ {name'} /\ \A n \in paths' : disk0'.entry[n].kind = "file"
  BY <1>2 DEF ReportInv
<1> QED BY <1>1, <1>2, <1>3, <1>6, <1>7, <1>8, <1>9, <1>10 DEF ReportInv

(* Opened where it leads: an existing file, or a new one nobody had.       *)
LEMMA OpenStep ==
    ASSUME ReportInv, Open
    PROVE  ReportInv'
<1>1. pc = "open" /\ unchecked = {} /\ file = 0
  BY DEF Open, ReportInv, OnlyReportWritten
<1>2. UNCHANGED <<disk0, name, paths>> BY DEF Open
<1>3. /\ disk0 \in Disks /\ name \in ReportNames /\ WellFormed(disk)
      /\ paths \subseteq Tree \ {name} /\ \A n \in paths : disk0.entry[n].kind = "file"
  BY DEF ReportInv
<1>4. name \in Names BY <1>3, ReportAssumption
<1>5. /\ \A i \in FileIds : disk.holds[i] = disk0.holds[i]
      /\ NotWrittenYet /\ Unused(disk) = Unused(disk0)
  BY <1>1, NothingWritten
<1>6. \A i \in FileIds : disk.holds[i] \in {"original", "unused"} BY <1>3, <1>5, DiskFacts
<1>7. \A n \in Names \ {name} : disk.entry[n] \in {disk0.entry[n], Absent}
  BY <1>1 DEF ReportInv, Tracked
<1>8. CASE Return("cannotOpen") /\ UNCHANGED <<disk, unchecked, file>>
  <2>1. Tracked' BY <1>2, <1>7, <1>8 DEF Tracked
  <2>2. OnlyReportWritten' BY <1>1, <1>2, <1>8 DEF ReportInv, OnlyReportWritten
  <2>3. NotWrittenYet' BY <1>2, <1>5, <1>8 DEF NotWrittenYet
  <2>4. WellFormed(disk)' BY <1>3, <1>8
  <2>5. pc' = "done" /\ result' = "cannotOpen" /\ unchecked' = {} BY <1>1, <1>8 DEF Return
  <2> QED BY <1>2, <1>3, <2>1, <2>2, <2>3, <2>4, <2>5 DEF ReportInv
<1>9. CASE /\ disk' = Created(disk, name, "empty") /\ file' = FileAt(disk', name)
           /\ unchecked' = paths /\ Goto("refuse")
  <2>1. HasRoom(disk) BY <1>3, <1>5, DiskFacts DEF HasRoom
  <2>2. Opens(disk, name, "empty", disk') BY <1>3, <1>4, <1>9, <2>1, CreatedFacts
  <2>3. /\ WellFormed(disk') /\ file' \in FileIds
        /\ \A m \in Names : m # Reached(disk, name) => disk'.entry[m] = disk.entry[m]
        /\ disk'.entry[Reached(disk, name)] = File(file')
        /\ \/ disk' = disk
           \/ /\ file' \in Unused(disk)
              /\ disk'.holds = [disk.holds EXCEPT ![file'] = "empty"]
    BY <1>9, <2>2 DEF Opens
  <2>4. \A i \in FileIds : disk'.holds[i] =
           IF i = file' /\ disk' # disk THEN "empty" ELSE disk.holds[i]
    <3>1. DOMAIN disk.holds = FileIds BY <1>3 DEF WellFormed
    <3> QED BY <2>3, <3>1
  <2>5. Tracked'
    <3> SUFFICES ASSUME NEW n \in Names \ {name}
                 PROVE  \/ disk'.entry[n] \in {disk0.entry[n], Absent}
                        \/ \E i \in Unused(disk0) : disk'.entry[n] = File(i)
      BY <1>2, <1>9 DEF Tracked, Goto
    <3>1. CASE disk' = disk BY <1>7, <3>1
    <3>2. CASE n = Reached(disk, name) /\ file' \in Unused(disk) BY <1>5, <2>3, <3>2
    <3>3. CASE n # Reached(disk, name) BY <1>7, <2>3, <3>3
    <3> QED BY <2>3, <3>1, <3>2, <3>3
  <2>6. OnlyReportWritten'
    <3>1. \A i \in FileIds :
             IF i = file' THEN disk'.holds[i] \in {disk0.holds[i], "empty", "report", "partialReport"}
                          ELSE disk'.holds[i] = disk0.holds[i]
      <4> SUFFICES ASSUME NEW i \in FileIds
                   PROVE  IF i = file' THEN disk'.holds[i] \in {disk0.holds[i], "empty", "report", "partialReport"}
                                       ELSE disk'.holds[i] = disk0.holds[i]
        OBVIOUS
      <4>1. CASE i # file' BY <1>5, <2>4, <4>1
      <4>2. CASE i = file' /\ disk' # disk BY <2>4, <4>2
      <4>3. CASE i = file' /\ disk' = disk BY <1>5, <4>3
      <4> QED BY <4>1, <4>2, <4>3
    <3> QED BY <1>2, <1>9, <3>1 DEF OnlyReportWritten, Goto
  <2>7. NotWrittenYet'
    <3> SUFFICES ASSUME NEW i \in FileIds, disk0.holds[i] = "original"
                 PROVE  disk'.holds[i] = "original"
      BY <1>2 DEF NotWrittenYet
    <3>1. disk.holds[i] = "original" BY <1>5
    <3>2. i \notin Unused(disk) BY <3>1 DEF Unused
    <3> QED BY <2>3, <2>4, <3>1, <3>2
  <2>8. ComparedApart' BY <1>2, <1>9 DEF ComparedApart
  <2>9. pc' = "refuse" /\ unchecked' = paths BY <1>9 DEF Goto
  <2>10. WellFormed(disk)' BY <2>3
  <2> QED BY <1>2, <1>3, <2>3, <2>5, <2>6, <2>7, <2>8, <2>9, <2>10 DEF ReportInv
<1> QED BY <1>8, <1>9 DEF Open

LEMMA RefuseStep ==
    ASSUME ReportInv, Refuse
    PROVE  ReportInv'
<1>1. pc = "refuse" /\ file \in FileIds /\ NotWrittenYet /\ ComparedApart
  BY DEF Refuse, ReportInv
<1>2. UNCHANGED <<disk0, disk, name, paths, file>> BY DEF Refuse
<1>3. /\ disk0 \in Disks /\ name \in ReportNames /\ WellFormed(disk)
      /\ paths \subseteq Tree \ {name} /\ unchecked \subseteq paths
      /\ \A n \in paths : disk0.entry[n].kind = "file"
  BY DEF ReportInv
<1>4. PICK n \in unchecked :
         /\ unchecked' = unchecked \ {n}
         /\ IF Exists(disk, n) /\ FileAt(disk, n) = file
            THEN Return("refused")
            ELSE UNCHANGED <<pc, result>>
  BY DEF Refuse
<1>5. \/ pc' = "done" /\ result' = "refused"
      \/ pc' = "refuse" /\ ~(Exists(disk, n) /\ FileAt(disk, n) = file)
  BY <1>1, <1>4 DEF Return
<1>6. Tracked' BY <1>1, <1>2, <1>5 DEF ReportInv, Tracked
<1>7. OnlyReportWritten' BY <1>1, <1>2, <1>5 DEF ReportInv, OnlyReportWritten
<1>8. NotWrittenYet' BY <1>1, <1>2 DEF NotWrittenYet
<1>9. ASSUME ~(Exists(disk, n) /\ FileAt(disk, n) = file)
      PROVE  ComparedApart'
  <2> SUFFICES ASSUME NEW m \in paths \ unchecked' PROVE disk.entry[m] # File(file)
    BY <1>2 DEF ComparedApart
  <2>1. CASE m \notin unchecked BY <1>1, <2>1 DEF ComparedApart
  <2>2. CASE m = n
    <3> SUFFICES ASSUME disk.entry[n] = File(file) PROVE FALSE BY <2>2
    <3>1. disk.entry[n].kind = "file" /\ disk.entry[n].id = file BY KindsDiffer
    <3>2. Reached(disk, n) = n BY <3>1 DEF Reached
    <3> QED BY <1>9, <3>1, <3>2 DEF Exists, FileAt
  <2> QED BY <1>4, <2>1, <2>2
<1>10. unchecked' \subseteq paths BY <1>3, <1>4
<1>11. /\ disk0' \in Disks /\ name' \in ReportNames /\ WellFormed(disk)'
       /\ paths' \subseteq Tree \ {name'} /\ unchecked' \subseteq paths'
       /\ \A m \in paths' : disk0'.entry[m].kind = "file"
  BY <1>2, <1>3, <1>10
<1>12. file' \in FileIds BY <1>1, <1>2
<1> QED BY <1>5, <1>6, <1>7, <1>8, <1>9, <1>11, <1>12 DEF ReportInv

(* The report's file is written, whatever was in it before.                *)
LEMMA ReportWritten ==
    ASSUME ReportInv, file \in FileIds, pc \notin {"enumerate", "scan", "open"},
           NEW c \in {"empty", "report", "partialReport"}, disk' = Write(disk, file, c),
           UNCHANGED <<disk0, name, paths, unchecked, file>>,
           pc' \notin {"enumerate", "scan", "open"}
    PROVE  /\ Tracked' /\ OnlyReportWritten' /\ WellFormed(disk)'
           /\ ComparedApart => ComparedApart'
<1>1. /\ WellFormed(disk') /\ disk'.entry = disk.entry
      /\ disk'.holds = [disk.holds EXCEPT ![file] = c]
  BY WriteFacts DEF ReportInv
<1>2. DOMAIN disk.holds = FileIds BY DEF ReportInv, WellFormed
<1>3. \A i \in FileIds : disk'.holds[i] = IF i = file THEN c ELSE disk.holds[i] BY <1>1, <1>2
<1>4. Tracked' BY <1>1 DEF ReportInv, Tracked
<1>5. OnlyReportWritten' BY <1>3 DEF ReportInv, OnlyReportWritten
<1>6. ComparedApart => ComparedApart' BY <1>1 DEF ComparedApart
<1> QED BY <1>1, <1>4, <1>5, <1>6

LEMMA TruncateStep ==
    ASSUME ReportInv, Truncate
    PROVE  ReportInv'
<1>1. pc = "refuse" /\ file \in FileIds /\ NotWrittenYet /\ ComparedApart /\ unchecked = {}
  BY DEF Truncate, ReportInv
<1>2. UNCHANGED <<disk0, name, paths, unchecked, file>> BY DEF Truncate
<1>3. /\ disk0' \in Disks /\ name' \in ReportNames
      /\ paths' \subseteq Tree \ {name'} /\ unchecked' \subseteq paths'
      /\ \A n \in paths' : disk0'.entry[n].kind = "file"
  BY <1>2 DEF ReportInv
<1>4. CASE disk' = Write(disk, file, "empty") /\ Goto("write")
  <2>1. pc' = "write" BY <1>4 DEF Goto
  <2>2. Tracked' /\ OnlyReportWritten' /\ WellFormed(disk)' /\ ComparedApart'
    BY <1>1, <1>2, <1>4, <2>1, ReportWritten
  <2> QED BY <1>1, <1>2, <1>3, <2>1, <2>2 DEF ReportInv
<1>5. CASE Return("cannotTruncate") /\ UNCHANGED disk
  <2>1. pc' = "done" /\ result' = "cannotTruncate" BY <1>5 DEF Return
  <2>2. Tracked' BY <1>1, <1>2, <1>5, <2>1 DEF ReportInv, Tracked
  <2>3. OnlyReportWritten' BY <1>1, <1>2, <1>5, <2>1 DEF ReportInv, OnlyReportWritten
  <2>4. NotWrittenYet' BY <1>1, <1>2, <1>5 DEF NotWrittenYet
  <2>5. WellFormed(disk)' BY <1>5 DEF ReportInv
  <2> QED BY <1>3, <2>1, <2>2, <2>3, <2>4, <2>5 DEF ReportInv
<1> QED BY <1>4, <1>5 DEF Truncate

LEMMA WriteAndCloseStep ==
    ASSUME ReportInv, WriteAndClose
    PROVE  ReportInv'
<1>1. pc = "write" /\ file \in FileIds /\ ComparedApart /\ unchecked = {}
  BY DEF WriteAndClose, ReportInv
<1>2. UNCHANGED <<disk0, name, paths, unchecked, file>> BY DEF WriteAndClose
<1>3. /\ disk0' \in Disks /\ name' \in ReportNames
      /\ paths' \subseteq Tree \ {name'} /\ unchecked' \subseteq paths'
      /\ \A n \in paths' : disk0'.entry[n].kind = "file"
  BY <1>2 DEF ReportInv
<1>4. /\ disk' = Write(disk, file, "report") \/ disk' = Write(disk, file, "partialReport")
      /\ (pc' = "done" /\ result' = "ok") \/ pc' = "cleanup"
  BY DEF WriteAndClose, Return, Goto
<1>5. PICK c \in {"empty", "report", "partialReport"} : disk' = Write(disk, file, c) BY <1>4
<1>6. Tracked' /\ OnlyReportWritten' /\ WellFormed(disk)' /\ ComparedApart'
  BY <1>1, <1>2, <1>4, <1>5, ReportWritten
<1> QED BY <1>1, <1>2, <1>3, <1>4, <1>6 DEF ReportInv

LEMMA RemoveReportStep ==
    ASSUME ReportInv, RemoveReport
    PROVE  ReportInv'
<1>1. pc = "cleanup" /\ file \in FileIds /\ ComparedApart /\ unchecked = {}
  BY DEF RemoveReport, ReportInv
<1>2. UNCHANGED <<disk0, name, paths, unchecked, file>> BY DEF RemoveReport
<1>3. /\ disk0' \in Disks /\ name' \in ReportNames
      /\ paths' \subseteq Tree \ {name'} /\ unchecked' \subseteq paths'
      /\ \A n \in paths' : disk0'.entry[n].kind = "file"
  BY <1>2 DEF ReportInv
<1>4. pc' = "done" /\ result' = "cannotWrite" BY DEF RemoveReport, Return
<1>5. /\ WellFormed(disk') /\ disk'.holds = disk.holds
      /\ disk'.entry = [disk.entry EXCEPT ![name] = Absent]
  BY RemoveFacts, ReportAssumption DEF RemoveReport, ReportInv
<1>6. \A n \in Names \ {name} : disk'.entry[n] = disk.entry[n]
  BY <1>5 DEF ReportInv, WellFormed
<1>7. Tracked' BY <1>1, <1>2, <1>4, <1>6 DEF ReportInv, Tracked
<1>8. OnlyReportWritten' BY <1>2, <1>4, <1>5 DEF ReportInv, OnlyReportWritten
<1>9. ComparedApart'
  <2>1. paths \subseteq Names \ {name} BY ReportAssumption DEF ReportInv
  <2> QED BY <1>1, <1>2, <1>6, <2>1 DEF ComparedApart
<1> QED BY <1>1, <1>2, <1>3, <1>4, <1>5, <1>7, <1>8, <1>9 DEF ReportInv

(* What the report's invariant says of the inputs, and of a refusal.       *)
LEMMA ReportKeepsTree == ReportInv => TreeUntouched
<1> SUFFICES ASSUME ReportInv, NEW n \in paths, disk.entry[n] = disk0.entry[n]
             PROVE  disk.holds[FileAt(disk, n)] = "original"
  BY DEF TreeUntouched
<1> DEFINE k == FileAt(disk, n)
<1>1. n \in Names /\ disk0 \in Disks /\ WellFormed(disk) BY ReportAssumption DEF ReportInv
<1>2. disk0.entry[n].kind = "file" BY DEF ReportInv
<1>3. /\ Reached(disk, n) = n /\ Reached(disk0, n) = n
      /\ Exists(disk0, n) /\ Exists(disk, n) /\ k = FileAt(disk0, n)
  BY <1>2 DEF Reached, Exists, FileAt
<1>4. disk0.holds[k] = "original" BY <1>1, <1>3, DiskFacts
<1>5. k \in FileIds /\ disk.entry[n] = File(k) BY <1>1, <1>3, Reaching
<1> HIDE DEF k
<1>6. CASE NotWrittenYet BY <1>4, <1>5, <1>6 DEF NotWrittenYet, k
<1>7. CASE file = 0 BY <1>4, <1>5, <1>7, NothingWritten DEF k
<1>8. CASE ComparedApart /\ unchecked = {}
  <2>1. k # file BY <1>5, <1>8 DEF ComparedApart
  <2>2. disk.holds[k] = disk0.holds[k] BY <1>5, <2>1 DEF ReportInv, OnlyReportWritten
  <2> QED BY <1>4, <2>2 DEF k
<1>9. file = 0 \/ NotWrittenYet \/ (ComparedApart /\ unchecked = {})
  BY DEF ReportInv, OnlyReportWritten
<1> QED BY <1>6, <1>7, <1>8, <1>9 DEF k

LEMMA ReportKeptOnRefusal == ReportInv => RefusalKeepsReport
<1> SUFFICES ASSUME ReportInv, pc = "done",
                    result \in {"aliases", "scanFailed", "cannotOpen", "refused", "cannotTruncate"},
                    NEW n \in Names, disk.entry[n].kind = "file", disk.entry[n] = disk0.entry[n]
             PROVE  disk.holds[disk.entry[n].id] = "original"
  BY DEF RefusalKeepsReport
<1>1. disk0 \in Disks /\ WellFormed(disk) /\ NotWrittenYet BY DEF ReportInv
<1>2. Reached(disk0, n) = n /\ Exists(disk0, n) /\ FileAt(disk0, n) = disk.entry[n].id
  BY DEF Reached, Exists, FileAt
<1>3. disk0.holds[disk.entry[n].id] = "original" BY <1>1, <1>2, DiskFacts
<1>4. disk.entry[n].id \in FileIds BY <1>1, <1>2, DiskFacts, Reaching
<1> QED BY <1>1, <1>3, <1>4 DEF NotWrittenYet

LEMMA ReportIsNoOutput == ReportInv => FailureLeavesNothing
<1> SUFFICES ASSUME ReportInv, NEW i \in FileIds
             PROVE  disk.holds[i] \notin {"partial", "complete"}
  BY DEF FailureLeavesNothing
<1>1. disk0.holds[i] \in {"original", "unused"} BY DiskFacts DEF ReportInv
<1>2. disk.holds[i] \in {disk0.holds[i], "empty", "report", "partialReport"}
  BY DEF ReportInv, OnlyReportWritten
<1> QED BY <1>1, <1>2

----------------------------------------------------------------------------
(* Both commands.                                                          *)

LEMMA CommandsInit == Init => CommandsInv
<1> SUFFICES ASSUME Init PROVE CommandsInv OBVIOUS
<1>1. /\ disk0 \in Disks /\ disk = disk0 /\ file = 0 /\ result = "none"
      /\ \/ command = "stream" /\ pc = "check" /\ o \in Invocations /\ NoReport
         \/ /\ command = "dir" /\ pc = "enumerate" /\ name \in ReportNames
            /\ paths = {} /\ unchecked = {} /\ o = NoOptions
  BY DEF Init, StreamInit, ReportInit, Start
<1>2. CASE command = "stream"
  BY <1>1, <1>2 DEF CommandsInv, StreamInv, StreamStage
<1>3. CASE command = "dir"
  <2>1. WellFormed(disk) BY <1>1, DiskFacts
  <2>2. Tracked BY <1>1 DEF Tracked
  <2>3. OnlyReportWritten
    <3>1. \A i \in FileIds : i # 0 BY DisksAssumption
    <3> QED BY <1>1, <3>1 DEF OnlyReportWritten
  <2> QED BY <1>1, <1>3, <2>1, <2>2, <2>3 DEF CommandsInv, ReportInv
<1> QED BY <1>1, <1>2, <1>3

LEMMA ReportStep ==
    ASSUME ReportInv, ReportNext
    PROVE  ReportInv'
BY DisturbStep, EnumerateStep, ScanStep, OpenStep, RefuseStep, TruncateStep,
   WriteAndCloseStep, RemoveReportStep DEF ReportNext

LEMMA CommandsStep == CommandsInv /\ [Next]_vars => CommandsInv'
<1> SUFFICES ASSUME CommandsInv, [Next]_vars PROVE CommandsInv' OBVIOUS
<1>1. CASE RunStream
  <2>1. command = "stream" /\ StreamInv /\ NoReport BY <1>1 DEF RunStream, CommandsInv
  <2>2. StreamInv' BY <1>1, <2>1, StreamStep DEF RunStream
  <2>3. command' = "stream" /\ NoReport' BY <1>1, <2>1 DEF RunStream, reportVars, NoReport
  <2> QED BY <2>2, <2>3 DEF CommandsInv
<1>2. CASE RunDir
  <2>1. command = "dir" /\ ReportInv /\ o = NoOptions BY <1>2 DEF RunDir, CommandsInv
  <2>2. ReportInv' BY <1>2, <2>1, ReportStep DEF RunDir
  <2>3. command' = "dir" /\ o' = NoOptions BY <1>2, <2>1 DEF RunDir
  <2> QED BY <2>2, <2>3 DEF CommandsInv, NoOptions
<1>3. CASE UNCHANGED vars
  <2>1. UNCHANGED <<command, disk0, disk, pc, file, result, o, disturbed, name, paths, unchecked>>
    BY <1>3 DEF vars, fileVars, reportVars
  <2>2. CASE command = "stream" /\ StreamInv /\ NoReport
    <3>1. /\ disk0 \in Disks /\ o \in Invocations /\ StreamStage(pc', disk', file', result')
          /\ pc' # "check" /\ result' # "aliases" => OptionsApart
      BY <2>1, <2>2 DEF StreamInv
    <3>2. StreamInv' BY <2>1, <3>1, StreamInvIs
    <3> QED BY <2>1, <2>2, <3>2 DEF CommandsInv, NoReport
  <2>3. CASE command = "dir" /\ ReportInv /\ o = NoOptions
    <3>1. WellFormed(disk') BY <2>1, <2>3 DEF ReportInv
    <3>2. ReportInv' BY <2>1, <2>3, <3>1, DisturbKeeps
    <3> QED BY <2>1, <2>3, <3>2 DEF CommandsInv, NoOptions
  <2> QED BY <2>2, <2>3 DEF CommandsInv
<1> QED BY <1>1, <1>2, <1>3 DEF Next, Terminated

(* The invariant of both commands: on every file system without chains of  *)
(* links, for every command line, however often others interfere with the  *)
(* report, and whatever fails.                                             *)
THEOREM CommandsInvariant == Spec => []CommandsInv
<1>1. Init => CommandsInv BY CommandsInit
<1>2. CommandsInv /\ [Next]_vars => CommandsInv' BY CommandsStep
<1> QED BY <1>1, <1>2, PTL DEF Spec

(* The file that is scanned is never written (runStream's checks), and an  *)
(* input of the directory scan that is still where it was enumerated holds *)
(* what it held (writeReport and refuseInputAlias).                        *)
THEOREM InputsAreSafe == Spec => []InputsUntouched
<1>1. CommandsInv => InputsUntouched
  <2>1. CASE command = "stream" /\ StreamInv /\ NoReport
    <3>1. TreeUntouched BY <2>1 DEF TreeUntouched, NoReport
    <3> QED BY <2>1, <3>1, StreamKeepsInput DEF InputsUntouched
  <2>2. CASE command = "dir" /\ ReportInv /\ o = NoOptions
    <3>1. InputUntouched BY <2>2 DEF InputUntouched, NoOptions
    <3> QED BY <2>2, <3>1, ReportKeepsTree DEF InputsUntouched
  <2> QED BY <2>1, <2>2 DEF CommandsInv
<1> QED BY <1>1, CommandsInvariant, PTL

(* A scan that fails leaves nothing of its output in any file, whatever    *)
(* name or link it was opened by (runStream's cleanup).                    *)
THEOREM FailureIsClean == Spec => []FailureLeavesNothing
<1>1. CommandsInv => FailureLeavesNothing BY StreamFailsClean, ReportIsNoOutput DEF CommandsInv
<1> QED BY <1>1, CommandsInvariant, PTL

(* A successful scan's output is there and whole, and is not taken for the *)
(* statistics, unless a link led nowhere at the start.                     *)
THEOREM OutputIsKept == Spec => []OutputSurvivesWithoutDanglingLinks
<1>1. CommandsInv => OutputSurvivesWithoutDanglingLinks
  <2>1. CASE o = NoOptions
    BY <2>1 DEF OutputSurvivesWithoutDanglingLinks, OutputSurvives, NoOptions
  <2> QED BY <2>1, StreamOutputSurvives DEF CommandsInv
<1> QED BY <1>1, CommandsInvariant, PTL

(* A report that is refused, or a scan that fails before one is written,   *)
(* leaves every file as it was (writeReport opens without truncating).     *)
THEOREM ReportIsKeptOnRefusal == Spec => []RefusalKeepsReport
<1>1. CommandsInv => RefusalKeepsReport
  <2>1. CASE StreamInv
    <3> SUFFICES ASSUME pc = "done",
                        result \in {"aliases", "scanFailed", "cannotOpen", "refused", "cannotTruncate"},
                        NEW n \in Names, disk.entry[n].kind = "file"
                 PROVE  disk.holds[disk.entry[n].id] = "original"
      BY DEF RefusalKeepsReport
    <3>1. disk = disk0 /\ disk0 \in Disks BY <2>1 DEF StreamInv, StreamStage
    <3>2. Reached(disk0, n) = n /\ Exists(disk0, n) /\ FileAt(disk0, n) = disk.entry[n].id
      BY <3>1 DEF Reached, Exists, FileAt
    <3>3. disk0.holds[FileAt(disk0, n)] = "original" BY <3>1, <3>2, DiskFacts
    <3> QED BY <3>1, <3>2, <3>3
  <2> QED BY <2>1, ReportKeptOnRefusal DEF CommandsInv
<1> QED BY <1>1, CommandsInvariant, PTL
=============================================================================
