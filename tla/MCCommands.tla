------------------------------ MODULE MCCommands ------------------------------
(* Four names, every way to link them, and room for two more files.        *)
EXTENDS Commands

MCNames   == {"in", "other", "out", "stats"}
MCTree    == {"in", "other", "out"}
MCReports == {"out", "stats"}
MCFileIds == 1 .. 5

MCEntries == [MCNames -> {Absent} \cup {File(i) : i \in 1 .. 3} \cup {Link(n) : n \in MCNames}]
AllDisks == {d \in [entry : MCEntries,
                     holds : {[i \in MCFileIds |-> IF i <= 3 THEN "original" ELSE "unused"]}] : NoLinkChains(d)}

MCInvocations ==
    [input : {"in", Std}, output : {"out", Std, "in"}, stats : {"stats", "out", Std, None},
     zstd : BOOLEAN]
=============================================================================
