----------------------------- MODULE MCDirScan -----------------------------
(* Three files for two workers, the first of one of six kinds.       *)
EXTENDS DirScan

CONSTANTS w1, w2

MCWorkers == {w1, w2}
Kind(state, closes, n) == [state |-> state, closes |-> closes, findings |-> n]
Kinds == {Kind("text", TRUE, 2), Kind("text", FALSE, 0), Kind("unreadable", TRUE, 0),
          Kind("binary", TRUE, 0), Kind("broken", TRUE, 1), Kind("changed", TRUE, 1)}
Tree(files, config) == [files |-> files, config |-> config]

(* The first file is of any kind, the others sound or wrong in other ways; *)
(* or the engine cannot be configured.                                     *)
MCTrees ==
    {Tree(<<f, g, h>>, TRUE) : f \in Kinds,
                               g \in {Kind("text", TRUE, 2), Kind("broken", TRUE, 1), Kind("binary", FALSE, 0)},
                               h \in {Kind("text", TRUE, 1), Kind("unreadable", TRUE, 0)}}
        \cup {Tree([i \in Files |-> Kind("text", TRUE, 1)], FALSE)}
=============================================================================
