-------------------------- MODULE SpanCollectorInv --------------------------
(***************************************************************************)
(* The inductive invariant of the Collector: the slice is sorted and holds *)
(* exactly the components that end beyond the highest limit released at.   *)
(***************************************************************************)
EXTENDS SpanCollector

Entries == [start : Nat, end : Nat, rule : Nat, confidence : Nat, attribStart : Nat]

(* Spans as Add accepts them, and as it keeps them.                        *)
Sound(S) ==
    \A e \in S : /\ e \in Entries /\ e.start < e.end
                 /\ e.end <= LastOffset /\ e.confidence <= 255

TypeOK ==
    /\ entries \in Seq(Entries) /\ Sound(Range(entries))
    /\ added \subseteq RawSpans /\ Sound(added)
    /\ limit \in Int

(* By start, with a gap between any two, and so by end as well.            *)
Sorted(q) == \A i, j \in 1 .. Len(q) : i < j => q[i].end < q[j].start

(* The components of the spans added lie apart, and between them they take *)
(* in every span.                                                          *)
ComponentsApart ==
    /\ Sound(Components(added)) /\ Apart(Components(added))
    /\ \A c \in Components(added) : IsComponent(c, added)
    /\ \A s \in added : \E c \in Components(added) : s \in Inside(added, c)

CollectorInv == TypeOK /\ Sorted(entries) /\ ComponentsApart /\ HoldsComponents
=============================================================================
