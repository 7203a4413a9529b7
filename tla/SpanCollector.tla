--------------------------- MODULE SpanCollector ---------------------------
(***************************************************************************)
(* The Collector of internal/span/span.go: the merged spans are kept in    *)
(* one slice, sorted by start, and every Add splices the span it is given  *)
(* into it in place of the entries it touches.  The history of added spans *)
(* and of the limit belongs to the abstract specification, Collector.      *)
(***************************************************************************)
EXTENDS Collector

VARIABLE entries    \* the slice

collectorImplVars == <<added, limit, answer, entries>>

(* sort.Search: the least of the indexes that satisfy its predicate, else n. *)
Search(n, satisfying) == Min(satisfying \cup {n})
Indexes(old) == 0 .. (Len(old) - 1)

(* The attribution that wins, of two contributors.                         *)
BetterAttribByRuleOnly(a, b) ==    \* faulty: an earlier start is not preferred
    IF a.confidence # b.confidence
    THEN IF a.confidence > b.confidence THEN a ELSE b
    ELSE IF a.rule <= b.rule THEN a ELSE b
BetterAttrib(a, b) ==
    CASE a.confidence # b.confidence   -> IF a.confidence > b.confidence THEN a ELSE b
      [] a.confidence = b.confidence /\ a.attribStart # b.attribStart
                                       -> IF a.attribStart < b.attribStart THEN a ELSE b
      [] OTHER                         -> IF a.rule <= b.rule THEN a ELSE b

(* The entries s touches are old[lo+1 .. hi].                              *)
Lo(old, s) == Search(Len(old), {i \in Indexes(old) : old[i + 1].end >= s.start})
HiStrict(old, s) == Search(Len(old), {i \in Indexes(old) : old[i + 1].start >= s.end})    \* faulty
Hi(old, s) == Search(Len(old), {i \in Indexes(old) : old[i + 1].start > s.end})

(* An entry absorbed, and all of those touched, one by one.                *)
Absorb(m, e) ==
    LET best == BetterAttrib(m, e)
    IN  [start |-> Lower(m.start, e.start), end |-> Higher(m.end, e.end),
         rule |-> best.rule, confidence |-> best.confidence, attribStart |-> best.attribStart]

MergedEntry(touched, s) ==
    LET absorbed[n \in 0 .. Len(touched)] ==
            IF n = 0 THEN s ELSE Absorb(absorbed[n - 1], touched[n])
    IN  absorbed[Len(touched)]

Spliced(old, s) ==
    LET lo == Lo(old, s)  hi == Hi(old, s)
    IN  SubSeq(old, 1, lo) \o <<MergedEntry(SubSeq(old, lo + 1, hi), s)>>
            \o SubSeq(old, hi + 1, Len(old))

(* The number of entries a Release at l hands out.                         *)
ReleasableStrict(l) == Search(Len(entries), {i \in Indexes(entries) : entries[i + 1].start > l})   \* faulty
Releasable(l) == Search(Len(entries), {i \in Indexes(entries) : entries[i + 1].end > l})

Init == CollectorInit /\ entries = <<>>

(* Add is only called with Start < End: it panics otherwise.               *)
Add(s) ==
    /\ MayAdd(s) /\ s.start < s.end
    /\ entries' = Spliced(entries, s)
    /\ answer' = NoAnswer
    /\ added' = added \cup {s} /\ UNCHANGED limit

Release(l) ==
    /\ answer' = Answer(Releasable(l) > 0, [i \in 1 .. Releasable(l) |-> Public(entries[i])])
    /\ entries' = SubSeq(entries, Releasable(l) + 1, Len(entries))
    /\ limit' = Higher(limit, l) /\ UNCHANGED added

Earliest ==
    /\ answer' = IF entries = <<>> THEN NoAnswer ELSE Answer(TRUE, <<Public(entries[1])>>)
    /\ UNCHANGED <<entries, added, limit>>

Pending ==
    /\ answer' = Answer(Len(entries) > 0, <<>>)
    /\ UNCHANGED <<entries, added, limit>>

Reset == Forget /\ entries' = <<>>

Next ==
    \/ \E s \in RawSpans : Add(s)
    \/ \E l \in Limits : Release(l)
    \/ Earliest \/ Pending \/ Reset

Spec == Init /\ [][Next]_collectorImplVars

----------------------------------------------------------------------------
(* Adding in any order, merging eagerly, with releases in between, leaves  *)
(* exactly the components that are still held, attribution included.       *)
HoldsComponents == Range(entries) = Held

(* The set view the engine's model uses: Add is AddSpan.                   *)
AddIsAddSpan ==
    [][\A s \in added' \ added : Range(entries') = AddSpan(Range(entries), s)]_collectorImplVars

(* Every call answers as the abstract collector would.                     *)
ImplementsCollector == CollectorSpec
=============================================================================
