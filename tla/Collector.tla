----------------------------- MODULE Collector -----------------------------
(***************************************************************************)
(* What internal/span promises of a Collector, told in terms of the raw    *)
(* spans it was given and never of how it keeps them: the answer of every  *)
(* call is read off the components of the spans added since the last       *)
(* Reset.                                                                  *)
(***************************************************************************)
EXTENDS Integers, SequencesExt, Spans

CONSTANTS
    RawSpans,   \* the spans a caller may add
    Limits,     \* the limits a caller may release at
    LastOffset, \* no span ends beyond it: an offset is an int64
    MaxAdds     \* bound on the calls of Add between two Resets

(* A rule is an index, a confidence a uint8.                               *)
ASSUME CollectorAssumption ==
    /\ LastOffset \in Nat /\ Limits \subseteq Int
    /\ RawSpans \subseteq [start : Nat, end : Nat, rule : Nat, confidence : 0 .. 255, attribStart : Nat]
    /\ \A s \in RawSpans : s.end <= LastOffset /\ s.attribStart = s.start

VARIABLES
    added,      \* the raw spans added since the last Reset
    limit,      \* the highest limit released at since the last Reset
    answer      \* what the last call returned

collectorVars == <<added, limit, answer>>

(* A merged span as callers see it. *)
Public(e) == [start |-> e.start, end |-> e.end, rule |-> e.rule, confidence |-> e.confidence]
InOrder(S) ==
    CHOOSE q \in [1 .. Cardinality(S) -> {Public(e) : e \in S}] :
        \A i, j \in 1 .. Cardinality(S) : i < j => q[i].start < q[j].start

Held == {c \in Components(added) : c.end > limit}

(* The answer of a call: whether there is something, and the spans.        *)
Answer(ok, spans) == [ok |-> ok, spans |-> spans]
NoAnswer == Answer(FALSE, <<>>)

CollectorInit == added = {} /\ limit = -1 /\ answer = NoAnswer

(* The contract on the caller: nothing is added at or before a limit that  *)
(* spans were already released at.                                         *)
MayAdd(s) == s.start > limit /\ Cardinality(added \cup {s}) <= MaxAdds

AddRaw(s) ==
    /\ MayAdd(s)
    /\ added' = added \cup {s}
    /\ answer' = NoAnswer
    /\ UNCHANGED limit

ReleaseUpTo(l) ==
    /\ LET done == {c \in Held : c.end <= l} IN answer' = Answer(done # {}, InOrder(done))
    /\ limit' = Higher(limit, l)
    /\ UNCHANGED added

EarliestHeld ==
    /\ answer' = IF Held = {} THEN NoAnswer ELSE Answer(TRUE, <<Head(InOrder(Held))>>)
    /\ UNCHANGED <<added, limit>>

AnyHeld ==
    /\ answer' = Answer(Held # {}, <<>>)
    /\ UNCHANGED <<added, limit>>

Forget == added' = {} /\ limit' = -1 /\ answer' = NoAnswer

CollectorNext ==
    \/ \E s \in RawSpans : AddRaw(s)
    \/ \E l \in Limits : ReleaseUpTo(l)
    \/ EarliestHeld \/ AnyHeld \/ Forget

CollectorSpec == CollectorInit /\ [][CollectorNext]_collectorVars
=============================================================================
