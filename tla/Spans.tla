------------------------------- MODULE Spans -------------------------------
(***************************************************************************)
(* The span algebra of internal/span: half-open ranges of input offsets,   *)
(* the touch relation that merges them, and the rule that decides which    *)
(* contributor a merged span is attributed to.                             *)
(*                                                                         *)
(* A raw span and a merged one have the same shape, the collector's        *)
(* "entry": start and end, the attribution (rule, confidence) and the      *)
(* start of the span that won it (attribStart).  A collector's content is  *)
(* here the SET of its entries; SpanCollector refines it with the sorted   *)
(* slice the code keeps.                                                   *)
(***************************************************************************)
EXTENDS Integers, FiniteSetsExt

(* The lesser and the greater of two numbers. *)
Lower(a, b)  == IF a <= b THEN a ELSE b
Higher(a, b) == IF a >= b THEN a ELSE b

(* A span as a validator reports it: it is its own contributor.            *)
RawSpan(start, end, rule, confidence) ==
    [start |-> start, end |-> end, rule |-> rule,
     confidence |-> confidence, attribStart |-> start]

(* The offsets a set of spans redacts. *)
Offsets(S) == UNION {s.start .. (s.end - 1) : s \in S}

(* Faulty: ranges that merely meet stay apart.                             *)
OverlapOnly(a, b) == a.start < b.end /\ b.start < a.end
(* Ranges that merely meet merge as well as overlapping ones.              *)
Touches(a, b)     == a.start <= b.end /\ b.start <= a.end

(* Precedence: confidence, then the earlier original start, then the lower *)
(* rule index.                                                             *)
Beats(a, b) ==
    \/ a.confidence > b.confidence
    \/ a.confidence = b.confidence /\ a.attribStart < b.attribStart
    \/ a.confidence = b.confidence /\ a.attribStart = b.attribStart
                                   /\ a.rule <= b.rule

Winner(S) == CHOOSE a \in S : \A b \in S : Beats(a, b)

(* One span in the place of several: their hull, attributed to the winner. *)
Merge(S) ==
    [start |-> Min({s.start : s \in S}), end |-> Max({s.end : s \in S}),
     rule |-> Winner(S).rule, confidence |-> Winner(S).confidence,
     attribStart |-> Winner(S).attribStart]

(* Faulty: entries to the right of s are not absorbed.                     *)
AddSpanLeftOnly(E, s) ==
    LET absorbed == {e \in E : e.start <= s.start /\ s.start <= e.end}
    IN  (E \ absorbed) \cup {Merge(absorbed \cup {s})}

(* Collector.Add on the set of entries: whatever s touches is absorbed.    *)
AddSpan(E, s) ==
    LET absorbed == {e \in E : Touches(e, s)}
    IN  (E \ absorbed) \cup {Merge(absorbed \cup {s})}

(***************************************************************************)
(* The reference: the transitive closure of Touches over a whole set of    *)
(* raw spans, without the eager merging.  A component starts at a span     *)
(* that no span reaches from the left, and ends at the first end, from     *)
(* there on, that no span crosses or starts at.                            *)
(***************************************************************************)
Heads(S) == {s.start : s \in {h \in S : \A t \in S : t.start >= h.start \/ t.end < h.start}}
Foot(S, head) ==
    Min({e \in {s.end : s \in S} : e > head /\ \A t \in S : t.end <= e \/ t.start > e})
Members(S, head) == {s \in S : head <= s.start /\ s.end <= Foot(S, head)}
Components(S) == {Merge(Members(S, head)) : head \in Heads(S)}

(***************************************************************************)
(* The same components, told one by one and without a minimum or a choice. *)
(***************************************************************************)
Apart(S) == \A s, t \in S : s # t => ~Touches(s, t)

Inside(S, e) == {s \in S : e.start <= s.start /\ s.end <= e.end}

(* m is what merging the spans of S gives.                                 *)
Summarises(m, S) ==
    /\ \A s \in S : m.start <= s.start /\ s.end <= m.end /\ Beats(m, s)
    /\ \E s \in S : m.start = s.start
    /\ \E s \in S : m.end = s.end
    /\ \E s \in S : /\ m.rule = s.rule /\ m.confidence = s.confidence
                    /\ m.attribStart = s.attribStart

(* e is one component of S: it covers no offset that S does not, and the   *)
(* spans of S that it does not take in leave a gap to it.                  *)
IsComponent(e, S) ==
    /\ Summarises(e, Inside(S, e))
    /\ \A i \in e.start .. (e.end - 1) : \E s \in S : s.start <= i /\ i < s.end
    /\ \A s \in S \ Inside(S, e) : s.end < e.start \/ e.end < s.start
=============================================================================
