-------------------------- MODULE MCSpanCollector --------------------------
(* All ranges within five offsets, under two rules of equal confidence,    *)
(* and two short ranges of a higher one; three of them are added.          *)
EXTENDS SpanCollector

MCLength == 5
Weak == {RawSpan(s, e, rule, 1) : s \in 0 .. (MCLength - 1), e \in 1 .. MCLength, rule \in {0, 1}}
Strong == {RawSpan(1, 2, 1, 2), RawSpan(2, 4, 1, 2)}
MCRawSpans == {s \in Weak \cup Strong : s.start < s.end}
MCLimits == 0 .. MCLength
=============================================================================
