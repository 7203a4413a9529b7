---------------------------- MODULE MCSpanWriter ----------------------------
(* Four offsets in regions of up to three, two-byte markers, and every     *)
(* pair of spans a caller could pass, the empty and inverted included.     *)
EXTENDS SpanWriter

MCSpanChoices == {[start |-> s, end |-> e] : s \in 0 .. 3, e \in 1 .. 5}
=============================================================================
