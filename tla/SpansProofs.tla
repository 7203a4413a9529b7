---------------------------- MODULE SpansProofs ----------------------------
(***************************************************************************)
(* Lemmas about the span algebra: the extremes of bounded sets of          *)
(* integers, the winner of an attribution, and what Collector.Add keeps;   *)
(* and about the sequence that FlattenSeq computes.                        *)
(***************************************************************************)
EXTENDS Spans, SequencesExt, SequenceTheorems, WellFoundedInduction, TLAPS

(* Every non-empty set of naturals has a least element.                    *)
LEMMA LeastNatural ==
    ASSUME NEW S \in SUBSET Nat, S # {}
    PROVE  \E x \in S : \A y \in S : x <= y
<1>1. PICK x \in S : \A y \in S : ~ (<<y, x>> \in OpToRel(<, Nat))
  BY NatLessThanWellFounded, WFMin
<1>2. ASSUME NEW y \in S PROVE x <= y
  <2>1. x \in Nat /\ y \in Nat OBVIOUS
  <2>2. y < x => <<y, x>> \in OpToRel(<, Nat) BY <2>1 DEF OpToRel
  <2>3. ~ (y < x) BY <1>1, <2>2
  <2> QED BY <2>1, <2>3
<1> QED BY <1>2

(* Induction over the naturals, for the set of those of which it holds.    *)
LEMMA Inductive ==
    ASSUME NEW P, 0 \in P, \A n \in Nat : n \in P => n + 1 \in P
    PROVE  Nat \subseteq P
<1> SUFFICES ASSUME NEW z \in Nat, z \notin P PROVE FALSE OBVIOUS
<1> DEFINE S == {n \in Nat : n \notin P}
<1>1. PICK x \in S : \A y \in S : x <= y
  <2>1. S \in SUBSET Nat /\ S # {} OBVIOUS
  <2> HIDE DEF S
  <2> QED BY <2>1, LeastNatural
<1>2. x # 0 /\ x - 1 \in Nat OBVIOUS
<1>3. x - 1 \in P BY <1>1, <1>2
<1> QED BY <1>2, <1>3

(* Min, of integers bounded below.                                         *)
LEMMA MinBounded ==
    ASSUME NEW S \in SUBSET Int, S # {}, NEW lo \in Int, \A x \in S : lo <= x
    PROVE  Min(S) \in S /\ \A y \in S : Min(S) <= y
<1> DEFINE T == {x - lo : x \in S}
<1>0. \A x \in S : x \in Int /\ x - lo \in Nat OBVIOUS
<1>1. T \in SUBSET Nat /\ T # {} BY <1>0
<1> HIDE DEF T
<1>2. PICK t \in T : \A u \in T : t <= u BY <1>1, LeastNatural
<1>3. PICK x \in S : t = x - lo BY <1>2 DEF T
<1>4. ASSUME NEW y \in S PROVE x <= y
  <2>1. t <= y - lo BY <1>2 DEF T
  <2>2. x \in Int /\ y \in Int BY <1>0
  <2> QED BY <1>3, <2>1, <2>2
<1> QED BY <1>3, <1>4 DEF Min

(* Max, of integers bounded above.                                         *)
LEMMA MaxBounded ==
    ASSUME NEW S \in SUBSET Int, S # {}, NEW hi \in Int, \A x \in S : x <= hi
    PROVE  Max(S) \in S /\ \A y \in S : y <= Max(S)
<1> DEFINE T == {hi - x : x \in S}
<1>0. \A x \in S : x \in Int /\ hi - x \in Nat OBVIOUS
<1>1. T \in SUBSET Nat /\ T # {} BY <1>0
<1> HIDE DEF T
<1>2. PICK t \in T : \A u \in T : t <= u BY <1>1, LeastNatural
<1>3. PICK x \in S : t = hi - x BY <1>2 DEF T
<1>4. ASSUME NEW y \in S PROVE y <= x
  <2>1. t <= hi - y BY <1>2 DEF T
  <2>2. x \in Int /\ y \in Int BY <1>0
  <2> QED BY <1>3, <2>1, <2>2
<1> QED BY <1>3, <1>4 DEF Max

LEMMA LowerHigher ==
    ASSUME NEW a \in Int, NEW b \in Int
    PROVE  /\ Lower(a, b) \in Int /\ Lower(a, b) <= a /\ Lower(a, b) <= b /\ Lower(a, b) \in {a, b}
           /\ Higher(a, b) \in Int /\ a <= Higher(a, b) /\ b <= Higher(a, b) /\ Higher(a, b) \in {a, b}
BY DEF Lower, Higher

(* A span as the collector of an engine holds it, and spans up to an       *)
(* offset.                                                                 *)
Attributed == [start : Nat, end : Nat, rule : Nat, confidence : Nat, attribStart : Nat]
Within(S, len) == \A e \in S : e.end <= len

(* Among spans of bounded confidence one wins the attribution: the best    *)
(* confidence, then the least start, then the least rule.                  *)
LEMMA WinnerExists ==
    ASSUME NEW S \in SUBSET Attributed, S # {}, NEW top \in Nat, \A s \in S : s.confidence <= top
    PROVE  Winner(S) \in S /\ \A b \in S : Beats(Winner(S), b)
<1> DEFINE C == {s.confidence : s \in S}
           A == {s \in S : s.confidence = Max(C)}
           P == {s.attribStart : s \in A}
           B == {s \in A : s.attribStart = Min(P)}
           R == {s.rule : s \in B}
<1>1. Max(C) \in C /\ \A c \in C : c <= Max(C)
  <2>1. C \in SUBSET Int /\ C # {} /\ \A c \in C : c <= top BY DEF Attributed
  <2> HIDE DEF C
  <2> QED BY <2>1, top \in Int, MaxBounded
<1>2. A # {} BY <1>1
<1>3. Min(P) \in P /\ \A p \in P : Min(P) <= p
  <2>1. \A a \in A : a.attribStart \in Nat BY DEF Attributed
  <2> HIDE DEF A
  <2>2. P \in SUBSET Int /\ P # {} /\ \A p \in P : 0 <= p BY <1>2, <2>1
  <2> HIDE DEF P
  <2> QED BY <2>2, 0 \in Int, MinBounded
<1>4. B # {} BY <1>3
<1>5. Min(R) \in R /\ \A r \in R : Min(R) <= r
  <2>1. \A b \in B : b.rule \in Nat BY DEF Attributed
  <2> HIDE DEF B
  <2>2. R \in SUBSET Int /\ R # {} /\ \A r \in R : 0 <= r BY <1>4, <2>1
  <2> HIDE DEF R
  <2> QED BY <2>2, 0 \in Int, MinBounded
<1>6. PICK w \in B : w.rule = Min(R) BY <1>5
<1>7. w \in S /\ w.confidence = Max(C) /\ w.attribStart = Min(P) BY <1>6
<1>8. ASSUME NEW b \in S PROVE Beats(w, b)
  <2>1. b \in Attributed /\ w \in Attributed BY <1>7
  <2>2. b.confidence \in Nat /\ w.confidence \in Nat /\ b.attribStart \in Nat
        /\ w.attribStart \in Nat /\ b.rule \in Nat /\ w.rule \in Nat BY <2>1 DEF Attributed
  <2>3. b.confidence <= w.confidence BY <1>1, <1>7
  <2>4. CASE b.confidence < w.confidence BY <2>2, <2>4 DEF Beats
  <2>5. CASE b.confidence = w.confidence
    <3>1. b \in A BY <2>5, <1>7
    <3>2. w.attribStart <= b.attribStart BY <3>1, <1>3, <1>7
    <3>3. CASE w.attribStart < b.attribStart BY <2>2, <2>5, <3>3 DEF Beats
    <3>4. CASE w.attribStart = b.attribStart
      <4>1. b \in B BY <3>1, <3>4, <1>7
      <4>2. w.rule <= b.rule BY <4>1, <1>5, <1>6
      <4> QED BY <2>5, <3>4, <4>2 DEF Beats
    <3> QED BY <2>2, <3>2, <3>3, <3>4
  <2> QED BY <2>2, <2>3, <2>4, <2>5
<1>9. \E a \in S : \A b \in S : Beats(a, b) BY <1>7, <1>8
<1> QED BY <1>9 DEF Winner

(* Merge gives a span of the same kind, attributed to one of those merged, *)
(* that spans them all and reaches no further than they do.                *)
LEMMA MergeHull ==
    ASSUME NEW S \in SUBSET Attributed, S # {}, NEW len \in Nat, Within(S, len),
           NEW top \in Nat, \A s \in S : s.confidence <= top
    PROVE  /\ Merge(S) \in Attributed
           /\ \E w \in S : Merge(S).rule = w.rule /\ Merge(S).confidence = w.confidence
           /\ \A s \in S : Merge(S).start <= s.start /\ s.end <= Merge(S).end
           /\ \E s \in S : Merge(S).start = s.start
           /\ \E s \in S : Merge(S).end = s.end
<1> DEFINE F == {s.start : s \in S}
           L == {s.end : s \in S}
<1>1. Min(F) \in F /\ \A x \in F : Min(F) <= x
  <2>1. F \in SUBSET Int /\ F # {} /\ \A x \in F : 0 <= x BY DEF Attributed
  <2> HIDE DEF F
  <2> QED BY <2>1, 0 \in Int, MinBounded
<1>2. Max(L) \in L /\ \A x \in L : x <= Max(L)
  <2>1. L \in SUBSET Int /\ L # {} /\ \A x \in L : x <= len BY DEF Attributed, Within
  <2> HIDE DEF L
  <2> QED BY <2>1, len \in Int, MaxBounded
<1>3. Winner(S) \in S BY WinnerExists
<1>4. Winner(S) \in Attributed BY <1>3
<1>5. Min(F) \in Nat /\ Max(L) \in Nat BY <1>1, <1>2 DEF Attributed
<1>6. /\ Merge(S).start = Min(F) /\ Merge(S).end = Max(L)
      /\ Merge(S).rule = Winner(S).rule /\ Merge(S).confidence = Winner(S).confidence
      /\ Merge(S) = [start |-> Min(F), end |-> Max(L), rule |-> Winner(S).rule,
                     confidence |-> Winner(S).confidence, attribStart |-> Winner(S).attribStart]
  BY DEF Merge
<1>7. Merge(S) \in Attributed BY <1>4, <1>5, <1>6 DEF Attributed
<1> QED BY <1>1, <1>2, <1>3, <1>6, <1>7

(* Add loses no offset: whatever an entry or the added span redacts, an    *)
(* entry redacts afterwards.                                               *)
LEMMA AddSpanCovers ==
    ASSUME NEW E \in SUBSET Attributed, NEW s \in Attributed, NEW len \in Nat,
           Within(E \cup {s}, len),
           NEW top \in Nat, \A e \in E \cup {s} : e.confidence <= top,
           NEW i \in Int, NEW old \in E \cup {s}, old.start <= i, i < old.end
    PROVE  \E e \in AddSpan(E, s) : e.start <= i /\ i < e.end
<1> DEFINE T == {e \in E : Touches(e, s)}
<1>1. AddSpan(E, s) = (E \ T) \cup {Merge(T \cup {s})} BY DEF AddSpan
<1>2. CASE old \in T \cup {s}
  <2>1. /\ T \cup {s} \in SUBSET Attributed /\ T \cup {s} # {} /\ Within(T \cup {s}, len)
        /\ \A e \in T \cup {s} : e.confidence <= top
    BY DEF Within
  <2>2. /\ Merge(T \cup {s}) \in Attributed
        /\ Merge(T \cup {s}).start <= old.start /\ old.end <= Merge(T \cup {s}).end
    <3> HIDE DEF T
    <3> QED BY <1>2, <2>1, MergeHull
  <2> HIDE DEF T
  <2>3. old \in Attributed BY <1>2, <2>1
  <2>4. /\ old.start \in Nat /\ old.end \in Nat
        /\ Merge(T \cup {s}).start \in Nat /\ Merge(T \cup {s}).end \in Nat
    BY <2>2, <2>3 DEF Attributed
  <2>5. Merge(T \cup {s}).start <= i /\ i < Merge(T \cup {s}).end
    BY <2>2, <2>4
  <2> QED BY <1>1, <2>5
<1>3. CASE old \notin T \cup {s} BY <1>1, <1>3
<1> QED BY <1>2, <1>3

(* Add makes no other kind of entry, reaches no further than before, and   *)
(* attributes nothing to a rule that did not contribute.                   *)
LEMMA AddSpanKeeps ==
    ASSUME NEW E \in SUBSET Attributed, NEW s \in Attributed, NEW len \in Nat,
           Within(E \cup {s}, len),
           NEW top \in Nat, \A e \in E \cup {s} : e.confidence <= top,
           NEW e \in AddSpan(E, s)
    PROVE  /\ e \in Attributed /\ e.end <= len
           /\ \E f \in E \cup {s} : e.rule = f.rule /\ e.confidence = f.confidence
<1> DEFINE T == {x \in E : Touches(x, s)}
           m == Merge(T \cup {s})
<1>1. AddSpan(E, s) = (E \ T) \cup {m} BY DEF AddSpan
<1>2. /\ T \cup {s} \in SUBSET Attributed /\ T \cup {s} # {} /\ Within(T \cup {s}, len)
      /\ \A x \in T \cup {s} : x.confidence <= top
      /\ T \cup {s} \subseteq E \cup {s}
  BY DEF Within
<1>3. /\ m \in Attributed
      /\ \E f \in T \cup {s} : m.rule = f.rule /\ m.confidence = f.confidence
      /\ \E f \in T \cup {s} : m.end = f.end
  <2> HIDE DEF T
  <2> QED BY <1>2, MergeHull
<1> HIDE DEF T, m
<1>4. CASE e = m BY <1>2, <1>3, <1>4 DEF Within
<1>5. CASE e \in E BY <1>5 DEF Within
<1> QED BY <1>1, <1>4, <1>5

----------------------------------------------------------------------------
(* Components.                                                             *)

(* Spans as validators report and collectors hold them: not empty, inside  *)
(* the input, of bounded confidence.                                       *)
Regular(S, len, top) ==
    /\ S \subseteq Attributed /\ Within(S, len)
    /\ \A s \in S : s.start < s.end /\ s.confidence <= top

LEMMA AttributedFields ==
    ASSUME NEW e \in Attributed
    PROVE  /\ e.start \in Nat /\ e.end \in Nat /\ e.rule \in Nat
           /\ e.confidence \in Nat /\ e.attribStart \in Nat
BY DEF Attributed

LEMMA BeatsTransitive ==
    ASSUME NEW a \in Attributed, NEW b \in Attributed, NEW c \in Attributed,
           Beats(a, b), Beats(b, c)
    PROVE  Beats(a, c)
<1>1. /\ a.rule \in Nat /\ a.confidence \in Nat /\ a.attribStart \in Nat
      /\ b.rule \in Nat /\ b.confidence \in Nat /\ b.attribStart \in Nat
      /\ c.rule \in Nat /\ c.confidence \in Nat /\ c.attribStart \in Nat
  BY AttributedFields
<1> QED BY <1>1 DEF Beats

(* Nothing else than Merge summarises a set of spans.                      *)
LEMMA MergeSummarises ==
    ASSUME NEW S, S # {}, NEW len \in Nat, NEW top \in Nat, Regular(S, len, top)
    PROVE  Merge(S) \in Attributed /\ Summarises(Merge(S), S)
<1>1. S \in SUBSET Attributed /\ Within(S, len) /\ \A s \in S : s.confidence <= top
  BY DEF Regular
<1>2. /\ Merge(S) \in Attributed
      /\ \A s \in S : Merge(S).start <= s.start /\ s.end <= Merge(S).end
      /\ \E s \in S : Merge(S).start = s.start
      /\ \E s \in S : Merge(S).end = s.end
  BY <1>1, MergeHull
<1>3. Winner(S) \in S /\ \A s \in S : Beats(Winner(S), s) BY <1>1, WinnerExists
<1>4. /\ Merge(S).rule = Winner(S).rule /\ Merge(S).confidence = Winner(S).confidence
      /\ Merge(S).attribStart = Winner(S).attribStart
  BY DEF Merge
<1>5. \A s \in S : Beats(Merge(S), s) BY <1>3, <1>4 DEF Beats
<1> QED BY <1>2, <1>3, <1>4, <1>5 DEF Summarises

LEMMA SummaryUnique ==
    ASSUME NEW S, S \subseteq Attributed, NEW m \in Attributed, NEW n \in Attributed,
           Summarises(m, S), Summarises(n, S)
    PROVE  m = n
<1>1. /\ m.start \in Nat /\ m.end \in Nat /\ m.rule \in Nat /\ m.confidence \in Nat /\ m.attribStart \in Nat
      /\ n.start \in Nat /\ n.end \in Nat /\ n.rule \in Nat /\ n.confidence \in Nat /\ n.attribStart \in Nat
  BY AttributedFields
<1>2. m.start = n.start
  <2>1. n.start <= m.start /\ m.start <= n.start BY DEF Summarises
  <2> QED BY <1>1, <2>1
<1>3. m.end = n.end
  <2>1. n.end <= m.end /\ m.end <= n.end BY DEF Summarises
  <2> QED BY <1>1, <2>1
<1>4. Beats(m, n) /\ Beats(n, m) BY DEF Summarises, Beats
<1>5. m.rule = n.rule /\ m.confidence = n.confidence /\ m.attribStart = n.attribStart
  BY <1>1, <1>4 DEF Beats
<1> QED BY <1>2, <1>3, <1>5 DEF Attributed

(* A component, told as one, is a component as the reference computes it.  *)
LEMMA ComponentListed ==
    ASSUME NEW S, NEW len \in Nat, NEW top \in Nat, Regular(S, len, top),
           NEW e \in Attributed, IsComponent(e, S)
    PROVE  /\ e \in Components(S) /\ e.start \in Heads(S)
           /\ Merge(Members(S, e.start)) = e
<1> DEFINE M == Inside(S, e)
           E == {x \in {s.end : s \in S} : x > e.start /\ \A t \in S : t.end <= x \/ t.start > x}
<1>0. \A s \in S : s \in Attributed /\ s.start \in Nat /\ s.end \in Nat /\ s.start < s.end
  BY AttributedFields DEF Regular
<1>1. e.start \in Nat /\ e.end \in Nat BY AttributedFields
<1>2. PICK first \in M : first.start = e.start BY DEF IsComponent, Summarises
<1>3. PICK last \in M : last.end = e.end BY DEF IsComponent, Summarises
<1>4. M \subseteq S /\ \A s \in M : e.start <= s.start /\ s.end <= e.end BY DEF Inside
<1>5. \A s \in S : s \in M \/ s.end < e.start \/ e.end < s.start BY DEF IsComponent
<1>6. \A i \in e.start .. (e.end - 1) : \E s \in S : s.start <= i /\ i < s.end
  BY DEF IsComponent
<1>7. Summarises(e, M) BY DEF IsComponent
<1>8. Regular(M, len, top) /\ M # {} BY <1>2, <1>4 DEF Regular, Within
<1> HIDE DEF M
<1>9. e.start \in Heads(S)
  <2>1. \A t \in S : t.start >= first.start \/ t.end < first.start
    <3> TAKE t \in S
    <3>1. t.start \in Nat /\ t.end \in Nat /\ t.start < t.end BY <1>0
    <3>2. CASE t \in M BY <3>2, <1>2, <1>4, <1>1, <3>1
    <3>3. CASE t.end < e.start BY <3>3, <1>2
    <3>4. CASE e.end < t.start
      <4>1. e.start < e.end BY <1>0, <1>1, <1>2, <1>4
      <4> QED BY <4>1, <3>4, <1>1, <1>2, <3>1
    <3> QED BY <1>5, <3>2, <3>3, <3>4
  <2> QED BY <2>1, <1>2, <1>4 DEF Heads
<1>10. Foot(S, e.start) = e.end
  <2>1. e.end \in E
    <3>1. e.start < e.end BY <1>0, <1>1, <1>2, <1>4
    <3>2. \A t \in S : t.end <= e.end \/ t.start > e.end
      <4> TAKE t \in S
      <4>1. t.start \in Nat /\ t.end \in Nat /\ t.start < t.end BY <1>0
      <4>2. CASE t \in M BY <4>2, <1>4
      <4>3. CASE t.end < e.start BY <4>1, <4>3, <3>1, <1>1
      <4>4. CASE e.end < t.start BY <4>1, <4>4, <1>1
      <4> QED BY <1>5, <4>2, <4>3, <4>4
    <3> QED BY <3>1, <3>2, <1>1, <1>3, <1>4
  <2>2. ASSUME NEW x \in E PROVE e.end <= x
    <3>1. x \in Nat /\ x > e.start /\ \A t \in S : t.end <= x \/ t.start > x BY <1>0
    <3>2. CASE x < e.end
      <4>1. x \in e.start .. (e.end - 1) BY <3>1, <3>2, <1>1
      <4>2. PICK t \in S : t.start <= x /\ x < t.end BY <4>1, <1>6
      <4>3. t.start \in Nat /\ t.end \in Nat BY <1>0
      <4> QED BY <3>1, <4>2, <4>3
    <3> QED BY <3>1, <3>2, <1>1
  <2>3. E \in SUBSET Int /\ E # {} /\ \A x \in E : 0 <= x BY <1>0, <2>1
  <2>4. Foot(S, e.start) = Min(E) BY DEF Foot
  <2> HIDE DEF E
  <2>5. Min(E) \in E /\ \A y \in E : Min(E) <= y BY <2>3, 0 \in Int, MinBounded
  <2>6. Min(E) <= e.end /\ e.end <= Min(E) /\ Min(E) \in Int BY <2>1, <2>2, <2>3, <2>5
  <2>7. Min(E) = e.end BY <2>6, <1>1
  <2> QED BY <2>4, <2>7
<1>11. Members(S, e.start) = M
  BY <1>10 DEF Members, M, Inside
<1>12. Merge(M) = e
  <2>1. Merge(M) \in Attributed /\ Summarises(Merge(M), M) BY <1>8, MergeSummarises
  <2>2. M \subseteq Attributed BY <1>0, <1>4
  <2> QED BY <1>7, <2>1, <2>2, SummaryUnique
<1> QED BY <1>9, <1>11, <1>12 DEF Components

(* A component that takes in a span no span reaches from the left starts   *)
(* there.                                                                  *)
LEMMA HeadStartsComponent ==
    ASSUME NEW S, NEW len \in Nat, NEW top \in Nat, Regular(S, len, top),
           NEW e \in Attributed, IsComponent(e, S), NEW h \in Inside(S, e),
           \A t \in S : t.start >= h.start \/ t.end < h.start
    PROVE  e.start = h.start /\ e = Merge(Members(S, h.start))
<1>1. /\ e.start \in Nat /\ e.end \in Nat /\ h.start \in Nat /\ h.end \in Nat /\ h.start < h.end
      /\ e.start <= h.start /\ h.end <= e.end
  BY AttributedFields DEF Regular, Inside
<1>2. CASE e.start < h.start
  <2>1. h.start - 1 \in e.start .. (e.end - 1) BY <1>1, <1>2
  <2>2. PICK t \in S : t.start <= h.start - 1 /\ h.start - 1 < t.end BY <2>1 DEF IsComponent
  <2>3. t.start \in Nat /\ t.end \in Nat BY AttributedFields DEF Regular
  <2>4. ~(t.start >= h.start) /\ ~(t.end < h.start) BY <1>1, <2>2, <2>3
  <2> QED BY <2>4
<1>3. CASE e.start = h.start BY <1>3, ComponentListed
<1> QED BY <1>1, <1>2, <1>3

(* A component starts at a span that no span reaches from the left.        *)
LEMMA ComponentHead ==
    ASSUME NEW S, NEW len \in Nat, NEW top \in Nat, Regular(S, len, top), NEW g \in Components(S)
    PROVE  \E h \in S : /\ g.start = h.start /\ g = Merge(Members(S, h.start))
                        /\ \A t \in S : t.start >= h.start \/ t.end < h.start
<1>1. PICK head \in Heads(S) : g = Merge(Members(S, head)) BY DEF Components
<1>2. PICK h \in S : h.start = head /\ \A t \in S : t.start >= h.start \/ t.end < h.start
  BY DEF Heads
<1> DEFINE ends == {s.end : s \in S}
           E == {x \in ends : x > head /\ \A t \in S : t.end <= x \/ t.start > x}
           M == Members(S, head)
<1>3. \A s \in S : s \in Attributed /\ s.start \in Nat /\ s.end \in Nat /\ s.start < s.end /\ s.end <= len
  BY AttributedFields DEF Regular, Within
<1>4. ends \in SUBSET Int /\ ends # {} /\ \A x \in ends : x <= len BY <1>3
<1>5. Max(ends) \in ends /\ \A s \in S : s.end <= Max(ends) BY <1>4, len \in Int, MaxBounded
<1>6. Max(ends) \in E
  <2>1. h.end <= Max(ends) /\ Max(ends) \in Int BY <1>4, <1>5
  <2>2. Max(ends) > head BY <1>2, <1>3, <2>1
  <2> QED BY <1>5, <2>2
<1>7. E \in SUBSET Int /\ \A x \in E : h.end <= x BY <1>2, <1>3
<1>8. Foot(S, head) = Min(E) BY DEF Foot
<1>9. h.end \in Int BY <1>3
<1> HIDE DEF E, ends
<1>10. Min(E) \in E BY <1>6, <1>7, <1>9, MinBounded
<1>11. h \in M
  <2>1. h.end <= Foot(S, head) BY <1>7, <1>8, <1>10
  <2>2. head <= h.start BY <1>2, <1>3
  <2> QED BY <2>1, <2>2 DEF Members
<1>12. M \subseteq S /\ \A s \in M : head <= s.start BY DEF Members
<1>13. Regular(M, len, top) BY <1>12 DEF Regular, Within
<1> HIDE DEF M
<1>14. Merge(M) \in Attributed /\ Summarises(Merge(M), M) BY <1>11, <1>13, MergeSummarises
<1>15. PICK first \in M : g.start = first.start BY <1>1, <1>14 DEF Summarises, M
<1>16. g.start <= h.start BY <1>1, <1>11, <1>14 DEF Summarises, M
<1>17. g.start = h.start
  <2>1. first.start \in Nat /\ h.start \in Nat /\ head <= first.start BY <1>3, <1>12, <1>15
  <2> QED BY <1>2, <1>15, <1>16, <2>1
<1> QED BY <1>1, <1>2, <1>17

(* Spans that are components one by one, and between them take in every    *)
(* span, are the components.                                               *)
LEMMA ComponentsExactly ==
    ASSUME NEW S, NEW len \in Nat, NEW top \in Nat, Regular(S, len, top),
           NEW E, E \subseteq Attributed, \A e \in E : IsComponent(e, S),
           \A s \in S : \E e \in E : s \in Inside(S, e)
    PROVE  Components(S) = E
<1>1. \A e \in E : e \in Components(S) BY ComponentListed
<1>2. ASSUME NEW g \in Components(S) PROVE g \in E
  <2>1. PICK h \in S : /\ g = Merge(Members(S, h.start))
                       /\ \A t \in S : t.start >= h.start \/ t.end < h.start
    BY ComponentHead
  <2>2. PICK e \in E : h \in Inside(S, e) OBVIOUS
  <2>3. e = Merge(Members(S, h.start)) BY <2>1, <2>2, HeadStartsComponent
  <2> QED BY <2>1, <2>3
<1> QED BY <1>1, <1>2

(* What Add puts in the place of the entries a span touches.               *)
LEMMA AbsorbedFacts ==
    ASSUME NEW E, NEW s, NEW len \in Nat, NEW top \in Nat, Regular(E \cup {s}, len, top)
    PROVE  LET T == {e \in E : Touches(e, s)}
               m == Merge(T \cup {s})
           IN  /\ AddSpan(E, s) = (E \ T) \cup {m}
               /\ m \in Attributed /\ Summarises(m, T \cup {s})
               /\ m.start \in Nat /\ m.end \in Nat /\ m.start <= s.start /\ s.end <= m.end
               /\ m.start < m.end /\ m.end <= len /\ m.confidence <= top
<1> DEFINE T == {e \in E : Touches(e, s)}
           m == Merge(T \cup {s})
<1>1. AddSpan(E, s) = (E \ T) \cup {m} BY DEF AddSpan
<1>2. Regular(T \cup {s}, len, top) /\ T \cup {s} # {} BY DEF Regular, Within
<1>3. m \in Attributed /\ Summarises(m, T \cup {s})
  <2> HIDE DEF T
  <2> QED BY <1>2, MergeSummarises
<1> HIDE DEF m
<1>4. /\ m.start \in Nat /\ m.end \in Nat /\ m.start <= s.start /\ s.end <= m.end
      /\ \E x \in T \cup {s} : m.end = x.end
      /\ \E x \in T \cup {s} : m.confidence = x.confidence
  BY <1>3, AttributedFields DEF Summarises
<1>5. s.start \in Nat /\ s.end \in Nat /\ s.start < s.end BY AttributedFields DEF Regular
<1>6. m.start < m.end BY <1>4, <1>5
<1>7. m.end <= len /\ m.confidence <= top BY <1>2, <1>4 DEF Regular, Within
<1> HIDE DEF T
<1>8. /\ AddSpan(E, s) = (E \ T) \cup {m}
      /\ m \in Attributed /\ Summarises(m, T \cup {s})
      /\ m.start \in Nat /\ m.end \in Nat /\ m.start <= s.start /\ s.end <= m.end
      /\ m.start < m.end /\ m.end <= len /\ m.confidence <= top
  BY <1>1, <1>3, <1>4, <1>6, <1>7
<1> QED BY <1>8 DEF T, m

(* An entry apart from all the others and from s stays apart from what s   *)
(* and the entries it touches are merged into.                             *)
LEMMA HullApart ==
    ASSUME NEW E, NEW s, NEW len \in Nat, NEW top \in Nat, Regular(E \cup {s}, len, top), Apart(E),
           NEW T, T = {e \in E : Touches(e, s)}, NEW m, Summarises(m, T \cup {s}),
           NEW e \in E \ T
    PROVE  e.end < m.start \/ m.end < e.start
<1>1. \A x \in E \cup {s} : x.start \in Nat /\ x.end \in Nat /\ x.start < x.end
  BY AttributedFields DEF Regular
<1>2. PICK a \in T \cup {s} : m.start = a.start BY DEF Summarises
<1>3. PICK b \in T \cup {s} : m.end = b.end BY DEF Summarises
<1>4. a \in E \cup {s} /\ b \in E \cup {s} OBVIOUS
<1>5. /\ a.start \in Nat /\ a.end \in Nat /\ b.start \in Nat /\ b.end \in Nat
      /\ e.start \in Nat /\ e.end \in Nat /\ e.start < e.end
      /\ s.start \in Nat /\ s.end \in Nat
  BY <1>1, <1>4
<1>6. ~Touches(e, s) OBVIOUS
<1>7. ~Touches(e, a) /\ ~Touches(e, b) BY <1>6 DEF Apart
<1>8. (a = s \/ Touches(a, s)) /\ (b = s \/ Touches(b, s)) OBVIOUS
<1> QED BY <1>2, <1>3, <1>5, <1>6, <1>7, <1>8 DEF Touches

(* Add leaves the entries regular and apart, each starting where an entry  *)
(* or the added span does.                                                 *)
LEMMA AddSpanRegular ==
    ASSUME NEW E, NEW s, NEW len \in Nat, NEW top \in Nat, Regular(E \cup {s}, len, top), Apart(E)
    PROVE  /\ Regular(AddSpan(E, s), len, top) /\ Apart(AddSpan(E, s))
           /\ \A x \in AddSpan(E, s) :
                /\ \E a \in E \cup {s} : x.start = a.start
                /\ x \in E \/ s.end <= x.end
<1> DEFINE T == {e \in E : Touches(e, s)}
           m == Merge(T \cup {s})
<1>1. /\ AddSpan(E, s) = (E \ T) \cup {m}
      /\ m \in Attributed /\ Summarises(m, T \cup {s})
      /\ m.start \in Nat /\ m.end \in Nat /\ m.start <= s.start /\ s.end <= m.end
      /\ m.start < m.end /\ m.end <= len /\ m.confidence <= top
  BY AbsorbedFacts
<1>2. T \subseteq E OBVIOUS
<1>3. \A e \in E \ T : e.end < m.start \/ m.end < e.start
  <2> HIDE DEF m
  <2> QED BY <1>1, HullApart
<1> HIDE DEF T, m
<1>4. \A x \in E : x \in Attributed /\ x.end <= len /\ x.start < x.end /\ x.confidence <= top
  BY DEF Regular, Within
<1>5. Regular(AddSpan(E, s), len, top) BY <1>1, <1>4 DEF Regular, Within
<1>6. Apart(AddSpan(E, s))
  <2>1. SUFFICES ASSUME NEW x \in (E \ T) \cup {m}, NEW y \in (E \ T) \cup {m}, x # y
                 PROVE  ~Touches(x, y)
    BY <1>1 DEF Apart
  <2>2. CASE x \in E \ T /\ y \in E \ T BY <2>1, <2>2 DEF Apart
  <2>3. \A e \in E \ T : e.start \in Nat /\ e.end \in Nat BY <1>4, AttributedFields
  <2>4. CASE x \in E \ T /\ y = m BY <1>1, <1>3, <2>3, <2>4 DEF Touches
  <2>5. CASE y \in E \ T /\ x = m BY <1>1, <1>3, <2>3, <2>5 DEF Touches
  <2> QED BY <2>1, <2>2, <2>4, <2>5
<1>7. ASSUME NEW x \in (E \ T) \cup {m}
      PROVE  (\E a \in E \cup {s} : x.start = a.start) /\ (x \in E \/ s.end <= x.end)
  <2>1. \E a \in T \cup {s} : m.start = a.start BY <1>1 DEF Summarises
  <2> QED BY <1>1, <1>2, <2>1
<1> QED BY <1>1, <1>5, <1>6, <1>7

(* Add takes in what it absorbs.                                           *)
LEMMA AddSpanAbsorbs ==
    ASSUME NEW E, NEW s, NEW len \in Nat, NEW top \in Nat, Regular(E \cup {s}, len, top),
           NEW old \in E \cup {s}
    PROVE  \E x \in AddSpan(E, s) : x.start <= old.start /\ old.end <= x.end
<1> DEFINE T == {e \in E : Touches(e, s)}
           m == Merge(T \cup {s})
<1>1. AddSpan(E, s) = (E \ T) \cup {m} /\ Summarises(m, T \cup {s}) BY AbsorbedFacts
<1> HIDE DEF T, m
<1>2. CASE old \in T \cup {s} BY <1>1, <1>2 DEF Summarises
<1>3. CASE old \in E \ T
  <2>1. old.start \in Nat /\ old.end \in Nat BY AttributedFields DEF Regular
  <2> QED BY <1>1, <1>3, <2>1
<1> QED BY <1>2, <1>3

(* Entries a span does not touch may be kept elsewhere.                    *)
LEMMA AddSpanFrame ==
    ASSUME NEW E, NEW F, NEW s, \A f \in F : ~Touches(f, s)
    PROVE  AddSpan(E \cup F, s) = AddSpan(E, s) \cup F
<1> DEFINE T == {e \in E : Touches(e, s)}
<1>1. {e \in E \cup F : Touches(e, s)} = T OBVIOUS
<1>2. (E \cup F) \ T = (E \ T) \cup F OBVIOUS
<1>3. AddSpan(E, s) = (E \ T) \cup {Merge(T \cup {s})} BY DEF AddSpan
<1>4. AddSpan(E \cup F, s) = ((E \cup F) \ T) \cup {Merge(T \cup {s})}
  <2> HIDE DEF T
  <2> QED BY <1>1 DEF AddSpan
<1> HIDE DEF T
<1> QED BY <1>2, <1>3, <1>4

(* Eager merging computes the components: if the entries are those of the  *)
(* spans so far, then after Add they are those of one span more.           *)
LEMMA AddSpanComponents ==
    ASSUME NEW S, NEW E, NEW s, NEW len \in Nat, NEW top \in Nat,
           Regular(E \cup {s}, len, top), Regular(S, len, top), Apart(E),
           \A e \in E : IsComponent(e, S), \A x \in S : \E e \in E : x \in Inside(S, e)
    PROVE  /\ \A e \in AddSpan(E, s) : IsComponent(e, S \cup {s})
           /\ \A x \in S \cup {s} : \E e \in AddSpan(E, s) : x \in Inside(S \cup {s}, e)
<1> DEFINE T == {e \in E : Touches(e, s)}
           m == Merge(T \cup {s})
           U == S \cup {s}
<1>1. /\ AddSpan(E, s) = (E \ T) \cup {m}
      /\ m \in Attributed /\ Summarises(m, T \cup {s})
      /\ m.start \in Nat /\ m.end \in Nat /\ m.start <= s.start /\ s.end <= m.end
      /\ m.start < m.end
  BY AbsorbedFacts
<1>2. /\ T \subseteq E /\ \A e \in T : Touches(e, s)
      /\ \A e \in E \ T : ~Touches(e, s)
  OBVIOUS
<1>3. \A e \in E \ T : e.end < m.start \/ m.end < e.start
  <2> HIDE DEF m
  <2> QED BY <1>1, HullApart
<1> HIDE DEF T, m
<1>4. \A x \in E \cup S \cup {s} : /\ x \in Attributed
                                   /\ x.start \in Nat /\ x.end \in Nat /\ x.start < x.end
  BY AttributedFields DEF Regular
<1>5. ASSUME NEW e \in T PROVE m.start <= e.start /\ e.end <= m.end /\ Beats(m, e)
  BY <1>1 DEF Summarises
<1>6. ASSUME NEW x \in S, NEW e \in E, x \in Inside(S, e)
      PROVE  /\ e.start <= x.start /\ x.end <= e.end
             /\ e \in T => m.start <= x.start /\ x.end <= m.end /\ Beats(m, x)
             /\ e \notin T => x.end < m.start \/ m.end < x.start
  <2>1. e.start <= x.start /\ x.end <= e.end BY <1>6 DEF Inside
  <2>2. /\ x.start \in Nat /\ x.end \in Nat /\ e.start \in Nat /\ e.end \in Nat
        /\ x \in Attributed /\ e \in Attributed
    BY <1>4
  <2>3. CASE e \in T
    <3>1. m.start <= e.start /\ e.end <= m.end /\ Beats(m, e) BY <1>5, <2>3
    <3>2. Beats(e, x) BY <1>6 DEF IsComponent, Summarises
    <3>3. Beats(m, x) BY <1>1, <2>2, <3>1, <3>2, BeatsTransitive
    <3>4. m.start <= x.start /\ x.end <= m.end BY <1>1, <2>1, <2>2, <3>1
    <3> QED BY <2>1, <2>3, <3>3, <3>4
  <2>4. CASE e \notin T
    <3>1. e.end < m.start \/ m.end < e.start BY <1>3, <2>4
    <3>2. x.end < m.start \/ m.end < x.start BY <1>1, <2>1, <2>2, <3>1
    <3> QED BY <2>1, <2>4, <3>2
  <2> QED BY <2>3, <2>4
<1>7. Summarises(m, Inside(U, m))
  <2>1. s \in Inside(U, m) /\ Beats(m, s) BY <1>1 DEF Inside, Summarises
  <2>2. ASSUME NEW x \in Inside(U, m) PROVE m.start <= x.start /\ x.end <= m.end /\ Beats(m, x)
    <3>1. x \in S \cup {s} /\ m.start <= x.start /\ x.end <= m.end BY DEF Inside
    <3>2. CASE x = s BY <2>1, <3>1, <3>2
    <3>3. CASE x \in S
      <4>1. PICK e \in E : x \in Inside(S, e) BY <3>3
      <4>2. x.start \in Nat /\ x.end \in Nat /\ x.start < x.end BY <1>4, <3>3
      <4>3. ~(x.end < m.start \/ m.end < x.start) BY <1>1, <3>1, <4>2
      <4> QED BY <1>6, <3>1, <3>3, <4>1, <4>3
    <3> QED BY <3>1, <3>2, <3>3
  <2>3. ASSUME NEW e \in T, NEW x \in Inside(S, e) PROVE x \in Inside(U, m)
    <3>1. x \in S /\ e \in E BY <1>2 DEF Inside
    <3>2. m.start <= x.start /\ x.end <= m.end BY <1>6, <3>1
    <3> QED BY <3>1, <3>2 DEF Inside
  <2>4. \A e \in T : Summarises(e, Inside(S, e)) BY <1>2 DEF IsComponent
  <2>5. \E x \in Inside(U, m) : m.start = x.start
    <3>1. PICK a \in T \cup {s} : m.start = a.start BY <1>1 DEF Summarises
    <3>2. CASE a \in T
      <4>1. PICK x \in Inside(S, a) : a.start = x.start BY <2>4, <3>2 DEF Summarises
      <4> QED BY <2>3, <3>1, <3>2, <4>1
    <3> QED BY <2>1, <3>1, <3>2
  <2>6. \E x \in Inside(U, m) : m.end = x.end
    <3>1. PICK a \in T \cup {s} : m.end = a.end BY <1>1 DEF Summarises
    <3>2. CASE a \in T
      <4>1. PICK x \in Inside(S, a) : a.end = x.end BY <2>4, <3>2 DEF Summarises
      <4> QED BY <2>3, <3>1, <3>2, <4>1
    <3> QED BY <2>1, <3>1, <3>2
  <2>7. \E x \in Inside(U, m) : /\ m.rule = x.rule /\ m.confidence = x.confidence
                                /\ m.attribStart = x.attribStart
    <3>1. PICK a \in T \cup {s} : /\ m.rule = a.rule /\ m.confidence = a.confidence
                                  /\ m.attribStart = a.attribStart
      BY <1>1 DEF Summarises
    <3>2. CASE a \in T
      <4>1. PICK x \in Inside(S, a) : /\ a.rule = x.rule /\ a.confidence = x.confidence
                                      /\ a.attribStart = x.attribStart
        BY <2>4, <3>2 DEF Summarises
      <4> QED BY <2>3, <3>1, <3>2, <4>1
    <3> QED BY <2>1, <3>1, <3>2
  <2> HIDE DEF U
  <2> QED BY <2>2, <2>5, <2>6, <2>7 DEF Summarises
<1>8. \A i \in m.start .. (m.end - 1) : \E x \in U : x.start <= i /\ i < x.end
  <2> TAKE i \in m.start .. (m.end - 1)
  <2>1. i \in Int /\ m.start <= i /\ i < m.end BY <1>1
  <2>2. \E t \in T \cup {s} : t.start <= i /\ i < t.end
    <3>1. PICK a \in T \cup {s} : m.start = a.start BY <1>1 DEF Summarises
    <3>2. PICK b \in T \cup {s} : m.end = b.end BY <1>1 DEF Summarises
    <3>3. (a = s \/ Touches(a, s)) /\ (b = s \/ Touches(b, s)) BY <1>2
    <3>4. a \in E \cup {s} /\ b \in E \cup {s} BY <1>2
    <3>5. /\ a.start \in Nat /\ a.end \in Nat /\ b.start \in Nat /\ b.end \in Nat
          /\ s.start \in Nat /\ s.end \in Nat
      BY <1>4, <3>4
    <3>6. CASE i < s.start
      <4>1. a.start <= i /\ i < a.end BY <2>1, <3>1, <3>3, <3>5, <3>6 DEF Touches
      <4> QED BY <4>1
    <3>7. CASE s.end <= i
      <4>1. b.start <= i /\ i < b.end BY <2>1, <3>2, <3>3, <3>5, <3>7 DEF Touches
      <4> QED BY <4>1
    <3>8. CASE s.start <= i /\ i < s.end BY <3>8
    <3> QED BY <2>1, <3>5, <3>6, <3>7, <3>8
  <2>3. PICK t \in T \cup {s} : t.start <= i /\ i < t.end BY <2>2
  <2>4. CASE t = s BY <2>3, <2>4
  <2>5. CASE t \in T
    <3>1. t \in E /\ t.start \in Nat /\ t.end \in Nat BY <1>2, <1>4, <2>5
    <3>2. i \in t.start .. (t.end - 1) BY <2>1, <2>3, <3>1
    <3>3. IsComponent(t, S) BY <3>1
    <3> QED BY <3>2, <3>3 DEF IsComponent
  <2> QED BY <2>3, <2>4, <2>5
<1>9. \A x \in U \ Inside(U, m) : x.end < m.start \/ m.end < x.start
  <2> TAKE x \in U \ Inside(U, m)
  <2>1. x # s BY <1>1 DEF Inside
  <2>2. x \in S /\ ~(m.start <= x.start /\ x.end <= m.end) BY <2>1 DEF Inside
  <2>3. PICK e \in E : x \in Inside(S, e) BY <2>2
  <2> QED BY <1>6, <2>2, <2>3
<1>10. IsComponent(m, U)
  <2> HIDE DEF U
  <2> QED BY <1>7, <1>8, <1>9 DEF IsComponent
<1>11. ASSUME NEW e \in E \ T PROVE IsComponent(e, U)
  <2>1. IsComponent(e, S) /\ ~Touches(e, s) BY <1>2
  <2>2. /\ e.start \in Nat /\ e.end \in Nat /\ s.start \in Nat /\ s.end \in Nat
        /\ s.start < s.end /\ e.start < e.end
    BY <1>4
  <2>3. s.end < e.start \/ e.end < s.start BY <2>1, <2>2 DEF Touches
  <2>4. ~(e.start <= s.start /\ s.end <= e.end) BY <2>2, <2>3
  <2>5. Inside(U, e) = Inside(S, e) BY <2>4 DEF Inside
  <2>6. \A x \in U \ Inside(U, e) : x.end < e.start \/ e.end < x.start
    BY <2>1, <2>3, <2>5 DEF IsComponent
  <2>7. \A i \in e.start .. (e.end - 1) : \E x \in U : x.start <= i /\ i < x.end
    BY <2>1 DEF IsComponent
  <2>8. Summarises(e, Inside(U, e)) BY <2>1, <2>5 DEF IsComponent
  <2> HIDE DEF U
  <2> QED BY <2>6, <2>7, <2>8 DEF IsComponent
<1>12. ASSUME NEW x \in U PROVE \E e \in (E \ T) \cup {m} : x \in Inside(U, e)
  <2>1. CASE x = s BY <1>1, <2>1 DEF Inside
  <2>2. CASE x \in S
    <3>1. PICK e \in E : x \in Inside(S, e) BY <2>2
    <3>2. CASE e \in T
      <4>1. x \in Inside(U, m) BY <1>6, <2>2, <3>1, <3>2 DEF Inside
      <4> QED BY <4>1
    <3>3. CASE e \in E \ T
      <4>1. x \in Inside(U, e) BY <2>2, <3>1 DEF Inside
      <4> QED BY <3>3, <4>1
    <3> QED BY <3>2, <3>3
  <2> QED BY <2>1, <2>2
<1> HIDE DEF U
<1>13. \A e \in AddSpan(E, s) : IsComponent(e, U) BY <1>1, <1>10, <1>11
<1> QED BY <1>1, <1>12, <1>13 DEF U

(* Spans that start beyond a component leave it one.                       *)
LEMMA ComponentStays ==
    ASSUME NEW S, NEW U, NEW e, IsComponent(e, S), e.end \in Nat,
           \A u \in U : u.start \in Nat /\ u.end \in Nat /\ u.start < u.end /\ e.end < u.start
    PROVE  IsComponent(e, S \cup U)
<1>1. \A u \in U : ~(u.end <= e.end) OBVIOUS
<1>2. Inside(S \cup U, e) = Inside(S, e) BY <1>1 DEF Inside
<1>3. \A x \in (S \cup U) \ Inside(S, e) : x.end < e.start \/ e.end < x.start BY DEF IsComponent
<1> QED BY <1>2, <1>3 DEF IsComponent

----------------------------------------------------------------------------
(* The sequence FlattenSeq computes, by induction on its length.           *)

(* The recursive function in FlattenSeq.                                   *)
Flat(s, n) == LET flatten[i \in 1 .. n] ==
                      IF i = 1 THEN s[i] ELSE flatten[i - 1] \o s[i]
              IN  flatten

LEMMA FlatDef ==
    ASSUME NEW s, NEW n \in Nat
    PROVE  Flat(s, n) = [i \in 1 .. n |-> IF i = 1 THEN s[i] ELSE Flat(s, n)[i - 1] \o s[i]]
<1> DEFINE Is(f, k) == f = [i \in 1 .. k |-> IF i = 1 THEN s[i] ELSE f[i - 1] \o s[i]]
           P == {k \in Nat : \E f : Is(f, k)}
<1>1. 0 \in P
  <2>1. Is(<<>>, 0) OBVIOUS
  <2> QED BY <2>1
<1>2. ASSUME NEW k \in Nat, k \in P PROVE k + 1 \in P
  <2>1. PICK f : Is(f, k) BY <1>2
  <2> DEFINE last == IF k = 0 THEN s[1] ELSE f[k] \o s[k + 1]
             g == [i \in 1 .. k + 1 |-> IF i = k + 1 THEN last ELSE f[i]]
             h == [i \in 1 .. k + 1 |-> IF i = 1 THEN s[i] ELSE g[i - 1] \o s[i]]
  <2>2. \A i \in 1 .. k : f[i] = IF i = 1 THEN s[i] ELSE f[i - 1] \o s[i] BY <2>1
  <2>3. \A i \in 1 .. k : g[i] = f[i] OBVIOUS
  <2>4. g[k + 1] = IF k = 0 THEN s[1] ELSE f[k] \o s[k + 1] OBVIOUS
  <2> HIDE DEF g, last, Is
  <2>5. ASSUME NEW i \in 1 .. k + 1 PROVE g[i] = IF i = 1 THEN s[i] ELSE g[i - 1] \o s[i]
    <3>1. CASE i = k + 1 /\ k = 0 BY <3>1, <2>4
    <3>2. CASE i = k + 1 /\ k # 0
      <4>1. i - 1 = k /\ k \in 1 .. k /\ i # 1 BY <3>2
      <4> QED BY <4>1, <3>2, <2>3, <2>4
    <3>3. CASE i \in 1 .. k /\ i = 1 BY <3>3, <2>2, <2>3
    <3>4. CASE i \in 1 .. k /\ i # 1
      <4>1. i - 1 \in 1 .. k BY <3>4
      <4> QED BY <4>1, <3>4, <2>2, <2>3
    <3> QED BY <3>1, <3>2, <3>3, <3>4
  <2>6. g = [i \in 1 .. k + 1 |-> g[i]] BY DEF g
  <2>7. Is(g, k + 1) BY <2>5, <2>6 DEF Is
  <2> QED BY <2>7
<1>3. Nat \subseteq P
  <2> HIDE DEF P
  <2> QED BY <1>1, <1>2, Inductive
<1>4. \E f : Is(f, n) BY <1>3
<1> QED BY <1>4 DEF Flat

LEMMA FlatAt ==
    ASSUME NEW s, NEW n \in Nat, NEW i \in 1 .. n
    PROVE  Flat(s, n)[i] = IF i = 1 THEN s[i] ELSE Flat(s, n)[i - 1] \o s[i]
<1> DEFINE f == Flat(s, n)
<1>1. f = [k \in 1 .. n |-> IF k = 1 THEN s[k] ELSE f[k - 1] \o s[k]] BY FlatDef
<1> HIDE DEF f
<1> QED BY <1>1 DEF f

Agree(S, m, s, t) == \A i \in 1 .. m : s[i] = t[i] /\ s[i] \in Seq(S)

(* It depends on the sequences up to the one it is asked for, and is one.  *)
LEMMA FlatLocal ==
    ASSUME NEW S, NEW m \in Nat, NEW n \in Nat, NEW s, NEW t, m <= n,
           Agree(S, m, s, t), NEW l \in 1 .. m
    PROVE  Flat(s, m)[l] = Flat(t, n)[l] /\ Flat(s, m)[l] \in Seq(S)
<1> DEFINE Same(i) == Flat(s, m)[i] = Flat(t, n)[i] /\ Flat(s, m)[i] \in Seq(S)
           P == {i \in Nat : i \in 1 .. m => Same(i)}
<1>1. 0 \in P OBVIOUS
<1>2. ASSUME NEW i \in Nat, i \in P PROVE i + 1 \in P
  <2> SUFFICES ASSUME i + 1 \in 1 .. m PROVE Same(i + 1) OBVIOUS
  <2>1. i + 1 \in 1 .. n /\ s[i + 1] = t[i + 1] /\ s[i + 1] \in Seq(S) BY DEF Agree
  <2>2. /\ Flat(s, m)[i + 1] = IF i + 1 = 1 THEN s[i + 1] ELSE Flat(s, m)[i] \o s[i + 1]
        /\ Flat(t, n)[i + 1] = IF i + 1 = 1 THEN t[i + 1] ELSE Flat(t, n)[i] \o t[i + 1]
    <3>1. PICK j : j = i + 1 /\ j - 1 = i OBVIOUS
    <3>2. j \in 1 .. m /\ j \in 1 .. n BY <2>1, <3>1
    <3>3. Flat(s, m)[j] = IF j = 1 THEN s[j] ELSE Flat(s, m)[j - 1] \o s[j] BY <3>2, FlatAt
    <3>4. Flat(t, n)[j] = IF j = 1 THEN t[j] ELSE Flat(t, n)[j - 1] \o t[j] BY <3>2, FlatAt
    <3> QED BY <3>1, <3>3, <3>4
  <2>3. CASE i = 0 BY <2>1, <2>2, <2>3
  <2>4. CASE i # 0
    <3>1. Same(i) BY <1>2, <2>4
    <3> QED BY <2>1, <2>2, <2>4, <3>1, ConcatProperties
  <2> QED BY <2>3, <2>4
<1>3. Nat \subseteq P
  <2> HIDE DEF P
  <2> QED BY <1>1, <1>2, Inductive
<1> QED BY <1>3

(* What FlattenSeq does with one more sequence.                            *)
LEMMA FlattenIsFlat ==
    ASSUME NEW s
    PROVE  FlattenSeq(s) = IF Len(s) = 0 THEN s ELSE Flat(s, Len(s))[Len(s)]
BY Zenon DEF FlattenSeq, Flat

LEMMA FlattenOneMore ==
    ASSUME NEW S, NEW n \in Nat, NEW s \in [1 .. n + 1 -> Seq(S)], NEW t \in [1 .. n -> Seq(S)],
           \A i \in 1 .. n : t[i] = s[i]
    PROVE  /\ FlattenSeq(s) = FlattenSeq(t) \o s[n + 1]
           /\ FlattenSeq(s) \in Seq(S) /\ FlattenSeq(t) \in Seq(S)
<1>1. s \in Seq(Seq(S)) /\ t \in Seq(Seq(S)) /\ Len(s) = n + 1 /\ Len(t) = n
  <2>1. s \in [1 .. n + 1 -> Seq(S)] /\ t \in [1 .. n -> Seq(S)] OBVIOUS
  <2> QED BY <2>1
<1>2. FlattenSeq(s) = Flat(s, n + 1)[n + 1] BY <1>1, FlattenIsFlat
<1>3. FlattenSeq(t) = IF n = 0 THEN t ELSE Flat(t, n)[n] BY <1>1, FlattenIsFlat
<1>4. s[n + 1] \in Seq(S) /\ n + 1 \in Nat OBVIOUS
<1>5. Flat(s, n + 1)[n + 1] = IF n = 0 THEN s[n + 1] ELSE Flat(s, n + 1)[n] \o s[n + 1]
  <2>1. PICK j : j = n + 1 /\ j - 1 = n /\ j \in 1 .. j /\ j \in Nat OBVIOUS
  <2>2. Flat(s, j)[j] = IF j = 1 THEN s[j] ELSE Flat(s, j)[j - 1] \o s[j] BY <2>1, FlatAt
  <2> QED BY <2>1, <2>2
<1>6. CASE n = 0
  <2>1. t = <<>> /\ t \in Seq(S) BY <1>1, <1>6
  <2> QED BY <1>2, <1>3, <1>4, <1>5, <1>6, <2>1, ConcatEmptySeq
<1>7. CASE n # 0
  <2>1. \A i \in 1 .. n : t[i] = s[i] /\ t[i] \in Seq(S) OBVIOUS
  <2>2. n <= n + 1 /\ n \in 1 .. n BY <1>7
  <2>3. Flat(t, n)[n] = Flat(s, n + 1)[n] /\ Flat(t, n)[n] \in Seq(S)
    <3>1. PICK k : k = n + 1 /\ k \in Nat /\ n <= k OBVIOUS
    <3>2. Agree(S, n, t, s) BY <2>1 DEF Agree
    <3> QED BY <2>2, <3>1, <3>2, FlatLocal
  <2>4. Flat(t, n)[n] \o s[n + 1] \in Seq(S) BY <1>4, <2>3, ConcatProperties
  <2> QED BY <1>2, <1>3, <1>5, <1>7, <2>3, <2>4
<1> QED BY <1>6, <1>7
=============================================================================
