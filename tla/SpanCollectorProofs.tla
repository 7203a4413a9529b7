------------------------ MODULE SpanCollectorProofs ------------------------
(***************************************************************************)
(* The sorted slice of a Collector implements the components of the spans  *)
(* added: Add's splice is AddSpan, the slice holds what has not been       *)
(* released, and every call answers as the abstract collector would.       *)
(***************************************************************************)
EXTENDS SpanCollectorInv, SpansProofs, SequenceTheorems, FiniteSetTheorems, TLAPS

----------------------------------------------------------------------------
(* The loop over the entries a span touches.                               *)

LEMMA BetterAttribBeats ==
    ASSUME NEW a \in Attributed, NEW b \in Attributed
    PROVE  /\ BetterAttrib(a, b) \in {a, b}
           /\ Beats(BetterAttrib(a, b), a) /\ Beats(BetterAttrib(a, b), b)
<1>1. /\ a.rule \in Nat /\ a.confidence \in Nat /\ a.attribStart \in Nat
      /\ b.rule \in Nat /\ b.confidence \in Nat /\ b.attribStart \in Nat
  BY AttributedFields
<1>2. BetterAttrib(a, b) = IF a.confidence # b.confidence
                           THEN IF a.confidence > b.confidence THEN a ELSE b
                           ELSE IF a.attribStart # b.attribStart
                           THEN IF a.attribStart < b.attribStart THEN a ELSE b
                           ELSE IF a.rule <= b.rule THEN a ELSE b
  BY DEF BetterAttrib
<1>3. CASE a.confidence # b.confidence BY <1>1, <1>2, <1>3 DEF Beats
<1>4. CASE a.confidence = b.confidence /\ a.attribStart # b.attribStart
  BY <1>1, <1>2, <1>4 DEF Beats
<1>5. CASE a.confidence = b.confidence /\ a.attribStart = b.attribStart
  BY <1>1, <1>2, <1>5 DEF Beats
<1> QED BY <1>3, <1>4, <1>5

LEMMA AbsorbSummarises ==
    ASSUME NEW S \in SUBSET Attributed, NEW m \in Attributed, Summarises(m, S), NEW e \in Attributed
    PROVE  Absorb(m, e) \in Attributed /\ Summarises(Absorb(m, e), S \cup {e})
<1> DEFINE n == Absorb(m, e) best == BetterAttrib(m, e)
<1>1. best \in {m, e} /\ Beats(best, m) /\ Beats(best, e) BY BetterAttribBeats
<1>2. /\ n.start = Lower(m.start, e.start) /\ n.end = Higher(m.end, e.end)
      /\ n.rule = best.rule /\ n.confidence = best.confidence /\ n.attribStart = best.attribStart
      /\ n = [start |-> Lower(m.start, e.start), end |-> Higher(m.end, e.end),
              rule |-> best.rule, confidence |-> best.confidence, attribStart |-> best.attribStart]
  BY DEF Absorb
<1> HIDE DEF n, best
<1>3. /\ m.start \in Nat /\ m.end \in Nat /\ e.start \in Nat /\ e.end \in Nat
      /\ best.rule \in Nat /\ best.confidence \in Nat /\ best.attribStart \in Nat
      /\ best \in Attributed
  BY <1>1, AttributedFields
<1>4. /\ n.start \in Nat /\ n.end \in Nat
      /\ n.start <= m.start /\ n.start <= e.start /\ m.end <= n.end /\ e.end <= n.end
      /\ (n.start = m.start \/ n.start = e.start) /\ (n.end = m.end \/ n.end = e.end)
  BY <1>2, <1>3 DEF Lower, Higher
<1>5. n \in Attributed BY <1>2, <1>3, <1>4 DEF Attributed
<1>6. Beats(n, m) /\ Beats(n, e) BY <1>1, <1>2 DEF Beats
<1>7. ASSUME NEW x \in S PROVE n.start <= x.start /\ x.end <= n.end /\ Beats(n, x)
  <2>1. m.start <= x.start /\ x.end <= m.end /\ Beats(m, x) BY DEF Summarises
  <2>2. x.start \in Nat /\ x.end \in Nat /\ x \in Attributed BY AttributedFields
  <2>3. Beats(n, x) BY <1>5, <1>6, <2>1, <2>2, BeatsTransitive
  <2> QED BY <1>3, <1>4, <2>1, <2>2, <2>3
<1>8. \E x \in S \cup {e} : n.start = x.start BY <1>4 DEF Summarises
<1>9. \E x \in S \cup {e} : n.end = x.end BY <1>4 DEF Summarises
<1>10. \E x \in S \cup {e} : n.rule = x.rule /\ n.confidence = x.confidence /\ n.attribStart = x.attribStart
  <2>1. CASE best = e BY <1>2, <2>1
  <2>2. CASE best = m
    <3>1. PICK x \in S : m.rule = x.rule /\ m.confidence = x.confidence /\ m.attribStart = x.attribStart
      BY DEF Summarises
    <3> QED BY <1>2, <2>2, <3>1
  <2> QED BY <1>1, <2>1, <2>2
<1>11. Summarises(n, S \cup {e}) BY <1>4, <1>6, <1>7, <1>8, <1>9, <1>10 DEF Summarises
<1> QED BY <1>5, <1>11 DEF n

(* The recursive function in MergedEntry, and its recursion.               *)
Absorbed(touched, s) ==
    LET absorbed[n \in 0 .. Len(touched)] ==
            IF n = 0 THEN s ELSE Absorb(absorbed[n - 1], touched[n])
    IN  absorbed

LEMMA AbsorbedAt ==
    ASSUME NEW q, NEW s, Len(q) \in Nat, NEW n \in 0 .. Len(q)
    PROVE  Absorbed(q, s)[n] = IF n = 0 THEN s ELSE Absorb(Absorbed(q, s)[n - 1], q[n])
<1> DEFINE Is(f, k) == f = [i \in 0 .. k |-> IF i = 0 THEN s ELSE Absorb(f[i - 1], q[i])]
           P == {k \in Nat : \E f : Is(f, k)}
<1>1. 0 \in P
  <2> DEFINE f == [i \in 0 .. 0 |-> s]
  <2>1. f = [i \in 0 .. 0 |-> IF i = 0 THEN s ELSE Absorb(f[i - 1], q[i])] OBVIOUS
  <2>2. Is(f, 0) BY <2>1
  <2> QED BY <2>2
<1>2. ASSUME NEW k \in Nat, k \in P PROVE k + 1 \in P
  <2>1. PICK f : Is(f, k) BY <1>2
  <2> DEFINE g == [i \in 0 .. k + 1 |-> IF i = k + 1 THEN Absorb(f[k], q[k + 1]) ELSE f[i]]
  <2>2. \A i \in 0 .. k : f[i] = IF i = 0 THEN s ELSE Absorb(f[i - 1], q[i]) BY <2>1
  <2>3. \A i \in 0 .. k : g[i] = f[i] OBVIOUS
  <2>4. g[k + 1] = Absorb(f[k], q[k + 1]) OBVIOUS
  <2>5. g = [i \in 0 .. k + 1 |-> g[i]] OBVIOUS
  <2> HIDE DEF g, Is
  <2>6. ASSUME NEW i \in 0 .. k + 1 PROVE g[i] = IF i = 0 THEN s ELSE Absorb(g[i - 1], q[i])
    <3>1. CASE i = k + 1
      <4>1. i - 1 = k /\ k \in 0 .. k /\ i # 0 BY <3>1
      <4> QED BY <4>1, <3>1, <2>3, <2>4
    <3>2. CASE i = 0
      <4>1. 0 \in 0 .. k OBVIOUS
      <4> QED BY <3>2, <4>1, <2>2, <2>3
    <3>3. CASE i # 0 /\ i # k + 1
      <4>1. i \in 0 .. k /\ i - 1 \in 0 .. k BY <3>3
      <4> QED BY <3>3, <4>1, <2>2, <2>3
    <3> QED BY <3>1, <3>2, <3>3
  <2>7. Is(g, k + 1) BY <2>5, <2>6 DEF Is
  <2> QED BY <2>7
<1>3. Nat \subseteq P
  <2> HIDE DEF P
  <2> QED BY <1>1, <1>2, Inductive
<1>4. \E f : Is(f, Len(q)) BY <1>3
<1> DEFINE a == Absorbed(q, s)
<1>5. a = [i \in 0 .. Len(q) |-> IF i = 0 THEN s ELSE Absorb(a[i - 1], q[i])]
  BY <1>4 DEF Absorbed
<1> HIDE DEF a
<1> QED BY <1>5 DEF a

(* However many entries are touched, what the loop makes of them is what   *)
(* merging them and the added span gives.                                  *)
LEMMA MergedIsMerge ==
    ASSUME NEW len \in Nat, NEW top \in Nat, NEW q \in Seq(Attributed), NEW s \in Attributed,
           Regular(Range(q) \cup {s}, len, top)
    PROVE  MergedEntry(q, s) = Merge(Range(q) \cup {s})
<1>0. Len(q) \in Nat /\ DOMAIN q = 1 .. Len(q) /\ \A i \in 1 .. Len(q) : q[i] \in Attributed
  BY LenProperties, ElementOfSeq
<1> DEFINE f == Absorbed(q, s)
           seen(n) == {q[i] : i \in 1 .. n} \cup {s}
           Good(n) == f[n] \in Attributed /\ Summarises(f[n], seen(n))
           P == {n \in Nat : n <= Len(q) => Good(n)}
<1>1. 0 \in P
  <2>1. f[0] = s
    <3>1. PICK n \in 0 .. Len(q) : n = 0 BY <1>0
    <3>2. Absorbed(q, s)[n] = s BY <1>0, <3>1, AbsorbedAt
    <3> QED BY <3>1, <3>2
  <2>2. seen(0) = {s} OBVIOUS
  <2>3. s.start \in Nat /\ s.end \in Nat /\ s.rule \in Nat /\ s.confidence \in Nat /\ s.attribStart \in Nat
    BY AttributedFields
  <2>4. Summarises(s, {s}) BY <2>3 DEF Summarises, Beats
  <2> HIDE DEF f, seen
  <2> QED BY <2>1, <2>2, <2>4
<1>2. ASSUME NEW n \in Nat, n \in P PROVE n + 1 \in P
  <2> SUFFICES ASSUME n + 1 <= Len(q) PROVE Good(n + 1) OBVIOUS
  <2>1. PICK k \in 1 .. Len(q) : k = n + 1 /\ k - 1 = n /\ k # 0 BY <1>0
  <2>2. k \in 0 .. Len(q) /\ n <= Len(q) BY <1>0, <2>1
  <2>3. f[k] = Absorb(f[n], q[k])
    <3>1. Absorbed(q, s)[k] = IF k = 0 THEN s ELSE Absorb(Absorbed(q, s)[k - 1], q[k])
      BY <1>0, <2>2, AbsorbedAt
    <3> QED BY <2>1, <3>1
  <2>4. Good(n) BY <1>2, <2>2
  <2>5. seen(n) \in SUBSET Attributed
    <3>1. \A i \in 1 .. n : i \in 1 .. Len(q) BY <1>0, <2>2
    <3> QED BY <1>0, <3>1
  <2>6. seen(k) = seen(n) \cup {q[k]}
    <3>1. \A i \in 1 .. k : i = k \/ i \in 1 .. n BY <2>1
    <3>2. \A i \in 1 .. n : i \in 1 .. k BY <2>1
    <3>3. k \in 1 .. k BY <2>1
    <3> QED BY <3>1, <3>2, <3>3
  <2>7. q[k] \in Attributed BY <1>0
  <2> HIDE DEF f, seen
  <2>8. Absorb(f[n], q[k]) \in Attributed /\ Summarises(Absorb(f[n], q[k]), seen(n) \cup {q[k]})
    BY <2>4, <2>5, <2>7, AbsorbSummarises
  <2> QED BY <2>1, <2>3, <2>6, <2>8
<1>3. Nat \subseteq P
  <2> HIDE DEF P
  <2> QED BY <1>1, <1>2, Inductive
<1>4. Good(Len(q))
  <2> HIDE DEF Good
  <2> QED BY <1>0, <1>3
<1>5. seen(Len(q)) = Range(q) \cup {s} BY <1>0 DEF Range
<1>6. MergedEntry(q, s) = f[Len(q)] BY DEF MergedEntry, Absorbed
<1> DEFINE U == Range(q) \cup {s}
<1>7. f[Len(q)] \in Attributed /\ Summarises(f[Len(q)], U) BY <1>4, <1>5
<1>8. U # {} /\ Regular(U, len, top) OBVIOUS
<1>9. U \subseteq Attributed BY <1>0 DEF Range
<1> HIDE DEF f, U
<1>10. Merge(U) \in Attributed /\ Summarises(Merge(U), U) BY <1>8, MergeSummarises
<1>11. Merge(U) = f[Len(q)] BY <1>7, <1>9, <1>10, SummaryUnique
<1> QED BY <1>6, <1>11 DEF U

----------------------------------------------------------------------------
(* sort.Search on the slice.                                               *)

LEMMA SearchIs ==
    ASSUME NEW n \in Nat, NEW S \in SUBSET (0 .. n - 1)
    PROVE  /\ Search(n, S) \in 0 .. n
           /\ \A i \in S : Search(n, S) <= i
           /\ Search(n, S) < n => Search(n, S) \in S
<1> DEFINE U == S \cup {n}
<1>1. U \in SUBSET Int /\ U # {} /\ \A x \in U : 0 <= x OBVIOUS
<1>2. \A x \in U : x \in 0 .. n /\ (x < n => x \in S) OBVIOUS
<1>3. Search(n, S) = Min(U) BY DEF Search
<1> HIDE DEF U
<1>4. Min(U) \in U /\ \A y \in U : Min(U) <= y BY <1>1, 0 \in Int, MinBounded
<1>5. \A i \in S : i \in U BY DEF U
<1> QED BY <1>2, <1>3, <1>4, <1>5

(* A slice as the invariant has it: typed, sorted, of sound entries.       *)
Slice(q) == q \in Seq(Attributed) /\ Sorted(q) /\ Sound(Range(q))

LEMMA SoundIsRegular == \A S : Sound(S) <=> Regular(S, LastOffset, 255)
BY DEF Sound, Regular, Within, Entries, Attributed

LEMMA SliceEntries ==
    ASSUME NEW q, Slice(q)
    PROVE  /\ Len(q) \in Nat /\ DOMAIN q = 1 .. Len(q) /\ Range(q) = {q[i] : i \in 1 .. Len(q)}
           /\ \A i \in 1 .. Len(q) :
                /\ q[i] \in Attributed /\ q[i] \in Range(q)
                /\ q[i].start \in Nat /\ q[i].end \in Nat /\ q[i].start < q[i].end
           /\ \A i, j \in 1 .. Len(q) : i < j => q[i].end < q[j].start
<1>1. Len(q) \in Nat /\ DOMAIN q = 1 .. Len(q) /\ \A i \in 1 .. Len(q) : q[i] \in Attributed
  BY LenProperties, ElementOfSeq DEF Slice
<1>2. Range(q) = {q[i] : i \in 1 .. Len(q)} BY <1>1 DEF Range
<1>3. \A i \in 1 .. Len(q) : q[i] \in Range(q) BY <1>2
<1>4. \A i \in 1 .. Len(q) : q[i].start < q[i].end BY <1>3 DEF Slice, Sound
<1> QED BY <1>1, <1>2, <1>3, <1>4, AttributedFields DEF Slice, Sorted

(* Entries below lo end before s starts, entries from hi on start after it *)
(* ends, and s touches those between.                                      *)
LEMMA Window ==
    ASSUME NEW q, Slice(q), NEW s \in Attributed, s.start < s.end
    PROVE  /\ Lo(q, s) \in 0 .. Len(q) /\ Hi(q, s) \in 0 .. Len(q) /\ Lo(q, s) <= Hi(q, s)
           /\ \A i \in 1 .. Len(q) :
                /\ i <= Lo(q, s) => q[i].end < s.start
                /\ Hi(q, s) < i => s.end < q[i].start
                /\ Lo(q, s) < i /\ i <= Hi(q, s) => Touches(q[i], s)
<1> DEFINE n == Len(q)
           L == {i \in Indexes(q) : q[i + 1].end >= s.start}
           H == {i \in Indexes(q) : q[i + 1].start > s.end}
           lo == Lo(q, s)
           hi == Hi(q, s)
<1>1. /\ n \in Nat
      /\ \A i \in 1 .. n : q[i].start \in Nat /\ q[i].end \in Nat /\ q[i].start < q[i].end
      /\ \A i, j \in 1 .. n : i < j => q[i].end < q[j].start
  BY SliceEntries
<1>2. s.start \in Nat /\ s.end \in Nat BY AttributedFields
<1>3. L \in SUBSET (0 .. n - 1) /\ H \in SUBSET (0 .. n - 1) BY DEF Indexes
<1>4. lo = Search(n, L) /\ hi = Search(n, H) BY DEF Lo, Hi
<1>5. \A i \in 1 .. n : /\ i - 1 \in 0 .. n - 1
                        /\ i - 1 \in L <=> q[i].end >= s.start
                        /\ i - 1 \in H <=> q[i].start > s.end
  <2> TAKE i \in 1 .. n
  <2>1. PICK k : k = i - 1 /\ k + 1 = i /\ k \in 0 .. n - 1 BY <1>1
  <2>2. k \in L <=> q[k + 1].end >= s.start BY <2>1 DEF Indexes
  <2>3. k \in H <=> q[k + 1].start > s.end BY <2>1 DEF Indexes
  <2> HIDE DEF L, H
  <2> QED BY <2>1, <2>2, <2>3
<1> HIDE DEF L, H, n, lo, hi
<1>6. lo \in 0 .. n /\ (\A i \in L : lo <= i) /\ (lo < n => lo \in L)
  BY <1>1, <1>3, <1>4, SearchIs
<1>7. hi \in 0 .. n /\ (\A i \in H : hi <= i) /\ (hi < n => hi \in H)
  BY <1>1, <1>3, <1>4, SearchIs
<1>8. ASSUME NEW i \in 1 .. n, i <= lo PROVE q[i].end < s.start
  <2>1. i - 1 \notin L BY <1>1, <1>6, <1>8
  <2> QED BY <1>1, <1>2, <1>5, <2>1
<1>9. ASSUME NEW i \in 1 .. n, i <= hi PROVE q[i].start <= s.end
  <2>1. i - 1 \notin H BY <1>1, <1>7, <1>9
  <2> QED BY <1>1, <1>2, <1>5, <2>1
<1>10. ASSUME NEW i \in 1 .. n, lo < i PROVE q[i].end >= s.start
  <2>1. PICK k \in 1 .. n : k = lo + 1 /\ k - 1 = lo /\ lo < n BY <1>1, <1>6, <1>10
  <2>2. q[k].end >= s.start BY <1>5, <1>6, <2>1
  <2>3. CASE k = i BY <2>2, <2>3
  <2>4. CASE k < i BY <1>1, <1>2, <2>2, <2>4
  <2> QED BY <1>1, <1>6, <1>10, <2>1, <2>3, <2>4
<1>11. ASSUME NEW i \in 1 .. n, hi < i PROVE q[i].start > s.end
  <2>1. PICK k \in 1 .. n : k = hi + 1 /\ k - 1 = hi /\ hi < n BY <1>1, <1>7, <1>11
  <2>2. q[k].start > s.end BY <1>5, <1>7, <2>1
  <2>3. CASE k = i BY <2>2, <2>3
  <2>4. CASE k < i BY <1>1, <1>2, <2>2, <2>4
  <2> QED BY <1>1, <1>7, <1>11, <2>1, <2>3, <2>4
<1>12. lo <= hi
  <2>1. CASE hi < lo
    <3>1. PICK k \in 1 .. n : k = hi + 1 /\ hi < k /\ k <= lo BY <1>1, <1>6, <1>7, <2>1
    <3>2. q[k].end < s.start /\ q[k].start > s.end BY <1>8, <1>11, <3>1
    <3> QED BY <1>1, <1>2, <3>2
  <2> QED BY <1>6, <1>7, <2>1
<1>13. ASSUME NEW i \in 1 .. n, lo < i, i <= hi PROVE Touches(q[i], s)
  BY <1>9, <1>10, <1>13, <1>1, <1>2 DEF Touches
<1>14. /\ lo \in 0 .. n /\ hi \in 0 .. n /\ lo <= hi
       /\ \A i \in 1 .. n : /\ i <= lo => q[i].end < s.start
                            /\ hi < i => s.end < q[i].start
                            /\ lo < i /\ i <= hi => Touches(q[i], s)
  <2>1. \A i \in 1 .. n : hi < i => s.end < q[i].start BY <1>11, <1>1, <1>2
  <2> QED BY <1>6, <1>7, <1>8, <1>12, <1>13, <2>1
<1> QED BY <1>14 DEF n, lo, hi

(* A splice of m, and the entry at each place after it.                    *)
Splicing(q, m, lo, hi) == SubSeq(q, 1, lo) \o <<m>> \o SubSeq(q, hi + 1, Len(q))
SplicedAt(q, m, lo, hi, i) ==
    IF i <= lo THEN q[i] ELSE IF i = lo + 1 THEN m ELSE q[i - lo - 1 + hi]

LEMMA SplicePlaces ==
    ASSUME NEW q \in Seq(Attributed), NEW m \in Attributed,
           NEW lo \in 0 .. Len(q), NEW hi \in 0 .. Len(q), lo <= hi,
           NEW r, r = Splicing(q, m, lo, hi)
    PROVE  /\ r \in Seq(Attributed) /\ Len(r) = lo + 1 + (Len(q) - hi)
           /\ \A i \in 1 .. Len(r) : r[i] = SplicedAt(q, m, lo, hi, i)
<1> DEFINE n == Len(q)
           a == SubSeq(q, 1, lo)
           b == <<m>>
           c == SubSeq(q, hi + 1, n)
<1>0. n \in Nat /\ \A i \in 1 .. n : q[i] \in Attributed BY LenProperties, ElementOfSeq
<1>1. a \in Seq(Attributed) /\ Len(a) = lo /\ \A i \in 1 .. lo : a[i] = q[i]
  <2>1. \A i \in 1 .. lo : q[i] \in Attributed BY <1>0
  <2>2. /\ SubSeq(q, 1, lo) \in Seq(Attributed)
        /\ Len(SubSeq(q, 1, lo)) = IF 1 <= lo THEN lo - 1 + 1 ELSE 0
        /\ \A i \in 1 .. lo - 1 + 1 : SubSeq(q, 1, lo)[i] = q[1 + i - 1]
    <3>1. 1 \in Int /\ lo \in Int BY <1>0
    <3> QED BY <2>1, <3>1, SubSeqProperties
  <2>3. \A i \in 1 .. lo : i \in 1 .. lo - 1 + 1 /\ 1 + i - 1 = i BY <1>0
  <2> QED BY <1>0, <2>2, <2>3
<1>2. b \in Seq(Attributed) /\ Len(b) = 1 /\ b[1] = m OBVIOUS
<1>3. c \in Seq(Attributed) /\ Len(c) = n - hi /\ \A i \in 1 .. n - hi : c[i] = q[i + hi]
  <2>1. PICK k \in Int : k = hi + 1 BY <1>0
  <2>2. \A i \in k .. n : q[i] \in Attributed BY <1>0, <2>1
  <2>3. /\ SubSeq(q, k, n) \in Seq(Attributed)
        /\ Len(SubSeq(q, k, n)) = IF k <= n THEN n - k + 1 ELSE 0
        /\ \A i \in 1 .. n - k + 1 : SubSeq(q, k, n)[i] = q[k + i - 1]
    <3>1. n \in Int BY <1>0
    <3> HIDE DEF n
    <3> QED BY <2>1, <2>2, <3>1, SubSeqProperties
  <2>4. \A i \in 1 .. n - hi : i \in 1 .. n - k + 1 /\ k + i - 1 = i + hi BY <1>0, <2>1
  <2>5. Len(SubSeq(q, k, n)) = n - hi BY <1>0, <2>1, <2>3
  <2> QED BY <2>1, <2>3, <2>4, <2>5
<1> HIDE DEF a, b, c, n
<1>4. /\ a \o b \in Seq(Attributed) /\ Len(a \o b) = lo + 1
      /\ \A i \in 1 .. lo + 1 : (a \o b)[i] = IF i <= lo THEN a[i] ELSE b[i - lo]
  <2>1. /\ a \o b \in Seq(Attributed) /\ Len(a \o b) = Len(a) + Len(b)
        /\ \A i \in 1 .. Len(a) + Len(b) : (a \o b)[i] = IF i <= Len(a) THEN a[i] ELSE b[i - Len(a)]
    BY <1>1, <1>2, ConcatProperties
  <2>2. Len(a) = lo /\ Len(b) = 1 BY <1>1, <1>2
  <2> QED BY <2>1, <2>2
<1> DEFINE ab == a \o b
<1> HIDE DEF ab
<1>5. /\ ab \o c \in Seq(Attributed) /\ Len(ab \o c) = lo + 1 + (n - hi)
      /\ \A i \in 1 .. lo + 1 + (n - hi) : (ab \o c)[i] = IF i <= lo + 1 THEN ab[i] ELSE c[i - (lo + 1)]
  <2>1. ab \in Seq(Attributed) /\ Len(ab) = lo + 1 BY <1>4 DEF ab
  <2>2. /\ ab \o c \in Seq(Attributed) /\ Len(ab \o c) = Len(ab) + Len(c)
        /\ \A i \in 1 .. Len(ab) + Len(c) : (ab \o c)[i] = IF i <= Len(ab) THEN ab[i] ELSE c[i - Len(ab)]
    BY <1>3, <2>1, ConcatProperties
  <2>3. Len(c) = n - hi BY <1>3
  <2> QED BY <2>1, <2>2, <2>3
<1>6. r = ab \o c BY DEF a, b, c, ab, n, Splicing
<1>7. ASSUME NEW i \in 1 .. lo + 1 + (n - hi) PROVE r[i] = SplicedAt(q, m, lo, hi, i)
  <2>0. hi \in Nat /\ lo \in Nat /\ n \in Nat /\ hi <= n BY <1>0 DEF n
  <2>1. CASE i <= lo
    <3>1. i \in 1 .. lo /\ i \in 1 .. lo + 1 /\ i <= lo + 1 BY <2>0, <2>1
    <3>2. ab[i] = a[i] BY <1>4, <2>1, <3>1 DEF ab
    <3> QED BY <1>1, <1>5, <1>6, <2>1, <3>1, <3>2 DEF SplicedAt
  <2>2. CASE i = lo + 1
    <3>1. i \in 1 .. lo + 1 /\ ~(i <= lo) /\ i <= lo + 1 /\ i - lo = 1 BY <2>0, <2>2
    <3>2. ab[i] = b[1] BY <1>4, <3>1 DEF ab
    <3> QED BY <1>2, <1>5, <1>6, <2>2, <3>1, <3>2 DEF SplicedAt
  <2>3. CASE lo + 1 < i
    <3>1. PICK k \in 1 .. n - hi : k = i - (lo + 1) /\ k + hi = i - lo - 1 + hi BY <2>0, <2>3
    <3>2. ~(i <= lo) /\ i # lo + 1 /\ ~(i <= lo + 1) BY <2>0, <2>3
    <3>3. r[i] = c[k] BY <1>5, <1>6, <3>1, <3>2
    <3>4. c[k] = q[k + hi] BY <1>3, <3>1
    <3> QED BY <3>1, <3>2, <3>3, <3>4 DEF SplicedAt
  <2>4. i \in Int BY <2>0
  <2>5. i <= lo \/ i = lo + 1 \/ lo + 1 < i BY <2>0, <2>4
  <2> QED BY <2>1, <2>2, <2>3, <2>5
<1> QED BY <1>5, <1>6, <1>7 DEF n

(* Add's splice, as a set and as a slice.                                  *)
LEMMA SpliceIsAddSpan ==
    ASSUME NEW q, Slice(q), NEW s \in Attributed, Sound({s})
    PROVE  /\ Slice(Spliced(q, s))
           /\ Range(Spliced(q, s)) = AddSpan(Range(q), s)
<1> DEFINE n == Len(q) lo == Lo(q, s) hi == Hi(q, s) E == Range(q)
           T == {e \in E : Touches(e, s)}
           w == SubSeq(q, lo + 1, hi)
           m == Merge(T \cup {s})
           r == Spliced(q, s)
<1>0. /\ n \in Nat /\ E = {q[i] : i \in 1 .. n} /\ q \in Seq(Attributed)
      /\ \A i \in 1 .. n : /\ q[i] \in Attributed /\ q[i] \in E
                           /\ q[i].start \in Nat /\ q[i].end \in Nat /\ q[i].start < q[i].end
      /\ \A i, j \in 1 .. n : i < j => q[i].end < q[j].start
  BY SliceEntries DEF Slice
<1>1. s.start \in Nat /\ s.end \in Nat /\ s.start < s.end BY AttributedFields DEF Sound
<1>2. /\ lo \in 0 .. n /\ hi \in 0 .. n /\ lo <= hi
      /\ \A i \in 1 .. n : /\ i <= lo => q[i].end < s.start
                           /\ hi < i => s.end < q[i].start
                           /\ lo < i /\ i <= hi => Touches(q[i], s)
  BY <1>1, Window
<1>3. PICK len \in Nat, top \in Nat : len = LastOffset /\ top = 255 BY CollectorAssumption
<1>4. Regular(E \cup {s}, len, top)
  <2>1. Sound(E \cup {s}) BY DEF Slice, Sound
  <2> QED BY <1>3, <2>1, SoundIsRegular
<1>5. Apart(E)
  <2> SUFFICES ASSUME NEW x \in E, NEW y \in E, x # y PROVE ~Touches(x, y) BY DEF Apart
  <2>1. PICK i \in 1 .. n : x = q[i] BY <1>0
  <2>2. PICK j \in 1 .. n : y = q[j] BY <1>0
  <2>3. i < j \/ j < i BY <1>0, <2>1, <2>2
  <2>4. q[i].end < q[j].start \/ q[j].end < q[i].start BY <1>0, <2>3
  <2>5. /\ q[i].start \in Nat /\ q[i].end \in Nat /\ q[j].start \in Nat /\ q[j].end \in Nat
    BY <1>0
  <2> QED BY <2>1, <2>2, <2>4, <2>5 DEF Touches
<1>6. /\ AddSpan(E, s) = (E \ T) \cup {m}
      /\ m \in Attributed /\ Summarises(m, T \cup {s})
      /\ m.start \in Nat /\ m.end \in Nat /\ m.start <= s.start /\ s.end <= m.end
      /\ m.start < m.end
  <2> HIDE DEF E
  <2> QED BY <1>4, AbsorbedFacts
<1>7. \A e \in E \ T : e.end < m.start \/ m.end < e.start
  <2>1. T = {e \in E : Touches(e, s)} OBVIOUS
  <2> HIDE DEF E, m, T
  <2> QED BY <2>1, <1>4, <1>5, <1>6, HullApart
<1>8. \A i \in 1 .. n : q[i] \in T <=> lo < i /\ i <= hi
  <2> TAKE i \in 1 .. n
  <2>1. q[i] \in T <=> Touches(q[i], s) BY <1>0
  <2>2. CASE i <= lo
    <3>1. q[i].end < s.start BY <1>2, <2>2
    <3> QED BY <1>0, <1>1, <1>2, <2>1, <2>2, <3>1 DEF Touches
  <2>3. CASE hi < i
    <3>1. s.end < q[i].start BY <1>2, <2>3
    <3> QED BY <1>0, <1>1, <1>2, <2>1, <2>3, <3>1 DEF Touches
  <2>4. CASE lo < i /\ i <= hi BY <1>2, <2>1, <2>4
  <2> QED BY <1>0, <1>2, <2>2, <2>3, <2>4
<1>9. w \in Seq(Attributed) /\ Range(w) = T
  <2> HIDE DEF T, E
  <2>1. PICK k \in Int : k = lo + 1 BY <1>2
  <2>2. hi \in Int /\ n \in Int /\ lo \in Int BY <1>0, <1>2
  <2>3. \A i \in k .. hi : q[i] \in Attributed BY <1>0, <1>2, <2>1
  <2> HIDE DEF lo, hi, n
  <2>4. /\ SubSeq(q, k, hi) \in Seq(Attributed)
        /\ Len(SubSeq(q, k, hi)) = IF k <= hi THEN hi - k + 1 ELSE 0
        /\ \A i \in 1 .. hi - k + 1 : SubSeq(q, k, hi)[i] = q[k + i - 1]
    BY <2>1, <2>2, <2>3, SubSeqProperties
  <2>5. w = SubSeq(q, k, hi) BY <2>1
  <2> HIDE DEF w
  <2>6. w \in Seq(Attributed) /\ Len(w) = hi - lo /\ \A i \in 1 .. hi - lo : w[i] = q[lo + i]
    <3>1. \A i \in 1 .. hi - lo : i \in 1 .. hi - k + 1 /\ k + i - 1 = lo + i BY <2>1, <2>2
    <3> QED BY <1>2, <2>1, <2>2, <2>4, <2>5, <3>1
  <2>7. Range(w) = {w[i] : i \in 1 .. hi - lo}
    <3>1. DOMAIN w = 1 .. hi - lo BY <2>6, LenProperties
    <3> QED BY <3>1 DEF Range
  <2>8. ASSUME NEW x \in T PROVE x \in Range(w)
    <3>1. x \in E BY DEF T
    <3>2. PICK i \in 1 .. n : x = q[i] BY <1>0, <3>1
    <3>3. lo < i /\ i <= hi BY <1>8, <3>2
    <3>4. PICK j \in 1 .. hi - lo : lo + j = i
      <4>1. i - lo \in 1 .. hi - lo /\ lo + (i - lo) = i BY <1>2, <2>2, <3>3
      <4> QED BY <4>1
    <3> QED BY <2>6, <2>7, <3>2, <3>4
  <2>9. ASSUME NEW i \in 1 .. hi - lo PROVE w[i] \in T
    <3>1. PICK j \in 1 .. n : j = lo + i /\ lo < j /\ j <= hi BY <1>0, <1>2, <2>2
    <3> QED BY <1>8, <2>6, <3>1
  <2> QED BY <2>6, <2>7, <2>8, <2>9
<1>10. MergedEntry(w, s) = m
  <2>1. Regular(Range(w) \cup {s}, len, top) BY <1>4, <1>9 DEF Regular, Within
  <2> HIDE DEF w, T
  <2> QED BY <1>9, <2>1, MergedIsMerge
<1>11. r = Splicing(q, m, lo, hi) BY <1>10 DEF Spliced, Splicing
<1> HIDE DEF r, m, w, lo, hi, n, T, E
<1>12. /\ r \in Seq(Attributed) /\ Len(r) = lo + 1 + (n - hi)
       /\ \A i \in 1 .. Len(r) : r[i] = SplicedAt(q, m, lo, hi, i)
  <2>1. n = Len(q) BY DEF n
  <2>2. lo \in 0 .. Len(q) /\ hi \in 0 .. Len(q) BY <1>2, <2>1
  <2>4. q \in Seq(Attributed) /\ m \in Attributed /\ lo <= hi BY <1>0, <1>2, <1>6
  <2>5. /\ r \in Seq(Attributed) /\ Len(r) = lo + 1 + (Len(q) - hi)
        /\ \A i \in 1 .. Len(r) : r[i] = SplicedAt(q, m, lo, hi, i)
    <3>1. PICK lo1 \in 0 .. Len(q), hi1 \in 0 .. Len(q), m1 \in Attributed : lo1 = lo /\ hi1 = hi /\ m1 = m BY <2>2, <2>4
    <3>2. r = Splicing(q, m1, lo1, hi1) /\ lo1 <= hi1 BY <3>1, <1>11, <2>4
    <3>3. r \in Seq(Attributed) BY <3>2, <2>4, SplicePlaces
    <3>4. Len(r) = lo1 + 1 + (Len(q) - hi1) BY <3>2, <2>4, SplicePlaces
    <3>5. \A i \in 1 .. Len(r) : r[i] = SplicedAt(q, m1, lo1, hi1, i) BY <3>2, <2>4, SplicePlaces
    <3> QED BY <3>1, <3>3, <3>4, <3>5
  <2> QED BY <2>1, <2>5
<1>13. Len(r) \in Nat /\ DOMAIN r = 1 .. Len(r) /\ Range(r) = {r[i] : i \in 1 .. Len(r)}
  BY <1>12, LenProperties DEF Range
<1>0a. lo \in Nat /\ hi \in Nat /\ n \in Nat /\ hi <= n /\ lo <= hi BY <1>0, <1>2
<1>14. ASSUME NEW i \in 1 .. Len(r)
       PROVE  \/ i <= lo /\ i \in 1 .. n /\ r[i] = q[i]
              \/ i = lo + 1 /\ r[i] = m
              \/ lo + 1 < i /\ \E k \in 1 .. n : k = i - lo - 1 + hi /\ hi < k /\ r[i] = q[k]
  <2>1. r[i] = SplicedAt(q, m, lo, hi, i) BY <1>12
  <2>2. CASE i <= lo BY <1>0, <1>2, <2>1, <2>2 DEF SplicedAt
  <2>3. CASE i = lo + 1 BY <1>0, <1>2, <2>1, <2>3 DEF SplicedAt
  <2>4. CASE lo + 1 < i
    <3>0. i \in Int /\ i <= lo + 1 + (n - hi) BY <1>0a, <1>12
    <3>1. PICK k \in 1 .. n : k = i - lo - 1 + hi /\ hi < k BY <1>0a, <2>4, <3>0
    <3>2. ~(i <= lo) /\ i # lo + 1 BY <1>2, <2>4
    <3> QED BY <2>1, <2>4, <3>1, <3>2 DEF SplicedAt
  <2> QED BY <1>2, <2>2, <2>3, <2>4
<1>15. Range(r) = (E \ T) \cup {m}
  <2>1. ASSUME NEW i \in 1 .. Len(r) PROVE r[i] \in (E \ T) \cup {m}
    <3>1. CASE i <= lo /\ i \in 1 .. n /\ r[i] = q[i] BY <1>0, <1>2, <1>8, <3>1
    <3>2. CASE \E k \in 1 .. n : k = i - lo - 1 + hi /\ hi < k /\ r[i] = q[k]
      <4>1. PICK k \in 1 .. n : hi < k /\ r[i] = q[k] BY <3>2
      <4>2. ~(k <= hi) BY <1>0, <1>2, <4>1
      <4> QED BY <1>0, <1>8, <4>1, <4>2
    <3> QED BY <1>14, <3>1, <3>2
  <2>2. m \in Range(r)
    <3>1. lo + 1 \in 1 .. Len(r) BY <1>0, <1>2, <1>12
    <3>2. PICK i \in 1 .. Len(r) : i = lo + 1 BY <3>1
    <3>3. r[i] = m BY <1>2, <1>14, <3>2
    <3> QED BY <1>13, <3>3
  <2>3. ASSUME NEW e \in E \ T PROVE e \in Range(r)
    <3>1. PICK i \in 1 .. n : e = q[i] BY <1>0
    <3>2. ~(lo < i /\ i <= hi) BY <1>8, <3>1
    <3>3. CASE i <= lo
      <4>1. i \in 1 .. Len(r) BY <1>0, <1>2, <1>12, <3>3
      <4>2. r[i] = q[i] BY <1>12, <3>3, <4>1 DEF SplicedAt
      <4> QED BY <1>13, <3>1, <4>1, <4>2
    <3>4. CASE hi < i
      <4>0. i + lo + 1 - hi \in 1 .. (lo + 1 + (n - hi)) /\ lo + 1 < i + lo + 1 - hi BY <1>0a, <3>4
      <4>1. PICK j \in 1 .. Len(r) : j = i + lo + 1 - hi /\ lo + 1 < j BY <1>12, <4>0
      <4>2. j - lo - 1 + hi = i /\ ~(j <= lo) /\ j # lo + 1 BY <1>0, <1>2, <4>1
      <4>3. r[j] = q[i] BY <1>12, <4>1, <4>2 DEF SplicedAt
      <4> QED BY <1>13, <3>1, <4>1, <4>3
    <3> QED BY <1>0, <1>2, <3>2, <3>3, <3>4
  <2> QED BY <1>13, <2>1, <2>2, <2>3
<1>16. Sound(Range(r))
  <2>1. Regular(AddSpan(E, s), len, top) BY <1>4, <1>5, AddSpanRegular
  <2> QED BY <1>3, <1>6, <1>15, <2>1, SoundIsRegular
<1>17. \A i \in 1 .. n : /\ i <= lo => q[i].end < m.start
                         /\ hi < i => m.end < q[i].start
  <2> TAKE i \in 1 .. n
  <2>1. q[i] \in E /\ q[i].start \in Nat /\ q[i].end \in Nat /\ q[i].start < q[i].end BY <1>0
  <2>2. CASE i <= lo
    <3>1. q[i].end < s.start /\ q[i] \notin T BY <1>0, <1>2, <1>8, <2>2
    <3>2. q[i].end < m.start \/ m.end < q[i].start BY <1>7, <2>1, <3>1
    <3>3. q[i].end < m.start BY <1>1, <1>6, <2>1, <3>1, <3>2
    <3>4. ~(hi < i) BY <1>0, <1>2, <2>2
    <3> QED BY <3>3, <3>4
  <2>3. CASE hi < i
    <3>1. s.end < q[i].start /\ q[i] \notin T BY <1>0, <1>2, <1>8, <2>3
    <3>2. q[i].end < m.start \/ m.end < q[i].start BY <1>7, <2>1, <3>1
    <3>3. m.end < q[i].start BY <1>1, <1>6, <2>1, <3>1, <3>2
    <3>4. ~(i <= lo) BY <1>0, <1>2, <2>3
    <3> QED BY <3>3, <3>4
  <2> QED BY <2>2, <2>3
<1>18. Sorted(r)
  <2> SUFFICES ASSUME NEW i \in 1 .. Len(r), NEW j \in 1 .. Len(r), i < j PROVE r[i].end < r[j].start
    BY DEF Sorted
  <2>1. CASE i <= lo /\ i \in 1 .. n /\ r[i] = q[i]
    <3>1. CASE j <= lo /\ j \in 1 .. n /\ r[j] = q[j] BY <1>0, <2>1, <3>1
    <3>2. CASE r[j] = m BY <1>17, <2>1, <3>2
    <3>3. CASE lo + 1 < j /\ \E k \in 1 .. n : k = j - lo - 1 + hi /\ hi < k /\ r[j] = q[k]
      <4>1. PICK k \in 1 .. n : hi < k /\ r[j] = q[k] BY <3>3
      <4>2. i < k BY <1>0, <1>2, <2>1, <4>1
      <4> QED BY <1>0, <2>1, <4>1, <4>2
    <3> QED BY <1>14, <3>1, <3>2, <3>3
  <2>2. CASE i = lo + 1 /\ r[i] = m
    <3>1. lo + 1 < j BY <2>2
    <3>2. PICK k \in 1 .. n : hi < k /\ r[j] = q[k] BY <1>2, <1>13, <1>14, <3>1
    <3> QED BY <1>17, <2>2, <3>2
  <2>3. CASE lo + 1 < i /\ \E k \in 1 .. n : k = i - lo - 1 + hi /\ hi < k /\ r[i] = q[k]
    <3>1. PICK k \in 1 .. n : k = i - lo - 1 + hi /\ hi < k /\ r[i] = q[k] BY <2>3
    <3>2. lo + 1 < j BY <1>2, <1>13, <2>3
    <3>3. PICK l \in 1 .. n : l = j - lo - 1 + hi /\ r[j] = q[l] BY <1>2, <1>13, <1>14, <3>2
    <3>4. k < l BY <1>0, <1>2, <1>13, <3>1, <3>3
    <3> QED BY <1>0, <3>1, <3>3, <3>4
  <2> QED BY <1>14, <2>1, <2>2, <2>3
<1>19. Slice(r) BY <1>12, <1>16, <1>18 DEF Slice
<1>20. Range(r) = AddSpan(E, s) BY <1>6, <1>15
<1> QED BY <1>19, <1>20 DEF r, E

----------------------------------------------------------------------------
(* A slice cut in two, as Release does.                                    *)

LEMMA Cut ==
    ASSUME NEW q, Slice(q), NEW k \in 0 .. Len(q)
    PROVE  /\ Slice(SubSeq(q, 1, k)) /\ Len(SubSeq(q, 1, k)) = k
           /\ \A i \in 1 .. k : SubSeq(q, 1, k)[i] = q[i]
           /\ Range(SubSeq(q, 1, k)) = {q[i] : i \in 1 .. k}
           /\ Slice(SubSeq(q, k + 1, Len(q)))
           /\ Range(SubSeq(q, k + 1, Len(q))) = {q[i] : i \in k + 1 .. Len(q)}
<1> DEFINE n == Len(q)
           a == SubSeq(q, 1, k)
           c == SubSeq(q, k + 1, n)
<1>0. /\ n \in Nat /\ k \in Nat /\ k <= n
      /\ \A i \in 1 .. n : q[i] \in Attributed /\ q[i] \in Range(q)
      /\ \A i, j \in 1 .. n : i < j => q[i].end < q[j].start
  BY SliceEntries
<1>1. a \in Seq(Attributed) /\ Len(a) = k /\ \A i \in 1 .. k : a[i] = q[i]
  <2>1. \A i \in 1 .. k : q[i] \in Attributed BY <1>0
  <2>2. /\ SubSeq(q, 1, k) \in Seq(Attributed)
        /\ Len(SubSeq(q, 1, k)) = IF 1 <= k THEN k - 1 + 1 ELSE 0
        /\ \A i \in 1 .. k - 1 + 1 : SubSeq(q, 1, k)[i] = q[1 + i - 1]
    <3>1. 1 \in Int /\ k \in Int BY <1>0
    <3> QED BY <2>1, <3>1, SubSeqProperties
  <2>3. \A i \in 1 .. k : i \in 1 .. k - 1 + 1 /\ 1 + i - 1 = i BY <1>0
  <2> QED BY <1>0, <2>2, <2>3
<1>2. c \in Seq(Attributed) /\ Len(c) = n - k /\ \A i \in 1 .. n - k : c[i] = q[i + k]
  <2>1. PICK l \in Int : l = k + 1 BY <1>0
  <2>2. \A i \in l .. n : q[i] \in Attributed BY <1>0, <2>1
  <2>3. /\ SubSeq(q, l, n) \in Seq(Attributed)
        /\ Len(SubSeq(q, l, n)) = IF l <= n THEN n - l + 1 ELSE 0
        /\ \A i \in 1 .. n - l + 1 : SubSeq(q, l, n)[i] = q[l + i - 1]
    <3>1. n \in Int BY <1>0
    <3> HIDE DEF n
    <3> QED BY <2>1, <2>2, <3>1, SubSeqProperties
  <2>4. \A i \in 1 .. n - k : i \in 1 .. n - l + 1 /\ l + i - 1 = i + k BY <1>0, <2>1
  <2>5. Len(SubSeq(q, l, n)) = n - k BY <1>0, <2>1, <2>3
  <2> QED BY <2>1, <2>3, <2>4, <2>5
<1> HIDE DEF a, c, n
<1>3. DOMAIN a = 1 .. k /\ DOMAIN c = 1 .. n - k BY <1>1, <1>2, LenProperties
<1>4. Range(a) = {q[i] : i \in 1 .. k} BY <1>1, <1>3 DEF Range
<1>5. Range(c) = {q[i] : i \in k + 1 .. n}
  <2>1. Range(c) = {c[i] : i \in 1 .. n - k} BY <1>3 DEF Range
  <2>2. ASSUME NEW i \in 1 .. n - k PROVE c[i] \in {q[j] : j \in k + 1 .. n}
    <3>1. i + k \in k + 1 .. n BY <1>0
    <3> QED BY <1>2, <3>1
  <2>3. ASSUME NEW j \in k + 1 .. n PROVE q[j] \in Range(c)
    <3>1. PICK i \in 1 .. n - k : i + k = j
      <4>1. j - k \in 1 .. n - k /\ (j - k) + k = j BY <1>0
      <4> QED BY <4>1
    <3> QED BY <1>2, <2>1, <3>1
  <2> QED BY <2>1, <2>2, <2>3
<1>6. Sound(Range(a)) /\ Sound(Range(c))
  <2>1. Range(a) \subseteq Range(q) BY <1>0, <1>4
  <2>2. Range(c) \subseteq Range(q) BY <1>0, <1>5
  <2> QED BY <2>1, <2>2 DEF Slice, Sound
<1>7. Sorted(a) BY <1>0, <1>1 DEF Sorted
<1>8. Sorted(c)
  <2> SUFFICES ASSUME NEW i \in 1 .. n - k, NEW j \in 1 .. n - k, i < j PROVE c[i].end < c[j].start
    BY <1>2 DEF Sorted
  <2>1. PICK x \in 1 .. n : x = i + k BY <1>0
  <2>2. PICK y \in 1 .. n : y = j + k BY <1>0
  <2>3. x < y BY <1>0, <2>1, <2>2
  <2>4. c[i] = q[x] /\ c[j] = q[y] BY <1>2, <2>1, <2>2
  <2> QED BY <1>0, <2>3, <2>4
<1>9. Slice(a) /\ Slice(c) BY <1>1, <1>2, <1>6, <1>7, <1>8 DEF Slice
<1> QED BY <1>1, <1>4, <1>5, <1>9 DEF a, c, n

(* How many entries Release hands out: those that end by the limit.        *)
LEMMA ReleasedEntries ==
    ASSUME Slice(entries), NEW l \in Int
    PROVE  /\ Releasable(l) \in 0 .. Len(entries)
           /\ \A i \in 1 .. Len(entries) : entries[i].end <= l <=> i <= Releasable(l)
<1> DEFINE n == Len(entries)
           S == {i \in Indexes(entries) : entries[i + 1].end > l}
           k == Releasable(l)
<1>1. /\ n \in Nat
      /\ \A i \in 1 .. n : entries[i].start \in Nat /\ entries[i].end \in Nat /\ entries[i].start < entries[i].end
      /\ \A i, j \in 1 .. n : i < j => entries[i].end < entries[j].start
  BY SliceEntries
<1>2. S \in SUBSET (0 .. n - 1) /\ k = Search(n, S) BY DEF Indexes, Releasable
<1>3. \A i \in 1 .. n : i - 1 \in 0 .. n - 1 /\ (i - 1 \in S <=> entries[i].end > l)
  <2> TAKE i \in 1 .. n
  <2>1. PICK j : j = i - 1 /\ j + 1 = i /\ j \in 0 .. n - 1 BY <1>1
  <2>2. j \in S <=> entries[j + 1].end > l BY <2>1 DEF Indexes
  <2> HIDE DEF S
  <2> QED BY <2>1, <2>2
<1> HIDE DEF S, n, k
<1>4. k \in 0 .. n /\ (\A i \in S : k <= i) /\ (k < n => k \in S) BY <1>1, <1>2, SearchIs
<1>5. ASSUME NEW i \in 1 .. n, i <= k PROVE entries[i].end <= l
  <2>1. i - 1 \notin S BY <1>1, <1>4, <1>5
  <2> QED BY <1>1, <1>3, <2>1
<1>6. ASSUME NEW i \in 1 .. n, k < i PROVE entries[i].end > l
  <2>1. PICK j \in 1 .. n : j = k + 1 /\ j - 1 = k /\ k < n BY <1>1, <1>4, <1>6
  <2>2. entries[j].end > l BY <1>3, <1>4, <2>1
  <2>3. CASE j = i BY <2>2, <2>3
  <2>4. CASE j < i BY <1>1, <2>2, <2>4
  <2> QED BY <1>1, <1>4, <1>6, <2>1, <2>3, <2>4
<1>7. k \in 0 .. n /\ \A i \in 1 .. n : entries[i].end <= l <=> i <= k
  <2> SUFFICES ASSUME NEW i \in 1 .. n PROVE entries[i].end <= l <=> i <= k BY <1>4
  <2>1. entries[i].end \in Nat /\ i \in Int /\ k \in Int BY <1>1, <1>4
  <2>2. CASE i <= k BY <1>5, <2>2
  <2>3. CASE k < i
    <3>1. entries[i].end > l BY <1>6, <2>3
    <3> QED BY <2>1, <2>3, <3>1
  <2> QED BY <2>1, <2>2, <2>3
<1> QED BY <1>7 DEF n, k

----------------------------------------------------------------------------
(* The spans of an answer, in order.                                       *)

LEMMA Increasing ==
    ASSUME NEW n \in Nat, NEW f, \A i \in 1 .. n : f[i] \in 1 .. n,
           \A i, j \in 1 .. n : i < j => f[i] < f[j]
    PROVE  \A i \in 1 .. n : f[i] = i
<1> DEFINE P == {k \in Nat : \A i \in 1 .. n : i <= k => i <= f[i]}
           Q == {k \in Nat : \A i \in 1 .. n : n - k <= i => f[i] <= i}
<1>1. 0 \in P OBVIOUS
<1>2. ASSUME NEW k \in Nat, k \in P PROVE k + 1 \in P
  <2> SUFFICES ASSUME NEW i \in 1 .. n, i <= k + 1 PROVE i <= f[i] OBVIOUS
  <2>1. CASE i <= k BY <1>2, <2>1
  <2>2. CASE i = 1 BY <2>2
  <2>3. CASE i = k + 1 /\ i # 1
    <3>1. PICK j \in 1 .. n : j = i - 1 /\ j <= k /\ j < i BY <2>3
    <3>2. j <= f[j] /\ f[j] < f[i] BY <1>2, <3>1
    <3>3. f[j] \in Int /\ f[i] \in Int OBVIOUS
    <3> QED BY <3>1, <3>2, <3>3
  <2> QED BY <2>1, <2>2, <2>3
<1>3. Nat \subseteq P
  <2> HIDE DEF P
  <2> QED BY <1>1, <1>2, Inductive
<1>4. 0 \in Q OBVIOUS
<1>5. ASSUME NEW k \in Nat, k \in Q PROVE k + 1 \in Q
  <2> SUFFICES ASSUME NEW i \in 1 .. n, n - (k + 1) <= i PROVE f[i] <= i OBVIOUS
  <2>1. CASE n - k <= i BY <1>5, <2>1
  <2>2. CASE i < n - k
    <3>1. PICK j \in 1 .. n : j = i + 1 /\ n - k <= j /\ i < j BY <2>2
    <3>2. f[j] <= j /\ f[i] < f[j] BY <1>5, <3>1
    <3>3. f[j] \in Int /\ f[i] \in Int OBVIOUS
    <3> QED BY <3>1, <3>2, <3>3
  <2> QED BY <2>1, <2>2
<1>6. Nat \subseteq Q
  <2> HIDE DEF Q
  <2> QED BY <1>4, <1>5, Inductive
<1>7. ASSUME NEW i \in 1 .. n PROVE f[i] = i
  <2>1. n \in P /\ n \in Q BY <1>3, <1>6
  <2>2. i <= n /\ n - n <= i OBVIOUS
  <2>3. i <= f[i] /\ f[i] <= i BY <2>1, <2>2
  <2> QED BY <2>3
<1> QED BY <1>7

(* Listing the entries of a slice by start gives the slice.                *)
Listed(q) == [i \in 1 .. Len(q) |-> Public(q[i])]

LEMMA InOrderIs ==
    ASSUME NEW q, Slice(q)
    PROVE  Cardinality(Range(q)) = Len(q) /\ InOrder(Range(q)) = Listed(q)
<1> DEFINE n == Len(q)
           E == Range(q)
           D == {Public(e) : e \in E}
           p == Listed(q)
           F == [1 .. n -> D]
<1>0. /\ n \in Nat /\ DOMAIN q = 1 .. n /\ E = {q[i] : i \in 1 .. n}
      /\ \A i \in 1 .. n : q[i] \in Attributed /\ q[i] \in E
      /\ \A i \in 1 .. n : q[i].start \in Nat /\ q[i].end \in Nat /\ q[i].start < q[i].end
      /\ \A i, j \in 1 .. n : i < j => q[i].end < q[j].start
      /\ q \in Seq(Attributed)
  BY SliceEntries DEF Slice
<1>1. ASSUME NEW i \in 1 .. n, NEW j \in 1 .. n, i < j PROVE q[i].start < q[j].start
  <2>1. q[i].end < q[j].start BY <1>0, <1>1
  <2>2. q[i].start \in Nat /\ q[i].end \in Nat /\ q[i].start < q[i].end /\ q[j].start \in Nat BY <1>0
  <2> QED BY <2>1, <2>2
<1>2. ASSUME NEW i \in 1 .. n, NEW j \in 1 .. n, q[i].start < q[j].start PROVE i < j
  <2>1. CASE i = j BY <1>0, <1>2, <2>1
  <2>2. CASE j < i
    <3>1. q[j].start < q[i].start BY <1>1, <2>2
    <3>2. q[i].start \in Nat /\ q[j].start \in Nat BY <1>0
    <3> QED BY <1>2, <3>1, <3>2
  <2> QED BY <2>1, <2>2
<1>3. Cardinality(E) = n
  <2>1. q \in [1 .. n -> E]
    <3>1. q = [i \in 1 .. n |-> q[i]] BY <1>0
    <3> HIDE DEF E, n
    <3> QED BY <1>0, <3>1
  <2> HIDE DEF E, n
  <2>2. ASSUME NEW i \in 1 .. n, NEW j \in 1 .. n, q[i] = q[j] PROVE i = j
    <3>1. q[i].start = q[j].start BY <2>2
    <3>2. q[i].start \in Nat BY <1>0
    <3>3. ~(i < j) BY <1>1, <3>1, <3>2
    <3>4. ~(j < i) BY <1>1, <3>1, <3>2
    <3> QED BY <3>3, <3>4
  <2>3. IsInjective(q) BY <1>0, <2>2 DEF IsInjective
  <2>4. \A e \in E : \E i \in 1 .. n : q[i] = e BY <1>0
  <2>5. q \in Bijection(1 .. n, E) BY <2>1, <2>3, <2>4 DEF Bijection, Injection, Surjection
  <2>6. ExistsBijection(1 .. n, E) BY <2>5 DEF ExistsBijection
  <2> QED BY <1>0, <2>6, FS_CountingElements
<1> DEFINE Ordered(g) == \A i, j \in 1 .. n : i < j => g[i].start < g[j].start
<1>4. InOrder(E) = CHOOSE g \in F : Ordered(g)
  <2> HIDE DEF E, n
  <2> QED BY <1>3, Zenon DEF InOrder
<1>5. \A i \in 1 .. n : p[i] = Public(q[i]) /\ p[i].start = q[i].start BY DEF Listed, Public
<1>6. p = [i \in 1 .. n |-> p[i]] BY DEF Listed
<1> HIDE DEF p, E, n
<1>7. p \in F
  <2>1. \A i \in 1 .. n : p[i] \in D BY <1>0, <1>5
  <2> HIDE DEF D
  <2> QED BY <1>6, <2>1
<1>8. Ordered(p) BY <1>1, <1>5
<1>9. ASSUME NEW g \in F, Ordered(g) PROVE g = p
  <2> DEFINE f == [i \in 1 .. n |-> CHOOSE j \in 1 .. n : g[i] = Public(q[j])]
  <2>1. ASSUME NEW i \in 1 .. n PROVE f[i] \in 1 .. n /\ g[i] = Public(q[f[i]])
    <3>1. g[i] \in D BY <1>9
    <3>2. PICK e \in E : g[i] = Public(e) BY <3>1
    <3>3. PICK j \in 1 .. n : e = q[j] BY <1>0
    <3>4. \E k \in 1 .. n : g[i] = Public(q[k]) BY <3>2, <3>3
    <3> QED BY <3>4
  <2> HIDE DEF f
  <2>2. \A i \in 1 .. n : g[i].start = q[f[i]].start BY <2>1 DEF Public
  <2>3. ASSUME NEW i \in 1 .. n, NEW j \in 1 .. n, i < j PROVE f[i] < f[j]
    <3>1. g[i].start < g[j].start BY <1>9, <2>3
    <3>2. q[f[i]].start < q[f[j]].start BY <2>2, <3>1
    <3> QED BY <1>2, <2>1, <3>2
  <2>4. \A i \in 1 .. n : f[i] \in 1 .. n BY <2>1
  <2>5. \A i \in 1 .. n : f[i] = i BY <1>0, <2>3, <2>4, Increasing
  <2>6. \A i \in 1 .. n : g[i] = p[i] BY <1>5, <2>1, <2>5
  <2> HIDE DEF D, Ordered
  <2>7. g = [i \in 1 .. n |-> g[i]] BY <1>9
  <2> QED BY <1>6, <2>6, <2>7
<1>10. (CHOOSE g \in F : Ordered(g)) = p
  <2> HIDE DEF F, Ordered
  <2> QED BY <1>7, <1>8, <1>9
<1> QED BY <1>3, <1>4, <1>10 DEF n, E, p

----------------------------------------------------------------------------
(* The steps of the collector.                                             *)

LEMMA SliceIs == CollectorInv => Slice(entries)
BY DEF CollectorInv, TypeOK, Slice, Entries, Attributed

(* What ComponentsApart says of the components of the spans added.         *)
Separate(C, S) ==
    /\ Sound(C) /\ Apart(C) /\ \A c \in C : IsComponent(c, S)
    /\ \A x \in S : \E c \in C : x \in Inside(S, c)

Beyond(C, l) == {c \in C : c.end > l}

(* Adding a span to the components of S, of which those beyond l are held. *)
LEMMA AddToComponents ==
    ASSUME NEW S, NEW s, Sound(S \cup {s}), NEW l \in Int, l < s.start,
           NEW C, C = Components(S), Separate(C, S),
           NEW E, E = Beyond(C, l),
           NEW D, D = Components(S \cup {s})
    PROVE  /\ Separate(D, S \cup {s})
           /\ Beyond(D, l) = AddSpan(E, s)
<1> USE DEF Separate, Beyond
<1> DEFINE R == C \ E
<1>1. PICK len \in Nat, top \in Nat : len = LastOffset /\ top = 255 BY CollectorAssumption
<1>2. \A x \in C \cup S \cup {s} : /\ x \in Attributed /\ x.start < x.end
                                   /\ x.end <= len /\ x.confidence <= top
  BY <1>1 DEF Sound, Entries, Attributed
<1>3. Regular(C \cup {s}, len, top) /\ Regular(S, len, top) /\ Regular(S \cup {s}, len, top)
      /\ Regular(E \cup {s}, len, top)
  BY <1>2 DEF Regular, Within
<1>4. Apart(E) BY DEF Apart
<1>5. /\ \A c \in AddSpan(C, s) : IsComponent(c, S \cup {s})
      /\ \A x \in S \cup {s} : \E c \in AddSpan(C, s) : x \in Inside(S \cup {s}, c)
  BY <1>3, AddSpanComponents
<1>6. Regular(AddSpan(C, s), len, top) /\ Apart(AddSpan(C, s)) BY <1>3, AddSpanRegular
<1>7. AddSpan(C, s) \subseteq Attributed BY <1>6 DEF Regular
<1>8. D = AddSpan(C, s) BY <1>3, <1>5, <1>7, ComponentsExactly
<1>9. \A x \in C \cup {s} : x.start \in Nat /\ x.end \in Nat /\ x.start < x.end
  BY <1>2, AttributedFields
<1>10. ASSUME NEW f \in R PROVE f.end <= l /\ ~Touches(f, s)
  <2>1. f \in C /\ ~(f.end > l) /\ f.end \in Nat BY <1>9
  <2>2. f.end < s.start BY <1>9, <2>1
  <2> QED BY <1>9, <2>1, <2>2 DEF Touches
<1>11. AddSpan(C, s) = AddSpan(E, s) \cup R
  <2>1. C = E \cup R OBVIOUS
  <2> HIDE DEF R
  <2>2. \A f \in R : ~Touches(f, s) BY <1>10
  <2>3. AddSpan(E \cup R, s) = AddSpan(E, s) \cup R BY <2>2, AddSpanFrame
  <2> QED BY <2>1, <2>3
<1>12. ASSUME NEW x \in AddSpan(E, s) PROVE x.end > l
  <2>1. x \in Attributed /\ (x \in E \/ s.end <= x.end)
    <3>1. Regular(AddSpan(E, s), len, top) /\ (x \in E \/ s.end <= x.end)
      BY <1>3, <1>4, AddSpanRegular
    <3> QED BY <3>1 DEF Regular
  <2>2. x.end \in Nat BY <2>1, AttributedFields
  <2>3. CASE x \in E BY <2>3
  <2>4. CASE s.end <= x.end BY <1>9, <2>2, <2>4
  <2> QED BY <2>1, <2>3, <2>4
<1>13. \A f \in R : ~(f.end > l)
  <2> TAKE f \in R
  <2>1. f \in C /\ ~(f.end > l) OBVIOUS
  <2> QED BY <2>1
<1> HIDE DEF R
<1>14. {c \in D : c.end > l} = AddSpan(E, s) BY <1>8, <1>11, <1>12, <1>13
<1>15. Sound(D) BY <1>1, <1>6, <1>8, SoundIsRegular
<1> QED BY <1>5, <1>6, <1>8, <1>14, <1>15

LEMMA AddStep ==
    ASSUME CollectorInv, NEW s \in RawSpans, Add(s)
    PROVE  CollectorInv' /\ Range(entries') = AddSpan(Range(entries), s)
<1>1. /\ s.start > limit /\ s.start < s.end
      /\ entries' = Spliced(entries, s) /\ added' = added \cup {s} /\ limit' = limit
  BY DEF Add, MayAdd
<1>2. s \in Attributed /\ Sound({s})
  <2>1. s \in [start : Nat, end : Nat, rule : Nat, confidence : 0 .. 255, attribStart : Nat]
        /\ s.end <= LastOffset
    BY CollectorAssumption
  <2>2. s \in Attributed /\ s \in Entries /\ s.confidence <= 255 BY <2>1 DEF Attributed, Entries
  <2> QED BY <1>1, <2>1, <2>2 DEF Sound
<1>3. Slice(entries) BY SliceIs
<1>4. Slice(Spliced(entries, s)) /\ Range(Spliced(entries, s)) = AddSpan(Range(entries), s)
  BY <1>2, <1>3, SpliceIsAddSpan
<1>5. Sound(added \cup {s}) BY <1>2 DEF CollectorInv, TypeOK, Sound
<1> DEFINE C == Components(added)
           D == Components(added \cup {s})
           E == Range(entries)
<1>6. /\ Separate(C, added)
      /\ E = Beyond(C, limit) /\ limit \in Int
  BY DEF CollectorInv, TypeOK, ComponentsApart, HoldsComponents, Held, Separate, Beyond
<1>7. limit < s.start BY <1>1, <1>2, <1>6, AttributedFields
<1>8. C = Components(added) /\ D = Components(added \cup {s}) OBVIOUS
<1> HIDE DEF C, D, E
<1>9. /\ Separate(D, added \cup {s})
      /\ Beyond(D, limit) = AddSpan(E, s)
  BY <1>5, <1>6, <1>7, <1>8, AddToComponents
<1>10. D = Components(added') BY <1>1, <1>8
<1>11. ComponentsApart' BY <1>1, <1>9, <1>10 DEF ComponentsApart, Separate
<1>12. Range(entries') = AddSpan(E, s) BY <1>1, <1>4 DEF E
<1>13. HoldsComponents' BY <1>1, <1>9, <1>10, <1>12 DEF HoldsComponents, Held, Beyond
<1>14. Slice(entries') BY <1>1, <1>4
<1>15. TypeOK' /\ Sorted(entries)'
  <2>1. entries' \in Seq(Entries) /\ Sound(Range(entries')) /\ Sorted(entries')
    BY <1>14 DEF Slice, Entries, Attributed
  <2>2. added' \subseteq RawSpans /\ Sound(added') /\ limit' \in Int
    BY <1>1, <1>5, <1>6 DEF CollectorInv, TypeOK
  <2> QED BY <2>1, <2>2 DEF TypeOK, Sound
<1> QED BY <1>11, <1>12, <1>13, <1>15 DEF CollectorInv, E

LEMMA ReleaseStep ==
    ASSUME CollectorInv, NEW l \in Limits, Release(l)
    PROVE  CollectorInv' /\ ReleaseUpTo(l)
<1> DEFINE n == Len(entries)
           k == Releasable(l)
           a == SubSeq(entries, 1, k)
           done == {c \in Held : c.end <= l}
<1>0. l \in Int /\ limit \in Int BY CollectorAssumption DEF CollectorInv, TypeOK
<1>1. Slice(entries) BY SliceIs
<1>2. k \in 0 .. n /\ \A i \in 1 .. n : entries[i].end <= l <=> i <= k BY <1>0, <1>1, ReleasedEntries
<1>3. /\ Slice(a) /\ Len(a) = k /\ \A i \in 1 .. k : a[i] = entries[i]
      /\ Range(a) = {entries[i] : i \in 1 .. k}
      /\ Slice(SubSeq(entries, k + 1, n))
      /\ Range(SubSeq(entries, k + 1, n)) = {entries[i] : i \in k + 1 .. n}
  <2> HIDE DEF k
  <2> QED BY <1>1, <1>2, Cut
<1>4. /\ entries' = SubSeq(entries, k + 1, n) /\ limit' = Higher(limit, l) /\ added' = added
      /\ answer' = Answer(k > 0, [i \in 1 .. k |-> Public(entries[i])])
  BY DEF Release
<1>5. /\ n \in Nat /\ Range(entries) = {entries[i] : i \in 1 .. n}
      /\ \A i \in 1 .. n : entries[i].end \in Nat
  BY <1>1, SliceEntries
<1> HIDE DEF k, n, a
<1>6. Held = Range(entries) BY DEF CollectorInv, HoldsComponents
<1>7. done = Range(a)
  <2>1. \A i \in 1 .. n : i <= k <=> i \in 1 .. k BY <1>2, <1>5
  <2>2. \A i \in 1 .. k : i \in 1 .. n BY <1>2, <1>5
  <2> QED BY <1>2, <1>3, <1>5, <1>6, <2>1, <2>2
<1>8. Range(entries') = {e \in Held : e.end > l}
  <2>1. \A i \in 1 .. n : i \in k + 1 .. n <=> ~(i <= k) BY <1>2, <1>5
  <2>2. \A i \in k + 1 .. n : i \in 1 .. n BY <1>2, <1>5
  <2>3. \A i \in 1 .. n : entries[i].end > l <=> ~(entries[i].end <= l) BY <1>0, <1>5
  <2> QED BY <1>2, <1>3, <1>4, <1>5, <1>6, <2>1, <2>2, <2>3
<1>9. Held' = {e \in Held : e.end > l}
  <2>1. Held' = {c \in Components(added) : c.end > Higher(limit, l)} BY <1>4 DEF Held
  <2>2. \A c \in Components(added) : c.end \in Nat
    BY DEF CollectorInv, ComponentsApart, Sound, Entries
  <2>3. \A c \in Components(added) : c.end > Higher(limit, l) <=> c.end > limit /\ c.end > l
    BY <1>0, <2>2 DEF Higher
  <2> QED BY <2>1, <2>3 DEF Held
<1>10. HoldsComponents' BY <1>8, <1>9 DEF HoldsComponents
<1>11. ComponentsApart' BY <1>4 DEF CollectorInv, ComponentsApart
<1>12. TypeOK' /\ Sorted(entries)'
  <2>1. entries' \in Seq(Entries) /\ Sound(Range(entries')) /\ Sorted(entries')
    BY <1>3, <1>4 DEF Slice, Entries, Attributed
  <2>2. added' \subseteq RawSpans /\ Sound(added') /\ limit' \in Int
    BY <1>0, <1>4 DEF CollectorInv, TypeOK, Higher
  <2> QED BY <2>1, <2>2 DEF TypeOK, Sound
<1>13. InOrder(done) = [i \in 1 .. k |-> Public(entries[i])]
  <2>1. InOrder(done) = Listed(a) BY <1>3, <1>7, InOrderIs
  <2>2. Listed(a) = [i \in 1 .. k |-> Public(a[i])] BY <1>3 DEF Listed
  <2>3. \A i \in 1 .. k : Public(a[i]) = Public(entries[i]) BY <1>3
  <2> HIDE DEF done
  <2> QED BY <2>1, <2>2, <2>3
<1>14. (done # {}) <=> k > 0
  <2>1. k > 0 => 1 \in 1 .. k BY <1>2
  <2>2. ~(k > 0) => 1 .. k = {} BY <1>2
  <2> QED BY <1>3, <1>7, <2>1, <2>2
<1>15. ReleaseUpTo(l)
  <2>1. answer' = Answer(done # {}, InOrder(done))
    <3>1. (k > 0) = (done # {}) BY <1>14
    <3> HIDE DEF done
    <3> QED BY <1>4, <1>13, <3>1
  <2> QED BY <1>4, <2>1 DEF ReleaseUpTo
<1> QED BY <1>10, <1>11, <1>12, <1>15 DEF CollectorInv

(* Nothing added: no component, as after New and after Reset.              *)
LEMMA NothingAdded == Components({}) = {} /\ Range(<<>>) = {}
<1>1. Heads({}) = {} BY DEF Heads
<1>2. Components({}) = {} BY <1>1 DEF Components
<1>3. DOMAIN <<>> = {} OBVIOUS
<1>4. Range(<<>>) = {} BY <1>3 DEF Range
<1> QED BY <1>2, <1>4

LEMMA EmptyCollector ==
    /\ Init => CollectorInv
    /\ added' = {} /\ entries' = <<>> /\ limit' = -1 => CollectorInv'
<1>1. Components({}) = {} /\ Range(<<>>) = {} BY NothingAdded
<1>2. <<>> \in Seq(Entries) /\ Len(<<>>) = 0 OBVIOUS
<1>3. ASSUME added = {}, entries = <<>>, limit = -1 PROVE CollectorInv
  <2>1. TypeOK BY <1>1, <1>2, <1>3 DEF TypeOK, Sound
  <2>2. Sorted(entries) BY <1>2, <1>3 DEF Sorted
  <2>3. ComponentsApart BY <1>1, <1>3 DEF ComponentsApart, Sound, Apart
  <2>4. HoldsComponents BY <1>1, <1>3 DEF HoldsComponents, Held
  <2> QED BY <2>1, <2>2, <2>3, <2>4 DEF CollectorInv
<1>4. ASSUME added' = {}, entries' = <<>>, limit' = -1 PROVE CollectorInv'
  <2>1. TypeOK' BY <1>1, <1>2, <1>4 DEF TypeOK, Sound
  <2>2. Sorted(entries)' BY <1>2, <1>4 DEF Sorted
  <2>3. ComponentsApart' BY <1>1, <1>4 DEF ComponentsApart, Sound, Apart
  <2>4. HoldsComponents' BY <1>1, <1>4 DEF HoldsComponents, Held
  <2> QED BY <2>1, <2>2, <2>3, <2>4 DEF CollectorInv
<1> QED BY <1>3, <1>4 DEF Init, CollectorInit

(* Earliest and Pending only look.                                         *)
LEMMA Looking ==
    ASSUME CollectorInv, UNCHANGED <<added, limit, entries>>
    PROVE  CollectorInv'
BY DEF CollectorInv, TypeOK, Sorted, ComponentsApart, HoldsComponents, Held

LEMMA EarliestStep ==
    ASSUME CollectorInv, Earliest
    PROVE  EarliestHeld
<1>1. Slice(entries) BY SliceIs
<1>2. Held = Range(entries) BY DEF CollectorInv, HoldsComponents
<1>3. InOrder(Held) = Listed(entries) BY <1>1, <1>2, InOrderIs
<1>4. Len(entries) \in Nat /\ Range(entries) = {entries[i] : i \in 1 .. Len(entries)}
  BY <1>1, SliceEntries
<1>5. CASE entries = <<>>
  <2>1. Held = {} BY <1>2, <1>5, NothingAdded
  <2> QED BY <1>5, <2>1 DEF Earliest, EarliestHeld
<1>6. CASE entries # <<>>
  <2>1. Len(entries) # 0 BY <1>1, <1>6 DEF Slice
  <2>2. 1 \in 1 .. Len(entries) BY <1>4, <2>1
  <2>3. Held # {} BY <1>2, <1>4, <2>2
  <2>4. Head(InOrder(Held)) = Public(entries[1])
    <3>1. Listed(entries)[1] = Public(entries[1]) BY <2>2 DEF Listed
    <3>2. Head(Listed(entries)) = Listed(entries)[1] OBVIOUS
    <3> QED BY <1>3, <3>1, <3>2
  <2>5. answer' = Answer(TRUE, <<Public(entries[1])>>) BY <1>6 DEF Earliest
  <2> QED BY <2>3, <2>4, <2>5 DEF Earliest, EarliestHeld
<1> QED BY <1>5, <1>6

LEMMA PendingStep ==
    ASSUME CollectorInv, Pending
    PROVE  AnyHeld
<1>1. Slice(entries) BY SliceIs
<1>2. Held = Range(entries) BY DEF CollectorInv, HoldsComponents
<1>3. Len(entries) \in Nat /\ Range(entries) = {entries[i] : i \in 1 .. Len(entries)}
  BY <1>1, SliceEntries
<1>4. (Len(entries) > 0) = (Held # {})
  <2>1. Len(entries) > 0 => 1 \in 1 .. Len(entries) BY <1>3
  <2>2. ~(Len(entries) > 0) => 1 .. Len(entries) = {} BY <1>3
  <2> QED BY <1>2, <1>3, <2>1, <2>2
<1> QED BY <1>4 DEF Pending, AnyHeld

(* A step keeps the invariant and is a step of the abstract collector.     *)
LEMMA CollectorStep ==
    ASSUME CollectorInv, [Next]_collectorImplVars
    PROVE  /\ CollectorInv' /\ [CollectorNext]_collectorVars
           /\ \A s \in added' \ added : Range(entries') = AddSpan(Range(entries), s)
<1>1. ASSUME NEW s \in RawSpans, Add(s)
      PROVE  /\ CollectorInv' /\ AddRaw(s)
             /\ \A r \in added' \ added : Range(entries') = AddSpan(Range(entries), r)
  <2>1. CollectorInv' /\ Range(entries') = AddSpan(Range(entries), s) BY <1>1, AddStep
  <2>2. AddRaw(s) BY <1>1 DEF Add, AddRaw
  <2>3. \A r \in added' \ added : r = s BY <1>1 DEF Add
  <2> QED BY <2>1, <2>2, <2>3
<1>2. ASSUME NEW l \in Limits, Release(l) PROVE CollectorInv' /\ ReleaseUpTo(l) /\ added' = added
  <2>1. CollectorInv' /\ ReleaseUpTo(l) BY <1>2, ReleaseStep
  <2> QED BY <1>2, <2>1 DEF Release
<1>3. CASE Earliest
  <2>1. UNCHANGED <<added, limit, entries>> BY <1>3 DEF Earliest
  <2>2. CollectorInv' BY <2>1, Looking
  <2>3. EarliestHeld BY <1>3, EarliestStep
  <2> QED BY <2>1, <2>2, <2>3 DEF CollectorNext
<1>4. CASE Pending
  <2>1. UNCHANGED <<added, limit, entries>> BY <1>4 DEF Pending
  <2>2. CollectorInv' BY <2>1, Looking
  <2>3. AnyHeld BY <1>4, PendingStep
  <2> QED BY <2>1, <2>2, <2>3 DEF CollectorNext
<1>5. CASE Reset
  <2>1. added' = {} /\ entries' = <<>> /\ limit' = -1 /\ Forget BY <1>5 DEF Reset, Forget
  <2>2. CollectorInv' BY <2>1, EmptyCollector
  <2> QED BY <2>1, <2>2 DEF CollectorNext
<1>6. CASE UNCHANGED collectorImplVars
  <2>1. UNCHANGED <<added, limit, entries>> /\ UNCHANGED collectorVars
    BY <1>6 DEF collectorImplVars, collectorVars
  <2>2. CollectorInv' BY <2>1, Looking
  <2> QED BY <2>1, <2>2
<1>7. CASE \E s \in RawSpans : Add(s) BY <1>1, <1>7 DEF CollectorNext
<1>8. CASE \E l \in Limits : Release(l)
  <2>1. PICK l \in Limits : Release(l) BY <1>8
  <2>2. CollectorInv' /\ ReleaseUpTo(l) /\ added' = added BY <1>2, <2>1
  <2> QED BY <2>2 DEF CollectorNext
<1> QED BY <1>3, <1>4, <1>5, <1>6, <1>7, <1>8 DEF Next

(* The invariant: the slice is typed, sorted by start with a gap between   *)
(* any two entries, and holds the components that end beyond the limit.    *)
THEOREM CollectorInvariant == Spec => []CollectorInv
<1>1. Init => CollectorInv BY EmptyCollector
<1>2. CollectorInv /\ [Next]_collectorImplVars => CollectorInv' BY CollectorStep
<1> QED BY <1>1, <1>2, PTL DEF Spec

(* In any order of calls, with any releases in between, eager merging      *)
(* leaves exactly the components still held, attribution included.         *)
THEOREM HoldsWhatIsDue == Spec => []HoldsComponents
<1>1. CollectorInv => HoldsComponents BY DEF CollectorInv
<1> QED BY <1>1, CollectorInvariant, PTL

(* What Add does to the sorted slice, with its two binary searches and its *)
(* loop, is AddSpan, which the engine's model uses in its place.           *)
THEOREM SpliceRefinesAddSpan == Spec => AddIsAddSpan
<1>1. CollectorInv /\ [Next]_collectorImplVars
      => [\A s \in added' \ added : Range(entries') = AddSpan(Range(entries), s)]_collectorImplVars
  BY CollectorStep
<1> QED BY <1>1, CollectorInvariant, PTL DEF Spec, AddIsAddSpan

(* Every call of the collector answers what the raw spans and the limits   *)
(* alone determine: the sorted slice implements the abstract collector.    *)
THEOREM CollectorRefinement == Spec => ImplementsCollector
<1>1. Init => CollectorInit BY DEF Init
<1>2. CollectorInv /\ [Next]_collectorImplVars => [CollectorNext]_collectorVars BY CollectorStep
<1> QED BY <1>1, <1>2, CollectorInvariant, PTL DEF Spec, ImplementsCollector, CollectorSpec
=============================================================================
