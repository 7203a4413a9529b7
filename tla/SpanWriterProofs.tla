-------------------------- MODULE SpanWriterProofs --------------------------
(***************************************************************************)
(* The Writer holds its invariant, whatever regions and spans its caller   *)
(* chooses and however the destination's Write behaves: what the           *)
(* destination holds is the rendering of the spans accepted, up to the     *)
(* position, and the counters count it.                                    *)
(***************************************************************************)
EXTENDS SpanWriterInv, SpansProofs, SequenceTheorems, FiniteSetTheorems, TLAPS

----------------------------------------------------------------------------
(* What is written for an offset, as a function of the strategy and the    *)
(* spans.                                                                  *)
MaskedAs(st, from, to) ==
    IF st = "fixed" THEN <<>>
    ELSE [i \in 1 .. Higher(to - from, 0) |-> [at |-> from + i - 1, byte |-> "mask"]]
OpeningAs(st, at) == IF st = "fixed" THEN Marker(at) ELSE <<>>
Covered(A, i) == \E s \in A : s.start <= i /\ i < s.end
Opened(A, i)  == \E s \in A : s.start = i
PieceAs(st, A, i) ==
    IF ~Covered(A, i) THEN Plain(i, i + 1)
    ELSE (IF Opened(A, i) THEN OpeningAs(st, i) ELSE <<>>) \o MaskedAs(st, i, i + 1)
RenderAs(st, A, n) == FlattenSeq([i \in 1 .. n |-> PieceAs(st, A, i - 1)])

LEMMA RenderingNow ==
    ASSUME NEW n
    PROVE  Rendering(n) = RenderAs(strategy, accepted, n)
BY DEF Rendering, RenderAs, Piece, PieceAs, Masked, MaskedAs, Opening, OpeningAs, Covered, Opened

(* The items of consecutive offsets.                                       *)
Item(kind, at) == [at |-> at, byte |-> kind]
Stretch(kind, a, b) == [i \in 1 .. b - a |-> Item(kind, a + i - 1)]

Stretched(kind, a, b, f) ==
    /\ f \in Seq(Items) /\ Len(f) = b - a
    /\ \A i \in 1 .. b - a : f[i] = Item(kind, a + i - 1)

LEMMA Stretching ==
    ASSUME NEW kind \in {"plain", "mask"}, NEW a \in Int, NEW b \in Int, a <= b
    PROVE  Stretched(kind, a, b, Stretch(kind, a, b))
<1>1. \A i \in 1 .. b - a : Item(kind, a + i - 1) \in Items
  <2> TAKE i \in 1 .. b - a
  <2>1. PICK k \in Int : k = a + i - 1 OBVIOUS
  <2>2. Item(kind, k) \in Items BY DEF Item, Items
  <2> QED BY <2>1, <2>2
<1>2. b - a \in Nat OBVIOUS
<1> DEFINE f == Stretch(kind, a, b)
<1>3. f \in [1 .. b - a -> Items] BY <1>1 DEF Stretch
<1>4. \A i \in 1 .. b - a : f[i] = Item(kind, a + i - 1) BY DEF Stretch
<1> HIDE DEF f
<1>5. f \in Seq(Items) /\ Len(f) = b - a BY <1>2, <1>3
<1>6. Stretched(kind, a, b, f) BY <1>4, <1>5 DEF Stretched
<1> QED BY <1>6 DEF f

LEMMA StretchIs ==
    ASSUME NEW kind \in {"plain", "mask"}, NEW a \in Int, NEW b \in Int, a <= b
    PROVE  /\ Stretch(kind, a, b) \in Seq(Items) /\ Len(Stretch(kind, a, b)) = b - a
           /\ \A i \in 1 .. b - a : Stretch(kind, a, b)[i] = Item(kind, a + i - 1)
<1>1. Stretched(kind, a, b, Stretch(kind, a, b)) BY Stretching
<1> QED BY <1>1 DEF Stretched

LEMMA StretchMore ==
    ASSUME NEW kind \in {"plain", "mask"}, NEW a \in Int, NEW c \in Int, a <= c
    PROVE  Stretch(kind, a, c + 1) = Stretch(kind, a, c) \o Stretch(kind, c, c + 1)
<1> DEFINE p == Stretch(kind, a, c) q == Stretch(kind, c, c + 1) r == Stretch(kind, a, c + 1)
<1>0. Stretched(kind, a, c, p) BY Stretching
<1>1. /\ p \in Seq(Items) /\ Len(p) = c - a
      /\ \A i \in 1 .. c - a : p[i] = Item(kind, a + i - 1)
  BY <1>0 DEF Stretched
<1>2. q \in Seq(Items) /\ Len(q) = 1 /\ q[1] = Item(kind, c)
  <2>1. PICK d \in Int : d = c + 1 /\ c <= d OBVIOUS
  <2>0. Stretched(kind, c, d, Stretch(kind, c, d)) BY <2>1, Stretching
  <2>2. /\ Stretch(kind, c, d) \in Seq(Items) /\ Len(Stretch(kind, c, d)) = d - c
        /\ \A i \in 1 .. d - c : Stretch(kind, c, d)[i] = Item(kind, c + i - 1)
    BY <2>0 DEF Stretched
  <2>3. 1 \in 1 .. d - c /\ c + 1 - 1 = c /\ d - c = 1 BY <2>1
  <2> QED BY <2>1, <2>2, <2>3
<1>3. /\ r \in Seq(Items) /\ Len(r) = c + 1 - a
      /\ \A i \in 1 .. c + 1 - a : r[i] = Item(kind, a + i - 1)
  <2>1. PICK d \in Int : d = c + 1 /\ a <= d OBVIOUS
  <2>0. Stretched(kind, a, d, Stretch(kind, a, d)) BY <2>1, Stretching
  <2>2. /\ Stretch(kind, a, d) \in Seq(Items) /\ Len(Stretch(kind, a, d)) = d - a
        /\ \A i \in 1 .. d - a : Stretch(kind, a, d)[i] = Item(kind, a + i - 1)
    BY <2>0 DEF Stretched
  <2> QED BY <2>1, <2>2
<1> HIDE DEF p, q, r
<1>4. /\ p \o q \in Seq(Items) /\ Len(p \o q) = c - a + 1
      /\ \A i \in 1 .. c - a + 1 : (p \o q)[i] = IF i <= c - a THEN p[i] ELSE q[i - (c - a)]
  <2>1. Len(p) + Len(q) = c - a + 1 BY <1>1, <1>2
  <2>2. /\ p \o q \in Seq(Items) /\ Len(p \o q) = Len(p) + Len(q)
        /\ \A i \in 1 .. Len(p) + Len(q) : (p \o q)[i] = IF i <= Len(p) THEN p[i] ELSE q[i - Len(p)]
    BY <1>1, <1>2, ConcatProperties
  <2> QED BY <1>1, <2>1, <2>2
<1>5. \A i \in 1 .. Len(r) : r[i] = (p \o q)[i]
  <2> TAKE i \in 1 .. Len(r)
  <2>0. i \in 1 .. c + 1 - a /\ i \in 1 .. c - a + 1 BY <1>3
  <2>1. CASE i <= c - a
    <3>1. i \in 1 .. c - a BY <2>0, <2>1
    <3> QED BY <1>1, <1>3, <1>4, <2>0, <2>1, <3>1
  <2>2. CASE i = c + 1 - a
    <3>1. i - (c - a) = 1 /\ ~(i <= c - a) /\ a + i - 1 = c BY <2>2
    <3>2. r[i] = Item(kind, c) BY <1>3, <2>0, <3>1
    <3>3. (p \o q)[i] = q[1] BY <1>4, <2>0, <3>1
    <3> QED BY <1>2, <3>2, <3>3
  <2>3. i <= c - a \/ i = c + 1 - a BY <2>0
  <2> QED BY <2>1, <2>2, <2>3
<1>6. Len(r) = Len(p \o q) BY <1>3, <1>4
<1>7. r = p \o q BY <1>3, <1>4, <1>5, <1>6, SeqEqual
<1> QED BY <1>7 DEF p, q, r

LEMMA StretchEmpty ==
    ASSUME NEW kind \in {"plain", "mask"}, NEW a \in Int
    PROVE  Stretch(kind, a, a) = <<>>
<1>1. a <= a /\ a - a = 0 OBVIOUS
<1>2. Stretch(kind, a, a) \in Seq(Items) /\ Len(Stretch(kind, a, a)) = 0 BY <1>1, StretchIs
<1> QED BY <1>2, EmptySeq

LEMMA PlainIs ==
    ASSUME NEW a \in Int, NEW b \in Int, a <= b
    PROVE  Plain(a, b) = Stretch("plain", a, b)
BY DEF Plain, Stretch, Item, Higher

LEMMA MaskedIs ==
    ASSUME NEW st, NEW a \in Int, NEW b \in Int, a <= b
    PROVE  MaskedAs(st, a, b) = IF st = "fixed" THEN <<>> ELSE Stretch("mask", a, b)
BY DEF MaskedAs, Stretch, Item, Higher

LEMMA OpeningIs ==
    ASSUME NEW st, NEW at \in Int
    PROVE  OpeningAs(st, at) \in Seq(Items)
<1>1. \A i \in 1 .. MarkerLen : [at |-> at, byte |-> "marker", nth |-> i] \in Items BY DEF Items
<1>2. MarkerLen \in Nat BY WriterAssumption
<1>3. Marker(at) \in [1 .. MarkerLen -> Items] BY <1>1 DEF Marker
<1>4. Marker(at) \in Seq(Items) BY <1>2, <1>3
<1> QED BY <1>4, EmptySeq DEF OpeningAs

LEMMA MaskedMore ==
    ASSUME NEW st, NEW a \in Int, NEW c \in Int, a <= c
    PROVE  /\ MaskedAs(st, a, c + 1) = MaskedAs(st, a, c) \o MaskedAs(st, c, c + 1)
           /\ MaskedAs(st, a, c) \in Seq(Items) /\ MaskedAs(st, c, c + 1) \in Seq(Items)
<1>1. PICK d \in Int : d = c + 1 /\ a <= d /\ c <= d OBVIOUS
<1>2. CASE st = "fixed"
  <2>1. <<>> \in Seq(Items) /\ <<>> \o <<>> = <<>> OBVIOUS
  <2> QED BY <1>1, <1>2, <2>1, MaskedIs
<1>3. CASE st # "fixed"
  <2>1. Stretch("mask", a, d) = Stretch("mask", a, c) \o Stretch("mask", c, d)
    BY <1>1, StretchMore
  <2>2. Stretch("mask", a, c) \in Seq(Items) /\ Stretch("mask", c, d) \in Seq(Items)
    BY <1>1, StretchIs
  <2>3. /\ MaskedAs(st, a, d) = Stretch("mask", a, d) /\ MaskedAs(st, a, c) = Stretch("mask", a, c)
        /\ MaskedAs(st, c, d) = Stretch("mask", c, d)
    BY <1>1, <1>3, MaskedIs
  <2> QED BY <1>1, <2>1, <2>2, <2>3
<1> QED BY <1>2, <1>3

LEMMA PieceType ==
    ASSUME NEW st, NEW A, NEW i \in Int
    PROVE  PieceAs(st, A, i) \in Seq(Items)
<1>1. PICK d \in Int : d = i + 1 /\ i <= d OBVIOUS
<1>2. Plain(i, d) \in Seq(Items) BY <1>1, PlainIs, StretchIs
<1>3. MaskedAs(st, i, d) \in Seq(Items) BY <1>1, MaskedMore
<1>4. OpeningAs(st, i) \in Seq(Items) BY OpeningIs
<1>5. <<>> \in Seq(Items) OBVIOUS
<1> QED BY <1>1, <1>2, <1>3, <1>4, <1>5, ConcatProperties DEF PieceAs

(* The rendering of one offset more.                                       *)
LEMMA RenderMore ==
    ASSUME NEW st, NEW A, NEW n \in Nat
    PROVE  /\ RenderAs(st, A, n + 1) = RenderAs(st, A, n) \o PieceAs(st, A, n)
           /\ RenderAs(st, A, n + 1) \in Seq(Items) /\ RenderAs(st, A, n) \in Seq(Items)
<1> DEFINE s == [i \in 1 .. n + 1 |-> PieceAs(st, A, i - 1)]
           t == [i \in 1 .. n |-> PieceAs(st, A, i - 1)]
<1>1. \A i \in 1 .. n + 1 : PieceAs(st, A, i - 1) \in Seq(Items)
  <2> TAKE i \in 1 .. n + 1
  <2>1. PICK k \in Int : k = i - 1 OBVIOUS
  <2> QED BY <2>1, PieceType
<1>2. s \in [1 .. n + 1 -> Seq(Items)] /\ t \in [1 .. n -> Seq(Items)] BY <1>1
<1>3. \A i \in 1 .. n : t[i] = s[i] OBVIOUS
<1>4. s[n + 1] = PieceAs(st, A, n)
  <2>1. PICK k : k = n + 1 /\ k \in 1 .. n + 1 /\ k - 1 = n OBVIOUS
  <2>2. s[k] = PieceAs(st, A, k - 1) BY <2>1
  <2> HIDE DEF s
  <2> QED BY <2>1, <2>2
<1>5. RenderAs(st, A, n + 1) = FlattenSeq(s) /\ RenderAs(st, A, n) = FlattenSeq(t) BY DEF RenderAs
<1> HIDE DEF s, t
<1>6. /\ FlattenSeq(s) = FlattenSeq(t) \o s[n + 1]
      /\ FlattenSeq(s) \in Seq(Items) /\ FlattenSeq(t) \in Seq(Items)
  BY <1>2, <1>3, FlattenOneMore
<1> QED BY <1>4, <1>5, <1>6

LEMMA Joined ==
    ASSUME NEW s \in Seq(Items), NEW t \in Seq(Items), NEW u \in Seq(Items)
    PROVE  (s \o t) \o u = s \o (t \o u)
BY ConcatAssociative

(* A stretch of offsets is rendered piece by piece: C[c] is what has been  *)
(* rendered of those from a up to c.                                       *)
Accumulates(C, st, A, a, b) ==
    /\ C[a] = <<>>
    /\ \A c \in a .. b : C[c] \in Seq(Items)
    /\ \A c \in a .. b - 1 : C[c + 1] = C[c] \o PieceAs(st, A, c)

LEMMA RenderRange ==
    ASSUME NEW st, NEW A, NEW a \in Nat, NEW b \in Nat, a <= b,
           NEW C, Accumulates(C, st, A, a, b)
    PROVE  RenderAs(st, A, b) = RenderAs(st, A, a) \o C[b]
<1> DEFINE P == {n \in Nat : a + n <= b => RenderAs(st, A, a + n) = RenderAs(st, A, a) \o C[a + n]}
<1>0. RenderAs(st, A, a) \in Seq(Items) BY RenderMore
<1>1. 0 \in P
  <2>1. RenderAs(st, A, a) \o <<>> = RenderAs(st, A, a) BY <1>0, ConcatEmptySeq
  <2>2. PICK k : k = a + 0 OBVIOUS
  <2>3. k = a BY <2>2
  <2>4. C[a] = <<>> BY DEF Accumulates
  <2> QED BY <2>1, <2>2, <2>3, <2>4
<1>2. ASSUME NEW n \in Nat, n \in P PROVE n + 1 \in P
  <2> SUFFICES ASSUME a + (n + 1) <= b
               PROVE  RenderAs(st, A, a + (n + 1)) = RenderAs(st, A, a) \o C[a + (n + 1)]
    OBVIOUS
  <2>1. PICK c \in Nat : c = a + n /\ c + 1 = a + (n + 1) OBVIOUS
  <2>2. c \in a .. b - 1 /\ c \in a .. b BY <2>1
  <2>3. RenderAs(st, A, c) = RenderAs(st, A, a) \o C[c] BY <1>2, <2>1, <2>2
  <2>4. RenderAs(st, A, c + 1) = RenderAs(st, A, c) \o PieceAs(st, A, c) BY RenderMore
  <2>5. C[c + 1] = C[c] \o PieceAs(st, A, c) /\ C[c] \in Seq(Items) BY <2>2 DEF Accumulates
  <2>6. PieceAs(st, A, c) \in Seq(Items) BY PieceType
  <2>7. (RenderAs(st, A, a) \o C[c]) \o PieceAs(st, A, c)
        = RenderAs(st, A, a) \o (C[c] \o PieceAs(st, A, c))
    BY <1>0, <2>5, <2>6, Joined
  <2>8. RenderAs(st, A, c + 1) = RenderAs(st, A, a) \o C[c + 1] BY <2>3, <2>4, <2>5, <2>7
  <2> QED BY <2>1, <2>8
<1>3. Nat \subseteq P
  <2> HIDE DEF P
  <2> QED BY <1>1, <1>2, Inductive
<1>4. PICK n \in Nat : a + n = b
  <2>1. b - a \in Nat /\ a + (b - a) = b OBVIOUS
  <2> QED BY <2>1
<1>5. a + n <= b => RenderAs(st, A, a + n) = RenderAs(st, A, a) \o C[a + n] BY <1>3
<1> HIDE DEF P
<1>6. a + n <= b BY <1>4
<1>7. RenderAs(st, A, a + n) = RenderAs(st, A, a) \o C[a + n] BY <1>5, <1>6, Zenon
<1> QED BY <1>4, <1>7, Zenon

(* Offsets no accepted span covers are rendered by their plain bytes, ...  *)
Bare(A, a, b) == \A i \in a .. b - 1 : ~Covered(A, i)

Adds(text, part, more) == text = part \o more /\ more \in Seq(Items)

LEMMA RenderPlain ==
    ASSUME NEW st, NEW A, NEW a \in Nat, NEW b \in Nat, a <= b, Bare(A, a, b)
    PROVE  Adds(RenderAs(st, A, b), RenderAs(st, A, a), Plain(a, b))
<1> DEFINE C == [c \in a .. b |-> Stretch("plain", a, c)]
<1>1. C[a] = <<>> BY StretchEmpty
<1>2. \A c \in a .. b : C[c] \in Seq(Items) BY StretchIs
<1>3. ASSUME NEW c \in a .. b - 1 PROVE C[c + 1] = C[c] \o PieceAs(st, A, c)
  <2>1. PICK d \in Int : d = c + 1 /\ c <= d /\ d \in a .. b /\ c \in a .. b /\ c \in Int /\ a \in Int /\ a <= c
    OBVIOUS
  <2>2. PieceAs(st, A, c) = Plain(c, d) BY <2>1 DEF PieceAs, Bare
  <2>3. Plain(c, d) = Stretch("plain", c, d) BY <2>1, PlainIs
  <2>4. Stretch("plain", a, d) = Stretch("plain", a, c) \o Stretch("plain", c, d)
    BY <2>1, StretchMore
  <2>5. C[d] = Stretch("plain", a, d) /\ C[c] = Stretch("plain", a, c) BY <2>1
  <2> HIDE DEF C
  <2> QED BY <2>1, <2>2, <2>3, <2>4, <2>5
<1>4. C[b] = Stretch("plain", a, b) BY a <= b
<1>5. C[b] \in Seq(Items) BY <1>2
<1> HIDE DEF C
<1>7. Accumulates(C, st, A, a, b) BY <1>1, <1>2, <1>3 DEF Accumulates
<1>6. RenderAs(st, A, b) = RenderAs(st, A, a) \o C[b] BY <1>7, RenderRange
<1>8. Plain(a, b) = C[b] BY <1>4, PlainIs
<1> QED BY <1>5, <1>6, <1>8 DEF Adds

(* ... those of a span, after its first, by their mask bytes, ...          *)
LEMMA RenderMasked ==
    ASSUME NEW st, NEW A, NEW a \in Nat, NEW b \in Nat, a <= b,
           \A i \in a .. b - 1 : Covered(A, i) /\ ~Opened(A, i)
    PROVE  /\ RenderAs(st, A, b) = RenderAs(st, A, a) \o MaskedAs(st, a, b)
           /\ MaskedAs(st, a, b) \in Seq(Items)
<1> DEFINE C == [c \in a .. b |-> MaskedAs(st, a, c)]
<1>1. C[a] = <<>> BY MaskedIs, StretchEmpty
<1>2. \A c \in a .. b : C[c] \in Seq(Items) BY MaskedMore
<1>3. ASSUME NEW c \in a .. b - 1 PROVE C[c + 1] = C[c] \o PieceAs(st, A, c)
  <2>1. PICK d \in Int : d = c + 1 /\ c <= d /\ d \in a .. b /\ c \in a .. b /\ c \in Int /\ a \in Int /\ a <= c
    OBVIOUS
  <2>2. PieceAs(st, A, c) = <<>> \o MaskedAs(st, c, d) BY <2>1 DEF PieceAs
  <2>3. /\ MaskedAs(st, a, d) = MaskedAs(st, a, c) \o MaskedAs(st, c, d)
        /\ MaskedAs(st, c, d) \in Seq(Items)
    BY <2>1, MaskedMore
  <2>4. PieceAs(st, A, c) = MaskedAs(st, c, d) BY <2>2, <2>3, ConcatEmptySeq
  <2>5. C[d] = MaskedAs(st, a, d) /\ C[c] = MaskedAs(st, a, c) BY <2>1
  <2> HIDE DEF C
  <2> QED BY <2>1, <2>3, <2>4, <2>5
<1>4. C[b] = MaskedAs(st, a, b) BY a <= b
<1>5. C[b] \in Seq(Items) BY <1>2
<1> HIDE DEF C
<1>7. Accumulates(C, st, A, a, b) BY <1>1, <1>2, <1>3 DEF Accumulates
<1>6. RenderAs(st, A, b) = RenderAs(st, A, a) \o C[b] BY <1>7, RenderRange
<1> QED BY <1>4, <1>5, <1>6

(* ... and the first as well, after the marker.                            *)
LEMMA RenderOpened ==
    ASSUME NEW st, NEW A, NEW a \in Nat, NEW b \in Nat, a < b, Opened(A, a),
           \A i \in a .. b - 1 : Covered(A, i) /\ (i # a => ~Opened(A, i))
    PROVE  /\ RenderAs(st, A, b) = RenderAs(st, A, a) \o (OpeningAs(st, a) \o MaskedAs(st, a, b))
           /\ OpeningAs(st, a) \o MaskedAs(st, a, b) \in Seq(Items)
<1> DEFINE whole(c) == OpeningAs(st, a) \o MaskedAs(st, a, c)
           C == [c \in a .. b |-> IF c = a THEN <<>> ELSE whole(c)]
<1>0. OpeningAs(st, a) \in Seq(Items) /\ <<>> \in Seq(Items) BY OpeningIs
<1>1. C[a] = <<>> BY a <= b
<1>2. ASSUME NEW c \in a .. b PROVE C[c] \in Seq(Items)
  <2>1. MaskedAs(st, a, c) \in Seq(Items) BY MaskedMore
  <2>2. whole(c) \in Seq(Items) BY <1>0, <2>1, ConcatProperties
  <2> HIDE DEF whole
  <2> QED BY <1>0, <2>2
<1>3. ASSUME NEW c \in a .. b - 1 PROVE C[c + 1] = C[c] \o PieceAs(st, A, c)
  <2>1. PICK d \in Int : d = c + 1 /\ c <= d /\ d \in a .. b /\ c \in a .. b /\ c \in Int /\ a \in Int
               /\ a <= c /\ d # a
    OBVIOUS
  <2>2. /\ MaskedAs(st, a, d) = MaskedAs(st, a, c) \o MaskedAs(st, c, d)
        /\ MaskedAs(st, c, d) \in Seq(Items) /\ MaskedAs(st, a, c) \in Seq(Items)
    BY <2>1, MaskedMore
  <2>3. C[d] = whole(d)
    <3> HIDE DEF whole
    <3> QED BY <2>1
  <2>4. CASE c = a
    <3>1. PieceAs(st, A, c) = whole(d) BY <2>1, <2>4 DEF PieceAs
    <3>2. whole(d) \in Seq(Items) BY <1>2, <2>1, <2>3
    <3>3. <<>> \o whole(d) = whole(d)
      <4> HIDE DEF whole
      <4> QED BY <3>2, ConcatEmptySeq
    <3> HIDE DEF C, whole
    <3> QED BY <1>1, <2>1, <2>3, <2>4, <3>1, <3>3
  <2>5. CASE c # a
    <3>1. PieceAs(st, A, c) = <<>> \o MaskedAs(st, c, d) BY <2>1, <2>5 DEF PieceAs
    <3>2. PieceAs(st, A, c) = MaskedAs(st, c, d) BY <2>2, <3>1, ConcatEmptySeq
    <3>3. C[c] = whole(c)
      <4> HIDE DEF whole
      <4> QED BY <2>1, <2>5
    <3>4. whole(d) = whole(c) \o MaskedAs(st, c, d)
      <4>1. (OpeningAs(st, a) \o MaskedAs(st, a, c)) \o MaskedAs(st, c, d)
            = OpeningAs(st, a) \o (MaskedAs(st, a, c) \o MaskedAs(st, c, d))
        BY <1>0, <2>2, Joined
      <4> QED BY <2>2, <4>1
    <3> HIDE DEF C, whole
    <3> QED BY <2>1, <2>3, <3>2, <3>3, <3>4
  <2> QED BY <2>4, <2>5
<1>4. C[b] = whole(b) /\ C[b] \in Seq(Items)
  <2> HIDE DEF whole
  <2>1. b \in a .. b /\ b # a OBVIOUS
  <2>2. C[b] = whole(b) BY <2>1
  <2> HIDE DEF C
  <2> QED BY <1>2, <2>1, <2>2
<1> HIDE DEF C
<1>7. Accumulates(C, st, A, a, b) BY <1>1, <1>2, <1>3 DEF Accumulates
<1>5. RenderAs(st, A, b) = RenderAs(st, A, a) \o C[b] BY <1>7, RenderRange
<1> QED BY <1>4, <1>5

(* A rendering extends that of fewer offsets.                              *)
Begins(part, text) == \E u \in Seq(Items) : text = part \o u

LEMMA RenderExtends ==
    ASSUME NEW st, NEW A, NEW a \in Nat, NEW b \in Nat, a <= b
    PROVE  Begins(RenderAs(st, A, a), RenderAs(st, A, b))
<1> DEFINE P == {n \in Nat : \E u \in Seq(Items) : RenderAs(st, A, a + n) = RenderAs(st, A, a) \o u}
<1>0. RenderAs(st, A, a) \in Seq(Items) BY RenderMore
<1>1. 0 \in P
  <2>1. RenderAs(st, A, a) \o <<>> = RenderAs(st, A, a) /\ <<>> \in Seq(Items)
    BY <1>0, ConcatEmptySeq
  <2>2. a + 0 = a OBVIOUS
  <2> QED BY <2>1, <2>2
<1>2. ASSUME NEW n \in Nat, n \in P PROVE n + 1 \in P
  <2>1. PICK c \in Nat : c = a + n /\ c + 1 = a + (n + 1) OBVIOUS
  <2>2. PICK u \in Seq(Items) : RenderAs(st, A, c) = RenderAs(st, A, a) \o u BY <1>2, <2>1
  <2>3. RenderAs(st, A, c + 1) = RenderAs(st, A, c) \o PieceAs(st, A, c) BY RenderMore
  <2>4. PieceAs(st, A, c) \in Seq(Items) BY PieceType
  <2>5. u \o PieceAs(st, A, c) \in Seq(Items) BY <2>4, ConcatProperties
  <2>6. (RenderAs(st, A, a) \o u) \o PieceAs(st, A, c)
        = RenderAs(st, A, a) \o (u \o PieceAs(st, A, c))
    BY <1>0, <2>4, Joined
  <2>7. RenderAs(st, A, c + 1) = RenderAs(st, A, a) \o (u \o PieceAs(st, A, c))
    BY <2>2, <2>3, <2>6
  <2>8. \E v \in Seq(Items) : RenderAs(st, A, a + (n + 1)) = RenderAs(st, A, a) \o v
    BY <2>1, <2>5, <2>7
  <2> QED BY <2>8
<1>3. Nat \subseteq P
  <2> HIDE DEF P
  <2> QED BY <1>1, <1>2, Inductive
<1>4. PICK n \in Nat : a + n = b
  <2>1. b - a \in Nat /\ a + (b - a) = b OBVIOUS
  <2> QED BY <2>1
<1>5. n \in P BY <1>3
<1> QED BY <1>4, <1>5 DEF Begins

(* A span that starts beyond them changes nothing of the offsets so far.   *)
LEMMA RenderKeeps ==
    ASSUME NEW st, NEW A, NEW n \in Nat, NEW s, s.start \in Int, n <= s.start,
           \A t \in A : t.start \in Int
    PROVE  RenderAs(st, A \cup {s}, n) = RenderAs(st, A, n)
<1>1. ASSUME NEW i \in 1 .. n PROVE PieceAs(st, A \cup {s}, i - 1) = PieceAs(st, A, i - 1)
  <2>1. PICK k \in Int : k = i - 1 /\ k < s.start OBVIOUS
  <2>2. Covered(A \cup {s}, k) <=> Covered(A, k) BY <2>1 DEF Covered
  <2>3. Opened(A \cup {s}, k) <=> Opened(A, k) BY <2>1 DEF Opened
  <2>4. PieceAs(st, A \cup {s}, k) = PieceAs(st, A, k) BY <2>2, <2>3 DEF PieceAs
  <2> QED BY <2>1, <2>4
<1>2. [i \in 1 .. n |-> PieceAs(st, A \cup {s}, i - 1)] = [i \in 1 .. n |-> PieceAs(st, A, i - 1)]
  BY <1>1
<1> QED BY <1>2 DEF RenderAs

----------------------------------------------------------------------------
(* Prefixes, and the two parts of what a Write leaves.                     *)

LEMMA PrefixOf ==
    ASSUME NEW s \in Seq(Items), NEW u \in Seq(Items)
    PROVE  IsPrefix(s, s \o u)
<1> DEFINE t == s \o u
<1>1. t \in Seq(Items) /\ Len(t) = Len(s) + Len(u) /\ Len(s) \in Nat /\ Len(u) \in Nat
  BY ConcatProperties, LenProperties
<1>2. SubSeq(s, 1, Len(s)) = SubSeq(t, 1, Len(s))
  <2>1. CASE Len(s) = 0 BY <2>1, SubSeqEmpty
  <2>2. CASE Len(s) # 0
    <3>1. 1 \in 1 .. Len(s) /\ Len(s) \in 1 .. Len(s) BY <1>1, <2>2
    <3> QED BY <3>1, SubSeqOfConcat1
  <2> QED BY <2>1, <2>2
<1>3. Len(s) <= Len(t) BY <1>1
<1> HIDE DEF t
<1>4. IsPrefix(s, t) BY <1>2, <1>3 DEF IsPrefix
<1> QED BY <1>4 DEF t

LEMMA PrefixRender ==
    ASSUME NEW st, NEW A, NEW a \in Nat, NEW b \in Nat, a <= b,
           NEW d \in Seq(Items), NEW u \in Seq(Items), d \o u = RenderAs(st, A, a)
    PROVE  IsPrefix(d, RenderAs(st, A, b))
<1>0. Begins(RenderAs(st, A, a), RenderAs(st, A, b)) BY RenderExtends
<1>1. PICK v \in Seq(Items) : RenderAs(st, A, b) = RenderAs(st, A, a) \o v BY <1>0 DEF Begins
<1>2. (d \o u) \o v = d \o (u \o v) BY Joined
<1>3. u \o v \in Seq(Items) BY ConcatProperties
<1>4. IsPrefix(d, d \o (u \o v)) BY <1>3, PrefixOf
<1> QED BY <1>1, <1>2, <1>4

LEMMA PrefixDone ==
    ASSUME NEW st, NEW A, NEW a \in Nat, NEW b \in Nat, a <= b
    PROVE  IsPrefix(RenderAs(st, A, a), RenderAs(st, A, b))
<1>1. RenderAs(st, A, a) \in Seq(Items) BY RenderMore
<1>2. RenderAs(st, A, a) \o <<>> = RenderAs(st, A, a) /\ <<>> \in Seq(Items)
  BY <1>1, ConcatEmptySeq
<1> QED BY <1>1, <1>2, PrefixRender

LEMMA SplitAt ==
    ASSUME NEW u \in Seq(Items), NEW n \in 0 .. Len(u)
    PROVE  /\ SubSeq(u, 1, n) \in Seq(Items) /\ SubSeq(u, n + 1, Len(u)) \in Seq(Items)
           /\ Len(SubSeq(u, 1, n)) = n
           /\ u = SubSeq(u, 1, n) \o SubSeq(u, n + 1, Len(u))
<1>1. Len(u) \in Nat BY LenProperties
<1>2. \A i \in 1 .. Len(u) : u[i] \in Items BY ElementOfSeq
<1>3. SubSeq(u, 1, n) \in Seq(Items) /\ Len(SubSeq(u, 1, n)) = n
  <2>1. \A i \in 1 .. n : u[i] \in Items BY <1>1, <1>2
  <2>2. n \in Int /\ 1 \in Int OBVIOUS
  <2>3. /\ SubSeq(u, 1, n) \in Seq(Items)
        /\ Len(SubSeq(u, 1, n)) = IF 1 <= n THEN n - 1 + 1 ELSE 0
    BY <2>1, <2>2, SubSeqProperties
  <2> QED BY <1>1, <2>3
<1>4. SubSeq(u, n + 1, Len(u)) \in Seq(Items)
  <2>1. PICK m \in Int : m = n + 1 /\ \A i \in m .. Len(u) : u[i] \in Items BY <1>1, <1>2
  <2> QED BY <1>1, <2>1, SubSeqProperties
<1>5. SubSeq(u, 1, n) \o SubSeq(u, n + 1, Len(u)) = SubSeq(u, 1, Len(u))
  <2>1. 1 \in 1 .. Len(u) + 1 /\ n \in 1 - 1 .. Len(u) /\ Len(u) \in n .. Len(u) BY <1>1
  <2> QED BY <2>1, ConcatAdjacentSubSeq
<1>6. SubSeq(u, 1, Len(u)) = u BY SubSeqFull
<1> QED BY <1>3, <1>4, <1>5, <1>6

----------------------------------------------------------------------------
(* The redacted offsets, counted.                                          *)
Count(A, n) == Cardinality(Offsets(A) \cap 0 .. (n - 1))

LEMMA OffsetCovered ==
    ASSUME NEW A \in SUBSET [start : Int, end : Int], NEW i \in Int
    PROVE  i \in Offsets(A) <=> Covered(A, i)
<1>1. \A s \in A : s.start \in Int /\ s.end \in Int OBVIOUS
<1>2. \A s \in A : i \in s.start .. (s.end - 1) <=> s.start <= i /\ i < s.end BY <1>1
<1> QED BY <1>2 DEF Offsets, Covered

LEMMA CountMore ==
    ASSUME NEW A \in SUBSET [start : Int, end : Int],
           NEW a \in Nat, NEW x \in Nat, NEW b \in Nat, a <= x, x <= b,
           \A i \in a .. b - 1 : Covered(A, i) <=> x <= i
    PROVE  Count(A, b) = Count(A, a) + (b - x)
<1> DEFINE U == Offsets(A) \cap 0 .. (a - 1)
           V == Offsets(A) \cap 0 .. (b - 1)
           W == x .. (b - 1)
<1>1. V = U \cup W
  <2>1. ASSUME NEW i \in V PROVE i \in U \cup W
    <3>1. i \in Int /\ 0 <= i /\ i < b /\ i \in Offsets(A) OBVIOUS
    <3>2. CASE i < a BY <3>1, <3>2
    <3>3. CASE a <= i
      <4>1. i \in a .. b - 1 BY <3>1, <3>3
      <4>2. Covered(A, i) BY <3>1, OffsetCovered
      <4> QED BY <3>1, <4>1, <4>2
    <3> QED BY <3>1, <3>2, <3>3
  <2>2. ASSUME NEW i \in W PROVE i \in V
    <3>1. i \in Int /\ i \in a .. b - 1 /\ x <= i /\ 0 <= i OBVIOUS
    <3>2. i \in Offsets(A) BY <3>1, OffsetCovered
    <3> QED BY <3>1, <3>2
  <2>3. U \subseteq V OBVIOUS
  <2> HIDE DEF U, V, W
  <2> QED BY <2>1, <2>2, <2>3
<1>2. U \cap W = {} OBVIOUS
<1>3. IsFiniteSet(U) /\ Cardinality(U) \in Nat
  <2>1. IsFiniteSet(0 .. (a - 1)) BY FS_Interval
  <2>2. U \in SUBSET (0 .. (a - 1)) OBVIOUS
  <2> HIDE DEF U
  <2> QED BY <2>1, <2>2, FS_Subset, FS_CardinalityType
<1>4. IsFiniteSet(W) /\ Cardinality(W) = b - x
  <2>1. x \in Int /\ b - 1 \in Int OBVIOUS
  <2>2. IsFiniteSet(W) /\ Cardinality(W) = IF x > b - 1 THEN 0 ELSE b - 1 - x + 1
    BY <2>1, FS_Interval
  <2> HIDE DEF W
  <2> QED BY <2>2
<1> HIDE DEF U, V, W
<1>5. Cardinality(U \cup W) = Cardinality(U) + Cardinality(W) - Cardinality(U \cap W)
  BY <1>3, <1>4, FS_Union
<1>6. Cardinality(U \cap W) = 0 BY <1>2, FS_EmptySet
<1>7. Cardinality(V) = Cardinality(U) + (b - x) BY <1>1, <1>3, <1>4, <1>5, <1>6
<1> QED BY <1>7 DEF Count, U, V

LEMMA CountKeeps ==
    ASSUME NEW A, NEW s \in [start : Int, end : Int], NEW n \in Nat, n <= s.start
    PROVE  Count(A \cup {s}, n) = Count(A, n)
<1>1. s.start .. (s.end - 1) \cap 0 .. (n - 1) = {} OBVIOUS
<1>2. Offsets(A \cup {s}) = Offsets(A) \cup (s.start .. (s.end - 1)) BY DEF Offsets
<1>3. Offsets(A \cup {s}) \cap 0 .. (n - 1) = Offsets(A) \cap 0 .. (n - 1) BY <1>1, <1>2
<1> QED BY <1>3 DEF Count

----------------------------------------------------------------------------
(* The invariant, with what it says of renderings as a function.           *)
Shown ==
    /\ pc = "write" => /\ next \in Returns
                       /\ dest \o unwritten = RenderAs(strategy, accepted, Target(next))
    /\ pc # "write" /\ ~Stopping => dest = RenderAs(strategy, accepted, Target(pc))
    /\ Stopping => IsPrefix(dest, RenderAs(strategy, accepted, end))

Tallied ==
    /\ pc # "invalidCount" => bytesWritten = Len(dest)
    /\ ~Stopping => redactedBytes = Count(accepted, cur)

Inv == TypeOK /\ Shown /\ Accepted /\ Tallied

LEMMA InvIs == (WriterInv <=> Inv) /\ (WriterInv' <=> Inv')
<1>1. (Rendered <=> Shown) /\ (Rendered' <=> Shown')
  BY DEF Rendered, Shown, Rendering, RenderAs, Piece, PieceAs, Masked, MaskedAs, Opening, OpeningAs,
         Covered, Opened
<1>2. (Counted <=> Tallied) /\ (Counted' <=> Tallied') BY DEF Counted, Tallied, Count
<1> QED BY <1>1, <1>2 DEF WriterInv, Inv

LEMMA InitHolds == Init => Inv
<1> SUFFICES ASSUME Init PROVE Inv OBVIOUS
<1>1. TypeOK
  <2>1. <<>> \in Seq(Items) /\ <<>> \in Seq([start : Int, end : Int]) BY EmptySeq
  <2>2. /\ strategy \in MaskStrategies /\ offset = 0 /\ redacting = FALSE /\ pendingEnd = 0
        /\ bytesWritten = 0 /\ redactedBytes = 0 /\ cur = 0 /\ end = 0 /\ todo = <<>>
        /\ unwritten = <<>> /\ dest = <<>> /\ pc = "idle" /\ next = "idle" /\ accepted = {}
    BY DEF Init
  <2>3. /\ strategy \in MaskStrategies /\ offset \in Nat
        /\ pendingEnd \in Int /\ bytesWritten \in Nat /\ redactedBytes \in Nat
        /\ cur \in Nat /\ end \in Nat /\ cur <= end
    BY <2>2
  <2>4. todo \in Seq([start : Int, end : Int]) BY <2>1, <2>2
  <2>5. unwritten \in Seq(Items) /\ dest \in Seq(Items) BY <2>1, <2>2
  <2>6. accepted \subseteq [start : Int, end : Int] BY <2>2
  <2>7. redacting \in BOOLEAN BY <2>2
  <2> QED BY <2>2, <2>3, <2>4, <2>5, <2>6, <2>7 DEF TypeOK
<1>2. Shown
  <2>1. RenderAs(strategy, accepted, 0) = <<>> BY DEF RenderAs, FlattenSeq
  <2> QED BY <2>1 DEF Init, Shown, Target, Stopping
<1>3. Accepted BY DEF Init, Accepted, Stage, Stopping
<1>4. Tallied
  <2>1. 0 .. (0 - 1) = {} OBVIOUS
  <2>2. Count({}, 0) = 0 BY <2>1, FS_EmptySet DEF Count
  <2> QED BY <2>2 DEF Init, Tallied
<1> QED BY <1>1, <1>2, <1>3, <1>4 DEF Inv

(* Where the call is, and what the invariant says there.                   *)
LEMMA At ==
    ASSUME Inv
    PROVE  /\ pc = "idle" => /\ cur = end /\ end = offset
                             /\ dest = RenderAs(strategy, accepted, cur)
           /\ pc \in {"tail", "spans"} => dest = RenderAs(strategy, accepted, cur)
           /\ pc \in {"tail", "tailDone"} => redacting
           /\ pc \in {"spans", "restDone"} => (redacting => cur = end)
           /\ ~Stopping /\ redacting => Straddling
           /\ ~Stopping /\ Stage # "spanDone" => \A s \in accepted : Behind(s)
BY DEF Inv, Shown, Accepted, Target, Stage, Stopping

LEMMA PanicHolds == Inv /\ pc \in {"idle", "spans"} /\ Panic => Inv'
<1> SUFFICES ASSUME Inv, pc \in {"idle", "spans"}, Panic PROVE Inv' OBVIOUS
<1> USE DEF Panic, stateVars, callVars
<1>1. TypeOK' BY DEF Inv, TypeOK
<1>2. dest = RenderAs(strategy, accepted, cur) BY At
<1>3. cur \in Nat /\ end \in Nat /\ cur <= end BY DEF Inv, TypeOK
<1>4. IsPrefix(dest, RenderAs(strategy, accepted, end)) BY <1>2, <1>3, PrefixDone
<1>5. Shown' BY <1>4 DEF Shown, Stopping
<1>6. Accepted' BY DEF Accepted, Stage, Stopping
<1>7. Tallied' BY DEF Inv, Tallied, Stopping
<1> QED BY <1>1, <1>5, <1>6, <1>7 DEF Inv

LEMMA EmitHolds == Inv /\ Emit => Inv'
<1> SUFFICES ASSUME Inv, Emit PROVE Inv' OBVIOUS
<1>1. PICK off \in {offset, offset + 1}, n \in 0 .. Lower(MaxRegion, MaxOffset - offset),
           spans \in BoundedSeq(SpanChoices, MaxSpans) :
        IF off # offset THEN Panic
        ELSE /\ cur' = off /\ end' = off + n /\ todo' = spans
             /\ pc' = IF redacting THEN "tail" ELSE "spans"
             /\ UNCHANGED <<stateVars, bytesWritten, unwritten, next, dest>>
  BY DEF Emit
<1>2. pc = "idle" BY DEF Emit
<1>3. CASE off # offset BY <1>1, <1>2, <1>3, PanicHolds
<1>4. CASE off = offset
  <2>0. cur = end /\ end = offset /\ dest = RenderAs(strategy, accepted, cur) BY <1>2, At
  <2>1. /\ cur' = cur /\ end' = cur + n /\ todo' = spans
        /\ pc' = IF redacting THEN "tail" ELSE "spans"
        /\ UNCHANGED <<strategy, offset, redacting, pendingEnd, redactedBytes, accepted,
                       bytesWritten, unwritten, next, dest>>
    BY <1>1, <1>4, <2>0 DEF stateVars
  <2>2. n \in Nat
    <3>1. Lower(MaxRegion, MaxOffset - offset) \in Int
      BY WriterAssumption, LowerHigher DEF Inv, TypeOK
    <3> QED BY <3>1
  <2>3. spans \in Seq([start : Int, end : Int])
    <3>1. PICK m \in 0 .. MaxSpans : spans \in [1 .. m -> SpanChoices] BY DEF BoundedSeq, SeqOf
    <3>2. m \in Nat BY WriterAssumption
    <3> DEFINE T == [start : Int, end : Int]
    <3>3. SpanChoices \subseteq T BY WriterAssumption
    <3> HIDE DEF T
    <3>4. spans \in Seq(T) BY <3>1, <3>2, <3>3
    <3> QED BY <3>4 DEF T
  <2>4. TypeOK' BY <2>1, <2>2, <2>3 DEF Inv, TypeOK
  <2>5. Shown' BY <2>0, <2>1 DEF Shown, Target, Stopping
  <2>6. Accepted'
    <3>1. ~Stopping /\ Stage # "spanDone" BY <1>2 DEF Stopping, Stage
    <3>2. (redacting => Straddling) /\ \A s \in accepted : Behind(s) BY <3>1, At
    <3>3. (redacting' => Straddling') /\ (\A s \in accepted : Behind(s))'
      BY <2>1, <3>2 DEF Straddling, Behind
    <3>4. Stage' = pc' /\ pc' \in {"tail", "spans"} BY <2>1 DEF Stage
    <3>5. (pc' = "tail" => redacting') /\ (pc' = "spans" => ~redacting') BY <2>1
    <3> QED BY <3>3, <3>4, <3>5 DEF Accepted
  <2>7. Tallied' BY <1>2, <2>1 DEF Inv, Tallied, Stopping
  <2> QED BY <2>4, <2>5, <2>6, <2>7 DEF Inv
<1> QED BY <1>3, <1>4

(* What a call may have begun: the span it is writing, ahead of which no   *)
(* other has ended.                                                        *)
LEMMA AtSpan ==
    ASSUME Inv, Stage = "spanDone"
    PROVE  /\ todo # <<>> /\ Head(todo) \in accepted /\ Tail(todo) \in Seq([start : Int, end : Int])
           /\ Head(todo) \in [start : Int, end : Int]
           /\ Head(todo).start \in Int /\ Head(todo).end \in Int
           /\ cur <= Head(todo).start /\ Head(todo).start < Head(todo).end
           /\ Head(todo).start < end
           /\ redacting = FALSE
           /\ \A t \in accepted \ {Head(todo)} : t.start < cur /\ t.end <= cur
<1>1. todo # <<>> /\ todo \in Seq([start : Int, end : Int]) /\ redacting \in BOOLEAN
  BY DEF Inv, Accepted, TypeOK
<1>2. Head(todo) \in [start : Int, end : Int] /\ Tail(todo) \in Seq([start : Int, end : Int])
  BY <1>1, HeadTailProperties
<1>3. Head(todo).start \in Int /\ Head(todo).end \in Int BY <1>2
<1>4. /\ ~redacting /\ cur <= Head(todo).start /\ Head(todo).start < Head(todo).end
      /\ Head(todo).start < end /\ Head(todo) \in accepted
      /\ \A t \in accepted \ {Head(todo)} : Behind(t)
  BY DEF Inv, Accepted
<1>5. \A t \in accepted \ {Head(todo)} : t.start < cur /\ t.end <= cur BY <1>4 DEF Behind
<1> QED BY <1>1, <1>2, <1>3, <1>4, <1>5

(* A writeAll ends no sooner than at the position, and within the region.  *)
LEMMA TargetIn ==
    ASSUME Inv, ~Stopping
    PROVE  /\ Target(Stage) \in Nat /\ cur <= Target(Stage) /\ Target(Stage) <= end
<1>1. cur \in Nat /\ end \in Nat /\ cur <= end /\ pendingEnd \in Int BY DEF Inv, TypeOK
<1>2. CASE Stage = "tailDone"
  <2>1. redacting /\ (redacting => Straddling) BY <1>2 DEF Inv, Accepted, Stage
  <2>2. cur < pendingEnd BY <2>1 DEF Straddling
  <2>3. Target(Stage) = Lower(pendingEnd, end) BY <1>2 DEF Target
  <2> QED BY <1>1, <2>2, <2>3 DEF Lower
<1>3. CASE Stage = "spanDone"
  <2>1. /\ Head(todo).start \in Int /\ Head(todo).end \in Int /\ cur <= Head(todo).start
        /\ Head(todo).start < Head(todo).end
    BY <1>3, AtSpan
  <2>2. Target(Stage) = Lower(Head(todo).end, end) BY <1>3 DEF Target
  <2> QED BY <1>1, <2>1, <2>2 DEF Lower
<1>4. CASE Stage = "restDone" BY <1>1, <1>4 DEF Target
<1>5. CASE Stage \notin Returns BY <1>1, <1>5 DEF Target, Returns
<1> QED BY <1>2, <1>3, <1>4, <1>5 DEF Returns

(* The accepted spans behind the position, as renderings need them.        *)
LEMMA AcceptedTypes ==
    ASSUME Inv
    PROVE  /\ accepted \in SUBSET [start : Int, end : Int]
           /\ \A s \in accepted : s.start \in Int /\ s.end \in Int
BY DEF Inv, TypeOK

LEMMA NoneAhead ==
    ASSUME Inv, ~Stopping, Stage # "spanDone", redacting = FALSE, NEW i \in Int, cur <= i
    PROVE  ~Covered(accepted, i) /\ ~Opened(accepted, i)
<1>1. \A s \in accepted : s.start < cur /\ s.end <= cur BY At DEF Behind
<1>2. cur \in Nat BY DEF Inv, TypeOK
<1>3. \A s \in accepted : s.start \in Int /\ s.end \in Int BY AcceptedTypes
<1> QED BY <1>1, <1>2, <1>3 DEF Covered, Opened

LEMMA StraddledAhead ==
    ASSUME Inv, ~Stopping, Stage # "spanDone", redacting, NEW i \in Int, cur <= i, i < pendingEnd
    PROVE  Covered(accepted, i) /\ ~Opened(accepted, i)
<1>1. \A s \in accepted : s.start < cur /\ s.end <= pendingEnd BY At DEF Behind
<1>2. cur \in Nat BY DEF Inv, TypeOK
<1>3. \A s \in accepted : s.start \in Int /\ s.end \in Int BY AcceptedTypes
<1>4. PICK s \in accepted : s.end = pendingEnd BY At DEF Straddling
<1> QED BY <1>1, <1>2, <1>3, <1>4 DEF Covered, Opened

(* A step that only starts a writeAll.                                     *)
LEMMA StraddleHolds == Inv /\ Straddle => Inv'
<1> SUFFICES ASSUME Inv, Straddle PROVE Inv' OBVIOUS
<1> DEFINE m == Lower(pendingEnd, end)
<1>0. /\ pc = "tail" /\ pc' = "write" /\ next' = "tailDone"
      /\ unwritten' = Masked(cur, Lower(pendingEnd, end))
      /\ UNCHANGED <<strategy, offset, redacting, pendingEnd, redactedBytes, accepted, bytesWritten,
                     cur, end, todo, dest>>
  BY DEF Straddle, WriteAll, stateVars, callVars
<1>1. /\ redacting /\ Straddling /\ dest = RenderAs(strategy, accepted, cur)
      /\ ~Stopping /\ Stage = "tail"
  BY <1>0, At DEF Stopping, Stage
<1>2. /\ cur \in Nat /\ end \in Nat /\ cur <= end /\ pendingEnd \in Int /\ cur < pendingEnd
  BY <1>1 DEF Inv, TypeOK, Straddling
<1>3. m \in Nat /\ cur <= m /\ m <= end /\ m <= pendingEnd BY <1>2 DEF Lower
<1>4. unwritten' = MaskedAs(strategy, cur, m) BY <1>0 DEF Masked, MaskedAs
<1> HIDE DEF m
<1>5. \A i \in cur .. m - 1 : Covered(accepted, i) /\ ~Opened(accepted, i)
  <2> TAKE i \in cur .. m - 1
  <2>1. i \in Int /\ cur <= i /\ i < pendingEnd BY <1>2, <1>3
  <2> QED BY <1>1, <2>1, StraddledAhead
<1>6. /\ RenderAs(strategy, accepted, m) = dest \o unwritten'
      /\ unwritten' \in Seq(Items)
  BY <1>1, <1>2, <1>3, <1>4, <1>5, RenderMasked
<1>7. TypeOK' BY <1>0, <1>6 DEF Inv, TypeOK, Returns
<1>8. Shown'
  <2>1. Target("tailDone")' = m BY <1>0 DEF Target, m
  <2> QED BY <1>0, <1>6, <2>1 DEF Shown, Stopping, Returns
<1>9. Accepted' BY <1>0, <1>1, At DEF Accepted, Stage, Stopping, Straddling, Behind
<1>10. Tallied' BY <1>0, <1>1 DEF Inv, Tallied, Stopping
<1> QED BY <1>7, <1>8, <1>9, <1>10 DEF Inv

LEMMA RestHolds == Inv /\ Rest => Inv'
<1> SUFFICES ASSUME Inv, Rest PROVE Inv' OBVIOUS
<1>0. /\ pc = "spans" /\ pc' = "write" /\ next' = "restDone"
      /\ unwritten' = Plain(cur, end)
      /\ UNCHANGED <<strategy, offset, redacting, pendingEnd, redactedBytes, accepted, bytesWritten,
                     cur, end, todo, dest>>
  BY DEF Rest, WriteAll, stateVars, callVars
<1>1. /\ redacting => cur = end
      /\ redacting => Straddling
      /\ \A s \in accepted : Behind(s)
      /\ dest = RenderAs(strategy, accepted, cur)
      /\ ~Stopping /\ Stage = "spans"
  BY <1>0, At DEF Stopping, Stage
<1>2. cur \in Nat /\ end \in Nat /\ cur <= end /\ redacting \in BOOLEAN BY DEF Inv, TypeOK
<1>3. Bare(accepted, cur, end)
  <2> SUFFICES ASSUME NEW i \in cur .. end - 1 PROVE ~Covered(accepted, i) BY DEF Bare
  <2>1. i \in Int /\ cur <= i /\ redacting = FALSE BY <1>1, <1>2
  <2> QED BY <1>1, <2>1, NoneAhead
<1>4. RenderAs(strategy, accepted, end) = dest \o unwritten' /\ unwritten' \in Seq(Items)
  <2>1. Adds(RenderAs(strategy, accepted, end), RenderAs(strategy, accepted, cur), Plain(cur, end))
    BY <1>2, <1>3, RenderPlain
  <2> QED BY <1>0, <1>1, <2>1 DEF Adds
<1>5. TypeOK' BY <1>0, <1>4 DEF Inv, TypeOK, Returns
<1>6. Shown'
  <2>1. Target("restDone")' = end BY <1>0 DEF Target
  <2> QED BY <1>0, <1>4, <2>1 DEF Shown, Stopping, Returns
<1>7. Accepted' BY <1>0, <1>1 DEF Accepted, Stage, Stopping, Straddling, Behind
<1>8. Tallied' BY <1>0, <1>1 DEF Inv, Tallied, Stopping
<1> QED BY <1>5, <1>6, <1>7, <1>8 DEF Inv

LEMMA StraddleDoneHolds == Inv /\ StraddleDone => Inv'
<1> SUFFICES ASSUME Inv, StraddleDone PROVE Inv' OBVIOUS
<1> DEFINE m == Lower(pendingEnd, end)
<1>0. /\ pc = "tailDone" /\ cur' = m /\ redactedBytes' = redactedBytes + (m - cur)
      /\ redacting' = (m < pendingEnd) /\ pc' = "spans"
      /\ UNCHANGED <<strategy, offset, pendingEnd, accepted, bytesWritten, end, todo, unwritten, next, dest>>
  BY DEF StraddleDone
<1>1. /\ redacting /\ Straddling /\ ~Stopping /\ Stage = "tailDone"
      /\ \A s \in accepted : Behind(s)
  BY <1>0, At DEF Stopping, Stage
<1>2. /\ cur \in Nat /\ end \in Nat /\ cur <= end /\ pendingEnd \in Int /\ cur < pendingEnd
      /\ redactedBytes \in Nat
  BY <1>1 DEF Inv, TypeOK, Straddling
<1>3. m \in Nat /\ cur <= m /\ m <= end /\ m <= pendingEnd /\ (m < pendingEnd => m = end)
  BY <1>2 DEF Lower
<1>4. dest = RenderAs(strategy, accepted, m)
  <2>1. Target(pc) = m BY <1>0 DEF Target
  <2> QED BY <1>0, <1>1, <2>1 DEF Inv, Shown
<1> HIDE DEF m
<1>5. TypeOK' BY <1>0, <1>2, <1>3 DEF Inv, TypeOK
<1>6. Shown'
  <2>1. Target("spans")' = m BY <1>0 DEF Target
  <2> QED BY <1>0, <1>4, <2>1 DEF Shown, Stopping
<1>7. Accepted'
  <2>1. \A s \in accepted : s.start < cur /\ s.end <= pendingEnd BY <1>1 DEF Behind
  <2>2. \A s \in accepted : s.start \in Int /\ s.end \in Int BY AcceptedTypes
  <2>3. \A s \in accepted : s.start < m /\ s.end <= (IF m < pendingEnd THEN pendingEnd ELSE m)
    <3> TAKE s \in accepted
    <3>1. s.start \in Int /\ s.end \in Int /\ s.start < cur /\ s.end <= pendingEnd BY <2>1, <2>2
    <3> QED BY <1>2, <1>3, <3>1
  <2>4. (\A s \in accepted : Behind(s))' BY <1>0, <2>3 DEF Behind
  <2>5. redacting' => Straddling' BY <1>0, <1>1 DEF Straddling
  <2>6. redacting' => cur' = end' BY <1>0, <1>3
  <2> QED BY <1>0, <2>4, <2>5, <2>6 DEF Accepted, Stage
<1>8. Tallied'
  <2>1. ASSUME NEW i \in cur .. m - 1 PROVE Covered(accepted, i) <=> cur <= i
    <3>1. i \in Int /\ cur <= i /\ i < pendingEnd BY <1>2, <1>3
    <3> QED BY <1>1, <3>1, StraddledAhead
  <2>2. Count(accepted, m) = Count(accepted, cur) + (m - cur)
    BY <1>2, <1>3, <2>1, AcceptedTypes, CountMore
  <2>3. redactedBytes = Count(accepted, cur) /\ bytesWritten = Len(dest)
    BY <1>0, <1>1 DEF Inv, Tallied
  <2> QED BY <1>0, <2>2, <2>3 DEF Tallied
<1> QED BY <1>5, <1>6, <1>7, <1>8 DEF Inv

LEMMA RestDoneHolds == Inv /\ RestDone => Inv'
<1> SUFFICES ASSUME Inv, RestDone PROVE Inv' OBVIOUS
<1>0. /\ pc = "restDone" /\ offset' = end /\ cur' = end /\ pc' = "idle"
      /\ UNCHANGED <<strategy, redacting, pendingEnd, redactedBytes, accepted, bytesWritten, end, todo,
                     unwritten, next, dest>>
  BY DEF RestDone
<1>1. /\ redacting => cur = end
      /\ redacting => Straddling
      /\ \A s \in accepted : Behind(s)
      /\ ~Stopping /\ Stage = "restDone"
  BY <1>0, At DEF Stopping, Stage
<1>2. cur \in Nat /\ end \in Nat /\ cur <= end /\ redacting \in BOOLEAN BY DEF Inv, TypeOK
<1>3. dest = RenderAs(strategy, accepted, end)
  <2>1. Target(pc) = end BY <1>0 DEF Target
  <2> QED BY <1>0, <1>1, <2>1 DEF Inv, Shown
<1>4. TypeOK' BY <1>0, <1>2 DEF Inv, TypeOK
<1>5. Shown'
  <2>1. Target("idle")' = end BY <1>0 DEF Target
  <2> QED BY <1>0, <1>3, <2>1 DEF Shown, Stopping
<1>6. Accepted'
  <2>1. \A s \in accepted : s.start \in Int /\ s.end \in Int BY AcceptedTypes
  <2>2. ASSUME NEW s \in accepted PROVE Behind(s)'
    <3>1. s.start < cur /\ s.end <= IF redacting THEN pendingEnd ELSE cur BY <1>1 DEF Behind
    <3>2. s.start < end /\ s.end <= IF redacting THEN pendingEnd ELSE end BY <1>2, <2>1, <3>1
    <3> QED BY <1>0, <3>2 DEF Behind
  <2>3. (\A s \in accepted : Behind(s))' BY <1>0, <2>2
  <2>4. redacting' => Straddling' BY <1>0, <1>1 DEF Straddling
  <2> QED BY <1>0, <2>3, <2>4 DEF Accepted, Stage
<1>7. Tallied'
  <2>1. Count(accepted, end) = Count(accepted, cur)
    <3>1. CASE redacting BY <1>1, <3>1
    <3>2. CASE redacting = FALSE
      <4>1. ASSUME NEW i \in cur .. end - 1 PROVE Covered(accepted, i) <=> end <= i
        <5>1. i \in Int /\ cur <= i /\ i < end BY <1>2
        <5>2. ~Covered(accepted, i) BY <1>1, <3>2, <5>1, NoneAhead
        <5> QED BY <1>2, <5>1, <5>2
      <4>2. Count(accepted, end) = Count(accepted, cur) + (end - end)
        <5>1. end <= end BY <1>2
        <5> QED BY <1>2, <4>1, <5>1, AcceptedTypes, CountMore
      <4>3. Count(accepted, cur) = redactedBytes /\ redactedBytes \in Nat
        BY <1>1 DEF Inv, Tallied, TypeOK
      <4> QED BY <1>2, <4>2, <4>3
    <3> QED BY <1>2, <3>1, <3>2
  <2>2. redactedBytes = Count(accepted, cur) /\ bytesWritten = Len(dest)
    BY <1>0, <1>1 DEF Inv, Tallied
  <2> QED BY <1>0, <2>1, <2>2 DEF Tallied
<1> QED BY <1>4, <1>5, <1>6, <1>7 DEF Inv

(* A legal span: what is written for it, and the ones accepted before.     *)
LEMMA SpanHolds == Inv /\ Span => Inv'
<1> SUFFICES ASSUME Inv, Span PROVE Inv' OBVIOUS
<1> DEFINE s == Head(todo)
           m == Lower(s.end, end)
           new == [start |-> s.start, end |-> s.end]
<1>0. pc = "spans" /\ todo # <<>> BY DEF Span
<1>1. CASE Illegal(s)
  <2>1. Panic BY <1>1 DEF Span
  <2> QED BY <1>0, <2>1, PanicHolds
<1>2. CASE ~Illegal(s)
  <2>0. /\ pc' = "write" /\ next' = "spanDone"
        /\ unwritten' = Plain(cur, s.start) \o Opening(s) \o Masked(s.start, m)
        /\ accepted' = accepted \cup {new}
        /\ UNCHANGED <<strategy, offset, redacting, pendingEnd, redactedBytes, bytesWritten,
                       cur, end, todo, dest>>
    BY <1>2 DEF Span, WriteAll, callVars
  <2>1. /\ cur \in Nat /\ end \in Nat /\ cur <= end /\ redacting \in BOOLEAN
        /\ todo \in Seq([start : Int, end : Int])
    BY DEF Inv, TypeOK
  <2>2. s \in [start : Int, end : Int] /\ s.start \in Int /\ s.end \in Int
    <3>1. s \in [start : Int, end : Int]
      <4> DEFINE T == [start : Int, end : Int]
      <4>1. todo \in Seq(T) BY <2>1
      <4> HIDE DEF T
      <4>2. Head(todo) \in T BY <1>0, <4>1, HeadTailProperties
      <4> QED BY <4>2 DEF T
    <3> HIDE DEF s
    <3> QED BY <3>1
  <2>3. new = s BY <2>2
  <2>4. cur <= s.start /\ s.start < s.end /\ s.start < end
    <3> HIDE DEF s
    <3> QED BY <1>2, <2>1, <2>2 DEF Illegal
  <2> HIDE DEF s, new
  <2>5. m \in Nat /\ s.start < m /\ m <= end /\ m <= s.end /\ s.start \in Nat
    BY <2>1, <2>2, <2>4 DEF Lower
  <2> HIDE DEF m
  <2>6. /\ redacting = FALSE /\ dest = RenderAs(strategy, accepted, cur)
        /\ \A t \in accepted : Behind(t)
        /\ ~Stopping /\ Stage = "spans"
    <3>1. ~Stopping /\ Stage = "spans" BY <1>0 DEF Stopping, Stage
    <3>2. redacting => cur = end BY <1>0, At
    <3>3. redacting = FALSE BY <2>1, <2>2, <2>4, <3>2
    <3> QED BY <1>0, <3>1, <3>3, At
  <2>7. \A t \in accepted : t.start \in Int /\ t.end \in Int /\ t.start < cur /\ t.end <= cur
    BY <2>6, AcceptedTypes DEF Behind
  <2>8. accepted' = accepted \cup {s} /\ accepted' \in SUBSET [start : Int, end : Int]
    BY <2>0, <2>2, <2>3, AcceptedTypes
  <2> DEFINE A == accepted \cup {s}
  <2>9. ASSUME NEW i \in Int, cur <= i
        PROVE  /\ Covered(A, i) <=> s.start <= i /\ i < s.end
               /\ Opened(A, i) <=> s.start = i
    BY <2>1, <2>2, <2>7, <2>9 DEF Covered, Opened
  <2> HIDE DEF A
  <2>10. RenderAs(strategy, A, cur) = RenderAs(strategy, accepted, cur)
    BY <2>1, <2>2, <2>4, <2>7, RenderKeeps DEF A
  <2>11. /\ RenderAs(strategy, A, s.start) = RenderAs(strategy, A, cur) \o Plain(cur, s.start)
         /\ Plain(cur, s.start) \in Seq(Items)
    <3>1. ASSUME NEW i \in cur .. s.start - 1 PROVE ~Covered(A, i)
      <4>1. i \in Int /\ cur <= i /\ i < s.start BY <2>1, <2>2
      <4> QED BY <2>2, <2>9, <4>1
    <3>2. PICK b \in Nat : b = s.start /\ cur <= b BY <2>4, <2>5
    <3>3. Bare(A, cur, b) BY <3>1, <3>2 DEF Bare
    <3>4. RenderAs(strategy, A, b) = RenderAs(strategy, A, cur) \o Plain(cur, b)
          /\ Plain(cur, b) \in Seq(Items)
      <4>1. Adds(RenderAs(strategy, A, b), RenderAs(strategy, A, cur), Plain(cur, b))
        BY <2>1, <3>2, <3>3, RenderPlain
      <4> QED BY <4>1 DEF Adds
    <3> QED BY <3>2, <3>4
  <2> DEFINE masks == MaskedAs(strategy, s.start, m) opening == OpeningAs(strategy, s.start)
  <2>12. /\ RenderAs(strategy, A, m) = RenderAs(strategy, A, s.start) \o (opening \o masks)
         /\ opening \o masks \in Seq(Items)
    <3>1. ASSUME NEW i \in s.start .. m - 1 PROVE Covered(A, i) /\ (i # s.start => ~Opened(A, i))
      <4>1. i \in Int /\ cur <= i /\ s.start <= i /\ i < s.end BY <2>1, <2>2, <2>4, <2>5
      <4> QED BY <2>9, <4>1
    <3>2. Opened(A, s.start) BY <2>2, <2>4, <2>9
    <3> HIDE DEF masks, opening
    <3> QED BY <2>5, <3>1, <3>2, RenderOpened DEF masks, opening
  <2>13. unwritten' = (Plain(cur, s.start) \o opening) \o masks
    BY <2>0 DEF Opening, OpeningAs, Masked, MaskedAs
  <2>14. opening \in Seq(Items) /\ masks \in Seq(Items)
    <3>1. s.start <= m /\ s.start \in Int /\ m \in Int BY <2>2, <2>5
    <3> QED BY <3>1, OpeningIs, MaskedMore
  <2> HIDE DEF masks, opening
  <2>15. unwritten' = Plain(cur, s.start) \o (opening \o masks) BY <2>11, <2>13, <2>14, Joined
  <2>16. unwritten' \in Seq(Items) BY <2>11, <2>12, <2>15, ConcatProperties
  <2>17. RenderAs(strategy, A, m) = dest \o unwritten'
    <3>1. RenderAs(strategy, A, cur) \in Seq(Items) BY <2>1, RenderMore
    <3>2. (RenderAs(strategy, A, cur) \o Plain(cur, s.start)) \o (opening \o masks)
          = RenderAs(strategy, A, cur) \o (Plain(cur, s.start) \o (opening \o masks))
      BY <2>11, <2>12, <3>1, Joined
    <3> QED BY <2>6, <2>10, <2>11, <2>12, <2>15, <3>2
  <2>18. TypeOK' BY <2>0, <2>8, <2>16 DEF Inv, TypeOK, Returns
  <2>19. Shown'
    <3>1. Target("spanDone")' = m BY <2>0 DEF Target, m, s
    <3> QED BY <2>0, <2>8, <2>17, <3>1 DEF Shown, Stopping, Returns, A
  <2>20. Accepted'
    <3>1. Stage' = "spanDone" /\ ~Stopping' BY <2>0 DEF Stage, Stopping
    <3>2. Head(todo)' = s BY <2>0 DEF s
    <3>3. (todo # <<>>)' /\ redacting' = FALSE BY <1>0, <2>0, <2>6
    <3>4. \A t \in accepted' \ {s} : Behind(t)' BY <2>0, <2>6, <2>8 DEF Behind
    <3>5. cur' = cur /\ end' = end /\ s \in accepted' BY <2>0, <2>8
    <3> QED BY <2>4, <3>1, <3>2, <3>3, <3>4, <3>5 DEF Accepted
  <2>21. Tallied'
    <3>1. Count(A, cur) = Count(accepted, cur) BY <2>1, <2>2, <2>4, CountKeeps DEF A
    <3> QED BY <1>0, <2>0, <2>6, <2>8, <3>1 DEF Inv, Tallied, A
  <2> QED BY <2>18, <2>19, <2>20, <2>21 DEF Inv
<1> QED BY <1>1, <1>2

LEMMA SpanDoneHolds == Inv /\ SpanDone => Inv'
<1> SUFFICES ASSUME Inv, SpanDone PROVE Inv' OBVIOUS
<1> DEFINE s == Head(todo)
           m == Lower(s.end, end)
<1>0. /\ pc = "spanDone" /\ cur' = m /\ redactedBytes' = redactedBytes + (m - s.start)
      /\ IF s.end > end THEN redacting' = TRUE /\ pendingEnd' = s.end
         ELSE UNCHANGED <<redacting, pendingEnd>>
      /\ todo' = Tail(todo) /\ pc' = "spans"
      /\ UNCHANGED <<strategy, offset, accepted, bytesWritten, end, unwritten, next, dest>>
  BY DEF SpanDone
<1>1. ~Stopping /\ Stage = "spanDone" BY <1>0 DEF Stopping, Stage
<1>2. /\ s \in accepted /\ Tail(todo) \in Seq([start : Int, end : Int])
      /\ s.start \in Int /\ s.end \in Int
      /\ cur <= s.start /\ s.start < s.end /\ s.start < end /\ redacting = FALSE
      /\ \A t \in accepted \ {s} : t.start < cur /\ t.end <= cur
  BY <1>1, AtSpan
<1>3. cur \in Nat /\ end \in Nat /\ cur <= end /\ redactedBytes \in Nat /\ pendingEnd \in Int
  BY DEF Inv, TypeOK
<1>4. dest = RenderAs(strategy, accepted, m)
  <2>1. Target(pc) = m BY <1>0 DEF Target
  <2> QED BY <1>0, <1>1, <2>1 DEF Inv, Shown
<1> HIDE DEF s
<1>5. /\ m \in Nat /\ s.start < m /\ cur <= m /\ m <= end /\ m <= s.end /\ s.start \in Nat
      /\ s.end > end => m = end
      /\ ~(s.end > end) => m = s.end
  BY <1>2, <1>3 DEF Lower
<1> HIDE DEF m
<1>6. \A t \in accepted : t.start \in Int /\ t.end \in Int BY AcceptedTypes
<1>7. TypeOK'
  <2>1. redacting' \in BOOLEAN BY <1>0, <1>2
  <2>2. pendingEnd' \in Int BY <1>0, <1>2, <1>3
  <2>3. cur' \in Nat /\ cur' <= end' /\ redactedBytes' \in Nat BY <1>0, <1>3, <1>5
  <2> QED BY <1>0, <1>2, <2>1, <2>2, <2>3 DEF Inv, TypeOK
<1>8. Shown'
  <2>1. Target("spans")' = m BY <1>0 DEF Target
  <2> QED BY <1>0, <1>4, <2>1 DEF Shown, Stopping
<1>9. Accepted'
  <2>1. ASSUME NEW t \in accepted PROVE Behind(t)'
    <3>1. t.start < m /\ t.end <= (IF s.end > end THEN s.end ELSE m)
      <4>1. CASE t = s BY <1>2, <1>3, <1>5, <4>1
      <4>2. CASE t # s
        <5>1. t.start < cur /\ t.end <= cur /\ t.start \in Int /\ t.end \in Int BY <1>2, <1>6, <4>2
        <5> QED BY <1>2, <1>3, <1>5, <5>1
      <4> QED BY <4>1, <4>2
    <3> QED BY <1>0, <1>2, <3>1 DEF Behind
  <2>2. (\A t \in accepted : Behind(t))' BY <1>0, <2>1
  <2>3. redacting' => s.end > end /\ pendingEnd' = s.end BY <1>0, <1>2
  <2>4. redacting' => Straddling' BY <1>0, <1>2, <1>3, <1>5, <2>3 DEF Straddling
  <2>5. redacting' => cur' = end' BY <1>0, <1>5, <2>3
  <2> QED BY <1>0, <2>2, <2>4, <2>5 DEF Accepted, Stage
<1>10. Tallied'
  <2>1. ASSUME NEW i \in cur .. m - 1 PROVE Covered(accepted, i) <=> s.start <= i
    <3>1. i \in Int /\ cur <= i /\ i < s.end BY <1>2, <1>3, <1>5
    <3> QED BY <1>2, <1>3, <1>6, <3>1 DEF Covered
  <2>2. Count(accepted, m) = Count(accepted, cur) + (m - s.start)
    BY <1>2, <1>3, <1>5, <2>1, AcceptedTypes, CountMore
  <2>3. redactedBytes = Count(accepted, cur) /\ bytesWritten = Len(dest)
    BY <1>0, <1>1 DEF Inv, Tallied
  <2> QED BY <1>0, <2>2, <2>3 DEF Tallied
<1> QED BY <1>7, <1>8, <1>9, <1>10 DEF Inv

----------------------------------------------------------------------------
(* writeAll.                                                               *)

(* A Write takes the bytes it is given from the front.                     *)
LEMMA Taken ==
    ASSUME Inv, pc = "write", NEW n \in 0 .. Len(unwritten)
    PROVE  /\ dest \o SubSeq(unwritten, 1, n) \in Seq(Items)
           /\ Len(dest \o SubSeq(unwritten, 1, n)) = Len(dest) + n
           /\ SubSeq(unwritten, n + 1, Len(unwritten)) \in Seq(Items)
           /\ (dest \o SubSeq(unwritten, 1, n)) \o SubSeq(unwritten, n + 1, Len(unwritten))
              = RenderAs(strategy, accepted, Target(next))
           /\ IsPrefix(dest \o SubSeq(unwritten, 1, n), RenderAs(strategy, accepted, end))
<1> DEFINE u == SubSeq(unwritten, 1, n) v == SubSeq(unwritten, n + 1, Len(unwritten))
<1>1. dest \in Seq(Items) /\ unwritten \in Seq(Items) BY DEF Inv, TypeOK
<1>2. u \in Seq(Items) /\ v \in Seq(Items) /\ Len(u) = n /\ unwritten = u \o v
  BY <1>1, SplitAt
<1> HIDE DEF u, v
<1>3. dest \o u \in Seq(Items) /\ Len(dest \o u) = Len(dest) + n BY <1>1, <1>2, ConcatProperties
<1>4. (dest \o u) \o v = dest \o unwritten BY <1>1, <1>2, Joined
<1>5. dest \o unwritten = RenderAs(strategy, accepted, Target(next)) BY DEF Inv, Shown
<1>6. Stage = next /\ ~Stopping BY DEF Stage, Stopping
<1>7. Target(next) \in Nat /\ Target(next) <= end /\ end \in Nat BY <1>6, TargetIn DEF Inv, TypeOK
<1>8. IsPrefix(dest \o u, RenderAs(strategy, accepted, end))
  BY <1>2, <1>3, <1>4, <1>5, <1>7, PrefixRender
<1> QED BY <1>2, <1>3, <1>4, <1>5, <1>8 DEF u, v

(* Wherever the call stops, nothing but the destination changes.           *)
LEMMA StopHolds ==
    ASSUME Inv, pc = "write", NEW n \in 0 .. Len(unwritten),
           dest' = dest \o SubSeq(unwritten, 1, n),
           pc' \in {"failed", "invalidCount"},
           pc' = "failed" => bytesWritten' = bytesWritten + n,
           pc' = "invalidCount" => bytesWritten' = bytesWritten,
           UNCHANGED <<stateVars, callVars, unwritten, next>>
    PROVE  Inv'
<1> USE DEF stateVars, callVars
<1>1. /\ dest' \in Seq(Items) /\ Len(dest') = Len(dest) + n
      /\ IsPrefix(dest', RenderAs(strategy, accepted, end))
  BY Taken
<1>2. bytesWritten = Len(dest) /\ bytesWritten \in Nat BY DEF Inv, Tallied, TypeOK
<1>3. n \in Nat
  <2>1. Len(unwritten) \in Nat BY LenProperties DEF Inv, TypeOK
  <2> QED BY <2>1
<1>4. bytesWritten' \in Nat BY <1>2, <1>3
<1>5. TypeOK' BY <1>1, <1>4 DEF Inv, TypeOK
<1>6. Shown' BY <1>1 DEF Shown, Stopping
<1>7. Accepted' BY DEF Accepted, Stage, Stopping
<1>8. Tallied' BY <1>1, <1>2 DEF Tallied, Stopping
<1> QED BY <1>5, <1>6, <1>7, <1>8 DEF Inv

(* Another stage of the same call, reached with the same spans.            *)
LEMMA StageHolds ==
    ASSUME Inv, ~Stopping, Stage' = Stage, (~Stopping)',
           UNCHANGED <<offset, redacting, pendingEnd, accepted, cur, end, todo>>
    PROVE  Accepted'
BY DEF Inv, Accepted, Straddling, Behind

LEMMA WriteSomeHolds == Inv /\ WriteSome => Inv'
<1> SUFFICES ASSUME Inv, WriteSome PROVE Inv' OBVIOUS
<1>1. PICK n \in 0 .. Len(unwritten) :
        /\ dest' = dest \o SubSeq(unwritten, 1, n)
        /\ bytesWritten' = bytesWritten + n
        /\ IF n = 0 THEN pc' = "failed" /\ UNCHANGED unwritten
           ELSE unwritten' = SubSeq(unwritten, n + 1, Len(unwritten)) /\ UNCHANGED pc
  BY DEF WriteSome, Written
<1>2. pc = "write" /\ UNCHANGED <<stateVars, callVars, next>> BY DEF WriteSome
<1>3. CASE n = 0
  <2>1. pc' = "failed" /\ UNCHANGED unwritten BY <1>1, <1>3
  <2> QED BY <1>1, <1>2, <2>1, StopHolds
<1>4. CASE n # 0
  <2>1. pc' = "write" /\ unwritten' = SubSeq(unwritten, n + 1, Len(unwritten))
    BY <1>1, <1>2, <1>4
  <2>2. UNCHANGED <<strategy, offset, redacting, pendingEnd, redactedBytes, accepted, cur, end, todo, next>>
    BY <1>2 DEF stateVars, callVars
  <2>3. /\ dest' \in Seq(Items) /\ Len(dest') = Len(dest) + n /\ unwritten' \in Seq(Items)
        /\ dest' \o unwritten' = RenderAs(strategy, accepted, Target(next))
    BY <1>1, <1>2, <2>1, Taken
  <2>4. bytesWritten = Len(dest) /\ bytesWritten \in Nat /\ n \in Nat
    <3>1. Len(unwritten) \in Nat BY LenProperties DEF Inv, TypeOK
    <3> QED BY <1>2, <3>1 DEF Inv, Tallied, TypeOK
  <2>5. TypeOK' BY <1>1, <1>2, <2>1, <2>2, <2>3, <2>4 DEF Inv, TypeOK
  <2>6. Target(next)' = Target(next) BY <2>2 DEF Target
  <2>7. Shown' BY <1>2, <2>1, <2>2, <2>3, <2>6 DEF Inv, Shown, Stopping
  <2>8. ~Stopping /\ Stage' = Stage /\ (~Stopping)' BY <1>2, <2>1, <2>2 DEF Stopping, Stage
  <2>9. Accepted' BY <2>2, <2>8, StageHolds
  <2>10. Tallied' BY <1>1, <2>2, <2>3, <2>4, <2>8 DEF Inv, Tallied
  <2> QED BY <2>5, <2>7, <2>9, <2>10 DEF Inv
<1> QED BY <1>3, <1>4

LEMMA WriteFailsHolds == Inv /\ WriteFails => Inv'
<1> SUFFICES ASSUME Inv, WriteFails PROVE Inv' OBVIOUS
<1>1. PICK n \in 0 .. Len(unwritten) :
        dest' = dest \o SubSeq(unwritten, 1, n) /\ bytesWritten' = bytesWritten + n
  BY DEF WriteFails, Written
<1>2. pc = "write" /\ pc' = "failed" /\ UNCHANGED <<stateVars, callVars, unwritten, next>>
  BY DEF WriteFails
<1> QED BY <1>1, <1>2, StopHolds

LEMMA WriteLiesHolds == Inv /\ WriteLies => Inv'
<1> SUFFICES ASSUME Inv, WriteLies PROVE Inv' OBVIOUS
<1>1. PICK n \in 0 .. Len(unwritten) : dest' = dest \o SubSeq(unwritten, 1, n)
  BY DEF WriteLies, Written
<1>2. /\ pc = "write" /\ pc' = "invalidCount" /\ bytesWritten' = bytesWritten
      /\ UNCHANGED <<stateVars, callVars, unwritten, next>>
  BY DEF WriteLies
<1> QED BY <1>1, <1>2, StopHolds

LEMMA WriteDoneHolds == Inv /\ WriteDone => Inv'
<1> SUFFICES ASSUME Inv, WriteDone PROVE Inv' OBVIOUS
<1>1. /\ pc = "write" /\ unwritten = <<>> /\ pc' = next
      /\ UNCHANGED <<strategy, offset, redacting, pendingEnd, redactedBytes, accepted, bytesWritten,
                     cur, end, todo, unwritten, next, dest>>
  BY DEF WriteDone, stateVars, callVars
<1>2. next \in Returns /\ dest \o unwritten = RenderAs(strategy, accepted, Target(next))
  BY <1>1 DEF Inv, Shown
<1>3. dest = RenderAs(strategy, accepted, Target(next))
  <2>1. dest \in Seq(Items) BY DEF Inv, TypeOK
  <2> QED BY <1>1, <1>2, <2>1, ConcatEmptySeq
<1>4. Target(next)' = Target(next) BY <1>1 DEF Target
<1>5. pc' # "write" /\ ~Stopping' /\ ~Stopping BY <1>1, <1>2 DEF Returns, Stopping
<1>6. TypeOK' BY <1>1, <1>2 DEF Inv, TypeOK
<1>7. Shown'
  <2>1. Target(pc)' = Target(next) BY <1>1 DEF Target
  <2> QED BY <1>1, <1>3, <1>5, <2>1 DEF Shown
<1>8. Stage' = Stage /\ (~Stopping)' BY <1>1, <1>5 DEF Stage
<1>9. Accepted' BY <1>1, <1>5, <1>8, StageHolds
<1>10. Tallied' BY <1>1, <1>5 DEF Inv, Tallied
<1> QED BY <1>6, <1>7, <1>9, <1>10 DEF Inv

LEMMA StutterHolds == Inv /\ UNCHANGED vars => Inv'
BY DEF vars, stateVars, callVars, Inv, TypeOK, Shown, Accepted, Tallied, Target, Stage, Stopping,
       Straddling, Behind

LEMMA NextHolds == Inv /\ [Next]_vars => Inv'
BY EmitHolds, StraddleHolds, StraddleDoneHolds, SpanHolds, SpanDoneHolds, RestHolds, RestDoneHolds,
   WriteSomeHolds, WriteFailsHolds, WriteLiesHolds, WriteDoneHolds, StutterHolds DEF Next, Stopped

(* What the destination holds and what is still to be written make up the  *)
(* rendering of the offsets up to a target, at every step of Emit and of   *)
(* writeAll.                                                               *)
THEOREM WriterInvariant == Spec => []WriterInv
<1>1. Init => WriterInv BY InitHolds, InvIs
<1>2. WriterInv /\ [Next]_vars => WriterInv' BY NextHolds, InvIs
<1> QED BY <1>1, <1>2, PTL DEF Spec

(* Whatever regions and spans a caller passes and however Write behaves,   *)
(* the destination holds a prefix of the rendering of the accepted spans,  *)
(* and exactly that rendering between two calls.                           *)
THEOREM DestinationRendered == Spec => []DestIsRendering
<1>1. WriterInv => DestIsRendering
  <2> SUFFICES ASSUME WriterInv PROVE DestIsRendering OBVIOUS
  <2>1. Inv BY InvIs
  <2>2. /\ dest \in Seq(Items) /\ unwritten \in Seq(Items) /\ end \in Nat
    BY <2>1 DEF Inv, TypeOK
  <2>3. IsPrefix(dest, RenderAs(strategy, accepted, end))
    <3>1. CASE Stopping BY <2>1, <3>1 DEF Inv, Shown
    <3>2. CASE ~Stopping
      <4>1. Target(Stage) \in Nat /\ Target(Stage) <= end BY <2>1, <3>2, TargetIn
      <4>2. CASE pc = "write"
        <5>1. dest \o unwritten = RenderAs(strategy, accepted, Target(Stage))
          BY <2>1, <4>2 DEF Inv, Shown, Stage
        <5> QED BY <2>2, <4>1, <5>1, PrefixRender
      <4>3. CASE pc # "write"
        <5>1. dest = RenderAs(strategy, accepted, Target(Stage))
          BY <2>1, <3>2, <4>3 DEF Inv, Shown, Stage
        <5> QED BY <2>2, <4>1, <5>1, PrefixDone
      <4> QED BY <4>2, <4>3
    <3> QED BY <3>1, <3>2
  <2>4. pc = "idle" => dest = RenderAs(strategy, accepted, offset) BY <2>1, At
  <2> QED BY <2>3, <2>4, RenderingNow DEF DestIsRendering
<1> QED BY <1>1, WriterInvariant, PTL

(* BytesWritten and RedactedBytes are exact.                               *)
THEOREM CountersAreExact == Spec => []CountersExact
<1>1. WriterInv => CountersExact
  BY InvIs, At DEF Inv, WriterInv, Counted, CountersExact, Stopping
<1> QED BY <1>1, WriterInvariant, PTL
=============================================================================
