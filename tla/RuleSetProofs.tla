--------------------------- MODULE RuleSetProofs ---------------------------
(***************************************************************************)
(* Theorems about RuleSet, for every alphabet and folding of it, every     *)
(* built-in set and configuration that RuleSetAssumption allows, every     *)
(* input and every way it is cut into chunks.  The argument is the         *)
(* inductive invariant NewInv: SetInv for Build and New, MatcherInv for the*)
(* automaton that they compile and that searches the input.                *)
(*                                                                         *)
(* In order: suffixes of byte strings; a trie as a tree whose nodes are    *)
(* named by their paths; inserting a literal; the breadth-first queue of   *)
(* finish, its fail links, transitions and outputs; one byte scanned; how  *)
(* many states the literals need; the steps of the matcher; the trigger    *)
(* table and what it turns matches into; the choice of the rules; the      *)
(* steps of New; the arithmetic of the windows; the theorems.              *)
(***************************************************************************)
EXTENDS RuleSetInv, SpansProofs, SequenceTheorems, FiniteSetTheorems, TLAPS

----------------------------------------------------------------------------
(* Suffixes.                                                               *)

LEMMA EndsEmpty ==
    ASSUME NEW S, NEW x \in Seq(S)
    PROVE  Ends(<<>>, x)
BY DEF Ends

LEMMA EndsSelf ==
    ASSUME NEW S, NEW x \in Seq(S)
    PROVE  Ends(x, x)
BY DEF Ends

LEMMA EndsTransitive ==
    ASSUME NEW S, NEW s \in Seq(S), NEW x \in Seq(S), NEW y \in Seq(S), Ends(s, x), Ends(x, y)
    PROVE  Ends(s, y)
<1>1. /\ Len(s) \in Nat /\ Len(x) \in Nat /\ Len(y) \in Nat
      /\ Len(s) <= Len(x) /\ Len(x) <= Len(y)
  BY DEF Ends
<1>2. ASSUME NEW i \in 1 .. Len(s) PROVE s[i] = y[(Len(y) - Len(s)) + i]
  <2>1. PICK j : j = (Len(x) - Len(s)) + i OBVIOUS
  <2>2. j \in 1 .. Len(x) /\ (Len(y) - Len(x)) + j = (Len(y) - Len(s)) + i BY <1>1, <2>1
  <2>3. x[j] = y[(Len(y) - Len(x)) + j] BY <2>2 DEF Ends
  <2>4. s[i] = x[j] BY <2>1 DEF Ends
  <2> QED BY <2>2, <2>3, <2>4
<1> QED BY <1>1, <1>2 DEF Ends

(* Of two suffixes the shorter is one of the longer.                       *)
LEMMA EndsShorter ==
    ASSUME NEW S, NEW s \in Seq(S), NEW x \in Seq(S), NEW y \in Seq(S), Ends(s, y), Ends(x, y),
           Len(s) <= Len(x)
    PROVE  Ends(s, x)
<1>1. /\ Len(s) \in Nat /\ Len(x) \in Nat /\ Len(y) \in Nat
      /\ Len(s) <= Len(x) /\ Len(x) <= Len(y)
  BY DEF Ends
<1>2. ASSUME NEW i \in 1 .. Len(s) PROVE s[i] = x[(Len(x) - Len(s)) + i]
  <2>1. PICK j : j = (Len(x) - Len(s)) + i OBVIOUS
  <2>2. j \in 1 .. Len(x) /\ (Len(y) - Len(x)) + j = (Len(y) - Len(s)) + i BY <1>1, <2>1
  <2>3. x[j] = y[(Len(y) - Len(x)) + j] BY <2>2 DEF Ends
  <2>4. s[i] = y[(Len(y) - Len(s)) + i] BY DEF Ends
  <2> QED BY <2>1, <2>2, <2>3, <2>4
<1> QED BY <1>1, <1>2 DEF Ends

LEMMA EndsSame ==
    ASSUME NEW S, NEW s \in Seq(S), NEW x \in Seq(S), Ends(s, x), Len(s) = Len(x)
    PROVE  s = x
<1>1. \A i \in 1 .. Len(s) : s[i] = x[i]
  <2>1. \A i \in 1 .. Len(s) : (Len(x) - Len(s)) + i = i OBVIOUS
  <2> QED BY <2>1 DEF Ends
<1> QED BY <1>1, SeqEqual

LEMMA EndsAppend ==
    ASSUME NEW S, NEW s \in Seq(S), NEW x \in Seq(S), NEW b \in S, NEW c \in S
    PROVE  Ends(Append(s, b), Append(x, c)) <=> b = c /\ Ends(s, x)
<1> DEFINE sb == Append(s, b)
           xc == Append(x, c)
<1>1. /\ Len(s) \in Nat /\ Len(x) \in Nat /\ Len(sb) = Len(s) + 1 /\ Len(xc) = Len(x) + 1
      /\ sb[Len(s) + 1] = b /\ xc[Len(x) + 1] = c
      /\ \A i \in 1 .. Len(s) : sb[i] = s[i]
      /\ \A j \in 1 .. Len(x) : xc[j] = x[j]
  BY AppendProperties
<1> HIDE DEF sb, xc
<1>2. ASSUME Ends(sb, xc) PROVE b = c /\ Ends(s, x)
  <2>1. Len(s) <= Len(x) BY <1>1, <1>2 DEF Ends
  <2>2. sb[Len(s) + 1] = xc[(Len(xc) - Len(sb)) + (Len(s) + 1)] BY <1>1, <1>2 DEF Ends
  <2>3. b = c BY <1>1, <2>2, (Len(xc) - Len(sb)) + (Len(s) + 1) = Len(x) + 1
  <2>4. ASSUME NEW i \in 1 .. Len(s) PROVE s[i] = x[(Len(x) - Len(s)) + i]
    <3>1. sb[i] = xc[(Len(xc) - Len(sb)) + i] BY <1>1, <1>2 DEF Ends
    <3>2. PICK j : j = (Len(x) - Len(s)) + i OBVIOUS
    <3>3. j \in 1 .. Len(x) /\ (Len(xc) - Len(sb)) + i = j BY <1>1, <2>1, <3>2
    <3> QED BY <1>1, <3>1, <3>2, <3>3
  <2> QED BY <2>1, <2>3, <2>4 DEF Ends
<1>3. ASSUME b = c, Ends(s, x) PROVE Ends(sb, xc)
  <2>1. Len(s) <= Len(x) BY <1>3 DEF Ends
  <2>2. ASSUME NEW i \in 1 .. Len(sb) PROVE sb[i] = xc[(Len(xc) - Len(sb)) + i]
    <3>1. CASE i = Len(s) + 1 BY <3>1, <1>1, <1>3, (Len(xc) - Len(sb)) + i = Len(x) + 1
    <3>2. CASE i \in 1 .. Len(s)
      <4>1. s[i] = x[(Len(x) - Len(s)) + i] BY <3>2, <1>3 DEF Ends
      <4>2. PICK j : j = (Len(x) - Len(s)) + i OBVIOUS
      <4>3. j \in 1 .. Len(x) /\ (Len(xc) - Len(sb)) + i = j BY <1>1, <2>1, <3>2, <4>2
      <4> QED BY <1>1, <3>2, <4>1, <4>2, <4>3
    <3> QED BY <3>1, <3>2, <1>1
  <2> QED BY <1>1, <2>1, <2>2 DEF Ends
<1> QED BY <1>2, <1>3 DEF sb, xc

(* A suffix of one more byte is empty, or a suffix and that byte.          *)
LEMMA EndsCut ==
    ASSUME NEW S, NEW s \in Seq(S), NEW x \in Seq(S), NEW c \in S, Ends(s, Append(x, c)), s # <<>>
    PROVE  \E r \in Seq(S) : s = Append(r, c) /\ Ends(r, x)
<1>1. PICK r \in Seq(S), b \in S : s = Append(r, b) BY SequenceEmptyOrAppend
<1> QED BY <1>1, EndsAppend

LEMMA AppendSame ==
    ASSUME NEW S, NEW s \in Seq(S), NEW x \in Seq(S), NEW b \in S, NEW c \in S,
           Append(s, b) = Append(x, c)
    PROVE  s = x /\ b = c
<1>1. s = x BY AppendInjective
<1>2. b = c BY AppendInjective
<1> QED BY <1>1, <1>2

----------------------------------------------------------------------------
(* The tree of a trie and its paths.                                       *)

LEMMA NamedFacts ==
    ASSUME NEW t, NEW w, Named(t, w)
    PROVE  /\ DOMAIN w = Nodes(t) /\ Nodes(t) = 0 .. Size(t) - 1 /\ 0 \in Nodes(t) /\ -1 \notin Nodes(t)
           /\ Size(t) \in Nat /\ 1 <= Size(t) /\ Size(t) <= MaxStates
           /\ \A s \in Nodes(t) : w[s] \in Seq(Bytes) /\ s \in Nat
           /\ w[0] = <<>>
BY MatcherAssumption DEF Named

(* What a node's edge leads to, and that it leads nowhere else.            *)
LEMMA EdgeSpells ==
    ASSUME NEW t, NEW w, Named(t, w), NEW s \in Nodes(t), NEW b \in Bytes, t.edges[s][b] # -1
    PROVE  /\ t.edges[s][b] \in Nodes(t) /\ w[t.edges[s][b]] = Append(w[s], b)
           /\ s < t.edges[s][b] /\ Len(w[t.edges[s][b]]) = Len(w[s]) + 1
<1>1. t.edges[s][b] \in Nodes(t) BY DEF Named
<1>2. w[t.edges[s][b]] = Append(w[s], b) /\ s < t.edges[s][b] BY DEF Named
<1>3. w[s] \in Seq(Bytes) BY NamedFacts
<1> QED BY <1>1, <1>2, <1>3, AppendProperties

(* The same, under one name.                                               *)
Leads(t, w, s, b) ==
    /\ t.edges[s][b] \in Nodes(t) /\ w[t.edges[s][b]] = Append(w[s], b)
    /\ s < t.edges[s][b]

LEMMA EdgeLeads ==
    ASSUME NEW t, NEW w, Named(t, w), NEW s \in Nodes(t), NEW b \in Bytes, t.edges[s][b] # -1
    PROVE  Leads(t, w, s, b)
BY EdgeSpells DEF Leads

LEMMA ParentSpells ==
    ASSUME NEW t, NEW w, Named(t, w), NEW u \in Nodes(t), w[u] # <<>>
    PROVE  \E s \in Nodes(t), b \in Bytes : t.edges[s][b] = u /\ w[u] = Append(w[s], b)
<1>1. u # 0 BY NamedFacts
<1>2. PICK s \in Nodes(t), b \in Bytes : t.edges[s][b] = u BY <1>1 DEF Named
<1>3. u # -1 BY NamedFacts
<1>4. t.edges[s][b] # -1 BY <1>2, <1>3
<1>5. w[t.edges[s][b]] = Append(w[s], b) BY <1>4, EdgeSpells
<1> QED BY <1>2, <1>5

LEMMA OnlyRootEmpty ==
    ASSUME NEW t, NEW w, Named(t, w), NEW u \in Nodes(t), u # 0
    PROVE  w[u] # <<>>
<1>1. u \in DOMAIN w /\ 0 \in DOMAIN w /\ w[0] = <<>> BY NamedFacts
<1>2. IsInjective(w) BY DEF Named
<1> QED BY <1>1, <1>2 DEF IsInjective

LEMMA ChildSpelled ==
    ASSUME NEW t, NEW w, Named(t, w), NEW s \in Nodes(t), NEW b \in Bytes, NEW v \in Nodes(t),
           w[v] = Append(w[s], b)
    PROVE  t.edges[s][b] = v
<1>1. w[s] \in Seq(Bytes) BY NamedFacts
<1>2. w[v] # <<>> BY <1>1, AppendProperties
<1>3. PICK p \in Nodes(t), c \in Bytes : t.edges[p][c] = v /\ w[v] = Append(w[p], c)
  <2>1. \E p \in Nodes(t), c \in Bytes : t.edges[p][c] = v /\ w[v] = Append(w[p], c)
    BY <1>2, ParentSpells, SMTT(20)
  <2> QED BY <2>1, Zenon
<1>4. w[p] \in Seq(Bytes) BY NamedFacts
<1>5. Append(w[p], c) = Append(w[s], b) BY <1>3
<1>6. w[p] = w[s] /\ c = b BY <1>1, <1>4, <1>5, AppendSame, SMTT(20)
<1>7. p \in DOMAIN w /\ s \in DOMAIN w /\ IsInjective(w) BY NamedFacts DEF Named
<1>8. p = s BY <1>6, <1>7 DEF IsInjective
<1> QED BY <1>3, <1>6, <1>8

(* Where one byte leads from the longest suffix of a text is where it      *)
(* leads from the text.                                                    *)
LEMMA LongestExtends ==
    ASSUME NEW t, NEW w, Named(t, w), NEW x \in Seq(Bytes), NEW b \in Bytes, NEW n \in Nat,
           NEW u, Longest(w, u, x, n), NEW v, Longest(w, v, Append(w[u], b), Len(w[u]) + 2)
    PROVE  Longest(w, v, Append(x, b), n + 1)
<1>1. /\ u \in Nodes(t) /\ v \in Nodes(t) /\ w[u] \in Seq(Bytes) /\ w[v] \in Seq(Bytes)
      /\ DOMAIN w = Nodes(t)
  BY NamedFacts DEF Longest
<1>2. /\ Append(w[u], b) \in Seq(Bytes) /\ Append(x, b) \in Seq(Bytes)
      /\ Len(Append(w[u], b)) = Len(w[u]) + 1
  BY <1>1, AppendProperties
<1>3. Ends(w[v], Append(x, b))
  <2>1. Ends(Append(w[u], b), Append(x, b)) BY <1>1, EndsAppend DEF Longest
  <2>2. Ends(w[v], Append(w[u], b)) BY DEF Longest
  <2> QED BY <1>1, <1>2, <2>1, <2>2, EndsTransitive
<1>4. Len(w[v]) < n + 1
  <2>1. Len(w[v]) <= Len(w[u]) + 1 /\ Len(w[u]) < n
    <3>1. Ends(w[v], Append(w[u], b)) /\ Len(w[u]) < n BY DEF Longest
    <3> QED BY <1>2, <3>1 DEF Ends
  <2>2. Len(w[v]) \in Nat /\ Len(w[u]) \in Nat BY <1>1
  <2> QED BY <2>1, <2>2
<1>5. ASSUME NEW z \in DOMAIN w, Ends(w[z], Append(x, b)), Len(w[z]) < n + 1
      PROVE  Len(w[z]) <= Len(w[v])
  <2>0. z \in Nodes(t) BY <1>1
  <2>1. w[z] \in Seq(Bytes) /\ Len(w[v]) \in Nat BY <1>1, <2>0, NamedFacts
  <2>2. CASE w[z] = <<>> BY <2>1, <2>2
  <2>3. CASE w[z] # <<>>
    <3>1. PICK p \in Nodes(t), c \in Bytes : w[z] = Append(w[p], c) BY <2>0, <2>3, ParentSpells
    <3>2. w[p] \in Seq(Bytes) BY NamedFacts
    <3>3. c = b /\ Ends(w[p], x) BY <1>5, <3>1, <3>2, EndsAppend
    <3>4. Len(w[z]) = Len(w[p]) + 1 BY <3>1, <3>2, AppendProperties
    <3>5. Len(w[p]) < n BY <1>5, <3>2, <3>4
    <3>6. Len(w[p]) <= Len(w[u]) BY <1>1, <3>3, <3>5 DEF Longest
    <3>7. Ends(w[p], w[u]) BY <1>1, <3>2, <3>3, <3>6, EndsShorter DEF Longest
    <3>8. Ends(w[z], Append(w[u], b)) BY <1>1, <3>1, <3>2, <3>3, <3>7, EndsAppend
    <3>9. Len(w[z]) < Len(w[u]) + 2
      <4>1. Len(w[p]) \in Nat /\ Len(w[u]) \in Nat BY <1>1, <3>2
      <4> QED BY <3>4, <3>6, <4>1
    <3> QED BY <3>8, <3>9 DEF Longest
  <2> QED BY <2>2, <2>3
<1> QED BY <1>1, <1>3, <1>4, <1>5 DEF Longest

----------------------------------------------------------------------------
(* insert.                                                                 *)

(* The tree t2 is t with one node more, led to by c from at.               *)
Grown(t, w, at, c, t2, w2) ==
    /\ Named(t2, w2) /\ Nodes(t2) = 0 .. Size(t) /\ Size(t2) = Size(t) + 1
    /\ \A u \in Nodes(t) : w2[u] = w[u] /\ t2.out[u] = t.out[u]
    /\ w2[Size(t)] = Append(w[at], c) /\ t2.out[Size(t)] = <<>>

(* AddNode's edges, one by one.                                            *)
LEMMA AddNodeEdges ==
    ASSUME NEW t, NEW w, Named(t, w), NEW at \in Nodes(t), NEW c \in Bytes
    PROVE  LET n == Size(t)
               t2 == AddNode(t, at, c)
           IN  /\ Nodes(t2) = 0 .. n /\ Size(t2) = n + 1
               /\ t2 \in [edges : [0 .. n -> [Bytes -> 0 .. n \cup {-1}]], out : [0 .. n -> Seq(Nat)]]
               /\ \A u \in Nodes(t), b \in Bytes :
                     t2.edges[u][b] = IF u = at /\ b = c THEN n ELSE t.edges[u][b]
               /\ \A b \in Bytes : t2.edges[n][b] = -1
               /\ \A u \in Nodes(t) : t2.out[u] = t.out[u]
               /\ t2.out[n] = <<>>
<1> DEFINE n == Size(t)
           t2 == AddNode(t, at, c)
           E == [t.edges EXCEPT ![at][c] = n]
<1>1. /\ Nodes(t) = 0 .. n - 1 /\ n \in Nat /\ 1 <= n /\ at \in Nat
  BY NamedFacts
<1>2. t.edges \in [Nodes(t) -> [Bytes -> Nodes(t) \cup {-1}]] /\ t.out \in [Nodes(t) -> Seq(Nat)]
  BY DEF Named
<1>3. Nodes(t) \cup {n} = 0 .. n /\ n \notin Nodes(t) BY <1>1
<1>4. /\ t2.edges = [u \in Nodes(t) \cup {n} |-> IF u = n THEN NoEdges ELSE E[u]]
      /\ t2.out = [u \in Nodes(t) \cup {n} |-> IF u = n THEN <<>> ELSE t.out[u]]
      /\ t2 = [edges |-> t2.edges, out |-> t2.out]
  BY DEF AddNode
<1> HIDE DEF t2, n
<1>5. \A u \in Nodes(t), b \in Bytes : E[u][b] = IF u = at /\ b = c THEN n ELSE t.edges[u][b]
  BY <1>2
<1>6. \A u \in Nodes(t) : E[u] \in [Bytes -> 0 .. n \cup {-1}]
  <2>1. \A u \in Nodes(t), b \in Bytes : t.edges[u][b] \in 0 .. n \cup {-1} BY <1>2, <1>3
  <2>2. n \in 0 .. n BY <1>1
  <2> QED BY <1>2, <1>5, <2>1, <2>2
<1> HIDE DEF E
<1>7. Nodes(t2) = 0 .. n BY <1>3, <1>4 DEF Nodes
<1>8. Size(t2) = n + 1
  <2>1. Cardinality(0 .. n) = n + 1 BY <1>1, FS_Interval
  <2> QED BY <1>7, <2>1 DEF Size
<1>9. /\ \A u \in Nodes(t) : t2.edges[u] = E[u] /\ t2.out[u] = t.out[u]
      /\ t2.edges[n] = NoEdges /\ t2.out[n] = <<>>
  BY <1>3, <1>4
<1>10. t2 \in [edges : [0 .. n -> [Bytes -> 0 .. n \cup {-1}]], out : [0 .. n -> Seq(Nat)]]
  <2>1. NoEdges \in [Bytes -> 0 .. n \cup {-1}] BY DEF NoEdges
  <2>2. t2.edges \in [0 .. n -> [Bytes -> 0 .. n \cup {-1}]] BY <1>3, <1>4, <1>6, <2>1
  <2>3. <<>> \in Seq(Nat) /\ \A u \in Nodes(t) : t.out[u] \in Seq(Nat) BY <1>2
  <2>4. t2.out \in [0 .. n -> Seq(Nat)] BY <1>3, <1>4, <2>3
  <2> QED BY <1>4, <2>2, <2>4
<1>11. \A b \in Bytes : t2.edges[n][b] = -1 BY <1>9 DEF NoEdges
<1>12. \A u \in Nodes(t), b \in Bytes :
          t2.edges[u][b] = IF u = at /\ b = c THEN n ELSE t.edges[u][b]
  BY <1>5, <1>9
<1> QED BY <1>7, <1>8, <1>9, <1>10, <1>11, <1>12 DEF t2, n

LEMMA AddNodeNamed ==
    ASSUME NEW t, NEW w, Named(t, w), NEW at \in Nodes(t), NEW c \in Bytes,
           t.edges[at][c] = -1, Size(t) < MaxStates
    PROVE  \E w2 : Grown(t, w, at, c, AddNode(t, at, c), w2)
<1> DEFINE n == Size(t)
           t2 == AddNode(t, at, c)
           w2 == [u \in 0 .. n |-> IF u = n THEN Append(w[at], c) ELSE w[u]]
<1>1. /\ Nodes(t) = 0 .. n - 1 /\ n \in Nat /\ 1 <= n /\ at \in Nat /\ n < MaxStates
      /\ \A s \in Nodes(t) : w[s] \in Seq(Bytes) /\ s \in Nat
      /\ w[0] = <<>> /\ DOMAIN w = Nodes(t) /\ MaxStates \in Nat
  BY NamedFacts, MatcherAssumption
<1>2. /\ Nodes(t2) = 0 .. n /\ Size(t2) = n + 1
      /\ t2 \in [edges : [0 .. n -> [Bytes -> 0 .. n \cup {-1}]], out : [0 .. n -> Seq(Nat)]]
      /\ \A u \in Nodes(t), b \in Bytes :
            t2.edges[u][b] = IF u = at /\ b = c THEN n ELSE t.edges[u][b]
      /\ \A b \in Bytes : t2.edges[n][b] = -1
      /\ \A u \in Nodes(t) : t2.out[u] = t.out[u]
      /\ t2.out[n] = <<>>
  BY AddNodeEdges
<1>3. 0 .. n = Nodes(t) \cup {n} /\ n \notin Nodes(t) /\ 0 \in Nodes(t) BY <1>1
<1> HIDE DEF t2, n
<1>4. /\ DOMAIN w2 = 0 .. n /\ w2[n] = Append(w[at], c)
      /\ \A u \in Nodes(t) : w2[u] = w[u]
      /\ w2 = [u \in 0 .. n |-> w2[u]]
  BY <1>3
<1> HIDE DEF w2
<1>5. Append(w[at], c) \in Seq(Bytes) /\ Len(Append(w[at], c)) = Len(w[at]) + 1
  BY <1>1, AppendProperties
<1>6. \A u \in 0 .. n : w2[u] \in Seq(Bytes) BY <1>1, <1>3, <1>4, <1>5
<1>7. ASSUME NEW u \in Nodes(t) PROVE w[u] # Append(w[at], c)
  <2>1. -1 \notin Nodes(t) BY NamedFacts
  <2> QED BY <2>1, ChildSpelled
<1>8. IsInjective(w2)
  <2>1. \A x, y \in Nodes(t) : w[x] = w[y] => x = y BY <1>1 DEF Named, IsInjective
  <2>2. ASSUME NEW x \in 0 .. n, NEW y \in 0 .. n, w2[x] = w2[y] PROVE x = y
    <3>1. CASE x \in Nodes(t) /\ y \in Nodes(t) BY <2>1, <2>2, <3>1, <1>4
    <3>2. CASE x \in Nodes(t) /\ y = n BY <2>2, <3>2, <1>4, <1>7
    <3>3. CASE x = n /\ y \in Nodes(t) BY <2>2, <3>3, <1>4, <1>7
    <3> QED BY <3>1, <3>2, <3>3, <1>3
  <2> QED BY <1>4, <2>2 DEF IsInjective
<1>9. \A s \in 0 .. n : Len(w2[s]) <= s
  <2>1. \A s \in Nodes(t) : Len(w[s]) <= s BY DEF Named
  <2>2. Len(w[at]) <= at /\ at <= n - 1 /\ Len(w[at]) \in Nat BY <1>1, <2>1
  <2>3. Len(w2[n]) <= n BY <1>1, <1>4, <1>5, <2>2
  <2> QED BY <1>3, <1>4, <2>1, <2>3
<1>10. ASSUME NEW s \in 0 .. n, NEW b \in Bytes, t2.edges[s][b] # -1
       PROVE  s < t2.edges[s][b] /\ w2[t2.edges[s][b]] = Append(w2[s], b)
  <2>1. s \in Nodes(t) BY <1>2, <1>3, <1>10
  <2>2. CASE s = at /\ b = c
    <3>1. t2.edges[s][b] = n BY <1>2, <2>1, <2>2
    <3>2. s < n BY <1>1, <2>1
    <3> QED BY <1>4, <2>1, <2>2, <3>1, <3>2
  <2>3. CASE ~(s = at /\ b = c)
    <3>1. t2.edges[s][b] = t.edges[s][b] BY <1>2, <2>1, <2>3
    <3>2. t.edges[s][b] # -1 BY <1>10, <3>1
    <3>3. /\ t.edges[s][b] \in Nodes(t) /\ w[t.edges[s][b]] = Append(w[s], b)
          /\ s < t.edges[s][b]
      <4>1. Leads(t, w, s, b) BY <2>1, <3>2, EdgeLeads
      <4> QED BY <4>1 DEF Leads
    <3> QED BY <1>4, <2>1, <3>1, <3>3
  <2> QED BY <2>2, <2>3
<1>11. ASSUME NEW u \in 0 .. n, u # 0 PROVE \E s \in 0 .. n, b \in Bytes : t2.edges[s][b] = u
  <2>1. CASE u = n
    <3>1. t2.edges[at][c] = n BY <1>2
    <3> QED BY <1>3, <2>1, <3>1
  <2>2. CASE u \in Nodes(t)
    <3>1. PICK s \in Nodes(t), b \in Bytes : t.edges[s][b] = u BY <1>11, <2>2 DEF Named
    <3>2. u # -1 BY <2>2, NamedFacts
    <3>3. t2.edges[s][b] = u BY <1>2, <3>1, <3>2
    <3> QED BY <1>3, <3>3
  <2> QED BY <1>3, <2>1, <2>2
<1>12. Named(t2, w2)
  <2>1. Size(t2) \in 1 .. MaxStates /\ Nodes(t2) = 0 .. Size(t2) - 1 BY <1>1, <1>2
  <2>2. w2 \in [0 .. n -> Seq(Bytes)] BY <1>4, <1>6
  <2>3. w2[0] = <<>> BY <1>1, <1>3, <1>4
  <2> QED BY <1>2, <1>8, <1>9, <1>10, <1>11, <2>1, <2>2, <2>3 DEF Named
<1>13. Grown(t, w, at, c, t2, w2) BY <1>2, <1>4, <1>12 DEF Grown, n
<1> QED BY <1>13 DEF t2

(* The recursive function in WalkAll.                                      *)
Walked(t, p, n) ==
    LET walked[i \in 0 .. n] ==
            IF i = 0 THEN [t |-> t, at |-> 0, full |-> FALSE]
            ELSE Walk(walked[i - 1], Tab(p.kind, p.literal[i]))
    IN  walked

LEMMA WalkedDef ==
    ASSUME NEW t, NEW p, NEW n \in Nat
    PROVE  Walked(t, p, n) = [i \in 0 .. n |->
               IF i = 0 THEN [t |-> t, at |-> 0, full |-> FALSE]
               ELSE Walk(Walked(t, p, n)[i - 1], Tab(p.kind, p.literal[i]))]
<1> DEFINE base == [t |-> t, at |-> 0, full |-> FALSE]
           St(a, i) == Walk(a, Tab(p.kind, p.literal[i]))
           Is(f, k) == f = [i \in 0 .. k |-> IF i = 0 THEN base ELSE St(f[i - 1], i)]
           P == {k \in Nat : \E f : Is(f, k)}
<1> HIDE DEF base, St
<1>1. 0 \in P
  <2>1. Is([i \in 0 .. 0 |-> base], 0) OBVIOUS
  <2> QED BY <2>1
<1>2. ASSUME NEW k \in Nat, k \in P PROVE k + 1 \in P
  <2>1. PICK f : Is(f, k) BY <1>2
  <2> DEFINE g == [i \in 0 .. k + 1 |-> IF i = k + 1 THEN St(f[k], k + 1) ELSE f[i]]
  <2>2. \A i \in 0 .. k : f[i] = IF i = 0 THEN base ELSE St(f[i - 1], i) BY <2>1
  <2>3. \A i \in 0 .. k : g[i] = f[i] OBVIOUS
  <2>4. g[k + 1] = St(f[k], k + 1) OBVIOUS
  <2>5. g = [i \in 0 .. k + 1 |-> g[i]] OBVIOUS
  <2> HIDE DEF g, Is
  <2>6. ASSUME NEW i \in 0 .. k + 1 PROVE g[i] = IF i = 0 THEN base ELSE St(g[i - 1], i)
    <3>1. CASE i = k + 1
      <4>1. i - 1 = k /\ k \in 0 .. k /\ i # 0 BY <3>1
      <4> QED BY <4>1, <3>1, <2>3, <2>4
    <3>2. CASE i = 0 BY <3>2, <2>2, <2>3
    <3>3. CASE i \in 1 .. k
      <4>1. i - 1 \in 0 .. k /\ i \in 0 .. k /\ i # 0 BY <3>3
      <4> QED BY <4>1, <2>2, <2>3
    <3> QED BY <3>1, <3>2, <3>3
  <2>7. Is(g, k + 1) BY <2>5, <2>6, Zenon DEF Is
  <2> QED BY <2>7
<1>3. Nat \subseteq P
  <2> HIDE DEF P
  <2> QED BY <1>1, <1>2, Inductive
<1>4. \E f : Is(f, n) BY <1>3
<1> QED BY <1>4 DEF Walked, base, St

LEMMA WalkedAt ==
    ASSUME NEW t, NEW p, NEW n \in Nat
    PROVE  /\ Walked(t, p, n)[0] = [t |-> t, at |-> 0, full |-> FALSE]
           /\ \A i \in 1 .. n :
                Walked(t, p, n)[i] = Walk(Walked(t, p, n)[i - 1], Tab(p.kind, p.literal[i]))
<1> DEFINE f == Walked(t, p, n)
           base == [t |-> t, at |-> 0, full |-> FALSE]
           St(a, i) == Walk(a, Tab(p.kind, p.literal[i]))
<1>1. f = [k \in 0 .. n |-> IF k = 0 THEN base ELSE St(f[k - 1], k)] BY WalkedDef
<1> HIDE DEF f, base, St
<1>2. f[0] = base BY <1>1
<1>3. \A i \in 1 .. n : f[i] = St(f[i - 1], i)
  <2>1. \A i \in 1 .. n : i \in 0 .. n /\ i # 0 OBVIOUS
  <2> QED BY <1>1, <2>1
<1> QED BY <1>2, <1>3 DEF f, base, St

(* A walk along text x that has entered its first j bytes into t, a tree   *)
(* named w before, and is full or at their node.                           *)
Along(t, w, x, j, walk, v) ==
    /\ walk = [t |-> walk.t, at |-> walk.at, full |-> walk.full] /\ walk.full \in BOOLEAN
    /\ Named(walk.t, v) /\ Nodes(t) \subseteq Nodes(walk.t)
    /\ walk.at \in Nodes(walk.t) /\ v[walk.at] = SubSeq(x, 1, j)
    /\ \A u \in Nodes(t) : v[u] = w[u] /\ walk.t.out[u] = t.out[u]
    /\ \A u \in Nodes(walk.t) \ Nodes(t) :
          walk.t.out[u] = <<>> /\ \E l \in 0 .. j : v[u] = SubSeq(x, 1, l)
    /\ \A l \in 0 .. j : \E u \in Nodes(walk.t) : v[u] = SubSeq(x, 1, l)

NoRoom(x, j, walk, v) ==
    /\ j < Len(x) /\ Size(walk.t) = MaxStates
    /\ \A u \in Nodes(walk.t) : v[u] # SubSeq(x, 1, j + 1)

Reached(t, w, x, i, walk) ==
    \E v : \E j \in 0 .. i :
        /\ Along(t, w, x, j, walk, v)
        /\ IF walk.full THEN NoRoom(x, j, walk, v) ELSE j = i

LEMMA PrefixGrows ==
    ASSUME NEW S, NEW x \in Seq(S), NEW i \in Nat, i < Len(x)
    PROVE  /\ SubSeq(x, 1, i) \in Seq(S) /\ x[i + 1] \in S
           /\ SubSeq(x, 1, i + 1) = Append(SubSeq(x, 1, i), x[i + 1])
<1>1. PICK j : j = i + 1 OBVIOUS
<1>2. j \in 1 .. Len(x) /\ j - 1 = i /\ 1 \in 1 .. Len(x) /\ j \in 1 .. Len(x) BY <1>1
<1>3. x[j] \in S BY <1>2, ElementOfSeq
<1>4. SubSeq(x, 1, i) \in Seq(S)
  <2>1. \A l \in 1 .. i : x[l] \in S BY <1>1, <1>2, ElementOfSeq
  <2> QED BY <2>1, SubSeqProperties
<1>5. SubSeq(x, 1, j) = SubSeq(x, 1, j - 1) \o <<x[j]>> BY <1>2, SubSeqRecursiveSecond
<1>6. SubSeq(x, 1, i) \o <<x[j]>> = Append(SubSeq(x, 1, i), x[j]) BY <1>3, <1>4, AppendIsConcat
<1> QED BY <1>1, <1>2, <1>3, <1>4, <1>5, <1>6

(* The record of a walk, and the walk after the last case of Walk.         *)
Walker(t, at, full) == [t |-> t, at |-> at, full |-> full]

Onward(walk, t, at) == [walk EXCEPT !.t = t, !.at = at]

LEMMA OnwardIs ==
    ASSUME NEW a, NEW b, NEW f, NEW t, NEW s
    PROVE  Onward(Walker(a, b, f), t, s) = Walker(t, s, f)
<1>1. PICK w : w = [t |-> a, at |-> b, full |-> f] OBVIOUS
<1>2. [w EXCEPT !.t = t, !.at = s] = [[w EXCEPT !.t = t] EXCEPT !.at = s] OBVIOUS
<1>3. PICK w2 : w2 = [t |-> t, at |-> b, full |-> f] OBVIOUS
<1>4. [w EXCEPT !.t = t] = w2
  <2>1. [[t |-> a, at |-> b, full |-> f] EXCEPT !.t = t] = [t |-> t, at |-> b, full |-> f] OBVIOUS
  <2> QED BY <1>1, <1>3, <2>1, Zenon
<1>5. [w2 EXCEPT !.at = s] = [t |-> t, at |-> s, full |-> f]
  <2>1. [[t |-> t, at |-> b, full |-> f] EXCEPT !.at = s] = [t |-> t, at |-> s, full |-> f] OBVIOUS
  <2> QED BY <1>3, <2>1, Zenon
<1>6. Onward(w, t, s) = [t |-> t, at |-> s, full |-> f] BY <1>2, <1>4, <1>5, Zenon DEF Onward
<1> QED BY <1>1, <1>6, Zenon DEF Walker

(* Walk, of a walk field by field.                                         *)
LEMMA WalkFields ==
    ASSUME NEW t, NEW at, NEW c, NEW walk, walk = [t |-> t, at |-> at, full |-> FALSE]
    PROVE  /\ t.edges[at][c] >= 0 => Walk(walk, c) = [t |-> t, at |-> t.edges[at][c], full |-> FALSE]
           /\ ~(t.edges[at][c] >= 0) /\ Size(t) >= MaxStates =>
                 Walk(walk, c) = [t |-> t, at |-> at, full |-> TRUE]
BY DEF Walk

LEMMA WalkReaches ==
    ASSUME NEW t, NEW w, NEW x \in Seq(Bytes), NEW i \in Nat, i < Len(x),
           NEW walk, Reached(t, w, x, i, walk)
    PROVE  Reached(t, w, x, i + 1, Walk(walk, x[i + 1]))
<1>1. PICK v : \E j \in 0 .. i : /\ Along(t, w, x, j, walk, v)
                                 /\ IF walk.full THEN NoRoom(x, j, walk, v) ELSE j = i
  BY DEF Reached
<1>2. PICK j \in 0 .. i : /\ Along(t, w, x, j, walk, v)
                          /\ IF walk.full THEN NoRoom(x, j, walk, v) ELSE j = i
  BY <1>1
<1>3. walk.full \in BOOLEAN BY <1>2 DEF Along
<1>4. CASE walk.full
  <2>1. Walk(walk, x[i + 1]) = walk BY <1>4 DEF Walk
  <2>2. j \in 0 .. i + 1 OBVIOUS
  <2> QED BY <1>2, <1>4, <2>1, <2>2 DEF Reached
<1> SUFFICES ASSUME ~walk.full PROVE Reached(t, w, x, i + 1, Walk(walk, x[i + 1]))
  BY <1>4
<1>5. PICK c : c = x[i + 1] OBVIOUS
<1>6. PICK tr : tr = walk.t OBVIOUS
<1>7. PICK s : s = walk.at OBVIOUS
<1>8. PICK x2 : x2 = SubSeq(x, 1, i + 1) OBVIOUS
<1>9. c \in Bytes /\ SubSeq(x, 1, i) \in Seq(Bytes) /\ x2 = Append(SubSeq(x, 1, i), c)
  BY <1>5, <1>8, PrefixGrows
<1>10. j = i /\ Along(t, w, x, i, walk, v) BY <1>2
<1>11. walk = [t |-> tr, at |-> s, full |-> FALSE] BY <1>6, <1>7, <1>10 DEF Along
<1>12. /\ s \in Nodes(tr) /\ v[s] = SubSeq(x, 1, i) /\ Named(tr, v)
       /\ Nodes(t) \subseteq Nodes(tr)
       /\ \A u \in Nodes(t) : v[u] = w[u] /\ tr.out[u] = t.out[u]
       /\ \A u \in Nodes(tr) \ Nodes(t) : tr.out[u] = <<>> /\ \E l \in 0 .. i : v[u] = SubSeq(x, 1, l)
       /\ \A l \in 0 .. i : \E u \in Nodes(tr) : v[u] = SubSeq(x, 1, l)
  BY <1>6, <1>7, <1>10 DEF Along
<1>13. PICK e : e = tr.edges[s][c] OBVIOUS
<1>14. /\ e \in Nodes(tr) \cup {-1} /\ -1 \notin Nodes(tr)
       /\ Nodes(tr) = 0 .. Size(tr) - 1 /\ Size(tr) \in Nat /\ Size(tr) <= MaxStates
       /\ MaxStates \in Nat
  <2>1. tr.edges \in [Nodes(tr) -> [Bytes -> Nodes(tr) \cup {-1}]] BY <1>12 DEF Named
  <2>2. tr.edges[s][c] \in Nodes(tr) \cup {-1} BY <1>9, <1>12, <2>1
  <2> QED BY <1>12, <1>13, <2>2, NamedFacts, MatcherAssumption
<1>15. e >= 0 <=> e # -1 BY <1>14
<1>16. 0 .. i + 1 = 0 .. i \cup {i + 1} /\ i + 1 \in 0 .. i + 1 /\ i \in 0 .. i + 1 OBVIOUS
<1>17. CASE e # -1
  <2>1. PICK walk2 : walk2 = [t |-> tr, at |-> e, full |-> FALSE] OBVIOUS
  <2>2. Walk(walk, c) = walk2 BY <1>11, <1>13, <1>15, <1>17, <2>1, WalkFields
  <2>3. e \in Nodes(tr) /\ v[e] = x2
    <3>1. tr.edges[s][c] # -1 /\ Named(tr, v) /\ s \in Nodes(tr) /\ c \in Bytes
      BY <1>9, <1>12, <1>13, <1>17
    <3>2. v[tr.edges[s][c]] = Append(v[s], c) /\ tr.edges[s][c] \in Nodes(tr) BY <3>1, EdgeSpells
    <3> QED BY <1>9, <1>12, <1>13, <3>2
  <2>4. \A u \in Nodes(tr) \ Nodes(t) : \E l \in 0 .. i + 1 : v[u] = SubSeq(x, 1, l)
    BY <1>12, <1>16
  <2>5. \A l \in 0 .. i + 1 : \E u \in Nodes(tr) : v[u] = SubSeq(x, 1, l)
    BY <1>8, <1>12, <1>16, <2>3
  <2>6. Along(t, w, x, i + 1, walk2, v) BY <1>8, <1>12, <2>1, <2>3, <2>4, <2>5 DEF Along
  <2>7. ~walk2.full BY <2>1
  <2> QED BY <1>5, <1>16, <2>2, <2>6, <2>7 DEF Reached
<1>18. CASE e = -1 /\ Size(tr) >= MaxStates
  <2>1. PICK walk2 : walk2 = [t |-> tr, at |-> s, full |-> TRUE] OBVIOUS
  <2>2. Walk(walk, c) = walk2 BY <1>11, <1>13, <1>15, <1>18, <2>1, WalkFields
  <2>3. ASSUME NEW u \in Nodes(tr), v[u] = x2 PROVE FALSE
    <3>1. v[u] = Append(v[s], c) /\ Named(tr, v) /\ s \in Nodes(tr) /\ c \in Bytes
      BY <1>9, <1>12, <2>3
    <3>2. tr.edges[s][c] = u BY <3>1, ChildSpelled
    <3> QED BY <1>13, <1>14, <1>18, <3>2
  <2>4. Along(t, w, x, i, walk2, v) BY <1>12, <2>1 DEF Along
  <2>5. NoRoom(x, i, walk2, v) BY <1>8, <1>14, <1>18, <2>1, <2>3 DEF NoRoom
  <2>6. walk2.full BY <2>1
  <2> QED BY <1>5, <1>16, <2>2, <2>4, <2>5, <2>6 DEF Reached
<1>19. CASE e = -1 /\ ~(Size(tr) >= MaxStates)
  <2>1. PICK n : n = Size(tr) OBVIOUS
  <2>2. PICK t2 : t2 = AddNode(tr, s, c) OBVIOUS
  <2>3. PICK walk2 : walk2 = [t |-> t2, at |-> n, full |-> FALSE] OBVIOUS
  <2>4. Walk(walk, c) = walk2
    <3>1. ~(tr.edges[s][c] >= 0) /\ ~(Size(tr) >= MaxStates) BY <1>13, <1>15, <1>19
    <3>2. walk.t = tr /\ walk.at = s /\ walk.full = FALSE BY <1>11
    <3>3. Walk(walk, c) = [walk EXCEPT !.t = t2, !.at = n] BY <2>1, <2>2, <3>1, <3>2 DEF Walk
    <3>4. Onward(walk, t2, n) = walk2
      <4>1. PICK f : f = walk.full OBVIOUS
      <4>2. f = FALSE BY <3>2, <4>1
      <4>3. walk = Walker(tr, s, f) BY <1>11, <4>2 DEF Walker
      <4>4. walk2 = Walker(t2, n, f) BY <2>3, <4>2 DEF Walker
      <4>5. Onward(Walker(tr, s, f), t2, n) = Walker(t2, n, f) BY OnwardIs
      <4> QED BY <4>3, <4>4, <4>5, Zenon
    <3> QED BY <3>3, <3>4, Zenon DEF Onward
  <2>5. PICK v2 : Grown(tr, v, s, c, t2, v2)
    <3>1. Size(tr) < MaxStates BY <1>14, <1>19
    <3> QED BY <1>9, <1>12, <1>13, <1>19, <2>2, <3>1, AddNodeNamed
  <2>6. /\ Named(t2, v2) /\ Nodes(t2) = Nodes(tr) \cup {n} /\ n \notin Nodes(tr)
        /\ \A u \in Nodes(tr) : v2[u] = v[u] /\ t2.out[u] = tr.out[u]
        /\ v2[n] = x2 /\ t2.out[n] = <<>>
    <3>1. 0 .. n = 0 .. n - 1 \cup {n} /\ n \notin 0 .. n - 1 BY <1>14, <2>1
    <3> QED BY <1>9, <1>12, <1>14, <2>1, <2>5, <3>1 DEF Grown
  <2>7. \A u \in Nodes(t) : v2[u] = w[u] /\ t2.out[u] = t.out[u] BY <1>12, <2>6
  <2>8. ASSUME NEW u \in Nodes(t2) \ Nodes(t)
        PROVE  t2.out[u] = <<>> /\ \E l \in 0 .. i + 1 : v2[u] = SubSeq(x, 1, l)
    <3>1. CASE u = n BY <1>8, <1>16, <2>6, <3>1
    <3>2. CASE u \in Nodes(tr)
      <4>1. tr.out[u] = <<>> /\ \E l \in 0 .. i : v[u] = SubSeq(x, 1, l) BY <1>12, <3>2
      <4> QED BY <1>16, <2>6, <3>2, <4>1
    <3> QED BY <2>6, <3>1, <3>2
  <2>9. \A l \in 0 .. i + 1 : \E u \in Nodes(t2) : v2[u] = SubSeq(x, 1, l)
    BY <1>8, <1>12, <1>16, <2>6
  <2>10. Along(t, w, x, i + 1, walk2, v2)
    <3>1. Nodes(t) \subseteq Nodes(t2) /\ n \in Nodes(t2) BY <1>12, <2>6
    <3> QED BY <1>8, <2>3, <2>6, <2>7, <2>8, <2>9, <3>1 DEF Along
  <2>11. ~walk2.full BY <2>3
  <2> QED BY <1>5, <1>16, <2>4, <2>10, <2>11 DEF Reached
<1> QED BY <1>17, <1>18, <1>19

----------------------------------------------------------------------------
(* Sequences that list a set, every member once.                           *)

LEMMA ListsFacts ==
    ASSUME NEW q, NEW S, Lists(q, S)
    PROVE  /\ q \in Seq(S) /\ DOMAIN q = 1 .. Len(q) /\ Len(q) \in Nat
           /\ \A i \in 1 .. Len(q) : q[i] \in S
           /\ \A x \in S : \E i \in 1 .. Len(q) : q[i] = x
           /\ \A i, j \in 1 .. Len(q) : q[i] = q[j] => i = j
           /\ ToSet(q) = S
<1>1. q \in Seq(S) /\ ToSet(q) = S /\ IsInjective(q) BY DEF Lists
<1>2. DOMAIN q = 1 .. Len(q) /\ Len(q) \in Nat BY <1>1
<1>3. \A i \in 1 .. Len(q) : q[i] \in S BY <1>1
<1>4. \A x \in S : \E i \in 1 .. Len(q) : q[i] = x BY <1>1, <1>2 DEF ToSet
<1>5. \A i, j \in 1 .. Len(q) : q[i] = q[j] => i = j BY <1>1, <1>2 DEF IsInjective
<1> QED BY <1>1, <1>2, <1>3, <1>4, <1>5

LEMMA ListsBy ==
    ASSUME NEW S, NEW T, NEW q \in Seq(T), \A i \in 1 .. Len(q) : q[i] \in S,
           \A x \in S : \E i \in 1 .. Len(q) : q[i] = x,
           \A i, j \in 1 .. Len(q) : q[i] = q[j] => i = j
    PROVE  Lists(q, S)
<1>1. DOMAIN q = 1 .. Len(q) /\ Len(q) \in Nat OBVIOUS
<1>2. q \in Seq(S)
  <2>1. q = [i \in 1 .. Len(q) |-> q[i]] BY <1>1
  <2>2. q \in [1 .. Len(q) -> S] BY <2>1
  <2> QED BY <1>1, <2>2, SeqDef
<1>3. ToSet(q) = S BY <1>1 DEF ToSet
<1>4. IsInjective(q) BY <1>1 DEF IsInjective
<1> QED BY <1>2, <1>3, <1>4 DEF Lists

(* The same, of premises under one name.                                   *)
Enumerates(q, S) ==
    /\ \A i \in 1 .. Len(q) : q[i] \in S
    /\ \A x \in S : \E i \in 1 .. Len(q) : q[i] = x
    /\ \A i, j \in 1 .. Len(q) : q[i] = q[j] => i = j

LEMMA EnumeratedLists ==
    ASSUME NEW S, NEW T, NEW q \in Seq(T), Enumerates(q, S)
    PROVE  Lists(q, S)
BY ListsBy DEF Enumerates

LEMMA ListsEmpty == Lists(<<>>, {})
<1>1. PICK q : q = <<>> OBVIOUS
<1>2. q \in Seq({}) /\ Len(q) = 0 BY <1>1
<1>3. \A i \in 1 .. Len(q) : FALSE BY <1>2
<1>4. Lists(q, {}) BY <1>2, <1>3, ListsBy
<1> QED BY <1>1, <1>4

LEMMA ListsAppend ==
    ASSUME NEW q, NEW S, Lists(q, S), NEW x, x \notin S
    PROVE  Lists(Append(q, x), S \cup {x})
<1> DEFINE T == S \cup {x}
           r == Append(q, x)
<1>1. /\ q \in Seq(T) /\ x \in T /\ Len(q) \in Nat /\ \A i \in 1 .. Len(q) : q[i] \in S
      /\ \A y \in S : \E i \in 1 .. Len(q) : q[i] = y
      /\ \A i, j \in 1 .. Len(q) : q[i] = q[j] => i = j
  <2>1. q \in Seq(S) /\ S \subseteq T BY ListsFacts
  <2>2. q \in Seq(T) BY <2>1, SeqMonotonic
  <2> QED BY <2>2, ListsFacts
<1>2. /\ r \in Seq(T) /\ Len(r) = Len(q) + 1 /\ \A i \in 1 .. Len(q) : r[i] = q[i]
      /\ r[Len(q) + 1] = x
  BY <1>1, AppendProperties
<1> HIDE DEF r
<1>3. 1 .. Len(r) = 1 .. Len(q) \cup {Len(q) + 1} BY <1>1, <1>2
<1>4. \A i \in 1 .. Len(r) : r[i] \in T BY <1>1, <1>2, <1>3
<1>5. \A y \in T : \E i \in 1 .. Len(r) : r[i] = y BY <1>1, <1>2, <1>3
<1>6. \A i, j \in 1 .. Len(r) : r[i] = r[j] => i = j BY <1>1, <1>2, <1>3
<1>7. Lists(r, T)
  <2> HIDE DEF T
  <2> QED BY <1>2, <1>4, <1>5, <1>6, ListsBy
<1> QED BY <1>7 DEF r

LEMMA ListsConcat ==
    ASSUME NEW q, NEW S, Lists(q, S), NEW r, NEW T, Lists(r, T), S \cap T = {}
    PROVE  Lists(q \o r, S \cup T)
<1> DEFINE U == S \cup T
           z == q \o r
<1>1. /\ q \in Seq(U) /\ Len(q) \in Nat /\ \A i \in 1 .. Len(q) : q[i] \in S
      /\ \A y \in S : \E i \in 1 .. Len(q) : q[i] = y
      /\ \A i, j \in 1 .. Len(q) : q[i] = q[j] => i = j
  <2>1. q \in Seq(S) /\ S \subseteq U BY ListsFacts
  <2>2. q \in Seq(U) BY <2>1, SeqMonotonic
  <2> QED BY <2>2, ListsFacts
<1>2. /\ r \in Seq(U) /\ Len(r) \in Nat /\ \A i \in 1 .. Len(r) : r[i] \in T
      /\ \A y \in T : \E i \in 1 .. Len(r) : r[i] = y
      /\ \A i, j \in 1 .. Len(r) : r[i] = r[j] => i = j
  <2>1. r \in Seq(T) /\ T \subseteq U BY ListsFacts
  <2>2. r \in Seq(U) BY <2>1, SeqMonotonic
  <2> QED BY <2>2, ListsFacts
<1>3. /\ z \in Seq(U) /\ Len(z) = Len(q) + Len(r)
      /\ \A i \in 1 .. Len(q) + Len(r) : z[i] = IF i <= Len(q) THEN q[i] ELSE r[i - Len(q)]
  BY <1>1, <1>2, ConcatProperties
<1> HIDE DEF z
<1>4. \A i \in 1 .. Len(z) : i \in 1 .. Len(q) \/ i - Len(q) \in 1 .. Len(r) BY <1>1, <1>2, <1>3
<1>5. \A i \in 1 .. Len(q) : i \in 1 .. Len(z) /\ z[i] = q[i] BY <1>1, <1>2, <1>3
<1>6. ASSUME NEW i \in 1 .. Len(r) PROVE i + Len(q) \in 1 .. Len(z) /\ z[i + Len(q)] = r[i]
  <2>1. PICK l : l = i + Len(q) OBVIOUS
  <2>2. l \in 1 .. Len(q) + Len(r) /\ ~(l <= Len(q)) /\ l - Len(q) = i BY <1>1, <1>2, <2>1
  <2> QED BY <1>3, <2>1, <2>2
<1>7. \A i \in 1 .. Len(z) : z[i] \in U
  <2>1. \A i \in 1 .. Len(z) : i - Len(q) \in 1 .. Len(r) => z[i] \in T
    <3>1. \A i \in 1 .. Len(z) : i - Len(q) \in 1 .. Len(r) => z[i] = r[i - Len(q)]
      BY <1>1, <1>2, <1>3
    <3> QED BY <1>2, <3>1
  <2> QED BY <1>1, <1>4, <1>5, <2>1
<1>8. \A y \in U : \E i \in 1 .. Len(z) : z[i] = y
  <2>1. \A y \in S : \E i \in 1 .. Len(z) : z[i] = y BY <1>1, <1>5
  <2>2. ASSUME NEW y \in T PROVE \E i \in 1 .. Len(z) : z[i] = y
    <3>1. PICK i \in 1 .. Len(r) : r[i] = y BY <1>2
    <3> QED BY <1>6, <3>1
  <2> QED BY <2>1, <2>2
<1>9. ASSUME NEW i \in 1 .. Len(z), NEW j \in 1 .. Len(z), z[i] = z[j] PROVE i = j
  <2>1. \A l \in 1 .. Len(z) : l - Len(q) \in 1 .. Len(r) => z[l] = r[l - Len(q)]
    BY <1>1, <1>2, <1>3
  <2>2. CASE i \in 1 .. Len(q) /\ j \in 1 .. Len(q) BY <1>1, <1>5, <1>9, <2>2
  <2>3. CASE i \in 1 .. Len(q) /\ j - Len(q) \in 1 .. Len(r)
    <3>1. z[i] \in S /\ z[j] \in T BY <1>1, <1>2, <1>5, <2>1, <2>3
    <3> QED BY <1>9, <3>1
  <2>4. CASE i - Len(q) \in 1 .. Len(r) /\ j \in 1 .. Len(q)
    <3>1. z[j] \in S /\ z[i] \in T BY <1>1, <1>2, <1>5, <2>1, <2>4
    <3> QED BY <1>9, <3>1
  <2>5. CASE i - Len(q) \in 1 .. Len(r) /\ j - Len(q) \in 1 .. Len(r)
    <3>1. i - Len(q) = j - Len(q) BY <1>2, <1>9, <2>1, <2>5
    <3> QED BY <1>1, <3>1
  <2> QED BY <1>4, <2>2, <2>3, <2>4, <2>5
<1>10. Lists(z, U)
  <2> HIDE DEF U
  <2> QED BY <1>3, <1>7, <1>8, <1>9, ListsBy
<1> QED BY <1>10 DEF z

LEMMA ListsTail ==
    ASSUME NEW q, NEW S, Lists(q, S), q # <<>>
    PROVE  /\ q[1] \in S /\ Head(q) = q[1] /\ Len(q) \in Nat \ {0}
           /\ Lists(Tail(q), S \ {q[1]}) /\ Len(Tail(q)) = Len(q) - 1
           /\ \A i \in 1 .. Len(Tail(q)) : Tail(q)[i] = q[i + 1]
<1> DEFINE r == Tail(q)
<1>1. /\ q \in Seq(S) /\ Len(q) \in Nat /\ \A i \in 1 .. Len(q) : q[i] \in S
      /\ \A x \in S : \E i \in 1 .. Len(q) : q[i] = x
      /\ \A i, j \in 1 .. Len(q) : q[i] = q[j] => i = j
  BY ListsFacts
<1>2. Len(q) \in Nat \ {0} /\ 1 \in 1 .. Len(q)
  <2>1. Len(q) # 0 BY <1>1
  <2> QED BY <1>1, <2>1
<1>3. /\ r \in Seq(S) /\ Len(r) = Len(q) - 1 /\ Head(q) = q[1]
      /\ \A i \in 1 .. Len(r) : r[i] = q[i + 1]
  BY <1>1, <1>2, HeadTailProperties
<1> HIDE DEF r
<1>4. \A i \in 1 .. Len(r) : r[i] \in S \ {q[1]}
  <2> TAKE i \in 1 .. Len(r)
  <2>1. i + 1 \in 1 .. Len(q) /\ i + 1 # 1 BY <1>1, <1>3
  <2>2. q[i + 1] \in S /\ q[i + 1] # q[1] BY <1>1, <1>2, <2>1
  <2> QED BY <1>3, <2>2
<1>5. ASSUME NEW x \in S \ {q[1]} PROVE \E i \in 1 .. Len(r) : r[i] = x
  <2>1. PICK i \in 1 .. Len(q) : q[i] = x BY <1>1
  <2>2. i # 1 BY <2>1
  <2>3. PICK j : j = i - 1 OBVIOUS
  <2>4. j \in 1 .. Len(r) /\ j + 1 = i BY <1>1, <1>3, <2>2, <2>3
  <2> QED BY <1>3, <2>1, <2>4
<1>6. ASSUME NEW i \in 1 .. Len(r), NEW j \in 1 .. Len(r), r[i] = r[j] PROVE i = j
  <2>1. i + 1 \in 1 .. Len(q) /\ j + 1 \in 1 .. Len(q) BY <1>1, <1>3
  <2>2. q[i + 1] = q[j + 1] BY <1>3, <1>6
  <2>3. i + 1 = j + 1 BY <1>1, <2>1, <2>2
  <2> QED BY <2>3
<1>7. Lists(r, S \ {q[1]})
  <2>1. \A x \in S \ {q[1]} : \E i \in 1 .. Len(r) : r[i] = x BY <1>5
  <2>2. \A i, j \in 1 .. Len(r) : r[i] = r[j] => i = j BY <1>6
  <2>3. Enumerates(r, S \ {q[1]}) BY <1>4, <2>1, <2>2 DEF Enumerates
  <2> QED BY <1>3, <2>3, EnumeratedLists
<1> QED BY <1>1, <1>2, <1>3, <1>7 DEF r

(* SetToSeq lists a finite set.                                            *)
LEMMA SetToSeqLists ==
    ASSUME NEW S, IsFiniteSet(S)
    PROVE  Lists(SetToSeq(S), S)
<1> DEFINE n == Cardinality(S)
           q == SetToSeq(S)
<1>1. n \in Nat /\ \E f : f \in Bijection(1 .. n, S)
  BY FS_CardinalityType DEF ExistsBijection
<1>2. PICK f : f \in Bijection(1 .. n, S) BY <1>1
<1>3. f \in [1 .. n -> S] /\ IsInjective(f)
  BY <1>2 DEF Bijection, Injection, IsInjective
<1>4. q \in [1 .. n -> S] /\ IsInjective(q)
  <2> HIDE DEF n
  <2>1. \E g \in [1 .. n -> S] : IsInjective(g) BY <1>3
  <2>2. q = CHOOSE g \in [1 .. n -> S] : IsInjective(g) BY DEF SetToSeq, n
  <2> HIDE DEF q
  <2> QED BY <2>1, <2>2
<1> HIDE DEF q
<1>5. q \in Seq(S) /\ Len(q) = n /\ DOMAIN q = 1 .. n BY <1>1, <1>4
<1>6. \A i, j \in 1 .. Len(q) : q[i] = q[j] => i = j BY <1>4, <1>5 DEF IsInjective
<1>7. q \in Surjection(1 .. n, S)
  <2>1. q \in Injection(1 .. n, S) BY <1>4, <1>5, <1>6 DEF Injection, IsInjective
  <2>2. Cardinality(1 .. n) = n BY <1>1, FS_Interval
  <2> QED BY <2>1, <2>2, FS_Injection
<1>8. \A x \in S : \E i \in 1 .. Len(q) : q[i] = x BY <1>5, <1>7 DEF Surjection
<1>9. \A i \in 1 .. Len(q) : q[i] \in S BY <1>4, <1>5
<1>10. Lists(q, S) BY <1>5, <1>6, <1>8, <1>9, ListsBy
<1> QED BY <1>10 DEF q

(* A list of a finite set is as long as the set is large.                  *)
LEMMA ListsCounts ==
    ASSUME NEW q, NEW S, Lists(q, S)
    PROVE  IsFiniteSet(S) /\ Cardinality(S) = Len(q)
<1>1. /\ q \in Seq(S) /\ Len(q) \in Nat
      /\ \A x \in S : \E i \in 1 .. Len(q) : q[i] = x
      /\ \A i, j \in 1 .. Len(q) : q[i] = q[j] => i = j
  BY ListsFacts
<1>2. q \in [1 .. Len(q) -> S] BY <1>1
<1>3. q \in Bijection(1 .. Len(q), S)
  BY <1>1, <1>2 DEF Bijection, Injection, Surjection, IsInjective
<1>4. IsFiniteSet(1 .. Len(q)) /\ Cardinality(1 .. Len(q)) = Len(q)
  <2>1. PICK n \in Int : n = Len(q) /\ ~(1 > n + 1) BY <1>1
  <2>2. IsFiniteSet(1 .. n) /\ Cardinality(1 .. n) = IF 1 > n THEN 0 ELSE n - 1 + 1
    BY FS_Interval
  <2> QED BY <1>1, <2>1, <2>2
<1>5. ExistsBijection(1 .. Len(q), S) BY <1>3 DEF ExistsBijection
<1> QED BY <1>4, <1>5, FS_Bijection

LEMMA TranslatedType ==
    ASSUME NEW k, NEW s \in Seq(Bytes)
    PROVE  /\ Translated(k, s) \in Seq(Bytes) /\ Len(Translated(k, s)) = Len(s) /\ Len(s) \in Nat
           /\ \A i \in 1 .. Len(s) : Translated(k, s)[i] = Tab(k, s[i])
<1>1. s \in [1 .. Len(s) -> Bytes] /\ Len(s) \in Nat /\ DOMAIN s = 1 .. Len(s) OBVIOUS
<1>2. \A b \in Bytes : Tab(k, b) \in Bytes BY MatcherAssumption DEF Tab
<1>3. Translated(k, s) = [i \in 1 .. Len(s) |-> Tab(k, s[i])] BY <1>1 DEF Translated
<1>4. Translated(k, s) \in [1 .. Len(s) -> Bytes] BY <1>1, <1>2, <1>3
<1> QED BY <1>1, <1>3, <1>4

LEMMA SoughtType ==
    ASSUME patterns \in Seq(Pattern), NEW i \in 1 .. Len(patterns)
    PROVE  /\ patterns[i] \in Pattern /\ patterns[i].literal \in Seq(Bytes) /\ patterns[i].kind \in Kinds
           /\ Sought(i) \in Seq(Bytes) /\ Len(Sought(i)) = Len(patterns[i].literal)
           /\ Len(Sought(i)) \in Nat
<1>1. patterns[i] \in Pattern OBVIOUS
<1>2. patterns[i].literal \in Seq(Bytes) /\ patterns[i].kind \in Kinds BY <1>1 DEF Pattern, Kinds
<1> QED BY <1>1, <1>2, TranslatedType DEF Sought

LEMMA PrefixEnds ==
    ASSUME NEW S, NEW x \in Seq(S)
    PROVE  SubSeq(x, 1, 0) = <<>> /\ SubSeq(x, 1, Len(x)) = x
BY SubSeqEmpty, SubSeqFull

(* The whole walk of a pattern's literal.                                  *)
LEMMA WalkAllReaches ==
    ASSUME NEW t, NEW w, Named(t, w), NEW p \in Pattern
    PROVE  Reached(t, w, Translated(p.kind, p.literal), Len(p.literal), WalkAll(t, p))
<1>1. PICK x : x = Translated(p.kind, p.literal) OBVIOUS
<1>2. PICK n : n = Len(p.literal) OBVIOUS
<1>3. p.literal \in Seq(Bytes) BY DEF Pattern
<1>4. x \in Seq(Bytes) /\ Len(x) = n /\ n \in Nat /\ \A i \in 1 .. n : x[i] = Tab(p.kind, p.literal[i])
  BY <1>1, <1>2, <1>3, TranslatedType
<1>5. PICK f : f = Walked(t, p, n) OBVIOUS
<1>6. f[0] = [t |-> t, at |-> 0, full |-> FALSE] /\ \A i \in 1 .. n : f[i] = Walk(f[i - 1], x[i])
  BY <1>4, <1>5, WalkedAt
<1> DEFINE P == {i \in Nat : i <= n => Reached(t, w, x, i, f[i])}
<1>7. 0 \in P
  <2>1. PICK walk : walk = [t |-> t, at |-> 0, full |-> FALSE] OBVIOUS
  <2>2. w[0] = <<>> /\ 0 \in Nodes(t) BY NamedFacts
  <2>3. SubSeq(x, 1, 0) = <<>> BY <1>4, PrefixEnds
  <2>4. \A l \in 0 .. 0 : l = 0 OBVIOUS
  <2>5. \A l \in 0 .. 0 : \E u \in Nodes(t) : w[u] = SubSeq(x, 1, l) BY <2>2, <2>3, <2>4
  <2>6. Along(t, w, x, 0, walk, w) BY <2>1, <2>2, <2>3, <2>5 DEF Along
  <2>7. Reached(t, w, x, 0, walk) BY <2>1, <2>6 DEF Reached
  <2> QED BY <1>6, <2>1, <2>7
<1>8. ASSUME NEW i \in Nat, i \in P PROVE i + 1 \in P
  <2> SUFFICES ASSUME i + 1 <= n PROVE Reached(t, w, x, i + 1, f[i + 1]) OBVIOUS
  <2>1. Reached(t, w, x, i, f[i]) BY <1>4, <1>8
  <2>2. f[i + 1] = Walk(f[i], x[i + 1])
    <3>1. PICK j : j = i + 1 /\ j - 1 = i OBVIOUS
    <3>2. j \in 1 .. n BY <1>4, <3>1
    <3> QED BY <1>6, <3>1, <3>2
  <2>3. PICK walk : walk = f[i] OBVIOUS
  <2>4. i < Len(x) BY <1>4
  <2>5. Reached(t, w, x, i + 1, Walk(walk, x[i + 1])) BY <1>4, <2>1, <2>3, <2>4, WalkReaches
  <2> QED BY <2>2, <2>3, <2>5
<1>9. Nat \subseteq P
  <2> HIDE DEF P
  <2> QED BY <1>7, <1>8, Inductive
<1>10. Reached(t, w, x, n, f[n]) BY <1>4, <1>9
<1>11. WalkAll(t, p) = f[n] BY <1>2, <1>5 DEF WalkAll, Walked
<1> QED BY <1>1, <1>2, <1>10, <1>11

LEMMA ExceptOut ==
    ASSUME NEW E, NEW O, NEW s, NEW q
    PROVE  [[edges |-> E, out |-> O] EXCEPT !.out[s] = q] = [edges |-> E, out |-> [O EXCEPT ![s] = q]]
OBVIOUS

(* A tree with one more output at one node is the same tree.               *)
WithOutputs(t, s, q) == [t EXCEPT !.out[s] = q]
SameTree(t, w, s, q, t2) ==
    /\ Named(t2, w) /\ Nodes(t2) = Nodes(t) /\ t2.edges = t.edges
    /\ t2.out[s] = q /\ \A u \in Nodes(t) : u # s => t2.out[u] = t.out[u]

LEMMA OutputKeepsNamed ==
    ASSUME NEW t, NEW w, Named(t, w), NEW s \in Nodes(t), NEW q \in Seq(Nat)
    PROVE  SameTree(t, w, s, q, WithOutputs(t, s, q))
<1>1. PICK N : N = Nodes(t) OBVIOUS
<1>2. t \in [edges : [N -> [Bytes -> N \cup {-1}]], out : [N -> Seq(Nat)]] BY <1>1 DEF Named
<1>3. PICK E : E = t.edges OBVIOUS
<1>4. PICK O : O = t.out OBVIOUS
<1>5. t = [edges |-> E, out |-> O] /\ O \in [N -> Seq(Nat)] /\ E \in [N -> [Bytes -> N \cup {-1}]]
  BY <1>2, <1>3, <1>4
<1>6. PICK O2 : O2 = [O EXCEPT ![s] = q] OBVIOUS
<1>7. O2 \in [N -> Seq(Nat)] /\ O2[s] = q /\ \A u \in N : u # s => O2[u] = O[u]
  BY <1>1, <1>5, <1>6
<1>8. PICK t2 : t2 = [edges |-> E, out |-> O2] OBVIOUS
<1>9. [t EXCEPT !.out[s] = q] = t2
  <2>1. [t EXCEPT !.out[s] = q] = [[edges |-> E, out |-> O] EXCEPT !.out[s] = q] BY <1>5, Zenon
  <2>2. [[edges |-> E, out |-> O] EXCEPT !.out[s] = q] = [edges |-> E, out |-> [O EXCEPT ![s] = q]]
    BY ExceptOut
  <2> QED BY <1>6, <1>8, <2>1, <2>2
<1>10. t2.edges = E /\ t2.out = O2 BY <1>8
<1>11. Nodes(t2) = N /\ Size(t2) = Size(t) BY <1>1, <1>3, <1>10 DEF Nodes, Size
<1>12. t2 \in [edges : [N -> [Bytes -> N \cup {-1}]], out : [N -> Seq(Nat)]] BY <1>5, <1>7, <1>8
<1>13. Named(t2, w)
  <2>1. /\ Size(t) \in 1 .. MaxStates /\ N = 0 .. Size(t) - 1
        /\ w \in [N -> Seq(Bytes)] /\ IsInjective(w)
        /\ w[0] = <<>> /\ \A u \in N : Len(w[u]) <= u
        /\ \A u \in N, b \in Bytes : E[u][b] # -1 => u < E[u][b] /\ w[E[u][b]] = Append(w[u], b)
        /\ \A v \in N \ {0} : \E u \in N, b \in Bytes : E[u][b] = v
    BY <1>1, <1>3 DEF Named
  <2>2. /\ Size(t2) \in 1 .. MaxStates /\ Nodes(t2) = 0 .. Size(t2) - 1
        /\ w \in [Nodes(t2) -> Seq(Bytes)] /\ \A u \in Nodes(t2) : Len(w[u]) <= u
        /\ t2 \in [edges : [Nodes(t2) -> [Bytes -> Nodes(t2) \cup {-1}]], out : [Nodes(t2) -> Seq(Nat)]]
    BY <1>11, <1>12, <2>1
  <2>3. /\ \A u \in Nodes(t2), b \in Bytes :
              t2.edges[u][b] # -1 => u < t2.edges[u][b] /\ w[t2.edges[u][b]] = Append(w[u], b)
        /\ \A v \in Nodes(t2) \ {0} : \E u \in Nodes(t2), b \in Bytes : t2.edges[u][b] = v
    BY <1>10, <1>11, <2>1
  <2> QED BY <2>1, <2>2, <2>3, Zenon DEF Named
<1> QED BY <1>1, <1>3, <1>4, <1>7, <1>9, <1>10, <1>11, <1>13 DEF WithOutputs, SameTree

LEMMA OfKindGrows ==
    ASSUME NEW n \in Nat, NEW k
    PROVE  OfKind(k, n + 1) = OfKind(k, n) \cup (IF patterns[n + 1].kind = k THEN {n + 1} ELSE {})
<1>1. 1 .. n + 1 = 1 .. n \cup {n + 1} OBVIOUS
<1> QED BY <1>1 DEF OfKind

(* A walk of a whole literal enters it, and its pattern's number where it  *)
(* ends.                                                                   *)
Entered(k, t, w, i) == Named(t, w) /\ Spelled(k, w, i) /\ Owned(k, t, w, i)

LEMMA InsertEnters ==
    ASSUME patterns \in Seq(Pattern), NEW n \in Nat, n < Len(patterns), NEW i, i = n + 1,
           NEW k, k = patterns[i].kind, NEW t, NEW w, Entered(k, t, w, n),
           NEW walk, NEW v, Along(t, w, Sought(i), Len(Sought(i)), walk, v)
    PROVE  Entered(k, [walk.t EXCEPT !.out[walk.at] = Append(@, i)], v, i)
<1>1. PICK tr : tr = walk.t OBVIOUS
<1>2. PICK at : at = walk.at OBVIOUS
<1>3. PICK x : x = Sought(i) OBVIOUS
<1>4. i \in 1 .. Len(patterns) /\ i \in Nat /\ n \in 0 .. Len(patterns) BY DEF OfKind
<1>5. x \in Seq(Bytes) /\ Len(x) \in Nat BY <1>3, <1>4, SoughtType
<1>6. SubSeq(x, 1, Len(x)) = x BY <1>5, PrefixEnds
<1>7. /\ Named(tr, v) /\ Nodes(t) \subseteq Nodes(tr) /\ at \in Nodes(tr) /\ v[at] = x
      /\ \A u \in Nodes(t) : v[u] = w[u] /\ tr.out[u] = t.out[u]
      /\ \A u \in Nodes(tr) \ Nodes(t) : tr.out[u] = <<>> /\ \E l \in 0 .. Len(x) : v[u] = SubSeq(x, 1, l)
      /\ \A l \in 0 .. Len(x) : \E u \in Nodes(tr) : v[u] = SubSeq(x, 1, l)
  BY <1>1, <1>2, <1>3, <1>6 DEF Along
<1>8. Named(t, w) /\ Spelled(k, w, n) /\ Owned(k, t, w, n) BY DEF Entered
<1>9. DOMAIN w = Nodes(t) /\ DOMAIN v = Nodes(tr) /\ 0 \in Nodes(t) BY <1>7, <1>8, NamedFacts
<1>10. PICK q : q = Append(tr.out[at], i) OBVIOUS
<1>11. PICK t2 : t2 = [tr EXCEPT !.out[at] = q] OBVIOUS
<1>12. q \in Seq(Nat) /\ tr.out \in [Nodes(tr) -> Seq(Nat)]
  <2>1. tr.out \in [Nodes(tr) -> Seq(Nat)] BY <1>7 DEF Named
  <2> QED BY <1>4, <1>7, <1>10, <2>1
<1>13. /\ Named(t2, v) /\ Nodes(t2) = Nodes(tr) /\ t2.out[at] = q
       /\ \A u \in Nodes(tr) : u # at => t2.out[u] = tr.out[u]
  <2>1. t2 = WithOutputs(tr, at, q) BY <1>11 DEF WithOutputs
  <2>2. SameTree(tr, v, at, q, WithOutputs(tr, at, q)) BY <1>7, <1>12, OutputKeepsNamed
  <2> QED BY <2>1, <2>2 DEF SameTree
<1>14. OfKind(k, i) = OfKind(k, n) \cup {i} /\ i \notin OfKind(k, n)
  <2>1. i \notin 1 .. n OBVIOUS
  <2> QED BY <2>1, OfKindGrows DEF OfKind
<1>15. Spelled(k, v, i)
  <2>1. ASSUME NEW m \in OfKind(k, i), NEW j \in 0 .. Len(Sought(m))
        PROVE  \E s \in DOMAIN v : v[s] = SubSeq(Sought(m), 1, j)
    <3>1. CASE m = i BY <1>3, <1>7, <1>9, <2>1, <3>1
    <3>2. CASE m \in OfKind(k, n)
      <4>1. PICK s \in DOMAIN w : w[s] = SubSeq(Sought(m), 1, j) BY <1>8, <2>1, <3>2 DEF Spelled
      <4> QED BY <1>7, <1>9, <4>1
    <3> QED BY <1>14, <3>1, <3>2
  <2>2. ASSUME NEW s \in DOMAIN v \ {0}
        PROVE  \E m \in OfKind(k, i) : \E j \in 0 .. Len(Sought(m)) : v[s] = SubSeq(Sought(m), 1, j)
    <3>1. CASE s \in Nodes(t)
      <4>1. PICK m \in OfKind(k, n) : \E j \in 0 .. Len(Sought(m)) : w[s] = SubSeq(Sought(m), 1, j)
        BY <1>8, <1>9, <2>2, <3>1 DEF Spelled
      <4> QED BY <1>7, <1>14, <3>1, <4>1
    <3>2. CASE s \notin Nodes(t)
      <4>1. \E l \in 0 .. Len(x) : v[s] = SubSeq(x, 1, l) BY <1>7, <1>9, <3>2
      <4> QED BY <1>3, <1>14, <4>1
    <3> QED BY <3>1, <3>2
  <2> QED BY <2>1, <2>2 DEF Spelled
(* Before: no node entered now was any pattern's.                          *)
<1>16. ASSUME NEW s \in Nodes(tr)
       PROVE  Lists(tr.out[s], {m \in OfKind(k, n) : Sought(m) = v[s]})
  <2>1. CASE s \in Nodes(t)
    <3>1. Lists(t.out[s], {m \in OfKind(k, n) : Sought(m) = w[s]})
      BY <1>8, <2>1 DEF Owned, OutputsOwn
    <3> QED BY <1>7, <2>1, <3>1
  <2>2. CASE s \notin Nodes(t)
    <3>1. ASSUME NEW m \in OfKind(k, n), Sought(m) = v[s] PROVE FALSE
      <4>1. m \in 1 .. Len(patterns) BY <1>4 DEF OfKind
      <4>2. SubSeq(Sought(m), 1, Len(Sought(m))) = Sought(m) /\ Len(Sought(m)) \in 0 .. Len(Sought(m))
        BY <4>1, SoughtType, PrefixEnds
      <4>3. PICK u \in DOMAIN w : w[u] = Sought(m) BY <1>8, <4>2 DEF Spelled
      <4>4. u \in DOMAIN v /\ s \in DOMAIN v /\ v[u] = v[s] BY <1>7, <1>9, <3>1, <4>3
      <4>5. u = s BY <1>7, <4>4 DEF Named, IsInjective
      <4> QED BY <1>9, <2>2, <4>3, <4>5
    <3>2. {m \in OfKind(k, n) : Sought(m) = v[s]} = {} BY <3>1
    <3>3. tr.out[s] = <<>> BY <1>7, <2>2
    <3> QED BY <3>2, <3>3, ListsEmpty
  <2> QED BY <2>1, <2>2
<1>17. ASSUME NEW s \in Nodes(tr)
       PROVE  Lists(t2.out[s], {m \in OfKind(k, i) : Sought(m) = v[s]})
  <2>1. CASE s = at
    <3>1. PICK S : S = {m \in OfKind(k, n) : Sought(m) = v[at]} OBVIOUS
    <3>2. {m \in OfKind(k, i) : Sought(m) = v[at]} = S \cup {i} /\ i \notin S
      BY <1>3, <1>7, <1>14, <3>1
    <3>3. Lists(tr.out[at], S) BY <1>16, <2>1, <3>1
    <3>4. Lists(q, S \cup {i}) BY <1>10, <3>2, <3>3, ListsAppend
    <3> QED BY <1>13, <2>1, <3>2, <3>4
  <2>2. CASE s # at
    <3>1. v[s] # x
      <4>1. s \in DOMAIN v /\ at \in DOMAIN v /\ IsInjective(v) BY <1>7, <1>9 DEF Named
      <4> QED BY <1>7, <2>2, <4>1 DEF IsInjective
    <3>2. {m \in OfKind(k, i) : Sought(m) = v[s]} = {m \in OfKind(k, n) : Sought(m) = v[s]}
      BY <1>3, <1>14, <3>1
    <3> QED BY <1>13, <1>16, <2>2, <3>2
  <2> QED BY <2>1, <2>2
<1>18. Owned(k, t2, v, i) BY <1>13, <1>17 DEF Owned, OutputsOwn
<1> QED BY <1>1, <1>2, <1>10, <1>11, <1>13, <1>15, <1>18 DEF Entered

----------------------------------------------------------------------------
(* finish: the children of a node.                                         *)

Kids(t, s) == {u \in Nodes(t) : \E b \in Bytes : t.edges[s][b] = u}

LEMMA KidsSpell ==
    ASSUME NEW t, NEW w, Named(t, w), NEW s \in Nodes(t), NEW u \in Kids(t, s)
    PROVE  /\ u \in Nodes(t) /\ u # 0 /\ u # s /\ w[s] \in Seq(Bytes)
           /\ Len(w[u]) = Len(w[s]) + 1 /\ Len(w[s]) \in Nat
           /\ \E b \in Bytes : t.edges[s][b] = u /\ w[u] = Append(w[s], b)
           /\ \A p \in Nodes(t) : u \in Kids(t, p) => p = s
<1>1. PICK b \in Bytes : t.edges[s][b] = u BY DEF Kids
<1>2. u \in Nodes(t) /\ u # -1 /\ w[s] \in Seq(Bytes) /\ s \in Nat /\ u \in Nat BY NamedFacts DEF Kids
<1>3. w[u] = Append(w[s], b) /\ s < u /\ Len(w[u]) = Len(w[s]) + 1 BY <1>1, <1>2, EdgeSpells
<1>4. ASSUME NEW p \in Nodes(t), u \in Kids(t, p) PROVE p = s
  <2>1. PICK c \in Bytes : t.edges[p][c] = u BY <1>4 DEF Kids
  <2>2. w[u] = Append(w[p], c) /\ w[p] \in Seq(Bytes)
    <3>1. t.edges[p][c] # -1 BY <1>2, <2>1
    <3>2. w[t.edges[p][c]] = Append(w[p], c) BY <3>1, EdgeSpells
    <3> QED BY <2>1, <3>2, NamedFacts
  <2>3. Append(w[p], c) = Append(w[s], b) BY <1>3, <2>2
  <2>4. w[p] = w[s]
    <3>1. PICK x \in Seq(Bytes) : x = w[p] BY <2>2
    <3>2. PICK y \in Seq(Bytes) : y = w[s] BY <1>2
    <3>3. Append(x, c) = Append(y, b) BY <2>3, <3>1, <3>2
    <3>4. x = y BY <3>3, AppendSame
    <3> QED BY <3>1, <3>2, <3>4
  <2>5. p \in DOMAIN w /\ s \in DOMAIN w /\ IsInjective(w) BY NamedFacts DEF Named
  <2> QED BY <2>4, <2>5 DEF IsInjective
<1>5. u # 0 /\ u # s /\ Len(w[s]) \in Nat BY <1>2, <1>3
<1> QED BY <1>1, <1>2, <1>3, <1>4, <1>5

LEMMA EdgesDiffer ==
    ASSUME NEW t, NEW w, Named(t, w), NEW s \in Nodes(t), NEW b \in Bytes, NEW c \in Bytes,
           t.edges[s][b] = t.edges[s][c], t.edges[s][b] # -1
    PROVE  b = c
<1>1. w[t.edges[s][b]] = Append(w[s], b) BY EdgeSpells
<1>2. t.edges[s][c] # -1 OBVIOUS
<1>3. w[t.edges[s][c]] = Append(w[s], c) BY <1>2, EdgeSpells
<1>4. PICK x \in Seq(Bytes) : x = w[s] BY NamedFacts
<1>5. Append(x, b) = Append(x, c) BY <1>1, <1>3, <1>4
<1> QED BY <1>5, AppendSame

LEMMA ChildrenList ==
    ASSUME NEW t, NEW w, Named(t, w), NEW s \in Nodes(t)
    PROVE  Lists(Children(t, s), Kids(t, s))
<1>1. /\ Nodes(t) = 0 .. Size(t) - 1 /\ -1 \notin Nodes(t) /\ Size(t) \in Nat BY NamedFacts
<1>2. t.edges \in [Nodes(t) -> [Bytes -> Nodes(t) \cup {-1}]] BY DEF Named
<1>3. {t.edges[s][b] : b \in Bytes} \ {-1} = Kids(t, s)
  <2>1. \A b \in Bytes : t.edges[s][b] \in Nodes(t) \cup {-1} BY <1>2
  <2> QED BY <1>1, <2>1 DEF Kids
<1>4. IsFiniteSet(Kids(t, s))
  <2>1. IsFiniteSet(Nodes(t))
    <3>1. PICK m \in Int : m = Size(t) - 1 BY <1>1
    <3>2. IsFiniteSet(0 .. m) BY FS_Interval
    <3> QED BY <1>1, <3>1, <3>2
  <2>2. Kids(t, s) \in SUBSET Nodes(t) BY DEF Kids
  <2> QED BY <2>1, <2>2, FS_Subset
<1> QED BY <1>3, <1>4, SetToSeqLists DEF Children

(* The frontier moves from a node of it to the node's children.            *)
Moves(t, D, r) ==
    /\ Frontier(t, D \cup {r}) = (Frontier(t, D) \ {r}) \cup Kids(t, r)
    /\ (Frontier(t, D) \ {r}) \cap Kids(t, r) = {}
    /\ r \in Nodes(t) \ D

LEMMA FrontierMoves ==
    ASSUME NEW t, NEW w, Named(t, w), NEW q, NEW D, Queued(t, q, w, D), NEW r \in Frontier(t, D)
    PROVE  Moves(t, D, r)
<1>0. D \subseteq Nodes(t) /\ Shallowest(t, w, D) BY DEF Queued
<1>1. r \in Nodes(t) \ D BY DEF Frontier
<1>2. ASSUME NEW u \in Kids(t, r)
      PROVE  u \in Nodes(t) /\ u \notin D \cup {r} /\ u \notin Frontier(t, D)
  <2>1. /\ u \in Nodes(t) /\ u # r /\ Len(w[u]) = Len(w[r]) + 1 /\ Len(w[r]) \in Nat
        /\ \A p \in Nodes(t) : u \in Kids(t, p) => p = r
    BY <1>1, KidsSpell
  <2>2. u \notin D
    <3>1. u \in D => Len(w[u]) <= Len(w[r]) BY <1>0, <1>1 DEF Shallowest
    <3> QED BY <2>1, <3>1
  <2>3. u \notin Frontier(t, D)
    <3>1. \A p \in D : u \notin Kids(t, p) BY <1>0, <1>1, <2>1
    <3> QED BY <2>1, <3>1 DEF Frontier, Kids
  <2> QED BY <2>1, <2>2, <2>3
<1>3. \A u : u \in Frontier(t, D) <=> u \in Nodes(t) \ D /\ \E p \in D : u \in Kids(t, p)
  BY DEF Frontier, Kids
<1>4. \A u : u \in Frontier(t, D \cup {r}) <=>
               u \in Nodes(t) \ (D \cup {r}) /\ \E p \in D \cup {r} : u \in Kids(t, p)
  BY DEF Frontier, Kids
<1>5. \A u : u \in Frontier(t, D \cup {r}) <=> u \in (Frontier(t, D) \ {r}) \cup Kids(t, r)
  BY <1>2, <1>3, <1>4
<1> QED BY <1>1, <1>2, <1>5 DEF Moves

LEMMA EdgeIsLongest ==
    ASSUME NEW t, NEW w, Named(t, w), NEW s \in Nodes(t), NEW b \in Bytes, t.edges[s][b] # -1
    PROVE  Longest(w, t.edges[s][b], Append(w[s], b), Len(w[s]) + 2)
<1>1. PICK u : u = t.edges[s][b] OBVIOUS
<1>2. u \in Nodes(t) /\ w[u] = Append(w[s], b) /\ Len(w[u]) = Len(w[s]) + 1 BY <1>1, EdgeSpells
<1>3. w[u] \in Seq(Bytes) /\ w[s] \in Seq(Bytes) /\ DOMAIN w = Nodes(t) BY <1>2, NamedFacts
<1>4. Ends(w[u], Append(w[s], b)) BY <1>2, <1>3, EndsSelf
<1>5. \A v \in DOMAIN w : Ends(w[v], Append(w[s], b)) => Len(w[v]) <= Len(w[u])
  BY <1>2 DEF Ends
<1>6. Len(w[u]) < Len(w[s]) + 2 BY <1>2, <1>3
<1> QED BY <1>1, <1>2, <1>3, <1>4, <1>5, <1>6 DEF Longest

(* Without an edge, what is longest among the shorter is longest.          *)
LEMMA NoEdgeLongest ==
    ASSUME NEW t, NEW w, Named(t, w), NEW s \in Nodes(t), NEW b \in Bytes, t.edges[s][b] = -1,
           NEW u, Longest(w, u, Append(w[s], b), Len(w[s]) + 1)
    PROVE  Longest(w, u, Append(w[s], b), Len(w[s]) + 2)
<1>1. w[s] \in Seq(Bytes) /\ DOMAIN w = Nodes(t) /\ -1 \notin Nodes(t) BY NamedFacts
<1>2. PICK x : x = Append(w[s], b) OBVIOUS
<1>3. x \in Seq(Bytes) /\ Len(x) = Len(w[s]) + 1 /\ Len(w[s]) \in Nat BY <1>1, <1>2, AppendProperties
<1>4. ASSUME NEW v \in DOMAIN w, Ends(w[v], x) PROVE Len(w[v]) < Len(w[s]) + 1
  <2>1. v \in Nodes(t) /\ w[v] \in Seq(Bytes) BY <1>1, NamedFacts
  <2>2. Len(w[v]) <= Len(x) /\ Len(w[v]) \in Nat BY <1>4, <2>1 DEF Ends
  <2>3. Len(w[v]) # Len(x)
    <3>1. SUFFICES ASSUME Len(w[v]) = Len(x) PROVE FALSE OBVIOUS
    <3>2. w[v] = x BY <1>3, <1>4, <2>1, <3>1, EndsSame
    <3>3. t.edges[s][b] = v BY <1>2, <2>1, <3>2, ChildSpelled
    <3> QED BY <1>1, <2>1, <3>3
  <2> QED BY <1>3, <2>2, <2>3
<1>5. u \in DOMAIN w /\ Ends(w[u], x) /\ Len(w[u]) < Len(w[s]) + 1 BY <1>2 DEF Longest
<1>6. Len(w[u]) < Len(w[s]) + 2
  <2>1. w[u] \in Seq(Bytes) BY <1>1, <1>5, NamedFacts
  <2> QED BY <1>3, <1>5, <2>1
<1>7. \A v \in DOMAIN w : Ends(w[v], x) => Len(w[v]) <= Len(w[u]) BY <1>2, <1>4 DEF Longest
<1> QED BY <1>2, <1>5, <1>6, <1>7 DEF Longest

----------------------------------------------------------------------------
(* finish: what the automaton is after a state is resolved.                *)

Automata(N) == [next : [N -> [Bytes -> N]], fail : [N -> N], queue : Seq(N)]

LEMMA UintSame == ASSUME NEW s \in 0 .. MaxStates - 1 PROVE Uint(s) = s
BY MatcherAssumption DEF Uint

Links(t, d, r, d2) ==
    /\ d2 \in Automata(Nodes(t))
    /\ d2.queue = Tail(d.queue) \o Children(t, r)
    /\ \A b \in Bytes :
          d2.next[r][b] = IF t.edges[r][b] # -1 THEN t.edges[r][b] ELSE d.next[d.fail[r]][b]
    /\ \A s \in Nodes(t) : s # r => d2.next[s] = d.next[s]
    /\ \A s \in Nodes(t) : s \notin Kids(t, r) => d2.fail[s] = d.fail[s]
    /\ \A b \in Bytes : t.edges[r][b] # -1 => d2.fail[t.edges[r][b]] = d.next[d.fail[r]][b]

LEMMA LinkedLinks ==
    ASSUME NEW t, NEW w, Named(t, w), NEW d, d \in Automata(Nodes(t)),
           NEW S, Lists(d.queue, S), S \subseteq Nodes(t), d.queue # <<>>,
           NEW r, r = d.queue[1]
    PROVE  Links(t, d, r, Linked(t, d, r))
<1>1. PICK N : N = Nodes(t) OBVIOUS
<1>2. PICK E : E = t.edges OBVIOUS
<1>3. PICK X : X = d.next OBVIOUS
<1>4. PICK F : F = d.fail OBVIOUS
<1>5. PICK q : q = d.queue OBVIOUS
<1>6. X \in [N -> [Bytes -> N]] /\ F \in [N -> N] /\ q \in Seq(N)
  BY <1>1, <1>3, <1>4, <1>5 DEF Automata
<1>7. r \in N BY <1>1, ListsTail
<1>8. PICK f : f = F[r] OBVIOUS
<1>9. f \in N BY <1>6, <1>7, <1>8
<1>10. /\ E \in [N -> [Bytes -> N \cup {-1}]] /\ N = 0 .. Size(t) - 1 /\ -1 \notin N
       /\ Size(t) \in Nat /\ Size(t) <= MaxStates /\ MaxStates \in Nat
  BY <1>1, <1>2, NamedFacts, MatcherAssumption DEF Named
<1>11. \A s \in N : Uint(s) = s BY <1>10, UintSame
<1>12. \A b \in Bytes : (E[r][b] >= 0 <=> E[r][b] # -1) /\ (E[r][b] # -1 => E[r][b] \in N)
  BY <1>7, <1>10
<1>13. PICK row : row = [b \in Bytes |-> IF E[r][b] >= 0 THEN Uint(E[r][b]) ELSE X[f][b]] OBVIOUS
<1>14. /\ row \in [Bytes -> N]
       /\ \A b \in Bytes : row[b] = IF E[r][b] # -1 THEN E[r][b] ELSE X[f][b]
  BY <1>6, <1>9, <1>11, <1>12, <1>13
<1>15. PICK X2 : X2 = [X EXCEPT ![r] = row] OBVIOUS
<1>16. X2 \in [N -> [Bytes -> N]] /\ X2[r] = row /\ \A s \in N : s # r => X2[s] = X[s]
  BY <1>6, <1>7, <1>14, <1>15
<1>17. PICK F2 : F2 = [s \in N |-> IF \E b \in Bytes : E[r][b] = s
                                   THEN X[f][CHOOSE b \in Bytes : E[r][b] = s] ELSE F[s]]
  OBVIOUS
<1>18. F2 \in [N -> N]
  <2>1. ASSUME NEW s \in N, \E b \in Bytes : E[r][b] = s
        PROVE  X[f][CHOOSE b \in Bytes : E[r][b] = s] \in N
    <3>1. (CHOOSE b \in Bytes : E[r][b] = s) \in Bytes BY <2>1
    <3> QED BY <1>6, <1>9, <3>1
  <2>2. \A s \in N : F2[s] \in N BY <1>6, <1>17, <2>1
  <2> QED BY <1>17, <2>2
<1>19. \A s \in N : s \notin Kids(t, r) => F2[s] = F[s] BY <1>1, <1>2, <1>17 DEF Kids
<1>20. ASSUME NEW b \in Bytes, E[r][b] # -1 PROVE F2[E[r][b]] = X[f][b]
  <2>1. PICK s \in N : s = E[r][b] BY <1>12, <1>20
  <2>2. PICK c : c = CHOOSE a \in Bytes : E[r][a] = s OBVIOUS
  <2>3. c \in Bytes /\ E[r][c] = s BY <2>1, <2>2
  <2>4. c = b
    <3>1. t.edges[r][c] = t.edges[r][b] /\ t.edges[r][c] # -1 /\ r \in Nodes(t)
      BY <1>1, <1>2, <1>7, <1>20, <2>1, <2>3
    <3> QED BY <2>3, <3>1, EdgesDiffer
  <2>5. F2[s] = X[f][c] BY <1>17, <2>1, <2>2, <2>3
  <2> QED BY <2>1, <2>4, <2>5
<1>21. PICK q2 : q2 = Tail(q) \o Children(t, r) OBVIOUS
<1>22. q2 \in Seq(N)
  <2>1. Lists(Children(t, r), Kids(t, r)) BY <1>1, <1>7, ChildrenList
  <2>2. Children(t, r) \in Seq(Kids(t, r)) /\ Kids(t, r) \subseteq N BY <1>1, <2>1, ListsFacts DEF Kids
  <2>3. Children(t, r) \in Seq(N) BY <2>2, SeqMonotonic
  <2>4. Tail(q) \in Seq(N) BY <1>5, <1>6, HeadTailProperties
  <2> QED BY <1>21, <2>3, <2>4, ConcatProperties
<1>23. Linked(t, d, r) = [next |-> X2, fail |-> F2, queue |-> q2]
  <2>1. Linked(t, d, r) =
            [next  |-> [X EXCEPT ![r] = [b \in Bytes |->
                           IF E[r][b] >= 0 THEN Uint(E[r][b]) ELSE X[f][b]]],
             fail  |-> [s \in N |-> IF \E b \in Bytes : E[r][b] = s
                                    THEN X[f][CHOOSE b \in Bytes : E[r][b] = s] ELSE F[s]],
             queue |-> Tail(q) \o Children(t, r)]
    BY <1>1, <1>2, <1>3, <1>4, <1>5, <1>8, Zenon DEF Linked
  <2> QED BY <1>13, <1>15, <1>17, <1>21, <2>1, Zenon
<1>24. PICK d2 : d2 = [next |-> X2, fail |-> F2, queue |-> q2] OBVIOUS
<1>25. d2.next = X2 /\ d2.fail = F2 /\ d2.queue = q2 /\ d2 \in Automata(N)
  BY <1>16, <1>18, <1>22, <1>24 DEF Automata
<1>26. Links(t, d, r, d2)
  BY <1>1, <1>2, <1>3, <1>4, <1>5, <1>8, <1>14, <1>16, <1>19, <1>20, <1>21, <1>25 DEF Links
<1> QED BY <1>23, <1>24, <1>26

(* A state resolved with a resolved fail link goes where it must, and its  *)
(* children fail where they must.                                          *)
LEMMA LinksResolve ==
    ASSUME NEW t, NEW w, Named(t, w), NEW d, NEW D, Queued(t, d.queue, w, D), Resolved(t, d, w, D),
           d.queue # <<>>, NEW r, r = d.queue[1], NEW d2, Links(t, d, r, d2)
    PROVE  /\ d.fail[r] \in D /\ Longest(w, d.fail[r], w[r], Len(w[r]))
           /\ Resolved(t, d2, w, D \cup {r})
<1>1. /\ D \subseteq Nodes(t) /\ Lists(d.queue, Frontier(t, D)) /\ DOMAIN w = Nodes(t)
      /\ \A u \in Nodes(t) \ D : Len(w[r]) <= Len(w[u])
  BY NamedFacts DEF Queued
<1>2. /\ d.queue[1] \in Frontier(t, D) /\ ToSet(d.queue) = Frontier(t, D)
      /\ Lists(Tail(d.queue), Frontier(t, D) \ {r})
  BY <1>1, ListsTail, ListsFacts
<1>3. r \in Nodes(t) \ D BY <1>2 DEF Frontier
<1>4. PICK f : f = d.fail[r] OBVIOUS
<1>5. Longest(w, f, w[r], Len(w[r])) BY <1>2, <1>4 DEF Resolved
<1>6. f \in Nodes(t) /\ w[f] \in Seq(Bytes) /\ w[r] \in Seq(Bytes) /\ Len(w[f]) < Len(w[r])
      /\ Len(w[f]) \in Nat /\ Len(w[r]) \in Nat
  <2>1. f \in Nodes(t) /\ Len(w[f]) < Len(w[r]) BY <1>1, <1>5 DEF Longest
  <2> QED BY <1>3, <2>1, NamedFacts
<1>7. f \in D BY <1>1, <1>6
<1>8. ASSUME NEW b \in Bytes PROVE Longest(w, d.next[f][b], Append(w[r], b), Len(w[r]) + 1)
  <2>1. Longest(w, d.next[f][b], Append(w[f], b), Len(w[f]) + 2) BY <1>7 DEF Resolved
  <2>2. PICK x \in Seq(Bytes) : x = w[r] BY <1>6
  <2>3. PICK m \in Nat : m = Len(w[r]) BY <1>6
  <2>4. Longest(w, f, x, m) BY <1>5, <2>2, <2>3
  <2>5. Longest(w, d.next[f][b], Append(x, b), m + 1) BY <2>1, <2>4, LongestExtends
  <2> QED BY <2>2, <2>3, <2>5
<1>9. ASSUME NEW s \in D \cup {r}, NEW b \in Bytes
      PROVE  Longest(w, d2.next[s][b], Append(w[s], b), Len(w[s]) + 2)
  <2>1. CASE s # r
    <3>1. s \in D /\ s \in Nodes(t) BY <1>1, <2>1
    <3>2. Longest(w, d.next[s][b], Append(w[s], b), Len(w[s]) + 2) BY <3>1 DEF Resolved
    <3> QED BY <2>1, <3>1, <3>2 DEF Links
  <2>2. CASE s = r /\ t.edges[r][b] # -1
    <3>1. d2.next[s][b] = t.edges[r][b] BY <2>2 DEF Links
    <3> QED BY <1>3, <2>2, <3>1, EdgeIsLongest
  <2>3. CASE s = r /\ t.edges[r][b] = -1
    <3>1. d2.next[s][b] = d.next[f][b] BY <1>4, <2>3 DEF Links
    <3>2. Longest(w, d.next[f][b], Append(w[r], b), Len(w[r]) + 2)
      BY <1>3, <1>8, <2>3, NoEdgeLongest
    <3> QED BY <2>3, <3>1, <3>2
  <2> QED BY <2>1, <2>2, <2>3
<1>10. ASSUME NEW u \in ToSet(d2.queue) PROVE Longest(w, d2.fail[u], w[u], Len(w[u]))
  <2>1. u \in (Frontier(t, D) \ {r}) \cup Kids(t, r)
    <3>1. Lists(Children(t, r), Kids(t, r)) BY <1>3, ChildrenList
    <3>2. Moves(t, D, r) BY <1>2, FrontierMoves
    <3>3. Lists(d2.queue, (Frontier(t, D) \ {r}) \cup Kids(t, r))
      <4>1. d2.queue = Tail(d.queue) \o Children(t, r) BY DEF Links
      <4> QED BY <1>2, <3>1, <3>2, <4>1, ListsConcat DEF Moves
    <3> QED BY <1>10, <3>3, ListsFacts
  <2>2. CASE u \in Kids(t, r)
    <3>1. PICK b \in Bytes : t.edges[r][b] = u /\ w[u] = Append(w[r], b) BY <1>3, <2>2, KidsSpell
    <3>2. Len(w[u]) = Len(w[r]) + 1 /\ u \in Nodes(t) BY <1>3, <2>2, KidsSpell
    <3>3. u # -1 BY <3>2, NamedFacts
    <3>4. d2.fail[u] = d.next[f][b] BY <1>4, <3>1, <3>3 DEF Links
    <3> QED BY <1>8, <3>1, <3>2, <3>4
  <2>3. CASE u \notin Kids(t, r)
    <3>1. u \in Frontier(t, D) /\ u \in Nodes(t) BY <2>1, <2>3 DEF Frontier
    <3>2. d2.fail[u] = d.fail[u] BY <2>3, <3>1 DEF Links
    <3> QED BY <1>2, <3>1, <3>2 DEF Resolved
  <2> QED BY <2>2, <2>3
<1>11. d2 \in Automata(Nodes(t)) BY DEF Links
<1>12. Resolved(t, d2, w, D \cup {r}) BY <1>9, <1>10, <1>11 DEF Resolved, Automata
<1> QED BY <1>4, <1>5, <1>7, <1>12

LEMMA QueueMoves ==
    ASSUME NEW t, NEW w, Named(t, w), NEW q, NEW D, Queued(t, q, w, D), q # <<>>, NEW r, r = q[1]
    PROVE  Queued(t, Tail(q) \o Children(t, r), w, D \cup {r})
<1>1. /\ D \subseteq Nodes(t) /\ 0 \in D /\ Lists(q, Frontier(t, D)) /\ Shallowest(t, w, D)
      /\ \A i, j \in 1 .. Len(q) :
            i <= j => Len(w[q[i]]) <= Len(w[q[j]]) /\ Len(w[q[j]]) <= Len(w[q[i]]) + 1
      /\ \A u \in Nodes(t) \ D : Len(w[r]) <= Len(w[u])
  BY DEF Queued
<1>2. PICK a : a = Tail(q) OBVIOUS
<1>3. PICK c : c = Children(t, r) OBVIOUS
<1>4. PICK q2 : q2 = a \o c OBVIOUS
<1>5. PICK F : F = Frontier(t, D) OBVIOUS
<1>6. PICK K : K = Kids(t, r) OBVIOUS
<1>7. /\ r \in F /\ Lists(a, F \ {r}) /\ Len(a) = Len(q) - 1 /\ Len(q) \in Nat \ {0}
      /\ \A i \in 1 .. Len(a) : a[i] = q[i + 1]
  BY <1>1, <1>2, <1>5, ListsTail
<1>8. Moves(t, D, r) BY <1>5, <1>7, FrontierMoves
<1>9. /\ Frontier(t, D \cup {r}) = (F \ {r}) \cup K /\ (F \ {r}) \cap K = {} /\ r \in Nodes(t) \ D
      /\ F \subseteq Nodes(t)
  BY <1>5, <1>6, <1>8 DEF Moves, Frontier
<1>10. Lists(c, K) BY <1>3, <1>6, <1>9, ChildrenList
<1>11. Lists(q2, (F \ {r}) \cup K) BY <1>4, <1>7, <1>9, <1>10, ListsConcat
<1>12. \A u \in Nodes(t) : Len(w[u]) \in Nat
  <2>1. \A u \in Nodes(t) : w[u] \in Seq(Bytes) BY NamedFacts
  <2> QED BY <2>1
<1>13. PICK l \in Nat : l = Len(w[r]) BY <1>9, <1>12
<1>14. \A i \in 1 .. Len(a) : a[i] \in Nodes(t) /\ l <= Len(w[a[i]]) /\ Len(w[a[i]]) <= l + 1
  <2> TAKE i \in 1 .. Len(a)
  <2>1. i + 1 \in 1 .. Len(q) /\ 1 \in 1 .. Len(q) /\ 1 <= i + 1 BY <1>7
  <2>2. Len(w[q[1]]) <= Len(w[q[i + 1]]) /\ Len(w[q[i + 1]]) <= Len(w[q[1]]) + 1 BY <1>1, <2>1
  <2>3. a[i] = q[i + 1] /\ a[i] \in F BY <1>7, ListsFacts
  <2> QED BY <1>9, <1>13, <2>2, <2>3
<1>15. \A i, j \in 1 .. Len(a) : i <= j => Len(w[a[i]]) <= Len(w[a[j]])
  <2> TAKE i, j \in 1 .. Len(a)
  <2> HAVE i <= j
  <2>1. i + 1 \in 1 .. Len(q) /\ j + 1 \in 1 .. Len(q) /\ i + 1 <= j + 1 BY <1>7
  <2>2. Len(w[q[i + 1]]) <= Len(w[q[j + 1]]) BY <1>1, <2>1
  <2> QED BY <1>7, <2>2
<1>16. \A u \in K : u \in Nodes(t) /\ Len(w[u]) = l + 1 BY <1>6, <1>9, <1>13, KidsSpell
<1>17. /\ Len(a) \in Nat /\ Len(c) \in Nat /\ Len(q2) = Len(a) + Len(c)
       /\ \A i \in 1 .. Len(q2) : i <= Len(a) => i \in 1 .. Len(a) /\ q2[i] = a[i]
       /\ \A i \in 1 .. Len(q2) : i > Len(a) => q2[i] \in K
  <2>1. /\ a \in Seq(F \ {r}) /\ c \in Seq(K) /\ Len(a) \in Nat /\ Len(c) \in Nat
        /\ \A i \in 1 .. Len(c) : c[i] \in K
    BY <1>7, <1>10, ListsFacts
  <2>2. PICK U : U = (F \ {r}) \cup K OBVIOUS
  <2>3. a \in Seq(U) BY <2>1, <2>2, SeqMonotonic
  <2>4. c \in Seq(U) BY <2>1, <2>2, SeqMonotonic
  <2>5. /\ Len(q2) = Len(a) + Len(c)
        /\ \A i \in 1 .. Len(a) + Len(c) : q2[i] = IF i <= Len(a) THEN a[i] ELSE c[i - Len(a)]
    BY <1>4, <2>3, <2>4, ConcatProperties
  <2>6. ASSUME NEW i \in 1 .. Len(q2), i > Len(a) PROVE q2[i] \in K
    <3>1. i - Len(a) \in 1 .. Len(c) BY <2>1, <2>5, <2>6
    <3> QED BY <2>1, <2>5, <2>6, <3>1
  <2> QED BY <2>1, <2>5, <2>6
<1>18. ASSUME NEW i \in 1 .. Len(q2) PROVE l <= Len(w[q2[i]]) /\ Len(w[q2[i]]) <= l + 1
  <2>1. CASE i <= Len(a) BY <1>14, <1>17, <2>1
  <2>2. CASE i > Len(a)
    <3>1. Len(w[q2[i]]) = l + 1 BY <1>16, <1>17, <2>2
    <3> QED BY <3>1
  <2> QED BY <1>17, <2>1, <2>2
<1>19. ASSUME NEW i \in 1 .. Len(q2), NEW j \in 1 .. Len(q2), i <= j
       PROVE  Len(w[q2[i]]) <= Len(w[q2[j]]) /\ Len(w[q2[j]]) <= Len(w[q2[i]]) + 1
  <2>0. q2[i] \in Nodes(t) /\ q2[j] \in Nodes(t)
    <3>1. q2[i] \in (F \ {r}) \cup K /\ q2[j] \in (F \ {r}) \cup K BY <1>11, ListsFacts
    <3> QED BY <1>9, <1>16, <3>1
  <2>1. Len(w[q2[i]]) \in Nat /\ Len(w[q2[j]]) \in Nat BY <1>12, <2>0
  <2>2. Len(w[q2[j]]) <= Len(w[q2[i]]) + 1 BY <1>18, <2>1
  <2>3. CASE j <= Len(a)
    <3>1. i \in 1 .. Len(a) /\ j \in 1 .. Len(a) /\ q2[i] = a[i] /\ q2[j] = a[j]
      BY <1>17, <1>19, <2>3
    <3> QED BY <1>15, <1>19, <2>2, <3>1
  <2>4. CASE j > Len(a)
    <3>1. Len(w[q2[j]]) = l + 1 BY <1>16, <1>17, <2>4
    <3> QED BY <1>18, <2>1, <2>2, <3>1
  <2> QED BY <1>17, <2>3, <2>4
<1>20. ASSUME NEW u \in Nodes(t) \ (D \cup {r}), q2 # <<>>
       PROVE  Len(w[q2[1]]) <= Len(w[u])
  <2>1. l <= Len(w[u]) /\ Len(w[u]) \in Nat BY <1>1, <1>12, <1>13, <1>20
  <2>2. 1 \in 1 .. Len(q2)
    <3>1. q2 \in Seq((F \ {r}) \cup K) BY <1>11, ListsFacts
    <3> QED BY <1>20, <3>1
  <2>3. CASE Len(w[u]) >= l + 1
    <3>1. q2[1] \in (F \ {r}) \cup K BY <1>11, <2>2, ListsFacts
    <3>2. Len(w[q2[1]]) \in Nat BY <1>9, <1>12, <1>16, <3>1
    <3> QED BY <1>18, <2>1, <2>2, <2>3, <3>2
  <2>4. CASE Len(w[u]) = l
    <3>1. u # 0 BY <1>1
    <3>2. w[u] # <<>> BY <3>1, OnlyRootEmpty
    <3>3. PICK p \in Nodes(t) : \E b \in Bytes : t.edges[p][b] = u /\ w[u] = Append(w[p], b)
      BY <3>2, ParentSpells
    <3>4. w[p] \in Seq(Bytes) BY NamedFacts
    <3>5. Len(w[p]) < l
      <4>1. Len(w[u]) = Len(w[p]) + 1 BY <3>3, <3>4, AppendProperties
      <4> QED BY <2>4, <3>4, <4>1
    <3>6. p \in D BY <1>1, <1>12, <1>13, <3>5
    <3>7. u \in F BY <1>5, <3>3, <3>6 DEF Frontier
    <3>8. u \in (F \ {r}) \cup K BY <3>7
    <3>9. PICK i \in 1 .. Len(q2) : q2[i] = u BY <1>11, <3>8, ListsFacts
    <3>10. 1 <= i OBVIOUS
    <3> QED BY <1>19, <2>2, <3>9, <3>10
  <2> QED BY <2>1, <2>3, <2>4
<1>21. Shallowest(t, w, D \cup {r}) BY <1>1 DEF Shallowest
<1>22. D \cup {r} \subseteq Nodes(t) /\ 0 \in D \cup {r} BY <1>1, <1>9
<1>23. Queued(t, q2, w, D \cup {r}) BY <1>9, <1>11, <1>19, <1>20, <1>21, <1>22 DEF Queued
<1> QED BY <1>2, <1>3, <1>4, <1>23

(* A state's patterns are its own and those of its fail link.              *)
Joined(k, t, w, n, r, f) ==
    Lists(t.out[r] \o t.out[f], {i \in OfKind(k, n) : Ends(Sought(i), w[r])})

LEMMA OutputsJoin ==
    ASSUME patterns \in Seq(Pattern), NEW n \in 0 .. Len(patterns), NEW k, NEW t, NEW w, Named(t, w),
           Spelled(k, w, n), NEW r \in Nodes(t), NEW f \in Nodes(t), Longest(w, f, w[r], Len(w[r])),
           OutputsOwn(k, t, w, n, r), OutputsAll(k, t, w, n, f)
    PROVE  Joined(k, t, w, n, r, f)
<1>1. PICK A : A = {i \in OfKind(k, n) : Sought(i) = w[r]} OBVIOUS
<1>2. PICK B : B = {i \in OfKind(k, n) : Ends(Sought(i), w[f])} OBVIOUS
<1>3. Lists(t.out[r], A) /\ Lists(t.out[f], B) BY <1>1, <1>2 DEF OutputsOwn, OutputsAll
<1>4. /\ w[r] \in Seq(Bytes) /\ w[f] \in Seq(Bytes) /\ DOMAIN w = Nodes(t)
      /\ Ends(w[f], w[r]) /\ Len(w[f]) < Len(w[r])
  BY NamedFacts DEF Longest
<1>5. \A i \in OfKind(k, n) : Sought(i) \in Seq(Bytes) /\ i \in 1 .. Len(patterns)
  <2>1. \A i \in OfKind(k, n) : i \in 1 .. Len(patterns) BY DEF OfKind
  <2> QED BY <2>1, SoughtType
<1>6. A \cap B = {}
  <2>1. \A i \in B : Len(Sought(i)) <= Len(w[f]) BY <1>2 DEF Ends
  <2>2. Len(w[r]) \in Nat /\ Len(w[f]) \in Nat BY <1>4
  <2> QED BY <1>1, <1>4, <2>1, <2>2
<1>7. A \cup B = {i \in OfKind(k, n) : Ends(Sought(i), w[r])}
  <2>1. ASSUME NEW i \in A PROVE i \in OfKind(k, n) /\ Ends(Sought(i), w[r])
    BY <1>1, <1>4, EndsSelf
  <2>2. ASSUME NEW i \in B PROVE i \in OfKind(k, n) /\ Ends(Sought(i), w[r])
    <3>1. i \in OfKind(k, n) /\ Ends(Sought(i), w[f]) BY <1>2
    <3> QED BY <1>4, <1>5, <3>1, EndsTransitive
  <2>3. ASSUME NEW i \in OfKind(k, n), Ends(Sought(i), w[r]) PROVE i \in A \cup B
    <3>1. Sought(i) \in Seq(Bytes) /\ i \in 1 .. Len(patterns) BY <1>5
    <3>2. Len(Sought(i)) <= Len(w[r]) /\ Len(Sought(i)) \in Nat /\ Len(w[r]) \in Nat
      BY <1>4, <2>3, <3>1 DEF Ends
    <3>3. CASE Len(Sought(i)) = Len(w[r])
      <4>1. Sought(i) = w[r] BY <1>4, <2>3, <3>1, <3>3, EndsSame
      <4> QED BY <1>1, <4>1
    <3>4. CASE Len(Sought(i)) < Len(w[r])
      <4>1. SubSeq(Sought(i), 1, Len(Sought(i))) = Sought(i) /\ Len(Sought(i)) \in 0 .. Len(Sought(i))
        BY <3>1, <3>2, PrefixEnds
      <4>2. PICK v \in DOMAIN w : w[v] = Sought(i) BY <4>1 DEF Spelled
      <4>3. Len(Sought(i)) <= Len(w[f]) BY <2>3, <3>4, <4>2 DEF Longest
      <4>4. Ends(Sought(i), w[f]) BY <1>4, <2>3, <3>1, <4>3, EndsShorter
      <4> QED BY <1>2, <4>4
    <3> QED BY <3>2, <3>3, <3>4
  <2> QED BY <2>1, <2>2, <2>3
<1> QED BY <1>3, <1>6, <1>7, ListsConcat DEF Joined

(* The queue starts with the root's children, which fail to the root.      *)
RootLinks(k, t, w, n) == Linking(k, t, Root(t), w, n, {0})

LEMMA RootLinked ==
    ASSUME patterns \in Seq(Pattern), NEW n \in 0 .. Len(patterns), NEW k, NEW t, NEW w,
           Entered(k, t, w, n), \A i \in OfKind(k, n) : Sought(i) # <<>>
    PROVE  RootLinks(k, t, w, n)
<1>1. Named(t, w) /\ Spelled(k, w, n) /\ Owned(k, t, w, n) BY DEF Entered
<1>2. PICK N : N = Nodes(t) OBVIOUS
<1>3. PICK E : E = t.edges OBVIOUS
<1>4. /\ E \in [N -> [Bytes -> N \cup {-1}]] /\ N = 0 .. Size(t) - 1 /\ -1 \notin N /\ 0 \in N
      /\ Size(t) \in Nat /\ Size(t) <= MaxStates /\ MaxStates \in Nat /\ DOMAIN w = N /\ w[0] = <<>>
      /\ \A s \in N : w[s] \in Seq(Bytes)
  BY <1>1, <1>2, <1>3, NamedFacts, MatcherAssumption DEF Named
<1>5. \A s \in N : Uint(s) = s BY <1>4, UintSame
<1>6. PICK X : X = [s \in N |-> [b \in Bytes |-> IF s = 0 /\ E[0][b] >= 0 THEN Uint(E[0][b]) ELSE 0]]
  OBVIOUS
<1>7. PICK F : F = [s \in N |-> 0] OBVIOUS
<1>8. PICK q : q = Children(t, 0) OBVIOUS
<1>9. PICK d : d = [next |-> X, fail |-> F, queue |-> q] OBVIOUS
<1>10. Root(t) = d BY <1>2, <1>3, <1>6, <1>7, <1>8, <1>9, Zenon DEF Root
<1>11. d.next = X /\ d.fail = F /\ d.queue = q BY <1>9
<1>12. \A b \in Bytes : (E[0][b] >= 0 <=> E[0][b] # -1) /\ (E[0][b] # -1 => E[0][b] \in N)
  <2>1. \A b \in Bytes : E[0][b] \in N \cup {-1} BY <1>4
  <2> QED BY <1>4, <2>1
<1>13. /\ X \in [N -> [Bytes -> N]] /\ F \in [N -> N]
       /\ \A b \in Bytes : X[0][b] = IF E[0][b] # -1 THEN E[0][b] ELSE 0
  BY <1>4, <1>5, <1>6, <1>7, <1>12
<1>14. Lists(q, Kids(t, 0)) BY <1>1, <1>2, <1>4, <1>8, ChildrenList
<1>15. /\ q \in Seq(Kids(t, 0)) /\ ToSet(q) = Kids(t, 0) /\ DOMAIN q = 1 .. Len(q)
       /\ \A i \in 1 .. Len(q) : q[i] \in Kids(t, 0)
  BY <1>14, ListsFacts
<1>16. Kids(t, 0) \subseteq N BY <1>2 DEF Kids
<1>17. q \in Seq(N) BY <1>15, <1>16, SeqMonotonic
<1>18. d \in Automata(N) BY <1>9, <1>13, <1>17 DEF Automata
<1>19. ASSUME NEW u \in Kids(t, 0) PROVE u # 0 /\ Len(w[u]) = 1
  <2>1. PICK s \in Nodes(t) : s = 0 BY <1>2, <1>4
  <2>2. u \in Kids(t, s) BY <1>19, <2>1
  <2>3. u # 0 /\ Len(w[u]) = Len(w[s]) + 1 BY <1>1, <2>2, KidsSpell
  <2> QED BY <1>4, <2>1, <2>3
<1>20. Frontier(t, {0}) = Kids(t, 0)
  <2>1. \A u : u \in Frontier(t, {0}) <=> u \in Nodes(t) \ {0} /\ u \in Kids(t, 0)
    BY DEF Frontier, Kids
  <2> QED BY <1>2, <1>16, <1>19, <2>1
<1>21. ASSUME NEW u \in N \ {0} PROVE 1 <= Len(w[u]) /\ Len(w[u]) \in Nat
  <2>1. w[u] # <<>> /\ w[u] \in Seq(Bytes) BY <1>1, <1>2, <1>4, OnlyRootEmpty
  <2> QED BY <2>1
<1>22. Queued(t, q, w, {0})
  <2>1. \A i \in 1 .. Len(q) : Len(w[q[i]]) = 1 BY <1>15, <1>19
  <2>2. q # <<>> => \A u \in N \ {0} : Len(w[q[1]]) <= Len(w[u])
    <3>1. SUFFICES ASSUME q # <<>>, NEW u \in N \ {0} PROVE Len(w[q[1]]) <= Len(w[u]) OBVIOUS
    <3>2. 1 \in 1 .. Len(q) BY <1>15, <3>1
    <3> QED BY <1>21, <2>1, <3>2
  <2>3. Shallowest(t, w, {0})
    <3>1. Len(w[0]) = 0 BY <1>4
    <3> QED BY <1>2, <1>21, <3>1 DEF Shallowest
  <2>4. \A i, j \in 1 .. Len(q) :
            i <= j => Len(w[q[i]]) <= Len(w[q[j]]) /\ Len(w[q[j]]) <= Len(w[q[i]]) + 1
    BY <2>1
  <2>5. {0} \subseteq Nodes(t) /\ Lists(q, Frontier(t, {0})) BY <1>2, <1>4, <1>14, <1>20
  <2> QED BY <1>2, <2>2, <2>3, <2>4, <2>5 DEF Queued
<1>23. ASSUME NEW b \in Bytes PROVE Longest(w, X[0][b], Append(w[0], b), Len(w[0]) + 2)
  <2>1. CASE E[0][b] # -1
    <3>1. X[0][b] = t.edges[0][b] BY <1>3, <1>13, <2>1
    <3> QED BY <1>1, <1>2, <1>3, <1>4, <2>1, <3>1, EdgeIsLongest
  <2>2. CASE E[0][b] = -1
    <3>1. X[0][b] = 0 BY <1>13, <2>2
    <3>2. PICK x : x = Append(w[0], b) OBVIOUS
    <3>3. x \in Seq(Bytes) BY <1>4, <3>2, AppendProperties
    <3>4. Ends(w[0], x) /\ Len(w[0]) = 0 BY <1>4, <3>3, EndsEmpty
    <3>5. \A v \in DOMAIN w : Len(w[v]) < Len(w[0]) + 1 => Len(w[v]) <= Len(w[0]) BY <1>4, <3>4
    <3>6. Longest(w, 0, Append(w[0], b), Len(w[0]) + 1) BY <1>4, <3>2, <3>4, <3>5 DEF Longest
    <3> QED BY <1>1, <1>2, <1>3, <1>4, <2>2, <3>1, <3>6, NoEdgeLongest
  <2> QED BY <2>1, <2>2
<1>24. ASSUME NEW u \in ToSet(q) PROVE Longest(w, F[u], w[u], Len(w[u]))
  <2>1. u \in N /\ Len(w[u]) = 1 /\ w[u] \in Seq(Bytes) BY <1>4, <1>15, <1>16, <1>19
  <2>2. F[u] = 0 /\ Ends(w[0], w[u]) /\ Len(w[0]) = 0 BY <1>4, <1>7, <2>1, EndsEmpty
  <2>3. \A v \in DOMAIN w : Len(w[v]) < 1 => Len(w[v]) <= 0 BY <1>4
  <2> QED BY <1>4, <2>1, <2>2, <2>3 DEF Longest
<1>25. Resolved(t, d, w, {0}) BY <1>2, <1>11, <1>18, <1>23, <1>24 DEF Resolved, Automata
<1>26. OutputsAll(k, t, w, n, 0)
  <2>1. OutputsOwn(k, t, w, n, 0) BY <1>1, <1>2, <1>4 DEF Owned
  <2>2. ASSUME NEW i \in OfKind(k, n) PROVE Sought(i) # w[0] /\ ~Ends(Sought(i), w[0])
    <3>1. i \in 1 .. Len(patterns) BY DEF OfKind
    <3>2. Sought(i) \in Seq(Bytes) /\ Sought(i) # <<>> BY <3>1, SoughtType
    <3>3. Len(Sought(i)) > 0 /\ Len(w[0]) = 0 BY <1>4, <3>2
    <3> QED BY <1>4, <3>2, <3>3 DEF Ends
  <2>3. {i \in OfKind(k, n) : Sought(i) = w[0]} = {i \in OfKind(k, n) : Ends(Sought(i), w[0])} BY <2>2
  <2> QED BY <2>1, <2>3 DEF OutputsOwn, OutputsAll
<1>27. \A s \in N : IF s \in {0} THEN OutputsAll(k, t, w, n, s) ELSE OutputsOwn(k, t, w, n, s)
  BY <1>1, <1>2, <1>26 DEF Owned
<1>28. Linking(k, t, d, w, n, {0}) BY <1>2, <1>11, <1>22, <1>25, <1>27 DEF Linking
<1> QED BY <1>10, <1>28 DEF RootLinks

(* One state of the queue resolved.                                        *)
Relinked(k, t, d, w, n, D, r) ==
    LET t2 == WithOutputs(t, r, t.out[r] \o t.out[d.fail[r]])
    IN  Named(t2, w) /\ Linking(k, t2, Linked(t, d, r), w, n, D \cup {r})

LEMMA ResolveLinks ==
    ASSUME patterns \in Seq(Pattern), NEW n \in 0 .. Len(patterns), NEW k, NEW t, NEW w, Named(t, w),
           Spelled(k, w, n), NEW d, NEW D, Linking(k, t, d, w, n, D), d.queue # <<>>,
           NEW r, r = Head(d.queue)
    PROVE  Relinked(k, t, d, w, n, D, r)
<1>1. /\ Queued(t, d.queue, w, D) /\ Resolved(t, d, w, D)
      /\ \A s \in Nodes(t) : IF s \in D THEN OutputsAll(k, t, w, n, s) ELSE OutputsOwn(k, t, w, n, s)
  BY DEF Linking
<1>2. D \subseteq Nodes(t) /\ Lists(d.queue, Frontier(t, D)) /\ DOMAIN w = Nodes(t)
  BY <1>1, NamedFacts DEF Queued
<1>3. r = d.queue[1] /\ r \in Frontier(t, D) BY <1>2, ListsTail
<1>4. r \in Nodes(t) \ D /\ Frontier(t, D) \subseteq Nodes(t) BY <1>3 DEF Frontier
<1>5. d \in Automata(Nodes(t)) BY <1>1 DEF Resolved, Automata
<1>6. PICK d2 : d2 = Linked(t, d, r) OBVIOUS
<1>7. Links(t, d, r, d2)
  <2>1. Links(t, d, r, Linked(t, d, r)) BY <1>2, <1>3, <1>4, <1>5, LinkedLinks
  <2> QED BY <1>6, <2>1
<1>8. PICK f : f = d.fail[r] OBVIOUS
<1>9. f \in D /\ Longest(w, f, w[r], Len(w[r])) /\ Resolved(t, d2, w, D \cup {r})
  BY <1>1, <1>3, <1>7, <1>8, LinksResolve
<1>10. Queued(t, d2.queue, w, D \cup {r})
  <2>1. d2.queue = Tail(d.queue) \o Children(t, r) BY <1>7 DEF Links
  <2>2. PICK a : a = d.queue OBVIOUS
  <2>3. Queued(t, a, w, D) /\ a # <<>> /\ r = a[1] BY <1>1, <1>3, <2>2
  <2>4. Queued(t, Tail(a) \o Children(t, r), w, D \cup {r}) BY <2>3, QueueMoves
  <2> QED BY <2>1, <2>2, <2>4
<1>11. PICK q : q = t.out[r] \o t.out[f] OBVIOUS
<1>12. Lists(q, {i \in OfKind(k, n) : Ends(Sought(i), w[r])})
  <2>1. f \in Nodes(t) /\ OutputsOwn(k, t, w, n, r) /\ OutputsAll(k, t, w, n, f)
    BY <1>1, <1>2, <1>4, <1>9
  <2>2. r \in Nodes(t) /\ Longest(w, f, w[r], Len(w[r])) BY <1>4, <1>9
  <2>3. Joined(k, t, w, n, r, f) BY <2>1, <2>2, OutputsJoin
  <2> QED BY <1>11, <2>3 DEF Joined
<1>13. q \in Seq(Nat)
  <2>1. q \in Seq({i \in OfKind(k, n) : Ends(Sought(i), w[r])}) BY <1>12, ListsFacts
  <2>2. {i \in OfKind(k, n) : Ends(Sought(i), w[r])} \subseteq Nat BY DEF OfKind
  <2> QED BY <2>1, <2>2, SeqMonotonic
<1>14. PICK t2 : t2 = WithOutputs(t, r, q) OBVIOUS
<1>15. SameTree(t, w, r, q, t2) BY <1>4, <1>13, <1>14, OutputKeepsNamed
<1>16. /\ Named(t2, w) /\ Nodes(t2) = Nodes(t) /\ t2.edges = t.edges
       /\ t2.out[r] = q /\ \A u \in Nodes(t) : u # r => t2.out[u] = t.out[u]
  BY <1>15 DEF SameTree
<1>17. /\ Frontier(t2, D \cup {r}) = Frontier(t, D \cup {r})
       /\ Shallowest(t2, w, D \cup {r}) <=> Shallowest(t, w, D \cup {r})
  BY <1>16 DEF Frontier, Shallowest
<1>18. Queued(t2, d2.queue, w, D \cup {r}) BY <1>10, <1>16, <1>17 DEF Queued
<1>19. Resolved(t2, d2, w, D \cup {r}) BY <1>9, <1>16 DEF Resolved
<1>20. \A s \in Nodes(t2) : IF s \in D \cup {r} THEN OutputsAll(k, t2, w, n, s) ELSE OutputsOwn(k, t2, w, n, s)
  <2> TAKE s \in Nodes(t2)
  <2>1. CASE s = r BY <1>12, <1>16, <2>1 DEF OutputsAll
  <2>2. CASE s # r BY <1>1, <1>16, <2>2 DEF OutputsAll, OutputsOwn
  <2> QED BY <2>1, <2>2
<1>21. Linking(k, t2, d2, w, n, D \cup {r}) BY <1>18, <1>19, <1>20 DEF Linking
<1> QED BY <1>6, <1>8, <1>11, <1>14, <1>16, <1>21 DEF Relinked

(* When nothing is queued every state is resolved.                         *)
LEMMA AllDone ==
    ASSUME NEW t, NEW w, Named(t, w), NEW D, Queued(t, <<>>, w, D)
    PROVE  D = Nodes(t)
<1>1. D \subseteq Nodes(t) /\ 0 \in D /\ Lists(<<>>, Frontier(t, D)) BY DEF Queued
<1>2. Frontier(t, D) = {}
  <2>1. \A x \in Frontier(t, D) : \E i \in 1 .. Len(<<>>) : <<>>[i] = x BY <1>1, ListsFacts
  <2> QED BY <2>1
<1>3. \A u \in Nodes(t) : u \in Nat BY NamedFacts
<1> DEFINE P == {n \in Nat : \A u \in Nodes(t) : u < n => u \in D}
<1>4. 0 \in P BY <1>3
<1>5. ASSUME NEW n \in Nat, n \in P PROVE n + 1 \in P
  <2> SUFFICES ASSUME NEW u \in Nodes(t), u < n + 1 PROVE u \in D OBVIOUS
  <2>1. CASE u = 0 BY <1>1, <2>1
  <2>2. CASE u # 0
    <3>1. w[u] # <<>> BY <2>2, OnlyRootEmpty
    <3>2. PICK s \in Nodes(t), b \in Bytes : t.edges[s][b] = u BY <3>1, ParentSpells
    <3>3. u # -1 BY NamedFacts
    <3>4. t.edges[s][b] # -1 BY <3>2, <3>3
    <3>5. s < u BY <3>2, <3>4, EdgeSpells
    <3>6. s \in D BY <1>3, <1>5, <3>5
    <3> QED BY <1>2, <3>2, <3>6 DEF Frontier
  <2> QED BY <2>1, <2>2
<1>6. Nat \subseteq P
  <2> HIDE DEF P
  <2> QED BY <1>4, <1>5, Inductive
<1>7. ASSUME NEW u \in Nodes(t) PROVE u \in D
  <2>1. u + 1 \in P /\ u < u + 1 BY <1>3, <1>6
  <2> QED BY <2>1
<1> QED BY <1>1, <1>7

----------------------------------------------------------------------------
(* Scan: the text read so far and one byte of it.                          *)

LEMMA TranslatedAppend ==
    ASSUME NEW k, NEW x \in Seq(Bytes), NEW b \in Bytes
    PROVE  Translated(k, Append(x, b)) = Append(Translated(k, x), Tab(k, b))
<1>1. PICK y : y = Append(x, b) OBVIOUS
<1>2. y \in Seq(Bytes) /\ Len(y) = Len(x) + 1 /\ y[Len(x) + 1] = b /\ \A i \in 1 .. Len(x) : y[i] = x[i]
  BY <1>1, AppendProperties
<1>3. PICK u : u = Translated(k, y) OBVIOUS
<1>4. PICK v : v = Translated(k, x) OBVIOUS
<1>5. u \in Seq(Bytes) /\ Len(u) = Len(x) + 1 /\ \A i \in 1 .. Len(x) + 1 : u[i] = Tab(k, y[i])
  BY <1>2, <1>3, TranslatedType
<1>6. v \in Seq(Bytes) /\ Len(v) = Len(x) /\ Len(x) \in Nat /\ \A i \in 1 .. Len(x) : v[i] = Tab(k, x[i])
  BY <1>4, TranslatedType
<1>7. PICK c \in Bytes : c = Tab(k, b) BY MatcherAssumption DEF Tab
<1>8. PICK z : z = Append(v, c) OBVIOUS
<1>9. z \in Seq(Bytes) /\ Len(z) = Len(x) + 1 /\ z[Len(x) + 1] = c /\ \A i \in 1 .. Len(x) : z[i] = v[i]
  BY <1>6, <1>8, AppendProperties
<1>10. \A i \in 1 .. Len(u) : u[i] = z[i]
  <2> TAKE i \in 1 .. Len(u)
  <2>1. CASE i = Len(x) + 1 BY <1>2, <1>5, <1>6, <1>7, <1>9, <2>1
  <2>2. CASE i \in 1 .. Len(x) BY <1>2, <1>5, <1>6, <1>9, <2>2
  <2> QED BY <1>5, <1>6, <2>1, <2>2
<1>11. u = z BY <1>5, <1>9, <1>10, SeqEqual
<1> QED BY <1>1, <1>3, <1>4, <1>7, <1>8, <1>11

(* An occurrence, byte for byte.                                           *)
ByteForByte(p, text, end) ==
    /\ Len(p.literal) <= end
    /\ \A i \in 1 .. Len(p.literal) :
          Tab(p.kind, text[(end - Len(p.literal)) + i]) = Tab(p.kind, p.literal[i])

LEMMA OccursByByte ==
    ASSUME NEW p \in Pattern, NEW text \in Seq(Bytes), NEW end \in 1 .. Len(text)
    PROVE  OccursEnding(p, text, end) <=> ByteForByte(p, text, end)
<1>1. PICK k : k = p.kind OBVIOUS
<1>2. PICK y \in Seq(Bytes) : y = p.literal BY DEF Pattern
<1>3. PICK n \in Nat : n = Len(y) OBVIOUS
<1>4. SUFFICES ASSUME n <= end PROVE OccursEnding(p, text, end) <=> ByteForByte(p, text, end)
  BY <1>2, <1>3 DEF OccursEnding, ByteForByte
<1>5. PICK s : s = SubSeq(text, end - n + 1, end) OBVIOUS
<1>6. s \in Seq(Bytes) /\ Len(s) = n /\ \A i \in 1 .. n : s[i] = text[(end - n) + i]
  <2>1. PICK m \in Int : m = end - n + 1 OBVIOUS
  <2>2. \A i \in m .. end : text[i] \in Bytes
    <3>1. \A i \in m .. end : i \in 1 .. Len(text) BY <1>3, <1>4, <2>1
    <3> QED BY <3>1, ElementOfSeq
  <2>3. /\ s \in Seq(Bytes) /\ Len(s) = IF m <= end THEN end - m + 1 ELSE 0
        /\ \A i \in 1 .. end - m + 1 : s[i] = text[m + i - 1]
    BY <1>5, <2>1, <2>2, SubSeqProperties
  <2>4. end - m + 1 = n /\ \A i \in 1 .. n : m + i - 1 = (end - n) + i BY <1>3, <2>1
  <2> QED BY <1>3, <1>4, <2>1, <2>3, <2>4
<1>7. PICK u : u = Translated(k, s) OBVIOUS
<1>8. PICK v : v = Translated(k, y) OBVIOUS
<1>9. /\ u \in Seq(Bytes) /\ Len(u) = n /\ v \in Seq(Bytes) /\ Len(v) = n
      /\ \A i \in 1 .. n : u[i] = Tab(k, s[i]) /\ v[i] = Tab(k, y[i])
  BY <1>2, <1>3, <1>6, <1>7, <1>8, TranslatedType
<1>10. u = v <=> \A i \in 1 .. n : u[i] = v[i] BY <1>9, SeqEqual
<1>11. OccursEnding(p, text, end) <=> u = v
  BY <1>1, <1>2, <1>3, <1>4, <1>5, <1>7, <1>8 DEF OccursEnding
<1>12. ByteForByte(p, text, end) <=> \A i \in 1 .. n : Tab(k, text[(end - n) + i]) = Tab(k, y[i])
  BY <1>1, <1>2, <1>3, <1>4 DEF ByteForByte
<1> QED BY <1>6, <1>9, <1>10, <1>11, <1>12

(* What occurs in a text after one more byte, at an end before it and at   *)
(* the byte.                                                               *)
LEMMA OccursBefore ==
    ASSUME NEW p \in Pattern, NEW text \in Seq(Bytes), NEW b \in Bytes, NEW end \in 1 .. Len(text)
    PROVE  OccursEnding(p, Append(text, b), end) <=> OccursEnding(p, text, end)
<1>1. PICK y : y = Append(text, b) OBVIOUS
<1>2. y \in Seq(Bytes) /\ Len(y) = Len(text) + 1 /\ \A i \in 1 .. Len(text) : y[i] = text[i]
  BY <1>1, AppendProperties
<1>3. end \in 1 .. Len(y) BY <1>2
<1>4. PICK n \in Nat : n = Len(p.literal) BY DEF Pattern
<1>5. n <= end => \A i \in 1 .. n : y[(end - n) + i] = text[(end - n) + i]
  <2>1. n <= end => \A i \in 1 .. n : (end - n) + i \in 1 .. Len(text) BY <1>4
  <2> QED BY <1>2, <2>1
<1>6. ByteForByte(p, y, end) <=> ByteForByte(p, text, end) BY <1>4, <1>5 DEF ByteForByte
<1> QED BY <1>1, <1>2, <1>3, <1>6, OccursByByte

LEMMA OccursNow ==
    ASSUME NEW p \in Pattern, NEW text \in Seq(Bytes), NEW b \in Bytes
    PROVE  OccursEnding(p, Append(text, b), Len(text) + 1)
               <=> Ends(Translated(p.kind, p.literal), Append(Translated(p.kind, text), Tab(p.kind, b)))
<1>1. PICK y : y = Append(text, b) OBVIOUS
<1>2. y \in Seq(Bytes) /\ Len(y) = Len(text) + 1 /\ Len(y) \in 1 .. Len(y)
  BY <1>1, AppendProperties
<1>3. PICK k : k = p.kind OBVIOUS
<1>4. PICK l \in Seq(Bytes) : l = p.literal BY DEF Pattern
<1>5. PICK s : s = Translated(k, l) OBVIOUS
<1>6. PICK x : x = Translated(k, y) OBVIOUS
<1>7. /\ Len(s) = Len(l) /\ \A i \in 1 .. Len(l) : s[i] = Tab(k, l[i])
      /\ Len(x) = Len(y) /\ \A i \in 1 .. Len(y) : x[i] = Tab(k, y[i])
  BY <1>2, <1>5, <1>6, TranslatedType
<1>8. Len(l) \in Nat /\ Len(y) \in Nat BY <1>2
<1>9. Len(l) <= Len(y) => \A i \in 1 .. Len(l) : (Len(y) - Len(l)) + i \in 1 .. Len(y) BY <1>8
<1>10. Ends(s, x) <=> ByteForByte(p, y, Len(y))
  <2>1. Len(s) = Len(l) /\ Len(x) = Len(y) BY <1>7
  <2>2. Len(l) <= Len(y) => \A i \in 1 .. Len(l) :
            s[i] = Tab(k, l[i]) /\ x[(Len(y) - Len(l)) + i] = Tab(k, y[(Len(y) - Len(l)) + i])
    BY <1>7, <1>9
  <2>3. Ends(s, x) <=> Len(l) <= Len(y) /\ \A i \in 1 .. Len(l) : s[i] = x[(Len(y) - Len(l)) + i]
    BY <2>1 DEF Ends
  <2>4. ByteForByte(p, y, Len(y)) <=>
            Len(l) <= Len(y) /\ \A i \in 1 .. Len(l) : Tab(k, y[(Len(y) - Len(l)) + i]) = Tab(k, l[i])
    BY <1>3, <1>4 DEF ByteForByte
  <2> QED BY <2>2, <2>3, <2>4
<1>11. x = Append(Translated(k, text), Tab(k, b)) BY <1>1, <1>6, TranslatedAppend
<1>12. OccursEnding(p, y, Len(y)) <=> ByteForByte(p, y, Len(y)) BY <1>2, OccursByByte
<1> QED BY <1>1, <1>2, <1>3, <1>4, <1>5, <1>10, <1>11, <1>12

(* What a pattern's occurrences are made of.                               *)
Ending(k, text, end) == {i \in OfKind(k, Len(patterns)) : OccursEnding(patterns[i], text, end)}
At(S, end) == {[pattern |-> i, end |-> end] : i \in S}

LEMMA OccurrencesGrow ==
    ASSUME patterns \in Seq(Pattern), NEW text \in Seq(Bytes), NEW b \in Bytes
    PROVE  LET end  == Len(text) + 1
               more == Append(text, b)
           IN  Occurrences(patterns, more) = (Occurrences(patterns, text) \cup At(Ending("exact", more, end), end))
                                                 \cup At(Ending("fold", more, end), end)
<1>1. PICK more : more = Append(text, b) OBVIOUS
<1>2. PICK n \in Nat : n = Len(text) OBVIOUS
<1>3. PICK end \in Nat : end = n + 1 OBVIOUS
<1>4. more \in Seq(Bytes) /\ Len(more) = end BY <1>1, <1>2, <1>3, AppendProperties
<1>5. DOMAIN patterns = 1 .. Len(patterns) /\ 1 .. end = 1 .. n \cup {end} BY <1>2, <1>3
<1>6. PICK Old : Old = Occurrences(patterns, text) OBVIOUS
<1>7. PICK All : All = Occurrences(patterns, more) OBVIOUS
<1>8. \A i \in 1 .. Len(patterns) : patterns[i].kind \in Kinds /\ patterns[i] \in Pattern BY SoughtType
<1>9. \A i \in 1 .. Len(patterns), e \in 1 .. n :
          OccursEnding(patterns[i], more, e) <=> OccursEnding(patterns[i], text, e)
  BY <1>1, <1>2, <1>8, OccursBefore
<1>10. \A i, e : i \in Ending("exact", more, e) \/ i \in Ending("fold", more, e)
                    <=> i \in 1 .. Len(patterns) /\ OccursEnding(patterns[i], more, e)
  BY <1>8 DEF Ending, OfKind, Kinds
<1>11. ASSUME NEW m \in All
       PROVE  m \in Old \/ m \in At(Ending("exact", more, end), end) \/ m \in At(Ending("fold", more, end), end)
  <2>1. /\ m \in [pattern : 1 .. Len(patterns), end : 1 .. end]
        /\ OccursEnding(patterns[m.pattern], more, m.end)
    BY <1>4, <1>5, <1>7, <1>11 DEF Occurrences
  <2>2. CASE m.end = end
    <3>1. m = [pattern |-> m.pattern, end |-> end] BY <2>1, <2>2
    <3>2. m.pattern \in Ending("exact", more, end) \/ m.pattern \in Ending("fold", more, end)
      BY <1>10, <2>1, <2>2
    <3> QED BY <3>1, <3>2 DEF At
  <2>3. CASE m.end \in 1 .. n
    <3>1. OccursEnding(patterns[m.pattern], text, m.end) BY <1>9, <2>1, <2>3
    <3>2. m \in [pattern : 1 .. Len(patterns), end : 1 .. n] BY <2>1, <2>3
    <3> QED BY <1>2, <1>5, <1>6, <3>1, <3>2 DEF Occurrences
  <2> QED BY <1>5, <2>1, <2>2, <2>3
<1>12. ASSUME NEW m \in Old PROVE m \in All
  <2>1. /\ m \in [pattern : 1 .. Len(patterns), end : 1 .. n]
        /\ OccursEnding(patterns[m.pattern], text, m.end)
    BY <1>2, <1>5, <1>6, <1>12 DEF Occurrences
  <2>2. OccursEnding(patterns[m.pattern], more, m.end) BY <1>9, <2>1
  <2>3. m \in [pattern : 1 .. Len(patterns), end : 1 .. end] BY <1>5, <2>1
  <2> QED BY <1>4, <1>5, <1>7, <2>2, <2>3 DEF Occurrences
<1>13. ASSUME NEW m, m \in At(Ending("exact", more, end), end) \/ m \in At(Ending("fold", more, end), end)
       PROVE  m \in All
  <2>1. PICK i : /\ m = [pattern |-> i, end |-> end]
                 /\ i \in Ending("exact", more, end) \/ i \in Ending("fold", more, end)
    BY <1>13 DEF At
  <2>2. i \in 1 .. Len(patterns) /\ OccursEnding(patterns[i], more, end) BY <1>10, <2>1
  <2>3. m \in [pattern : 1 .. Len(patterns), end : 1 .. end] /\ m.pattern = i /\ m.end = end
    BY <1>5, <2>1, <2>2
  <2> QED BY <1>4, <1>5, <1>7, <2>2, <2>3 DEF Occurrences
<1>14. All = (Old \cup At(Ending("exact", more, end), end)) \cup At(Ending("fold", more, end), end)
  BY <1>11, <1>12, <1>13
<1> QED BY <1>1, <1>2, <1>3, <1>6, <1>7, <1>14

(* One half of the State and one byte.                                     *)
Ready(k, words, done) ==
    k \in PatternKinds =>
        /\ Named(trie[k], words[k]) /\ Spelled(k, words[k], Len(patterns))
        /\ Linking(k, trie[k], dfa[k], words[k], Len(patterns), done[k]) /\ dfa[k].queue = <<>>
Stands(k, words, s, text) ==
    IF k \in PatternKinds THEN Longest(words[k], s, Translated(k, text), Len(text) + 1) ELSE s = 0
Stepped(k, words, v, text, end) ==
    /\ v \in 0 .. MaxStates - 1 /\ Stands(k, words, v, text)
    /\ Lists(Outputs(k, v), Ending(k, text, end))

LEMMA AdvanceStands ==
    ASSUME patterns \in Seq(Pattern), DOMAIN dfa = PatternKinds, NEW k \in Kinds, NEW words, NEW done,
           Ready(k, words, done), NEW text \in Seq(Bytes), NEW b \in Bytes,
           NEW s, Stands(k, words, s, text)
    PROVE  Stepped(k, words, Advance(k, s, b), Append(text, b), Len(text) + 1)
<1>1. PICK more : more = Append(text, b) OBVIOUS
<1>2. PICK end \in Nat : end = Len(text) + 1 OBVIOUS
<1>3. more \in Seq(Bytes) /\ Len(more) = end BY <1>1, <1>2, AppendProperties
<1>4. CASE k \notin PatternKinds
  <2>1. Advance(k, s, b) = 0 /\ Outputs(k, 0) = <<>> BY <1>4 DEF Advance, Outputs, Stands
  <2>2. Ending(k, more, end) = {} BY <1>4 DEF Ending, OfKind, PatternKinds
  <2>3. 0 \in 0 .. MaxStates - 1 BY MatcherAssumption
  <2> QED BY <1>1, <1>2, <1>4, <2>1, <2>2, <2>3, ListsEmpty DEF Stepped, Stands
<1>5. CASE k \in PatternKinds
  <2>1. PICK t : t = trie[k] OBVIOUS
  <2>2. PICK w : w = words[k] OBVIOUS
  <2>3. PICK d : d = dfa[k] OBVIOUS
  <2>4. PICK D : D = done[k] OBVIOUS
  <2>5. PICK n \in Nat : n = Len(patterns) OBVIOUS
  <2>6. /\ Named(t, w) /\ Spelled(k, w, n) /\ Queued(t, d.queue, w, D) /\ Resolved(t, d, w, D)
        /\ d.queue = <<>>
        /\ \A u \in Nodes(t) : IF u \in D THEN OutputsAll(k, t, w, n, u) ELSE OutputsOwn(k, t, w, n, u)
    BY <1>5, <2>1, <2>2, <2>3, <2>4, <2>5 DEF Ready, Linking
  <2>7. D = Nodes(t) /\ DOMAIN w = Nodes(t)
    <3>1. Queued(t, <<>>, w, D) BY <2>6
    <3> QED BY <2>6, <3>1, AllDone, NamedFacts
  <2>8. PICK x : x = Translated(k, text) OBVIOUS
  <2>9. PICK c \in Bytes : c = Tab(k, b) BY MatcherAssumption DEF Tab
  <2>10. x \in Seq(Bytes) /\ Len(x) = Len(text) /\ Len(text) \in Nat BY <2>8, TranslatedType
  <2>11. Longest(w, s, x, end) BY <1>2, <1>5, <2>2, <2>8 DEF Stands
  <2>12. s \in Nodes(t) BY <2>7, <2>11 DEF Longest
  <2>13. PICK v : v = d.next[s][c] OBVIOUS
  <2>14. Longest(w, v, Append(w[s], c), Len(w[s]) + 2) BY <2>6, <2>7, <2>12, <2>13 DEF Resolved
  <2>15. PICK y : y = Append(x, c) OBVIOUS
  <2>16. y \in Seq(Bytes) /\ Len(y) = end BY <1>2, <2>10, <2>15, AppendProperties
  <2>17. Longest(w, v, y, end + 1) BY <2>6, <2>10, <2>11, <2>14, <2>15, LongestExtends
  <2>18. /\ v \in Nodes(t) /\ Ends(w[v], y) /\ Len(w[v]) < end + 1
         /\ \A u \in DOMAIN w : Ends(w[u], y) /\ Len(w[u]) < end + 1 => Len(w[u]) <= Len(w[v])
    BY <2>7, <2>17 DEF Longest
  <2>19. Translated(k, more) = y BY <1>1, <2>8, <2>9, <2>15, TranslatedAppend
  <2>20. w[v] \in Seq(Bytes) /\ v \in 0 .. MaxStates - 1
    <3>1. Nodes(t) = 0 .. Size(t) - 1 /\ Size(t) <= MaxStates /\ Size(t) \in Nat BY <2>6, NamedFacts
    <3>2. w[v] \in Seq(Bytes) BY <2>6, <2>18, NamedFacts
    <3> QED BY <2>18, <3>1, <3>2, MatcherAssumption
  <2>21. ASSUME NEW i \in OfKind(k, n)
         PROVE  Ends(Sought(i), w[v]) <=> OccursEnding(patterns[i], more, end)
    <3>1. i \in 1 .. Len(patterns) /\ patterns[i].kind = k BY <2>5, <2>21 DEF OfKind
    <3>2. PICK z \in Seq(Bytes) : z = Sought(i) BY <3>1, SoughtType
    <3>3. patterns[i] \in Pattern /\ z = Translated(k, patterns[i].literal) BY <3>1, <3>2, SoughtType DEF Sought
    <3>4. OccursEnding(patterns[i], more, end) <=> Ends(z, y)
      BY <1>1, <1>2, <2>8, <2>9, <2>15, <3>1, <3>3, OccursNow
    <3>5. Ends(z, w[v]) => Ends(z, y) BY <2>16, <2>18, <2>20, EndsTransitive
    <3>6. ASSUME Ends(z, y) PROVE Ends(z, w[v])
      <4>1. SubSeq(z, 1, Len(z)) = z /\ Len(z) \in 0 .. Len(z) /\ Len(z) \in Nat BY PrefixEnds
      <4>2. PICK u \in DOMAIN w : w[u] = z BY <2>6, <2>21, <3>2, <4>1 DEF Spelled
      <4>3. Len(z) < end + 1 BY <2>16, <3>6, <4>1 DEF Ends
      <4>4. Len(z) <= Len(w[v]) BY <2>18, <3>6, <4>2, <4>3
      <4> QED BY <2>16, <2>18, <2>20, <3>6, <4>4, EndsShorter
    <3> QED BY <3>2, <3>4, <3>5, <3>6
  <2>22. Lists(t.out[v], {i \in OfKind(k, n) : Ends(Sought(i), w[v])})
    BY <2>6, <2>7, <2>18 DEF OutputsAll
  <2>23. {i \in OfKind(k, n) : Ends(Sought(i), w[v])} = Ending(k, more, end)
    BY <2>5, <2>21 DEF Ending
  <2>24. Advance(k, s, b) = v /\ Outputs(k, v) = t.out[v]
    BY <1>5, <2>1, <2>3, <2>9, <2>13 DEF Advance, Outputs
  <2>25. Stands(k, words, v, more) BY <1>3, <1>5, <2>2, <2>17, <2>19 DEF Stands
  <2>26. Lists(t.out[v], Ending(k, more, end)) BY <2>22, <2>23
  <2>27. Stepped(k, words, v, more, end) BY <2>20, <2>24, <2>25, <2>26 DEF Stepped
  <2> QED BY <1>1, <1>2, <2>24, <2>27
<1> QED BY <1>4, <1>5

(* The calls of fn for one half.                                           *)
Calling(outs, end) == [i \in DOMAIN outs |-> [pattern |-> outs[i], end |-> end]]

LEMMA CallingLists ==
    ASSUME NEW outs, NEW S, Lists(outs, S), NEW end
    PROVE  /\ Lists(Calling(outs, end), At(S, end))
           /\ \A i \in 1 .. Len(Calling(outs, end)) : Calling(outs, end)[i].end = end
<1>1. /\ DOMAIN outs = 1 .. Len(outs) /\ Len(outs) \in Nat /\ \A i \in 1 .. Len(outs) : outs[i] \in S
      /\ \A x \in S : \E i \in 1 .. Len(outs) : outs[i] = x
      /\ \A i, j \in 1 .. Len(outs) : outs[i] = outs[j] => i = j
  BY ListsFacts
<1>2. PICK n \in Nat : n = Len(outs) BY <1>1
<1>3. PICK q : q = Calling(outs, end) OBVIOUS
<1>4. q = [i \in 1 .. n |-> [pattern |-> outs[i], end |-> end]] BY <1>1, <1>2, <1>3 DEF Calling
<1>5. \A i \in 1 .. n : [pattern |-> outs[i], end |-> end] \in At(S, end) BY <1>1, <1>2 DEF At
<1>6. q \in [1 .. n -> At(S, end)] BY <1>4, <1>5
<1>7. q \in Seq(At(S, end)) /\ Len(q) = n BY <1>2, <1>6
<1>8. \A i \in 1 .. n : q[i] = [pattern |-> outs[i], end |-> end] BY <1>4
<1>9. \A x \in At(S, end) : \E i \in 1 .. Len(q) : q[i] = x
  <2> TAKE x \in At(S, end)
  <2>1. PICK p \in S : x = [pattern |-> p, end |-> end] BY DEF At
  <2>2. PICK i \in 1 .. n : outs[i] = p BY <1>1, <1>2
  <2> QED BY <1>7, <1>8, <2>1, <2>2
<1>10. \A i, j \in 1 .. Len(q) : q[i] = q[j] => i = j
  <2> TAKE i, j \in 1 .. Len(q)
  <2> HAVE q[i] = q[j]
  <2>1. q[i].pattern = outs[i] /\ q[j].pattern = outs[j] BY <1>7, <1>8
  <2> QED BY <1>1, <1>2, <1>7, <2>1
<1>11. \A i \in 1 .. Len(q) : q[i] \in At(S, end) BY <1>6, <1>7
<1>12. Lists(q, At(S, end)) BY <1>7, <1>9, <1>10, <1>11, ListsBy
<1> QED BY <1>3, <1>7, <1>8, <1>12

LEMMA HalfOfPack ==
    ASSUME NEW es \in 0 .. MaxStates - 1, NEW fs \in 0 .. MaxStates - 1
    PROVE  Half("exact", Pack(es, fs)) = es /\ Half("fold", Pack(es, fs)) = fs /\ Pack(es, fs) \in Nat
<1>1. MaxStates \in Nat /\ MaxStates > 0 BY MatcherAssumption
<1>2. (es + fs * MaxStates) % MaxStates = es /\ (es + fs * MaxStates) \div MaxStates = fs BY <1>1
<1>3. es + fs * MaxStates \in Nat BY <1>1
<1> QED BY <1>2, <1>3 DEF Half, Pack

----------------------------------------------------------------------------
(* What a step that leaves the patterns alone leaves alone.                *)

LEMMA SpelledSame ==
    ASSUME NEW k, NEW w, NEW n, NEW t, patterns' = patterns
    PROVE  /\ Spelled(k, w, n)' <=> Spelled(k, w, n)
           /\ Owned(k, t, w, n)' <=> Owned(k, t, w, n)
BY DEF Spelled, Owned, OutputsOwn, OfKind, Sought

LEMMA LinkingSame ==
    ASSUME NEW k, NEW w, NEW n, NEW t, NEW d, NEW D, patterns' = patterns
    PROVE  Linking(k, t, d, w, n, D)' <=> Linking(k, t, d, w, n, D)
BY DEF Linking, OutputsAll, OutputsOwn, OfKind, Sought

LEMMA KindsSame ==
    ASSUME patterns' = patterns
    PROVE  PatternKinds' = PatternKinds
BY DEF PatternKinds

LEMMA BuildingSame ==
    ASSUME NEW words, Building(words), UNCHANGED <<patterns, inserted, trie>>
    PROVE  Building(words)'
<1>1. PatternKinds' = PatternKinds BY KindsSame
<1>2. ASSUME NEW k PROVE Spelled(k, words[k], inserted)' <=> Spelled(k, words[k], inserted)
  BY DEF Spelled, OfKind, Sought
<1> QED BY <1>1, <1>2 DEF Building

LEMMA OwningSame ==
    ASSUME NEW words, Owning(words), UNCHANGED <<patterns, inserted, trie>>
    PROVE  Owning(words)'
<1>1. PatternKinds' = PatternKinds BY KindsSame
<1>2. ASSUME NEW k
      PROVE  Owned(k, trie[k], words[k], inserted)' <=> Owned(k, trie[k], words[k], inserted)
  BY DEF Owned, OutputsOwn, OfKind, Sought
<1> QED BY <1>1, <1>2 DEF Owning

LEMMA FinishingSame ==
    ASSUME NEW words, NEW done, Finishing(words, done), UNCHANGED <<patterns, inserted, trie, dfa>>
    PROVE  Finishing(words, done)'
<1>1. PatternKinds' = PatternKinds BY KindsSame
<1>2. ASSUME NEW k
      PROVE  Linking(k, trie[k], dfa[k], words[k], inserted, done[k])'
                 <=> Linking(k, trie[k], dfa[k], words[k], inserted, done[k])
  BY DEF Linking, OutputsAll, OutputsOwn, OfKind, Sought
<1> QED BY <1>1, <1>2 DEF Finishing

LEMMA StandsSame ==
    ASSUME patterns' = patterns, NEW words, NEW k \in Kinds, NEW s, NEW text
    PROVE  Stands(k, words, s, text)' <=> Stands(k, words, s, text)
BY KindsSame DEF Stands

(* What has been scanned, when nothing is.                                 *)
LEMMA ScanSame ==
    ASSUME NEW words, UNCHANGED <<patterns, state, input, matches>>, offset' \in 0 .. Len(input),
           Scanning(words), Reports
    PROVE  Scanning(words)' /\ Reports'
<1>1. PatternKinds' = PatternKinds BY KindsSame
<1>2. Scanning(words)' BY <1>1 DEF Scanning
<1>3. Reports' BY DEF Reports
<1> QED BY <1>2, <1>3

(* One byte scanned.                                                       *)
LEMMA ScanByteScans ==
    ASSUME NEW words, NEW done, MatcherInv(words, done), pc = "scan", ScanByte
    PROVE  Scanning(words)' /\ Reports'
<1>1. /\ Building(words) /\ Finishing(words, done) /\ Scanning(words) /\ Reports
      /\ \A k \in PatternKinds : dfa[k].queue = <<>>
  BY DEF MatcherInv
<1>2. PICK b \in Bytes :
          LET es == Advance("exact", Half("exact", state), b)
              fs == Advance("fold", Half("fold", state), b)
          IN  /\ state' = Pack(es, fs)
              /\ input' = Append(input, b)
              /\ matches' = matches \o Reported(Outputs("exact", es), offset + 1)
                                    \o Reported(Outputs("fold", fs), offset + 1)
  BY DEF ScanByte
<1>3. PICK es : es = Advance("exact", Half("exact", state), b) OBVIOUS
<1>4. PICK fs : fs = Advance("fold", Half("fold", state), b) OBVIOUS
<1>5. /\ patterns \in Seq(Pattern) /\ DOMAIN dfa = PatternKinds /\ inserted = Len(patterns)
      /\ input \in Seq(Bytes) /\ offset \in 0 .. Len(input) /\ Len(input) \in Nat
  BY <1>1 DEF Building, Finishing, Scanning
<1>6. \A k \in Kinds : Ready(k, words, done)
  BY <1>1, <1>5 DEF Building, Finishing, Ready
<1>7. \A k \in Kinds : Stands(k, words, Half(k, state), input) BY <1>1 DEF Scanning, Stands
<1>8. PICK text \in Seq(Bytes) : text = input BY <1>5
<1>9. PICK more : more = Append(text, b) OBVIOUS
<1>10. PICK end \in Nat : end = Len(text) + 1 OBVIOUS
<1>11. Stepped("exact", words, es, more, end)
  <2>1. PICK k \in Kinds : k = "exact" BY DEF Kinds
  <2>2. PICK s : s = Half(k, state) OBVIOUS
  <2>3. Stepped(k, words, Advance(k, s, b), Append(text, b), Len(text) + 1)
    BY <1>5, <1>6, <1>7, <1>8, <2>2, AdvanceStands
  <2> QED BY <1>3, <1>9, <1>10, <2>1, <2>2, <2>3
<1>12. Stepped("fold", words, fs, more, end)
  <2>1. PICK k \in Kinds : k = "fold" BY DEF Kinds
  <2>2. PICK s : s = Half(k, state) OBVIOUS
  <2>3. Stepped(k, words, Advance(k, s, b), Append(text, b), Len(text) + 1)
    BY <1>5, <1>6, <1>7, <1>8, <2>2, AdvanceStands
  <2> QED BY <1>4, <1>9, <1>10, <2>1, <2>2, <2>3
<1>13. more \in Seq(Bytes) /\ Len(more) = end BY <1>9, <1>10, AppendProperties
<1>14. es \in 0 .. MaxStates - 1 /\ fs \in 0 .. MaxStates - 1 BY <1>11, <1>12 DEF Stepped
<1>15. state' = Pack(es, fs) /\ input' = more /\ offset' = offset + 1 /\ patterns' = patterns
  BY <1>2, <1>3, <1>4, <1>8, <1>9 DEF ScanByte, buildVars
<1>16. Half("exact", Pack(es, fs)) = es /\ Half("fold", Pack(es, fs)) = fs /\ Pack(es, fs) \in Nat
  BY <1>14, HalfOfPack
<1>17. Scanning(words)'
  <2>1. PatternKinds' = PatternKinds BY <1>15, KindsSame
  <2>2. state' \in Nat /\ Half("exact", state') = es /\ Half("fold", state') = fs BY <1>15, <1>16
  <2>3. \A k \in Kinds : Stands(k, words, Half(k, state'), more)
    BY <1>11, <1>12, <2>2 DEF Kinds, Stepped
  <2>4. \A k \in Kinds :
            IF k \in PatternKinds THEN Longest(words[k], Half(k, state'), Translated(k, more), Len(more) + 1)
            ELSE Half(k, state') = 0
    BY <2>3 DEF Stands
  <2>5. input' \in Seq(Bytes) /\ offset' \in 0 .. Len(input') BY <1>5, <1>8, <1>10, <1>13, <1>15
  <2> QED BY <1>15, <2>1, <2>2, <2>4, <2>5 DEF Scanning
<1>18. PICK re : re = Calling(Outputs("exact", es), end) OBVIOUS
<1>19. PICK rf : rf = Calling(Outputs("fold", fs), end) OBVIOUS
<1>20. matches' = (matches \o re) \o rf
  <2>1. (Len(input) - offset) + (offset + 1) = end BY <1>5, <1>8, <1>10
  <2>2. Reported(Outputs("exact", es), offset + 1) = re BY <1>18, <2>1 DEF Reported, Calling
  <2>3. Reported(Outputs("fold", fs), offset + 1) = rf BY <1>19, <2>1 DEF Reported, Calling
  <2> QED BY <1>2, <1>3, <1>4, <2>2, <2>3
<1>21. PICK E : E = At(Ending("exact", more, end), end) OBVIOUS
<1>22. PICK F : F = At(Ending("fold", more, end), end) OBVIOUS
<1>23. PICK Old : Old = Occurrences(patterns, text) OBVIOUS
<1>24. Lists(re, E) /\ \A i \in 1 .. Len(re) : re[i].end = end
  <2>1. Lists(Outputs("exact", es), Ending("exact", more, end)) BY <1>11 DEF Stepped
  <2> QED BY <1>18, <1>21, <2>1, CallingLists
<1>25. Lists(rf, F) /\ \A i \in 1 .. Len(rf) : rf[i].end = end
  <2>1. Lists(Outputs("fold", fs), Ending("fold", more, end)) BY <1>12 DEF Stepped
  <2> QED BY <1>19, <1>22, <2>1, CallingLists
<1>26. PICK m : m = matches OBVIOUS
<1>27. /\ Lists(m, Old)
       /\ \A i, j \in DOMAIN m : i <= j => m[i].end <= m[j].end
  BY <1>1, <1>8, <1>23, <1>26 DEF Reports
<1>28. \A x \in Old : x.end \in 1 .. Len(text) BY <1>23 DEF Occurrences
<1>29. Old \cap E = {} /\ (Old \cup E) \cap F = {}
  <2>1. \A x \in Old : x.end # end BY <1>10, <1>28
  <2>2. \A x \in E : x.end = end /\ x.pattern \in OfKind("exact", Len(patterns)) BY <1>21 DEF At, Ending
  <2>3. \A x \in F : x.end = end /\ x.pattern \in OfKind("fold", Len(patterns)) BY <1>22 DEF At, Ending
  <2>4. OfKind("exact", Len(patterns)) \cap OfKind("fold", Len(patterns)) = {} BY DEF OfKind
  <2> QED BY <2>1, <2>2, <2>3, <2>4
<1>30. PICK m2 : m2 = (m \o re) \o rf OBVIOUS
<1>31. Lists(m2, (Old \cup E) \cup F)
  <2>1. Lists(m \o re, Old \cup E) BY <1>24, <1>27, <1>29, ListsConcat
  <2> QED BY <1>25, <1>29, <1>30, <2>1, ListsConcat
<1>32. Occurrences(patterns, more) = (Old \cup E) \cup F
  BY <1>5, <1>9, <1>10, <1>21, <1>22, <1>23, OccurrencesGrow
<1>33. /\ Len(m) \in Nat /\ Len(m2) \in Nat /\ DOMAIN m2 = 1 .. Len(m2) /\ DOMAIN m = 1 .. Len(m)
       /\ \A i \in 1 .. Len(m2) : IF i <= Len(m) THEN m2[i] = m[i] ELSE m2[i].end = end
  <2>1. PICK U : U = (Old \cup E) \cup F OBVIOUS
  <2>2. /\ m \in Seq(Old) /\ re \in Seq(E) /\ rf \in Seq(F)
        /\ Len(m) \in Nat /\ Len(re) \in Nat /\ Len(rf) \in Nat
        /\ DOMAIN m = 1 .. Len(m)
    BY <1>24, <1>25, <1>27, ListsFacts
  <2>3. m \in Seq(U) BY <2>1, <2>2, SeqMonotonic
  <2>4. re \in Seq(U) BY <2>1, <2>2, SeqMonotonic
  <2>5. rf \in Seq(U) BY <2>1, <2>2, SeqMonotonic
  <2>6. PICK a : a = m \o re OBVIOUS
  <2>7. a \in Seq(U) /\ Len(a) = Len(m) + Len(re)
        /\ \A i \in 1 .. Len(m) + Len(re) : a[i] = IF i <= Len(m) THEN m[i] ELSE re[i - Len(m)]
    BY <2>3, <2>4, <2>6, ConcatProperties
  <2>8. m2 \in Seq(U) /\ Len(m2) = Len(a) + Len(rf)
        /\ \A i \in 1 .. Len(a) + Len(rf) : m2[i] = IF i <= Len(a) THEN a[i] ELSE rf[i - Len(a)]
    BY <1>30, <2>5, <2>6, <2>7, ConcatProperties
  <2>9. ASSUME NEW i \in 1 .. Len(m2) PROVE IF i <= Len(m) THEN m2[i] = m[i] ELSE m2[i].end = end
    <3>1. CASE i <= Len(m)
      <4>1. i <= Len(a) /\ i \in 1 .. Len(m) + Len(re) BY <2>2, <2>7, <3>1
      <4> QED BY <2>2, <2>7, <2>8, <3>1, <4>1
    <3>2. CASE i > Len(m) /\ i <= Len(a)
      <4>1. i - Len(m) \in 1 .. Len(re) /\ i \in 1 .. Len(m) + Len(re) BY <2>2, <2>7, <3>2
      <4>2. m2[i] = re[i - Len(m)] BY <2>2, <2>7, <2>8, <3>2, <4>1
      <4> QED BY <1>24, <2>2, <3>2, <4>1, <4>2
    <3>3. CASE i > Len(a)
      <4>1. i - Len(a) \in 1 .. Len(rf) /\ i > Len(m) BY <2>2, <2>7, <2>8, <3>3
      <4>2. m2[i] = rf[i - Len(a)] BY <2>2, <2>7, <2>8, <3>3
      <4> QED BY <1>25, <2>2, <4>1, <4>2
    <3> QED BY <2>2, <2>7, <2>8, <3>1, <3>2, <3>3
  <2>10. Len(m2) \in Nat /\ DOMAIN m2 = 1 .. Len(m2) BY <2>8
  <2> QED BY <2>2, <2>9, <2>10
<1>34. ASSUME NEW i \in DOMAIN m2, NEW j \in DOMAIN m2, i <= j PROVE m2[i].end <= m2[j].end
  <2>1. CASE j <= Len(m)
    <3>1. i \in DOMAIN m /\ j \in DOMAIN m /\ m2[i] = m[i] /\ m2[j] = m[j] BY <1>33, <1>34, <2>1
    <3> QED BY <1>27, <1>34, <3>1
  <2>2. CASE j > Len(m)
    <3>1. m2[j].end = end BY <1>33, <2>2
    <3>2. CASE i > Len(m)
      <4>1. m2[i].end = end BY <1>33, <3>2
      <4> QED BY <3>1, <4>1
    <3>3. CASE i <= Len(m)
      <4>1. i \in 1 .. Len(m) /\ m2[i] = m[i] BY <1>33, <3>3
      <4>2. m[i] \in Old BY <1>27, <4>1, ListsFacts
      <4>3. m2[i].end \in 1 .. Len(text) BY <1>28, <4>1, <4>2
      <4> QED BY <1>10, <3>1, <4>3
    <3> QED BY <1>33, <3>2, <3>3
  <2> QED BY <1>33, <2>1, <2>2
<1>35. Reports'
  <2>1. matches' = m2 /\ patterns' = patterns /\ input' = more BY <1>15, <1>20, <1>26, <1>30
  <2>2. Lists(m2, Occurrences(patterns, more)) BY <1>31, <1>32
  <2> QED BY <1>34, <2>1, <2>2 DEF Reports
<1> QED BY <1>17, <1>35

----------------------------------------------------------------------------
(* How many states the patterns need.                                      *)

LEMMA BegunAre ==
    ASSUME patterns \in Seq(Pattern), NEW k, NEW x
    PROVE  x \in Begun(k) <=> \E i \in OfKind(k, Len(patterns)) : \E j \in 0 .. Len(Sought(i)) :
                                 x = SubSeq(Sought(i), 1, j)
<1>1. DOMAIN patterns = 1 .. Len(patterns) OBVIOUS
<1>2. Literals(k) = {Sought(i) : i \in OfKind(k, Len(patterns))} BY <1>1 DEF Literals, OfKind, Sought
<1>3. x \in Begun(k) <=> \E l \in Literals(k) : x \in Prefixes(l) BY DEF Begun
<1> QED BY <1>2, <1>3 DEF Prefixes

LEMMA RangeFinite ==
    ASSUME NEW S, IsFiniteSet(S), NEW f, f = [x \in S |-> f[x]]
    PROVE  IsFiniteSet({f[x] : x \in S})
<1>1. PICK T : T = {f[x] : x \in S} OBVIOUS
<1>2. f \in [S -> T] /\ \A y \in T : \E x \in S : f[x] = y BY <1>1
<1>3. f \in Surjection(S, T) BY <1>2 DEF Surjection
<1> QED BY <1>1, <1>3, FS_Surjection

LEMMA BegunFinite ==
    ASSUME patterns \in Seq(Pattern), NEW k
    PROVE  IsFiniteSet(Begun(k))
<1>1. PICK I : I = OfKind(k, Len(patterns)) OBVIOUS
<1>2. IsFiniteSet(I)
  <2>1. PICK n \in Nat : n = Len(patterns) OBVIOUS
  <2>2. IsFiniteSet(1 .. n) BY <2>1, FS_Interval
  <2> QED BY <1>1, <2>1, <2>2, FS_Subset DEF OfKind
<1>3. ASSUME NEW i \in I PROVE IsFiniteSet(Prefixes(Sought(i)))
  <2>1. i \in 1 .. Len(patterns) BY <1>1 DEF OfKind
  <2>2. PICK n \in Nat : n = Len(Sought(i)) BY <2>1, SoughtType
  <2>3. IsFiniteSet(0 .. n) BY <2>2, FS_Interval
  <2>4. PICK f : f = [j \in 0 .. n |-> SubSeq(Sought(i), 1, j)] OBVIOUS
  <2>5. IsFiniteSet({f[j] : j \in 0 .. n})
    <3>1. f = [j \in 0 .. n |-> f[j]] BY <2>4
    <3> QED BY <2>3, <3>1, RangeFinite
  <2>6. {f[j] : j \in 0 .. n} = Prefixes(Sought(i)) BY <2>2, <2>4 DEF Prefixes
  <2> QED BY <2>5, <2>6
<1>4. PICK P : P = {Prefixes(Sought(i)) : i \in I} OBVIOUS
<1>5. IsFiniteSet(P)
  <2>1. PICK f : f = [i \in I |-> Prefixes(Sought(i))] OBVIOUS
  <2>2. IsFiniteSet({f[i] : i \in I})
    <3>1. f = [i \in I |-> f[i]] BY <2>1
    <3> QED BY <1>2, <3>1, RangeFinite
  <2>3. {f[i] : i \in I} = P BY <1>4, <2>1
  <2> QED BY <2>2, <2>3
<1>6. IsFiniteSet(UNION P) BY <1>3, <1>4, <1>5, FS_UNION
<1>7. Begun(k) = UNION P
  <2>1. DOMAIN patterns = 1 .. Len(patterns) OBVIOUS
  <2>2. Literals(k) = {Sought(i) : i \in I} BY <1>1, <2>1 DEF Literals, OfKind, Sought
  <2> QED BY <1>4, <2>2 DEF Begun
<1> QED BY <1>6, <1>7

(* The nodes' paths are as many as the nodes.                              *)
Words(w) == {w[s] : s \in DOMAIN w}

LEMMA WordsCount ==
    ASSUME NEW t, NEW w, Named(t, w)
    PROVE  IsFiniteSet(Words(w)) /\ Cardinality(Words(w)) = Size(t)
<1>1. Nodes(t) = 0 .. Size(t) - 1 /\ DOMAIN w = Nodes(t) BY NamedFacts
<1>2. PICK n \in Nat : n = Size(t) BY NamedFacts
<1>3. PICK q : q = [i \in 1 .. n |-> w[i - 1]] OBVIOUS
<1>4. \A i \in 1 .. n : i - 1 \in DOMAIN w BY <1>1, <1>2
<1>5. \A i \in 1 .. n : w[i - 1] \in Words(w) BY <1>4 DEF Words
<1>6. q \in [1 .. n -> Words(w)] BY <1>3, <1>5
<1>7. q \in Seq(Words(w)) /\ Len(q) = n BY <1>6
<1>8. \A x \in Words(w) : \E i \in 1 .. Len(q) : q[i] = x
  <2> TAKE x \in Words(w)
  <2>1. PICK s \in DOMAIN w : w[s] = x BY DEF Words
  <2>2. PICK i : i = s + 1 OBVIOUS
  <2>3. i \in 1 .. n /\ i - 1 = s BY <1>1, <1>2, <2>2
  <2> QED BY <1>3, <1>7, <2>1, <2>3
<1>9. \A i, j \in 1 .. Len(q) : q[i] = q[j] => i = j
  <2> TAKE i, j \in 1 .. Len(q)
  <2> HAVE q[i] = q[j]
  <2>1. w[i - 1] = w[j - 1] /\ i - 1 \in DOMAIN w /\ j - 1 \in DOMAIN w BY <1>3, <1>4, <1>7
  <2>2. IsInjective(w) BY DEF Named
  <2>3. i - 1 = j - 1 BY <2>1, <2>2 DEF IsInjective
  <2> QED BY <1>7, <2>3
<1>10. \A i \in 1 .. Len(q) : q[i] \in Words(w) BY <1>6, <1>7
<1>11. Lists(q, Words(w)) BY <1>7, <1>8, <1>9, <1>10, ListsBy
<1> QED BY <1>2, <1>7, <1>11, ListsCounts

(* A literal there is no room for.                                         *)
LEMMA NoRoomTooLarge ==
    ASSUME patterns \in Seq(Pattern), NEW n \in Nat, n < Len(patterns), NEW i, i = n + 1,
           NEW k, k = patterns[i].kind, NEW t, NEW w, Named(t, w), Spelled(k, w, n),
           NEW walk, NEW v, NEW j \in Nat, Along(t, w, Sought(i), j, walk, v),
           NoRoom(Sought(i), j, walk, v)
    PROVE  TooLarge
<1>1. PICK x : x = Sought(i) OBVIOUS
<1>2. i \in 1 .. Len(patterns) /\ i \in OfKind(k, Len(patterns)) BY DEF OfKind
<1>3. x \in Seq(Bytes) /\ Len(x) \in Nat /\ k \in Kinds BY <1>1, <1>2, SoughtType
<1>4. /\ Named(walk.t, v) /\ j < Len(x) /\ Size(walk.t) = MaxStates /\ DOMAIN v = Nodes(walk.t)
      /\ \A u \in Nodes(walk.t) : v[u] # SubSeq(x, 1, j + 1)
      /\ \A u \in Nodes(t) : v[u] = w[u]
      /\ \A u \in Nodes(walk.t) \ Nodes(t) : \E l \in 0 .. j : v[u] = SubSeq(x, 1, l)
      /\ DOMAIN w = Nodes(t) /\ w[0] = <<>>
  BY <1>1, NamedFacts DEF Along, NoRoom
<1>5. ASSUME NEW l \in 0 .. Len(x) PROVE SubSeq(x, 1, l) \in Begun(k)
  BY <1>1, <1>2, BegunAre
<1>6. ASSUME NEW u \in DOMAIN v PROVE v[u] \in Begun(k)
  <2>1. CASE u = 0
    <3>1. v[u] = SubSeq(x, 1, 0)
      <4>1. 0 \in Nodes(t) BY NamedFacts
      <4> QED BY <1>3, <1>4, <2>1, <4>1, PrefixEnds
    <3> QED BY <1>3, <1>5, <3>1
  <2>2. CASE u \in Nodes(t) \ {0}
    <3>1. PICK m \in OfKind(k, n) : \E l \in 0 .. Len(Sought(m)) : w[u] = SubSeq(Sought(m), 1, l)
      BY <1>4, <2>2 DEF Spelled
    <3>2. m \in OfKind(k, Len(patterns)) BY DEF OfKind
    <3> QED BY <1>4, <2>2, <3>1, <3>2, BegunAre
  <2>3. CASE u \notin Nodes(t)
    <3>1. PICK l \in 0 .. j : v[u] = SubSeq(x, 1, l) BY <1>4, <2>3
    <3>2. l \in 0 .. Len(x) BY <1>3, <1>4
    <3> QED BY <1>5, <3>1, <3>2
  <2> QED BY <2>1, <2>2, <2>3
<1>7. PICK y : y = SubSeq(x, 1, j + 1) OBVIOUS
<1>8. y \in Begun(k) /\ y \notin Words(v)
  <2>1. j + 1 \in 0 .. Len(x) BY <1>3, <1>4
  <2> QED BY <1>4, <1>5, <1>7, <2>1 DEF Words
<1>9. IsFiniteSet(Words(v)) /\ Cardinality(Words(v)) = MaxStates BY <1>4, WordsCount
<1>10. IsFiniteSet(Words(v) \cup {y}) /\ Cardinality(Words(v) \cup {y}) = MaxStates + 1
  BY <1>8, <1>9, FS_AddElement
<1>11. Words(v) \cup {y} \subseteq Begun(k) BY <1>6, <1>8 DEF Words
<1>12. IsFiniteSet(Begun(k)) BY BegunFinite
<1>13. Cardinality(Words(v) \cup {y}) <= Cardinality(Begun(k)) BY <1>11, <1>12, FS_Subset
<1>14. Cardinality(Begun(k)) \in Nat BY <1>12, FS_CardinalityType
<1>15. Cardinality(Begun(k)) > MaxStates BY <1>10, <1>13, <1>14, MatcherAssumption
<1> QED BY <1>3, <1>15 DEF TooLarge

(* What a finished automaton has room for.                                 *)
LEMMA BuiltFits ==
    ASSUME NEW words, Building(words), inserted = Len(patterns), NEW k \in Kinds
    PROVE  Cardinality(Begun(k)) \in Nat /\ Cardinality(Begun(k)) <= MaxStates
<1>1. patterns \in Seq(Pattern) BY DEF Building
<1>2. IsFiniteSet(Begun(k)) /\ Cardinality(Begun(k)) \in Nat BY <1>1, BegunFinite, FS_CardinalityType
<1>3. CASE k \in PatternKinds
  <2>1. Named(trie[k], words[k]) /\ Spelled(k, words[k], Len(patterns)) BY <1>3 DEF Building
  <2>2. Begun(k) \subseteq Words(words[k])
    <3> SUFFICES ASSUME NEW x \in Begun(k) PROVE x \in Words(words[k]) OBVIOUS
    <3>1. PICK i \in OfKind(k, Len(patterns)) : \E j \in 0 .. Len(Sought(i)) : x = SubSeq(Sought(i), 1, j)
      BY <1>1, BegunAre
    <3> QED BY <2>1, <3>1 DEF Spelled, Words
  <2>3. IsFiniteSet(Words(words[k])) /\ Cardinality(Words(words[k])) = Size(trie[k])
    BY <2>1, WordsCount
  <2>4. Cardinality(Begun(k)) <= Cardinality(Words(words[k])) BY <2>2, <2>3, FS_Subset
  <2>5. Size(trie[k]) <= MaxStates /\ Size(trie[k]) \in Nat BY <2>1, NamedFacts
  <2> QED BY <1>2, <2>3, <2>4, <2>5, MatcherAssumption
<1>4. CASE k \notin PatternKinds
  <2>1. \A x : x \notin Begun(k)
    <3>1. OfKind(k, Len(patterns)) = {} BY <1>4 DEF OfKind, PatternKinds
    <3> QED BY <1>1, <3>1, BegunAre
  <2>2. Begun(k) = {} BY <2>1
  <2>3. Cardinality(Begun(k)) = 0 BY <2>2, FS_EmptySet
  <2> QED BY <1>2, <2>3, MatcherAssumption
<1> QED BY <1>3, <1>4

----------------------------------------------------------------------------
(* Every step of the matcher keeps its invariant.                          *)

LEMMA EmptyNamed ==
    ASSUME NEW w, w = [s \in {0} |-> <<>>]
    PROVE  Named(Empty, w)
<1>1. PICK E : E = [s \in {0} |-> NoEdges] OBVIOUS
<1>2. PICK O : O = [s \in {0} |-> <<>>] OBVIOUS
<1>3. PICK t : t = [edges |-> E, out |-> O] OBVIOUS
<1>4. t = Empty BY <1>1, <1>2, <1>3 DEF Empty
<1>5. t.edges = E /\ t.out = O /\ Nodes(t) = {0} BY <1>1, <1>3 DEF Nodes
<1>6. Size(t) = 1 BY <1>5, FS_Singleton DEF Size
<1>7. /\ E[0] = [b \in Bytes |-> -1] /\ E \in [{0} -> [Bytes -> {0} \cup {-1}]] /\ O \in [{0} -> Seq(Nat)]
  <2>1. NoEdges \in [Bytes -> {0} \cup {-1}] BY DEF NoEdges
  <2>2. <<>> \in Seq(Nat) OBVIOUS
  <2> QED BY <1>1, <1>2, <2>1, <2>2 DEF NoEdges
<1>8. 0 .. 1 - 1 = {0} /\ 1 \in 1 .. MaxStates BY MatcherAssumption
<1>9. t \in [edges : [{0} -> [Bytes -> {0} \cup {-1}]], out : [{0} -> Seq(Nat)]] BY <1>3, <1>7
<1>10. w \in [{0} -> Seq(Bytes)] /\ IsInjective(w) /\ w[0] = <<>> /\ \A s \in {0} : Len(w[s]) <= s
  BY DEF IsInjective
<1>11. \A s \in {0}, b \in Bytes : E[s][b] = -1 BY <1>7
<1>12. Named(t, w) BY <1>5, <1>6, <1>8, <1>9, <1>10, <1>11 DEF Named
<1> QED BY <1>4, <1>12

LEMMA StartCompileStep ==
    ASSUME NEW list \in Seq(Pattern), StartCompile(list), inserted = 0, NothingScanned
    PROVE  MatcherOk'
<1>1. PICK wr : wr = [s \in {0} |-> <<>>] OBVIOUS
<1>2. PICK words : words = [k \in Kinds |-> wr] OBVIOUS
<1>3. PICK done : done = {} OBVIOUS
<1>4. patterns' = list /\ inserted' = 0 /\ pc' = (IF list = <<>> THEN "failed" ELSE "insert")
      /\ trie' = [k \in {list[i].kind : i \in DOMAIN list} |-> Empty]
  BY DEF StartCompile
<1>5. DOMAIN list = 1 .. Len(list) /\ \A i \in 1 .. Len(list) : list[i].kind \in Kinds
  <2>1. DOMAIN list = 1 .. Len(list) /\ \A i \in 1 .. Len(list) : list[i] \in Pattern OBVIOUS
  <2> QED BY <2>1 DEF Pattern, Kinds
<1>6. PatternKinds' = {list[i].kind : i \in DOMAIN list} BY <1>4, <1>5 DEF PatternKinds
<1>7. \A k \in PatternKinds' : trie'[k] = Empty /\ words[k] = wr
  BY <1>2, <1>4, <1>5, <1>6
<1>8. Named(Empty, wr) BY <1>1, EmptyNamed
<1>9. \A k : OfKind(k, 0)' = {} BY DEF OfKind
<1>10. \A k : Spelled(k, wr, inserted)' BY <1>1, <1>4 DEF Spelled, OfKind
<1>11. \A k : Owned(k, Empty, wr, inserted)'
  <2>1. \A k : \A s \in Nodes(Empty) : Empty.out[s] = <<>> BY DEF Nodes, Empty
  <2>2. ASSUME NEW k, NEW s \in Nodes(Empty) PROVE OutputsOwn(k, Empty, wr, inserted, s)'
    <3>1. Lists(<<>>, {}) BY ListsEmpty
    <3>2. {i \in OfKind(k, 0) : Sought(i) = wr[s]}' = {} BY <1>9
    <3> QED BY <1>4, <2>1, <3>1, <3>2 DEF OutputsOwn
  <2> QED BY <2>2 DEF Owned
<1>12. Building(words)'
  <2>1. patterns' \in Seq(Pattern) /\ inserted' \in 0 .. Len(patterns') /\ DOMAIN trie' = PatternKinds'
    BY <1>4, <1>6
  <2>2. \A i \in 1 .. inserted' : FALSE BY <1>4
  <2>3. \A k \in PatternKinds' : Named(trie'[k], words[k]) /\ Spelled(k, words[k], inserted)'
    BY <1>7, <1>8, <1>10
  <2> QED BY <2>1, <2>2, <2>3 DEF Building
<1>13. Owning(words)'
  <2>1. \A k \in PatternKinds' : Owned(k, trie[k], words[k], inserted)' BY <1>7, <1>11
  <2> QED BY <2>1 DEF Owning
<1>14. NothingScanned' BY DEF StartCompile, scanVars, NothingScanned
<1>15. (pc = "failed" => TooLarge)' BY <1>4 DEF TooLarge
<1>16. MatcherInv(words, done)' BY <1>4, <1>12, <1>13, <1>14, <1>15 DEF MatcherInv
<1> QED BY <1>16 DEF MatcherOk

(* A pattern inserted into the trie of its kind.                           *)
LEMMA InsertStep ==
    ASSUME NEW words, NEW done, MatcherInv(words, done), Insert
    PROVE  MatcherOk'
<1>1. PICK i : i = inserted + 1 OBVIOUS
<1>2. PICK p : p = patterns[i] OBVIOUS
<1>3. PICK k : k = p.kind OBVIOUS
<1>4. PICK t : t = trie[k] OBVIOUS
<1>5. PICK w : w = words[k] OBVIOUS
<1>6. PICK n : n = inserted OBVIOUS
<1>7. PICK walk : walk = WalkAll(t, p) OBVIOUS
<1>8. /\ pc = "insert" /\ inserted < Len(patterns) /\ patterns' = patterns
      /\ IF p.literal = <<>> \/ walk.full THEN pc' = "failed" /\ UNCHANGED <<inserted, trie>>
         ELSE /\ inserted' = i
              /\ trie' = [trie EXCEPT ![k] = [walk.t EXCEPT !.out[walk.at] = Append(@, i)]]
              /\ pc' = pc
  BY <1>1, <1>2, <1>3, <1>4, <1>7 DEF Insert
<1>9. /\ Building(words) /\ Owning(words) /\ NothingScanned /\ patterns # <<>>
  BY <1>8 DEF MatcherInv
<1>10. /\ patterns \in Seq(Pattern) /\ n \in Nat /\ n < Len(patterns) /\ i = n + 1
       /\ i \in 1 .. Len(patterns) /\ DOMAIN trie = PatternKinds /\ Len(patterns) \in Nat
       /\ \A j \in 1 .. n : patterns[j].literal # <<>>
  BY <1>1, <1>6, <1>8, <1>9 DEF Building
<1>11. /\ k \in PatternKinds /\ k \in Kinds /\ p \in Pattern /\ p.literal \in Seq(Bytes)
       /\ DOMAIN patterns = 1 .. Len(patterns)
  BY <1>2, <1>3, <1>10, SoughtType DEF PatternKinds
<1>12. Named(t, w) /\ Spelled(k, w, n) /\ Owned(k, t, w, n)
  BY <1>4, <1>5, <1>6, <1>9, <1>11 DEF Building, Owning
<1>13. NothingScanned' BY <1>9 DEF Insert, scanVars, NothingScanned
<1>14. PICK x : x = Sought(i) OBVIOUS
<1>15. x = Translated(p.kind, p.literal) /\ Len(p.literal) = Len(x) /\ Len(x) \in Nat
  BY <1>2, <1>10, <1>14, SoughtType DEF Sought
<1>16. Reached(t, w, x, Len(x), walk)
  <2>1. Reached(t, w, Translated(p.kind, p.literal), Len(p.literal), WalkAll(t, p))
    BY <1>11, <1>12, WalkAllReaches
  <2> QED BY <1>7, <1>15, <2>1
<1>17. PICK v : \E j \in 0 .. Len(x) : /\ Along(t, w, x, j, walk, v)
                                       /\ IF walk.full THEN NoRoom(x, j, walk, v) ELSE j = Len(x)
  BY <1>16 DEF Reached
<1>18. PICK j \in 0 .. Len(x) : /\ Along(t, w, x, j, walk, v)
                                /\ IF walk.full THEN NoRoom(x, j, walk, v) ELSE j = Len(x)
  BY <1>17
<1>19. CASE p.literal = <<>> \/ walk.full
  <2>1. TooLarge
    <3>1. CASE p.literal = <<>> BY <1>2, <1>10, <1>11, <3>1 DEF TooLarge
    <3>2. CASE walk.full
      <4>1. NoRoom(x, j, walk, v) /\ Along(t, w, x, j, walk, v) /\ j \in Nat BY <1>18, <3>2
      <4>2. k = patterns[i].kind BY <1>2, <1>3
      <4> QED BY <1>10, <1>12, <1>14, <4>1, <4>2, NoRoomTooLarge
    <3> QED BY <1>19, <3>1, <3>2
  <2>2. pc' = "failed" /\ UNCHANGED <<patterns, inserted, trie>> BY <1>8, <1>19
  <2>3. Building(words)' BY <1>9, <2>2, BuildingSame
  <2>4. TooLarge'
    <3>1. \A kk : Begun(kk)' = Begun(kk) BY <2>2 DEF Begun, Literals
    <3> QED BY <2>1, <2>2, <3>1 DEF TooLarge
  <2>5. MatcherInv(words, done)' BY <1>13, <2>2, <2>3, <2>4 DEF MatcherInv
  <2> QED BY <2>5 DEF MatcherOk
<1>20. CASE ~(p.literal = <<>> \/ walk.full)
  <2>1. /\ inserted' = i /\ pc' = "insert" /\ walk.full \in BOOLEAN
        /\ trie' = [trie EXCEPT ![k] = [walk.t EXCEPT !.out[walk.at] = Append(@, i)]]
    BY <1>8, <1>18, <1>20 DEF Along
  <2>2. Along(t, w, x, Len(x), walk, v) BY <1>18, <1>20
  <2>3. PICK t2 : t2 = [walk.t EXCEPT !.out[walk.at] = Append(@, i)] OBVIOUS
  <2>4. Entered(k, t2, v, i)
    <3>1. Entered(k, t, w, n) /\ k = patterns[i].kind BY <1>2, <1>3, <1>12 DEF Entered
    <3>2. Entered(k, [walk.t EXCEPT !.out[walk.at] = Append(@, i)], v, i)
      BY <1>10, <1>14, <2>2, <3>1, InsertEnters
    <3> QED BY <2>3, <3>2
  <2>5. PICK words2 : words2 = [c \in Kinds |-> IF c = k THEN v ELSE words[c]] OBVIOUS
  <2>6. /\ DOMAIN trie' = DOMAIN trie /\ trie'[k] = t2
        /\ \A c \in DOMAIN trie : c # k => trie'[c] = trie[c]
    <3>1. trie' = [trie EXCEPT ![k] = t2] BY <2>1, <2>3
    <3> QED BY <1>10, <1>11, <3>1
  <2>7. PatternKinds' = PatternKinds BY <1>8, KindsSame
  <2>8. \A c \in PatternKinds : c \in Kinds BY <1>10, SoughtType DEF PatternKinds
  <2>9. \A c : OfKind(c, i) = OfKind(c, n) \cup (IF c = k THEN {i} ELSE {})
    <3>1. \A c : OfKind(c, n + 1) = OfKind(c, n) \cup (IF patterns[n + 1].kind = c THEN {n + 1} ELSE {})
      BY <1>10, OfKindGrows
    <3> QED BY <1>2, <1>3, <1>10, <3>1
  <2>10. ASSUME NEW c \in PatternKinds
         PROVE  Named(trie'[c], words2[c]) /\ Spelled(c, words2[c], i) /\ Owned(c, trie'[c], words2[c], i)
    <3>1. CASE c = k BY <2>4, <2>5, <2>6, <2>8, <3>1 DEF Entered
    <3>2. CASE c # k
      <4>1. trie'[c] = trie[c] /\ words2[c] = words[c] /\ OfKind(c, i) = OfKind(c, n)
        <5>1. trie'[c] = trie[c] BY <1>10, <2>6, <3>2
        <5>2. words2[c] = words[c] BY <2>5, <2>8, <3>2
        <5>3. OfKind(c, i) = OfKind(c, n) BY <2>9, <3>2
        <5> QED BY <5>1, <5>2, <5>3
      <4>2. Named(trie[c], words[c]) /\ Spelled(c, words[c], n) /\ Owned(c, trie[c], words[c], n)
        BY <1>6, <1>9 DEF Building, Owning
      <4>3. Spelled(c, words2[c], i) BY <4>1, <4>2 DEF Spelled
      <4>4. Owned(c, trie'[c], words2[c], i)
        <5>1. \A s \in Nodes(trie[c]) : Lists(trie[c].out[s], {m \in OfKind(c, n) : Sought(m) = words[c][s]})
          BY <4>2 DEF Owned, OutputsOwn
        <5>2. \A s \in Nodes(trie'[c]) : Lists(trie'[c].out[s], {m \in OfKind(c, i) : Sought(m) = words2[c][s]})
          BY <4>1, <5>1, Zenon
        <5> QED BY <5>2 DEF Owned, OutputsOwn
      <4> QED BY <4>1, <4>2, <4>3, <4>4
    <3> QED BY <3>1, <3>2
  <2>11. ASSUME NEW c
         PROVE  /\ Spelled(c, words2[c], inserted)' <=> Spelled(c, words2[c], i)
                /\ Owned(c, trie[c], words2[c], inserted)' <=> Owned(c, trie'[c], words2[c], i)
    BY <1>8, <2>1 DEF Spelled, Owned, OutputsOwn, OfKind, Sought
  <2>12. Building(words2)'
    <3>1. \A m \in 1 .. i : patterns[m].literal # <<>>
      <4>1. \A m \in 1 .. i : m \in 1 .. n \/ m = i BY <1>10
      <4> QED BY <1>2, <1>10, <1>20, <4>1
    <3>2. patterns' \in Seq(Pattern) /\ inserted' \in 0 .. Len(patterns') /\ DOMAIN trie' = PatternKinds'
      BY <1>8, <1>10, <2>1, <2>6, <2>7
    <3>3. \A m \in 1 .. inserted' : patterns'[m].literal # <<>> BY <1>8, <2>1, <3>1
    <3>4. \A c \in PatternKinds' : Named(trie'[c], words2[c]) /\ Spelled(c, words2[c], inserted)'
      BY <2>7, <2>10, <2>11
    <3> QED BY <3>2, <3>3, <3>4 DEF Building
  <2>13. Owning(words2)' BY <2>7, <2>10, <2>11 DEF Owning
  <2>14. MatcherInv(words2, done)' BY <1>8, <1>9, <1>13, <2>1, <2>12, <2>13 DEF MatcherInv
  <2> QED BY <2>14 DEF MatcherOk
<1> QED BY <1>19, <1>20

(* finish begins.                                                          *)
LEMMA StartFinishStep ==
    ASSUME NEW words, NEW done, MatcherInv(words, done), StartFinish
    PROVE  MatcherOk'
<1>1. PICK done2 : done2 = [k \in Kinds |-> {0}] OBVIOUS
<1>2. /\ pc = "insert" /\ inserted = Len(patterns) /\ pc' = "finish"
      /\ dfa' = [k \in DOMAIN trie |-> Root(trie[k])] /\ UNCHANGED <<patterns, inserted, trie, scanVars>>
  BY DEF StartFinish
<1>3. /\ Building(words) /\ Owning(words) /\ NothingScanned /\ patterns # <<>>
  BY <1>2 DEF MatcherInv
<1>4. /\ patterns \in Seq(Pattern) /\ DOMAIN trie = PatternKinds
      /\ \A i \in 1 .. Len(patterns) : patterns[i].literal # <<>>
  BY <1>2, <1>3 DEF Building
<1>5. \A k \in PatternKinds : k \in Kinds BY <1>4, SoughtType DEF PatternKinds
<1>6. ASSUME NEW k \in PatternKinds
      PROVE  Linking(k, trie[k], dfa'[k], words[k], inserted, done2[k])
  <2>1. PICK t : t = trie[k] OBVIOUS
  <2>2. PICK w : w = words[k] OBVIOUS
  <2>3. PICK n \in 0 .. Len(patterns) : n = inserted BY <1>2, <1>4
  <2>4. Entered(k, t, w, n) BY <1>3, <2>1, <2>2, <2>3 DEF Entered, Building, Owning
  <2>5. \A i \in OfKind(k, n) : Sought(i) # <<>>
    <3> TAKE i \in OfKind(k, n)
    <3>1. i \in 1 .. Len(patterns) BY <1>2, <2>3 DEF OfKind
    <3>2. Len(Sought(i)) = Len(patterns[i].literal) /\ patterns[i].literal \in Seq(Bytes)
      BY <1>4, <3>1, SoughtType
    <3>3. Len(patterns[i].literal) # 0 BY <1>4, <3>1, <3>2
    <3> QED BY <3>2, <3>3
  <2>6. RootLinks(k, t, w, n) BY <1>4, <2>4, <2>5, RootLinked
  <2>7. dfa'[k] = Root(t) /\ done2[k] = {0} BY <1>1, <1>2, <1>4, <1>5, <2>1
  <2> QED BY <2>1, <2>2, <2>3, <2>6, <2>7 DEF RootLinks
<1>7. PatternKinds' = PatternKinds BY <1>2, KindsSame
<1>8. ASSUME NEW k
      PROVE  Linking(k, trie[k], dfa[k], words[k], inserted, done2[k])'
                 <=> Linking(k, trie[k], dfa'[k], words[k], inserted, done2[k])
  BY <1>2 DEF Linking, OutputsAll, OutputsOwn, OfKind, Sought
<1>9. Finishing(words, done2)' BY <1>2, <1>4, <1>6, <1>7, <1>8 DEF Finishing
<1>10. Building(words)' BY <1>2, <1>3, BuildingSame
<1>11. NothingScanned' BY <1>2, <1>3 DEF scanVars, NothingScanned
<1>12. MatcherInv(words, done2)' BY <1>2, <1>3, <1>9, <1>10, <1>11 DEF MatcherInv
<1> QED BY <1>12 DEF MatcherOk

LEMMA ResolveStep ==
    ASSUME NEW words, NEW done, MatcherInv(words, done), NEW k \in DOMAIN dfa, Resolve(k)
    PROVE  MatcherOk'
<1>1. PICK t : t = trie[k] OBVIOUS
<1>2. PICK w : w = words[k] OBVIOUS
<1>3. PICK d : d = dfa[k] OBVIOUS
<1>4. PICK D : D = done[k] OBVIOUS
<1>5. PICK r : r = Head(d.queue) OBVIOUS
<1>6. PICK t2 : t2 = WithOutputs(t, r, t.out[r] \o t.out[d.fail[r]]) OBVIOUS
<1>7. PICK d2 : d2 = Linked(t, d, r) OBVIOUS
<1>8. /\ pc = "finish" /\ d.queue # <<>> /\ UNCHANGED <<pc, patterns, inserted, scanVars>>
  BY <1>3 DEF Resolve
<1>9. Building(words) /\ Finishing(words, done) /\ NothingScanned /\ patterns # <<>>
  BY <1>8 DEF MatcherInv
<1>10. /\ patterns \in Seq(Pattern) /\ inserted = Len(patterns) /\ DOMAIN trie = PatternKinds
       /\ DOMAIN dfa = PatternKinds /\ k \in PatternKinds
       /\ \A i \in 1 .. inserted : patterns[i].literal # <<>>
  BY <1>9 DEF Building, Finishing
<1>11. trie' = [trie EXCEPT ![k] = t2]
  <2>1. trie' = [trie EXCEPT ![k].out[r] = @ \o trie[k].out[dfa[k].fail[r]]]
    BY <1>3, <1>5 DEF Resolve
  <2> QED BY <1>1, <1>3, <1>6, <2>1, Zenon DEF WithOutputs
<1>12. dfa' = [dfa EXCEPT ![k] = d2] BY <1>1, <1>3, <1>5, <1>7 DEF Resolve
<1>13. PICK n \in 0 .. Len(patterns) : n = inserted BY <1>10
<1>14. /\ Named(t, w) /\ Spelled(k, w, n) /\ Linking(k, t, d, w, n, D)
  BY <1>1, <1>2, <1>3, <1>4, <1>9, <1>10, <1>13 DEF Building, Finishing
<1>15. Relinked(k, t, d, w, n, D, r) BY <1>5, <1>8, <1>10, <1>14, ResolveLinks
<1>16. Named(t2, w) /\ Linking(k, t2, d2, w, n, D \cup {r})
  BY <1>6, <1>7, <1>15 DEF Relinked
<1>17. PICK done2 : done2 = [c \in Kinds |-> IF c = k THEN D \cup {r} ELSE done[c]] OBVIOUS
<1>18. /\ DOMAIN trie' = PatternKinds /\ DOMAIN dfa' = PatternKinds /\ trie'[k] = t2 /\ dfa'[k] = d2
       /\ \A c \in PatternKinds : c # k => trie'[c] = trie[c] /\ dfa'[c] = dfa[c]
  BY <1>10, <1>11, <1>12
<1>19. PatternKinds' = PatternKinds BY <1>8, KindsSame
<1>20. \A c \in PatternKinds : c \in Kinds BY <1>10, SoughtType DEF PatternKinds
<1>21. Building(words)'
  <2>1. \A c \in PatternKinds : Named(trie'[c], words[c]) /\ Spelled(c, words[c], inserted)
    <3> TAKE c \in PatternKinds
    <3>1. Named(trie[c], words[c]) /\ Spelled(c, words[c], inserted) BY <1>9 DEF Building
    <3> QED BY <1>2, <1>16, <1>18, <3>1
  <2>2. ASSUME NEW c PROVE Spelled(c, words[c], inserted)' <=> Spelled(c, words[c], inserted)
    BY <1>8 DEF Spelled, OfKind, Sought
  <2>3. patterns' \in Seq(Pattern) /\ inserted' \in 0 .. Len(patterns') BY <1>8, <1>10
  <2>4. \A i \in 1 .. inserted' : patterns'[i].literal # <<>> BY <1>8, <1>10
  <2>5. \A c \in PatternKinds' : Named(trie'[c], words[c]) /\ Spelled(c, words[c], inserted)'
    BY <1>19, <2>1, <2>2
  <2> QED BY <1>18, <1>19, <2>3, <2>4, <2>5 DEF Building
<1>22. Finishing(words, done2)'
  <2>1. \A c \in PatternKinds : Linking(c, trie'[c], dfa'[c], words[c], inserted, done2[c])
    <3> TAKE c \in PatternKinds
    <3>1. CASE c = k
      <4>1. done2[k] = D \cup {r} BY <1>17, <1>20, <3>1
      <4> QED BY <1>2, <1>13, <1>16, <1>18, <3>1, <4>1
    <3>2. CASE c # k
      <4>1. done2[c] = done[c] /\ trie'[c] = trie[c] /\ dfa'[c] = dfa[c] BY <1>17, <1>18, <1>20, <3>2
      <4>2. Linking(c, trie[c], dfa[c], words[c], inserted, done[c]) BY <1>9 DEF Finishing
      <4> QED BY <4>1, <4>2
    <3> QED BY <3>1, <3>2
  <2>2. ASSUME NEW c
        PROVE  Linking(c, trie[c], dfa[c], words[c], inserted, done2[c])'
                   <=> Linking(c, trie'[c], dfa'[c], words[c], inserted, done2[c])
    BY <1>8 DEF Linking, OutputsAll, OutputsOwn, OfKind, Sought
  <2>3. \A c \in PatternKinds' : Linking(c, trie[c], dfa[c], words[c], inserted, done2[c])'
    BY <1>19, <2>1, <2>2
  <2> QED BY <1>8, <1>10, <1>18, <1>19, <2>3 DEF Finishing
<1>23. NothingScanned' BY <1>8, <1>9 DEF scanVars, NothingScanned
<1>24. MatcherInv(words, done2)' BY <1>8, <1>9, <1>21, <1>22, <1>23 DEF MatcherInv
<1> QED BY <1>24 DEF MatcherOk

(* Scan begins with the root of both automata, which nothing is a suffix   *)
(* longer than of the empty input.                                         *)
LEMMA FinishedStep ==
    ASSUME NEW words, NEW done, MatcherInv(words, done), pc = "finish",
           \A k \in DOMAIN dfa : dfa[k].queue = <<>>, pc' = "scan", UNCHANGED <<buildVars, scanVars>>
    PROVE  MatcherOk'
<1>1. Building(words) /\ Finishing(words, done) /\ NothingScanned /\ patterns # <<>>
  BY DEF MatcherInv
<1>2. Building(words)' /\ Finishing(words, done)'
  <2>1. UNCHANGED <<patterns, inserted, trie, dfa>> BY DEF buildVars
  <2> QED BY <1>1, <2>1, BuildingSame, FinishingSame
<1>3. /\ state' = 0 /\ input' = <<>> /\ offset' = 0 /\ matches' = <<>> /\ patterns' = patterns
      /\ dfa' = dfa
  BY <1>1 DEF NothingScanned, buildVars, scanVars
<1>4. PatternKinds' = PatternKinds /\ DOMAIN dfa = PatternKinds BY <1>1, <1>3, KindsSame DEF Finishing
<1>5. \A k : Half(k, 0) = 0
  <2>1. 0 % MaxStates = 0 /\ 0 \div MaxStates = 0 BY MatcherAssumption
  <2> QED BY <2>1 DEF Half
<1>6. ASSUME NEW k PROVE Translated(k, <<>>) = <<>>
  <2>1. <<>> \in Seq(Bytes) OBVIOUS
  <2>2. Translated(k, <<>>) \in Seq(Bytes) /\ Len(Translated(k, <<>>)) = 0 BY <2>1, TranslatedType
  <2> QED BY <2>2
<1>7. ASSUME NEW k \in PatternKinds PROVE Longest(words[k], 0, <<>>, 0 + 1)
  <2>1. PICK w : w = words[k] OBVIOUS
  <2>2. PICK t : t = trie[k] OBVIOUS
  <2>3. Named(t, w) BY <1>1, <2>1, <2>2 DEF Building
  <2>4. DOMAIN w = Nodes(t) /\ 0 \in Nodes(t) /\ w[0] = <<>> /\ \A s \in Nodes(t) : w[s] \in Seq(Bytes)
    BY <2>3, NamedFacts
  <2>5. Ends(w[0], <<>>) /\ Len(w[0]) = 0
    <3>1. Ends(<<>>, <<>>) BY DEF Ends
    <3> QED BY <2>4, <3>1
  <2>6. \A s \in DOMAIN w : Len(w[s]) < 0 + 1 => Len(w[s]) <= Len(w[0]) BY <2>4, <2>5
  <2> QED BY <2>1, <2>4, <2>5, <2>6 DEF Longest
<1>8. Scanning(words)'
  <2>1. \A k \in Kinds : IF k \in PatternKinds THEN Longest(words[k], Half(k, 0), Translated(k, <<>>), Len(<<>>) + 1)
                         ELSE Half(k, 0) = 0
    BY <1>5, <1>6, <1>7
  <2>2. <<>> \in Seq(Bytes) /\ 0 \in 0 .. Len(<<>>) /\ 0 \in Nat OBVIOUS
  <2> QED BY <1>3, <1>4, <2>1, <2>2 DEF Scanning
<1>9. Reports'
  <2>1. Occurrences(patterns, <<>>) = {} BY DEF Occurrences
  <2>2. Lists(<<>>, {}) BY ListsEmpty
  <2>3. Occurrences(patterns', input') = {} BY <1>3, <2>1
  <2>4. Lists(matches', Occurrences(patterns', input')) BY <1>3, <2>2, <2>3
  <2>5. DOMAIN matches' = {} BY <1>3
  <2> QED BY <2>4, <2>5 DEF Reports
<1>10. MatcherInv(words, done)' BY <1>1, <1>2, <1>3, <1>4, <1>8, <1>9 DEF MatcherInv
<1> QED BY <1>10 DEF MatcherOk

LEMMA ScanStep ==
    ASSUME NEW words, NEW done, MatcherInv(words, done), ScanByte \/ NextChunk
    PROVE  MatcherOk'
<1>1. pc = "scan" /\ pc' = pc /\ UNCHANGED <<patterns, inserted, trie, dfa>>
  BY DEF ScanByte, NextChunk, buildVars
<1>2. /\ Building(words) /\ Finishing(words, done) /\ Scanning(words) /\ Reports /\ patterns # <<>>
      /\ \A k \in PatternKinds : dfa[k].queue = <<>>
  BY <1>1 DEF MatcherInv
<1>3. Building(words)' /\ Finishing(words, done)' BY <1>1, <1>2, BuildingSame, FinishingSame
<1>4. PatternKinds' = PatternKinds BY <1>1, KindsSame
<1>5. Scanning(words)' /\ Reports'
  <2>1. CASE ScanByte BY <1>1, <2>1, ScanByteScans
  <2>2. CASE NextChunk
    <3>1. UNCHANGED <<patterns, state, input, matches>> /\ offset' = 0 BY <2>2 DEF NextChunk, buildVars
    <3>2. offset' \in 0 .. Len(input) BY <1>2, <3>1 DEF Scanning
    <3> QED BY <1>2, <3>1, <3>2, ScanSame
  <2> QED BY <2>1, <2>2
<1>6. MatcherInv(words, done)' BY <1>1, <1>2, <1>3, <1>4, <1>5 DEF MatcherInv
<1> QED BY <1>6 DEF MatcherOk

LEMMA MatcherStep ==
    ASSUME MatcherOk, MatcherNext
    PROVE  MatcherOk'
<1>1. PICK words, done : MatcherInv(words, done) BY DEF MatcherOk
<1>2. CASE Insert BY <1>1, <1>2, InsertStep
<1>3. CASE StartFinish BY <1>1, <1>3, StartFinishStep
<1>4. CASE Finish
  <2>1. CASE \E k \in DOMAIN dfa : Resolve(k) BY <1>1, <2>1, ResolveStep
  <2>2. CASE /\ pc = "finish" /\ \A k \in DOMAIN dfa : dfa[k].queue = <<>>
             /\ pc' = "scan" /\ UNCHANGED <<buildVars, scanVars>>
    BY <1>1, <2>2, FinishedStep
  <2> QED BY <1>4, <2>1, <2>2 DEF Finish
<1>5. CASE ScanByte BY <1>1, <1>5, ScanStep
<1>6. CASE NextChunk BY <1>1, <1>6, ScanStep
<1> QED BY <1>2, <1>3, <1>4, <1>5, <1>6 DEF MatcherNext

(* Every other step, which may only move pc on.                            *)
LEMMA MatcherSame ==
    ASSUME MatcherOk, UNCHANGED <<buildVars, state, input, offset, matches>>,
           pc' = pc \/ (pc \notin {"scan", "failed"} /\ pc' \notin {"insert", "finish", "scan", "failed"})
    PROVE  MatcherOk'
<1>1. PICK words, done : MatcherInv(words, done) BY DEF MatcherOk
<1>2. UNCHANGED <<patterns, inserted, trie, dfa>> /\ UNCHANGED <<patterns, state, input, matches, offset>>
  BY DEF buildVars
<1>3. PatternKinds' = PatternKinds BY <1>2, KindsSame
<1>4. Building(words)' BY <1>1, <1>2, BuildingSame DEF MatcherInv
<1>5. Owning(words) => Owning(words)' BY <1>2, OwningSame
<1>6. Finishing(words, done) => Finishing(words, done)' BY <1>2, FinishingSame
<1>7. Scanning(words) /\ Reports => Scanning(words)' /\ Reports'
  <2>1. Scanning(words) => offset' \in 0 .. Len(input) BY <1>2 DEF Scanning
  <2> QED BY <1>2, <2>1, ScanSame
<1>8. NothingScanned => NothingScanned' BY <1>2 DEF NothingScanned
<1>9. TooLarge => TooLarge'
  <2>1. \A kk : Begun(kk)' = Begun(kk) BY <1>2 DEF Begun, Literals
  <2> QED BY <1>2, <2>1 DEF TooLarge
<1>10. MatcherInv(words, done)'
  BY <1>1, <1>2, <1>3, <1>4, <1>5, <1>6, <1>7, <1>8, <1>9 DEF MatcherInv
<1> QED BY <1>10 DEF MatcherOk

(* What the invariant is for.                                              *)
LEMMA MatcherReports ==
    ASSUME MatcherOk
    PROVE  MatchesAreOccurrences /\ RefusedOnlyIfTooLarge
<1>1. PICK words, done : MatcherInv(words, done) BY DEF MatcherOk
<1>2. patterns \in Seq(Pattern) /\ Building(words) BY <1>1 DEF MatcherInv, Building
<1>3. Reports
  <2>1. CASE pc = "scan" BY <1>1, <2>1 DEF MatcherInv
  <2>2. CASE pc # "scan"
    <3>1. matches = <<>> /\ input = <<>> BY <1>1, <2>2 DEF MatcherInv, NothingScanned
    <3>2. Occurrences(patterns, <<>>) = {} BY DEF Occurrences
    <3> QED BY <3>1, <3>2, ListsEmpty DEF Reports
  <2> QED BY <2>1, <2>2
<1>4. MatchesAreOccurrences
  <2>1. Lists(matches, Occurrences(patterns, input)) BY <1>3 DEF Reports
  <2>2. /\ ToSet(matches) = Occurrences(patterns, input) /\ DOMAIN matches = 1 .. Len(matches)
        /\ Len(matches) = Cardinality(Occurrences(patterns, input))
    BY <2>1, ListsFacts, ListsCounts
  <2>3. \A i, j \in DOMAIN matches : i < j => matches[i].end <= matches[j].end
    <3>1. \A i, j \in DOMAIN matches : i <= j => matches[i].end <= matches[j].end BY <1>3 DEF Reports
    <3>2. \A i, j \in DOMAIN matches : i < j => i <= j BY <2>2
    <3> QED BY <3>1, <3>2
  <2> QED BY <2>2, <2>3 DEF MatchesAreOccurrences
<1>5. pc = "failed" => TooLarge BY <1>1 DEF MatcherInv
<1>6. pc = "scan" => ~TooLarge
  <2> SUFFICES ASSUME pc = "scan" PROVE ~TooLarge OBVIOUS
  <2>1. inserted = Len(patterns) /\ patterns # <<>> BY <1>1 DEF MatcherInv, Finishing
  <2>2. \A k \in Kinds : Cardinality(Begun(k)) \in Nat /\ Cardinality(Begun(k)) <= MaxStates
    BY <1>2, <2>1, BuiltFits
  <2>3. DOMAIN patterns = 1 .. inserted BY <1>2, <2>1
  <2>4. \A i \in DOMAIN patterns : patterns[i].literal # <<>> BY <1>2, <2>3 DEF Building
  <2>5. \A k \in Kinds : ~(Cardinality(Begun(k)) > MaxStates) BY <2>2, MatcherAssumption
  <2> QED BY <2>1, <2>4, <2>5 DEF TooLarge
<1>7. RefusedOnlyIfTooLarge BY <1>5, <1>6 DEF RefusedOnlyIfTooLarge, TooLarge
<1> QED BY <1>4, <1>7

----------------------------------------------------------------------------
(* The trigger table.                                                      *)

LEMMA KeyIs ==
    ASSUME NEW t \in Pattern
    PROVE  Key(t) = [literal |-> Translated(t.kind, t.literal), kind |-> t.kind]
<1>1. PICK l : l = t.literal OBVIOUS
<1>2. PICK k : k = t.kind OBVIOUS
<1>3. t = [literal |-> l, kind |-> k] BY <1>1, <1>2 DEF Pattern
<1>4. PICK x : x = [i \in DOMAIN l |-> Tab(k, l[i])] OBVIOUS
<1>5. Key(t) = [t EXCEPT !.literal = x] BY <1>1, <1>2, <1>4, Zenon DEF Key
<1>6. [t EXCEPT !.literal = x] = [literal |-> x, kind |-> k]
  <2>1. [[literal |-> l, kind |-> k] EXCEPT !.literal = x] = [literal |-> x, kind |-> k] OBVIOUS
  <2> QED BY <1>3, <2>1
<1>7. x = Translated(k, l) BY <1>4 DEF Translated
<1> QED BY <1>1, <1>2, <1>5, <1>6, <1>7

(* What one more request adds.                                             *)
Request(r, t) == [rule |-> r, key |-> Key(t)]

LEMMA AskedGrows ==
    ASSUME NEW Q, NEW r, NEW t, NEW p
    PROVE  AskedBy(Q \cup {Request(r, t)}, p) = AskedBy(Q, p) \cup (IF Key(t) = Key(p) THEN {r} ELSE {})
<1>1. Request(r, t).rule = r /\ Request(r, t).key = Key(t) BY DEF Request
<1> HIDE DEF Request
<1>2. \A x : x \in AskedBy(Q, p) <=> \E q \in Q : q.key = Key(p) /\ x = q.rule BY DEF AskedBy
<1>3. \A x : x \in AskedBy(Q \cup {Request(r, t)}, p)
                <=> \E q \in Q \cup {Request(r, t)} : q.key = Key(p) /\ x = q.rule BY DEF AskedBy
<1> QED BY <1>1, <1>2, <1>3

LEMMA LastIsHighest ==
    ASSUME NEW s \in Seq(Nat), s # <<>>, Ascending(s), NEW r \in Nat, \A i \in 1 .. Len(s) : s[i] <= r
    PROVE  /\ Last(s) = r <=> r \in ToSet(s)
           /\ Last(s) # r => Ascending(Append(s, r))
<1>1. Len(s) \in Nat /\ Len(s) > 0 /\ DOMAIN s = 1 .. Len(s) /\ \A i \in 1 .. Len(s) : s[i] \in Nat OBVIOUS
<1>2. Last(s) = s[Len(s)] BY DEF Last
<1>3. ASSUME NEW i \in 1 .. Len(s), s[i] = r PROVE i = Len(s)
  <2>1. PICK l \in Nat : l = Len(s) BY <1>1
  <2>2. l \in 1 .. Len(s) BY <1>1, <2>1
  <2>3. i < l => s[i] < s[l] BY <2>2 DEF Ascending
  <2>4. s[l] <= r /\ s[l] \in Nat BY <1>1, <2>2
  <2>5. ~(i < l) BY <1>3, <2>3, <2>4
  <2>6. i <= l /\ i \in Nat BY <1>1, <2>1
  <2> QED BY <2>1, <2>5, <2>6
<1>4. Last(s) = r <=> r \in ToSet(s)
  <2>1. r \in ToSet(s) <=> \E i \in 1 .. Len(s) : s[i] = r BY <1>1 DEF ToSet
  <2>2. Len(s) \in 1 .. Len(s) BY <1>1
  <2> QED BY <1>2, <1>3, <2>1, <2>2
<1>5. ASSUME Last(s) # r PROVE Ascending(Append(s, r))
  <2>1. PICK q : q = Append(s, r) OBVIOUS
  <2>2. Len(q) = Len(s) + 1 /\ q[Len(s) + 1] = r /\ \A i \in 1 .. Len(s) : q[i] = s[i]
    BY <2>1, AppendProperties
  <2>3. ASSUME NEW i \in 1 .. Len(q), NEW j \in 1 .. Len(q), i < j PROVE q[i] < q[j]
    <3>1. i \in 1 .. Len(s) /\ q[i] = s[i] /\ s[i] <= r /\ s[i] \in Nat BY <1>1, <2>2, <2>3
    <3>2. CASE j = Len(s) + 1
      <4>1. s[i] # r BY <1>2, <1>3, <1>5, <3>1
      <4> QED BY <2>2, <3>1, <3>2, <4>1
    <3>3. CASE j \in 1 .. Len(s) BY <2>2, <2>3, <3>1, <3>3 DEF Ascending
    <3> QED BY <1>1, <2>2, <3>2, <3>3
  <2> QED BY <2>1, <2>3 DEF Ascending
<1> QED BY <1>4, <1>5

Redispatched(P, D, i, q) == [[patterns |-> P, dispatch |-> D] EXCEPT !.dispatch[i] = q]

LEMMA ExceptDispatch ==
    ASSUME NEW P, NEW D, NEW i, NEW q
    PROVE  Redispatched(P, D, i, q) = [patterns |-> P, dispatch |-> [D EXCEPT ![i] = q]]
BY DEF Redispatched

(* Enter answers one more request and no other.                            *)

LEMMA EnterTabled ==
    ASSUME NEW tab, NEW Q, NEW r \in Nat, Tabled(tab, Q, r), NEW t \in Pattern
    PROVE  Tabled(Enter(tab, r, t), Q \cup {Request(r, t)}, r)
<1>1. PICK P : P = tab.patterns OBVIOUS
<1>2. PICK D : D = tab.dispatch OBVIOUS
<1>3. /\ tab = [patterns |-> P, dispatch |-> D] /\ P \in Seq(Pattern) /\ D \in Seq(Seq(Nat))
      /\ Len(D) = Len(P) /\ DOMAIN P = 1 .. Len(P) /\ DOMAIN D = 1 .. Len(P) /\ Len(P) \in Nat
  BY <1>1, <1>2 DEF Tabled
<1>4. /\ \A i, j \in 1 .. Len(P) : Key(P[i]) = Key(P[j]) => i = j
      /\ \A i \in 1 .. Len(P) : D[i] # <<>> /\ Ascending(D[i]) /\ ToSet(D[i]) = AskedBy(Q, P[i])
      /\ \A q \in Q : q.rule \in 0 .. r /\ \E i \in 1 .. Len(P) : Key(P[i]) = q.key
  BY <1>1, <1>2, <1>3 DEF Tabled
<1>5. PICK Q2 : Q2 = Q \cup {Request(r, t)} OBVIOUS
<1>6. \A p : AskedBy(Q2, p) = AskedBy(Q, p) \cup (IF Key(t) = Key(p) THEN {r} ELSE {})
  BY <1>5, AskedGrows
<1>7. Request(r, t).rule = r /\ Request(r, t).key = Key(t) BY DEF Request
<1> HIDE DEF Request
<1>8. \A p : AskedBy(Q, p) \subseteq 0 .. r BY <1>4 DEF AskedBy
<1>9. PICK known : known = {i \in 1 .. Len(P) : Key(P[i]) = Key(t)} OBVIOUS
<1>10. Enter(tab, r, t) =
          IF known = {} THEN [patterns |-> Append(P, t), dispatch |-> Append(D, <<r>>)]
          ELSE LET i == CHOOSE i \in known : TRUE
               IN  IF Last(D[i]) = r THEN tab ELSE [tab EXCEPT !.dispatch[i] = Append(@, r)]
  BY <1>1, <1>2, <1>3, <1>9, Zenon DEF Enter
<1>11. CASE known = {}
  <2>1. PICK P2 : P2 = Append(P, t) OBVIOUS
  <2>2. PICK D2 : D2 = Append(D, <<r>>) OBVIOUS
  <2>3. PICK n \in Nat : n = Len(P) + 1 BY <1>3
  <2>4. PICK tab2 : tab2 = [patterns |-> P2, dispatch |-> D2] OBVIOUS
  <2>5. Enter(tab, r, t) = tab2 /\ tab2.patterns = P2 /\ tab2.dispatch = D2
    BY <1>10, <1>11, <2>1, <2>2, <2>4
  <2>6. P2 \in Seq(Pattern) /\ Len(P2) = n /\ P2[n] = t /\ \A i \in 1 .. Len(P) : P2[i] = P[i]
    BY <1>3, <2>1, <2>3, AppendProperties
  <2>7. D2 \in Seq(Seq(Nat)) /\ Len(D2) = n /\ D2[n] = <<r>> /\ \A i \in 1 .. Len(P) : D2[i] = D[i]
    <3>1. <<r>> \in Seq(Nat) OBVIOUS
    <3> QED BY <1>3, <2>2, <2>3, <3>1, AppendProperties
  <2>8. 1 .. n = 1 .. Len(P) \cup {n} /\ n \notin 1 .. Len(P) /\ DOMAIN P2 = 1 .. n
    BY <1>3, <2>3, <2>6
  <2>9. \A i \in 1 .. Len(P) : Key(P[i]) # Key(t) BY <1>9, <1>11
  <2>10. \A i, j \in 1 .. n : Key(P2[i]) = Key(P2[j]) => i = j BY <1>4, <2>6, <2>8, <2>9
  <2>11. ASSUME NEW i \in 1 .. n
         PROVE  D2[i] # <<>> /\ Ascending(D2[i]) /\ ToSet(D2[i]) = AskedBy(Q2, P2[i])
    <3>1. CASE i = n
      <4>1. AskedBy(Q, t) = {} BY <1>4, <2>9 DEF AskedBy
      <4>2. AskedBy(Q2, t) = {r} BY <1>6, <4>1
      <4>3. <<r>> # <<>> /\ ToSet(<<r>>) = {r} /\ Ascending(<<r>>) BY DEF ToSet, Ascending
      <4> QED BY <2>6, <2>7, <3>1, <4>2, <4>3
    <3>2. CASE i \in 1 .. Len(P)
      <4>1. AskedBy(Q2, P[i]) = AskedBy(Q, P[i]) BY <1>6, <2>9, <3>2
      <4> QED BY <1>4, <2>6, <2>7, <3>2, <4>1
    <3> QED BY <2>8, <3>1, <3>2
  <2>12. ASSUME NEW q \in Q2 PROVE q.rule \in 0 .. r /\ \E i \in 1 .. n : Key(P2[i]) = q.key
    <3>1. CASE q \in Q
      <4>1. PICK i \in 1 .. Len(P) : Key(P[i]) = q.key BY <1>4, <3>1
      <4> QED BY <1>4, <2>6, <2>8, <3>1, <4>1
    <3>2. CASE q = Request(r, t) BY <1>7, <2>6, <2>8, <3>2
    <3> QED BY <1>5, <2>12, <3>1, <3>2
  <2>13. tab2 \in [patterns : Seq(Pattern), dispatch : Seq(Seq(Nat))] BY <2>4, <2>6, <2>7
  <2>14. Tabled(tab2, Q2, r) BY <2>5, <2>6, <2>7, <2>8, <2>10, <2>11, <2>12, <2>13 DEF Tabled
  <2> QED BY <1>5, <2>5, <2>14
<1>12. CASE known # {}
  <2>1. PICK i \in known : i = CHOOSE k \in known : TRUE BY <1>12
  <2>2. i \in 1 .. Len(P) /\ Key(P[i]) = Key(t) BY <1>9
  <2>3. D[i] \in Seq(Nat) /\ D[i] # <<>> /\ Ascending(D[i]) /\ ToSet(D[i]) = AskedBy(Q, P[i])
    BY <1>3, <1>4, <2>2
  <2>4. PICK s \in Seq(Nat) : s = D[i] BY <2>3
  <2>5. \A j \in 1 .. Len(s) : s[j] <= r
    <3>1. \A j \in 1 .. Len(s) : s[j] \in ToSet(s) BY DEF ToSet
    <3>2. ToSet(s) \subseteq 0 .. r BY <1>8, <2>3, <2>4
    <3> QED BY <3>1, <3>2
  <2>6. (Last(s) = r <=> r \in ToSet(s)) /\ (Last(s) # r => Ascending(Append(s, r)))
    BY <2>3, <2>4, <2>5, LastIsHighest
  <2>7. \A j \in 1 .. Len(P) : j # i => AskedBy(Q2, P[j]) = AskedBy(Q, P[j]) BY <1>4, <1>6, <2>2
  <2>8. AskedBy(Q2, P[i]) = AskedBy(Q, P[i]) \cup {r} BY <1>6, <2>2
  <2>9. \A q \in Q2 : q.rule \in 0 .. r /\ \E j \in 1 .. Len(P) : Key(P[j]) = q.key
    <3> TAKE q \in Q2
    <3>1. CASE q \in Q BY <1>4, <3>1
    <3>2. CASE q = Request(r, t) BY <1>7, <2>2, <3>2
    <3> QED BY <1>5, <3>1, <3>2
  <2>10. CASE Last(s) = r
    <3>1. Enter(tab, r, t) = tab BY <1>10, <1>12, <2>1, <2>4, <2>10
    <3>2. \A j \in 1 .. Len(P) : ToSet(D[j]) = AskedBy(Q2, P[j])
      <4> TAKE j \in 1 .. Len(P)
      <4>1. r \in AskedBy(Q, P[i]) BY <2>3, <2>4, <2>6, <2>10
      <4>2. CASE j = i BY <2>3, <2>8, <4>1, <4>2
      <4>3. CASE j # i BY <1>4, <2>7, <4>3
      <4> QED BY <4>2, <4>3
    <3>3. Tabled(tab, Q2, r) BY <1>1, <1>2, <1>3, <1>4, <2>9, <3>2 DEF Tabled
    <3> QED BY <1>5, <3>1, <3>3
  <2>11. CASE Last(s) # r
    <3>1. PICK D2 : D2 = [D EXCEPT ![i] = Append(s, r)] OBVIOUS
    <3>2. PICK tab2 : tab2 = [patterns |-> P, dispatch |-> D2] OBVIOUS
    <3>3. Enter(tab, r, t) = tab2
      <4>1. PICK q : q = Append(s, r) OBVIOUS
      <4>2. Enter(tab, r, t) = [tab EXCEPT !.dispatch[i] = q]
        BY <1>2, <1>10, <1>12, <2>1, <2>4, <2>11, <4>1
      <4>3. [tab EXCEPT !.dispatch[i] = q] = Redispatched(P, D, i, q) BY <1>3, Zenon DEF Redispatched
      <4>4. Redispatched(P, D, i, q) = [patterns |-> P, dispatch |-> [D EXCEPT ![i] = q]]
        BY ExceptDispatch
      <4> QED BY <3>1, <3>2, <4>1, <4>2, <4>3, <4>4
    <3>4. Append(s, r) \in Seq(Nat) /\ Append(s, r) # <<>> /\ ToSet(Append(s, r)) = ToSet(s) \cup {r}
      <4>1. PICK q : q = Append(s, r) OBVIOUS
      <4>2. q \in Seq(Nat) /\ Len(q) = Len(s) + 1 /\ q[Len(s) + 1] = r /\ \A j \in 1 .. Len(s) : q[j] = s[j]
        BY <4>1, AppendProperties
      <4>3. ToSet(q) = ToSet(s) \cup {r}
        <5>1. DOMAIN q = 1 .. Len(s) \cup {Len(s) + 1} /\ DOMAIN s = 1 .. Len(s) BY <4>2
        <5> QED BY <4>2, <5>1 DEF ToSet
      <4> QED BY <4>1, <4>2, <4>3
    <3>5. D2 \in Seq(Seq(Nat)) /\ Len(D2) = Len(P) /\ D2[i] = Append(s, r)
          /\ \A j \in 1 .. Len(P) : j # i => D2[j] = D[j]
      BY <1>3, <2>2, <3>1, <3>4
    <3>6. ASSUME NEW j \in 1 .. Len(P)
          PROVE  D2[j] # <<>> /\ Ascending(D2[j]) /\ ToSet(D2[j]) = AskedBy(Q2, P[j])
      <4>1. CASE j = i BY <2>3, <2>4, <2>6, <2>8, <2>11, <3>4, <3>5, <4>1
      <4>2. CASE j # i BY <1>4, <2>7, <3>5, <4>2
      <4> QED BY <4>1, <4>2
    <3>7. tab2.patterns = P /\ tab2.dispatch = D2
          /\ tab2 \in [patterns : Seq(Pattern), dispatch : Seq(Seq(Nat))]
      BY <1>3, <3>2, <3>5
    <3>8. DOMAIN P = 1 .. Len(P) /\ \A a, b \in 1 .. Len(P) : Key(P[a]) = Key(P[b]) => a = b
      BY <1>3, <1>4
    <3>9. Tabled(tab2, Q2, r) BY <2>9, <3>5, <3>6, <3>7, <3>8 DEF Tabled
    <3> QED BY <1>5, <3>3, <3>9
  <2> QED BY <2>10, <2>11
<1> QED BY <1>11, <1>12

(* The recursive function in EnterAll.                                     *)
EnteredOnes(tab, r, triggers, n) ==
    LET entered[i \in 0 .. n] == IF i = 0 THEN tab ELSE Enter(entered[i - 1], r, triggers[i])
    IN  entered

LEMMA EnteredOnesDef ==
    ASSUME NEW tab, NEW r, NEW triggers, NEW n \in Nat
    PROVE  EnteredOnes(tab, r, triggers, n) = [i \in 0 .. n |->
               IF i = 0 THEN tab ELSE Enter(EnteredOnes(tab, r, triggers, n)[i - 1], r, triggers[i])]
<1> DEFINE base == tab
           St(a, i) == Enter(a, r, triggers[i])
           Is(f, k) == f = [i \in 0 .. k |-> IF i = 0 THEN base ELSE St(f[i - 1], i)]
           P == {k \in Nat : \E f : Is(f, k)}
<1> HIDE DEF base, St
<1>1. 0 \in P
  <2>1. Is([i \in 0 .. 0 |-> base], 0) OBVIOUS
  <2> QED BY <2>1
<1>2. ASSUME NEW k \in Nat, k \in P PROVE k + 1 \in P
  <2>1. PICK f : Is(f, k) BY <1>2
  <2> DEFINE g == [i \in 0 .. k + 1 |-> IF i = k + 1 THEN St(f[k], k + 1) ELSE f[i]]
  <2>2. \A i \in 0 .. k : f[i] = IF i = 0 THEN base ELSE St(f[i - 1], i) BY <2>1
  <2>3. \A i \in 0 .. k : g[i] = f[i] OBVIOUS
  <2>4. g[k + 1] = St(f[k], k + 1) OBVIOUS
  <2>5. g = [i \in 0 .. k + 1 |-> g[i]] OBVIOUS
  <2> HIDE DEF g, Is
  <2>6. ASSUME NEW i \in 0 .. k + 1 PROVE g[i] = IF i = 0 THEN base ELSE St(g[i - 1], i)
    <3>1. CASE i = k + 1
      <4>1. i - 1 = k /\ k \in 0 .. k /\ i # 0 BY <3>1
      <4> QED BY <4>1, <3>1, <2>3, <2>4
    <3>2. CASE i = 0 BY <3>2, <2>2, <2>3
    <3>3. CASE i \in 1 .. k
      <4>1. i - 1 \in 0 .. k /\ i \in 0 .. k /\ i # 0 BY <3>3
      <4> QED BY <4>1, <2>2, <2>3
    <3> QED BY <3>1, <3>2, <3>3
  <2>7. Is(g, k + 1) BY <2>5, <2>6, Zenon DEF Is
  <2> QED BY <2>7
<1>3. Nat \subseteq P
  <2> HIDE DEF P
  <2> QED BY <1>1, <1>2, Inductive
<1>4. \E f : Is(f, n) BY <1>3
<1> QED BY <1>4 DEF EnteredOnes, base, St

LEMMA EnteredOnesAt ==
    ASSUME NEW tab, NEW r, NEW triggers, NEW n \in Nat
    PROVE  /\ EnteredOnes(tab, r, triggers, n)[0] = tab
           /\ \A i \in 1 .. n : EnteredOnes(tab, r, triggers, n)[i] =
                    Enter(EnteredOnes(tab, r, triggers, n)[i - 1], r, triggers[i])
<1> DEFINE f == EnteredOnes(tab, r, triggers, n)
           base == tab
           St(a, i) == Enter(a, r, triggers[i])
<1>1. f = [k \in 0 .. n |-> IF k = 0 THEN base ELSE St(f[k - 1], k)] BY EnteredOnesDef
<1> HIDE DEF f, base, St
<1>2. f[0] = base BY <1>1
<1>3. \A i \in 1 .. n : f[i] = St(f[i - 1], i)
  <2>1. \A i \in 1 .. n : i \in 0 .. n /\ i # 0 OBVIOUS
  <2> QED BY <1>1, <2>1
<1> QED BY <1>2, <1>3 DEF f, base, St

(* The recursive function in CompileTriggers.                              *)
CompiledRules(list, n) ==
    LET compiled[i \in 0 .. n] ==
            IF i = 0 THEN [patterns |-> <<>>, dispatch |-> <<>>]
            ELSE EnterAll(compiled[i - 1], i, list[i].triggers)
    IN  compiled

LEMMA CompiledRulesDef ==
    ASSUME NEW list, NEW n \in Nat
    PROVE  CompiledRules(list, n) = [i \in 0 .. n |->
               IF i = 0 THEN [patterns |-> <<>>, dispatch |-> <<>>]
               ELSE EnterAll(CompiledRules(list, n)[i - 1], i, list[i].triggers)]
<1> DEFINE base == [patterns |-> <<>>, dispatch |-> <<>>]
           St(a, i) == EnterAll(a, i, list[i].triggers)
           Is(f, k) == f = [i \in 0 .. k |-> IF i = 0 THEN base ELSE St(f[i - 1], i)]
           P == {k \in Nat : \E f : Is(f, k)}
<1> HIDE DEF base, St
<1>1. 0 \in P
  <2>1. Is([i \in 0 .. 0 |-> base], 0) OBVIOUS
  <2> QED BY <2>1
<1>2. ASSUME NEW k \in Nat, k \in P PROVE k + 1 \in P
  <2>1. PICK f : Is(f, k) BY <1>2
  <2> DEFINE g == [i \in 0 .. k + 1 |-> IF i = k + 1 THEN St(f[k], k + 1) ELSE f[i]]
  <2>2. \A i \in 0 .. k : f[i] = IF i = 0 THEN base ELSE St(f[i - 1], i) BY <2>1
  <2>3. \A i \in 0 .. k : g[i] = f[i] OBVIOUS
  <2>4. g[k + 1] = St(f[k], k + 1) OBVIOUS
  <2>5. g = [i \in 0 .. k + 1 |-> g[i]] OBVIOUS
  <2> HIDE DEF g, Is
  <2>6. ASSUME NEW i \in 0 .. k + 1 PROVE g[i] = IF i = 0 THEN base ELSE St(g[i - 1], i)
    <3>1. CASE i = k + 1
      <4>1. i - 1 = k /\ k \in 0 .. k /\ i # 0 BY <3>1
      <4> QED BY <4>1, <3>1, <2>3, <2>4
    <3>2. CASE i = 0 BY <3>2, <2>2, <2>3
    <3>3. CASE i \in 1 .. k
      <4>1. i - 1 \in 0 .. k /\ i \in 0 .. k /\ i # 0 BY <3>3
      <4> QED BY <4>1, <2>2, <2>3
    <3> QED BY <3>1, <3>2, <3>3
  <2>7. Is(g, k + 1) BY <2>5, <2>6, Zenon DEF Is
  <2> QED BY <2>7
<1>3. Nat \subseteq P
  <2> HIDE DEF P
  <2> QED BY <1>1, <1>2, Inductive
<1>4. \E f : Is(f, n) BY <1>3
<1> QED BY <1>4 DEF CompiledRules, base, St

LEMMA CompiledRulesAt ==
    ASSUME NEW list, NEW n \in Nat
    PROVE  /\ CompiledRules(list, n)[0] = [patterns |-> <<>>, dispatch |-> <<>>]
           /\ \A i \in 1 .. n : CompiledRules(list, n)[i] =
                    EnterAll(CompiledRules(list, n)[i - 1], i, list[i].triggers)
<1> DEFINE f == CompiledRules(list, n)
           base == [patterns |-> <<>>, dispatch |-> <<>>]
           St(a, i) == EnterAll(a, i, list[i].triggers)
<1>1. f = [k \in 0 .. n |-> IF k = 0 THEN base ELSE St(f[k - 1], k)] BY CompiledRulesDef
<1> HIDE DEF f, base, St
<1>2. f[0] = base BY <1>1
<1>3. \A i \in 1 .. n : f[i] = St(f[i - 1], i)
  <2>1. \A i \in 1 .. n : i \in 0 .. n /\ i # 0 OBVIOUS
  <2> QED BY <1>1, <2>1
<1> QED BY <1>2, <1>3 DEF f, base, St

(* The triggers of a rule, all of them.                                    *)
LEMMA TabledGrows ==
    ASSUME NEW tab, NEW Q, NEW r \in Nat, Tabled(tab, Q, r), NEW s \in Nat, r <= s, NEW Q2, Q2 = Q
    PROVE  Tabled(tab, Q2, s)
<1>1. \A q \in Q : q.rule \in 0 .. s BY DEF Tabled
<1> QED BY <1>1 DEF Tabled

LEMMA EnterAllTabled ==
    ASSUME NEW tab, NEW Q, NEW r \in Nat, Tabled(tab, Q, r), NEW triggers \in Seq(Pattern)
    PROVE  Tabled(EnterAll(tab, r, triggers),
                  Q \cup {[rule |-> r, key |-> Key(t)] : t \in ToSet(triggers)}, r)
<1>1. PICK n \in Nat : n = Len(triggers) OBVIOUS
<1>2. PICK f : f = EnteredOnes(tab, r, triggers, n) OBVIOUS
<1>3. f[0] = tab /\ \A i \in 1 .. n : f[i] = Enter(f[i - 1], r, triggers[i])
  BY <1>2, EnteredOnesAt
<1> DEFINE Answers(m) == Q \cup {Request(r, triggers[i]) : i \in 1 .. m}
           P == {m \in Nat : m <= n => Tabled(f[m], Answers(m), r)}
<1>4. 0 \in P
  <2>1. Answers(0) = Q OBVIOUS
  <2> QED BY <1>3, <2>1
<1>5. ASSUME NEW m \in Nat, m \in P PROVE m + 1 \in P
  <2> SUFFICES ASSUME m + 1 <= n PROVE Tabled(f[m + 1], Answers(m + 1), r) OBVIOUS
  <2>1. PICK j : j = m + 1 /\ j - 1 = m OBVIOUS
  <2>2. j \in 1 .. n /\ triggers[j] \in Pattern BY <1>1, <2>1
  <2>3. f[j] = Enter(f[m], r, triggers[j]) BY <1>3, <2>1, <2>2
  <2>4. Tabled(f[m], Answers(m), r) BY <1>1, <1>5
  <2>5. Answers(j) = Answers(m) \cup {Request(r, triggers[j])}
    <3>1. 1 .. j = 1 .. m \cup {j} BY <2>1
    <3> QED BY <3>1
  <2> HIDE DEF Answers
  <2>6. PICK tb : tb = f[m] OBVIOUS
  <2>7. PICK qs : qs = Answers(m) OBVIOUS
  <2>8. Tabled(Enter(tb, r, triggers[j]), qs \cup {Request(r, triggers[j])}, r)
    BY <2>2, <2>4, <2>6, <2>7, EnterTabled
  <2> QED BY <2>1, <2>3, <2>5, <2>6, <2>7, <2>8
<1>6. Nat \subseteq P
  <2> HIDE DEF P
  <2> QED BY <1>4, <1>5, Inductive
<1>7. Tabled(f[n], Answers(n), r)
  <2> HIDE DEF Answers
  <2> QED BY <1>6
<1>8. Answers(n) = Q \cup {[rule |-> r, key |-> Key(t)] : t \in ToSet(triggers)}
  <2>1. DOMAIN triggers = 1 .. n BY <1>1
  <2> QED BY <2>1 DEF ToSet, Request
<1>9. EnterAll(tab, r, triggers) = f[n] BY <1>1, <1>2 DEF EnterAll, EnteredOnes
<1> QED BY <1>7, <1>8, <1>9

Asks(list, r, x) == \E t \in ToSet(list[r].triggers) : x = [rule |-> r, key |-> Key(t)]

LEMMA AskedIs ==
    ASSUME NEW list, NEW n, NEW x
    PROVE  x \in Asked(list, n) <=> \E r \in 1 .. n : Asks(list, r, x)
<1>1. x \in Asked(list, n)
          <=> \E r \in 1 .. n : x \in {[rule |-> r, key |-> Key(t)] : t \in ToSet(list[r].triggers)}
  BY DEF Asked
<1> QED BY <1>1 DEF Asks

(* compileTriggers answers what the rules ask, and nothing else.           *)
LEMMA CompileTriggersTabled ==
    ASSUME NEW list \in Seq(RuleShape)
    PROVE  Tabled(CompileTriggers(list), Asked(list, Len(list)), Len(list))
<1>1. PICK n \in Nat : n = Len(list) OBVIOUS
<1>2. PICK f : f = CompiledRules(list, n) OBVIOUS
<1>3. f[0] = [patterns |-> <<>>, dispatch |-> <<>>]
      /\ \A i \in 1 .. n : f[i] = EnterAll(f[i - 1], i, list[i].triggers)
  BY <1>2, CompiledRulesAt
<1> DEFINE P == {m \in Nat : m <= n => Tabled(f[m], Asked(list, m), m)}
<1>4. 0 \in P
  <2>1. Asked(list, 0) = {} BY DEF Asked
  <2>2. PICK tab : tab = [patterns |-> <<>>, dispatch |-> <<>>] OBVIOUS
  <2>3. tab.patterns = <<>> /\ tab.dispatch = <<>>
        /\ tab \in [patterns : Seq(Pattern), dispatch : Seq(Seq(Nat))] BY <2>2
  <2>4. DOMAIN tab.patterns = {} /\ Len(tab.dispatch) = Len(tab.patterns) BY <2>3
  <2>5. Tabled(tab, {}, 0) BY <2>3, <2>4 DEF Tabled
  <2> QED BY <1>3, <2>1, <2>2, <2>5
<1>5. ASSUME NEW m \in Nat, m \in P PROVE m + 1 \in P
  <2> SUFFICES ASSUME m + 1 <= n PROVE Tabled(f[m + 1], Asked(list, m + 1), m + 1) OBVIOUS
  <2>1. PICK j \in Nat : j = m + 1 /\ j - 1 = m OBVIOUS
  <2>2. j \in 1 .. n /\ list[j] \in RuleShape BY <1>1, <2>1
  <2>3. PICK triggers \in Seq(Pattern) : triggers = list[j].triggers BY <2>2 DEF RuleShape
  <2>4. f[j] = EnterAll(f[m], j, triggers) BY <1>3, <2>1, <2>2, <2>3
  <2>5. Tabled(f[m], Asked(list, m), m) BY <1>1, <1>5
  <2>6. PICK tb : tb = f[m] OBVIOUS
  <2>7. PICK qs : qs = Asked(list, m) OBVIOUS
  <2>8. Tabled(tb, qs, j) BY <2>1, <2>5, <2>6, <2>7, TabledGrows
  <2>9. Tabled(EnterAll(tb, j, triggers), qs \cup {[rule |-> j, key |-> Key(t)] : t \in ToSet(triggers)}, j)
    BY <2>8, EnterAllTabled
  <2>10. Asked(list, j) = qs \cup {[rule |-> j, key |-> Key(t)] : t \in ToSet(triggers)}
    <3>1. 1 .. j = 1 .. m \cup {j} BY <2>1
    <3>2. \A x : x \in Asked(list, j) <=> \E r \in 1 .. j : Asks(list, r, x) BY AskedIs
    <3>3. \A x : x \in qs <=> \E r \in 1 .. m : Asks(list, r, x) BY <2>7, AskedIs
    <3>4. \A x : x \in {[rule |-> j, key |-> Key(t)] : t \in ToSet(triggers)} <=> Asks(list, j, x)
      BY <2>3 DEF Asks
    <3>5. \A x : x \in Asked(list, j)
                    <=> x \in qs \cup {[rule |-> j, key |-> Key(t)] : t \in ToSet(triggers)}
      BY <3>1, <3>2, <3>3, <3>4
    <3> QED BY <3>5
  <2> QED BY <2>1, <2>4, <2>6, <2>9, <2>10
<1>6. Nat \subseteq P
  <2> HIDE DEF P
  <2> QED BY <1>4, <1>5, Inductive
<1>7. Tabled(f[n], Asked(list, n), n) BY <1>6
<1>8. CompileTriggers(list) = f[n] BY <1>1, <1>2 DEF CompileTriggers, CompiledRules
<1> QED BY <1>1, <1>7, <1>8

----------------------------------------------------------------------------
(* The candidates of all matches.                                          *)
LEMMA SetOfConcat ==
    ASSUME NEW S, NEW a \in Seq(S), NEW b \in Seq(S), NEW x
    PROVE  x \in ToSet(a \o b) <=> x \in ToSet(a) \/ x \in ToSet(b)
<1>1. PICK c : c = a \o b OBVIOUS
<1>2. /\ c \in Seq(S) /\ Len(c) = Len(a) + Len(b) /\ Len(a) \in Nat /\ Len(b) \in Nat
      /\ \A i \in 1 .. Len(a) + Len(b) : c[i] = IF i <= Len(a) THEN a[i] ELSE b[i - Len(a)]
  BY <1>1, ConcatProperties
<1>3. DOMAIN a = 1 .. Len(a) /\ DOMAIN b = 1 .. Len(b) /\ DOMAIN c = 1 .. Len(c) BY <1>2
<1>4. ASSUME NEW i \in 1 .. Len(c), c[i] = x PROVE x \in ToSet(a) \/ x \in ToSet(b)
  <2>1. CASE i <= Len(a)
    <3>1. i \in DOMAIN a /\ a[i] = x BY <1>2, <1>3, <1>4, <2>1
    <3> QED BY <3>1 DEF ToSet
  <2>2. CASE i > Len(a)
    <3>1. i - Len(a) \in DOMAIN b /\ b[i - Len(a)] = x BY <1>2, <1>3, <1>4, <2>2
    <3> QED BY <3>1 DEF ToSet
  <2> QED BY <1>2, <2>1, <2>2
<1>5. ASSUME NEW i \in 1 .. Len(a), a[i] = x PROVE x \in ToSet(c)
  <2>1. i \in DOMAIN c /\ c[i] = x BY <1>2, <1>3, <1>5
  <2> QED BY <2>1 DEF ToSet
<1>6. ASSUME NEW i \in 1 .. Len(b), b[i] = x PROVE x \in ToSet(c)
  <2>1. PICK j : j = i + Len(a) OBVIOUS
  <2>2. j \in DOMAIN c /\ c[j] = x BY <1>2, <1>3, <1>6, <2>1
  <2> QED BY <2>2 DEF ToSet
<1> QED BY <1>1, <1>3, <1>4, <1>5, <1>6 DEF ToSet

(* What FlattenSeq does with sequences that are apart.                     *)
Alone(s, n) ==
    /\ \A i \in 1 .. n : Lists(s[i], ToSet(s[i]))
    /\ \A i, j \in 1 .. n : i # j => ToSet(s[i]) \cap ToSet(s[j]) = {}
Flattened(s, n) ==
    /\ \A x : x \in ToSet(FlattenSeq(s)) <=> \E i \in 1 .. n : x \in ToSet(s[i])
    /\ Alone(s, n) => Lists(FlattenSeq(s), ToSet(FlattenSeq(s)))

LEMMA FlattenAll ==
    ASSUME NEW S, NEW n \in Nat, NEW s \in [1 .. n -> Seq(S)]
    PROVE  Flattened(s, n)
<1> DEFINE P == {m \in Nat : \A q \in [1 .. m -> Seq(S)] : Flattened(q, m)}
<1>1. 0 \in P
  <2> SUFFICES ASSUME NEW q \in [1 .. 0 -> Seq(S)] PROVE Flattened(q, 0) OBVIOUS
  <2>1. q = <<>> OBVIOUS
  <2>2. FlattenSeq(q) = <<>> BY <2>1, FlattenIsFlat
  <2>3. ToSet(<<>>) = {} BY DEF ToSet
  <2>4. \A x : x \in ToSet(FlattenSeq(q)) <=> \E i \in 1 .. 0 : x \in ToSet(q[i])
    BY <2>2, <2>3
  <2>5. Lists(FlattenSeq(q), ToSet(FlattenSeq(q)))
    <3>1. Lists(<<>>, {}) BY ListsEmpty
    <3> QED BY <2>2, <2>3, <3>1
  <2> QED BY <2>4, <2>5 DEF Flattened
<1>2. ASSUME NEW m \in Nat, m \in P PROVE m + 1 \in P
  <2> SUFFICES ASSUME NEW q \in [1 .. m + 1 -> Seq(S)] PROVE Flattened(q, m + 1) OBVIOUS
  <2>1. PICK t : t = [i \in 1 .. m |-> q[i]] OBVIOUS
  <2>2. t \in [1 .. m -> Seq(S)] /\ \A i \in 1 .. m : t[i] = q[i] BY <2>1
  <2>3. Flattened(t, m) BY <1>2, <2>2
  <2>4. /\ FlattenSeq(q) = FlattenSeq(t) \o q[m + 1]
        /\ FlattenSeq(q) \in Seq(S) /\ FlattenSeq(t) \in Seq(S)
    BY <2>2, FlattenOneMore
  <2>5. PICK a \in Seq(S) : a = FlattenSeq(t) BY <2>4
  <2>6. PICK b \in Seq(S) : b = q[m + 1]
    <3>1. m + 1 \in 1 .. m + 1 OBVIOUS
    <3> QED BY <3>1
  <2>7. PICK c : c = FlattenSeq(q) OBVIOUS
  <2>8. \A x : x \in ToSet(c) <=> x \in ToSet(a) \/ x \in ToSet(b)
    BY <2>4, <2>5, <2>6, <2>7, SetOfConcat
  <2>9. \A x : x \in ToSet(a) <=> \E i \in 1 .. m : x \in ToSet(q[i])
    BY <2>2, <2>3, <2>5 DEF Flattened
  <2>10. 1 .. m + 1 = 1 .. m \cup {m + 1} /\ m + 1 \notin 1 .. m OBVIOUS
  <2>11. \A x : x \in ToSet(c) <=> \E i \in 1 .. m + 1 : x \in ToSet(q[i])
    BY <2>6, <2>8, <2>9, <2>10
  <2>12. ASSUME Alone(q, m + 1) PROVE Lists(c, ToSet(c))
    <3>1. Alone(t, m) BY <2>2, <2>10, <2>12 DEF Alone
    <3>2. Lists(a, ToSet(a)) BY <2>3, <2>5, <3>1 DEF Flattened
    <3>3. Lists(b, ToSet(b)) BY <2>6, <2>10, <2>12 DEF Alone
    <3>4. ToSet(a) \cap ToSet(b) = {}
      <4>1. \A i \in 1 .. m : ToSet(q[i]) \cap ToSet(b) = {} BY <2>6, <2>10, <2>12 DEF Alone
      <4> QED BY <2>9, <4>1
    <3>5. Lists(a \o b, ToSet(a) \cup ToSet(b)) BY <3>2, <3>3, <3>4, ListsConcat
    <3>6. c = a \o b /\ ToSet(c) = ToSet(a) \cup ToSet(b) BY <2>4, <2>5, <2>6, <2>7, <2>8
    <3> QED BY <3>5, <3>6
  <2> QED BY <2>7, <2>11, <2>12 DEF Flattened
<1>3. Nat \subseteq P
  <2> HIDE DEF P
  <2> QED BY <1>1, <1>2, Inductive
<1> QED BY <1>3

(* One match turned back into candidates.                                  *)
Seen(r, l, e) == [rule |-> r, start |-> e - l, end |-> e]

OneEach(q, d, l, e) ==
    /\ q \in Seq({Seen(r, l, e) : r \in Nat})
    /\ \A x : x \in ToSet(q) <=> \E r \in ToSet(d) : x = Seen(r, l, e)
    /\ Lists(q, ToSet(q))

LEMMA CandidatesOfOne ==
    ASSUME NEW m, NEW d, d = table.dispatch[m.pattern], d \in Seq(Nat), Ascending(d),
           NEW l, l = Len(table.patterns[m.pattern].literal), NEW e, e = m.end
    PROVE  OneEach(CandidatesOf(m), d, l, e)
<1>1. PICK q : q = CandidatesOf(m) OBVIOUS
<1>2. PICK n \in Nat : n = Len(d) OBVIOUS
<1>3. DOMAIN d = 1 .. n /\ \A i \in 1 .. n : d[i] \in Nat BY <1>2
<1>4. q = [i \in 1 .. n |-> Seen(d[i], l, e)] BY <1>1, <1>3 DEF CandidatesOf, Seen
<1>5. PICK S : S = {Seen(r, l, e) : r \in Nat} OBVIOUS
<1>6. \A i \in 1 .. n : Seen(d[i], l, e) \in S BY <1>3, <1>5
<1> HIDE DEF Seen
<1>7. q \in [1 .. n -> S] BY <1>4, <1>6
<1>8. q \in Seq(S) /\ Len(q) = n /\ DOMAIN q = 1 .. n BY <1>7
<1>9. ASSUME NEW x PROVE x \in ToSet(q) <=> \E r \in ToSet(d) : x = Seen(r, l, e)
  BY <1>3, <1>4, <1>8 DEF ToSet
<1>10. \A i, j \in 1 .. n : q[i] = q[j] => i = j
  <2> TAKE i, j \in 1 .. n
  <2> HAVE q[i] = q[j]
  <2>1. Seen(d[i], l, e) = Seen(d[j], l, e) BY <1>4
  <2>2. d[i] = d[j]
    <3>1. Seen(d[i], l, e).rule = d[i] /\ Seen(d[j], l, e).rule = d[j] BY DEF Seen
    <3> QED BY <2>1, <3>1
  <2>3. i < j => d[i] < d[j] BY <1>2 DEF Ascending
  <2>4. j < i => d[j] < d[i] BY <1>2 DEF Ascending
  <2> QED BY <1>3, <2>2, <2>3, <2>4
<1>11. \A i \in 1 .. Len(q) : q[i] \in ToSet(q) BY <1>8 DEF ToSet
<1>12. \A x \in ToSet(q) : \E i \in 1 .. Len(q) : q[i] = x BY <1>8 DEF ToSet
<1>13. Lists(q, ToSet(q))
  <2>1. PICK T : T = ToSet(q) OBVIOUS
  <2>2. \A i \in 1 .. Len(q) : q[i] \in T BY <1>11, <2>1
  <2>3. \A x \in T : \E i \in 1 .. Len(q) : q[i] = x BY <1>12, <2>1
  <2>4. \A i, j \in 1 .. Len(q) : q[i] = q[j] => i = j BY <1>8, <1>10
  <2>5. Enumerates(q, T) BY <2>2, <2>3, <2>4 DEF Enumerates
  <2>6. Lists(q, T) BY <1>8, <2>5, EnumeratedLists
  <2> QED BY <2>1, <2>6
<1> QED BY <1>1, <1>5, <1>8, <1>9, <1>13 DEF OneEach

----------------------------------------------------------------------------
(* Triggers with one key are the same to the matcher.                      *)
AlikeTo(t, p, text) ==
    /\ t.kind = p.kind /\ Len(t.literal) = Len(p.literal)
    /\ \A e : OccursEnding(t, text, e) <=> OccursEnding(p, text, e)

LEMMA OneKeyAlike ==
    ASSUME NEW t \in Pattern, NEW p \in Pattern, Key(t) = Key(p), NEW text
    PROVE  AlikeTo(t, p, text)
<1>1. PICK a : a = Translated(t.kind, t.literal) OBVIOUS
<1>2. PICK b : b = Translated(p.kind, p.literal) OBVIOUS
<1>3. [literal |-> a, kind |-> t.kind] = [literal |-> b, kind |-> p.kind] BY KeyIs, <1>1, <1>2
<1>4. a = b /\ t.kind = p.kind BY <1>3
<1>5. t.literal \in Seq(Bytes) /\ p.literal \in Seq(Bytes) BY DEF Pattern
<1>6. DOMAIN a = DOMAIN t.literal /\ DOMAIN b = DOMAIN p.literal BY <1>1, <1>2 DEF Translated
<1>7. Len(t.literal) = Len(p.literal) BY <1>4, <1>5, <1>6, LenProperties
<1> QED BY <1>1, <1>2, <1>4, <1>7 DEF AlikeTo, OccursEnding

(* And two of one length and kind that end in one place have one key.      *)
LEMMA OnePlaceOneKey ==
    ASSUME NEW t \in Pattern, NEW p \in Pattern, t.kind = p.kind, Len(t.literal) = Len(p.literal),
           NEW text, NEW e, OccursEnding(t, text, e), OccursEnding(p, text, e)
    PROVE  Key(t) = Key(p)
<1>1. Translated(t.kind, t.literal) = Translated(p.kind, p.literal) BY DEF OccursEnding
<1>2. /\ Key(t) = [literal |-> Translated(t.kind, t.literal), kind |-> t.kind]
      /\ Key(p) = [literal |-> Translated(p.kind, p.literal), kind |-> p.kind]
  BY KeyIs
<1> QED BY <1>1, <1>2

(* Where the rules should see something.                                   *)
Sighted(x) ==
    \E r \in 1 .. Len(active) : \E t \in ToSet(active[r].triggers) : \E e \in 1 .. Len(input) :
        OccursEnding(t, input, e) /\ x = Seen(r, Len(t.literal), e)

LEMMA SightedIs ==
    ASSUME active \in Seq(RuleShape), NEW x
    PROVE  x \in UNION {UNION {Sightings(r, t) : t \in ToSet(active[r].triggers)} : r \in DOMAIN active}
               <=> Sighted(x)
<1>1. DOMAIN active = 1 .. Len(active) OBVIOUS
<1>2. ASSUME NEW r, NEW t
      PROVE  x \in Sightings(r, t) <=>
                 \E e \in 1 .. Len(input) : OccursEnding(t, input, e) /\ x = Seen(r, Len(t.literal), e)
  BY Zenon DEF Sightings, Seen
<1>3. x \in UNION {UNION {Sightings(r, t) : t \in ToSet(active[r].triggers)} : r \in DOMAIN active}
          <=> \E r \in 1 .. Len(active) : \E t \in ToSet(active[r].triggers) : x \in Sightings(r, t)
  <2>1. ASSUME NEW r PROVE x \in UNION {Sightings(r, t) : t \in ToSet(active[r].triggers)}
                              <=> \E t \in ToSet(active[r].triggers) : x \in Sightings(r, t)
    OBVIOUS
  <2>2. x \in UNION {UNION {Sightings(r, t) : t \in ToSet(active[r].triggers)} : r \in DOMAIN active}
            <=> \E r \in DOMAIN active :
                    x \in UNION {Sightings(r, t) : t \in ToSet(active[r].triggers)}
    OBVIOUS
  <2> QED BY <1>1, <2>1, <2>2
<1> QED BY <1>2, <1>3 DEF Sighted

(* What one match becomes.                                                 *)
SpottedBy(x, Q, m) ==
    \E r \in AskedBy(Q, table.patterns[m.pattern]) :
        x = Seen(r, Len(table.patterns[m.pattern].literal), m.end)
Spot == [rule : Nat, start : Int, end : Int]
Spotted(q, Q, m) ==
    /\ q \in Seq(Spot) /\ Lists(q, ToSet(q))
    /\ \A x : x \in ToSet(q) <=> SpottedBy(x, Q, m)

LEMMA MatchSpotted ==
    ASSUME NEW Q, NEW n, Tabled(table, Q, n),
           NEW m, m.pattern \in DOMAIN table.patterns, m.end \in Int
    PROVE  Spotted(CandidatesOf(m), Q, m)
<1>1. PICK d : d = table.dispatch[m.pattern] OBVIOUS
<1>2. PICK P : P = table.patterns OBVIOUS
<1>3. P \in Seq(Pattern) /\ table.dispatch \in Seq(Seq(Nat)) /\ Len(table.dispatch) = Len(P)
  BY <1>2 DEF Tabled
<1>4. DOMAIN P = 1 .. Len(P) /\ DOMAIN table.dispatch = 1 .. Len(P) BY <1>3
<1>5. /\ d \in Seq(Nat) /\ P[m.pattern] \in Pattern BY <1>1, <1>2, <1>3, <1>4
<1>6. Ascending(d) /\ ToSet(d) = AskedBy(Q, P[m.pattern]) BY <1>1, <1>2 DEF Tabled
<1>7. PICK l : l = Len(P[m.pattern].literal) OBVIOUS
<1>8. l \in Nat
  <2>1. P[m.pattern].literal \in Seq(Bytes) BY <1>5 DEF Pattern
  <2> QED BY <1>7, <2>1
<1>9. PICK e \in Int : e = m.end OBVIOUS
<1>10. PICK q : q = CandidatesOf(m) OBVIOUS
<1>11. /\ q \in Seq({Seen(r, l, e) : r \in Nat})
       /\ \A x : x \in ToSet(q) <=> \E r \in ToSet(d) : x = Seen(r, l, e)
       /\ Lists(q, ToSet(q))
  <2>1. l = Len(table.patterns[m.pattern].literal) BY <1>2, <1>7
  <2>2. OneEach(CandidatesOf(m), d, l, e) BY <1>1, <1>5, <1>6, <1>9, <2>1, CandidatesOfOne
  <2> QED BY <1>10, <2>2 DEF OneEach
<1>12. q \in Seq(Spot)
  <2>1. \A r \in Nat : Seen(r, l, e) \in Spot BY <1>8 DEF Seen, Spot
  <2>2. {Seen(r, l, e) : r \in Nat} \subseteq Spot BY <2>1
  <2> HIDE DEF Seen, Spot
  <2> QED BY <1>11, <2>2
<1>13. ASSUME NEW x PROVE x \in ToSet(q) <=> SpottedBy(x, Q, m)
  BY <1>2, <1>6, <1>7, <1>9, <1>11 DEF SpottedBy
<1> QED BY <1>10, <1>11, <1>12, <1>13 DEF Spotted

LEMMA AskedFor ==
    ASSUME NEW list, NEW n, NEW p, NEW r
    PROVE  r \in AskedBy(Asked(list, n), p) <=>
               r \in 1 .. n /\ \E t \in ToSet(list[r].triggers) : Key(t) = Key(p)
<1>1. PICK Q : Q = Asked(list, n) OBVIOUS
<1>2. r \in AskedBy(Q, p) <=> \E q \in Q : q.key = Key(p) /\ q.rule = r BY DEF AskedBy
<1>3. ASSUME NEW q \in Q, q.key = Key(p), q.rule = r
      PROVE  r \in 1 .. n /\ \E t \in ToSet(list[r].triggers) : Key(t) = Key(p)
  <2>1. PICK s \in 1 .. n : Asks(list, s, q) BY <1>1, <1>3, AskedIs
  <2>2. PICK t \in ToSet(list[s].triggers) : q = [rule |-> s, key |-> Key(t)] BY <2>1 DEF Asks
  <2>3. s = r /\ Key(t) = Key(p) BY <1>3, <2>2
  <2> QED BY <2>3
<1>4. ASSUME r \in 1 .. n, NEW t \in ToSet(list[r].triggers), Key(t) = Key(p)
      PROVE  \E q \in Q : q.key = Key(p) /\ q.rule = r
  <2>1. PICK q : q = [rule |-> r, key |-> Key(t)] OBVIOUS
  <2>2. Asks(list, r, q) BY <2>1 DEF Asks
  <2>3. q \in Q BY <1>1, <1>4, <2>2, AskedIs
  <2> QED BY <1>4, <2>1, <2>3
<1> QED BY <1>1, <1>2, <1>3, <1>4

LEMMA TriggerTypes ==
    ASSUME NEW list \in Seq(RuleShape), NEW r \in 1 .. Len(list)
    PROVE  /\ list[r] \in RuleShape /\ list[r].triggers \in Seq(Pattern)
           /\ \A t \in ToSet(list[r].triggers) : t \in Pattern
<1>1. list[r] \in RuleShape OBVIOUS
<1>2. list[r].triggers \in Seq(Pattern) BY <1>1 DEF RuleShape
<1> QED BY <1>1, <1>2 DEF ToSet

(* The table, and the matches by it.                                       *)
Lookup ==
    /\ active \in Seq(RuleShape) /\ table = CompileTriggers(active) /\ patterns = table.patterns
    /\ input \in Seq(Bytes) /\ Reports

LEMMA MatchFacts ==
    ASSUME Lookup
    PROVE  /\ Tabled(table, Asked(active, Len(active)), Len(active))
           /\ DOMAIN matches = 1 .. Len(matches) /\ Len(matches) \in Nat
           /\ \A i \in 1 .. Len(matches) :
                 /\ matches[i] = [pattern |-> matches[i].pattern, end |-> matches[i].end]
                 /\ matches[i].pattern \in DOMAIN patterns /\ matches[i].end \in 1 .. Len(input)
                 /\ OccursEnding(patterns[matches[i].pattern], input, matches[i].end)
           /\ \A p \in DOMAIN patterns, e \in 1 .. Len(input) :
                 OccursEnding(patterns[p], input, e) =>
                     \E i \in 1 .. Len(matches) : matches[i] = [pattern |-> p, end |-> e]
           /\ \A i, j \in 1 .. Len(matches) :
                 matches[i].pattern = matches[j].pattern /\ matches[i].end = matches[j].end => i = j
<1>1. Tabled(table, Asked(active, Len(active)), Len(active)) BY CompileTriggersTabled DEF Lookup
<1>2. PICK O : O = Occurrences(patterns, input) OBVIOUS
<1>3. Lists(matches, O) BY <1>2 DEF Lookup, Reports
<1>4. /\ matches \in Seq(O) /\ DOMAIN matches = 1 .. Len(matches) /\ Len(matches) \in Nat
      /\ \A i \in 1 .. Len(matches) : matches[i] \in O
      /\ \A x \in O : \E i \in 1 .. Len(matches) : matches[i] = x
      /\ \A i, j \in 1 .. Len(matches) : matches[i] = matches[j] => i = j
  BY <1>3, ListsFacts
<1>5. \A m : m \in O <=> /\ m \in [pattern : DOMAIN patterns, end : 1 .. Len(input)]
                         /\ OccursEnding(patterns[m.pattern], input, m.end)
  BY <1>2 DEF Occurrences
<1>6. \A i \in 1 .. Len(matches) :
          /\ matches[i] = [pattern |-> matches[i].pattern, end |-> matches[i].end]
          /\ matches[i].pattern \in DOMAIN patterns /\ matches[i].end \in 1 .. Len(input)
          /\ OccursEnding(patterns[matches[i].pattern], input, matches[i].end)
  BY <1>4, <1>5
<1>7. ASSUME NEW p \in DOMAIN patterns, NEW e \in 1 .. Len(input), OccursEnding(patterns[p], input, e)
      PROVE  \E i \in 1 .. Len(matches) : matches[i] = [pattern |-> p, end |-> e]
  <2>1. PICK m : m = [pattern |-> p, end |-> e] OBVIOUS
  <2>2. m \in [pattern : DOMAIN patterns, end : 1 .. Len(input)] /\ m.pattern = p /\ m.end = e BY <2>1
  <2>3. m \in O BY <1>5, <1>7, <2>2
  <2> QED BY <1>4, <2>1, <2>3
<1>8. ASSUME NEW i \in 1 .. Len(matches), NEW j \in 1 .. Len(matches),
             matches[i].pattern = matches[j].pattern, matches[i].end = matches[j].end
      PROVE  i = j
  <2>1. matches[i] = matches[j] BY <1>6, <1>8
  <2> QED BY <1>4, <2>1
<1> QED BY <1>1, <1>4, <1>6, <1>7, <1>8

LEMMA SpottedIsSighted ==
    ASSUME Lookup, NEW Q, Q = Asked(active, Len(active)), NEW x
    PROVE  (\E i \in 1 .. Len(matches) : SpottedBy(x, Q, matches[i])) <=> Sighted(x)
<1>1. patterns = table.patterns /\ active \in Seq(RuleShape) BY DEF Lookup
<1>2. patterns \in Seq(Pattern) BY <1>1, MatchFacts DEF Tabled
<1>3. \A p \in DOMAIN patterns : patterns[p] \in Pattern BY <1>2
<1>4. ASSUME NEW i \in 1 .. Len(matches), SpottedBy(x, Q, matches[i]) PROVE Sighted(x)
  <2>1. PICK p : p = matches[i].pattern OBVIOUS
  <2>2. PICK e : e = matches[i].end OBVIOUS
  <2>3. p \in DOMAIN patterns /\ e \in 1 .. Len(input) /\ OccursEnding(patterns[p], input, e)
    BY <2>1, <2>2, MatchFacts
  <2>4. PICK r \in AskedBy(Q, patterns[p]) : x = Seen(r, Len(patterns[p].literal), e)
    BY <1>1, <1>4, <2>1, <2>2 DEF SpottedBy
  <2>5. PICK t \in ToSet(active[r].triggers) : r \in 1 .. Len(active) /\ Key(t) = Key(patterns[p])
    BY AskedFor
  <2>6. t \in Pattern /\ patterns[p] \in Pattern BY <1>1, <1>3, <2>3, <2>5, TriggerTypes
  <2>7. AlikeTo(t, patterns[p], input) BY <2>5, <2>6, OneKeyAlike
  <2>8. OccursEnding(t, input, e) /\ Len(t.literal) = Len(patterns[p].literal)
    BY <2>3, <2>7 DEF AlikeTo
  <2> QED BY <2>3, <2>4, <2>5, <2>8 DEF Sighted
<1>5. ASSUME NEW r \in 1 .. Len(active), NEW t \in ToSet(active[r].triggers), NEW e \in 1 .. Len(input),
             OccursEnding(t, input, e), x = Seen(r, Len(t.literal), e)
      PROVE  \E i \in 1 .. Len(matches) : SpottedBy(x, Q, matches[i])
  <2>1. PICK q : q = [rule |-> r, key |-> Key(t)] OBVIOUS
  <2>2. Asks(active, r, q) BY <2>1 DEF Asks
  <2>3. q \in Q BY <2>2, AskedIs
  <2>4. PICK p \in DOMAIN patterns : Key(patterns[p]) = Key(t)
    <3>1. \E p \in DOMAIN table.patterns : Key(table.patterns[p]) = q.key BY <2>3, MatchFacts DEF Tabled
    <3> QED BY <1>1, <2>1, <3>1
  <2>5. t \in Pattern /\ patterns[p] \in Pattern BY <1>1, <1>3, TriggerTypes
  <2>6. AlikeTo(t, patterns[p], input) BY <2>4, <2>5, OneKeyAlike
  <2>7. OccursEnding(patterns[p], input, e) /\ Len(t.literal) = Len(patterns[p].literal)
    BY <1>5, <2>6 DEF AlikeTo
  <2>8. PICK i \in 1 .. Len(matches) : matches[i] = [pattern |-> p, end |-> e] BY <2>7, MatchFacts
  <2>9. matches[i].pattern = p /\ matches[i].end = e BY <2>8
  <2>10. r \in AskedBy(Q, patterns[p]) BY <2>4, AskedFor
  <2> QED BY <1>1, <1>5, <2>7, <2>9, <2>10 DEF SpottedBy
<1> QED BY <1>4, <1>5 DEF Sighted

(* Two matches show a rule two places, if its triggers are of one kind.    *)
LEMMA SpottedOnce ==
    ASSUME Lookup, \A r \in DOMAIN active : OneKind(active[r]), NEW Q, Q = Asked(active, Len(active)),
           NEW i \in 1 .. Len(matches), NEW j \in 1 .. Len(matches), NEW x,
           SpottedBy(x, Q, matches[i]), SpottedBy(x, Q, matches[j])
    PROVE  i = j
<1>1. /\ patterns = table.patterns /\ active \in Seq(RuleShape)
      /\ DOMAIN active = 1 .. Len(active)
  BY DEF Lookup
<1>2. patterns \in Seq(Pattern) BY <1>1, MatchFacts DEF Tabled
<1>3. \A p \in DOMAIN patterns : patterns[p] \in Pattern BY <1>2
<1>4. PICK p : p = matches[i].pattern OBVIOUS
<1>5. PICK o : o = matches[j].pattern OBVIOUS
<1>6. PICK e : e = matches[i].end OBVIOUS
<1>7. PICK f : f = matches[j].end OBVIOUS
<1>8. /\ p \in DOMAIN patterns /\ e \in 1 .. Len(input) /\ OccursEnding(patterns[p], input, e)
      /\ o \in DOMAIN patterns /\ f \in 1 .. Len(input) /\ OccursEnding(patterns[o], input, f)
  BY <1>4, <1>5, <1>6, <1>7, MatchFacts
<1>9. PICK r \in AskedBy(Q, patterns[p]) : x = Seen(r, Len(patterns[p].literal), e)
  BY <1>1, <1>4, <1>6 DEF SpottedBy
<1>10. PICK s \in AskedBy(Q, patterns[o]) : x = Seen(s, Len(patterns[o].literal), f)
  BY <1>1, <1>5, <1>7 DEF SpottedBy
<1>11. PICK l \in Nat : l = Len(patterns[p].literal)
  <2>1. patterns[p].literal \in Seq(Bytes) BY <1>3, <1>8 DEF Pattern
  <2> QED BY <2>1
<1>12. PICK m \in Nat : m = Len(patterns[o].literal)
  <2>1. patterns[o].literal \in Seq(Bytes) BY <1>3, <1>8 DEF Pattern
  <2> QED BY <2>1
<1>13. r = s /\ e = f /\ l = m
  <2>1. Seen(r, l, e) = Seen(s, m, f) BY <1>9, <1>10, <1>11, <1>12
  <2>2. r = s /\ e - l = f - m /\ e = f BY <2>1 DEF Seen
  <2> QED BY <1>8, <2>2
<1>14. PICK t \in ToSet(active[r].triggers) : r \in 1 .. Len(active) /\ Key(t) = Key(patterns[p])
  BY <1>9, AskedFor
<1>15. PICK u \in ToSet(active[r].triggers) : Key(u) = Key(patterns[o]) BY <1>10, <1>13, AskedFor
<1>16. t.kind = u.kind
  <2>1. OneKind(active[r]) BY <1>1, <1>14
  <2>2. PICK a \in DOMAIN active[r].triggers : active[r].triggers[a] = t BY <1>14 DEF ToSet
  <2>3. PICK b \in DOMAIN active[r].triggers : active[r].triggers[b] = u BY <1>15 DEF ToSet
  <2> QED BY <2>1, <2>2, <2>3 DEF OneKind
<1>17. t \in Pattern /\ u \in Pattern BY <1>1, <1>14, <1>15, TriggerTypes
<1>18. patterns[p].kind = patterns[o].kind
  <2>1. AlikeTo(t, patterns[p], input) BY <1>3, <1>8, <1>14, <1>17, OneKeyAlike
  <2>2. AlikeTo(u, patterns[o], input) BY <1>3, <1>8, <1>15, <1>17, OneKeyAlike
  <2> QED BY <1>16, <2>1, <2>2 DEF AlikeTo
<1>19. Key(patterns[p]) = Key(patterns[o])
  BY <1>3, <1>8, <1>11, <1>12, <1>13, <1>18, OnePlaceOneKey
<1>20. p = o BY <1>1, <1>8, <1>19, MatchFacts DEF Tabled
<1> QED BY <1>4, <1>5, <1>6, <1>7, <1>13, <1>20, MatchFacts

LEMMA CandidatesReported ==
    ASSUME Lookup
    PROVE  CandidatesAreOccurrences
<1>1. PICK Q : Q = Asked(active, Len(active)) OBVIOUS
<1>2. PICK n \in Nat : n = Len(matches) BY MatchFacts
<1>3. PICK s : s = [i \in 1 .. n |-> CandidatesOf(matches[i])] OBVIOUS
<1>4. ASSUME NEW i \in 1 .. n PROVE Spotted(s[i], Q, matches[i])
  <2>1. Tabled(table, Q, Len(active)) BY <1>1, MatchFacts
  <2>2. matches[i].pattern \in DOMAIN table.patterns /\ matches[i].end \in Int
    <3>1. matches[i].pattern \in DOMAIN patterns /\ matches[i].end \in 1 .. Len(input)
      BY <1>2, MatchFacts
    <3>2. patterns = table.patterns BY DEF Lookup
    <3> QED BY <3>1, <3>2
  <2>3. Spotted(CandidatesOf(matches[i]), Q, matches[i]) BY <2>1, <2>2, MatchSpotted
  <2> QED BY <1>3, <2>3
<1>5. s \in [1 .. n -> Seq(Spot)] BY <1>3, <1>4 DEF Spotted
<1>6. PICK c : c = FlattenSeq(s) OBVIOUS
<1>7. Candidates = c BY <1>2, <1>3, <1>6, MatchFacts DEF Candidates
<1>8. Flattened(s, n) BY <1>5, FlattenAll
<1>9. ASSUME NEW x PROVE x \in ToSet(c) <=> Sighted(x)
  <2>1. x \in ToSet(c) <=> \E i \in 1 .. n : x \in ToSet(s[i]) BY <1>6, <1>8 DEF Flattened
  <2>2. \A i \in 1 .. n : x \in ToSet(s[i]) <=> SpottedBy(x, Q, matches[i]) BY <1>4 DEF Spotted
  <2> QED BY <1>1, <1>2, <2>1, <2>2, SpottedIsSighted
<1>10. ASSUME \A r \in DOMAIN active : OneKind(active[r]) PROVE Len(c) = Cardinality(ToSet(c))
  <2>1. \A i \in 1 .. n : Lists(s[i], ToSet(s[i])) BY <1>4 DEF Spotted
  <2>2. ASSUME NEW i \in 1 .. n, NEW j \in 1 .. n, i # j PROVE ToSet(s[i]) \cap ToSet(s[j]) = {}
    <3>1. \A x : x \in ToSet(s[i]) => SpottedBy(x, Q, matches[i]) BY <1>4 DEF Spotted
    <3>2. \A x : x \in ToSet(s[j]) => SpottedBy(x, Q, matches[j]) BY <1>4 DEF Spotted
    <3> QED BY <1>1, <1>2, <1>10, <2>2, <3>1, <3>2, SpottedOnce
  <2>3. Alone(s, n) BY <2>1, <2>2 DEF Alone
  <2>4. Lists(c, ToSet(c)) BY <1>6, <1>8, <2>3 DEF Flattened
  <2> QED BY <2>4, ListsCounts
<1>11. active \in Seq(RuleShape) BY DEF Lookup
<1>12. PICK U : U = UNION {UNION {Sightings(r, t) : t \in ToSet(active[r].triggers)} : r \in DOMAIN active}
  OBVIOUS
<1>13. \A x : x \in U <=> Sighted(x) BY <1>11, <1>12, SightedIs
<1>14. ToSet(c) = U BY <1>9, <1>13
<1> QED BY <1>7, <1>10, <1>12, <1>14 DEF CandidatesAreOccurrences

----------------------------------------------------------------------------
(* The built-in rules chosen.                                              *)

(* The recursive function in Selection.                                    *)
WithRule(s, i) == IF Selected(Builtins[i]) THEN Append(s, Builtins[i]) ELSE s

ChosenOnes(n) ==
    LET chosen[i \in 0 .. n] ==
            IF i = 0 THEN <<>>
            ELSE IF Selected(Builtins[i]) THEN Append(chosen[i - 1], Builtins[i])
            ELSE chosen[i - 1]
    IN  chosen

LEMMA ChosenOnesDef ==
    ASSUME NEW n \in Nat
    PROVE  ChosenOnes(n) = [i \in 0 .. n |->
               IF i = 0 THEN <<>> ELSE WithRule(ChosenOnes(n)[i - 1], i)]
<1> DEFINE base == <<>>
           St(a, i) == WithRule(a, i)
           Is(f, k) == f = [i \in 0 .. k |-> IF i = 0 THEN base ELSE St(f[i - 1], i)]
           P == {k \in Nat : \E f : Is(f, k)}
<1> HIDE DEF base, St
<1>1. 0 \in P
  <2>1. Is([i \in 0 .. 0 |-> base], 0) OBVIOUS
  <2> QED BY <2>1
<1>2. ASSUME NEW k \in Nat, k \in P PROVE k + 1 \in P
  <2>1. PICK f : Is(f, k) BY <1>2
  <2> DEFINE g == [i \in 0 .. k + 1 |-> IF i = k + 1 THEN St(f[k], k + 1) ELSE f[i]]
  <2>2. \A i \in 0 .. k : f[i] = IF i = 0 THEN base ELSE St(f[i - 1], i) BY <2>1
  <2>3. \A i \in 0 .. k : g[i] = f[i] OBVIOUS
  <2>4. g[k + 1] = St(f[k], k + 1) OBVIOUS
  <2>5. g = [i \in 0 .. k + 1 |-> g[i]] OBVIOUS
  <2> HIDE DEF g, Is
  <2>6. ASSUME NEW i \in 0 .. k + 1 PROVE g[i] = IF i = 0 THEN base ELSE St(g[i - 1], i)
    <3>1. CASE i = k + 1
      <4>1. i - 1 = k /\ k \in 0 .. k /\ i # 0 BY <3>1
      <4> QED BY <4>1, <3>1, <2>3, <2>4
    <3>2. CASE i = 0 BY <3>2, <2>2, <2>3
    <3>3. CASE i \in 1 .. k
      <4>1. i - 1 \in 0 .. k /\ i \in 0 .. k /\ i # 0 BY <3>3
      <4> QED BY <4>1, <2>2, <2>3
    <3> QED BY <3>1, <3>2, <3>3
  <2>7. Is(g, k + 1) BY <2>5, <2>6, Zenon DEF Is
  <2> QED BY <2>7
<1>3. Nat \subseteq P
  <2> HIDE DEF P
  <2> QED BY <1>1, <1>2, Inductive
<1>4. \E f : Is(f, n) BY <1>3
<1> QED BY <1>4 DEF ChosenOnes, base, St, WithRule

LEMMA ChosenOnesAt ==
    ASSUME NEW n \in Nat
    PROVE  /\ ChosenOnes(n)[0] = <<>>
           /\ \A i \in 1 .. n : ChosenOnes(n)[i] = WithRule(ChosenOnes(n)[i - 1], i)
<1> DEFINE f == ChosenOnes(n)
           base == <<>>
           St(a, i) == WithRule(a, i)
<1>1. f = [k \in 0 .. n |-> IF k = 0 THEN base ELSE St(f[k - 1], k)] BY ChosenOnesDef
<1> HIDE DEF f, base, St
<1>2. f[0] = base BY <1>1
<1>3. \A i \in 1 .. n : f[i] = St(f[i - 1], i)
  <2>1. \A i \in 1 .. n : i \in 0 .. n /\ i # 0 OBVIOUS
  <2> QED BY <1>1, <2>1
<1> QED BY <1>2, <1>3 DEF f, base, St


(* s has the rules selected of the first n, each once.                     *)
Picked(s, n) ==
    /\ s \in Seq(RuleShape)
    /\ \A i \in 1 .. Len(s) : \E j \in 1 .. n : s[i] = Builtins[j] /\ Selected(Builtins[j])
    /\ \A j \in 1 .. n : Selected(Builtins[j]) => \E i \in 1 .. Len(s) : s[i] = Builtins[j]
    /\ \A i, k \in 1 .. Len(s) : s[i].id = s[k].id => i = k

LEMMA WithRulePicked ==
    ASSUME NEW n \in Nat, n + 1 <= Len(Builtins), NEW s, Picked(s, n)
    PROVE  Picked(WithRule(s, n + 1), n + 1)
<1>1. PICK m \in Nat : m = n + 1 OBVIOUS
<1>2. PICK r : r = Builtins[m] OBVIOUS
<1>3. /\ Builtins \in Seq(RuleShape) /\ DOMAIN Builtins = 1 .. Len(Builtins) /\ Len(Builtins) \in Nat
      /\ \A i, j \in 1 .. Len(Builtins) : Builtins[i].id = Builtins[j].id => i = j
  BY RuleSetAssumption
<1>4. m \in 1 .. Len(Builtins) /\ r \in RuleShape BY <1>1, <1>2, <1>3
<1>5. /\ s \in Seq(RuleShape) /\ Len(s) \in Nat
      /\ \A i \in 1 .. Len(s) : \E j \in 1 .. n : s[i] = Builtins[j] /\ Selected(Builtins[j])
      /\ \A j \in 1 .. n : Selected(Builtins[j]) => \E i \in 1 .. Len(s) : s[i] = Builtins[j]
      /\ \A i, k \in 1 .. Len(s) : s[i].id = s[k].id => i = k
  BY DEF Picked
<1>6. 1 .. m = 1 .. n \cup {m} /\ m \notin 1 .. n BY <1>1
<1>7. PICK z : z = WithRule(s, m) OBVIOUS
<1>8. CASE ~Selected(r)
  <2>1. z = s BY <1>2, <1>7, <1>8 DEF WithRule
  <2> QED BY <1>1, <1>2, <1>5, <1>6, <1>7, <1>8, <2>1 DEF Picked
<1>9. CASE Selected(r)
  <2>1. z = Append(s, r) BY <1>2, <1>7, <1>9 DEF WithRule
  <2>2. PICK l \in Nat : l = Len(s) BY <1>5
  <2>3. /\ z \in Seq(RuleShape) /\ Len(z) = l + 1 /\ z[l + 1] = r /\ \A i \in 1 .. l : z[i] = s[i]
    BY <1>4, <1>5, <2>1, <2>2, AppendProperties
  <2>4. 1 .. l + 1 = 1 .. l \cup {l + 1} /\ l + 1 \notin 1 .. l OBVIOUS
  <2>5. \A i \in 1 .. l + 1 : \E j \in 1 .. m : z[i] = Builtins[j] /\ Selected(Builtins[j])
    <3>1. \A i \in 1 .. l : \E j \in 1 .. m : z[i] = Builtins[j] /\ Selected(Builtins[j])
      <4> TAKE i \in 1 .. l
      <4>1. PICK j \in 1 .. n : s[i] = Builtins[j] /\ Selected(Builtins[j]) BY <1>5, <2>2
      <4>2. j \in 1 .. m /\ z[i] = Builtins[j] BY <1>6, <2>3, <4>1
      <4> QED BY <4>1, <4>2
    <3>2. m \in 1 .. m /\ z[l + 1] = Builtins[m] /\ Selected(Builtins[m]) BY <1>2, <1>6, <1>9, <2>3
    <3> QED BY <2>4, <3>1, <3>2
  <2>6. \A j \in 1 .. m : Selected(Builtins[j]) => \E i \in 1 .. l + 1 : z[i] = Builtins[j]
    <3>1. \A j \in 1 .. n : Selected(Builtins[j]) => \E i \in 1 .. l + 1 : z[i] = Builtins[j]
      BY <1>5, <2>2, <2>3, <2>4
    <3>2. \E i \in 1 .. l + 1 : z[i] = Builtins[m] BY <1>2, <2>3, <2>4
    <3> QED BY <1>6, <3>1, <3>2
  <2>7. \A i \in 1 .. l : s[i].id # r.id
    <3> TAKE i \in 1 .. l
    <3>1. PICK j \in 1 .. n : s[i] = Builtins[j] BY <1>5, <2>2
    <3>2. j \in 1 .. Len(Builtins) /\ j # m BY <1>3, <1>4, <1>6, <1>1
    <3>3. Builtins[j].id # Builtins[m].id BY <1>3, <1>4, <3>2
    <3> QED BY <1>2, <3>1, <3>3
  <2>8. \A i, k \in 1 .. l + 1 : z[i].id = z[k].id => i = k
    <3>1. \A i, k \in 1 .. l : z[i].id = z[k].id => i = k BY <1>5, <2>2, <2>3
    <3>2. \A i \in 1 .. l : z[i].id # z[l + 1].id BY <2>3, <2>7
    <3> QED BY <2>4, <3>1, <3>2
  <2>9. Picked(z, m)
    <3>1. Len(z) = l + 1 BY <2>3
    <3> QED BY <2>3, <2>5, <2>6, <2>8, <3>1 DEF Picked
  <2> QED BY <1>1, <1>7, <2>9
<1> QED BY <1>8, <1>9

LEMMA SelectionPicked == Picked(Selection, Len(Builtins))
<1>1. PICK n \in Nat : n = Len(Builtins) BY RuleSetAssumption
<1>2. PICK f : f = ChosenOnes(n) OBVIOUS
<1>3. f[0] = <<>> /\ \A i \in 1 .. n : f[i] = WithRule(f[i - 1], i) BY <1>2, ChosenOnesAt
<1>4. Selection = f[n] BY <1>1, <1>2 DEF Selection, ChosenOnes
<1> DEFINE P == {i \in Nat : i <= n => Picked(f[i], i)}
<1>5. 0 \in P
  <2>1. <<>> \in Seq(RuleShape) /\ Len(<<>>) = 0 OBVIOUS
  <2>2. \A i \in 1 .. 0 : FALSE OBVIOUS
  <2>3. Picked(<<>>, 0) BY <2>1, <2>2 DEF Picked
  <2> QED BY <1>3, <2>3
<1>6. ASSUME NEW i \in Nat, i \in P PROVE i + 1 \in P
  <2> SUFFICES ASSUME i + 1 <= n PROVE Picked(f[i + 1], i + 1) OBVIOUS
  <2>1. Picked(f[i], i) BY <1>6
  <2>2. f[i + 1] = WithRule(f[i], i + 1)
    <3>1. i + 1 \in 1 .. n /\ (i + 1) - 1 = i OBVIOUS
    <3> QED BY <1>3, <3>1
  <2> QED BY <1>1, <2>1, <2>2, WithRulePicked
<1>7. Nat \subseteq P
  <2> HIDE DEF P
  <2> QED BY <1>5, <1>6, Inductive
<1> QED BY <1>1, <1>4, <1>7

----------------------------------------------------------------------------
(* Build accepts what the invariant says.                                  *)
HasId(list, n, x) == \E i \in 1 .. n : list[i].id = x

LEMMA IdsOfIs ==
    ASSUME NEW list \in Seq(RuleShape), NEW x
    PROVE  x \in IdsOf(list) <=> HasId(list, Len(list), x)
<1>1. DOMAIN list = 1 .. Len(list) OBVIOUS
<1>2. \A r : r \in ToSet(list) <=> \E i \in 1 .. Len(list) : list[i] = r BY <1>1 DEF ToSet
<1>3. x \in IdsOf(list) <=> \E r \in ToSet(list) : r.id = x BY DEF IdsOf
<1> QED BY <1>2, <1>3 DEF HasId

LEMMA BuiltinsAccepted ==
    ASSUME NEW j \in 1 .. Len(Builtins)
    PROVE  Builtins[j] \in RuleShape /\ Accepted(Builtins[j])
<1>1. PICK r : r = Builtins[j] OBVIOUS
<1>2. r \in RuleShape /\ r \in ToSet(Builtins)
  <2>1. Builtins \in Seq(RuleShape) BY RuleSetAssumption
  <2>2. j \in DOMAIN Builtins /\ Builtins[j] \in RuleShape BY <2>1
  <2> QED BY <1>1, <2>2 DEF ToSet
<1>3. /\ r.triggers # <<>> /\ r.behind >= 0 /\ r.ahead >= 0 /\ r.confidence \in 0 .. 2
      /\ \A n \in Lens(r) : n > 0 /\ TotalWindow(r, n) <= MaxValidationWindow
  BY <1>2, RuleSetAssumption
<1>4. 0 \notin Lens(r) BY <1>3
<1> QED BY <1>1, <1>2, <1>3, <1>4 DEF Accepted

LEMMA SelectionWanted ==
    ASSUME cfg.enable \cup cfg.disable \subseteq Known
    PROVE  /\ Selection \in Seq(RuleShape) /\ \A i \in DOMAIN Selection : Accepted(Selection[i])
           /\ IdsOf(Selection) = Wanted
           /\ \A i, j \in DOMAIN Selection : Selection[i].id = Selection[j].id => i = j
<1>1. PICK s : s = Selection OBVIOUS
<1>2. PICK n : n = Len(Builtins) OBVIOUS
<1>3. Picked(s, n) BY <1>1, <1>2, SelectionPicked
<1>4. Builtins \in Seq(RuleShape) /\ DOMAIN Builtins = 1 .. n BY <1>2, RuleSetAssumption
<1>5. s \in Seq(RuleShape) /\ DOMAIN s = 1 .. Len(s) BY <1>3 DEF Picked
<1>6. \A i \in 1 .. Len(s) : Accepted(s[i])
  <2> TAKE i \in 1 .. Len(s)
  <2>1. PICK j \in 1 .. n : s[i] = Builtins[j] BY <1>3 DEF Picked
  <2> QED BY <1>2, <2>1, BuiltinsAccepted
<1>7. ASSUME NEW x PROVE x \in IdsOf(s) <=> \E j \in 1 .. n : Selected(Builtins[j]) /\ Builtins[j].id = x
  <2>1. x \in IdsOf(s) <=> \E i \in 1 .. Len(s) : s[i].id = x BY <1>5, IdsOfIs DEF HasId
  <2>2. ASSUME NEW i \in 1 .. Len(s), s[i].id = x
        PROVE  \E j \in 1 .. n : Selected(Builtins[j]) /\ Builtins[j].id = x
    <3>1. PICK j \in 1 .. n : s[i] = Builtins[j] /\ Selected(Builtins[j]) BY <1>3 DEF Picked
    <3> QED BY <2>2, <3>1
  <2>3. ASSUME NEW j \in 1 .. n, Selected(Builtins[j]), Builtins[j].id = x
        PROVE  \E i \in 1 .. Len(s) : s[i].id = x
    <3>1. PICK i \in 1 .. Len(s) : s[i] = Builtins[j] BY <1>3, <2>3 DEF Picked
    <3> QED BY <2>3, <3>1
  <2> QED BY <2>1, <2>2, <2>3
<1>8. ASSUME NEW x PROVE x \in Wanted <=> \E j \in 1 .. n : Selected(Builtins[j]) /\ Builtins[j].id = x
  <2>1. x \in Known <=> \E j \in 1 .. n : Builtins[j].id = x BY <1>2, <1>4, IdsOfIs DEF Known, HasId
  <2>2. x \in {r.id : r \in {t \in ToSet(Builtins) : t.minProfile <= Profile}}
            <=> \E j \in 1 .. n : Builtins[j].minProfile <= Profile /\ Builtins[j].id = x
    <3>1. \A r : r \in ToSet(Builtins) <=> \E j \in 1 .. n : Builtins[j] = r BY <1>4 DEF ToSet
    <3>2. x \in {r.id : r \in {t \in ToSet(Builtins) : t.minProfile <= Profile}}
              <=> \E r \in ToSet(Builtins) : r.minProfile <= Profile /\ r.id = x
      OBVIOUS
    <3> QED BY <3>1, <3>2
  <2>3. CASE cfg.enable = {} BY <2>2, <2>3 DEF Wanted, Selected
  <2>4. CASE cfg.enable # {} BY <2>1, <2>4 DEF Wanted, Selected
  <2> QED BY <2>3, <2>4
<1>9. IdsOf(s) = Wanted BY <1>7, <1>8
<1>10. \A i, j \in 1 .. Len(s) : s[i].id = s[j].id => i = j BY <1>3 DEF Picked
<1> QED BY <1>1, <1>5, <1>6, <1>9, <1>10

LEMMA ConvertedAccepted ==
    ASSUME NEW r \in RuleShape, Valid(r), NEW c, c = [r EXCEPT !.confidence = Uint8(@)]
    PROVE  Accepted(c) /\ c.id = r.id
<1>1. PICK b : b = Uint8(r.confidence) OBVIOUS
<1>2. b \in 0 .. 2
  <2>1. r.confidence \in Int BY DEF RuleShape
  <2>2. b <= 2 BY <1>1 DEF Valid
  <2>3. b \in 0 .. 255 BY <1>1, <2>1 DEF Uint8
  <2> QED BY <2>2, <2>3
<1>3. c = [r EXCEPT !.confidence = b] BY <1>1, Zenon
<1>4. /\ c.id = r.id /\ c.minProfile = r.minProfile /\ c.triggers = r.triggers /\ c.behind = r.behind
      /\ c.ahead = r.ahead /\ c.confidence = b /\ c.validator = r.validator
  BY <1>3 DEF RuleShape
<1>5. c \in RuleShape BY <1>2, <1>3 DEF RuleShape
<1>6. Lens(c) = Lens(r) BY <1>4 DEF Lens
<1>7. Fits(c) BY <1>4, <1>6 DEF Fits, Valid
<1> QED BY <1>2, <1>4, <1>5, <1>6, <1>7 DEF Accepted, Valid

(* The custom rule after n of them.                                        *)
LEMMA ChosenGrows ==
    ASSUME cfg \in Config, NEW n \in Nat, n < Len(cfg.custom), Chosen(n),
           NEW r, r = cfg.custom[n + 1], Valid(r), r.id \notin Known \cup IdsOf(active),
           active' = Append(active, [r EXCEPT !.confidence = Uint8(@)]), cfg' = cfg
    PROVE  Chosen(n + 1)'
<1>1. PICK c : c = [r EXCEPT !.confidence = Uint8(@)] OBVIOUS
<1>2. PICK s : s = cfg.custom OBVIOUS
<1>3. s \in Seq(RuleShape) /\ Len(s) \in Nat BY <1>2 DEF Config
<1>4. n + 1 \in 1 .. Len(s) /\ r = s[n + 1] /\ r \in RuleShape BY <1>2, <1>3
<1>5. Accepted(c) /\ c.id = r.id BY <1>1, <1>4, ConvertedAccepted
<1>6. c \in RuleShape BY <1>5 DEF Accepted
<1>7. PICK a \in Seq(RuleShape) : a = active BY DEF Chosen
<1>8. PICK l \in Nat : l = Len(a) OBVIOUS
<1>9. PICK z : z = Append(a, c) OBVIOUS
<1>10. z \in Seq(RuleShape) /\ Len(z) = l + 1 /\ z[l + 1] = c /\ \A i \in 1 .. l : z[i] = a[i]
  BY <1>6, <1>8, <1>9, AppendProperties
<1>11. active' = z BY <1>1, <1>7, <1>9
<1>12. 1 .. l + 1 = 1 .. l \cup {l + 1} /\ DOMAIN z = 1 .. l + 1 /\ DOMAIN a = 1 .. l BY <1>8, <1>10
<1>13. /\ \A i \in 1 .. l : Accepted(a[i])
       /\ \A i, j \in 1 .. l : a[i].id = a[j].id => i = j
       /\ IdsOf(a) = Wanted \cup CustomIds(n) /\ Known \cap CustomIds(n) = {}
       /\ cfg.enable \cup cfg.disable \subseteq Known
  BY <1>7, <1>12 DEF Chosen
<1>14. \A i \in 1 .. l + 1 : Accepted(z[i]) BY <1>5, <1>10, <1>12, <1>13
<1>15. \A i \in 1 .. l : a[i].id # c.id
  <2> TAKE i \in 1 .. l
  <2>1. a[i].id \in IdsOf(a) BY <1>8, IdsOfIs DEF HasId
  <2> QED BY <1>5, <1>7, <2>1
<1>16. \A i, j \in 1 .. l + 1 : z[i].id = z[j].id => i = j BY <1>10, <1>12, <1>13, <1>15
<1>17. CustomIds(n + 1) = CustomIds(n) \cup {c.id}
  <2>1. 1 .. n + 1 = 1 .. n \cup {n + 1} OBVIOUS
  <2>2. \A x : x \in CustomIds(n) <=> \E i \in 1 .. n : s[i].id = x BY <1>2 DEF CustomIds
  <2>3. \A x : x \in CustomIds(n + 1) <=> \E i \in 1 .. n + 1 : s[i].id = x BY <1>2 DEF CustomIds
  <2> QED BY <1>4, <1>5, <2>1, <2>2, <2>3
<1>18. IdsOf(z) = IdsOf(a) \cup {c.id}
  <2>1. \A x : x \in IdsOf(a) <=> \E i \in 1 .. l : a[i].id = x
    <3> TAKE x
    <3>1. x \in IdsOf(a) <=> HasId(a, Len(a), x) BY <1>8, IdsOfIs
    <3> QED BY <1>8, <3>1 DEF HasId
  <2>2. \A x : x \in IdsOf(z) <=> \E i \in 1 .. l + 1 : z[i].id = x
    <3> TAKE x
    <3>1. x \in IdsOf(z) <=> HasId(z, Len(z), x) BY <1>10, IdsOfIs
    <3> QED BY <1>10, <3>1 DEF HasId
  <2>3. \A x : (\E i \in 1 .. l + 1 : z[i].id = x) <=> (\E i \in 1 .. l : a[i].id = x) \/ x = c.id
    BY <1>10, <1>12
  <2>4. \A x : x \in IdsOf(z) <=> x \in IdsOf(a) \/ x = c.id BY <2>1, <2>2, <2>3
  <2> QED BY <2>4
<1>19. Known \cap CustomIds(n + 1) = {} BY <1>5, <1>13, <1>17
<1>20. IdsOf(z) = Wanted \cup CustomIds(n + 1) BY <1>13, <1>17, <1>18
<1>21. Wanted' = Wanted /\ CustomIds(n + 1)' = CustomIds(n + 1) BY DEF Wanted, CustomIds, Profile
<1> QED BY <1>10, <1>11, <1>12, <1>13, <1>14, <1>16, <1>19, <1>20, <1>21 DEF Chosen

----------------------------------------------------------------------------
(* New, step by step.                                                      *)

LEMMA NewInvAtFirst ==
    ASSUME Init
    PROVE  NewInv
<1>1. cfg \in Config
  <2>1. PICK call \in Calls : cfg = call[1] BY DEF Init
  <2> QED BY <2>1, RuleSetAssumption
<1>2. Len(cfg.custom) \in Nat BY <1>1 DEF Config
<1>3. /\ pc = "config" /\ customs = 0 /\ patterns = <<>> /\ inserted = 0 /\ NothingScanned
      /\ trie = [k \in {} |-> Empty]
  BY DEF Init, NothingBuilt, NothingScanned
<1>4. SetInv BY <1>1, <1>2, <1>3 DEF SetInv, Compiling
<1>5. MatcherOk
  <2>1. PICK words : words = {} OBVIOUS
  <2>2. Len(patterns) = 0 /\ patterns \in Seq(Pattern) BY <1>3
  <2>3. PatternKinds = {} BY <2>2 DEF PatternKinds
  <2>4. DOMAIN trie = PatternKinds BY <1>3, <2>3
  <2>5. Building(words) BY <1>3, <2>2, <2>3, <2>4 DEF Building
  <2>6. MatcherInv(words, words) BY <1>3, <2>5 DEF MatcherInv
  <2> QED BY <2>6 DEF MatcherOk
<1> QED BY <1>4, <1>5 DEF NewInv

(* A step that only looks at the Config and at the rules.                  *)
LEMMA LookingKeepsMatcher ==
    ASSUME NewInv, UNCHANGED <<buildVars, scanVars>>, pc \notin Compiling, pc' \notin Compiling
    PROVE  MatcherOk'
<1>1. MatcherOk BY DEF NewInv
<1>2. pc \notin {"scan", "failed"} /\ pc' \notin {"insert", "finish", "scan", "failed"} BY DEF Compiling
<1>3. UNCHANGED <<buildVars, state, input, offset, matches>> BY DEF scanVars
<1> QED BY <1>1, <1>2, <1>3, MatcherSame

LEMMA NothingYet ==
    ASSUME SetInv, UNCHANGED <<buildVars, scanVars>>, pc \notin Compiling
    PROVE  (patterns = <<>> /\ inserted = 0 /\ NothingScanned)'
BY DEF SetInv, buildVars, scanVars, NothingScanned

LEMMA ChosenSame ==
    ASSUME NEW n, UNCHANGED <<cfg, active>>
    PROVE  Chosen(n)' <=> Chosen(n)
BY DEF Chosen, Wanted, CustomIds, Profile

LEMMA SetInvReject ==
    ASSUME SetInv, Reject, UNCHANGED Later, pc \notin Compiling
    PROVE  SetInv' /\ pc' \notin Compiling
<1>1. pc' = "invalid" /\ pc' \notin {"config", "select", "customs", "chunk", "compile"} /\ pc' \notin Compiling
  BY DEF Reject, Compiling
<1>2. UNCHANGED <<active, customs, maxWindow>> /\ UNCHANGED cfg /\ UNCHANGED <<buildVars, scanVars>>
  BY DEF Reject, Later
<1>3. (patterns = <<>> /\ inserted = 0 /\ NothingScanned)' BY <1>2, NothingYet
<1> QED BY <1>1, <1>2, <1>3 DEF SetInv

LEMMA CheckConfigStep ==
    ASSUME NewInv, CheckConfig
    PROVE  NewInv'
<1>1. SetInv /\ pc = "config" /\ pc \notin Compiling /\ UNCHANGED Later BY DEF NewInv, CheckConfig, Compiling
<1>2. UNCHANGED cfg /\ UNCHANGED <<buildVars, scanVars>> BY <1>1 DEF Later
<1>3. CASE Reject
  <2>1. SetInv' /\ pc' \notin Compiling BY <1>1, <1>3, SetInvReject
  <2> QED BY <1>1, <1>2, <2>1, LookingKeepsMatcher DEF NewInv
<1>4. CASE pc' = "select" /\ UNCHANGED <<active, customs, maxWindow>>
  <2>1. (patterns = <<>> /\ inserted = 0 /\ NothingScanned)' BY <1>1, <1>2, NothingYet
  <2>2. pc' \notin Compiling BY <1>4 DEF Compiling
  <2>3. SetInv' BY <1>1, <1>2, <1>4, <2>1, <2>2 DEF SetInv
  <2> QED BY <1>1, <1>2, <2>2, <2>3, LookingKeepsMatcher DEF NewInv
<1> QED BY <1>3, <1>4 DEF CheckConfig, Goto

LEMMA SelectStep ==
    ASSUME NewInv, Select
    PROVE  NewInv'
<1>1. SetInv /\ pc = "select" /\ pc \notin Compiling /\ UNCHANGED Later BY DEF NewInv, Select, Compiling
<1>2. UNCHANGED cfg /\ UNCHANGED <<buildVars, scanVars>> BY <1>1 DEF Later
<1>3. CASE Reject
  <2>1. SetInv' /\ pc' \notin Compiling BY <1>1, <1>3, SetInvReject
  <2> QED BY <1>1, <1>2, <2>1, LookingKeepsMatcher DEF NewInv
<1>4. CASE /\ cfg.enable \cup cfg.disable \subseteq Known /\ active' = Selection
           /\ pc' = "customs" /\ UNCHANGED <<customs, maxWindow>>
  <2>1. (patterns = <<>> /\ inserted = 0 /\ NothingScanned)' BY <1>1, <1>2, NothingYet
  <2>2. pc' \notin Compiling BY <1>4 DEF Compiling
  <2>3. customs' = 0 BY <1>1, <1>4 DEF SetInv
  <2>4. CustomIds(0) = {} BY DEF CustomIds
  <2>5. CustomIds(0)' = {} BY DEF CustomIds
  <2>6. Wanted' = Wanted BY <1>2 DEF Wanted, Profile
  <2>7. PICK s : s = Selection OBVIOUS
  <2>8. /\ s \in Seq(RuleShape) /\ \A i \in DOMAIN s : Accepted(s[i])
        /\ IdsOf(s) = Wanted
        /\ \A i, j \in DOMAIN s : s[i].id = s[j].id => i = j
    BY <1>4, <2>7, SelectionWanted
  <2>9. active' = s BY <1>4, <2>7
  <2>10. Chosen(0)' BY <1>2, <1>4, <2>5, <2>6, <2>8, <2>9 DEF Chosen
  <2>11. SetInv' BY <1>1, <1>2, <1>4, <2>1, <2>2, <2>3, <2>10 DEF SetInv
  <2> QED BY <1>1, <1>2, <2>2, <2>11, LookingKeepsMatcher DEF NewInv
<1> QED BY <1>3, <1>4 DEF Select, Goto

LEMMA AddCustomStep ==
    ASSUME NewInv, AddCustom
    PROVE  NewInv'
<1>1. SetInv /\ pc = "customs" /\ pc \notin Compiling /\ UNCHANGED Later BY DEF NewInv, AddCustom, Compiling
<1>2. UNCHANGED cfg /\ UNCHANGED <<buildVars, scanVars>> BY <1>1 DEF Later
<1>3. CASE Reject
  <2>1. SetInv' /\ pc' \notin Compiling BY <1>1, <1>3, SetInvReject
  <2> QED BY <1>1, <1>2, <2>1, LookingKeepsMatcher DEF NewInv
<1>4. CASE ~Reject
  <2>1. PICK r : r = cfg.custom[customs + 1] OBVIOUS
  <2>2. /\ Valid(r) /\ r.id \notin Known \cup IdsOf(active)
        /\ active' = Append(active, [r EXCEPT !.confidence = Uint8(@)])
        /\ customs' = customs + 1 /\ pc' = pc /\ customs < Len(cfg.custom)
    BY <1>4, <2>1 DEF AddCustom
  <2>3. cfg \in Config /\ customs \in 0 .. Len(cfg.custom) /\ Chosen(customs) BY <1>1 DEF SetInv
  <2>4. Len(cfg.custom) \in Nat /\ customs \in Nat BY <2>3 DEF Config
  <2>5. Chosen(customs)'
    <3>1. PICK n \in Nat : n = customs BY <2>4
    <3>2. Chosen(n + 1)' BY <1>2, <2>1, <2>2, <2>3, <3>1, ChosenGrows
    <3>3. customs' = n + 1 BY <2>2, <3>1
    <3> QED BY <3>2, <3>3 DEF Chosen, CustomIds
  <2>6. customs' \in 0 .. Len(cfg.custom) BY <2>2, <2>3, <2>4
  <2>7. (patterns = <<>> /\ inserted = 0 /\ NothingScanned)' BY <1>1, <1>2, NothingYet
  <2>8. pc' = "customs" /\ pc' \notin Compiling BY <1>1, <2>2 DEF Compiling
  <2>9. SetInv' BY <1>2, <2>3, <2>5, <2>6, <2>7, <2>8 DEF SetInv
  <2> QED BY <1>1, <1>2, <2>8, <2>9, LookingKeepsMatcher DEF NewInv
<1> QED BY <1>3, <1>4

LEMMA SumWindowsStep ==
    ASSUME NewInv, SumWindows
    PROVE  NewInv'
<1>1. SetInv /\ pc = "customs" /\ pc \notin Compiling /\ UNCHANGED Later
  BY DEF NewInv, SumWindows, Compiling
<1>2. UNCHANGED cfg /\ UNCHANGED <<buildVars, scanVars>> BY <1>1 DEF Later
<1>3. CASE Reject
  <2>1. SetInv' /\ pc' \notin Compiling BY <1>1, <1>3, SetInvReject
  <2> QED BY <1>1, <1>2, <2>1, LookingKeepsMatcher DEF NewInv
<1>4. CASE ~Reject
  <2>1. /\ active # <<>> /\ customs = Len(cfg.custom) /\ pc' = "chunk" /\ UNCHANGED <<active, customs>>
        /\ maxWindow' = Max({0} \cup UNION {WindowSums(r) : r \in ToSet(active)})
    BY <1>4 DEF SumWindows, Goto
  <2>2. Summed' BY <1>2, <2>1 DEF Summed
  <2>3. Chosen(customs)' BY <1>1, <1>2, <2>1, ChosenSame DEF SetInv, Chosen, Wanted, CustomIds, Profile
  <2>4. (patterns = <<>> /\ inserted = 0 /\ NothingScanned)' BY <1>1, <1>2, NothingYet
  <2>5. pc' \notin Compiling BY <2>1 DEF Compiling
  <2>6. cfg' \in Config /\ customs' \in 0 .. Len(cfg'.custom) BY <1>1, <1>2, <2>1 DEF SetInv
  <2>7. SetInv' BY <2>1, <2>2, <2>3, <2>4, <2>5, <2>6 DEF SetInv
  <2> QED BY <1>1, <1>2, <2>5, <2>7, LookingKeepsMatcher DEF NewInv
<1> QED BY <1>3, <1>4

LEMMA CheckChunkSizeStep ==
    ASSUME NewInv, CheckChunkSize
    PROVE  NewInv'
<1>1. SetInv /\ pc = "chunk" /\ pc \notin Compiling /\ UNCHANGED Later
  BY DEF NewInv, CheckChunkSize, Compiling
<1>2. UNCHANGED cfg /\ UNCHANGED <<buildVars, scanVars>> BY <1>1 DEF Later
<1>3. CASE Reject
  <2>1. SetInv' /\ pc' \notin Compiling BY <1>1, <1>3, SetInvReject
  <2> QED BY <1>1, <1>2, <2>1, LookingKeepsMatcher DEF NewInv
<1>4. CASE ~Reject
  <2>1. pc' = "compile" /\ ChunkSize >= MinChunkSize /\ UNCHANGED <<active, customs, maxWindow>>
    BY <1>4 DEF CheckChunkSize, Goto
  <2>2. Summed' BY <1>1, <1>2, <2>1 DEF SetInv, Summed
  <2>3. Chosen(customs)' BY <1>1, <1>2, <2>1 DEF SetInv, Chosen, Wanted, CustomIds, Profile
  <2>4. (patterns = <<>> /\ inserted = 0 /\ NothingScanned)' BY <1>1, <1>2, NothingYet
  <2>5. pc' \notin Compiling BY <2>1 DEF Compiling
  <2>6. cfg' \in Config /\ customs' \in 0 .. Len(cfg'.custom) BY <1>1, <1>2, <2>1 DEF SetInv
  <2>7. (ChunkSize >= MinChunkSize)' BY <1>2, <2>1 DEF ChunkSize, MinChunkSize
  <2>8. SetInv' BY <2>1, <2>2, <2>3, <2>4, <2>5, <2>6, <2>7 DEF SetInv
  <2> QED BY <1>1, <1>2, <2>5, <2>8, LookingKeepsMatcher DEF NewInv
<1> QED BY <1>3, <1>4

(* Once the set is built, nothing changes it.                              *)
LEMMA SetKept ==
    ASSUME SetInv, pc \in {"compile"} \cup Compiling, UNCHANGED <<setVars, active>>
    PROVE  /\ cfg' \in Config /\ customs' \in 0 .. Len(cfg'.custom)
           /\ Chosen(customs)' /\ Summed' /\ (ChunkSize >= MinChunkSize)'
<1>1. UNCHANGED <<cfg, customs, maxWindow, active>> BY DEF setVars
<1>2. Chosen(customs) /\ Summed /\ ChunkSize >= MinChunkSize /\ cfg \in Config /\ customs \in 0 .. Len(cfg.custom)
  BY DEF SetInv
<1>3. Chosen(customs)' BY <1>1, <1>2 DEF Chosen, Wanted, CustomIds, Profile
<1>4. Summed' BY <1>1, <1>2 DEF Summed
<1>5. (ChunkSize >= MinChunkSize)' BY <1>1, <1>2 DEF ChunkSize, MinChunkSize
<1> QED BY <1>1, <1>2, <1>3, <1>4, <1>5

LEMMA CompileEngineStep ==
    ASSUME NewInv, CompileEngine
    PROVE  NewInv'
<1>1. /\ SetInv /\ pc = "compile" /\ StartCompileTriggers /\ UNCHANGED setVars /\ UNCHANGED active
      /\ pc \notin Compiling
  BY DEF NewInv, CompileEngine, StartCompileTriggers, Compiling
<1>2. patterns = <<>> /\ inserted = 0 /\ NothingScanned /\ Chosen(customs) BY <1>1 DEF SetInv
<1>3. active \in Seq(RuleShape) BY <1>2 DEF Chosen
<1>4. PICK list : list = table'.patterns OBVIOUS
<1>5. table' = CompileTriggers(active) /\ StartCompile(list) BY <1>1, <1>4 DEF StartCompileTriggers
<1>6. Tabled(CompileTriggers(active), Asked(active, Len(active)), Len(active))
  BY <1>3, CompileTriggersTabled
<1>7. list \in Seq(Pattern)
  <2>1. CompileTriggers(active).patterns \in Seq(Pattern) BY <1>6 DEF Tabled
  <2> QED BY <1>4, <1>5, <2>1
<1>8. MatcherOk' BY <1>2, <1>5, <1>7, StartCompileStep
<1>9. patterns' = table'.patterns /\ pc' \in {"failed", "insert"} BY <1>4, <1>5 DEF StartCompile
<1>10. pc' \in Compiling BY <1>9 DEF Compiling
<1>11. table' = CompileTriggers(active') BY <1>1, <1>5
<1>12. /\ cfg' \in Config /\ customs' \in 0 .. Len(cfg'.custom)
       /\ Chosen(customs)' /\ Summed' /\ (ChunkSize >= MinChunkSize)'
  BY <1>1, SetKept
<1>13. pc' \notin {"config", "select", "invalid"} BY <1>9
<1>14. SetInv' BY <1>9, <1>10, <1>11, <1>12, <1>13 DEF SetInv
<1> QED BY <1>8, <1>14 DEF NewInv

LEMMA MatchStep ==
    ASSUME NewInv, Match
    PROVE  NewInv'
<1>1. SetInv /\ MatcherOk /\ MatcherNext /\ UNCHANGED <<setVars, active>> /\ UNCHANGED table
  BY DEF NewInv, Match
<1>2. MatcherOk' BY <1>1, MatcherStep
<1>3. patterns' = patterns /\ pc \in Compiling /\ pc' \in Compiling
  BY <1>1 DEF MatcherNext, Insert, StartFinish, Finish, Resolve, ScanByte, NextChunk, buildVars, Compiling
<1>4. pc' \notin {"config", "select", "invalid"} BY <1>3 DEF Compiling
<1>5. table = CompileTriggers(active) /\ patterns = table.patterns BY <1>1, <1>3 DEF SetInv
<1>6. table' = CompileTriggers(active') /\ patterns' = table'.patterns BY <1>1, <1>3, <1>5
<1>7. /\ cfg' \in Config /\ customs' \in 0 .. Len(cfg'.custom)
      /\ Chosen(customs)' /\ Summed' /\ (ChunkSize >= MinChunkSize)'
  BY <1>1, <1>3, SetKept
<1>8. SetInv' BY <1>3, <1>4, <1>6, <1>7 DEF SetInv
<1> QED BY <1>2, <1>8 DEF NewInv

LEMMA StutterStep ==
    ASSUME NewInv, UNCHANGED vars
    PROVE  NewInv'
<1>1. UNCHANGED <<pc, cfg, customs, maxWindow, active, table>> /\ UNCHANGED <<buildVars, scanVars>>
  BY DEF vars, setVars
<1>2. UNCHANGED <<patterns, inserted, state, input, offset, matches>>
  BY <1>1 DEF buildVars, scanVars
<1>3. MatcherOk' BY <1>1, <1>2, MatcherSame DEF NewInv
<1>4. Chosen(customs) => Chosen(customs)' BY <1>1 DEF Chosen, Wanted, CustomIds, Profile
<1>5. Summed => Summed' BY <1>1 DEF Summed
<1>6. ChunkSize >= MinChunkSize => (ChunkSize >= MinChunkSize)' BY <1>1 DEF ChunkSize, MinChunkSize
<1>7. NothingScanned => NothingScanned' BY <1>2 DEF NothingScanned
<1>8. SetInv' BY <1>1, <1>2, <1>4, <1>5, <1>6, <1>7 DEF NewInv, SetInv
<1> QED BY <1>3, <1>8 DEF NewInv

(* What SetInv and MatcherInv say holds from the Config to the last byte   *)
(* scanned: of Build, validateRule and New (rules.go, goredact.go), of     *)
(* compileTriggers (engine.go), and of Compile, finish and Scan            *)
(* (ahocorasick.go).                                                       *)
THEOREM RuleSetInvariant == Spec => []NewInv
<1>1. NewInv /\ [Next]_vars => NewInv'
  <2> SUFFICES ASSUME NewInv, [Next]_vars PROVE NewInv' OBVIOUS
  <2>1. CASE CheckConfig BY <2>1, CheckConfigStep
  <2>2. CASE Select BY <2>2, SelectStep
  <2>3. CASE AddCustom BY <2>3, AddCustomStep
  <2>4. CASE SumWindows BY <2>4, SumWindowsStep
  <2>5. CASE CheckChunkSize BY <2>5, CheckChunkSizeStep
  <2>6. CASE CompileEngine BY <2>6, CompileEngineStep
  <2>7. CASE Match BY <2>7, MatchStep
  <2>8. CASE UNCHANGED vars BY <2>8, StutterStep
  <2>9. Ended => UNCHANGED vars BY DEF Ended
  <2> QED BY <2>1, <2>2, <2>3, <2>4, <2>5, <2>6, <2>7, <2>8, <2>9 DEF Next
<1> QED BY <1>1, NewInvAtFirst, PTL DEF Spec

----------------------------------------------------------------------------
(* The arithmetic of Go's int, where nothing wraps.                        *)
LEMMA ModSmall ==
    ASSUME NEW n \in Nat, n > 0, NEW x \in Nat, x < n
    PROVE  x % n = x
<1>1. x % n \in Int /\ x \div n \in Int /\ x = n * (x \div n) + (x % n) /\ 0 <= x % n /\ x % n < n OBVIOUS
<1>2. PICK q \in Int : q = x \div n BY <1>1
<1>3. PICK r \in Int : r = x % n BY <1>1
<1>4. x = n * q + r /\ 0 <= r /\ r < n BY <1>1, <1>2, <1>3
<1>5. CASE q = 0 BY <1>3, <1>4, <1>5
<1>6. CASE q >= 1
  <2>1. n * q >= n BY <1>6
  <2> QED BY <1>4, <2>1
<1>7. CASE q <= -1
  <2>1. n * q <= -n BY <1>7
  <2> QED BY <1>4, <2>1
<1> QED BY <1>5, <1>6, <1>7

LEMMA NoWrap ==
    ASSUME NEW x \in GoInts
    PROVE  Wrap(x) = x
<1>1. MaxInt \in Nat BY RuleSetAssumption
<1>2. PICK n \in Nat : n = 2 * (MaxInt + 1) BY <1>1
<1>3. PICK y \in Nat : y = x + MaxInt + 1 BY <1>1 DEF GoInts
<1>4. y < n /\ n > 0 BY <1>1, <1>2, <1>3 DEF GoInts
<1>5. y % n = y BY <1>4, ModSmall
<1>6. Wrap(x) = (y % n) - (MaxInt + 1) BY <1>2, <1>3 DEF Wrap
<1> QED BY <1>1, <1>3, <1>5, <1>6 DEF GoInts

LEMMA NoneWraps ==
    ASSUME NEW x \in Int, -(MaxInt + 1) <= x, x <= MaxInt
    PROVE  Wrap(x) = x
<1>1. x \in GoInts BY RuleSetAssumption DEF GoInts
<1> QED BY <1>1, NoWrap

(* A literal in the automaton is shorter than the states it may have.      *)
LEMMA PathsAreShort ==
    ASSUME MatcherOk, pc \in {"finish", "scan"}, NEW p \in 1 .. Len(patterns)
    PROVE  Len(patterns[p].literal) \in Nat /\ Len(patterns[p].literal) < MaxStates
<1>1. PICK words, done : MatcherInv(words, done) BY DEF MatcherOk
<1>2. Building(words) /\ inserted = Len(patterns) BY <1>1 DEF MatcherInv, Finishing
<1>3. patterns \in Seq(Pattern) BY <1>2 DEF Building
<1>4. PICK k : k = patterns[p].kind OBVIOUS
<1>5. PICK w : w = words[k] OBVIOUS
<1>6. PICK t : t = trie[k] OBVIOUS
<1>7. k \in PatternKinds BY <1>4 DEF PatternKinds
<1>8. Named(t, w) /\ Spelled(k, w, inserted) BY <1>2, <1>5, <1>6, <1>7 DEF Building
<1>9. PICK x : x = Sought(p) OBVIOUS
<1>10. x \in Seq(Bytes) /\ Len(x) = Len(patterns[p].literal) /\ Len(x) \in Nat
  BY <1>3, <1>9, SoughtType
<1>11. p \in OfKind(k, inserted) BY <1>2, <1>4 DEF OfKind
<1>12. PICK s \in DOMAIN w : w[s] = SubSeq(x, 1, Len(x))
  <2>1. Len(x) \in 0 .. Len(x) BY <1>10
  <2> QED BY <1>8, <1>9, <1>11, <2>1 DEF Spelled
<1>13. SubSeq(x, 1, Len(x)) = x BY <1>10
<1>14. s \in 0 .. Size(t) - 1 /\ Len(w[s]) <= s /\ Size(t) \in 1 .. MaxStates
  BY <1>8 DEF Named
<1>15. MaxStates \in Nat BY MatcherAssumption
<1> QED BY <1>10, <1>12, <1>13, <1>14, <1>15

LEMMA TriggersAreShort ==
    ASSUME NewInv, pc = "scan", NEW r \in ToSet(active)
    PROVE  /\ r \in RuleShape /\ Accepted(r)
           /\ Lens(r) # {} /\ \A n \in Lens(r) : n \in Nat /\ 0 < n /\ n < MaxStates
<1>1. /\ MatcherOk /\ Chosen(customs) /\ table = CompileTriggers(active) /\ patterns = table.patterns
  BY DEF NewInv, SetInv, Compiling
<1>2. active \in Seq(RuleShape) BY <1>1 DEF Chosen
<1>3. PICK a \in 1 .. Len(active) : r = active[a]
  <2>1. DOMAIN active = 1 .. Len(active) BY <1>2
  <2> QED BY <2>1 DEF ToSet
<1>4. r \in RuleShape /\ Accepted(r)
  <2>1. a \in DOMAIN active BY <1>2
  <2> QED BY <1>1, <1>2, <1>3, <2>1 DEF Chosen
<1>5. r.triggers \in Seq(Pattern) /\ r.triggers # <<>> /\ \A t \in ToSet(r.triggers) : t \in Pattern
  BY <1>2, <1>3, <1>4, TriggerTypes DEF Accepted
<1>6. \A n : n \in Lens(r) <=> \E t \in ToSet(r.triggers) : n = Len(t.literal) BY DEF Lens
<1>7. Lens(r) # {}
  <2>1. 1 \in DOMAIN r.triggers BY <1>5
  <2>2. r.triggers[1] \in ToSet(r.triggers) BY <2>1 DEF ToSet
  <2> QED BY <1>6, <2>2
<1>8. ASSUME NEW t \in ToSet(r.triggers) PROVE Len(t.literal) \in Nat /\ Len(t.literal) < MaxStates
  <2>1. PICK Q : Q = Asked(active, Len(active)) OBVIOUS
  <2>2. Tabled(table, Q, Len(active)) BY <1>1, <1>2, <2>1, CompileTriggersTabled
  <2>3. PICK q : q = [rule |-> a, key |-> Key(t)] OBVIOUS
  <2>4. Asks(active, a, q) BY <1>3, <2>3 DEF Asks
  <2>5. q \in Q BY <2>1, <2>4, AskedIs
  <2>6. PICK p \in DOMAIN patterns : Key(patterns[p]) = Key(t)
    <3>1. \E p \in DOMAIN table.patterns : Key(table.patterns[p]) = q.key BY <2>2, <2>5 DEF Tabled
    <3> QED BY <1>1, <2>3, <3>1
  <2>7. patterns \in Seq(Pattern) BY <1>1, <2>2 DEF Tabled
  <2>8. p \in 1 .. Len(patterns) /\ patterns[p] \in Pattern BY <2>7
  <2>9. t \in Pattern BY <1>5
  <2>10. AlikeTo(t, patterns[p], input) BY <2>6, <2>8, <2>9, OneKeyAlike
  <2>11. Len(t.literal) = Len(patterns[p].literal) BY <2>10 DEF AlikeTo
  <2> QED BY <1>1, <2>8, <2>11, PathsAreShort
<1>9. 0 \notin Lens(r) BY <1>4 DEF Accepted
<1> QED BY <1>4, <1>6, <1>7, <1>8, <1>9

(* The check by subtraction is the sum it stands for.                      *)
LEMMA FitsIsASum ==
    ASSUME NEW r \in RuleShape, Accepted(r), Lens(r) # {},
           \A n \in Lens(r) : n \in Nat /\ 0 < n /\ n < MaxStates
    PROVE  /\ \A n \in Lens(r) : TotalWindow(r, n) \in Nat /\ TotalWindow(r, n) <= MaxValidationWindow
           /\ \A n \in Lens(r) : Wrap(Wrap(r.behind + n) + r.ahead) = TotalWindow(r, n)
<1>1. /\ MaxInt \in Nat /\ MaxValidationWindow \in Nat /\ MaxStates \in Nat
      /\ MaxStates <= MaxValidationWindow /\ 2 * MaxValidationWindow <= MaxInt
  BY RuleSetAssumption, MatcherAssumption
<1>2. PICK b \in Nat : b = r.behind /\ b <= MaxInt BY <1>1 DEF RuleShape, GoInts, Accepted
<1>3. PICK h \in Nat : h = r.ahead /\ h <= MaxInt BY <1>1 DEF RuleShape, GoInts, Accepted
<1>4. ASSUME NEW n \in Lens(r) PROVE b + n + h <= MaxValidationWindow
  <2>1. CASE \A m \in Lens(r) : TotalWindow(r, m) <= MaxValidationWindow
    BY <1>2, <1>3, <2>1 DEF TotalWindow
  <2>2. CASE Fits(r)
    <3>1. Lens(r) \in SUBSET Int /\ MaxStates \in Int /\ \A m \in Lens(r) : m <= MaxStates BY <1>1
    <3>2. Max(Lens(r)) \in Lens(r) /\ \A m \in Lens(r) : m <= Max(Lens(r)) BY <3>1, MaxBounded
    <3>3. PICK m \in Nat : m = Max(Lens(r)) /\ n <= m /\ m < MaxStates BY <3>2
    <3>4. PICK x \in Int : x = MaxValidationWindow - b BY <1>1
    <3>5. Wrap(x) = x BY <1>1, <1>2, <3>4, NoneWraps
    <3>6. Wrap(x - m) = x - m
      <4>1. x - m \in Int /\ -(MaxInt + 1) <= x - m /\ x - m <= MaxInt BY <1>1, <1>2, <3>3, <3>4
      <4> QED BY <4>1, NoneWraps
    <3>7. h <= x - m BY <1>2, <1>3, <2>2, <3>3, <3>4, <3>5, <3>6 DEF Fits
    <3> QED BY <1>1, <3>3, <3>4, <3>7
  <2> QED BY <2>1, <2>2 DEF Accepted
<1>5. ASSUME NEW n \in Lens(r)
      PROVE  /\ TotalWindow(r, n) \in Nat /\ TotalWindow(r, n) <= MaxValidationWindow
             /\ Wrap(Wrap(r.behind + n) + r.ahead) = TotalWindow(r, n)
  <2>1. b + n + h <= MaxValidationWindow /\ n \in Nat BY <1>4
  <2>2. Wrap(b + n) = b + n
    <3>1. b + n \in Int /\ -(MaxInt + 1) <= b + n /\ b + n <= MaxInt BY <1>1, <2>1
    <3> QED BY <3>1, NoneWraps
  <2>3. Wrap(b + n + h) = b + n + h
    <3>1. b + n + h \in Int /\ -(MaxInt + 1) <= b + n + h /\ b + n + h <= MaxInt BY <1>1, <2>1
    <3> QED BY <3>1, NoneWraps
  <2>4. TotalWindow(r, n) = b + n + h BY <1>2, <1>3 DEF TotalWindow
  <2> QED BY <1>2, <1>3, <2>1, <2>2, <2>3, <2>4
<1> QED BY <1>5

LEMMA WindowSumsAre ==
    ASSUME NEW r, \A n \in Lens(r) : Wrap(Wrap(r.behind + n) + r.ahead) = TotalWindow(r, n), NEW x
    PROVE  x \in WindowSums(r) <=> \E n \in Lens(r) : x = TotalWindow(r, n)
BY DEF WindowSums

LEMMA TheEngineCanRun ==
    ASSUME NewInv
    PROVE  EngineCanRun
<1> SUFFICES ASSUME pc = "scan"
    PROVE  /\ \A r \in ToSet(active) :
                 /\ r.behind >= 0 /\ r.ahead >= 0 /\ r.confidence \in 0 .. 2
                 /\ r.triggers # <<>> /\ \A n \in Lens(r) : n > 0 /\ TotalWindow(r, n) <= maxWindow
           /\ 2 * maxWindow <= ChunkSize /\ maxWindow <= MaxValidationWindow
  BY DEF EngineCanRun
<1>1. Summed /\ ChunkSize >= MinChunkSize /\ cfg \in Config BY DEF NewInv, SetInv, Compiling
<1>2. /\ MaxInt \in Nat /\ MaxValidationWindow \in Nat /\ 2 * MaxValidationWindow <= MaxInt
      /\ Floor \in Nat /\ DefaultChunkSize \in Nat
  BY RuleSetAssumption
<1>3. ChunkSize \in Int BY <1>1, <1>2 DEF ChunkSize, Config, GoInts
<1>4. PICK R : R = ToSet(active) OBVIOUS
<1>5. ASSUME NEW r \in R
      PROVE  /\ Accepted(r) /\ \A n \in Lens(r) : n \in Nat /\ n > 0
             /\ \A n \in Lens(r) : TotalWindow(r, n) \in Nat /\ TotalWindow(r, n) <= MaxValidationWindow
             /\ \A n \in Lens(r) : Wrap(Wrap(r.behind + n) + r.ahead) = TotalWindow(r, n)
  <2>1. /\ r \in RuleShape /\ Accepted(r)
        /\ Lens(r) # {} /\ \A n \in Lens(r) : n \in Nat /\ 0 < n /\ n < MaxStates
    BY <1>4, TriggersAreShort
  <2>2. /\ \A n \in Lens(r) : TotalWindow(r, n) \in Nat /\ TotalWindow(r, n) <= MaxValidationWindow
        /\ \A n \in Lens(r) : Wrap(Wrap(r.behind + n) + r.ahead) = TotalWindow(r, n)
    BY <2>1, FitsIsASum
  <2> QED BY <2>1, <2>2
<1>6. PICK S : S = {0} \cup UNION {WindowSums(r) : r \in R} OBVIOUS
<1>7. \A x : x \in S <=> x = 0 \/ \E r \in R : \E n \in Lens(r) : x = TotalWindow(r, n)
  <2>1. \A x : x \in S <=> x = 0 \/ \E r \in R : x \in WindowSums(r) BY <1>6
  <2>2. \A r \in R : \A x : x \in WindowSums(r) <=> \E n \in Lens(r) : x = TotalWindow(r, n)
    BY <1>5, WindowSumsAre
  <2> QED BY <2>1, <2>2
<1>8. maxWindow = Max(S) BY <1>1, <1>4, <1>6 DEF Summed
<1>9. S \in SUBSET Int /\ S # {} /\ \A x \in S : x <= MaxValidationWindow BY <1>2, <1>5, <1>7
<1>10. Max(S) \in S /\ \A x \in S : x <= Max(S)
  <2>1. S \in SUBSET Int /\ S # {} /\ MaxValidationWindow \in Int /\ \A x \in S : x <= MaxValidationWindow
    BY <1>2, <1>9
  <2> QED BY <2>1, MaxBounded
<1>11. PICK m \in Int : m = maxWindow /\ 0 <= m /\ m <= MaxValidationWindow BY <1>7, <1>8, <1>9, <1>10
<1>12. \A r \in R : \A n \in Lens(r) : TotalWindow(r, n) <= m BY <1>7, <1>8, <1>10, <1>11
<1>13. Wrap(2 * m) = 2 * m
  <2>1. 2 * m \in Int /\ -(MaxInt + 1) <= 2 * m /\ 2 * m <= MaxInt BY <1>2, <1>11
  <2> QED BY <2>1, NoneWraps
<1>14. 2 * m <= ChunkSize BY <1>1, <1>2, <1>3, <1>11, <1>13 DEF MinChunkSize
<1>15. \A r \in R : /\ r.behind >= 0 /\ r.ahead >= 0 /\ r.confidence \in 0 .. 2
                    /\ r.triggers # <<>> /\ \A n \in Lens(r) : n > 0
  BY <1>5 DEF Accepted
<1> QED BY <1>4, <1>11, <1>12, <1>14, <1>15

LEMMA TheRulesAskedFor ==
    ASSUME NewInv
    PROVE  EngineRunsWhatWasAsked
<1> SUFFICES ASSUME pc = "scan" PROVE EngineRunsWhatWasAsked BY DEF EngineRunsWhatWasAsked
<1>1. Chosen(customs) /\ Summed /\ cfg \in Config BY DEF NewInv, SetInv, Compiling
<1>2. customs = Len(cfg.custom) /\ active # <<>> BY <1>1 DEF Summed
<1>3. cfg.custom \in Seq(RuleShape) BY <1>1 DEF Config
<1>4. CustomIds(customs) = IdsOf(cfg.custom)
  <2>1. \A x : x \in CustomIds(customs) <=> \E i \in 1 .. Len(cfg.custom) : cfg.custom[i].id = x
    BY <1>2 DEF CustomIds
  <2>2. PICK s \in Seq(RuleShape) : s = cfg.custom BY <1>3
  <2>3. \A x : x \in IdsOf(s) <=> \E i \in 1 .. Len(s) : s[i].id = x BY IdsOfIs DEF HasId
  <2> QED BY <2>1, <2>2, <2>3
<1>5. PICK a \in Seq(RuleShape) : a = active BY <1>1 DEF Chosen
<1>6. PICK n \in Nat : n = Len(a) OBVIOUS
<1>7. DOMAIN a = 1 .. n /\ \A i, j \in 1 .. n : a[i].id = a[j].id => i = j BY <1>1, <1>5, <1>6 DEF Chosen
<1>8. PICK S : S = IdsOf(a) OBVIOUS
<1>9. \A x : x \in S <=> \E i \in 1 .. n : a[i].id = x
  <2> TAKE x
  <2>1. x \in IdsOf(a) <=> HasId(a, Len(a), x) BY IdsOfIs
  <2> QED BY <1>6, <1>8, <2>1 DEF HasId
<1>10. PICK q : q = [i \in 1 .. n |-> a[i].id] OBVIOUS
<1>11. q \in Seq(S) /\ Len(q) = n
  <2>1. q \in [1 .. n -> S] BY <1>9, <1>10
  <2> QED BY <2>1
<1>12. Lists(q, S)
  <2>1. \A i \in 1 .. Len(q) : q[i] \in S BY <1>9, <1>10, <1>11
  <2>2. \A x \in S : \E i \in 1 .. Len(q) : q[i] = x BY <1>9, <1>10, <1>11
  <2>3. \A i, j \in 1 .. Len(q) : q[i] = q[j] => i = j BY <1>7, <1>10, <1>11
  <2> QED BY <1>11, <2>1, <2>2, <2>3, ListsBy
<1>13. Len(active) = Cardinality(IdsOf(active)) BY <1>5, <1>6, <1>8, <1>11, <1>12, ListsCounts
<1>14. /\ cfg.enable \cup cfg.disable \subseteq Known
       /\ IdsOf(active) = Wanted \cup IdsOf(cfg.custom) /\ Known \cap IdsOf(cfg.custom) = {}
  BY <1>1, <1>4 DEF Chosen
<1> QED BY <1>2, <1>13, <1>14 DEF EngineRunsWhatWasAsked, Wanted

(* While nothing is scanned nothing is reported.                           *)
LEMMA TheCandidates ==
    ASSUME NewInv
    PROVE  CandidatesAreOccurrences
<1>1. CASE pc = "scan"
  <2>1. Chosen(customs) /\ table = CompileTriggers(active) /\ patterns = table.patterns /\ MatcherOk
    BY <1>1 DEF NewInv, SetInv, Compiling
  <2>2. input \in Seq(Bytes) /\ Reports BY <1>1, <2>1 DEF MatcherOk, MatcherInv, Scanning
  <2>3. Lookup BY <2>1, <2>2 DEF Lookup, Chosen
  <2> QED BY <2>3, CandidatesReported
<1>2. CASE pc # "scan"
  <2>1. matches = <<>> /\ input = <<>> BY <1>2 DEF NewInv, MatcherOk, MatcherInv, NothingScanned
  <2>2. [i \in DOMAIN matches |-> CandidatesOf(matches[i])] = <<>> BY <2>1
  <2>3. Len(<<>>) = 0 OBVIOUS
  <2>4. Candidates = <<>>
    <3>1. FlattenSeq(<<>>) = <<>> BY <2>3, FlattenIsFlat
    <3> QED BY <2>2, <3>1 DEF Candidates
  <2>5. \A r, t : Sightings(r, t) = {} BY <2>1 DEF Sightings
  <2>6. UNION {UNION {Sightings(r, t) : t \in ToSet(active[r].triggers)} : r \in DOMAIN active} = {}
    BY <2>5
  <2>7. ToSet(<<>>) = {} BY DEF ToSet
  <2>8. Lists(<<>>, {}) BY ListsEmpty
  <2>9. Len(<<>>) = Cardinality({}) BY <2>8, ListsCounts
  <2> QED BY <2>4, <2>6, <2>7, <2>9 DEF CandidatesAreOccurrences
<1> QED BY <1>1, <1>2

----------------------------------------------------------------------------
(* Scan reports every occurrence of every pattern, exact or folded, once   *)
(* and by its end, however the input was cut into chunks (ahocorasick.go). *)
THEOREM MatcherFindsEveryOccurrence == Spec => []MatchesAreOccurrences
<1>1. NewInv => MatchesAreOccurrences BY MatcherReports DEF NewInv
<1> QED BY <1>1, RuleSetInvariant, PTL

(* Compile fails exactly when there is no pattern, one is empty, or the    *)
(* patterns of one kind have more prefixes than half a State has numbers.  *)
THEOREM CompileRefusesOnlyWhatIsTooLarge == Spec => []RefusedOnlyIfTooLarge
<1>1. NewInv => RefusedOnlyIfTooLarge BY MatcherReports DEF NewInv
<1> QED BY <1>1, RuleSetInvariant, PTL

(* The candidates onTrigger queues are, for every rule, the places of its  *)
(* triggers in the input: Engine may take them for part of the input.      *)
THEOREM EveryRuleSeesItsTriggers == Spec => []CandidatesAreOccurrences
BY TheCandidates, RuleSetInvariant, PTL

(* Whatever bounds a custom rule declares, an engine that New returns has  *)
(* a chunk that holds two windows, and a window every rule fits in, though *)
(* validateRule and MaxWindow compute in Go's int.                         *)
THEOREM NewBuildsAnEngineThatCanRun == Spec => []EngineCanRun
BY TheEngineCanRun, RuleSetInvariant, PTL

(* The rules of an engine that New returns are those that its Config names *)
(* (Build in rules.go), each once.                                         *)
THEOREM NewBuildsWhatWasAsked == Spec => []EngineRunsWhatWasAsked
BY TheRulesAskedFor, RuleSetInvariant, PTL
=============================================================================
