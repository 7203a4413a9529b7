--------------------------- MODULE AhoCorasickInv ---------------------------
(***************************************************************************)
(* Why the matcher finds every occurrence: the inductive invariant of its  *)
(* construction and of its scan.                                           *)
(*                                                                         *)
(* Two values that the code does not keep explain its state: words, which  *)
(* names every node of every trie by the path that leads to it, and done,  *)
(* the nodes that finish has resolved.                                     *)
(***************************************************************************)
EXTENDS AhoCorasick

(* s is a suffix of x.                                                     *)
Ends(s, x) ==
    Len(s) <= Len(x) /\ \A i \in 1 .. Len(s) : s[i] = x[(Len(x) - Len(s)) + i]

(* Of the suffixes of x shorter than n that have a node, u's is longest.   *)
Longest(w, u, x, n) ==
    /\ u \in DOMAIN w /\ Ends(w[u], x) /\ Len(w[u]) < n
    /\ \A v \in DOMAIN w : Ends(w[v], x) /\ Len(w[v]) < n => Len(w[v]) <= Len(w[u])

Lists(q, S) == q \in Seq(S) /\ ToSet(q) = S /\ IsInjective(q)

(* t is a tree, numbered from its root down, and w its paths.              *)
Named(t, w) ==
    /\ Size(t) \in 1 .. MaxStates /\ Nodes(t) = 0 .. Size(t) - 1
    /\ t \in [edges : [Nodes(t) -> [Bytes -> Nodes(t) \cup {-1}]], out : [Nodes(t) -> Seq(Nat)]]
    /\ w \in [Nodes(t) -> Seq(Bytes)] /\ IsInjective(w)
    /\ w[0] = <<>> /\ \A s \in Nodes(t) : Len(w[s]) <= s
    /\ \A s \in Nodes(t), b \in Bytes :
          t.edges[s][b] # -1 => s < t.edges[s][b] /\ w[t.edges[s][b]] = Append(w[s], b)
    /\ \A u \in Nodes(t) \ {0} : \E s \in Nodes(t), b \in Bytes : t.edges[s][b] = u

(* What the trie of its kind holds for pattern i.                          *)
Sought(i)    == Translated(patterns[i].kind, patterns[i].literal)
OfKind(k, n) == {i \in 1 .. n : patterns[i].kind = k}

(* The nodes are the prefixes of the patterns inserted.                    *)
Spelled(k, w, n) ==
    /\ \A i \in OfKind(k, n) : \A j \in 0 .. Len(Sought(i)) :
          \E s \in DOMAIN w : w[s] = SubSeq(Sought(i), 1, j)
    /\ \A s \in DOMAIN w \ {0} : \E i \in OfKind(k, n) : \E j \in 0 .. Len(Sought(i)) :
          w[s] = SubSeq(Sought(i), 1, j)

OutputsOwn(k, t, w, n, s) == Lists(t.out[s], {i \in OfKind(k, n) : Sought(i) = w[s]})
Owned(k, t, w, n) == \A s \in Nodes(t) : OutputsOwn(k, t, w, n, s)
OutputsAll(k, t, w, n, s) == Lists(t.out[s], {i \in OfKind(k, n) : Ends(Sought(i), w[s])})

----------------------------------------------------------------------------
(* finish.                                                                 *)

(* The nodes whose parent is resolved, and that are not themselves.        *)
Frontier(t, D) == {u \in Nodes(t) \ D : \E s \in D, b \in Bytes : t.edges[s][b] = u}

Shallowest(t, w, D) == \A s \in D, u \in Nodes(t) \ D : Len(w[s]) <= Len(w[u])

(* The queue holds them level by level.                                    *)
Queued(t, q, w, D) ==
    /\ D \subseteq Nodes(t) /\ 0 \in D
    /\ Lists(q, Frontier(t, D))
    /\ \A i, j \in 1 .. Len(q) :
          i <= j => Len(w[q[i]]) <= Len(w[q[j]]) /\ Len(w[q[j]]) <= Len(w[q[i]]) + 1
    /\ q # <<>> => \A u \in Nodes(t) \ D : Len(w[q[1]]) <= Len(w[u])
    /\ Shallowest(t, w, D)

(* A resolved state goes to the longest suffix that has a node, whatever   *)
(* comes; a queued one fails to its longest proper suffix that has one.    *)
Resolved(t, d, w, D) ==
    /\ d \in [next : [Nodes(t) -> [Bytes -> Nodes(t)]], fail : [Nodes(t) -> Nodes(t)],
              queue : Seq(Nodes(t))]
    /\ \A s \in D, b \in Bytes : Longest(w, d.next[s][b], Append(w[s], b), Len(w[s]) + 2)
    /\ \A u \in ToSet(d.queue) : Longest(w, d.fail[u], w[u], Len(w[u]))

Linking(k, t, d, w, n, D) ==
    /\ Queued(t, d.queue, w, D) /\ Resolved(t, d, w, D)
    /\ \A s \in Nodes(t) : IF s \in D THEN OutputsAll(k, t, w, n, s) ELSE OutputsOwn(k, t, w, n, s)

----------------------------------------------------------------------------
PatternKinds == {patterns[i].kind : i \in 1 .. Len(patterns)}

(* insert.                                                                 *)
Building(words) ==
    /\ patterns \in Seq(Pattern) /\ inserted \in 0 .. Len(patterns)
    /\ DOMAIN trie = PatternKinds
    /\ \A i \in 1 .. inserted : patterns[i].literal # <<>>
    /\ \A k \in PatternKinds : Named(trie[k], words[k]) /\ Spelled(k, words[k], inserted)

Owning(words) == \A k \in PatternKinds : Owned(k, trie[k], words[k], inserted)

(* finish.                                                                 *)
Finishing(words, done) ==
    /\ inserted = Len(patterns) /\ DOMAIN dfa = PatternKinds
    /\ \A k \in PatternKinds : Linking(k, trie[k], dfa[k], words[k], inserted, done[k])

(* Scan: what the state stands for.                                        *)
Scanning(words) ==
    /\ input \in Seq(Bytes) /\ offset \in 0 .. Len(input) /\ state \in Nat
    /\ \A k \in Kinds :
          IF k \in PatternKinds
          THEN Longest(words[k], Half(k, state), Translated(k, input), Len(input) + 1)
          ELSE Half(k, state) = 0

Reports ==
    /\ Lists(matches, Occurrences(patterns, input))
    /\ \A i, j \in DOMAIN matches : i <= j => matches[i].end <= matches[j].end

NothingScanned == state = 0 /\ input = <<>> /\ offset = 0 /\ matches = <<>>

TooLarge ==
    \/ patterns = <<>>
    \/ \E i \in DOMAIN patterns : patterns[i].literal = <<>>
    \/ \E k \in Kinds : Cardinality(Begun(k)) > MaxStates

MatcherInv(words, done) ==
    /\ Building(words)
    /\ pc \in {"insert", "finish", "scan"} => patterns # <<>>
    /\ pc = "insert" => Owning(words)
    /\ pc \in {"finish", "scan"} => Finishing(words, done)
    /\ pc = "scan" => Scanning(words) /\ Reports /\ \A k \in PatternKinds : dfa[k].queue = <<>>
    /\ pc # "scan" => NothingScanned
    /\ pc = "failed" => TooLarge

MatcherOk == \E words, done : MatcherInv(words, done)
=============================================================================
