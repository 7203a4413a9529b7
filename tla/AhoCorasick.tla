----------------------------- MODULE AhoCorasick -----------------------------
(***************************************************************************)
(* The trigger matcher (internal/ahocorasick): Compile builds a trie for   *)
(* the case-sensitive and one for the case-folded patterns, resolves fail  *)
(* links and outputs breadth-first into a dense automaton, and Scan takes  *)
(* both through the input, resumed at every chunk from one packed State.   *)
(*                                                                         *)
(* A trie whose kind no pattern has is nil in the code, and not in the     *)
(* domain of trie here.                                                    *)
(***************************************************************************)
EXTENDS Integers, SequencesExt

CONSTANTS
    Bytes,      \* the alphabet
    Fold,       \* foldTab: every byte's folded form
    MaxStates   \* maxStates: the states of a sub-automaton, 2^16 in the code

Kinds == {"exact", "fold"}
Tab(k, b) == IF k = "fold" THEN Fold[b] ELSE b

Pattern == [literal : Seq(Bytes), kind : Kinds]

ASSUME MatcherAssumption ==
    /\ Fold \in [Bytes -> Bytes] /\ \A b \in Bytes : Fold[Fold[b]] = Fold[b]
    /\ MaxStates \in Nat \ {0}

VARIABLES
    pc,
    patterns,   \* what Compile is given
    inserted,   \* the patterns inserted so far
    trie,       \* the builders: children and outputs of every node
    dfa,        \* the automata: transitions, fail links, the queue of finish
    state,      \* the packed State
    maxInput,   \* bound: how much is scanned
    input,      \* what has been scanned, by all chunks
    offset,     \* the index into the current chunk
    matches     \* the calls of fn, with absolute ends

buildVars == <<patterns, inserted, trie, dfa>>
scanVars  == <<state, maxInput, input, offset, matches>>

NoEdges == [b \in Bytes |-> -1]
Empty   == [edges |-> [s \in {0} |-> NoEdges], out |-> [s \in {0} |-> <<>>]]
Nodes(t) == DOMAIN t.edges
Size(t)  == Cardinality(Nodes(t))

NothingBuilt ==
    /\ patterns = <<>> /\ inserted = 0
    /\ trie = [k \in {} |-> Empty] /\ dfa = [k \in {} |-> Empty]
    /\ state = 0 /\ input = <<>> /\ offset = 0 /\ matches = <<>>

----------------------------------------------------------------------------
(* Compile is called: a trie for every kind of pattern in the list.        *)
StartCompile(list) ==
    /\ patterns' = list
    /\ pc' = IF list = <<>> THEN "failed" ELSE "insert"
    /\ trie' = [k \in {list[i].kind : i \in DOMAIN list} |-> Empty]
    /\ UNCHANGED <<inserted, dfa, scanVars>>

(* Compile: insert.                                                        *)

AddNode(t, s, c) ==
    LET n     == Size(t)
        edges == [t.edges EXCEPT ![s][c] = n]
    IN  [edges |-> [u \in Nodes(t) \cup {n} |-> IF u = n THEN NoEdges ELSE edges[u]],
         out   |-> [u \in Nodes(t) \cup {n} |-> IF u = n THEN <<>> ELSE t.out[u]]]

(* One byte of a literal: the node walk.at and the trie it is in.          *)
WalkOffByOne(walk, c) ==     \* faulty: one state more than an index can name
    IF walk.full THEN walk
    ELSE IF walk.t.edges[walk.at][c] >= 0
         THEN [walk EXCEPT !.at = walk.t.edges[walk.at][c]]
    ELSE IF Size(walk.t) > MaxStates THEN [walk EXCEPT !.full = TRUE]
    ELSE [walk EXCEPT !.t = AddNode(walk.t, walk.at, c), !.at = Size(walk.t)]

Walk(walk, c) ==
    IF walk.full THEN walk
    ELSE IF walk.t.edges[walk.at][c] >= 0
         THEN [walk EXCEPT !.at = walk.t.edges[walk.at][c]]
    ELSE IF Size(walk.t) >= MaxStates THEN [walk EXCEPT !.full = TRUE]
    ELSE [walk EXCEPT !.t = AddNode(walk.t, walk.at, c), !.at = Size(walk.t)]

WalkAll(t, p) ==
    LET walked[i \in 0 .. Len(p.literal)] ==
            IF i = 0 THEN [t |-> t, at |-> 0, full |-> FALSE]
            ELSE Walk(walked[i - 1], Tab(p.kind, p.literal[i]))
    IN  walked[Len(p.literal)]

Insert ==
    /\ pc = "insert" /\ inserted < Len(patterns)
    /\ LET i    == inserted + 1
           p    == patterns[i]
           walk == WalkAll(trie[p.kind], p)
       IN  IF p.literal = <<>> \/ walk.full
           THEN pc' = "failed" /\ UNCHANGED <<inserted, trie>>
           ELSE /\ inserted' = i
                /\ trie' = [trie EXCEPT ![p.kind] = [walk.t EXCEPT !.out[walk.at] = Append(@, i)]]
                /\ UNCHANGED pc
    /\ UNCHANGED <<patterns, dfa, scanVars>>

----------------------------------------------------------------------------
(* Compile: finish.                                                        *)

Uint(s) == s % MaxStates      \* uint16(s)

Children(t, s) == SetToSeq({t.edges[s][b] : b \in Bytes} \ {-1})

(* The root's missing edges lead back to it, its children fail to it.      *)
Root(t) ==
    [next  |-> [s \in Nodes(t) |-> [b \in Bytes |->
                   IF s = 0 /\ t.edges[0][b] >= 0 THEN Uint(t.edges[0][b]) ELSE 0]],
     fail  |-> [s \in Nodes(t) |-> 0],
     queue |-> Children(t, 0)]

StartFinish ==
    /\ pc = "insert" /\ inserted = Len(patterns)
    /\ dfa' = [k \in DOMAIN trie |-> Root(trie[k])]
    /\ pc' = "finish"
    /\ UNCHANGED <<patterns, inserted, trie, scanVars>>

Linked(t, d, r) ==
    LET f == d.fail[r]
    IN  [next  |-> [d.next EXCEPT ![r] = [b \in Bytes |->
                       IF t.edges[r][b] >= 0 THEN Uint(t.edges[r][b]) ELSE d.next[f][b]]],
         fail  |-> [s \in Nodes(t) |->
                       IF \E b \in Bytes : t.edges[r][b] = s
                       THEN d.next[f][CHOOSE b \in Bytes : t.edges[r][b] = s]
                       ELSE d.fail[s]],
         queue |-> Tail(d.queue) \o Children(t, r)]

(* Faulty: only the state's own patterns are output.                       *)
ResolveOwnOutputs(k) ==
    /\ pc = "finish" /\ dfa[k].queue # <<>>
    /\ dfa' = [dfa EXCEPT ![k] = Linked(trie[k], dfa[k], Head(dfa[k].queue))]
    /\ UNCHANGED <<pc, patterns, inserted, trie, scanVars>>

(* The next state r of the queue: its outputs take in those of its fail    *)
(* link, which is shallower and complete; its missing edges go where the   *)
(* fail link's go, and its children fail to where they would have led.     *)
Resolve(k) ==
    /\ pc = "finish" /\ dfa[k].queue # <<>>
    /\ LET r == Head(dfa[k].queue)
       IN  /\ trie' = [trie EXCEPT ![k].out[r] = @ \o trie[k].out[dfa[k].fail[r]]]
           /\ dfa' = [dfa EXCEPT ![k] = Linked(trie[k], dfa[k], r)]
    /\ UNCHANGED <<pc, patterns, inserted, scanVars>>

Finish ==
    \/ \E k \in DOMAIN dfa :
          /\ k = "fold" /\ "exact" \in DOMAIN dfa => dfa["exact"].queue = <<>>
          /\ Resolve(k)
    \/ /\ pc = "finish" /\ \A k \in DOMAIN dfa : dfa[k].queue = <<>>
       /\ pc' = "scan"
       /\ UNCHANGED <<buildVars, scanVars>>

----------------------------------------------------------------------------
(* Scan.                                                                   *)

(* The half of a packed State that is kind k's.                            *)
Half(k, s) == IF k = "exact" THEN s % MaxStates ELSE s \div MaxStates
Pack(es, fs) == es + fs * MaxStates

Advance(k, s, b) == IF k \in DOMAIN dfa THEN dfa[k].next[s][Tab(k, b)] ELSE s
Outputs(k, s)    == IF k \in DOMAIN dfa THEN trie[k].out[s] ELSE <<>>

(* The engine adds the chunk's base, the input less the chunk's part.      *)
Reported(outs, end) ==
    [i \in DOMAIN outs |-> [pattern |-> outs[i], end |-> (Len(input) - offset) + end]]

ScanByte ==
    /\ pc = "scan" /\ Len(input) < maxInput
    /\ \E b \in Bytes :
          LET es == Advance("exact", Half("exact", state), b)
              fs == Advance("fold", Half("fold", state), b)
          IN  /\ state' = Pack(es, fs)
              /\ input' = Append(input, b)
              /\ matches' = matches \o Reported(Outputs("exact", es), offset + 1)
                                    \o Reported(Outputs("fold", fs), offset + 1)
    /\ offset' = offset + 1
    /\ UNCHANGED <<pc, buildVars, maxInput>>

(* The chunk ends; the next one resumes from the State returned.           *)
NextChunk ==
    /\ pc = "scan" /\ offset > 0
    /\ offset' = 0
    /\ UNCHANGED <<pc, buildVars, state, maxInput, input, matches>>

MatcherNext == Insert \/ StartFinish \/ Finish \/ ScanByte \/ NextChunk

----------------------------------------------------------------------------
(* What the matcher must find, and nothing of how.                         *)
Translated(k, s) == [i \in DOMAIN s |-> Tab(k, s[i])]

OccursEnding(p, text, end) ==
    /\ Len(p.literal) <= end
    /\ Translated(p.kind, SubSeq(text, end - Len(p.literal) + 1, end)) = Translated(p.kind, p.literal)

Occurrences(list, text) ==
    {m \in [pattern : DOMAIN list, end : 1 .. Len(text)] :
        OccursEnding(list[m.pattern], text, m.end)}

Literals(k) == {Translated(k, patterns[i].literal) : i \in {j \in DOMAIN patterns : patterns[j].kind = k}}
Begun(k)    == UNION {Prefixes(l) : l \in Literals(k)}

(* Every occurrence of every pattern is reported, overlapping ones, those  *)
(* inside others and those across chunks included; once, and in the order  *)
(* of their ends.                                                          *)
MatchesAreOccurrences ==
    /\ ToSet(matches) = Occurrences(patterns, input)
    /\ Len(matches) = Cardinality(ToSet(matches))
    /\ \A i, j \in DOMAIN matches : i < j => matches[i].end <= matches[j].end

(* Compile refuses what it must and nothing else: an automaton may have    *)
(* exactly as many states as half a State can name.                        *)
RefusedOnlyIfTooLarge ==
    LET bad == \/ patterns = <<>>
               \/ \E i \in DOMAIN patterns : patterns[i].literal = <<>>
               \/ \E k \in Kinds : Cardinality(Begun(k)) > MaxStates
    IN  /\ pc = "failed" => bad
        /\ pc = "scan" => ~bad
=============================================================================
