----------------------------- MODULE RuleSetInv -----------------------------
(***************************************************************************)
(* Why the rules that run are the ones asked for, and why the table turns  *)
(* every match back into them: what holds of the set and of the trigger    *)
(* table at every stage of New.                                            *)
(***************************************************************************)
EXTENDS RuleSet, AhoCorasickInv

(* Every trigger of the first n rules, as the table asks for it.           *)
Asked(list, n) ==
    UNION {{[rule |-> r, key |-> Key(t)] : t \in ToSet(list[r].triggers)} : r \in 1 .. n}

AskedBy(Q, p) == {q.rule : q \in {q \in Q : q.key = Key(p)}}

Ascending(s) == \A i, j \in 1 .. Len(s) : i < j => s[i] < s[j]

(* A table of what Q asks, for rules up to r.                              *)
Tabled(tab, Q, r) ==
    /\ tab \in [patterns : Seq(Pattern), dispatch : Seq(Seq(Nat))]
    /\ Len(tab.dispatch) = Len(tab.patterns)
    /\ \A i, j \in DOMAIN tab.patterns : Key(tab.patterns[i]) = Key(tab.patterns[j]) => i = j
    /\ \A i \in DOMAIN tab.patterns :
          /\ tab.dispatch[i] # <<>> /\ Ascending(tab.dispatch[i])
          /\ ToSet(tab.dispatch[i]) = AskedBy(Q, tab.patterns[i])
    /\ \A q \in Q : q.rule \in 0 .. r /\ \E i \in DOMAIN tab.patterns : Key(tab.patterns[i]) = q.key

----------------------------------------------------------------------------
CustomIds(n) == {cfg.custom[i].id : i \in 1 .. n}
Wanted ==
    (IF cfg.enable = {} THEN {r.id : r \in {s \in ToSet(Builtins) : s.minProfile <= Profile}}
     ELSE cfg.enable) \ cfg.disable

(* A rule that Build has let through.                                      *)
Accepted(r) ==
    /\ r \in RuleShape /\ r.triggers # <<>> /\ 0 \notin Lens(r)
    /\ r.behind >= 0 /\ r.ahead >= 0 /\ r.confidence \in 0 .. 2
    /\ (\A n \in Lens(r) : TotalWindow(r, n) <= MaxValidationWindow) \/ Fits(r)

(* Build, after n custom rules.                                            *)
Chosen(n) ==
    /\ cfg.enable \cup cfg.disable \subseteq Known
    /\ active \in Seq(RuleShape) /\ \A i \in DOMAIN active : Accepted(active[i])
    /\ IdsOf(active) = Wanted \cup CustomIds(n) /\ Known \cap CustomIds(n) = {}
    /\ \A i, j \in DOMAIN active : active[i].id = active[j].id => i = j

Summed ==
    /\ customs = Len(cfg.custom) /\ active # <<>>
    /\ maxWindow = Max({0} \cup UNION {WindowSums(r) : r \in ToSet(active)})

Compiling == {"insert", "finish", "scan", "failed"}

SetInv ==
    /\ cfg \in Config /\ customs \in 0 .. Len(cfg.custom)
    /\ pc \in {"config", "select", "customs", "chunk", "compile", "invalid"} \cup Compiling
    /\ pc \notin Compiling => patterns = <<>> /\ inserted = 0 /\ NothingScanned
    /\ pc \in {"config", "select"} => customs = 0
    /\ pc \in {"customs", "chunk", "compile"} \cup Compiling => Chosen(customs)
    /\ pc \in {"chunk", "compile"} \cup Compiling => Summed
    /\ pc \in {"compile"} \cup Compiling => ChunkSize >= MinChunkSize
    /\ pc \in Compiling => table = CompileTriggers(active) /\ patterns = table.patterns

NewInv == SetInv /\ MatcherOk
=============================================================================
