----------------------------- MODULE TriggerMatch -----------------------------
(***************************************************************************)
(* The engine's use of the matcher (internal/goredact/engine.go):          *)
(* compileTriggers shares one pattern among the rules that have a trigger  *)
(* in common, and onTrigger turns a match back into one candidate for each *)
(* of them.                                                                *)
(***************************************************************************)
EXTENDS AhoCorasick

VARIABLES
    active,    \* Set.Rules: a rule's triggers are a sequence of patterns
    table      \* of compileTriggers: the patterns and the rules of each

(* Faulty: a trigger's case folding is no part of its key.                 *)
KeyOfLiteral(t) ==
    [literal |-> [i \in DOMAIN t.literal |-> Fold[t.literal[i]]], kind |-> "exact"]
(* trigKey: folded literals are one pattern whatever their case.           *)
Key(t) == [t EXCEPT !.literal = [i \in DOMAIN t.literal |-> Tab(t.kind, t.literal[i])]]

(* One trigger t of rule r; a rule may list it twice.                      *)
Enter(tab, r, t) ==
    LET known == {i \in DOMAIN tab.patterns : Key(tab.patterns[i]) = Key(t)}
    IN  IF known = {}
        THEN [patterns |-> Append(tab.patterns, t),
              dispatch |-> Append(tab.dispatch, <<r>>)]
        ELSE LET i == CHOOSE i \in known : TRUE
             IN  IF Last(tab.dispatch[i]) = r THEN tab
                 ELSE [tab EXCEPT !.dispatch[i] = Append(@, r)]

(* The triggers of rule r, one after the other.                            *)
EnterAll(tab, r, triggers) ==
    LET entered[i \in 0 .. Len(triggers)] ==
            IF i = 0 THEN tab ELSE Enter(entered[i - 1], r, triggers[i])
    IN  entered[Len(triggers)]

CompileTriggers(list) ==
    LET compiled[r \in 0 .. Len(list)] ==
            IF r = 0 THEN [patterns |-> <<>>, dispatch |-> <<>>]
            ELSE EnterAll(compiled[r - 1], r, list[r].triggers)
    IN  compiled[Len(list)]

StartCompileTriggers ==
    /\ table' = CompileTriggers(active)
    /\ StartCompile(table'.patterns)
    /\ UNCHANGED active

----------------------------------------------------------------------------
(* onTrigger: one candidate for every rule of the pattern, from the        *)
(* pattern's length before the end.                                        *)
CandidatesOf(m) ==
    [i \in DOMAIN table.dispatch[m.pattern] |->
        [rule  |-> table.dispatch[m.pattern][i],
         start |-> m.end - Len(table.patterns[m.pattern].literal),
         end   |-> m.end]]

Candidates == FlattenSeq([i \in DOMAIN matches |-> CandidatesOf(matches[i])])

(* Only a rule that lists a folded and an exact form can be asked twice.   *)
OneKind(r) == \A i, j \in DOMAIN r.triggers : r.triggers[i].kind = r.triggers[j].kind

(* Where trigger t of rule r is in the input.                              *)
Sightings(r, t) ==
    {[rule |-> r, start |-> e - Len(t.literal), end |-> e] :
        e \in {e \in 1 .. Len(input) : OccursEnding(t, input, e)}}

(* A rule sees every occurrence of every one of its triggers, and no       *)
(* other, however the triggers are shared, folded or nested; and sees it   *)
(* once, even if it lists the trigger twice.                               *)
CandidatesAreOccurrences ==
    /\ ToSet(Candidates) =
           UNION {UNION {Sightings(r, t) : t \in ToSet(active[r].triggers)} : r \in DOMAIN active}
    /\ (\A r \in DOMAIN active : OneKind(active[r])) =>
           Len(Candidates) = Cardinality(ToSet(Candidates))
=============================================================================
