------------------------------ MODULE MCEngine ------------------------------
(***************************************************************************)
(* Small instances of Engine.  Two rules share a window of three bytes: a  *)
(* "key" looks two bytes ahead of its trigger, a "value" looks two behind. *)
(***************************************************************************)
EXTENDS EngineRefinement

KeyRule   == 0
ValueRule == 1

MCRules         == {KeyRule, ValueRule}
MCMaxLookbehind == [r \in MCRules |-> IF r = KeyRule THEN 0 ELSE 2]
MCMaxLookahead  == [r \in MCRules |-> IF r = KeyRule THEN 2 ELSE 0]
EqualConfidence == [r \in MCRules |-> 2]
ValueStronger   == [r \in MCRules |-> r + 1]
MCWindow        == 3

Cand(rule, at, answer, from, to) ==
    [rule |-> rule, trigStart |-> at, trigEnd |-> at + 1,
     answer |-> answer, from |-> from, to |-> to]

(* A key that redacts its whole window, one that redacts one byte of it.   *)
Wide(at)     == Cand(KeyRule, at, "span", at, at + 3)
Narrow(at)   == Cand(ValueRule, at, "span", at, at + 1)
(* A validator that reports more than its window. *)
Greedy(at)   == Cand(ValueRule, at, "span", at - 4, at + 4)
Panics(at)   == Cand(KeyRule, at, "panic", 0, 0)

Input(len, cands) == [len |-> len, cands |-> cands, newlines |-> {2, 5}, shaped |-> {1, 4}]

(* Chains that outgrow the buffer, with gaps of every width between them.  *)
ChainInputs ==
    {Input(9, A \cup B) : A \in SUBSET {Wide(0), Wide(2), Wide(3), Wide(5), Wide(7)},
                          B \in SUBSET {Narrow(3), Greedy(3), Narrow(8)}}
PanicInputs == {Input(8, A \cup {Panics(4)}) : A \in SUBSET {Wide(0), Wide(2), Narrow(5)}}
MCInputs == ChainInputs \cup PanicInputs

(* Fewer, for the runs with masking, record alignment or liveness.         *)
FewInputs ==
    {Input(9, A \cup B) : A \in SUBSET {Wide(0), Wide(2), Wide(5), Wide(7)},
                          B \in SUBSET {Greedy(3), Narrow(8)}}
=============================================================================
