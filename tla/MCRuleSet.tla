------------------------------ MODULE MCRuleSet ------------------------------
(* Integers of seven bits, a window of 16, four states to a window.        *)
EXTENDS RuleSet

CONSTANTS a, A, b

Letters == {a, A, b}
Folding == (a :> a) @@ (A :> a) @@ (b :> b)

P(l, k) == [literal |-> l, kind |-> k]
Long(n) == P([i \in 1 .. n |-> a], "exact")
T == [ab  |-> P(<<a, b>>, "exact"), Ab |-> P(<<A, b>>, "exact"), b |-> P(<<b>>, "exact"),
      abf |-> P(<<a, b>>, "fold"), Abf |-> P(<<A, b>>, "fold"), baf |-> P(<<b, a>>, "fold")]
Triggers == {T[x] : x \in DOMAIN T}

R(id, p, triggers, behind, ahead, conf, validator) ==
    [id |-> id, minProfile |-> p, triggers |-> triggers, behind |-> behind, ahead |-> ahead,
     confidence |-> conf, validator |-> validator]
C(id, triggers) == R(id, 1, triggers, 1, 2, 2, TRUE)

MCBuiltins == <<R("fast", 1, <<Long(1), Long(3)>>, 0, 4, 2, TRUE),
                R("balanced", 2, <<T.ab>>, 2, 6, 1, TRUE),
                R("deep", 3, <<T.b>>, 8, 7, 0, TRUE)>>

Configured(profile, chunkSize, maskStrategy, enable, disable, custom) ==
    [profile |-> profile, chunkSize |-> chunkSize, maskStrategy |-> maskStrategy,
     enable |-> enable, disable |-> disable, custom |-> custom]
Only(custom) == Configured(1, 0, 0, {"fast"}, {"fast"}, custom)

(* Selections of built-in rules and of custom ones, right and wrong.       *)
Odd == {R("", 1, <<T.b>>, 0, 0, 2, TRUE), R("d", 1, <<>>, 0, 0, 2, TRUE),
        R("d", 1, <<P(<<>>, "fold"), T.ab>>, 0, 0, 2, TRUE), R("d", 1, <<T.b>>, 0, 0, 2, FALSE),
        C("deep", <<T.b>>)} \cup {R("d", 1, <<T.ab>>, 3, 0, conf, TRUE) : conf \in {-1, 0, 3, 256}}

Selections ==
    {Configured(p, size, mask, enable, disable, custom) :
        p \in {0, 1, 3, 4}, size \in {0, -1}, mask \in {0, 3},
        enable \in {{}, {"deep"}, {"fast", "balanced"}, {"other"}},
        disable \in {{}, {"fast"}, {"deep", "c"}, {"fast", "balanced"}},
        custom \in {<<>>, <<C("c", <<T.ab>>), C("d", <<T.baf>>)>>, <<C("c", <<T.ab>>), C("c", <<T.b>>)>>}
                   \cup {<<r>> : r \in Odd}}

(* Bounds and trigger lengths at and beyond every limit.                   *)
Windows == {R("c", 1, triggers, behind, ahead, 2, TRUE) :
                triggers \in {<<T.b>>, <<T.ab, Long(4)>>, <<Long(18)>>},
                behind \in {-1, 0, 6, 63}, ahead \in {0, 6, 9, 10, 63}}

Bounds ==
    {Configured(1, size, 0, {}, {}, custom) :
        size \in {0, 31, 32},
        custom \in {<<r>> : r \in Windows} \cup {<<r, C("d", <<T.baf>>)>> : r \in Windows}}

(* Two rules whose triggers share, fold and nest each other ...            *)
Shared == {Only(<<C("c", s), C("d", <<t>>)>>) : s \in BoundedSeq(Triggers, 2) \ {<<>>}, t \in Triggers}
(* ... and patterns inside, before, behind and across each other, or just  *)
(* as long, and longer, than the automaton can hold.                       *)
Deep ==
    {Only(<<C("c", <<P(<<a, b, a, b>>, "exact"), P(<<b, a>>, "exact"), P(<<a>>, "exact"), P(<<b, a, b>>, "exact")>>)>>),
     Only(<<C("c", <<P(<<a, A, b>>, "fold"), P(<<A, b>>, "exact")>>),
            C("d", <<P(<<b, b, a>>, "fold"), P(<<b>>, "exact")>>)>>),
     Only(<<C("c", <<P(<<a, a, a>>, "fold"), P(<<A, A>>, "fold"), P(<<a, b, A>>, "fold"), P(<<b, A>>, "exact")>>)>>),
     Only(<<C("c", <<P(<<a, b, a, a, b>>, "fold"), P(<<b, a, b, a>>, "fold"), P(<<b, a>>, "fold")>>)>>)}
Full == {Only(<<C("c", <<Long(n)>>)>>) : n \in {11, 12}}
            \cup {Only(<<C("c", <<Long(9)>>), C("d", <<P(<<b, A, b>>, k)>>)>>) : k \in Kinds}

MCCalls == (Selections \cup Bounds \cup Full) \X {0} \cup Shared \X {4} \cup Deep \X {6}
=============================================================================
