------------------------------- MODULE RuleSet -------------------------------
(***************************************************************************)
(* goredact.New (internal/goredact/goredact.go) from the Config to the     *)
(* compiled engine, and the search for triggers by that engine: defaults,  *)
(* the choice of built-in rules, the validation of custom rules, the       *)
(* window of the set (internal/rules/rules.go), the chunk size, the        *)
(* trigger table and the automaton of it, which may refuse its size.       *)
(* Sums are those of Go's int.  Marker and validators are not modelled.    *)
(***************************************************************************)
EXTENDS TriggerMatch

CONSTANTS
    MaxInt,                \* math.MaxInt
    MaxValidationWindow,   \* maxValidationWindow
    Floor,                 \* the least chunk size
    DefaultChunkSize,
    Builtins,              \* the generated rules, a sequence
    Calls                  \* a run's configurations, each with a bound on what is scanned

Lens(r) == {Len(t.literal) : t \in ToSet(r.triggers)}
TotalWindow(r, n) == r.behind + n + r.ahead

GoInts == -(MaxInt + 1) .. MaxInt

RuleShape == [id : STRING, minProfile : 1 .. 3, triggers : Seq(Pattern), behind : GoInts, ahead : GoInts,
              confidence : Int, validator : BOOLEAN]
Config    == [profile : GoInts, chunkSize : GoInts, maskStrategy : GoInts, enable : SUBSET STRING,
              disable : SUBSET STRING, custom : Seq(RuleShape)]

ASSUME RuleSetAssumption ==
    /\ MaxInt \in Nat /\ MaxValidationWindow \in Nat
    /\ MaxStates <= MaxValidationWindow /\ 2 * MaxValidationWindow <= MaxInt
    /\ Floor \in Nat /\ DefaultChunkSize \in Nat
    /\ \A call \in Calls : call[1] \in Config /\ call[2] \in Nat
    /\ Builtins \in Seq(RuleShape)
    /\ \A i, j \in DOMAIN Builtins : Builtins[i].id = Builtins[j].id => i = j
    /\ \A r \in ToSet(Builtins) :
           /\ r.triggers # <<>> /\ r.behind >= 0 /\ r.ahead >= 0 /\ r.confidence \in 0 .. 2
           /\ \A n \in Lens(r) : n > 0 /\ TotalWindow(r, n) <= MaxValidationWindow

VARIABLES
    cfg,        \* the Config
    customs,    \* custom rules looked at so far
    maxWindow   \* Set.maxWindow

setVars == <<cfg, customs, maxWindow>>
vars == <<pc, setVars, active, table, buildVars, scanVars>>

Init ==
    /\ \E call \in Calls : cfg = call[1] /\ maxInput = call[2]
    /\ pc = "config" /\ active = <<>> /\ customs = 0 /\ maxWindow = 0
    /\ table = CompileTriggers(<<>>) /\ NothingBuilt

Goto(p) == pc' = p
Reject  == pc' = "invalid" /\ UNCHANGED <<active, customs, maxWindow>>
Later   == <<cfg, table, buildVars, scanVars>>

(* Go's int: a sum that does not fit wraps around.                         *)
Wrap(x) == ((x + MaxInt + 1) % (2 * (MaxInt + 1))) - (MaxInt + 1)
Uint8(x) == x % 256

IdsOf(list) == {r.id : r \in ToSet(list)}
Known       == IdsOf(Builtins)
Profile     == IF cfg.profile = 0 THEN 2 ELSE cfg.profile
ChunkSize   == IF cfg.chunkSize = 0 THEN DefaultChunkSize ELSE cfg.chunkSize

----------------------------------------------------------------------------
CheckConfig ==
    /\ pc = "config"
    /\ IF Profile \in 1 .. 3 /\ ChunkSize >= 0 /\ cfg.maskStrategy \in 0 .. 2
       THEN Goto("select") /\ UNCHANGED <<active, customs, maxWindow>>
       ELSE Reject
    /\ UNCHANGED Later

(* Faulty: the profile filters the rules that are enabled by name, too.    *)
SelectedInProfile(r) ==
    /\ cfg.enable # {} => r.id \in cfg.enable
    /\ r.minProfile <= Profile
    /\ r.id \notin cfg.disable

Selected(r) ==
    /\ IF cfg.enable # {} THEN r.id \in cfg.enable ELSE r.minProfile <= Profile
    /\ r.id \notin cfg.disable

(* The rules selected, in the order of the built-in ones.                  *)
Selection ==
    LET chosen[i \in 0 .. Len(Builtins)] ==
            IF i = 0 THEN <<>>
            ELSE IF Selected(Builtins[i]) THEN Append(chosen[i - 1], Builtins[i])
            ELSE chosen[i - 1]
    IN  chosen[Len(Builtins)]

(* Build: the built-in rules.                                              *)
Select ==
    /\ pc = "select"
    /\ IF cfg.enable \cup cfg.disable \subseteq Known
       THEN /\ active' = Selection /\ Goto("customs")
            /\ UNCHANGED <<customs, maxWindow>>
       ELSE Reject
    /\ UNCHANGED Later

(* Faulty: the window is summed, and the sum may wrap.                     *)
FitsBySum(r) == Wrap(Wrap(r.behind + Max(Lens(r))) + r.ahead) <= MaxValidationWindow

(* The check by subtraction of validateRule.                               *)
Fits(r) == r.ahead <= Wrap(Wrap(MaxValidationWindow - r.behind) - Max(Lens(r)))

(* validateRule, of a rule as customToInternal converts it.                *)
Valid(r) ==
    /\ r.id # "" /\ r.triggers # <<>> /\ 0 \notin Lens(r) /\ r.validator
    /\ r.behind >= 0 /\ r.ahead >= 0
    /\ Fits(r)
    /\ Uint8(r.confidence) <= 2

(* Build: the custom rules, one after the other.                           *)
AddCustom ==
    /\ pc = "customs" /\ customs < Len(cfg.custom)
    /\ LET r == cfg.custom[customs + 1]
       IN  IF Valid(r) /\ r.id \notin Known \cup IdsOf(active)
           THEN /\ active' = Append(active, [r EXCEPT !.confidence = Uint8(@)])
                /\ customs' = customs + 1
                /\ UNCHANGED <<pc, maxWindow>>
           ELSE Reject
    /\ UNCHANGED Later

WindowSums(r) == {Wrap(Wrap(r.behind + n) + r.ahead) : n \in Lens(r)}

(* Build: the window of the set.                                           *)
SumWindows ==
    /\ pc = "customs" /\ customs = Len(cfg.custom)
    /\ IF active = <<>> THEN Reject
       ELSE /\ maxWindow' = Max({0} \cup UNION {WindowSums(r) : r \in ToSet(active)})
            /\ Goto("chunk")
            /\ UNCHANGED <<active, customs>>
    /\ UNCHANGED Later

MinChunkSize == IF Wrap(2 * maxWindow) > Floor THEN Wrap(2 * maxWindow) ELSE Floor

CheckChunkSize ==
    /\ pc = "chunk"
    /\ IF ChunkSize >= MinChunkSize
       THEN Goto("compile") /\ UNCHANGED <<active, customs, maxWindow>>
       ELSE Reject
    /\ UNCHANGED Later

(* From here on Compile inserts, finishes or fails; Redact scans.          *)
CompileEngine == pc = "compile" /\ StartCompileTriggers /\ UNCHANGED setVars

Match == MatcherNext /\ UNCHANGED <<setVars, active, table>>

Ended ==
    /\ pc \in {"invalid", "failed"} \/ (pc = "scan" /\ Len(input) = maxInput /\ offset = 0)
    /\ UNCHANGED vars

Next ==
    \/ CheckConfig \/ Select \/ AddCustom \/ SumWindows \/ CheckChunkSize \/ CompileEngine
    \/ Match
    \/ Ended

Spec == Init /\ [][Next]_vars

----------------------------------------------------------------------------
(* What the engine relies on (EngineAssumption of module Engine): every    *)
(* window of every rule fits in maxWindow, and two of them in the chunk,   *)
(* in the arithmetic of the integers, whatever bounds a caller declares.   *)
EngineCanRun ==
    pc = "scan" =>
        /\ \A r \in ToSet(active) :
               /\ r.behind >= 0 /\ r.ahead >= 0 /\ r.confidence \in 0 .. 2
               /\ r.triggers # <<>> /\ \A n \in Lens(r) : n > 0 /\ TotalWindow(r, n) <= maxWindow
        /\ 2 * maxWindow <= ChunkSize /\ maxWindow <= MaxValidationWindow

(* The rules that run are those the configuration names: EnableRules       *)
(* overrides the profile, DisableRules overrides both, no name is unknown  *)
(* and none stands for two rules.                                          *)
EngineRunsWhatWasAsked ==
    pc = "scan" =>
        LET inProfile == {r.id : r \in {s \in ToSet(Builtins) : s.minProfile <= Profile}}
            wanted    == (IF cfg.enable = {} THEN inProfile ELSE cfg.enable) \ cfg.disable
        IN  /\ cfg.enable \cup cfg.disable \subseteq Known /\ active # <<>>
            /\ IdsOf(active) = wanted \cup IdsOf(cfg.custom)
            /\ Known \cap IdsOf(cfg.custom) = {}
            /\ Len(active) = Cardinality(IdsOf(active))
=============================================================================
