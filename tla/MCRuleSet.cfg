SPECIFICATION Spec
CONSTANTS
    a = a
    A = A
    b = b
    Bytes <- Letters
    Fold <- Folding
    MaxInt = 63
    MaxValidationWindow = 16
    MaxStates = 12
    Floor = 4
    DefaultChunkSize = 40
    Builtins <- MCBuiltins
    Calls <- MCCalls
INVARIANTS
    MatchesAreOccurrences RefusedOnlyIfTooLarge
    CandidatesAreOccurrences EngineCanRun EngineRunsWhatWasAsked
