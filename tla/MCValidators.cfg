SPECIFICATION Spec
CONSTANT Texts <- AllTexts
CHECK_DEADLOCK FALSE
INVARIANTS
    WindowSuffices
    CutAtWindowEnd
    ClaimedOnce
    KeyBlockCovered
    CookiePairsCovered
