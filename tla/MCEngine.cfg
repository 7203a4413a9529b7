SPECIFICATION Spec
CONSTANTS
    Rules <- MCRules
    MaxLookbehind <- MCMaxLookbehind
    MaxLookahead <- MCMaxLookahead
    Confidence <- EqualConfidence
    Window <- MCWindow
    ChunkSize = 6
    RecordAligned = FALSE
    MaskStrategy = "fixed"
    MaxConsecutiveZeroReads = 2
    Inputs <- MCInputs
INVARIANTS
    NoLeak WindowsWhole
    ReleaseContract QueueNeverBinds GapCovered WriterContract EmitsPromptly
PROPERTIES
    ImplementsRedactor FindingsInOrder
