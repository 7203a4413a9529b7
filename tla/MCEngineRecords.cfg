SPECIFICATION FairSpec
CONSTANTS
    Rules <- MCRules
    MaxLookbehind <- MCMaxLookbehind
    MaxLookahead <- MCMaxLookahead
    Confidence <- ValueStronger
    Window <- MCWindow
    ChunkSize = 6
    RecordAligned = TRUE
    MaskStrategy = "length"
    MaxConsecutiveZeroReads = 2
    Inputs <- FewInputs
INVARIANTS
    RefInv BufferFixed
PROPERTIES
    ImplementsRedactor Terminates
