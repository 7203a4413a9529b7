SPECIFICATION FairSpec
CONSTANTS
    StreamLengths <- MCStreamLengths
    Trailer = 1
    PartSize = 2
    MaxParts = 3
INVARIANTS
    CompletesWhole OutcomeIsClear ScannerStopsFirst
PROPERTIES
    EverythingEnds
