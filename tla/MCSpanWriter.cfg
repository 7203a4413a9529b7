SPECIFICATION Spec
CONSTANTS
    MaxOffset = 4
    MaxRegion = 3
    SpanChoices <- MCSpanChoices
    MaxSpans = 2
    MarkerLen = 2
    MaskStrategies = {"fixed", "length"}
INVARIANTS
    DestIsRendering CountersExact
