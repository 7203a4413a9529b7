SPECIFICATION Spec
CONSTANTS
    RawSpans <- MCRawSpans
    Limits <- MCLimits
    LastOffset = 5
    MaxAdds = 3
INVARIANTS
    HoldsComponents
PROPERTIES
    AddIsAddSpan ImplementsCollector
