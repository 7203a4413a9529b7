SPECIFICATION FairSpec
CONSTANTS
    w1 = w1
    w2 = w2
    Workers <- MCWorkers
    FileCount = 3
    Trees <- MCTrees
    ShowSecrets = TRUE
INVARIANTS
    ReportIsReference RootCause NothingAfterClose
PROPERTIES
    EverythingEnds
