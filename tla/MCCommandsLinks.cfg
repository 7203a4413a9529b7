SPECIFICATION Spec
CONSTANTS
    Names <- MCNames
    FileIds <- MCFileIds
    Disks <- AllDisks
    Invocations <- MCInvocations
    Tree <- MCTree
    ReportNames <- MCReports
    Disturbances = 0
INVARIANTS
    NoPartialReport
