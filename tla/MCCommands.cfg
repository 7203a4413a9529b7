SPECIFICATION Spec
CONSTANTS
    Names <- MCNames
    FileIds <- MCFileIds
    Disks <- AllDisks
    Invocations <- MCInvocations
    Tree <- MCTree
    ReportNames <- MCReports
    Disturbances = 2
INVARIANTS
    InputsUntouched FailureLeavesNothing OutputSurvivesWithoutDanglingLinks
    RefusalKeepsReport
