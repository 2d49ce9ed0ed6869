SPECIFICATION MCSpec
CONSTANTS
    Workflows <- MCWorkflows
    Reuses = FALSE
    Requests <- MCRequests
    Tables <- MCTables
INVARIANTS Canonical CyclesAreTold ReadsThisRun ExtractionIsExact
CHECK_DEADLOCK FALSE
