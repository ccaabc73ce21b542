SPECIFICATION FairSpec
CONSTANTS
    Workflows <- AllWorkflows
    Limits <- TwoLimits
    MaxCost = 2
    IOFaults = TRUE
INVARIANTS
    TypeOK
    AnswersAreInTheLog
    PaidTwiceIsExplained
    CountedRunsStayWithinLimit
    RefusedRunsLeaveNoFiles
PROPERTIES
    RunsEnd
    KeepsTheLedger
