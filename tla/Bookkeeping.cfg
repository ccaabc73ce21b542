SPECIFICATION FairSpec
CONSTANTS
    r1 = r1
    r2 = r2
    s1 = s1
    t1 = t1
    t2 = t2
    Run = {r1, r2}
    Sync = {s1}
    Thread = {t1, t2}
    Actor = {r1, r2, t1, t2}
    Nobody = Nobody
    NoRun = NoRun
    Scenarios <- Meetings
    Rules = 2
    Kinds = 1
    Enabled = {"openai", "google"}
    Ranges = {1}
    Window = 1
    Results = 1
    MaxDay = 1
    IOFaults = TRUE
    MaxCrashes = 1
INVARIANTS
    TypeOK
    MemoryKeepsItems
    CoreRulesComplete
    RecordsAreKept
    StoredRunsHaveUsage
    OkStatusHasRows
PROPERTIES
    TasksEnd
CHECK_DEADLOCK FALSE
