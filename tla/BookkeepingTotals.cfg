SPECIFICATION Spec
CONSTANTS
    r1 = r1
    r2 = r2
    s1 = s1
    t1 = t1
    t2 = t2
    Run = {r1, r2}
    Sync = {s1}
    Thread = {t1, t2}
    Actor = {r1, r2, t1, t2}
    Nobody = Nobody
    NoRun = NoRun
    Scenarios <- Meetings
    Rules = 2
    Kinds = 2
    Enabled = {"openai"}
    Ranges = {1, 2}
    Window = 2
    Results = 1
    MaxDay = 0
    IOFaults = FALSE
    MaxCrashes = 0
INVARIANTS
    OfficialTotalsCountOnce
CHECK_DEADLOCK FALSE
