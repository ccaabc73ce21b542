SPECIFICATION Spec
CONSTANTS
    r1 = r1
    r2 = r2
    f1 = f1
    f2 = f2
    Run = {r1}
    Path = {f1, f2, StateFile}
    StateFile = StateFile
    Existing = {f1, StateFile}
    NoRun = NoRun
    Earlier = Earlier
    ScopeOf <- OneScope
    RequestsOf <- OneRequests
    MaxFiles = 2
    ProviderFaults = TRUE
    IOFaults = FALSE
INVARIANTS
    RollbackRestoresOriginals
