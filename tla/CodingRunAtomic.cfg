SPECIFICATION FairSpec
CONSTANTS
    r1 = r1
    r2 = r2
    f1 = f1
    f2 = f2
    Run = {r1, r2}
    Path = {f1, f2, StateFile}
    StateFile = StateFile
    Existing = {f2, StateFile}
    NoRun = NoRun
    Earlier = Earlier
    ScopeOf <- SharedScopes
    RequestsOf <- PatchRequests
    MaxFiles = 2
    ProviderFaults = TRUE
    IOFaults = TRUE
PROPERTIES
    PatchesAreTransactions
    RunsEnd
