SPECIFICATION FairSpec
CONSTANTS
    r1 = r1
    r2 = r2
    r3 = r3
    shop = shop
    blog = blog
    Request = {r1, r2, r3}
    Project = {shop, blog}
    NoPayload = NoPayload
    Nobody = Nobody
    None = None
    Scenarios <- AllScenarios
    Answers <- AllAnswers
    IOFaults = TRUE
    Configured = {"openai", "gemini", "openrouter", "exa"}
    LiveAllowed = TRUE
    ModelSearch = {"gemini"}
    ExaEnabled = TRUE
    MaxCostPerCall = 5
INVARIANTS
    TypeOK
    
    PlansStayWithinTheRequest
    GatedModelsNeedApproval
    WaitsAreAllowed
    StoredPlansAreNarrowed
    ProjectNamesWrittenRuns
PROPERTIES
    PrototypesFollowPlans
    RequestsEnd
CHECK_DEADLOCK FALSE
