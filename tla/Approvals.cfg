SPECIFICATION Spec
CONSTANTS
    a1 = a1
    a2 = a2
    a3 = a3
    a4 = a4
    d1 = d1
    d2 = d2
    d3 = d3
    site = site
    shop = shop
    Attempt = {a1, a2, a3, a4}
    Decision = {d1, d2}
    Subject = {site, shop}
    Nobody = Nobody
    PayloadOf <- EachTwice
    MaxCards = 4
    MaxIds = 2
    Crashes = TRUE
SYMMETRY Symmetry
INVARIANTS
    TypeOK
    RejectedCardsStopRuns
    VerdictsAreKept
    
PROPERTIES
    ApprovalsGateRuns
