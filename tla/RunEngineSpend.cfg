SPECIFICATION Spec
CONSTANTS
    Workflows <- PrototypeOnly
    Limits <- TwoLimits
    MaxCost = 2
    IOFaults = FALSE
INVARIANT
    StoredChargesWithinLimit
