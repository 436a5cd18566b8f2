SPECIFICATION MCSpec
CONSTANTS
    a1 = a1
    a2 = a2
    NoAgent = NoAgent
    NoCard = NoCard
    Agents = {a1, a2}
    Cards = {broad1}
    Broad = {broad1}
    Hyps = {h1}
    Surface <- OwnSurface
    Shape <- OwnShape
    CardStatuses = {"discarded"}
    TTL = 2
    Grace = 1
    MinRuns = 0
    MinShapes = 0
    MaxRuns = 0
    MaxConclusions = 1
    Modes = {"free", "own", "peers", "ranked", "delta"}
    Slots = {1, 2}
    Reserved = 1
    Files = {1, 2, 3}
    Campaign = TRUE
    LanesOf <- LanesOfFiles
    Held <- HeldFiles
    Base = 1
    Dry = 1
    DryS1 = 2
    ForceExtra = 1
    MaxFails = 1
CONSTRAINT MCBound
SYMMETRY AgentSymmetry
CHECK_DEADLOCK FALSE
INVARIANTS NoStolenLease LeaseAgreement 
 
