SPECIFICATION MCSpec
CONSTANTS
    p1 = p1
    p2 = p2
    p3 = p3
    Procs = {p1, p2, p3}
    MaxBuilds = 1
    CleanupFails = FALSE
    RecipeSurvives = FALSE
    b1 = b1
    b2 = b2
CHECK_DEADLOCK FALSE
INVARIANTS LastBuildKept
PROPERTIES TreeStable ConsumerAlwaysProceeds 
