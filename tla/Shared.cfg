SPECIFICATION MCSpec
CONSTANTS
    p1 = p1
    p2 = p2
    Claimants = {p1, p2}
    Sigs = {"a", "b"}
    Launches = {1, 2}
    Backends = {1, 2}
    Codex = 2
    Scopes = {"whole", "delta"}
    MaxIterations = 2
    Attempts = 2
    TransientMax = 1
CONSTRAINT MCBound
INVARIANTS PinsKept OnlyLiveBlock
PROPERTIES ClaimAnswered SurfaceShared 
