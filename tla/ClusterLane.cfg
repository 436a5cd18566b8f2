SPECIFICATION MCSpec
CONSTANTS
    c1 = c1
    c2 = c2
    c3 = c3
    s1 = s1
    NoState = NoState
    Crashes = {c1, c2, c3}
    StateOf <- MCStateOf
    MaxBarriers = 1
CHECK_DEADLOCK FALSE
INVARIANTS MintOnce
PROPERTIES DrainSettles DrainReturns BootstrapKept
