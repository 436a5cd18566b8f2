SPECIFICATION MCSpec
CONSTANTS
    Sources = {"a", "b"}
    Products = {"ignored", "pruned", "artifact"}
    Committed = {"a"}
    Vcs = "git"
    MaxCommits = 1
    Kids = {"a", "b"}
    Rounds = 2
    Checkouts = {"s0", "s1"}
    Builds = {"b0", "b1"}
    Last = 2
    Direct = {1}
    MaxEdits = 2
    MaxKills = 1
    PoolCells = {1, 2}
    Arts = {1, 2, 3}
    CellOf <- CellOfArts
    SanOf <- SanOfArts
    Behind <- BehindArts
    MaxPoolKills = 1
CONSTRAINT MCBound
CHECK_DEADLOCK FALSE
INVARIANTS IdentityKept ReaperKept
PROPERTIES RunKept PoolKept NumbersKept
