SPECIFICATION MCSpec
CONSTANTS
    p1 = p1
    Procs = {p1}
    Harnesses = {"h1"}
    Artifacts = {"x"}
    Wall = 6
    Slice = 3
    MinSlice = 1
    Slack = 2
    Reserve = 2
    MergeReserve = 3
    MergeEvery = 2
    SaturationSlices = 2
    RepeatSlices = 2
    NoiseSlices = 2
    MaxCorpus = 2
    MaxBuilds = 1
    MaxKills = 1
    Files = {1, 2}
    UnitsOf <- UnitsOfFiles
    TokenBudget = 3
    MaxFails = 2
    MaxEdits = 1
    MaxLaunches = 2
    MaxMarks = 1
    TurnCap = 2
    Grace = 1
    MaxCalls = 5
CONSTRAINT MCBound
CHECK_DEADLOCK FALSE
INVARIANTS SessionKept
PROPERTIES CampaignKept SweepKept EachEnds
