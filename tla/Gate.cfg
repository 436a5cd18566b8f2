SPECIFICATION MCSpec
CONSTANTS
    s1 = s1
    s2 = s2
    f1 = f1
    c1 = c1
    Slots = {s1, s2}
    Findings = {f1}
    Crashes = {c1}
    Owner <- OwnerS1
    MaxClock = 3
    Agents = {"a1", "a2"}
    Cases = {"c1", "c2", "c3"}
    StateOf <- CaseState
    RouteOf <- CaseRoute
    Revises <- CaseRevises
    MaxFiled = 3
    Filed = {"f1"}
    Copy = "copy"
    Tests = {1, 2}
    Harnesses = {1, 2}
    Outcomes = {"crash", "clean"}
    MaxBuilds = 2
    MaxProbes = 2
    MaxMishaps = 2
    Texts = {1, 2}
    Revs = {"", "r1"}
    MaxEvents = 2
    States = {"reportable", "rejected"}
    MaxTicks = 3
CONSTRAINT MCBound
CHECK_DEADLOCK FALSE
INVARIANTS FindingSettled CrashSettled ClosesInOrder
PROPERTIES  IssueKept EvidenceKept
