SPECIFICATION Spec
CONSTANTS
    Callers = {c1, c2}
    Prompts = {p1, p2, p3}
    None = None
    AuditAsks = {p1}
    SweepAsks = {p1, p2}
    DrainAsks = {p1, p2, p3}
    Cap = 2
    PromptMax = 2
    TypeMax = 2
    Cooldown = 1
    MaxPauses = 2
CHECK_DEADLOCK FALSE
 
PROPERTIES DrainGoesOn
