SPECIFICATION Spec
CONSTANTS
    NoAgent = NoAgent
    NoCard = NoCard
    Agents = {a1}
    Cards = {site1}
    Broad = {}
    Hyps = {h1, h2}
    Surface <- OwnSurface
    Shape <- OwnShape
    CardStatuses = {"claimed", "discarded", "crash"}
    TTL = 1
    Grace = 0
    MinRuns = 1
    MinShapes = 2
    MaxRuns = 1
    MaxConclusions = 2
 
PROPERTIES MinedStaysClosed
