SPECIFICATION Spec
CONSTANTS
    Sources = {"a", "b"}
    Products = {}
    Committed = {"a"}
    Vcs = "git"
    MaxCommits = 1
INVARIANT RenameSeen
