SPECIFICATION Spec
CONSTANTS
    Filed <- SomeFiled
    Answers <- SomeAnswers
    Gaps = {"report"}
    Quorum = 2
    AcceptQuorum = 2
    PendingMax = 2
    FillMax = 1
    MaxTrouble = 1
    MaxChanges = 1
CHECK_DEADLOCK FALSE
PROPERTIES VerdictsKept EventuallySettled
