\* A program that has its chain, or its report, is done.
SPECIFICATION Spec
CHECK_DEADLOCK FALSE
CONSTANTS
    a = a
    b = b
    c = c
    d = d
    Forged = Forged
    None = None
    Limit = 3
    Bits = 3
    MaxDraws = 2
    Attempts = 2
    MaxNodes = 5
    Jobs <- AllJobs
    Answers <- SomeAnswers
    Plans <- AllPlans
INVARIANTS
    ChainFits
    UniformPaths
    ModelMatchesDraws
