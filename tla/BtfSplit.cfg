SPECIFICATION Spec
CONSTANTS
    Inputs <- SplitInputs
    IdenticalDepth = 4
    MaxCalls = 0
INVARIANTS
    BaseKeptApart
CHECK_DEADLOCK FALSE
