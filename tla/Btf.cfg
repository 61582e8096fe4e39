SPECIFICATION Spec
CONSTANTS
    Inputs <- MCInputs
    IdenticalDepth = 4
    MaxCalls = 2
INVARIANTS
    NoMapLoop
    Faithful
    NoDuplicates
    Compiles
    AskedIsPrinted
CHECK_DEADLOCK FALSE
