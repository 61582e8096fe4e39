SPECIFICATION Spec
CONSTANTS
    t1 = t1
    t2 = t2
    Threads = {t1, t2}
    Kernels <- MCKernels
    Loads <- MCLoads
    Attempts = 2
    U32 = 32
    LogBufSize = 3
INVARIANTS
    FailureExplained
    GoodProgramLoads
PROPERTIES
    LoadReturns
CHECK_DEADLOCK FALSE
