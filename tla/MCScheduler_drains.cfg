SPECIFICATION Spec
CONSTANTS
    w1 = w1
    w2 = w2
    r1 = r1
    u1 = u1
    f1 = f1
    f2 = f2
    c1 = c1
    c2 = c2
    None = None
    Workers = {w1, w2}
    Roots = {}
    UserFibers = {u1}
    CbFibers = {f1}
    Cbs = {}
    MaxYields = 2
    WaitAfterStop = TRUE
INVARIANTS
    StopDrains
SYMMETRY WorkerSym
