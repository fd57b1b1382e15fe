SPECIFICATION Spec
CONSTANTS
    w1 = w1
    w2 = w2
    r1 = r1
    u1 = u1
    f1 = f1
    f2 = f2
    c1 = c1
    c2 = c2
    None = None
    Workers = {}
    Roots = {r1}
    UserFibers = {u1}
    CbFibers = {f1, f2}
    Cbs = {c1, c2}
    MaxYields = 2
    WaitAfterStop = TRUE
INVARIANTS
    StopDrains
SYMMETRY Sym
