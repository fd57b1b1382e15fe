SPECIFICATION Spec
CONSTANTS
    u1 = u1
    u2 = u2
    t1 = t1
    t2 = t2
    x1 = x1
    x2 = x2
    x3 = x3
    None = None
    Users = {u1, u2}
    Threads = {t1}
    Fds = {2, 4}
    Events = {"READ", "WRITE"}
    Waiters = {x1, x2, x3}
    InitSize = 2
    MaxGen = 2
    Closes = TRUE
INVARIANTS
    KernelAgrees
    WakeOnce
    PendingExact
SYMMETRY Sym
