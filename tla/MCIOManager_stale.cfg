SPECIFICATION Spec
CONSTANTS
    u1 = u1
    u2 = u2
    t1 = t1
    t2 = t2
    x1 = x1
    x2 = x2
    x3 = x3
    None = None
    Users = {u1, u2}
    Threads = {t1}
    Fds = {2}
    Events = {"READ", "WRITE"}
    Waiters = {x1, x2}
    InitSize = 3
    MaxGen = 1
    Closes = FALSE
INVARIANTS
    TriggerAssertion
SYMMETRY Sym
