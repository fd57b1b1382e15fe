SPECIFICATION Spec
CONSTANTS
    t1 = t1
    t2 = t2
    x1 = x1
    x2 = x2
    Threads = {t1, t2}
    Timers = {x1, x2}
    Periods = {1, 2}
    Recurring = {x1}
    MaxNotifiers = 1
    MaxTimeout = 3
    IntMod = 64
    Hour = 2
    MaxLag = 1
    MaxClock = 2
    SetBacks = {3}
INVARIANTS
    CbIffInSet
    NoOversleep
PROPERTIES
    OverIsOver
    NeverEarly
SYMMETRY Sym
