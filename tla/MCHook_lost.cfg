SPECIFICATION FairSpec
CONSTANTS
    k1 = k1
    k2 = k2
    k3 = k3
    i1 = i1
    i2 = i2
    None = None
    Timers = {k1}
    Infos = {i1}
    Ops = {"io"}
    Closes = FALSE
    MaxSteals = 0
PROPERTIES
    CallReturns
