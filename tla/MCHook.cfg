SPECIFICATION FairSpec
CONSTANTS
    k1 = k1
    k2 = k2
    k3 = k3
    i1 = i1
    i2 = i2
    None = None
    Timers = {k1, k2}
    Infos = {i1, i2}
    Ops = {"io", "untimed", "connect", "sleep"}
    Closes = TRUE
    MaxSteals = 1
PROPERTIES
    WakesFollowProtocol
    SuccessIsEarned
    TimeoutIsOwn
    OnlyLostWakesHang
CHECK_DEADLOCK FALSE
