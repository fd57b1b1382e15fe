SPECIFICATION ReactorSpec
CONSTANTS
  Users = {"u1", "u2"}  Functors = {"f1", "f2"}  Channels = {"c"}
  Addrs = {1, 2}  Delays = {0, 1}  Intervals = {0, 1}  MaxCreated = 2  MaxFunctors = 1  MaxNow = 2
  MaxConnects = 2  MaxQueued = 1
  Messages = {"m1", "m2"}  MessageSize = 1  MaxCalls = 1
  Base = 2  BuffSize = 20
  BufferSize = 4  Lengths = {1, 2, 4}  MaxWaiting = 3  MaxLines = 5
INVARIANTS
  NoSleepOnPending TimerfdArmed  OneConnectIsSafe
  ClosesOnce InOrderThenFin BodyIsContent NoLineLost
PROPERTIES
  QuitEndsLoop StopSettles ShutdownSendsFin
CHECK_DEADLOCK FALSE
