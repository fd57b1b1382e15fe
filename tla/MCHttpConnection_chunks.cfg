SPECIFICATION Spec
CONSTANTS
  Bodies <- MCBodies
  Base = 2  BuffSize = 20
INVARIANT LenIsUnparsed
CHECK_DEADLOCK FALSE
