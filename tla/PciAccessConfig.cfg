\* One application: the shortest story.
CONSTANTS
  Application = {c1}
  DevBits = 4
  FunBits = 2
  Registers = 2
SPECIFICATION PciSpec
INVARIANTS ConfigFromBelow
CHECK_DEADLOCK FALSE
