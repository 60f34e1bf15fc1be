\* Two applications; devices and functions of one bit, two registers.
CONSTANTS
  Application = {c1, c2}
  DevBits = 2
  FunBits = 2
  Registers = 2
SPECIFICATION PciSpec
INVARIANTS MixedOnlyIfCrossed
\* Every application has shown what it read.
CHECK_DEADLOCK FALSE
