\* Three reads; the modulus is beyond their number.
CONSTANTS
  Irp = {i1, i2, i3}
  Modulus = 5
SPECIFICATION Spec
INVARIANTS CountsReads PendingAgrees
\* All reads done.
CHECK_DEADLOCK FALSE
