\* Three writes; a buffer of two bytes, lengths and sums modulo four, and
\* byte offsets on both sides of the modulus.
CONSTANTS
  Irp = {i1, i2, i3}
  Capacity = 2
  Modulus = 4
  MaxOffset = 5
SPECIFICATION Spec
INVARIANTS TypeOK WildOnlyIfWrapped FinishedCovered
PROPERTIES ShrinksOnlyByRace
\* All requests done, or a copy outside the buffer.
CHECK_DEADLOCK FALSE
