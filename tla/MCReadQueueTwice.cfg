\* Two readers, each of which may be cancelled: the shortest story.
CONSTANTS
  Irp = {i1, i2}
  NoIrp = NoIrp
  Cancellable <- Everybody
SPECIFICATION Spec
INVARIANTS HandledOnce
CHECK_DEADLOCK FALSE
