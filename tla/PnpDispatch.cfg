\* Two requests of any kind.
CONSTANT Irp = {i1, i2}
SPECIFICATION FairSpec
INVARIANTS HandledOnce OnlyRemovalAstray LowerAnswersFirst CapabilitiesSettled
PROPERTIES OnlyRelationsNeverCompleted
\* All requests done, or the device gone.
CHECK_DEADLOCK FALSE
