\* Two callers, up to two children, a pool for three enumerations of one child.
CONSTANTS
  Caller = {c1, c2}
  MaxChildren = 2
  Pool = 9
SPECIFICATION FairSpec
INVARIANTS TypeOK FrameOutlivesRequest LoopInBounds
PROPERTIES RequestsEnd
\* A loop beyond its buffer ends a behaviour.
CHECK_DEADLOCK FALSE
