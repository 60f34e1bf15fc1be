\* Two callers and two processors; the period is three ticks.
CONSTANTS
  Caller = {c1, c2}
  Cpu = {p1, p2}
  Period = 3
SPECIFICATION FairSpec
INVARIANTS NeverEarly StopHolds StaleOnlyIfLeftPolling
PROPERTIES EndsByCancelOnly PollingGoesOn
\* The use of a deleted timer ends a behaviour.
CHECK_DEADLOCK FALSE
