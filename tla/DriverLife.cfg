\* Two devices that share the one name, a foreign link, and a region field.
CONSTANTS
  Pdo = {p1, p2}
  None = None
  Value = {Zero, one}
  Zero = Zero
  Garbage = Garbage
  NoBlock = NoBlock
SPECIFICATION LifeSpec
INVARIANTS LinkTracksDevice OnlyFailuresLeave AmlReadsBack FaultsOnlyForCause
PROPERTIES RobsOnlyAfterFailure
\* A fault stops the machine.
CHECK_DEADLOCK FALSE
