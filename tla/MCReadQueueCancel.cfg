\* Three readers, each of which may be cancelled at any time.
CONSTANTS
  Irp = {i1, i2, i3}
  NoIrp = NoIrp
  Cancellable <- Everybody
SPECIFICATION FairSpec
INVARIANTS TypeOK OnlyCancelledTwice NoStranded QueuedIsFree PendingCanBeCancelled
PROPERTIES ClaimedRunsToSuccess ReadsCompleted
\* A second completion stops the machine.
CHECK_DEADLOCK FALSE
