\* Two reads of one process, one of another, two handle values; one process has
\* events of its own; nobody cancels.
CONSTANTS
  i1 = i1
  i2 = i2
  i3 = i3
  proc1 = proc1
  proc2 = proc2
  Irp <- MCIrp
  NoIrp = NoIrp
  Cancellable <- Nobody
  Process <- MCProcess
  ProcessOf <- MCProcessOf
  WithEvents <- OnlyProc1
  Handle = {h1, h2}
  NoHandle = NoHandle
SPECIFICATION FairPathSpec
INVARIANTS StraysOnlyIfCrossed NoHandleLost
PROPERTIES ImplementsSerialReader ReadsServed
\* All reads done: nothing is left to do.
CHECK_DEADLOCK FALSE
