\* A query, a set and a request of any kind, and the values 0 and 1.
CONSTANTS
  i1 = i1
  i2 = i2
  i3 = i3
  Irp = {i1, i2, i3}
  Query = i2
  Set = i3
  Value = {0, 1}
  Requests <- MCRequests
SPECIFICATION FairSpec
INVARIANTS OneEnd QueriesAreRegular
PROPERTIES AllEnd
\* All requests done.
CHECK_DEADLOCK FALSE
