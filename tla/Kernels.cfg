SPECIFICATION KernelSpec
CONSTANTS
  Requests <- SmallRequests
  Capacity = 3
  MaxSequence = 5
  NoRequest = NoRequest
  MaxLength = 5
INVARIANT
  AcceptsWellFormed
PROPERTY
  ImplementsList
CHECK_DEADLOCK FALSE
