SPECIFICATION SeriesSpec
CONSTANTS
  Allocations <- MCAllocations
  OtherPayments = {0, 3}
  Amounts = {1, 2, 3, 4, 7, 14, 20}
  MaxReversals = 3
INVARIANTS
  NeverRestoresMoreThanAllocated
  FullReversalIsExact
CHECK_DEADLOCK FALSE
