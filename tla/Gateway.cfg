SPECIFICATION FairSpec
CONSTANTS
  Procs = {p1, p2}
  Invoices = {"inv"}
  Attempts = {1, 2}
  Amount <- MCAmount
  Request <- MCRequest
  Workloads <- MCWorkloads
  MaxFaults = 1
  None = None
INVARIANTS
  BalanceIsCollected
  BookedOnce
  OneChargePerSession
  StoredIsCharged
PROPERTIES
  SuccessIsFinal
  PaidIsCharged
  VerifiedIsDecided
CHECK_DEADLOCK FALSE
