SPECIFICATION Spec
CONSTANTS
  Procs = {p1, p2}
  Invoices = {1, 2}
  Credits = {11, 12, 13, 14, 15, 16}
  Created = {15, 16}
  Amount <- MCAmount
  Kind <- MCKind
  Link <- MCLink
  Request <- MCRequest
  Workloads <- MCWorkloads
  Overlap <- MCOverlap
  None = None
INVARIANTS
  ControlsAgree
  LedgerBalances
  CreditIsAccounted
CHECK_DEADLOCK FALSE
