SPECIFICATION Spec
CONSTANTS
  Procs = {p1}
  Invoices = {1, 2}
  Credits = {11, 12, 13, 14, 15, 16}
  Created = {15, 16}
  Amount <- MCAmount
  Kind <- MCKind
  Link <- MCLink
  Request <- MCRequest
  Workloads <- SettledWorkload
  Overlap <- SettledOverlap
  None = None
INVARIANTS
  ReceivableAgrees
CHECK_DEADLOCK FALSE
