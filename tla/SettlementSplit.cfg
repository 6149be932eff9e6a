SPECIFICATION Spec
CONSTANTS
  Procs = {p1, p2, p3}
  Invoices = {1, 2}
  Charges = {11, 12}
  Refunds = {21}
  Chargebacks = {31}
  Requests = {"q1", "q2"}
  InvAmount <- SplitInvAmount
  Customer <- OneCustomer
  TxnAmount <- SplitTxnAmount
  Request <- SplitRequest
  RequestInvoice <- SmallRequestInvoice
  Original <- SplitOriginal
  LineChoices <- SplitLines
  Ops = {"allocate", "reverseAllocations", "crash"}
  None = None
INVARIANTS
  MoneyAddsUp
  ReversalsWithinAllocations
  NoDeadlock
SYMMETRY ProcSymmetry
CHECK_DEADLOCK FALSE
