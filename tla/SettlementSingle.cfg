SPECIFICATION FairSpec
CONSTANTS
  Procs = {p1, p2, p3}
  Invoices = {1, 2}
  Charges = {11, 12}
  Refunds = {21}
  Chargebacks = {31}
  Requests = {"q1", "q2"}
  InvAmount <- SmallInvAmount
  Customer <- OneCustomer
  TxnAmount <- SingleTxnAmount
  Request <- SingleRequest
  RequestInvoice <- SmallRequestInvoice
  Original <- SingleOriginal
  LineChoices <- SingleLines
  Ops = {"apply", "reverse", "creditApply", "creditAllocate", "crash"}
  None = None
INVARIANTS
  TypeOK
  BalanceCoherent
  NoLostUpdate
  MoneyAddsUp
PROPERTIES
  AppliedOnce
  AtomicSpec
  EveryRequestEnds
CHECK_DEADLOCK FALSE
