SPECIFICATION Spec
CONSTANTS
  Procs = {p1}
  Invoices = {1, 2, 3}
  Charges = {11, 12}
  Refunds = {21}
  Chargebacks = {31}
  Requests = {"q1", "q2"}
  InvAmount <- MixedInvAmount
  Customer <- TwoCustomers
  TxnAmount <- MixedTxnAmount
  Request <- MixedRequest
  RequestInvoice <- SmallRequestInvoice
  Original <- MixedOriginal
  LineChoices <- MixedLines
  Ops = {"apply", "reverse", "unapply", "allocate", "reverseAllocations", "creditApply", "creditAllocate", "void"}
  None = None
INVARIANTS
  ChargePathsExclusive
  BalanceIsUnreceived
PROPERTIES
  VoidedIsFinal
CHECK_DEADLOCK FALSE
