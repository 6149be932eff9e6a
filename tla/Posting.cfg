SPECIFICATION Spec
CONSTANTS
  Procs = {p1, p2, p3}
  Docs = {"inv1", "inv2", "bill"}
  Orders = {"so"}
  Kind <- MCKind
  Ordered <- MCOrdered
  Request <- MCRequest
  Workloads <- MCWorkloads
  Clash <- MCClash
  None = None
INVARIANTS
  BooksMatchDocuments
  ReportsHideOnlyPairs
  OrderIsTracked
PROPERTIES
  PostedIsImmutable
SYMMETRY ProcSymmetry
CHECK_DEADLOCK FALSE
