SPECIFICATION Spec
CONSTANTS
  Procs = {p1, p2}
  Docs = {"inv1", "inv2", "bill"}
  Orders = {"so"}
  Kind <- MCKind
  Ordered <- MCOrdered
  Request <- MCRequest
  Workloads <- MCWorkloads
  Clash <- EditClash
  None = None
PROPERTIES
  PostedIsImmutable
CHECK_DEADLOCK FALSE
