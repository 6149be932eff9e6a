SPECIFICATION Spec
CONSTANTS
  Procs = {p1, p2}
  Cells = {"c1", "c2", "c3"}
  Lots = {"lot"}
  Docs = {"buy1", "buy2", "fifo", "sell", "unfifo", "unbuy1", "move", "back", "found", "lost", "make", "return", "unreturn", "unmove", "sendback", "over", "overfifo", "hold", "free", "lotin", "lotmore", "lotout", "unlot", "credit"}
  LotOf <- SmallLotOf
  Doc <- SmallDoc
  Workloads <- SmallWorkloads
  MaxMovements = 4
  None = None
INVARIANTS
  OnHandIsLedger
  LayersCoverOnHand
  ReversedOnce
  LotIsUndrawn
PROPERTIES
  Promise
SYMMETRY StockSymmetry
CHECK_DEADLOCK FALSE
