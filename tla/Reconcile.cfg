SPECIFICATION Spec
CONSTANTS
  Users = {u1, u2}
  Lines = {"a", "b"}
  Net <- MCNet
  Day <- MCDay
  Dates = {1, 2}
  Suggs = {"s"}
  Matches <- LaterLine
  Workloads <- MCWorkloads
  MaxRecs = 2
INVARIANTS
  StatementsBalance
PROPERTIES
  LinesFollowTheirReconciliation
  SuggestionsKeepTheirAnswer
SYMMETRY UserSymmetry
