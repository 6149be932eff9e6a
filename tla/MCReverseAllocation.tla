------------------------ MODULE MCReverseAllocation ------------------------
(* ReverseAllocation on charges split over two to four invoices.           *)
EXTENDS ReverseAllocation

MCAllocations ==
  UNION {[1..n -> 1..4] : n \in 2..3} \cup [1..4 -> 1..2] \cup {<<5, 5, 5, 1>>}
=============================================================================
