---------------------------- MODULE MCReportCache ----------------------------
(* Instance of ReportCache: two readers, two reports of one company and    *)
(* one of another; the cache holds two of them.                            *)
EXTENDS ReportCache, TLC

CONSTANTS r1, r2, k1, k2, k3, lines, totals

MCReaders == {r1, r2}
MCKeys == {k1, k2, k3}
MCCompany == [k \in MCKeys |-> IF k = k3 THEN 2 ELSE 1]
MCPostings == {"invoice"}
MCBooks == [j \in MCPostings |-> 1]
MCParts == {lines, totals}

Interchangeable ==
  Permutations(MCReaders) \cup Permutations({k1, k2}) \cup Permutations(MCParts)
=============================================================================
