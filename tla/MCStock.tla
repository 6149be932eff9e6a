------------------------------- MODULE MCStock -------------------------------
(***************************************************************************)
(* Three cells: an item in two warehouses and a lot-tracked item.          *)
(***************************************************************************)
EXTENDS Stock

StockSymmetry == Permutations(Procs)

D(kind, cell, to, qty, made, cost, of) ==
  [kind |-> kind, cell |-> cell, to |-> to, qty |-> qty, made |-> made,
   cost |-> cost, fifo |-> FALSE, allowNegative |-> FALSE, of |-> of]

Receive(cell, qty, cost, d) == D("receive", cell, cell, qty, 1, cost, d)
Issue(cell, qty, fifo, d)   == [D("issue", cell, cell, qty, 1, 0, d) EXCEPT !.fifo = fifo]
Overdraw(cell, qty, fifo, d) == [Issue(cell, qty, fifo, d) EXCEPT !.allowNegative = TRUE]
Undo(cell, of)              == D("reverse", cell, cell, 1, 1, 0, of)

SmallLotOf == [c \in Cells |-> IF c = "c3" THEN "lot" ELSE None]

(* Receipts at two costs, issues at FIFO and at average cost, and voids.   *)
SmallDoc ==
  [d \in Docs |->
   CASE d = "buy1" -> Receive("c1", 2, 10000, "buy1")
     [] d = "buy2" -> Receive("c1", 1, 15000, "buy2")
     [] d = "fifo" -> Issue("c1", 2, TRUE, "fifo")
     [] d = "sell" -> Issue("c1", 1, FALSE, "sell")
     [] d = "unfifo" -> Undo("c1", "fifo")
     [] d = "unbuy1" -> Undo("c1", "buy1")
     [] d = "move" -> D("transfer", "c1", "c2", 1, 1, 0, "move")
     [] d = "back" -> D("transfer", "c2", "c1", 1, 1, 0, "back")
     [] d = "found" -> D("adjust", "c2", "c2", 1, 1, 0, "found")
     [] d = "lost" -> D("adjust", "c1", "c1", -1, 1, 0, "lost")
     [] d = "make" -> D("build", "c1", "c2", 2, 1, 333, "make")
     [] d = "unmove" -> Undo("c1", "move")
     [] d = "over" -> Overdraw("c1", 3, FALSE, "over")
     [] d = "overfifo" -> Overdraw("c1", 3, TRUE, "overfifo")
     [] d = "sendback" -> D("vendorReturn", "c2", "c2", 1, 1, 0, "buy1")
     [] d = "return" -> D("vendorReturn", "c1", "c1", 1, 1, 0, "buy1")
     [] d = "unreturn" -> Undo("c1", "return")
     [] d = "hold" -> D("reserve", "c1", "c1", 1, 1, 0, "hold")
     [] d = "free" -> D("release", "c1", "c1", 1, 1, 0, "free")
     [] d = "lotin" -> Receive("c3", 2, 10000, "lotin")
     [] d = "lotmore" -> Receive("c3", 1, 10001, "lotmore")
     [] d = "lotout" -> Issue("c3", 1, FALSE, "lotout")
     [] d = "unlot" -> Undo("c3", "lotout")
     [] d = "credit" -> Undo("c1", "buy1")]

SmallWorkloads ==
  {{"buy1", "buy2", "fifo", "unfifo", "unbuy1"},
   {"buy1", "sell", "move", "found", "lost"},
   {"buy1", "sell", "move", "back", "unmove", "sendback"},
   {"buy1", "buy2", "make", "return", "unreturn", "unbuy1"},
   {"buy1", "buy2", "sell", "over", "overfifo"},
   {"buy1", "hold", "free", "sell", "unbuy1"},
   {"lotin", "lotmore", "lotout", "unlot"}}

(* "SUM(inventory_cost_layers.remaining_quantity) per (item, warehouse) == *)
(* inventory_balances.quantity_on_hand ... for every post/void cycle on    *)
(* fresh data" (reconcile.go:6-11).  With a purchase and its void as       *)
(* Workloads this fails: a voided receipt keeps its layer.                 *)
LayersAreOnHand == \A c \in Cells : LayerTotal(c) = balance[c].onHand
VoidWorkload    == {{"buy1", "unbuy1"}}

(* A purchase that a vendor credit note sends back and a void undoes, with *)
(* as much on hand from another purchase: with these as Doc and Workloads, *)
(* ReversedOnce fails.                                                     *)
DoubleDoc == [SmallDoc EXCEPT !["buy2"].qty = 2]
DoubleWorkload == {{"buy1", "buy2", "unbuy1", "credit"}}
=============================================================================
