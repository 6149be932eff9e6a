-------------------------------- MODULE Stock --------------------------------
(***************************************************************************)
(* The inventory verbs (src/internal/services/inventory): receipts, issues *)
(* at average or FIFO cost, transfers, builds, adjustments, vendor returns,*)
(* reversals and reservations, run by concurrent callers.                  *)
(*                                                                         *)
(* A cell is one inventory_balances row: an item in a warehouse.  A        *)
(* document is one call: its kind and arguments, under an idempotency key  *)
(* of its own; a caller may repeat it.  A verb looks its key and the       *)
(* movement it refers to up without a lock (Begin), locks the balance rows *)
(* (LockBalance), checks and writes (the commit of its caller's            *)
(* transaction).  Lot rows are read and saved without a lock (ReadLot).    *)
(* Costs are in units of 0.0001.                                           *)
(***************************************************************************)
EXTENDS Integers, Sequences, FiniteSets, SequencesExt

CONSTANTS
  Procs, Cells, Docs, Lots,
  LotOf,        \* the lot a cell of a lot-tracked item holds, or None
  Doc,          \* what each document asks for
  Workloads,    \* the sets of documents that callers may bring
  MaxMovements, \* bound on the movements that adjustments, without key, add
  None

Kinds == {"receive", "issue", "transfer", "build", "adjust", "vendorReturn",
          "reverse", "reserve", "release"}

ASSUME StockAssumption ==
  /\ None \notin Procs /\ None \notin Docs /\ None \notin Lots /\ None \notin Nat
  /\ LotOf \in [Cells -> Lots \cup {None}]
  /\ MaxMovements \in Nat /\ Workloads \subseteq SUBSET Docs
  /\ \A d \in Docs :
       /\ Doc[d] = [kind |-> Doc[d].kind, cell |-> Doc[d].cell, to |-> Doc[d].to,
                    qty |-> Doc[d].qty, made |-> Doc[d].made, cost |-> Doc[d].cost,
                    fifo |-> Doc[d].fifo, allowNegative |-> Doc[d].allowNegative,
                    of |-> Doc[d].of]
       /\ Doc[d].kind \in Kinds /\ Doc[d].cell \in Cells /\ Doc[d].to \in Cells
       /\ Doc[d].qty \in Int /\ (Doc[d].kind # "adjust" => Doc[d].qty > 0)
       /\ Doc[d].made \in Nat \ {0} /\ Doc[d].cost \in Nat /\ Doc[d].of \in Docs
       /\ Doc[d].kind \in {"transfer", "build"} => Doc[d].to # Doc[d].cell

VARIABLES
  balance,   \* inventory_balances: on-hand, reserved, average cost
  movements, \* inventory_movements in ID order, each receipt with its layer
  draws,     \* inventory_layer_consumption rows that are not reversed
  lotLeft,   \* inventory_lots.remaining_quantity
  lock,      \* the process that holds each balance row, or None
  seen,      \* the balance rows a process read under its locks
  seenLot,   \* the remaining quantity of the lot a process read, or None
  job,       \* the call each process is making
  brought    \* the documents of this behaviour

tables == <<balance, movements, draws, lotLeft>>
vars   == <<balance, movements, draws, lotLeft, lock, seen, seenLot, job, brought>>

(* part: the legs of a transfer that a call books, "both", "out" or "in".  *)
Idle == [doc |-> None, stage |-> "idle", part |-> "both", orig |-> 0, cost |-> 0]

Init ==
  /\ balance = [c \in Cells |-> [onHand |-> 0, reserved |-> 0, avg |-> 0]]
  /\ movements = <<>>
  /\ draws = {}
  /\ lotLeft = [l \in Lots |-> 0]
  /\ lock = [c \in Cells |-> None]
  /\ seen = [p \in Procs |-> [c \in Cells |-> None]]
  /\ seenLot = [p \in Procs |-> None]
  /\ job = [p \in Procs |-> Idle]
  /\ brought \in Workloads

-----------------------------------------------------------------------------
(* Costs.                                                                  *)

(* decimal's Round: half away from zero.                                   *)
Rounded(n, d) == IF n >= 0 THEN (2 * n + d) \div (2 * d) ELSE -((d - 2 * n) \div (2 * d))

(* RoundBank(2) of a cost in units of 0.0001: half to even cents.          *)
ToCents(x) ==
  LET q == x \div 100  r == x % 100
  IN 100 * (IF r > 50 \/ (r = 50 /\ q % 2 = 1) THEN q + 1 ELSE q)

(* The average after `delta' units at `cost', for a receipt and a reversal.*)
NewAverage(row, delta, cost) ==
  IF row.onHand + delta > 0
  THEN Rounded(row.onHand * row.avg + delta * cost, row.onHand + delta)
  ELSE cost

(* FIFO: the open layers of cell c from the oldest, by movement ID.        *)
LayersOf(c)    == {m \in DOMAIN movements : movements[m].cell = c /\ movements[m].left > 0}
LeftIn(layers) == SumFunction([m \in layers |-> movements[m].left])
LayerTotal(c)  == LeftIn(LayersOf(c))
DrawnFrom(m, c, quantity) ==
  LET wanted == quantity - LeftIn({k \in LayersOf(c) : k < m})
  IN CASE wanted <= 0                  -> 0
       [] wanted >= movements[m].left  -> movements[m].left
       [] OTHER                        -> wanted
FifoCost(c, quantity) ==
  Rounded(SumFunction([m \in LayersOf(c) |-> DrawnFrom(m, c, quantity) * movements[m].cost]),
          quantity)

-----------------------------------------------------------------------------
(* Before the locks.                                                       *)

Booked == {movements[m].doc : m \in DOMAIN movements}

(* A transfer's legs have keys of their own: it is in transit between them.*)
Arrived(d)   == \E m \in DOMAIN movements : movements[m].doc = d /\ movements[m].delta > 0
InTransit(d) == Doc[d].kind = "transfer" /\ d \in Booked /\ ~Arrived(d)

(* A document that was booked returns its cached result; adjustments and   *)
(* reservations have no key.                                               *)
Keyed(d) == Doc[d].kind \notin {"adjust", "reserve", "release"}

NotBooked(j) ==
  /\ j.part = "in" => ~Arrived(j.doc)
  /\ j.part # "in" /\ Keyed(j.doc) => j.doc \notin Booked

Tracked(d) == LotOf[Doc[d].cell] # None

(* A transfer, an adjustment and a build's consumption name no lot.        *)
NamesLot(d) == Doc[d].kind \in {"receive", "issue"}

Call(d, part, orig, cost) ==
  [doc |-> d, stage |-> "balance", part |-> part, orig |-> orig, cost |-> cost]

Start(p, j) ==
  /\ job[p] = Idle
  /\ NotBooked(j)
  /\ job' = [job EXCEPT ![p] = j]
  /\ UNCHANGED <<tables, lock, seen, seenLot, brought>>

BeginReceive(p, d) == Doc[d].kind = "receive" /\ Start(p, Call(d, "both", 0, Doc[d].cost))

BeginIssue(p, d) == Doc[d].kind = "issue" /\ Start(p, Call(d, "both", 0, 0))

Untracked(d) == ~Tracked(d) /\ LotOf[Doc[d].to] = None

(* Both dates given and nothing booked yet; a build has no other form.     *)
BeginTransfer(p, d) ==
  /\ Doc[d].kind \in {"transfer", "build"} /\ Untracked(d)
  /\ Start(p, Call(d, "both", 0, Doc[d].cost))

(* No ReceivedDate: the issue leg only.                                    *)
BeginShipment(p, d) ==
  /\ Doc[d].kind = "transfer" /\ Untracked(d)
  /\ Start(p, Call(d, "out", 0, 0))

(* Both dates, when the issue leg is booked: its cached result goes on to  *)
(* the receive leg.                                                        *)
BeginArrival(p, d) ==
  /\ Doc[d].kind = "transfer" /\ Untracked(d)
  /\ \E m \in DOMAIN movements :
       /\ movements[m].doc = d /\ movements[m].delta < 0
       /\ Start(p, Call(d, "in", 0, movements[m].cost))

(* A gain without a unit cost takes the average it reads without a lock.   *)
BeginAdjust(p, d) ==
  LET cost == IF Doc[d].cost = 0 THEN balance[Doc[d].cell].avg ELSE Doc[d].cost
  IN /\ Doc[d].kind = "adjust" /\ Doc[d].qty # 0
     /\ Doc[d].qty > 0 => cost >= 0
     /\ ~Tracked(d)
     /\ Len(movements) < MaxMovements
     /\ Start(p, Call(d, "both", 0, cost))

BeginReserve(p, d) ==
  Doc[d].kind \in {"reserve", "release"} /\ Start(p, Call(d, "both", 0, 0))

(* The movement of the document that is undone or sent back, read without  *)
(* a lock: it must not be a reversal, nor be reversed already.             *)
BeginReverse(p, d) ==
  /\ Doc[d].kind = "reverse"
  /\ \E m \in DOMAIN movements :
       /\ movements[m].doc = Doc[d].of /\ movements[m].reversalOf = 0
       /\ movements[m].reversedBy = 0
       /\ Start(p, Call(d, "both", m, movements[m].cost))

(* A vendor return only needs an inflow with a cost to trace, reversed or  *)
(* not.                                                                    *)
BeginVendorReturn(p, d) ==
  /\ Doc[d].kind = "vendorReturn"
  /\ \E m \in DOMAIN movements :
       /\ movements[m].doc = Doc[d].of /\ movements[m].reversalOf = 0
       /\ movements[m].delta > 0 /\ movements[m].cost > 0
       /\ Start(p, Call(d, "both", m, movements[m].cost))

-----------------------------------------------------------------------------
(* The balance rows, and what is checked of each before the next.          *)

(* A reversal works on the cell of its original; a vendor return on the    *)
(* one its caller names, of the same item.                                 *)
CellOf(j) ==
  IF Doc[j.doc].kind = "reverse" THEN movements[j.orig].cell
  ELSE IF j.part = "in" THEN Doc[j.doc].to ELSE Doc[j.doc].cell
TwoLegs(j) == Doc[j.doc].kind \in {"transfer", "build"} /\ j.part = "both"

RowsOf(j) == {CellOf(j)} \cup (IF TwoLegs(j) THEN {Doc[j.doc].to} ELSE {})

(* The issue's row comes before that of the receipt.                       *)
IsNextRow(p, c) ==
  LET j == job[p]
  IN /\ c \in RowsOf(j) /\ seen[p][c] = None
     /\ c # CellOf(j) => seen[p][CellOf(j)] # None

RowsRead(p) == \A c \in RowsOf(job[p]) : seen[p][c] # None

(* What the verb takes out of its (first) cell.                            *)
Outflow(j) ==
  LET d == Doc[j.doc]
  IN CASE j.part = "in"  -> 0
       [] d.kind \in {"issue", "transfer", "build", "vendorReturn"} -> d.qty
       [] d.kind = "adjust"  -> IF d.qty < 0 THEN -d.qty ELSE 0
       [] d.kind = "reverse" -> IF movements[j.orig].delta > 0 THEN movements[j.orig].delta ELSE 0
       [] OTHER              -> 0

Sufficient(j, row) ==
  CASE Doc[j.doc].kind = "reserve" -> Doc[j.doc].qty <= row.onHand - row.reserved
    [] Doc[j.doc].kind = "release" -> Doc[j.doc].qty <= row.reserved
    [] Doc[j.doc].kind = "issue" /\ Doc[j.doc].allowNegative -> TRUE
    [] OTHER                       -> Outflow(j) > 0 => Outflow(j) <= row.onHand

(* A row already seen that lets the verb go on.                            *)
GoesOn(p) ==
  LET j == job[p] c == CellOf(j) IN seen[p][c] # None => Sufficient(j, seen[p][c])

(* MUTANT of Take: the balance is read without FOR UPDATE.                 *)
TakeAnyway(p, c) ==
  /\ lock' = lock
  /\ seen' = [seen EXCEPT ![p][c] = balance[c]]

Take(p, c) ==
  /\ lock[c] = None
  /\ lock' = [lock EXCEPT ![c] = p]
  /\ seen' = [seen EXCEPT ![p][c] = balance[c]]

(* readOrCreateBalance; a row not there yet is created and stays locked.   *)
LockBalance(p) ==
  /\ job[p].stage = "balance" /\ GoesOn(p)
  /\ \E c \in Cells : IsNextRow(p, c) /\ Take(p, c)
  /\ UNCHANGED <<tables, seenLot, job, brought>>

(* The lot row, read while the balance is locked and saved at the end.     *)
UsesLot(j) ==
  /\ LotOf[CellOf(j)] # None
  /\ \/ NamesLot(j.doc)
     \/ Doc[j.doc].kind = "reverse" /\ movements[j.orig].delta < 0

ReadLot(p) ==
  LET j == job[p]
  IN /\ j.stage = "balance" /\ RowsRead(p) /\ GoesOn(p) /\ UsesLot(j)
     /\ seenLot' = [seenLot EXCEPT ![p] = lotLeft[LotOf[CellOf(j)]]]
     /\ job' = [job EXCEPT ![p].stage = "lot"]
     /\ UNCHANGED <<tables, lock, seen, brought>>

-----------------------------------------------------------------------------
(* The commits.                                                            *)

End(p) ==
  /\ job' = [job EXCEPT ![p] = Idle]
  /\ lock' = [c \in Cells |-> IF lock[c] = p THEN None ELSE lock[c]]
  /\ seen' = [seen EXCEPT ![p] = [c \in Cells |-> None]]
  /\ seenLot' = [seenLot EXCEPT ![p] = None]
  /\ UNCHANGED brought

(* MUTANT of KeyIsFree: no unique index on (company, idempotency_key).     *)
KeyIsFreeAnyway(j) == TRUE

KeyIsFree(j) == NotBooked(j)

(* Drawing from a lot what is left of it; giving back needs the unreversed *)
(* consumption rows of the original.                                       *)
LotAllows(p) ==
  LET j == job[p]
  IN CASE Doc[j.doc].kind = "issue"   -> Doc[j.doc].qty <= seenLot[p]
       [] Doc[j.doc].kind = "reverse" -> movements[j.orig].lotDrawn > 0
       [] OTHER                       -> TRUE

(* TransferStock receives what it issued, at the cost it issued it;        *)
(* PostInventoryBuild adds labor and overhead (the document's cost) and    *)
(* makes another item of it.                                               *)
LegMade(j) == IF Doc[j.doc].kind = "build" THEN Doc[j.doc].made ELSE Doc[j.doc].qty
LegCost(p) ==
  LET d == Doc[job[p].doc]
      average == seen[p][d.cell].avg
  IN IF d.kind = "build" THEN Rounded(ToCents(d.qty * average) + d.cost, d.made) ELSE average

CanCommit(p) ==
  LET j == job[p]
  IN /\ GoesOn(p) /\ KeyIsFree(j)
     /\ j.stage = "lot" => LotAllows(p)
     /\ Doc[j.doc].fifo => LayerTotal(CellOf(j)) >= Doc[j.doc].qty
     /\ TwoLegs(j) => LegCost(p) >= 0
     /\ j.part = "in" => j.cost >= 0

Ready(p, kinds) ==
  LET j == job[p]
  IN /\ j.doc # None /\ Doc[j.doc].kind \in kinds
     /\ RowsRead(p)
     /\ j.stage = IF UsesLot(j) THEN "lot" ELSE "balance"

Committing(p, kinds) == Ready(p, kinds) /\ CanCommit(p) /\ End(p)

Movement(j, c, delta, cost) ==
  [doc |-> j.doc, cell |-> c, delta |-> delta, cost |-> cost, left |-> 0,
   lotDrawn |-> 0, reversalOf |-> 0, reversedBy |-> 0]

(* A receipt opens a cost layer of its quantity.                           *)
Receipt(j, c, quantity, cost) == [Movement(j, c, quantity, cost) EXCEPT !.left = quantity]

Received(row, quantity, cost) ==
  [row EXCEPT !.onHand = @ + quantity, !.avg = NewAverage(row, quantity, cost)]
Issued(row, quantity) == [row EXCEPT !.onHand = @ - quantity]

(* A receipt averages its cost in, opens a layer and tops its lot up.      *)
ReceiveStock(p) ==
  LET j == job[p] c == CellOf(j) quantity == Doc[j.doc].qty
  IN /\ Committing(p, {"receive"})
     /\ balance' = [balance EXCEPT ![c] = Received(seen[p][c], quantity, j.cost)]
     /\ movements' = Append(movements, Receipt(j, c, quantity, j.cost))
     /\ lotLeft' = IF UsesLot(j) THEN [lotLeft EXCEPT ![LotOf[c]] = seenLot[p] + quantity]
                                 ELSE lotLeft
     /\ UNCHANGED draws

(* Average cost leaves the layers alone; FIFO draws them oldest first.     *)
IssueStock(p) ==
  LET j == job[p] c == CellOf(j) quantity == Doc[j.doc].qty
      fifo == Doc[j.doc].fifo
      cost == IF fifo THEN FifoCost(c, quantity) ELSE seen[p][c].avg
      drawn(m) == IF fifo /\ m \in LayersOf(c) THEN DrawnFrom(m, c, quantity) ELSE 0
  IN /\ Committing(p, {"issue"})
     /\ balance' = [balance EXCEPT ![c] = Issued(seen[p][c], quantity)]
     /\ movements' = Append([m \in DOMAIN movements |-> [movements[m] EXCEPT !.left = @ - drawn(m)]],
                            [Movement(j, c, -quantity, cost)
                               EXCEPT !.lotDrawn = IF UsesLot(j) THEN quantity ELSE 0])
     /\ draws' = draws \cup {[issue |-> Len(movements) + 1, layer |-> m, qty |-> drawn(m)]
                               : m \in {k \in DOMAIN movements : drawn(k) > 0}}
     /\ lotLeft' = IF UsesLot(j) THEN [lotLeft EXCEPT ![LotOf[c]] = seenLot[p] - quantity]
                                 ELSE lotLeft

(* Both legs in one call.                                                  *)
TransferStock(p) ==
  LET j == job[p] c == CellOf(j) d == Doc[j.doc]
  IN /\ Committing(p, {"transfer", "build"}) /\ j.part = "both"
     /\ balance' = [balance EXCEPT ![c]    = Issued(seen[p][c], d.qty),
                                   ![d.to] = Received(seen[p][d.to], LegMade(j), LegCost(p))]
     /\ movements' = movements \o <<Movement(j, c, -d.qty, seen[p][c].avg),
                                    Receipt(j, d.to, LegMade(j), LegCost(p))>>
     /\ UNCHANGED <<draws, lotLeft>>

(* The issue leg alone: the transfer is in transit.                        *)
ShipTransfer(p) ==
  LET j == job[p] c == CellOf(j) quantity == Doc[j.doc].qty
  IN /\ Committing(p, {"transfer"}) /\ j.part = "out"
     /\ balance' = [balance EXCEPT ![c] = Issued(seen[p][c], quantity)]
     /\ movements' = Append(movements, Movement(j, c, -quantity, seen[p][c].avg))
     /\ UNCHANGED <<draws, lotLeft>>

(* The receive leg of a transfer in transit, at the cost it was issued.    *)
ReceiveTransfer(p) ==
  LET j == job[p] c == CellOf(j) quantity == Doc[j.doc].qty
  IN /\ Committing(p, {"transfer"}) /\ j.part = "in"
     /\ balance' = [balance EXCEPT ![c] = Received(seen[p][c], quantity, j.cost)]
     /\ movements' = Append(movements, Receipt(j, c, quantity, j.cost))
     /\ UNCHANGED <<draws, lotLeft>>

(* A gain is a receipt, a loss an issue at average cost.                   *)
AdjustStock(p) ==
  LET j == job[p] c == CellOf(j) delta == Doc[j.doc].qty
  IN /\ Committing(p, {"adjust"})
     /\ balance' = [balance EXCEPT ![c] = IF delta > 0 THEN Received(seen[p][c], delta, j.cost)
                                                       ELSE Issued(seen[p][c], -delta)]
     /\ movements' = Append(movements, IF delta > 0
                                       THEN Receipt(j, c, delta, j.cost)
                                       ELSE Movement(j, c, delta, seen[p][c].avg))
     /\ UNCHANGED <<draws, lotLeft>>

(* Out at the cost of the original receipt, the average left as it is.     *)
IssueVendorReturn(p) ==
  LET j == job[p] c == CellOf(j) quantity == Doc[j.doc].qty
  IN /\ Committing(p, {"vendorReturn"})
     /\ balance' = [balance EXCEPT ![c] = Issued(seen[p][c], quantity)]
     /\ movements' = Append(movements, Movement(j, c, -quantity, j.cost))
     /\ UNCHANGED <<draws, lotLeft>>

(* MUTANT of Restored: a reversed issue leaves its layers drawn.           *)
RestoredNothing(m, orig) == movements[m]

DrawnBy(rows) == SumFunction([row \in rows |-> row.qty])

(* The layers an issue drew get back what it drew; a reversed receipt      *)
(* keeps its layer open.                                                   *)
Restored(m, orig) ==
  LET back == DrawnBy({row \in draws : row.issue = orig /\ row.layer = m})
  IN [movements[m] EXCEPT !.left = @ + back]

(* Undone at the cost of the original, which is marked reversed; an issue  *)
(* gives its layers and its lot back.                                      *)
ReverseMovement(p) ==
  LET j == job[p] c == CellOf(j) orig == movements[j.orig]
      reversal == Len(movements) + 1
      linked(m) == IF m = j.orig
                   THEN [Restored(m, j.orig) EXCEPT !.reversedBy = reversal,
                           !.lotDrawn = IF UsesLot(j) THEN 0 ELSE @]
                   ELSE Restored(m, j.orig)
  IN /\ Committing(p, {"reverse"})
     /\ balance' = [balance EXCEPT ![c] =
                      [seen[p][c] EXCEPT !.onHand = @ - orig.delta,
                                         !.avg = NewAverage(seen[p][c], -orig.delta, j.cost)]]
     /\ movements' = Append([m \in DOMAIN movements |-> linked(m)],
                            [Movement(j, c, -orig.delta, j.cost) EXCEPT !.reversalOf = j.orig])
     /\ draws' = {row \in draws : row.issue # j.orig}
     /\ lotLeft' = IF UsesLot(j) THEN [lotLeft EXCEPT ![LotOf[c]] = seenLot[p] + orig.lotDrawn]
                                 ELSE lotLeft

(* Reservations are a counter beside the ledger, without key or movement.  *)
ReserveStock(p) ==
  LET j == job[p] c == CellOf(j) quantity == Doc[j.doc].qty
      delta == IF Doc[j.doc].kind = "reserve" THEN quantity ELSE -quantity
  IN /\ Committing(p, {"reserve", "release"})
     /\ balance' = [balance EXCEPT ![c] = [seen[p][c] EXCEPT !.reserved = @ + delta]]
     /\ UNCHANGED <<movements, draws, lotLeft>>

(* A check failed: the caller's transaction rolls back.                    *)
Refuse(p) ==
  /\ job[p] # Idle
  /\ ~GoesOn(p) \/ (Ready(p, Kinds) /\ ~CanCommit(p))
  /\ End(p) /\ UNCHANGED tables

(* The connection is lost, PostgreSQL ends a deadlock, or another document *)
(* line of the same transaction fails.                                     *)
Crash(p) == job[p] # Idle /\ End(p) /\ UNCHANGED tables

-----------------------------------------------------------------------------
Begin(p) ==
  \E d \in brought :
    \/ BeginReceive(p, d) \/ BeginIssue(p, d) \/ BeginAdjust(p, d) \/ BeginReserve(p, d)
    \/ BeginTransfer(p, d) \/ BeginShipment(p, d) \/ BeginArrival(p, d)
    \/ BeginReverse(p, d) \/ BeginVendorReturn(p, d)

Commit(p) ==
  \/ ReceiveStock(p) \/ IssueStock(p) \/ AdjustStock(p)
  \/ TransferStock(p) \/ ShipTransfer(p) \/ ReceiveTransfer(p)
  \/ IssueVendorReturn(p) \/ ReverseMovement(p) \/ ReserveStock(p)

Next ==
  \E p \in Procs :
    Begin(p) \/ LockBalance(p) \/ ReadLot(p) \/ Commit(p) \/ Refuse(p) \/ Crash(p)

Spec == Init /\ [][Next]_vars

-----------------------------------------------------------------------------
(* Safety.                                                                 *)

(* "SUM(QuantityDelta) per (item, warehouse) == quantity_on_hand": the     *)
(* balance row and the movement ledger never drift apart.                  *)
MovementsOf(c)    == {m \in DOMAIN movements : movements[m].cell = c}
DeltaOf(moved)    == SumFunction([m \in moved |-> movements[m].delta])
OnHandIsLedger    == \A c \in Cells : balance[c].onHand = DeltaOf(MovementsOf(c))

(* On stock that these verbs booked from the start, the open layers cover  *)
(* at least the stock on hand: a FIFO issue within the balance finds its   *)
(* layers.  Issues at average cost and voided receipts leave layers over,  *)
(* never short.                                                            *)
LayersCoverOnHand == \A c \in Cells : LayerTotal(c) >= balance[c].onHand

(* "Guarded: double reversal": no movement is undone twice.                *)
ReversedOnce ==
  \A m, n \in DOMAIN movements :
    movements[m].reversalOf # 0 /\ movements[m].reversalOf = movements[n].reversalOf => m = n

(* What is left of a lot is what it received less what was drawn from it   *)
(* and not given back.                                                     *)
LotIsUndrawn ==
  \A l \in Lots :
    LET of == {m \in DOMAIN movements : LotOf[movements[m].cell] = l}
    IN lotLeft[l] = DeltaOf({m \in of : movements[m].delta > 0 /\ movements[m].reversalOf = 0})
                    - SumFunction([m \in of |-> movements[m].lotDrawn])

(* What the callers rely on: every document once, a transfer's receipt     *)
(* only of what was shipped, and no cell taken below zero except by an     *)
(* issue that asks for it.                                                 *)
Ledger == INSTANCE StockLedger
  WITH Keys <- Docs, Transfers <- [d \in Docs |-> Doc[d].kind = "transfer"],
       Overdraws <- [d \in Docs |-> Doc[d].kind = "issue" /\ Doc[d].allowNegative],
       onHand <- [c \in Cells |-> balance[c].onHand],
       transit <- [d \in Docs |-> IF InTransit(d) THEN Doc[d].qty ELSE 0],
       booked <- {d \in Booked : Keyed(d)}
Promise == Ledger!LedgerSpec
=============================================================================
