----------------------------- MODULE StockProofs -----------------------------
(***************************************************************************)
(* Stock implements StockLedger, for any number of callers, cells and      *)
(* documents: what concurrent verbs do to the stock is what whole          *)
(* documents, booked once each, could do one after the other.              *)
(*                                                                         *)
(* A verb computes the new balance from the row it read.  That row is the  *)
(* table's, because it is locked by whoever has read it; so a check of the *)
(* stock made before the commit still holds at the commit.                 *)
(*                                                                         *)
(* The later parts are about sums over the movements: the balances are the *)
(* sums of the ledger, the open layers cover them, and what is left of a   *)
(* lot is what was not drawn.  Each verb has one lemma that says what it   *)
(* writes (...Writes), which those proofs share.                           *)
(***************************************************************************)
EXTENDS Stock, SumLemmas

RowOK(row) == DOMAIN row = {"onHand", "reserved", "avg"} /\ row.onHand \in Int

BalancesOK == DOMAIN balance = Cells /\ \A c \in Cells : RowOK(balance[c])

MovementsOK ==
  /\ Len(movements) \in Nat /\ DOMAIN movements = 1..Len(movements)
  /\ \A m \in DOMAIN movements :
       /\ DOMAIN movements[m] = {"doc", "cell", "delta", "cost", "left", "lotDrawn",
                                 "reversalOf", "reversedBy"}
       /\ movements[m].doc \in Docs /\ movements[m].cell \in Cells
       /\ movements[m].delta \in Int

Refers(kind) == kind \in {"reverse", "vendorReturn"}

PartOK(j) ==
  /\ j.part \in {"both", "out", "in"}
  /\ j.part # "both" => Doc[j.doc].kind = "transfer"
  /\ j.part = "in" => j.doc \in Booked

JobOK(j) ==
  /\ DOMAIN j = DOMAIN Idle
  /\ j.doc \in Docs \cup {None}
  /\ j.doc = None => j.stage = "idle"
  /\ j.doc \in Docs =>
       /\ IF Refers(Doc[j.doc].kind) THEN j.orig \in DOMAIN movements ELSE j.orig = 0
       /\ PartOK(j)

(* What a process read of a balance row is the row, and the row is locked. *)
SeenOK(p) ==
  \A c \in Cells : seen[p][c] # None => lock[c] = p /\ seen[p][c] = balance[c]

IInv ==
  /\ BalancesOK /\ MovementsOK
  /\ brought \subseteq Docs
  /\ DOMAIN lock = Cells /\ DOMAIN job = Procs /\ DOMAIN seen = Procs
  /\ \A p \in Procs : JobOK(job[p]) /\ SeenOK(p) /\ DOMAIN seen[p] = Cells

LEMMA DocTypes ==
  ASSUME NEW d \in Docs
  PROVE  /\ Doc[d].cell \in Cells /\ Doc[d].to \in Cells /\ Doc[d].made \in Nat \ {0}
         /\ Doc[d].qty \in Int /\ (Doc[d].kind # "adjust" => Doc[d].qty \in Nat \ {0})
         /\ Doc[d].kind \in {"transfer", "build"} => Doc[d].to # Doc[d].cell
<1>1. Doc[d].qty \in Int /\ (Doc[d].kind # "adjust" => Doc[d].qty > 0)
  BY StockAssumption
<1>2. Doc[d].kind \in {"transfer", "build"} => Doc[d].to # Doc[d].cell
  BY StockAssumption
<1>3. Doc[d].cell \in Cells /\ Doc[d].to \in Cells /\ Doc[d].made \in Nat \ {0}
  BY StockAssumption
<1> QED BY <1>1, <1>2, <1>3

LEMMA InitInv == Init => IInv
<1> SUFFICES ASSUME Init PROVE IInv
  OBVIOUS
<1>1. movements = <<>> /\ Len(movements) = 0 /\ DOMAIN movements = {}
  BY DEF Init
<1>2. BalancesOK
  BY DEF Init, BalancesOK, RowOK
<1>3. MovementsOK
  BY <1>1 DEF MovementsOK
<1>4. \A p \in Procs : JobOK(job[p]) /\ SeenOK(p) /\ DOMAIN seen[p] = Cells
  BY StockAssumption DEF Init, JobOK, SeenOK, Idle
<1> QED BY <1>2, <1>3, <1>4, StockAssumption DEF Init, IInv

-----------------------------------------------------------------------------
(* Steps that leave the tables alone.                                      *)

LEMMA CallForm ==
  ASSUME NEW d \in Docs, NEW part \in {"both", "out", "in"}, NEW orig, NEW cost,
         part # "both" => Doc[d].kind = "transfer", part = "in" => d \in Booked,
         IF Refers(Doc[d].kind) THEN orig \in DOMAIN movements ELSE orig = 0,
         NEW j, j = Call(d, part, orig, cost)
  PROVE  JobOK(j) /\ j.doc = d /\ j.orig = orig /\ j.stage = "balance" /\ j.part = part
BY StockAssumption DEF JobOK, PartOK, Call, Idle

LEMMA BeginCalls ==
  ASSUME IInv, NEW p \in Procs, Begin(p)
  PROVE  \E j : Start(p, j) /\ JobOK(j)
<1>1. PICK d \in brought :
        \/ BeginReceive(p, d) \/ BeginIssue(p, d) \/ BeginAdjust(p, d) \/ BeginReserve(p, d)
        \/ BeginTransfer(p, d) \/ BeginShipment(p, d) \/ BeginArrival(p, d)
        \/ BeginReverse(p, d) \/ BeginVendorReturn(p, d)
  BY DEF Begin
<1>2. d \in Docs
  BY DEF IInv
<1>3. CASE BeginReceive(p, d) \/ BeginIssue(p, d) \/ BeginReserve(p, d) \/ BeginTransfer(p, d)
  <2>1. PICK cost : Start(p, Call(d, "both", 0, cost)) /\ ~Refers(Doc[d].kind)
    BY <1>3 DEF BeginReceive, BeginIssue, BeginReserve, BeginTransfer, Refers
  <2> QED BY <1>2, <2>1, CallForm
<1>4. CASE BeginAdjust(p, d)
  <2>1. PICK cost : Start(p, Call(d, "both", 0, cost)) /\ ~Refers(Doc[d].kind)
    BY <1>4 DEF BeginAdjust, Refers
  <2> QED BY <1>2, <2>1, CallForm
<1>5. CASE BeginShipment(p, d)
  <2>1. Start(p, Call(d, "out", 0, 0)) /\ Doc[d].kind = "transfer" /\ ~Refers(Doc[d].kind)
    BY <1>5 DEF BeginShipment, Refers
  <2> QED BY <1>2, <2>1, CallForm
<1>6. CASE BeginArrival(p, d)
  <2>1. PICK m \in DOMAIN movements : movements[m].doc = d /\ Start(p, Call(d, "in", 0, movements[m].cost))
    BY <1>6 DEF BeginArrival
  <2>2. d \in Booked /\ Doc[d].kind = "transfer" /\ ~Refers(Doc[d].kind)
    BY <1>6, <2>1 DEF Booked, BeginArrival, Refers
  <2> QED BY <1>2, <2>1, <2>2, CallForm
<1>7. CASE BeginReverse(p, d) \/ BeginVendorReturn(p, d)
  <2>1. PICK m \in DOMAIN movements : Start(p, Call(d, "both", m, movements[m].cost))
    BY <1>7 DEF BeginReverse, BeginVendorReturn
  <2>2. Refers(Doc[d].kind)
    BY <1>7 DEF BeginReverse, BeginVendorReturn, Refers
  <2> QED BY <1>2, <2>1, <2>2, CallForm
<1> QED BY <1>1, <1>3, <1>4, <1>5, <1>6, <1>7

LEMMA BeginStep ==
  ASSUME IInv, NEW p \in Procs, Begin(p)
  PROVE  IInv' /\ UNCHANGED <<balance, movements>>
<1>1. PICK j : Start(p, j) /\ JobOK(j)
  BY BeginCalls
<1>2. UNCHANGED <<balance, movements, lock, seen, brought>> /\ Booked' = Booked
  BY <1>1 DEF Start, tables, Booked
<1>3. DOMAIN job' = Procs /\ job'[p] = j /\ \A q \in Procs \ {p} : job'[q] = job[q]
  BY <1>1 DEF Start, IInv
<1>4. \A q \in Procs : JobOK(job[q])'
  BY <1>1, <1>2, <1>3 DEF IInv, JobOK, PartOK
<1> QED BY <1>2, <1>3, <1>4 DEF IInv, BalancesOK, RowOK, MovementsOK, SeenOK

(* A row that is read becomes its reader's, which nobody else had read.    *)
LEMMA LockBalanceStep ==
  ASSUME IInv, NEW p \in Procs, LockBalance(p)
  PROVE  IInv' /\ UNCHANGED <<balance, movements>>
<1>1. PICK c \in Cells : Take(p, c)
  BY DEF LockBalance
<1>2. UNCHANGED <<balance, movements, job, brought>> /\ Booked' = Booked
  BY DEF LockBalance, tables, Booked
<1>3. /\ lock[c] = None /\ DOMAIN lock' = Cells /\ lock'[c] = p
      /\ \A x \in Cells \ {c} : lock'[x] = lock[x]
  BY <1>1 DEF Take, IInv
<1>4. /\ DOMAIN seen' = Procs /\ \A q \in Procs \ {p} : seen'[q] = seen[q]
      /\ DOMAIN seen'[p] = Cells /\ seen'[p][c] = balance[c]
      /\ \A x \in Cells \ {c} : seen'[p][x] = seen[p][x]
  BY <1>1 DEF Take, IInv
<1>5. \A q \in Procs : SeenOK(q)'
  BY <1>2, <1>3, <1>4, StockAssumption DEF IInv, SeenOK
<1> QED BY <1>2, <1>3, <1>4, <1>5 DEF IInv, BalancesOK, RowOK, MovementsOK, JobOK, PartOK

LEMMA ReadLotStep ==
  ASSUME IInv, NEW p \in Procs, ReadLot(p)
  PROVE  IInv' /\ UNCHANGED <<balance, movements>>
<1>1. UNCHANGED <<balance, movements, lock, seen, brought>> /\ Booked' = Booked
  BY DEF ReadLot, tables, Booked
<1>2. /\ DOMAIN job' = Procs /\ \A q \in Procs \ {p} : job'[q] = job[q]
      /\ DOMAIN job'[p] = DOMAIN Idle /\ job'[p].doc = job[p].doc /\ job'[p].orig = job[p].orig
      /\ job'[p].part = job[p].part /\ job[p].stage = "balance"
  BY DEF ReadLot, IInv, JobOK, Idle
<1>3. \A q \in Procs : JobOK(job[q])'
  BY <1>1, <1>2 DEF IInv, JobOK, PartOK
<1> QED BY <1>1, <1>2, <1>3 DEF IInv, BalancesOK, RowOK, MovementsOK, SeenOK

-----------------------------------------------------------------------------
(* The end of a call, with what it wrote: whole rows, of cells it has      *)
(* read, and movements, none of which is lost.                             *)
Wrote(p) ==
  /\ BalancesOK' /\ MovementsOK'
  /\ DOMAIN movements \subseteq DOMAIN movements' /\ Booked \subseteq Booked'
  /\ \A c \in Cells : balance'[c] = balance[c] \/ seen[p][c] # None

LEMMA EndStep ==
  ASSUME IInv, NEW p \in Procs, End(p), Wrote(p)
  PROVE  IInv'
<1>1. /\ DOMAIN job' = Procs /\ \A q \in Procs \ {p} : job'[q] = job[q]
      /\ job'[p] = Idle /\ UNCHANGED brought
  BY DEF End, IInv
<1>2. \A q \in Procs : JobOK(job[q])'
  BY <1>1, StockAssumption DEF Wrote, IInv, JobOK, PartOK, Idle
<1>3. /\ DOMAIN seen' = Procs /\ \A q \in Procs \ {p} : seen'[q] = seen[q]
      /\ DOMAIN seen'[p] = Cells /\ \A c \in Cells : seen'[p][c] = None
  BY DEF End, IInv
<1>4. DOMAIN lock' = Cells /\ \A c \in Cells : lock[c] # p => lock'[c] = lock[c]
  BY DEF End
<1>5. \A q \in Procs : SeenOK(q)'
  <2> SUFFICES ASSUME NEW q \in Procs, NEW c \in Cells, seen'[q][c] # None
               PROVE  lock'[c] = q /\ seen'[q][c] = balance'[c]
    BY DEF SeenOK
  <2>1. q # p /\ seen[q][c] # None /\ seen'[q][c] = seen[q][c]
    BY <1>3
  <2>2. lock[c] = q /\ seen[q][c] = balance[c] /\ (seen[p][c] # None => lock[c] = p)
    BY <2>1 DEF IInv, SeenOK
  <2> QED BY <1>4, <2>1, <2>2 DEF Wrote
<1> QED BY <1>1, <1>2, <1>3, <1>4, <1>5 DEF Wrote, IInv

LEMMA GiveUpStep ==
  ASSUME IInv, NEW p \in Procs, Refuse(p) \/ Crash(p)
  PROVE  IInv' /\ UNCHANGED <<balance, movements>>
<1>1. End(p) /\ UNCHANGED <<balance, movements>>
  BY DEF Refuse, Crash, tables
<1>2. Wrote(p)
  BY <1>1 DEF Wrote, IInv, BalancesOK, RowOK, MovementsOK, Booked
<1> QED BY <1>1, <1>2, EndStep

-----------------------------------------------------------------------------
(* What a commit knows: the rows it read are the table's still, and they   *)
(* hold what it takes out.                                                 *)
Fresh(d) == Keyed(d) => d \notin Booked

LEMMA CommitFacts ==
  ASSUME IInv, NEW p \in Procs, NEW kinds, Committing(p, kinds)
  PROVE  LET j == job[p]
             c == CellOf(j)
         IN /\ End(p) /\ j.doc \in Docs /\ Doc[j.doc].kind \in kinds /\ PartOK(j)
            /\ IF j.part = "in" THEN ~Arrived(j.doc) ELSE Fresh(j.doc)
            /\ Doc[j.doc].kind # "transfer" => j.part = "both" /\ Fresh(j.doc)
            /\ IF Refers(Doc[j.doc].kind) THEN j.orig \in DOMAIN movements ELSE j.orig = 0
            /\ c \in Cells /\ seen[p][c] # None /\ seen[p][c] = balance[c]
            /\ Sufficient(j, balance[c])
            /\ TwoLegs(j) => LET to == Doc[j.doc].to
                             IN to \in Cells /\ to # c /\ seen[p][to] # None /\ seen[p][to] = balance[to]
<1> DEFINE j == job[p]
           c == CellOf(j)
<1>1. /\ End(p) /\ j.doc # None /\ Doc[j.doc].kind \in kinds /\ KeyIsFree(j)
      /\ RowsRead(p) /\ GoesOn(p)
  BY DEF Committing, Ready, CanCommit
<1>2. /\ j.doc \in Docs /\ PartOK(j)
      /\ IF Refers(Doc[j.doc].kind) THEN j.orig \in DOMAIN movements ELSE j.orig = 0
  BY <1>1 DEF IInv, JobOK
<1>3. c \in Cells
  BY <1>2, DocTypes DEF CellOf, IInv, MovementsOK, Refers
<1>4. seen[p][c] # None /\ (TwoLegs(j) => seen[p][Doc[j.doc].to] # None)
  BY <1>1 DEF RowsRead, RowsOf
<1>5. TwoLegs(j) => Doc[j.doc].to \in Cells /\ Doc[j.doc].to # c
  BY <1>2, DocTypes DEF TwoLegs, CellOf
<1>6. Sufficient(j, seen[p][c])
  BY <1>1, <1>4 DEF GoesOn
<1>7. /\ IF j.part = "in" THEN ~Arrived(j.doc) ELSE Fresh(j.doc)
      /\ Doc[j.doc].kind # "transfer" => j.part = "both" /\ Fresh(j.doc)
  BY <1>1, <1>2 DEF KeyIsFree, NotBooked, Fresh, PartOK
<1> HIDE DEF j, c
<1>8. seen[p][c] = balance[c] /\ (TwoLegs(j) => seen[p][Doc[j.doc].to] = balance[Doc[j.doc].to])
  BY <1>3, <1>4, <1>5 DEF IInv, SeenOK
<1> QED BY <1>1, <1>2, <1>3, <1>4, <1>5, <1>6, <1>7, <1>8 DEF j, c

MovementFields == {"doc", "cell", "delta", "cost", "left", "lotDrawn", "reversalOf", "reversedBy"}

SameMovements(s) ==
  /\ DOMAIN s = DOMAIN movements /\ Len(s) = Len(movements)
  /\ \A m \in DOMAIN movements :
       /\ DOMAIN s[m] = DOMAIN movements[m]
       /\ s[m].doc = movements[m].doc /\ s[m].cell = movements[m].cell
       /\ s[m].delta = movements[m].delta

WellFormed(m, d) ==
  DOMAIN m = MovementFields /\ m.doc = d /\ m.cell \in Cells /\ m.delta \in Int

Books(d) ==
  /\ MovementsOK' /\ DOMAIN movements \subseteq DOMAIN movements'
  /\ Booked' = Booked \cup {d}
  /\ \A e \in Docs \ {d} : Arrived(e)' <=> Arrived(e)

LEMMA AppendBooks ==
  ASSUME IInv, NEW d \in Docs, NEW s, SameMovements(s), NEW m, WellFormed(m, d),
         movements' = Append(s, m)
  PROVE  Books(d) /\ (Arrived(d)' <=> Arrived(d) \/ m.delta > 0)
<1>1. PICK n : n = Len(movements) + 1
  OBVIOUS
<1>2. Len(movements) \in Nat /\ DOMAIN movements = 1..Len(movements)
  BY DEF IInv, MovementsOK
<1>3. /\ Len(movements') = n /\ DOMAIN movements' = 1..n /\ n \in Nat
      /\ movements'[n] = m /\ \A k \in DOMAIN movements : movements'[k] = s[k]
      /\ DOMAIN movements' = DOMAIN movements \cup {n}
  BY <1>1, <1>2 DEF SameMovements
<1>4. \A k \in DOMAIN movements :
        /\ DOMAIN movements'[k] = MovementFields
        /\ movements'[k].doc = movements[k].doc /\ movements'[k].cell \in Cells
        /\ movements'[k].doc \in Docs /\ movements'[k].delta \in Int
        /\ movements'[k].delta = movements[k].delta
  BY <1>3 DEF SameMovements, IInv, MovementsOK, MovementFields
<1>5. MovementsOK'
  <2>1. \A k \in DOMAIN movements' :
          /\ DOMAIN movements'[k] = MovementFields
          /\ movements'[k].doc \in Docs /\ movements'[k].cell \in Cells /\ movements'[k].delta \in Int
    BY <1>3, <1>4 DEF WellFormed
  <2> QED BY <1>3, <2>1 DEF MovementsOK, MovementFields
<1>6. Booked' = Booked \cup {d}
  BY <1>3, <1>4 DEF Booked, WellFormed
<1>7. /\ \A e \in Docs \ {d} : Arrived(e)' <=> Arrived(e)
      /\ Arrived(d)' <=> Arrived(d) \/ m.delta > 0
  BY <1>3, <1>4 DEF Arrived, WellFormed
<1> QED BY <1>3, <1>5, <1>6, <1>7 DEF Books

Bar == [c \in Cells |-> balance[c].onHand]
BookedBar == {d \in Booked : Keyed(d)}
TransitBar == [d \in Docs |-> IF InTransit(d) THEN Doc[d].qty ELSE 0]

LEMMA TransitStays ==
  ASSUME NEW d \in Docs, Books(d), Doc[d].kind # "transfer" \/ (d \notin Booked /\ Arrived(d)')
  PROVE  TransitBar' = TransitBar
<1>1. \A e \in Docs : InTransit(e)' <=> InTransit(e)
  BY DEF Books, InTransit
<1> QED BY <1>1 DEF TransitBar

LEMMA BookedGrows ==
  ASSUME NEW d \in Docs, Books(d), Fresh(d), Keyed(d)
  PROVE  d \notin BookedBar /\ BookedBar' = BookedBar \cup {d}
BY DEF BookedBar, Fresh, Books, Keyed

(* The stock of one cell, after a row of it was written.                   *)
LEMMA BarChanges ==
  ASSUME IInv, NEW c \in Cells, NEW row, balance' = [balance EXCEPT ![c] = row], RowOK(row)
  PROVE  /\ BalancesOK' /\ Bar[c] = balance[c].onHand /\ Bar[c] \in Int /\ Bar'[c] = row.onHand
         /\ Bar'[c] \in Int /\ Bar' = [Bar EXCEPT ![c] = Bar'[c]]
<1>1. BalancesOK' /\ balance'[c] = row /\ \A x \in Cells \ {c} : balance'[x] = balance[x]
  BY DEF IInv, BalancesOK
<1>2. PICK n : n = Bar'[c]
  OBVIOUS
<1>3. n = row.onHand /\ \A x \in Cells \ {c} : Bar'[x] = Bar[x]
  BY <1>1, <1>2 DEF Bar
<1>4. Bar' = [x \in Cells |-> IF x = c THEN n ELSE Bar[x]]
  BY <1>2, <1>3 DEF Bar
<1>5. [Bar EXCEPT ![c] = n] = [x \in Cells |-> IF x = c THEN n ELSE Bar[x]]
  BY DEF Bar
<1>6. Bar[c] = balance[c].onHand /\ Bar[c] \in Int
  BY DEF Bar, IInv, BalancesOK, RowOK
<1> QED BY <1>1, <1>2, <1>3, <1>4, <1>5, <1>6 DEF RowOK

Overdraws(d) == Doc[d].kind = "issue" /\ Doc[d].allowNegative

(* One document, one cell.                                                 *)
LEMMA OneCell ==
  ASSUME IInv, NEW d \in Docs, NEW c \in Cells, NEW row,
         Fresh(d), Doc[d].kind # "transfer", Books(d),
         balance' = [balance EXCEPT ![c] = row], RowOK(row),
         Overdraws(d) \/ (row.onHand < balance[c].onHand => row.onHand >= 0)
  PROVE  BalancesOK' /\ Ledger!LedgerNext
<1>1. /\ BalancesOK' /\ Bar[c] = balance[c].onHand /\ Bar'[c] = row.onHand
      /\ Bar'[c] \in Int /\ Bar' = [Bar EXCEPT ![c] = Bar'[c]]
  BY BarChanges
<1>2. TransitBar' = TransitBar
  BY TransitStays
<1>3. CASE Keyed(d)
  <2>1. d \notin BookedBar /\ BookedBar' = BookedBar \cup {d}
    BY <1>3, BookedGrows
  <2>2. Ledger!BookOne(d, c)
    BY <1>1, <1>2, <2>1
    DEF Ledger!BookOne, Ledger!Book, Ledger!Change, Ledger!Covered, Bar, BookedBar, TransitBar, Overdraws
  <2> QED BY <1>1, <2>2 DEF Ledger!LedgerNext
<1>4. CASE ~Keyed(d)
  <2>1. BookedBar' = BookedBar
    BY <1>4 DEF BookedBar, Books
  <2>2. ~Overdraws(d)
    BY <1>4 DEF Keyed, Overdraws
  <2>3. Ledger!Adjust(c)
    BY <1>1, <1>2, <2>1, <2>2
    DEF Ledger!Adjust, Ledger!Change, Ledger!Covered, Bar, BookedBar, TransitBar
  <2> QED BY <1>1, <2>3 DEF Ledger!LedgerNext
<1> QED BY <1>3, <1>4

(* Each commit is a step of the ledger and ends the call.                  *)
Implements(p) == IInv' /\ (Ledger!LedgerNext \/ UNCHANGED <<Bar, TransitBar, BookedBar>>)

LEMMA MovementForm ==
  ASSUME NEW j, NEW c \in Cells, NEW delta \in Int, NEW cost
  PROVE  WellFormed(Movement(j, c, delta, cost), j.doc) /\ WellFormed(Receipt(j, c, delta, cost), j.doc)
BY DEF WellFormed, Movement, Receipt, MovementFields

LEMMA ReceiveStep ==
  ASSUME IInv, NEW p \in Procs, ReceiveStock(p)
  PROVE  Implements(p)
<1>1. PICK j, c, row, m :
        /\ j = job[p] /\ c = CellOf(j)
        /\ row = Received(balance[c], Doc[j.doc].qty, j.cost)
        /\ m = Receipt(j, c, Doc[j.doc].qty, j.cost)
  OBVIOUS
<1>2. Committing(p, {"receive"})
  BY DEF ReceiveStock
<1>3. /\ End(p) /\ j.doc \in Docs /\ Doc[j.doc].kind = "receive" /\ Fresh(j.doc)
      /\ c \in Cells /\ seen[p][c] # None /\ seen[p][c] = balance[c]
  BY <1>1, <1>2, CommitFacts
<1>4. Doc[j.doc].qty \in Nat
  BY <1>3, DocTypes
<1>5. balance' = [balance EXCEPT ![c] = row] /\ movements' = Append(movements, m)
  BY <1>1, <1>3 DEF ReceiveStock
<1>6. RowOK(row) /\ row.onHand >= balance[c].onHand
  BY <1>1, <1>3, <1>4 DEF IInv, BalancesOK, RowOK, Received
<1>7. Books(j.doc)
  BY <1>1, <1>3, <1>4, <1>5, MovementForm, AppendBooks DEF SameMovements
<1>8. BalancesOK' /\ Ledger!LedgerNext
  <2>1. row.onHand < balance[c].onHand => row.onHand >= 0
    BY <1>3, <1>6 DEF IInv, BalancesOK, RowOK
  <2> QED BY <1>3, <1>5, <1>6, <1>7, <2>1, OneCell
<1>9. Wrote(p)
  BY <1>3, <1>5, <1>7, <1>8 DEF Wrote, Books, IInv, BalancesOK
<1> QED BY <1>3, <1>8, <1>9, EndStep DEF Implements

LEMMA LosslessUpdate ==
  ASSUME IInv, NEW s, DOMAIN s = DOMAIN movements, s = [m \in DOMAIN movements |-> s[m]],
         \A m \in DOMAIN movements :
           /\ DOMAIN s[m] = DOMAIN movements[m]
           /\ s[m].doc = movements[m].doc /\ s[m].cell = movements[m].cell
           /\ s[m].delta = movements[m].delta
  PROVE  SameMovements(s)
<1>1. DOMAIN s = 1..Len(movements) /\ Len(movements) \in Nat
  BY DEF IInv, MovementsOK
<1>2. Len(s) = Len(movements)
  BY <1>1
<1> QED BY <1>2 DEF SameMovements

LEMMA IssueStep ==
  ASSUME IInv, NEW p \in Procs, IssueStock(p)
  PROVE  Implements(p)
<1>1. PICK j, c, quantity : j = job[p] /\ c = CellOf(j) /\ quantity = Doc[j.doc].qty
  OBVIOUS
<1>2. Committing(p, {"issue"})
  BY DEF IssueStock
<1>3. /\ End(p) /\ j.doc \in Docs /\ Doc[j.doc].kind = "issue" /\ Fresh(j.doc)
      /\ c \in Cells /\ seen[p][c] # None /\ seen[p][c] = balance[c]
      /\ Sufficient(j, balance[c])
  BY <1>1, <1>2, CommitFacts
<1>4. quantity \in Nat /\ (Overdraws(j.doc) \/ quantity <= balance[c].onHand)
  BY <1>1, <1>3, DocTypes DEF Sufficient, Outflow, Overdraws
<1>5. PICK row : row = Issued(balance[c], quantity)
  OBVIOUS
<1>6. balance' = [balance EXCEPT ![c] = row]
  BY <1>1, <1>3, <1>5 DEF IssueStock
<1>7. \E s, m : SameMovements(s) /\ WellFormed(m, j.doc) /\ movements' = Append(s, m)
  <2>1. PICK left, cost, drawn :
          movements' = Append([k \in DOMAIN movements |-> [movements[k] EXCEPT !.left = left[k]]],
                              [Movement(j, c, -quantity, cost) EXCEPT !.lotDrawn = drawn])
    <3> DEFINE fifo == Doc[j.doc].fifo
               out(k) == IF fifo /\ k \in LayersOf(c) THEN DrawnFrom(k, c, quantity) ELSE 0
    <3>1. movements' = Append([k \in DOMAIN movements |-> [movements[k] EXCEPT !.left = @ - out(k)]],
              [Movement(j, c, -quantity, IF fifo THEN FifoCost(c, quantity) ELSE seen[p][c].avg)
                 EXCEPT !.lotDrawn = IF UsesLot(j) THEN quantity ELSE 0])
      BY <1>1 DEF IssueStock
    <3>2. PICK left : left = [k \in DOMAIN movements |-> movements[k].left - out(k)]
      OBVIOUS
    <3>3. [k \in DOMAIN movements |-> [movements[k] EXCEPT !.left = @ - out(k)]]
            = [k \in DOMAIN movements |-> [movements[k] EXCEPT !.left = left[k]]]
      BY <3>2
    <3> HIDE DEF out, fifo
    <3> QED BY <3>1, <3>3
  <2>2. PICK s : s = [k \in DOMAIN movements |-> [movements[k] EXCEPT !.left = left[k]]]
    OBVIOUS
  <2>3. SameMovements(s)
    <3>1. DOMAIN s = DOMAIN movements /\ s = [k \in DOMAIN movements |-> s[k]]
      BY <2>2
    <3>2. \A k \in DOMAIN movements :
            /\ DOMAIN s[k] = DOMAIN movements[k]
            /\ s[k].doc = movements[k].doc /\ s[k].cell = movements[k].cell
            /\ s[k].delta = movements[k].delta
      BY <2>2 DEF IInv, MovementsOK
    <3> QED BY <3>1, <3>2, LosslessUpdate
  <2>4. WellFormed([Movement(j, c, -quantity, cost) EXCEPT !.lotDrawn = drawn], j.doc)
    BY <1>3, <1>4 DEF WellFormed, Movement, MovementFields
  <2> QED BY <2>1, <2>2, <2>3, <2>4
<1>8. Books(j.doc)
  BY <1>3, <1>7, AppendBooks
<1>9. RowOK(row) /\ (Overdraws(j.doc) \/ row.onHand >= 0)
  BY <1>3, <1>4, <1>5 DEF IInv, BalancesOK, RowOK, Issued
<1>10. BalancesOK' /\ Ledger!LedgerNext
  BY <1>3, <1>6, <1>8, <1>9, OneCell
<1>11. Wrote(p)
  BY <1>3, <1>6, <1>8, <1>10 DEF Wrote, Books, IInv, BalancesOK
<1> QED BY <1>3, <1>10, <1>11, EndStep DEF Implements

LEMMA AdjustStep ==
  ASSUME IInv, NEW p \in Procs, AdjustStock(p)
  PROVE  Implements(p)
<1>1. PICK j, c, delta : j = job[p] /\ c = CellOf(j) /\ delta = Doc[j.doc].qty
  OBVIOUS
<1>2. Committing(p, {"adjust"})
  BY DEF AdjustStock
<1>3. /\ End(p) /\ j.doc \in Docs /\ Doc[j.doc].kind = "adjust" /\ Fresh(j.doc)
      /\ c \in Cells /\ seen[p][c] # None /\ seen[p][c] = balance[c]
      /\ Sufficient(j, balance[c])
  BY <1>1, <1>2, CommitFacts
<1>4. delta \in Int /\ (delta < 0 => -delta <= balance[c].onHand)
  BY <1>1, <1>3, DocTypes DEF Sufficient, Outflow
<1>5. PICK row : row = IF delta > 0 THEN Received(balance[c], delta, j.cost)
                                    ELSE Issued(balance[c], -delta)
  OBVIOUS
<1>6. PICK m : m = IF delta > 0 THEN Receipt(j, c, delta, j.cost)
                                ELSE Movement(j, c, delta, balance[c].avg)
  OBVIOUS
<1>7. balance' = [balance EXCEPT ![c] = row] /\ movements' = Append(movements, m)
  BY <1>1, <1>3, <1>5, <1>6 DEF AdjustStock
<1>8. RowOK(row) /\ (row.onHand < balance[c].onHand => row.onHand >= 0)
  <2>1. RowOK(balance[c])
    BY <1>3 DEF IInv, BalancesOK
  <2>2. CASE delta > 0
    BY <1>4, <1>5, <2>1, <2>2 DEF RowOK, Received
  <2>3. CASE ~(delta > 0)
    BY <1>4, <1>5, <2>1, <2>3 DEF RowOK, Issued
  <2> QED BY <2>2, <2>3
<1>9. WellFormed(m, j.doc)
  BY <1>3, <1>4, <1>6, MovementForm
<1>10. Books(j.doc)
  BY <1>3, <1>7, <1>9, AppendBooks DEF SameMovements
<1>11. BalancesOK' /\ Ledger!LedgerNext
  BY <1>3, <1>7, <1>8, <1>10, OneCell
<1>12. Wrote(p)
  BY <1>3, <1>7, <1>10, <1>11 DEF Wrote, Books, IInv, BalancesOK
<1> QED BY <1>3, <1>11, <1>12, EndStep DEF Implements

LEMMA VendorReturnStep ==
  ASSUME IInv, NEW p \in Procs, IssueVendorReturn(p)
  PROVE  Implements(p)
<1>1. PICK j, c, quantity : j = job[p] /\ c = CellOf(j) /\ quantity = Doc[j.doc].qty
  OBVIOUS
<1>2. Committing(p, {"vendorReturn"})
  BY DEF IssueVendorReturn
<1>3. /\ End(p) /\ j.doc \in Docs /\ Doc[j.doc].kind = "vendorReturn" /\ Fresh(j.doc)
      /\ c \in Cells /\ seen[p][c] # None /\ seen[p][c] = balance[c]
      /\ Sufficient(j, balance[c])
  BY <1>1, <1>2, CommitFacts
<1>4. quantity \in Nat /\ quantity <= balance[c].onHand
  BY <1>1, <1>3, DocTypes DEF Sufficient, Outflow
<1>5. PICK row, m, delta : /\ row = Issued(balance[c], quantity) /\ delta = -quantity
                           /\ m = Movement(j, c, delta, j.cost)
  OBVIOUS
<1>6. balance' = [balance EXCEPT ![c] = row] /\ movements' = Append(movements, m)
  BY <1>1, <1>3, <1>5 DEF IssueVendorReturn
<1>7. RowOK(row) /\ row.onHand >= 0
  BY <1>3, <1>4, <1>5 DEF IInv, BalancesOK, RowOK, Issued
<1>8. WellFormed(m, j.doc)
  <2>1. delta \in Int
    BY <1>4, <1>5
  <2> QED BY <1>3, <1>5, <2>1, MovementForm
<1>9. Books(j.doc)
  BY <1>3, <1>6, <1>8, AppendBooks DEF SameMovements
<1>10. BalancesOK' /\ Ledger!LedgerNext
  BY <1>3, <1>6, <1>7, <1>9, OneCell
<1>11. Wrote(p)
  BY <1>3, <1>6, <1>9, <1>10 DEF Wrote, Books, IInv, BalancesOK
<1> QED BY <1>3, <1>10, <1>11, EndStep DEF Implements

LEMMA ReverseStep ==
  ASSUME IInv, NEW p \in Procs, ReverseMovement(p)
  PROVE  Implements(p)
<1>1. PICK j, c, orig, delta :
        j = job[p] /\ c = CellOf(j) /\ orig = movements[j.orig] /\ delta = -orig.delta
  OBVIOUS
<1>2. Committing(p, {"reverse"})
  BY DEF ReverseMovement
<1>3. /\ End(p) /\ j.doc \in Docs /\ Doc[j.doc].kind = "reverse" /\ Fresh(j.doc)
      /\ j.orig \in DOMAIN movements
      /\ c \in Cells /\ seen[p][c] # None /\ seen[p][c] = balance[c]
      /\ Sufficient(j, balance[c])
  BY <1>1, <1>2, CommitFacts DEF Refers
<1>4. orig.delta \in Int /\ delta \in Int /\ (orig.delta > 0 => orig.delta <= balance[c].onHand)
  <2>1. orig.delta \in Int
    BY <1>1, <1>3 DEF IInv, MovementsOK
  <2>2. balance[c].onHand \in Int
    BY <1>3 DEF IInv, BalancesOK, RowOK
  <2> QED BY <1>1, <1>3, <2>1, <2>2 DEF Sufficient, Outflow
<1>5. PICK row : row = [balance[c] EXCEPT !.onHand = @ - orig.delta,
                                          !.avg = NewAverage(balance[c], -orig.delta, j.cost)]
  OBVIOUS
<1>6. balance' = [balance EXCEPT ![c] = row]
  BY <1>1, <1>3, <1>5 DEF ReverseMovement
<1>7. \E s, m : SameMovements(s) /\ WellFormed(m, j.doc) /\ movements' = Append(s, m)
  <2> DEFINE linked(k) == IF k = j.orig
                          THEN [Restored(k, j.orig) EXCEPT !.reversedBy = Len(movements) + 1,
                                  !.lotDrawn = IF UsesLot(j) THEN 0 ELSE @]
                          ELSE Restored(k, j.orig)
  <2>1. PICK s, m : /\ s = [k \in DOMAIN movements |-> linked(k)]
                    /\ m = [Movement(j, c, delta, j.cost) EXCEPT !.reversalOf = j.orig]
    OBVIOUS
  <2>2. movements' = Append(s, m)
    BY <1>1, <2>1 DEF ReverseMovement
  <2>3. \A k \in DOMAIN movements :
          /\ DOMAIN linked(k) = DOMAIN movements[k]
          /\ linked(k).doc = movements[k].doc /\ linked(k).cell = movements[k].cell
          /\ linked(k).delta = movements[k].delta
    <3> SUFFICES ASSUME NEW k \in DOMAIN movements
                 PROVE  /\ DOMAIN linked(k) = DOMAIN movements[k]
                        /\ linked(k).doc = movements[k].doc /\ linked(k).cell = movements[k].cell
                        /\ linked(k).delta = movements[k].delta
      OBVIOUS
    <3>1. PICK r, left : r = Restored(k, j.orig) /\ r = [movements[k] EXCEPT !.left = left]
      BY DEF Restored
    <3>2. DOMAIN movements[k] = MovementFields
      BY DEF IInv, MovementsOK, MovementFields
    <3>3. PICK drawn : linked(k) = IF k = j.orig
                                   THEN [r EXCEPT !.reversedBy = Len(movements) + 1, !.lotDrawn = drawn]
                                   ELSE r
      BY <3>1
    <3> HIDE DEF linked
    <3> QED BY <3>1, <3>2, <3>3 DEF MovementFields
  <2> HIDE DEF linked
  <2>4. SameMovements(s)
    <3>1. DOMAIN s = DOMAIN movements /\ s = [k \in DOMAIN movements |-> s[k]]
      BY <2>1
    <3>2. \A k \in DOMAIN movements : s[k] = linked(k)
      BY <2>1
    <3> QED BY <2>3, <3>1, <3>2, LosslessUpdate
  <2>5. WellFormed(m, j.doc)
    BY <1>3, <1>4, <2>1 DEF WellFormed, Movement, MovementFields
  <2> QED BY <2>2, <2>4, <2>5
<1>8. Books(j.doc)
  BY <1>3, <1>7, AppendBooks
<1>9. RowOK(row) /\ (row.onHand < balance[c].onHand => row.onHand >= 0)
  BY <1>3, <1>4, <1>5 DEF IInv, BalancesOK, RowOK
<1>10. BalancesOK' /\ Ledger!LedgerNext
  BY <1>3, <1>6, <1>8, <1>9, OneCell
<1>11. Wrote(p)
  BY <1>3, <1>6, <1>8, <1>10 DEF Wrote, Books, IInv, BalancesOK
<1> QED BY <1>3, <1>10, <1>11, EndStep DEF Implements

(* A reservation changes nothing the ledger knows of.                      *)
LEMMA ReserveStep ==
  ASSUME IInv, NEW p \in Procs, ReserveStock(p)
  PROVE  Implements(p)
<1>1. PICK j, c : j = job[p] /\ c = CellOf(j)
  OBVIOUS
<1>2. Committing(p, {"reserve", "release"})
  BY DEF ReserveStock
<1>3. End(p) /\ c \in Cells /\ seen[p][c] # None /\ seen[p][c] = balance[c]
  BY <1>1, <1>2, CommitFacts
<1>4. PICK reserved : /\ balance' = [balance EXCEPT ![c] = [balance[c] EXCEPT !.reserved = reserved]]
                      /\ UNCHANGED movements
  BY <1>1, <1>3 DEF ReserveStock
<1>5. BalancesOK' /\ \A x \in Cells : balance'[x].onHand = balance[x].onHand
  BY <1>3, <1>4 DEF IInv, BalancesOK, RowOK
<1>6. UNCHANGED <<Bar, TransitBar, BookedBar>> /\ Booked' = Booked
  BY <1>4, <1>5 DEF Bar, TransitBar, BookedBar, Booked, InTransit, Arrived
<1>7. MovementsOK'
  BY <1>4 DEF IInv, MovementsOK
<1>8. Wrote(p)
  BY <1>3, <1>4, <1>5, <1>6, <1>7 DEF Wrote, IInv, BalancesOK
<1> QED BY <1>3, <1>6, <1>8, EndStep DEF Implements

(* Two movements of one document.                                          *)
LEMMA AppendBothBooks ==
  ASSUME IInv, NEW d \in Docs, NEW a, NEW b, WellFormed(a, d), WellFormed(b, d),
         movements' = movements \o <<a, b>>
  PROVE  Books(d) /\ (b.delta > 0 => Arrived(d)')
<1>1. PICK n : n = Len(movements)
  OBVIOUS
<1>2. n \in Nat /\ DOMAIN movements = 1..n
  BY <1>1 DEF IInv, MovementsOK
<1>3. /\ Len(movements') = n + 2 /\ DOMAIN movements' = 1..(n + 2)
      /\ movements'[n + 1] = a /\ movements'[n + 2] = b
      /\ \A k \in DOMAIN movements : movements'[k] = movements[k]
  BY <1>1, <1>2
<1>4. DOMAIN movements' = DOMAIN movements \cup {n + 1, n + 2}
  BY <1>2, <1>3
<1>5. \A k \in DOMAIN movements' :
        /\ DOMAIN movements'[k] = MovementFields
        /\ movements'[k].doc \in Docs /\ movements'[k].cell \in Cells /\ movements'[k].delta \in Int
  BY <1>3, <1>4 DEF WellFormed, IInv, MovementsOK, MovementFields
<1>6. MovementsOK'
  BY <1>2, <1>3, <1>5 DEF MovementsOK, MovementFields
<1>7. Booked' = Booked \cup {d}
  BY <1>3, <1>4 DEF Booked, WellFormed
<1>8. (\A e \in Docs \ {d} : Arrived(e)' <=> Arrived(e)) /\ (b.delta > 0 => Arrived(d)')
  BY <1>3, <1>4 DEF Arrived, WellFormed
<1> QED BY <1>4, <1>6, <1>7, <1>8 DEF Books

LEMMA TransferStep ==
  ASSUME IInv, NEW p \in Procs, TransferStock(p)
  PROVE  Implements(p)
<1>1. PICK j, c, to, quantity, made :
        /\ j = job[p] /\ c = CellOf(j) /\ to = Doc[j.doc].to
        /\ quantity = Doc[j.doc].qty /\ made = LegMade(j)
  OBVIOUS
<1>2. Committing(p, {"transfer", "build"})
  BY DEF TransferStock
<1>3. /\ End(p) /\ j.doc \in Docs /\ Doc[j.doc].kind \in {"transfer", "build"} /\ Fresh(j.doc)
      /\ c \in Cells /\ seen[p][c] # None /\ seen[p][c] = balance[c]
      /\ Sufficient(j, balance[c])
      /\ to \in Cells /\ to # c /\ seen[p][to] # None /\ seen[p][to] = balance[to]
  <2>1. j.part = "both"
    BY <1>1 DEF TransferStock
  <2> QED BY <1>1, <1>2, <2>1, CommitFacts DEF TwoLegs
<1>4. /\ quantity \in Nat \ {0} /\ quantity <= balance[c].onHand
      /\ made \in Nat \ {0} /\ (Doc[j.doc].kind = "transfer" => made = quantity)
  <2>1. j.part = "both"
    BY <1>1 DEF TransferStock
  <2>2. Doc[j.doc].qty \in Nat \ {0} /\ Doc[j.doc].made \in Nat \ {0}
    BY <1>3, DocTypes
  <2> QED BY <1>1, <1>3, <2>1, <2>2 DEF Sufficient, Outflow, LegMade
<1>5. PICK out, in, delta, a, b :
        /\ out = Issued(balance[c], quantity) /\ in = Received(balance[to], made, LegCost(p))
        /\ delta = -quantity
        /\ a = Movement(j, c, delta, balance[c].avg) /\ b = Receipt(j, to, made, LegCost(p))
  OBVIOUS
<1>6. /\ balance' = [balance EXCEPT ![c] = out, ![to] = in]
      /\ movements' = movements \o <<a, b>>
  BY <1>1, <1>3, <1>5 DEF TransferStock
<1>7. /\ RowOK(out) /\ RowOK(in)
      /\ out.onHand = balance[c].onHand - quantity /\ in.onHand = balance[to].onHand + made
  <2>1. RowOK(balance[c]) /\ RowOK(balance[to])
    BY <1>3 DEF IInv, BalancesOK
  <2>2. out.onHand = balance[c].onHand - quantity /\ DOMAIN out = DOMAIN balance[c]
    BY <1>5, <2>1 DEF RowOK, Issued
  <2>3. in.onHand = balance[to].onHand + made /\ DOMAIN in = DOMAIN balance[to]
    BY <1>5, <2>1 DEF RowOK, Received
  <2> QED BY <1>4, <2>1, <2>2, <2>3 DEF RowOK
<1>8. Books(j.doc) /\ Arrived(j.doc)'
  <2>1. delta \in Int /\ made \in Int
    BY <1>4, <1>5
  <2>2. WellFormed(a, j.doc) /\ WellFormed(b, j.doc)
    BY <1>3, <1>5, <2>1, MovementForm
  <2>3. b.delta > 0
    BY <1>4, <1>5 DEF Receipt, Movement
  <2> QED BY <1>3, <1>6, <2>2, <2>3, AppendBothBooks
<1>9. /\ BalancesOK' /\ balance'[c] = out /\ balance'[to] = in
      /\ \A x \in Cells \ {c, to} : balance'[x] = balance[x]
  BY <1>3, <1>6, <1>7 DEF IInv, BalancesOK
<1>10. Ledger!ChangeBoth(c, to) /\ Ledger!TransferOf(j.doc, c, to)
  <2>1. PICK less, more : less = Bar'[c] /\ more = Bar'[to]
    OBVIOUS
  <2>2. less = out.onHand /\ more = in.onHand /\ \A x \in Cells \ {c, to} : Bar'[x] = Bar[x]
    BY <1>3, <1>9, <2>1 DEF Bar
  <2>3. Bar' = [x \in Cells |-> IF x = to THEN more ELSE IF x = c THEN less ELSE Bar[x]]
    BY <2>1, <2>2 DEF Bar
  <2>4. [Bar EXCEPT ![c] = less, ![to] = more]
          = [x \in Cells |-> IF x = to THEN more ELSE IF x = c THEN less ELSE Bar[x]]
    BY <1>3 DEF Bar
  <2>5. Bar[c] = balance[c].onHand /\ Bar[to] = balance[to].onHand
    BY <1>3 DEF Bar
  <2>6. balance[c].onHand \in Int /\ balance[to].onHand \in Int
    BY <1>3 DEF IInv, BalancesOK, RowOK
  <2>7. /\ less \in Nat /\ less < Bar[c] /\ more \in Int /\ more > Bar[to]
        /\ (Doc[j.doc].kind = "transfer" => less + more = Bar[c] + Bar[to])
    BY <1>4, <1>7, <2>2, <2>5, <2>6
  <2>8. Bar' = [Bar EXCEPT ![c] = Bar'[c], ![to] = Bar'[to]]
    BY <2>1, <2>3, <2>4
  <2> QED BY <1>3, <2>1, <2>7, <2>8 DEF Ledger!ChangeBoth, Ledger!TransferOf, Bar
<1>11. Ledger!LedgerNext
  <2>1. Keyed(j.doc)
    BY <1>3 DEF Keyed
  <2>2. Ledger!Book(j.doc)
    BY <1>3, <1>8, <2>1, BookedGrows DEF Ledger!Book, BookedBar
  <2>3. TransitBar' = TransitBar
    BY <1>3, <1>8, <2>1, TransitStays DEF Fresh
  <2> QED BY <1>3, <1>10, <2>2, <2>3 DEF Ledger!LedgerNext, Ledger!BookBoth, TransitBar
<1>12. Wrote(p)
  BY <1>3, <1>8, <1>9 DEF Wrote, Books
<1> QED BY <1>3, <1>11, <1>12, EndStep DEF Implements

(* The issue leg alone: what left the cell is in transit.                  *)
LEMMA ShipStep ==
  ASSUME IInv, NEW p \in Procs, ShipTransfer(p)
  PROVE  Implements(p)
<1>1. PICK j, c, quantity : j = job[p] /\ c = CellOf(j) /\ quantity = Doc[j.doc].qty
  OBVIOUS
<1>2. Committing(p, {"transfer"}) /\ j.part = "out"
  BY <1>1 DEF ShipTransfer
<1>3. /\ End(p) /\ j.doc \in Docs /\ Doc[j.doc].kind = "transfer" /\ j.doc \notin Booked
      /\ c \in Cells /\ seen[p][c] # None /\ seen[p][c] = balance[c]
      /\ Sufficient(j, balance[c])
  BY <1>1, <1>2, CommitFacts DEF Fresh, Keyed
<1>4. quantity \in Nat \ {0} /\ quantity <= balance[c].onHand
  BY <1>1, <1>2, <1>3, DocTypes DEF Sufficient, Outflow
<1>5. PICK row, m, delta : /\ row = Issued(balance[c], quantity) /\ delta = -quantity
                           /\ m = Movement(j, c, delta, balance[c].avg)
  OBVIOUS
<1>6. balance' = [balance EXCEPT ![c] = row] /\ movements' = Append(movements, m)
  BY <1>1, <1>3, <1>5 DEF ShipTransfer
<1>7. RowOK(row) /\ row.onHand = balance[c].onHand - quantity
  BY <1>3, <1>4, <1>5 DEF IInv, BalancesOK, RowOK, Issued
<1>8. delta \in Int /\ ~(m.delta > 0) /\ WellFormed(m, j.doc)
  <2>1. delta \in Int /\ ~(delta > 0)
    BY <1>4, <1>5
  <2> QED BY <1>3, <1>5, <2>1, MovementForm DEF Movement
<1>9. Books(j.doc) /\ ~Arrived(j.doc)'
  <2>1. ~Arrived(j.doc)
    BY <1>3 DEF Arrived, Booked
  <2> QED BY <1>3, <1>6, <1>8, <2>1, AppendBooks DEF SameMovements
<1>10. /\ BalancesOK' /\ Bar[c] = balance[c].onHand /\ Bar[c] \in Int /\ Bar'[c] = row.onHand
       /\ Bar' = [Bar EXCEPT ![c] = Bar'[c]]
  BY <1>3, <1>6, <1>7, BarChanges
<1>11. Bar[c] - Bar'[c] = quantity /\ Bar'[c] \in Nat /\ Bar'[c] < Bar[c]
  BY <1>4, <1>7, <1>10
<1>12. TransitBar' = [TransitBar EXCEPT ![j.doc] = Bar[c] - Bar'[c]]
  <2>1. InTransit(j.doc)' /\ \A e \in Docs \ {j.doc} : InTransit(e)' <=> InTransit(e)
    BY <1>3, <1>9 DEF Books, InTransit
  <2> QED BY <1>1, <1>3, <1>11, <2>1 DEF TransitBar
<1>13. Ledger!Ship(j.doc, c)
  <2>1. j.doc \notin BookedBar /\ BookedBar' = BookedBar \cup {j.doc}
    BY <1>3, <1>9, BookedGrows DEF Fresh, Keyed
  <2>2. Ledger!Book(j.doc)
    BY <2>1 DEF Ledger!Book, BookedBar
  <2>3. Ledger!Change(c)
    BY <1>10, <1>11 DEF Ledger!Change, Bar
  <2>4. [d \in Docs |-> Doc[d].kind = "transfer"][j.doc]
    BY <1>3
  <2> QED BY <1>11, <1>12, <2>2, <2>3, <2>4 DEF Ledger!Ship, Bar, TransitBar
<1>14. Ledger!LedgerNext
  BY <1>3, <1>13 DEF Ledger!LedgerNext
<1>15. Wrote(p)
  BY <1>3, <1>6, <1>9, <1>10 DEF Wrote, Books, IInv, BalancesOK
<1> QED BY <1>3, <1>14, <1>15, EndStep DEF Implements

(* The receive leg: what was in transit, and no more of it afterwards.     *)
LEMMA ArriveStep ==
  ASSUME IInv, NEW p \in Procs, ReceiveTransfer(p)
  PROVE  Implements(p)
<1>1. PICK j, c, quantity : j = job[p] /\ c = CellOf(j) /\ quantity = Doc[j.doc].qty
  OBVIOUS
<1>2. Committing(p, {"transfer"}) /\ j.part = "in"
  BY <1>1 DEF ReceiveTransfer
<1>3. /\ End(p) /\ j.doc \in Docs /\ Doc[j.doc].kind = "transfer" /\ j.doc \in Booked
      /\ ~Arrived(j.doc)
      /\ c \in Cells /\ seen[p][c] # None /\ seen[p][c] = balance[c]
  BY <1>1, <1>2, CommitFacts DEF PartOK
<1>4. quantity \in Nat \ {0}
  BY <1>1, <1>3, DocTypes
<1>5. PICK row, m : /\ row = Received(balance[c], quantity, j.cost)
                    /\ m = Receipt(j, c, quantity, j.cost)
  OBVIOUS
<1>6. balance' = [balance EXCEPT ![c] = row] /\ movements' = Append(movements, m)
  BY <1>1, <1>3, <1>5 DEF ReceiveTransfer
<1>7. RowOK(row) /\ row.onHand = balance[c].onHand + quantity
  BY <1>3, <1>4, <1>5 DEF IInv, BalancesOK, RowOK, Received
<1>8. m.delta > 0 /\ WellFormed(m, j.doc)
  BY <1>3, <1>4, <1>5, MovementForm DEF Receipt, Movement
<1>9. Books(j.doc) /\ Arrived(j.doc)'
  BY <1>3, <1>6, <1>8, AppendBooks DEF SameMovements
<1>10. /\ BalancesOK' /\ Bar[c] = balance[c].onHand /\ Bar[c] \in Int /\ Bar'[c] = row.onHand
       /\ Bar' = [Bar EXCEPT ![c] = Bar'[c]]
  BY <1>3, <1>6, <1>7, BarChanges
<1>11. TransitBar[j.doc] = quantity /\ TransitBar' = [TransitBar EXCEPT ![j.doc] = 0]
  <2>1. InTransit(j.doc) /\ ~InTransit(j.doc)'
    BY <1>3, <1>9 DEF InTransit
  <2>2. \A e \in Docs \ {j.doc} : InTransit(e)' <=> InTransit(e)
    BY <1>9 DEF Books, InTransit
  <2> QED BY <1>1, <1>3, <2>1, <2>2 DEF TransitBar
<1>12. Bar' = [Bar EXCEPT ![c] = @ + TransitBar[j.doc]]
  <2>1. Bar'[c] = Bar[c] + TransitBar[j.doc]
    BY <1>7, <1>10, <1>11
  <2> QED BY <1>10, <2>1
<1>13. BookedBar' = BookedBar
  BY <1>3, <1>9 DEF BookedBar, Books
<1>14. Ledger!Arrive(j.doc, c)
  BY <1>4, <1>11, <1>12, <1>13 DEF Ledger!Arrive, Bar, TransitBar, BookedBar
<1>15. Ledger!LedgerNext
  BY <1>3, <1>14 DEF Ledger!LedgerNext
<1>16. Wrote(p)
  BY <1>3, <1>6, <1>9, <1>10 DEF Wrote, Books, IInv, BalancesOK
<1> QED BY <1>3, <1>15, <1>16, EndStep DEF Implements

-----------------------------------------------------------------------------
(* A step that leaves the balances and the movements alone is none of the  *)
(* ledger's.                                                               *)
LEMMA Stutter ==
  ASSUME UNCHANGED <<balance, movements>>
  PROVE  UNCHANGED <<Bar, TransitBar, BookedBar>>
BY DEF Bar, TransitBar, BookedBar, Booked, InTransit, Arrived

LEMMA NextStep ==
  ASSUME IInv, Next
  PROVE  IInv' /\ (Ledger!LedgerNext \/ UNCHANGED <<Bar, TransitBar, BookedBar>>)
<1>1. PICK p \in Procs :
        Begin(p) \/ LockBalance(p) \/ ReadLot(p) \/ Commit(p) \/ Refuse(p) \/ Crash(p)
  BY DEF Next
<1>2. CASE Begin(p)
  BY <1>2, BeginStep, Stutter
<1>3. CASE LockBalance(p)
  BY <1>3, LockBalanceStep, Stutter
<1>4. CASE ReadLot(p)
  BY <1>4, ReadLotStep, Stutter
<1>5. CASE Refuse(p) \/ Crash(p)
  BY <1>5, GiveUpStep, Stutter
<1>6. CASE Commit(p)
  BY <1>6, ReceiveStep, IssueStep, TransferStep, ShipStep, ArriveStep, AdjustStep,
     VendorReturnStep, ReverseStep, ReserveStep DEF Commit, Implements
<1> QED BY <1>1, <1>2, <1>3, <1>4, <1>5, <1>6

LEMMA StutterStep ==
  ASSUME IInv, UNCHANGED vars
  PROVE  IInv' /\ UNCHANGED <<Bar, TransitBar, BookedBar>>
<1>1. UNCHANGED <<balance, movements, lock, seen, job, brought>>
  BY DEF vars
<1>2. BalancesOK' /\ MovementsOK'
  BY <1>1 DEF IInv, BalancesOK, RowOK, MovementsOK
<1>3. \A p \in Procs : JobOK(job[p])'
  BY <1>1 DEF IInv, JobOK, PartOK, Booked
<1>4. \A p \in Procs : SeenOK(p)' /\ DOMAIN seen'[p] = Cells
  BY <1>1 DEF IInv, SeenOK
<1> QED BY <1>1, <1>2, <1>3, <1>4, Stutter DEF IInv

(* Whatever the callers do at once, a process works on balance rows that   *)
(* are the table's: no verb overwrites what another has committed.         *)
THEOREM Invariance == Spec => []IInv
<1>1. Init => IInv
  BY InitInv
<1>2. IInv /\ [Next]_vars => IInv'
  BY NextStep, StutterStep
<1> QED BY <1>1, <1>2, PTL DEF Spec

(* The inventory verbs implement the ledger of StockLedger: a document is  *)
(* booked at most once, no cell is taken below zero unless the document    *)
(* asks for it, and a transfer, in one call or in two, receives once, and  *)
(* only what it issued.                                                    *)
THEOREM VerbsKeepTheirPromise == Spec => Promise
<1>1. Init => Ledger!LedgerInit
  <2> SUFFICES ASSUME Init PROVE Ledger!LedgerInit
    OBVIOUS
  <2>1. Booked = {}
    BY DEF Init, Booked
  <2> QED BY <2>1 DEF Init, Ledger!LedgerInit, InTransit
<1>2. IInv /\ [Next]_vars => [Ledger!LedgerNext]_<<Bar, TransitBar, BookedBar>>
  BY NextStep, StutterStep
<1> QED BY <1>1, <1>2, Invariance, PTL
    DEF Spec, Promise, Ledger!LedgerSpec, Bar, TransitBar, BookedBar

-----------------------------------------------------------------------------
(* What each verb writes.                                                  *)

Carries(m, d, c, delta, left, lotDrawn, of) ==
  /\ m.doc = d /\ m.cell = c /\ m.delta = delta /\ m.left = left
  /\ m.lotDrawn = lotDrawn /\ m.reversalOf = of /\ m.reversedBy = 0

NewAt(n) == n \notin DOMAIN movements /\ DOMAIN movements' = DOMAIN movements \cup {n}

RowsStand == \A k \in DOMAIN movements : movements'[k] = movements[k]

Moves(c, delta) ==
  \A x \in Cells : balance'[x].onHand = IF x = c THEN balance[x].onHand + delta
                                                 ELSE balance[x].onHand

MovesBoth(c, out, to, in) ==
  \A x \in Cells : balance'[x].onHand = IF x = c THEN balance[x].onHand - out
                                        ELSE IF x = to THEN balance[x].onHand + in
                                        ELSE balance[x].onHand

LEMMA AppendShape ==
  ASSUME IInv, NEW s, DOMAIN s = DOMAIN movements, Len(s) = Len(movements), NEW m,
         movements' = Append(s, m), NEW n, n = Len(movements) + 1
  PROVE  NewAt(n) /\ movements'[n] = m /\ \A k \in DOMAIN movements : movements'[k] = s[k]
<1>1. Len(movements) \in Nat /\ DOMAIN movements = 1..Len(movements)
  BY DEF IInv, MovementsOK
<1> QED BY <1>1 DEF NewAt

LEMMA RowMoves ==
  ASSUME IInv, NEW c \in Cells, NEW row, NEW delta, balance' = [balance EXCEPT ![c] = row],
         row.onHand = balance[c].onHand + delta
  PROVE  Moves(c, delta)
BY DEF Moves, IInv, BalancesOK

LEMMA ReceiveWrites ==
  ASSUME IInv, NEW p \in Procs, ReceiveStock(p),
         NEW j, j = job[p], NEW c, c = CellOf(j), NEW quantity, quantity = Doc[j.doc].qty,
         NEW n, n = Len(movements) + 1
  PROVE  /\ quantity \in Nat \ {0} /\ c \in Cells /\ j.doc \in Docs
         /\ Doc[j.doc].kind = "receive" /\ c = Doc[j.doc].cell
         /\ NewAt(n) /\ RowsStand /\ Carries(movements'[n], j.doc, c, quantity, quantity, 0, 0)
         /\ Moves(c, quantity) /\ draws' = draws
<1>1. Committing(p, {"receive"})
  BY DEF ReceiveStock
<1>2. /\ j.doc \in Docs /\ Doc[j.doc].kind = "receive" /\ c \in Cells /\ seen[p][c] = balance[c]
      /\ j.orig = 0 /\ j.part = "both"
  BY <1>1, CommitFacts DEF Refers
<1>3. quantity \in Nat \ {0} /\ c = Doc[j.doc].cell
  BY <1>2, DocTypes DEF CellOf
<1> DEFINE row == Received(balance[c], quantity, j.cost)
           m == Receipt(j, c, quantity, j.cost)
<1>4. balance' = [balance EXCEPT ![c] = row] /\ movements' = Append(movements, m) /\ draws' = draws
  BY <1>2 DEF ReceiveStock
<1>5. row.onHand = balance[c].onHand + quantity
  BY <1>2 DEF Received, IInv, BalancesOK, RowOK
<1>6. Carries(m, j.doc, c, quantity, quantity, 0, 0)
  BY DEF Carries, Receipt, Movement
<1> HIDE DEF row, m
<1>7. NewAt(n) /\ movements'[n] = m /\ RowsStand
  BY <1>4, AppendShape DEF RowsStand
<1>8. Moves(c, quantity)
  BY <1>2, <1>4, <1>5, RowMoves
<1> QED BY <1>2, <1>3, <1>4, <1>6, <1>7, <1>8

LEMMA AdjustWrites ==
  ASSUME IInv, NEW p \in Procs, AdjustStock(p),
         NEW j, j = job[p], NEW c, c = CellOf(j), NEW delta, delta = Doc[j.doc].qty,
         NEW n, n = Len(movements) + 1
  PROVE  /\ delta \in Int /\ c \in Cells /\ j.doc \in Docs
         /\ Doc[j.doc].kind = "adjust" /\ c = Doc[j.doc].cell
         /\ NewAt(n) /\ RowsStand
         /\ Carries(movements'[n], j.doc, c, delta, IF delta > 0 THEN delta ELSE 0, 0, 0)
         /\ Moves(c, delta) /\ draws' = draws
<1>1. Committing(p, {"adjust"})
  BY DEF AdjustStock
<1>2. /\ j.doc \in Docs /\ Doc[j.doc].kind = "adjust" /\ c \in Cells /\ seen[p][c] = balance[c]
      /\ j.orig = 0 /\ j.part = "both"
  BY <1>1, CommitFacts DEF Refers
<1>3. delta \in Int /\ c = Doc[j.doc].cell
  BY <1>2, DocTypes DEF CellOf
<1> DEFINE row == IF delta > 0 THEN Received(balance[c], delta, j.cost)
                               ELSE Issued(balance[c], -delta)
           m == IF delta > 0 THEN Receipt(j, c, delta, j.cost)
                             ELSE Movement(j, c, delta, balance[c].avg)
<1>4. balance' = [balance EXCEPT ![c] = row] /\ movements' = Append(movements, m) /\ draws' = draws
  BY <1>2 DEF AdjustStock
<1>5. row.onHand = balance[c].onHand + delta
  <2>1. RowOK(balance[c])
    BY <1>2 DEF IInv, BalancesOK
  <2>2. Received(balance[c], delta, j.cost).onHand = balance[c].onHand + delta
    BY <2>1 DEF Received, RowOK
  <2>3. Issued(balance[c], -delta).onHand = balance[c].onHand - (-delta)
    BY <2>1 DEF Issued, RowOK
  <2>4. balance[c].onHand - (-delta) = balance[c].onHand + delta
    BY <1>3, <2>1 DEF RowOK
  <2> QED BY <2>2, <2>3, <2>4
<1>6. Carries(m, j.doc, c, delta, IF delta > 0 THEN delta ELSE 0, 0, 0)
  BY DEF Carries, Receipt, Movement
<1> HIDE DEF row, m
<1>7. NewAt(n) /\ movements'[n] = m /\ RowsStand
  BY <1>4, AppendShape DEF RowsStand
<1>8. Moves(c, delta)
  BY <1>2, <1>4, <1>5, RowMoves
<1> QED BY <1>2, <1>3, <1>4, <1>6, <1>7, <1>8

LEMMA VendorReturnWrites ==
  ASSUME IInv, NEW p \in Procs, IssueVendorReturn(p),
         NEW j, j = job[p], NEW c, c = CellOf(j), NEW quantity, quantity = Doc[j.doc].qty,
         NEW n, n = Len(movements) + 1
  PROVE  /\ quantity \in Nat \ {0} /\ c \in Cells /\ j.doc \in Docs
         /\ Doc[j.doc].kind = "vendorReturn"
         /\ NewAt(n) /\ RowsStand /\ Carries(movements'[n], j.doc, c, -quantity, 0, 0, 0)
         /\ Moves(c, -quantity) /\ draws' = draws
<1>1. Committing(p, {"vendorReturn"})
  BY DEF IssueVendorReturn
<1>2. /\ j.doc \in Docs /\ Doc[j.doc].kind = "vendorReturn" /\ c \in Cells
      /\ seen[p][c] = balance[c]
  BY <1>1, CommitFacts
<1>3. quantity \in Nat \ {0}
  BY <1>2, DocTypes
<1> DEFINE row == Issued(balance[c], quantity)
           m == Movement(j, c, -quantity, j.cost)
<1>4. balance' = [balance EXCEPT ![c] = row] /\ movements' = Append(movements, m) /\ draws' = draws
  BY <1>2 DEF IssueVendorReturn
<1>5. row.onHand = balance[c].onHand + (-quantity)
  BY <1>2, <1>3 DEF Issued, IInv, BalancesOK, RowOK
<1>6. Carries(m, j.doc, c, -quantity, 0, 0, 0)
  BY DEF Carries, Movement
<1> HIDE DEF row, m
<1>7. NewAt(n) /\ movements'[n] = m /\ RowsStand
  BY <1>4, AppendShape DEF RowsStand
<1>8. Moves(c, -quantity)
  BY <1>2, <1>4, <1>5, RowMoves
<1> QED BY <1>2, <1>3, <1>4, <1>6, <1>7, <1>8

(* What an issue of document d draws from layer k of cell c.               *)
Out(d, c, k) ==
  IF Doc[d].fifo /\ k \in LayersOf(c) THEN DrawnFrom(k, c, Doc[d].qty) ELSE 0

(* The columns of an earlier movement that no verb changes.                *)
Stays(new, old) ==
  /\ new.doc = old.doc /\ new.cell = old.cell /\ new.delta = old.delta
  /\ new.reversalOf = old.reversalOf

NewDraws(d, c, n) ==
  {[issue |-> n, layer |-> k, qty |-> Out(d, c, k)]
     : k \in {l \in DOMAIN movements : Out(d, c, l) > 0}}

LEMMA IssueWrites ==
  ASSUME IInv, NEW p \in Procs, IssueStock(p),
         NEW j, j = job[p], NEW c, c = CellOf(j), NEW quantity, quantity = Doc[j.doc].qty,
         NEW n, n = Len(movements) + 1
  PROVE  /\ quantity \in Nat \ {0} /\ c \in Cells /\ j.doc \in Docs
         /\ Doc[j.doc].kind = "issue" /\ c = Doc[j.doc].cell
         /\ NewAt(n)
         /\ \A k \in DOMAIN movements :
              /\ Stays(movements'[k], movements[k])
              /\ movements'[k].left = movements[k].left - Out(j.doc, c, k)
              /\ movements'[k].lotDrawn = movements[k].lotDrawn
              /\ movements'[k].reversedBy = movements[k].reversedBy
         /\ Carries(movements'[n], j.doc, c, -quantity, 0, IF UsesLot(j) THEN quantity ELSE 0, 0)
         /\ Moves(c, -quantity)
         /\ draws' = draws \cup NewDraws(j.doc, c, n)
         /\ Doc[j.doc].fifo => LayerTotal(c) >= quantity
<1>1. Committing(p, {"issue"})
  BY DEF IssueStock
<1>2. /\ j.doc \in Docs /\ Doc[j.doc].kind = "issue" /\ c \in Cells /\ seen[p][c] = balance[c]
      /\ j.orig = 0 /\ j.part = "both"
  BY <1>1, CommitFacts DEF Refers
<1>3. quantity \in Nat \ {0} /\ c = Doc[j.doc].cell
  BY <1>2, DocTypes DEF CellOf
<1>4. Doc[j.doc].fifo => LayerTotal(c) >= quantity
  BY <1>1 DEF Committing, CanCommit
<1> DEFINE row == Issued(balance[c], quantity)
           cost == IF Doc[j.doc].fifo THEN FifoCost(c, quantity) ELSE seen[p][c].avg
           lotDrawn == IF UsesLot(j) THEN quantity ELSE 0
           m == [Movement(j, c, -quantity, cost) EXCEPT !.lotDrawn = lotDrawn]
           s == [k \in DOMAIN movements |-> [movements[k] EXCEPT !.left = @ - Out(j.doc, c, k)]]
<1>5. /\ balance' = [balance EXCEPT ![c] = row] /\ movements' = Append(s, m)
      /\ draws' = draws \cup {[issue |-> Len(movements) + 1, layer |-> k, qty |-> Out(j.doc, c, k)]
                               : k \in {l \in DOMAIN movements : Out(j.doc, c, l) > 0}}
  <2> USE DEF Out
  <2>1. balance' = [balance EXCEPT ![c] = row]
    BY <1>2 DEF IssueStock
  <2>2. movements' = Append(s, m)
    BY DEF IssueStock
  <2>3. draws' = draws \cup {[issue |-> Len(movements) + 1, layer |-> k, qty |-> Out(j.doc, c, k)]
                               : k \in {l \in DOMAIN movements : Out(j.doc, c, l) > 0}}
    BY DEF IssueStock
  <2> QED BY <2>1, <2>2, <2>3
<1>6. row.onHand = balance[c].onHand + (-quantity)
  BY <1>2, <1>3 DEF Issued, IInv, BalancesOK, RowOK
<1>7. Carries(m, j.doc, c, -quantity, 0, lotDrawn, 0)
  BY DEF Carries, Movement
<1>8. \A k \in DOMAIN movements :
        /\ DOMAIN s[k] = DOMAIN movements[k] /\ Stays(s[k], movements[k])
        /\ s[k].left = movements[k].left - Out(j.doc, c, k)
        /\ s[k].lotDrawn = movements[k].lotDrawn /\ s[k].reversedBy = movements[k].reversedBy
  <2> SUFFICES ASSUME NEW k \in DOMAIN movements
               PROVE  /\ DOMAIN s[k] = DOMAIN movements[k] /\ Stays(s[k], movements[k])
                      /\ s[k].left = movements[k].left - Out(j.doc, c, k)
                      /\ s[k].lotDrawn = movements[k].lotDrawn
                      /\ s[k].reversedBy = movements[k].reversedBy
    OBVIOUS
  <2>1. DOMAIN movements[k] = MovementFields
    BY DEF IInv, MovementsOK, MovementFields
  <2> DEFINE new == movements[k].left - Out(j.doc, c, k)
  <2>2. s[k] = [movements[k] EXCEPT !.left = new]
    OBVIOUS
  <2> HIDE DEF s, new
  <2> QED BY <2>1, <2>2 DEF Stays, MovementFields, new
<1>9. DOMAIN s = DOMAIN movements /\ Len(s) = Len(movements)
  <2>1. DOMAIN s = DOMAIN movements /\ s = [k \in DOMAIN movements |-> s[k]]
    OBVIOUS
  <2> HIDE DEF s
  <2>2. SameMovements(s)
    BY <1>8, <2>1, LosslessUpdate DEF Stays
  <2> QED BY <2>2 DEF SameMovements
<1> HIDE DEF row, m, s, lotDrawn
<1>10. NewAt(n) /\ movements'[n] = m /\ \A k \in DOMAIN movements : movements'[k] = s[k]
  BY <1>5, <1>9, AppendShape
<1>11. Moves(c, -quantity)
  BY <1>2, <1>5, <1>6, RowMoves
<1>12. draws' = draws \cup NewDraws(j.doc, c, n)
  BY <1>5 DEF NewDraws
<1> QED BY <1>2, <1>3, <1>4, <1>7, <1>8, <1>10, <1>11, <1>12 DEF lotDrawn

(* What a reversal of movement o gives back to layer k, and the rows that  *)
(* it leaves.                                                              *)
GivenIn(rows, o, k) == DrawnBy({row \in rows : row.issue = o /\ row.layer = k})
GivenBack(o, k)     == GivenIn(draws, o, k)
Kept(rows, o)       == {row \in rows : row.issue # o}

LEMMA ReverseWrites ==
  ASSUME IInv, NEW p \in Procs, ReverseMovement(p),
         NEW j, j = job[p], NEW c, c = CellOf(j), NEW o, o = j.orig,
         NEW delta, delta = movements[o].delta, NEW n, n = Len(movements) + 1
  PROVE  /\ delta \in Int /\ c \in Cells /\ j.doc \in Docs
         /\ Doc[j.doc].kind = "reverse" /\ Fresh(j.doc)
         /\ o \in DOMAIN movements /\ movements[o].cell = c
         /\ NewAt(n)
         /\ \A k \in DOMAIN movements :
              /\ Stays(movements'[k], movements[k])
              /\ movements'[k].left = movements[k].left + GivenBack(o, k)
              /\ movements'[k].lotDrawn = IF k = o /\ UsesLot(j) THEN 0 ELSE movements[k].lotDrawn
              /\ movements'[k].reversedBy = IF k = o THEN n ELSE movements[k].reversedBy
         /\ Carries(movements'[n], j.doc, c, -delta, 0, 0, o)
         /\ Moves(c, -delta)
         /\ draws' = Kept(draws, o)
<1>1. Committing(p, {"reverse"})
  BY DEF ReverseMovement
<1>2. /\ j.doc \in Docs /\ Doc[j.doc].kind = "reverse" /\ c \in Cells /\ seen[p][c] = balance[c]
      /\ o \in DOMAIN movements /\ Fresh(j.doc)
  BY <1>1, CommitFacts DEF Refers
<1>3. Len(movements) \in Nat /\ DOMAIN movements = 1..Len(movements)
  BY DEF IInv, MovementsOK
<1>4. delta \in Int /\ movements[o].cell = c
  BY <1>2, <1>3 DEF CellOf, IInv, MovementsOK
<1> DEFINE row == [balance[c] EXCEPT !.onHand = @ - delta,
                                     !.avg = NewAverage(balance[c], -delta, j.cost)]
           lotDrawn(k) == IF k = o /\ UsesLot(j) THEN 0 ELSE movements[k].lotDrawn
           m == [Movement(j, c, -delta, j.cost) EXCEPT !.reversalOf = o]
           linked(k) == IF k = o
                        THEN [Restored(k, o) EXCEPT !.reversedBy = n,
                                !.lotDrawn = IF UsesLot(j) THEN 0 ELSE @]
                        ELSE Restored(k, o)
           s == [k \in DOMAIN movements |-> linked(k)]
<1>5. balance' = [balance EXCEPT ![c] = row] /\ movements' = Append(s, m)
      /\ draws' = Kept(draws, o)
  BY <1>2 DEF ReverseMovement, Kept
<1>6. row.onHand = balance[c].onHand + (-delta)
  BY <1>2, <1>4 DEF IInv, BalancesOK, RowOK
<1>7. Carries(m, j.doc, c, -delta, 0, 0, o)
  BY DEF Carries, Movement
<1>8. \A k \in DOMAIN movements :
        /\ DOMAIN s[k] = DOMAIN movements[k] /\ Stays(s[k], movements[k])
        /\ s[k].left = movements[k].left + GivenBack(o, k)
        /\ s[k].lotDrawn = lotDrawn(k)
        /\ s[k].reversedBy = IF k = o THEN n ELSE movements[k].reversedBy
  <2> SUFFICES ASSUME NEW k \in DOMAIN movements
               PROVE  /\ DOMAIN s[k] = DOMAIN movements[k] /\ Stays(s[k], movements[k])
                      /\ s[k].left = movements[k].left + GivenBack(o, k)
                      /\ s[k].lotDrawn = lotDrawn(k)
                      /\ s[k].reversedBy = IF k = o THEN n ELSE movements[k].reversedBy
    OBVIOUS
  <2>1. DOMAIN movements[k] = MovementFields
    BY DEF IInv, MovementsOK, MovementFields
  <2> DEFINE new == movements[k].left + GivenBack(o, k)
             r == Restored(k, o)
             drawn == IF UsesLot(j) THEN 0 ELSE movements[k].lotDrawn
  <2>2. r = [movements[k] EXCEPT !.left = new]
    BY DEF Restored, GivenBack, GivenIn
  <2>3. r.lotDrawn = movements[k].lotDrawn
    <3> HIDE DEF r, new
    <3> QED BY <2>1, <2>2 DEF MovementFields
  <2>4. s[k] = IF k = o THEN [r EXCEPT !.reversedBy = n, !.lotDrawn = drawn] ELSE r
    BY <2>3
  <2> HIDE DEF s, new, r, drawn
  <2>5. CASE k # o
    BY <2>1, <2>2, <2>4, <2>5 DEF Stays, MovementFields, new
  <2>6. CASE k = o
    <3>1. s[k] = [r EXCEPT !.reversedBy = n, !.lotDrawn = drawn]
      BY <2>4, <2>6
    <3>2. drawn = lotDrawn(k)
      BY <2>6 DEF drawn
    <3> HIDE DEF lotDrawn
    <3>3. s[k].lotDrawn = drawn /\ s[k].reversedBy = n /\ s[k].left = new
          /\ DOMAIN s[k] = DOMAIN movements[k]
      BY <2>1, <2>2, <3>1 DEF MovementFields
    <3>4. Stays(s[k], movements[k])
      BY <2>1, <2>2, <3>1 DEF MovementFields, Stays
    <3> QED BY <2>6, <3>2, <3>3, <3>4 DEF new
  <2> QED BY <2>5, <2>6
<1>9. DOMAIN s = DOMAIN movements /\ Len(s) = Len(movements)
  <2>1. DOMAIN s = DOMAIN movements /\ s = [k \in DOMAIN movements |-> s[k]]
    OBVIOUS
  <2> HIDE DEF s
  <2>2. SameMovements(s)
    BY <1>8, <2>1, LosslessUpdate DEF Stays
  <2> QED BY <2>2 DEF SameMovements
<1> HIDE DEF row, m, s
<1>10. NewAt(n) /\ movements'[n] = m /\ \A k \in DOMAIN movements : movements'[k] = s[k]
  BY <1>5, <1>9, AppendShape
<1>11. Moves(c, -delta)
  BY <1>2, <1>5, <1>6, RowMoves
<1>12. Carries(movements'[n], j.doc, c, -delta, 0, 0, o)
  BY <1>7, <1>10
<1>13. \A k \in DOMAIN movements :
         /\ Stays(movements'[k], movements[k])
         /\ movements'[k].left = movements[k].left + GivenBack(o, k)
         /\ movements'[k].lotDrawn = IF k = o /\ UsesLot(j) THEN 0 ELSE movements[k].lotDrawn
         /\ movements'[k].reversedBy = IF k = o THEN n ELSE movements[k].reversedBy
  BY <1>8, <1>10
<1> QED BY <1>2, <1>4, <1>5, <1>10, <1>11, <1>12, <1>13

TransferRows(d, c, quantity, to, made, n, o) ==
  /\ quantity \in Nat \ {0} /\ made \in Nat \ {0} /\ d \in Docs
  /\ c \in Cells /\ to \in Cells /\ to # c /\ c = Doc[d].cell /\ to = Doc[d].to
  /\ Doc[d].kind \in {"transfer", "build"}
  /\ n \notin DOMAIN movements /\ o \notin DOMAIN movements /\ n # o
  /\ DOMAIN movements' = DOMAIN movements \cup {n, o} /\ RowsStand
  /\ Carries(movements'[n], d, c, -quantity, 0, 0, 0)
  /\ Carries(movements'[o], d, to, made, made, 0, 0)
  /\ MovesBoth(c, quantity, to, made)
  /\ draws' = draws

LEMMA TransferWrites ==
  ASSUME IInv, NEW p \in Procs, TransferStock(p)
  PROVE  \E c, quantity, to, made, n, o : TransferRows(job[p].doc, c, quantity, to, made, n, o)
<1>0. PICK j, c, quantity, to, made, n, o :
        /\ j = job[p] /\ c = CellOf(j) /\ quantity = Doc[j.doc].qty
        /\ to = Doc[j.doc].to /\ made = LegMade(j)
        /\ n = Len(movements) + 1 /\ o = Len(movements) + 2
  OBVIOUS
<1>1. Committing(p, {"transfer", "build"})
  BY DEF TransferStock
<1>2. /\ j.doc \in Docs /\ Doc[j.doc].kind \in {"transfer", "build"}
      /\ c \in Cells /\ seen[p][c] = balance[c] /\ j.orig = 0
      /\ to \in Cells /\ to # c /\ seen[p][to] = balance[to]
  <2>1. j.part = "both"
    BY <1>0 DEF TransferStock
  <2> QED BY <1>0, <1>1, <2>1, CommitFacts DEF Refers, TwoLegs
<1>3. quantity \in Nat \ {0} /\ made \in Nat \ {0} /\ c = Doc[j.doc].cell
  <2>1. j.part = "both"
    BY <1>0 DEF TransferStock
  <2> QED BY <1>0, <1>2, <2>1, DocTypes DEF CellOf, LegMade
<1> DEFINE out == Issued(balance[c], quantity)
           in == Received(balance[to], made, LegCost(p))
           a == Movement(j, c, -quantity, balance[c].avg)
           b == Receipt(j, to, made, LegCost(p))
<1>4. /\ balance' = [balance EXCEPT ![c] = out, ![to] = in]
      /\ movements' = movements \o <<a, b>> /\ draws' = draws
  BY <1>0, <1>2 DEF TransferStock
<1>5. /\ Carries(a, j.doc, c, -quantity, 0, 0, 0)
      /\ Carries(b, j.doc, to, made, made, 0, 0)
  BY DEF Carries, Movement, Receipt
<1>6. RowOK(balance[c]) /\ RowOK(balance[to]) /\ DOMAIN balance = Cells
  BY <1>2 DEF IInv, BalancesOK
<1>7. out.onHand = balance[c].onHand - quantity /\ in.onHand = balance[to].onHand + made
  BY <1>6 DEF Issued, Received, RowOK
<1> HIDE DEF out, in, a, b
<1>8. \A x \in Cells : balance'[x] = IF x = c THEN out ELSE IF x = to THEN in ELSE balance[x]
  BY <1>2, <1>4, <1>6
<1>9. Len(movements) \in Nat /\ DOMAIN movements = 1..Len(movements)
  BY DEF IInv, MovementsOK
<1>10. /\ Len(movements') = Len(movements) + 2 /\ DOMAIN movements' = 1..(Len(movements) + 2)
       /\ movements'[n] = a /\ movements'[o] = b /\ RowsStand
  BY <1>0, <1>4, <1>9 DEF RowsStand
<1>11. /\ n \notin DOMAIN movements /\ o \notin DOMAIN movements /\ n # o
       /\ DOMAIN movements' = DOMAIN movements \cup {n, o}
  BY <1>0, <1>9, <1>10
<1>12. MovesBoth(c, quantity, to, made)
  BY <1>7, <1>8 DEF MovesBoth
<1>13. TransferRows(j.doc, c, quantity, to, made, n, o)
  BY <1>0, <1>2, <1>3, <1>4, <1>5, <1>10, <1>11, <1>12 DEF TransferRows
<1> QED BY <1>0, <1>13

LEMMA ShipWrites ==
  ASSUME IInv, NEW p \in Procs, ShipTransfer(p),
         NEW j, j = job[p], NEW c, c = CellOf(j), NEW quantity, quantity = Doc[j.doc].qty,
         NEW n, n = Len(movements) + 1
  PROVE  /\ quantity \in Nat \ {0} /\ c \in Cells /\ j.doc \in Docs
         /\ Doc[j.doc].kind = "transfer" /\ c = Doc[j.doc].cell
         /\ NewAt(n) /\ RowsStand /\ Carries(movements'[n], j.doc, c, -quantity, 0, 0, 0)
         /\ Moves(c, -quantity) /\ draws' = draws
<1>1. Committing(p, {"transfer"}) /\ j.part = "out"
  BY DEF ShipTransfer
<1>2. /\ j.doc \in Docs /\ Doc[j.doc].kind = "transfer" /\ c \in Cells /\ seen[p][c] = balance[c]
  BY <1>1, CommitFacts
<1>3. quantity \in Nat \ {0} /\ c = Doc[j.doc].cell
  BY <1>1, <1>2, DocTypes DEF CellOf
<1> DEFINE row == Issued(balance[c], quantity)
           m == Movement(j, c, -quantity, balance[c].avg)
<1>4. balance' = [balance EXCEPT ![c] = row] /\ movements' = Append(movements, m) /\ draws' = draws
  BY <1>2 DEF ShipTransfer
<1>5. row.onHand = balance[c].onHand + (-quantity)
  BY <1>2, <1>3 DEF Issued, IInv, BalancesOK, RowOK
<1>6. Carries(m, j.doc, c, -quantity, 0, 0, 0)
  BY DEF Carries, Movement
<1> HIDE DEF row, m
<1>7. NewAt(n) /\ movements'[n] = m /\ RowsStand
  BY <1>4, AppendShape DEF RowsStand
<1>8. Moves(c, -quantity)
  BY <1>2, <1>4, <1>5, RowMoves
<1> QED BY <1>2, <1>3, <1>4, <1>6, <1>7, <1>8

LEMMA ArriveWrites ==
  ASSUME IInv, NEW p \in Procs, ReceiveTransfer(p),
         NEW j, j = job[p], NEW c, c = CellOf(j), NEW quantity, quantity = Doc[j.doc].qty,
         NEW n, n = Len(movements) + 1
  PROVE  /\ quantity \in Nat \ {0} /\ c \in Cells /\ j.doc \in Docs
         /\ Doc[j.doc].kind = "transfer" /\ c = Doc[j.doc].to
         /\ NewAt(n) /\ RowsStand /\ Carries(movements'[n], j.doc, c, quantity, quantity, 0, 0)
         /\ Moves(c, quantity) /\ draws' = draws
<1>1. Committing(p, {"transfer"}) /\ j.part = "in"
  BY DEF ReceiveTransfer
<1>2. /\ j.doc \in Docs /\ Doc[j.doc].kind = "transfer" /\ c \in Cells /\ seen[p][c] = balance[c]
  BY <1>1, CommitFacts
<1>3. quantity \in Nat \ {0} /\ c = Doc[j.doc].to
  BY <1>1, <1>2, DocTypes DEF CellOf
<1> DEFINE row == Received(balance[c], quantity, j.cost)
           m == Receipt(j, c, quantity, j.cost)
<1>4. balance' = [balance EXCEPT ![c] = row] /\ movements' = Append(movements, m) /\ draws' = draws
  BY <1>2 DEF ReceiveTransfer
<1>5. row.onHand = balance[c].onHand + quantity
  BY <1>2 DEF Received, IInv, BalancesOK, RowOK
<1>6. Carries(m, j.doc, c, quantity, quantity, 0, 0)
  BY DEF Carries, Receipt, Movement
<1> HIDE DEF row, m
<1>7. NewAt(n) /\ movements'[n] = m /\ RowsStand
  BY <1>4, AppendShape DEF RowsStand
<1>8. Moves(c, quantity)
  BY <1>2, <1>4, <1>5, RowMoves
<1> QED BY <1>2, <1>3, <1>4, <1>6, <1>7, <1>8

LEMMA ReserveWrites ==
  ASSUME IInv, NEW p \in Procs, ReserveStock(p)
  PROVE  /\ UNCHANGED <<movements, draws, lotLeft>>
         /\ \A x \in Cells : balance'[x].onHand = balance[x].onHand
<1> DEFINE j == job[p]
           c == CellOf(j)
<1>1. Committing(p, {"reserve", "release"}) /\ UNCHANGED <<movements, draws, lotLeft>>
  BY DEF ReserveStock
<1>2. c \in Cells /\ seen[p][c] = balance[c]
  BY <1>1, CommitFacts
<1>3. PICK reserved : balance' = [balance EXCEPT ![c] = [balance[c] EXCEPT !.reserved = reserved]]
  BY <1>2 DEF ReserveStock
<1> HIDE DEF c
<1> QED BY <1>1, <1>2, <1>3 DEF IInv, BalancesOK, RowOK

-----------------------------------------------------------------------------
(* A sum over movements, after one more.                                   *)
LEMMA ColumnGrows ==
  ASSUME NEW D, IsFiniteSet(D), NEW n, n \notin D, NEW S \in SUBSET D, NEW T \in SUBSET (D \cup {n}),
         \A k \in D : k \in T <=> k \in S,
         NEW f, DOMAIN f = S, NEW g, DOMAIN g = T,
         \A k \in S : f[k] \in Int /\ g[k] = f[k], n \in T => g[n] \in Int
  PROVE  SumFunction(g) = SumFunction(f) + (IF n \in T THEN g[n] ELSE 0)
<1>1. IsFiniteSet(S) /\ n \notin S
  BY FS_Subset
<1>2. IntOn(f, S) /\ IntOn(g, S)
  BY DEF IntOn
<1>3. SumFunction(f) = SumFunctionOnSet(f, S) /\ SumFunction(g) = SumFunctionOnSet(g, T)
  BY SumFunctionIs
<1>4. CASE n \in T
  <2>1. T = S \cup {n}
    BY <1>4
  <2>2. SumFunctionOnSet(g, T) = SumFunctionOnSet(f, S) + g[n]
    <3>1. g[n] \in Int /\ \A y \in S : g[y] = f[y]
      BY <1>4
    <3>2. IntOn(f, S)
      BY <1>2
    <3> QED BY <1>1, <2>1, <3>1, <3>2, SumGrows
  <2> QED BY <1>3, <1>4, <2>2
<1>5. CASE n \notin T
  <2>1. T = S
    BY <1>5
  <2>2. SumFunctionOnSet(g, S) = SumFunctionOnSet(f, S)
    BY <1>1, <1>2, SumSame
  <2>3. SumFunctionOnSet(f, S) \in Int
    BY <1>1, <1>2, SumInt
  <2> QED BY <1>3, <1>5, <2>1, <2>2, <2>3
<1> QED BY <1>4, <1>5

LEMMA FiniteMovements == ASSUME IInv PROVE IsFiniteSet(DOMAIN movements)
<1>1. Len(movements) \in Nat /\ DOMAIN movements = 1..Len(movements)
  BY DEF IInv, MovementsOK
<1> QED BY <1>1, FS_Interval

(* The columns that a movement keeps, of movements old and new.            *)
DeltaIn(table, D, x) == SumFunction([m \in {k \in D : table[k].cell = x} |-> table[m].delta])

LEMMA CellGrows ==
  ASSUME NEW old, NEW new, NEW D, IsFiniteSet(D), NEW n, n \notin D,
         \A k \in D : Stays(new[k], old[k]) /\ old[k].delta \in Int,
         new[n].delta \in Int, NEW E, E = D \cup {n}, NEW x
  PROVE  DeltaIn(new, E, x)
           = DeltaIn(old, D, x) + (IF new[n].cell = x THEN new[n].delta ELSE 0)
<1> DEFINE S == {k \in D : old[k].cell = x}
           T == {k \in E : new[k].cell = x}
           f == [m \in S |-> old[m].delta]
           g == [m \in T |-> new[m].delta]
<1>1. S \in SUBSET D /\ T \in SUBSET (D \cup {n}) /\ \A k \in D : k \in T <=> k \in S
  BY DEF Stays
<1>2. \A k \in S : f[k] \in Int /\ g[k] = f[k]
  BY DEF Stays
<1>3. /\ n \in T <=> new[n].cell = x
      /\ n \in T => g[n] = new[n].delta
  OBVIOUS
<1>4. DOMAIN f = S /\ DOMAIN g = T
  OBVIOUS
<1>5. DeltaIn(new, E, x) = SumFunction(g) /\ DeltaIn(old, D, x) = SumFunction(f)
  BY DEF DeltaIn
<1> HIDE DEF S, T, f, g
<1>6. SumFunction(g) = SumFunction(f) + (IF n \in T THEN g[n] ELSE 0)
  BY <1>1, <1>2, <1>3, <1>4, ColumnGrows
<1> QED BY <1>3, <1>5, <1>6

CellDelta(x) == DeltaIn(movements, DOMAIN movements, x)

LEMMA CellDeltaIs == /\ \A x : DeltaOf(MovementsOf(x)) = CellDelta(x)
                     /\ \A x : DeltaOf(MovementsOf(x))' = CellDelta(x)'
BY DEF DeltaOf, MovementsOf, CellDelta, DeltaIn

LEMMA CellDeltaInt == ASSUME IInv, NEW x PROVE CellDelta(x) \in Int
<1> DEFINE S == {k \in DOMAIN movements : movements[k].cell = x}
           f == [m \in S |-> movements[m].delta]
<1>1. IsFiniteSet(S)
  BY FiniteMovements, FS_Subset
<1>2. IntOn(f, S) /\ DOMAIN f = S
  BY DEF IntOn, IInv, MovementsOK
<1>3. CellDelta(x) = SumFunction(f)
  BY DEF CellDelta, DeltaIn
<1> HIDE DEF S, f
<1> QED BY <1>1, <1>2, <1>3, SumInt, SumFunctionIs

(* One more movement moves its cell's ledger by its delta, no other's.     *)
LEMMA LedgerGrows ==
  ASSUME IInv, NEW n, NewAt(n), \A k \in DOMAIN movements : Stays(movements'[k], movements[k]),
         NEW c, NEW delta \in Int, movements'[n].cell = c, movements'[n].delta = delta, NEW x
  PROVE  CellDelta(x)' = IF x = c THEN CellDelta(x) + delta ELSE CellDelta(x)
<1>1. n \notin DOMAIN movements /\ DOMAIN movements' = DOMAIN movements \cup {n}
  BY DEF NewAt
<1>2. \A k \in DOMAIN movements : Stays(movements'[k], movements[k]) /\ movements[k].delta \in Int
  BY DEF IInv, MovementsOK
<1>3. DeltaIn(movements', DOMAIN movements', x)
        = DeltaIn(movements, DOMAIN movements, x)
          + (IF movements'[n].cell = x THEN movements'[n].delta ELSE 0)
  BY <1>1, <1>2, FiniteMovements, CellGrows
<1>4. CellDelta(x)' = DeltaIn(movements', DOMAIN movements', x)
  BY DEF CellDelta, DeltaIn
<1>5. CellDelta(x)' = CellDelta(x) + (IF c = x THEN delta ELSE 0)
  BY <1>3, <1>4 DEF CellDelta
<1> QED BY <1>5, CellDeltaInt

OnHandIs == \A x \in Cells : balance[x].onHand = CellDelta(x)

LEMMA OnHandMoves ==
  ASSUME IInv, OnHandIs, NEW n, NewAt(n),
         \A k \in DOMAIN movements : Stays(movements'[k], movements[k]),
         NEW c, NEW delta \in Int, movements'[n].cell = c, movements'[n].delta = delta,
         Moves(c, delta)
  PROVE  OnHandIs'
<1>1. \A x \in Cells : CellDelta(x)' = IF x = c THEN CellDelta(x) + delta ELSE CellDelta(x)
  BY LedgerGrows
<1> QED BY <1>1 DEF OnHandIs, Moves

LEMMA OnHandStands ==
  ASSUME OnHandIs, UNCHANGED movements,
         \A x \in Cells : balance'[x].onHand = balance[x].onHand
  PROVE  OnHandIs'
BY DEF OnHandIs, CellDelta, DeltaIn

LEMMA OnHandTransfer ==
  ASSUME IInv, OnHandIs, NEW p \in Procs, TransferStock(p)
  PROVE  OnHandIs'
<1>1. PICK c, quantity, to, made, n, o : TransferRows(job[p].doc, c, quantity, to, made, n, o)
  BY TransferWrites
<1>2. /\ quantity \in Int /\ made \in Int /\ to # c
      /\ n \notin DOMAIN movements /\ o \notin DOMAIN movements /\ n # o
      /\ DOMAIN movements' = DOMAIN movements \cup {n, o} /\ RowsStand
      /\ movements'[n].cell = c /\ movements'[n].delta = -quantity
      /\ movements'[o].cell = to /\ movements'[o].delta = made
      /\ \A x \in Cells : balance'[x].onHand = IF x = c THEN balance[x].onHand - quantity
                                                ELSE IF x = to THEN balance[x].onHand + made
                                                ELSE balance[x].onHand
  BY <1>1 DEF TransferRows, Carries, MovesBoth
<1> DEFINE D == DOMAIN movements
           E == D \cup {n}
           F == E \cup {o}
<1>3. \A k \in D : Stays(movements'[k], movements[k]) /\ movements[k].delta \in Int
  BY <1>2 DEF RowsStand, Stays, IInv, MovementsOK
<1>4. \A k \in E : Stays(movements'[k], movements'[k]) /\ movements'[k].delta \in Int
  BY <1>2, <1>3 DEF Stays
<1>5. IsFiniteSet(D) /\ IsFiniteSet(E)
  BY FiniteMovements, FS_AddElement
<1>6. DOMAIN movements' = F
  BY <1>2
<1>7. o \notin E /\ n \notin D
  BY <1>2
<1> HIDE DEF E, F
<1>8. E = D \cup {n} /\ F = E \cup {o}
  BY DEF E, F
<1>9. SUFFICES ASSUME NEW x \in Cells PROVE balance'[x].onHand = CellDelta(x)'
  BY DEF OnHandIs
<1>10. DeltaIn(movements', E, x) = DeltaIn(movements, D, x) + (IF c = x THEN -quantity ELSE 0)
  <2>1. movements'[n].delta \in Int
    BY <1>2
  <2>2. DeltaIn(movements', E, x)
          = DeltaIn(movements, D, x) + (IF movements'[n].cell = x THEN movements'[n].delta ELSE 0)
    BY <1>3, <1>5, <1>7, <1>8, <2>1, CellGrows
  <2> QED BY <1>2, <2>2
<1>11. DeltaIn(movements', F, x) = DeltaIn(movements', E, x) + (IF to = x THEN made ELSE 0)
  <2>1. movements'[o].delta \in Int
    BY <1>2
  <2>2. DeltaIn(movements', F, x)
          = DeltaIn(movements', E, x) + (IF movements'[o].cell = x THEN movements'[o].delta ELSE 0)
    <3>1. PICK t : t = movements'
      OBVIOUS
    <3>2. /\ \A k \in E : Stays(t[k], t[k]) /\ t[k].delta \in Int
          /\ t[o].delta \in Int /\ F = E \cup {o}
      BY <1>4, <1>8, <2>1, <3>1
    <3>3. DeltaIn(t, F, x) = DeltaIn(t, E, x) + (IF t[o].cell = x THEN t[o].delta ELSE 0)
      BY <1>5, <1>7, <3>2, CellGrows
    <3> QED BY <3>1, <3>3
  <2> QED BY <1>2, <2>2
<1>12. CellDelta(x)' = DeltaIn(movements', F, x)
  BY <1>6 DEF CellDelta, DeltaIn
<1>13. DeltaIn(movements, D, x) = balance[x].onHand /\ balance[x].onHand \in Int
  BY DEF OnHandIs, CellDelta, IInv, BalancesOK, RowOK
<1> QED BY <1>2, <1>10, <1>11, <1>12, <1>13

LEMMA OnHandCommit ==
  ASSUME IInv, OnHandIs, NEW p \in Procs, Commit(p)
  PROVE  OnHandIs'
<1> PICK j, c, quantity, n :
      j = job[p] /\ c = CellOf(j) /\ quantity = Doc[j.doc].qty /\ n = Len(movements) + 1
  OBVIOUS
<1>1. RowsStand => \A k \in DOMAIN movements : Stays(movements'[k], movements[k])
  BY DEF RowsStand, Stays
<1>2. ASSUME ReceiveStock(p) PROVE OnHandIs'
  BY <1>1, <1>2, ReceiveWrites, OnHandMoves DEF Carries
<1>3. ASSUME IssueStock(p) PROVE OnHandIs'
  <2>1. /\ quantity \in Nat /\ NewAt(n) /\ Moves(c, -quantity)
        /\ \A k \in DOMAIN movements : Stays(movements'[k], movements[k])
        /\ movements'[n].cell = c /\ movements'[n].delta = -quantity
    BY <1>3, IssueWrites DEF Carries
  <2>2. -quantity \in Int
    BY <2>1
  <2> QED BY <2>1, <2>2, OnHandMoves
<1>4. ASSUME TransferStock(p) PROVE OnHandIs'
  BY <1>4, OnHandTransfer
<1>5. ASSUME AdjustStock(p) PROVE OnHandIs'
  BY <1>1, <1>5, AdjustWrites, OnHandMoves DEF Carries
<1>6. ASSUME IssueVendorReturn(p) PROVE OnHandIs'
  <2>1. /\ quantity \in Nat /\ NewAt(n) /\ Moves(c, -quantity)
        /\ \A k \in DOMAIN movements : Stays(movements'[k], movements[k])
        /\ movements'[n].cell = c /\ movements'[n].delta = -quantity
    BY <1>1, <1>6, VendorReturnWrites DEF Carries
  <2>2. -quantity \in Int
    BY <2>1
  <2> QED BY <2>1, <2>2, OnHandMoves
<1>7. ASSUME ReverseMovement(p) PROVE OnHandIs'
  <2>1. PICK o, delta : o = j.orig /\ delta = movements[o].delta
    OBVIOUS
  <2>2. /\ delta \in Int /\ NewAt(n) /\ Moves(c, -delta)
        /\ \A k \in DOMAIN movements : Stays(movements'[k], movements[k])
        /\ movements'[n].cell = c /\ movements'[n].delta = -delta
    BY <1>7, <2>1, ReverseWrites DEF Carries
  <2>3. -delta \in Int
    BY <2>2
  <2> QED BY <2>2, <2>3, OnHandMoves
<1>8. ASSUME ReserveStock(p) PROVE OnHandIs'
  BY <1>8, ReserveWrites, OnHandStands
<1>9. ASSUME ShipTransfer(p) PROVE OnHandIs'
  <2>1. /\ quantity \in Nat /\ NewAt(n) /\ Moves(c, -quantity)
        /\ \A k \in DOMAIN movements : Stays(movements'[k], movements[k])
        /\ movements'[n].cell = c /\ movements'[n].delta = -quantity
    BY <1>1, <1>9, ShipWrites DEF Carries
  <2>2. -quantity \in Int
    BY <2>1
  <2> QED BY <2>1, <2>2, OnHandMoves
<1>10. ASSUME ReceiveTransfer(p) PROVE OnHandIs'
  BY <1>1, <1>10, ArriveWrites, OnHandMoves DEF Carries
<1> QED BY <1>2, <1>3, <1>4, <1>5, <1>6, <1>7, <1>8, <1>9, <1>10 DEF Commit

LEMMA OnHandNext ==
  ASSUME IInv, OnHandIs, [Next]_vars
  PROVE  OnHandIs'
<1>1. CASE UNCHANGED vars
  BY <1>1, OnHandStands DEF vars
<1>2. CASE Next
  <2>1. PICK p \in Procs :
          Begin(p) \/ LockBalance(p) \/ ReadLot(p) \/ Commit(p) \/ Refuse(p) \/ Crash(p)
    BY <1>2 DEF Next
  <2>2. CASE Commit(p)
    BY <2>2, OnHandCommit
  <2>3. CASE ~Commit(p)
    BY <2>1, <2>3, BeginStep, LockBalanceStep, ReadLotStep, GiveUpStep, OnHandStands
  <2> QED BY <2>2, <2>3
<1> QED BY <1>1, <1>2

LEMMA OnHandInit == Init => OnHandIs
<1> SUFFICES ASSUME Init, NEW x \in Cells PROVE balance[x].onHand = CellDelta(x)
  BY DEF OnHandIs
<1> DEFINE f == [m \in {k \in DOMAIN movements : movements[k].cell = x} |-> movements[m].delta]
<1>1. DOMAIN f = {}
  BY DEF Init
<1>2. CellDelta(x) = SumFunction(f)
  BY DEF CellDelta, DeltaIn
<1> HIDE DEF f
<1>3. SumFunction(f) = 0
  BY <1>1, SumFunctionIs, SumEmpty
<1> QED BY <1>2, <1>3 DEF Init

(* No movement is lost and no balance drifts: on hand is the sum of the    *)
(* movements of its cell, after every step of any callers.                 *)
THEOREM BalancesAreTheLedger == Spec => []OnHandIsLedger
<1>1. Init => OnHandIs
  BY OnHandInit
<1>2. IInv /\ OnHandIs /\ [Next]_vars => OnHandIs'
  BY OnHandNext
<1>3. OnHandIs => OnHandIsLedger
  BY CellDeltaIs DEF OnHandIs, OnHandIsLedger
<1> QED BY <1>1, <1>2, <1>3, Invariance, PTL DEF Spec

-----------------------------------------------------------------------------
(* The movements that a call refers to.                                    *)

(* One document at most undoes what another did.  Whether a movement is    *)
(* reversed already is read before its row is locked, so two documents     *)
(* that undo it at the same time both go on.                               *)
OneUndo ==
  \A w \in Workloads : \A d, e \in w :
    (Doc[d].kind = "reverse" /\ Doc[e].kind = "reverse" /\ Doc[d].of = Doc[e].of) => d = e

(* A reversal is its document's only movement, and undoes one of the       *)
(* document that it is for.                                                *)
LinkOK(m) ==
  /\ movements[m].doc \in brought
  /\ Doc[movements[m].doc].kind = "reverse" =>
       \A n \in DOMAIN movements : movements[n].doc = movements[m].doc => n = m
  /\ movements[m].reversalOf # 0 =>
       /\ movements[m].reversalOf \in DOMAIN movements
       /\ Doc[movements[m].doc].kind = "reverse"
       /\ Doc[movements[m].doc].of = movements[movements[m].reversalOf].doc
  /\ movements[m].reversedBy # 0 =>
       /\ movements[m].reversedBy \in DOMAIN movements
       /\ movements[movements[m].reversedBy].reversalOf = m

UndoesOK(j) ==
  j.doc # None =>
    /\ j.doc \in brought
    /\ Doc[j.doc].kind = "reverse" =>
         /\ j.orig \in DOMAIN movements
         /\ movements[j.orig].doc = Doc[j.doc].of /\ movements[j.orig].reversalOf = 0

LinksOK ==
  /\ brought \in Workloads
  /\ \A m \in DOMAIN movements : LinkOK(m)
  /\ \A p \in Procs : UndoesOK(job[p])

(* What the verbs other than a reversal leave of the ledger.               *)
Extends(d, new) ==
  /\ new \cap DOMAIN movements = {} /\ DOMAIN movements' = DOMAIN movements \cup new
  /\ \A k \in DOMAIN movements : /\ Stays(movements'[k], movements[k])
                                 /\ movements'[k].reversedBy = movements[k].reversedBy
  /\ \A n \in new : /\ movements'[n].doc = d
                     /\ movements'[n].reversalOf = 0 /\ movements'[n].reversedBy = 0

LEMMA EndJobs ==
  ASSUME IInv, LinksOK, NEW p \in Procs, End(p), DOMAIN movements \subseteq DOMAIN movements',
         \A k \in DOMAIN movements : Stays(movements'[k], movements[k])
  PROVE  brought' = brought /\ \A q \in Procs : UndoesOK(job[q])'
<1>1. /\ brought' = brought /\ \A q \in Procs \ {p} : job'[q] = job[q]
      /\ job'[p] = Idle
  BY DEF End, IInv
<1>2. SUFFICES ASSUME NEW q \in Procs PROVE UndoesOK(job[q])'
  BY <1>1
<1>3. CASE q = p
  <2>1. job'[q].doc = None
    BY <1>1, <1>3 DEF Idle
  <2> QED BY <2>1 DEF UndoesOK
<1>4. CASE q # p
  BY <1>1, <1>4 DEF LinksOK, UndoesOK, Stays
<1> QED BY <1>3, <1>4

LEMMA LinksExtend ==
  ASSUME IInv, LinksOK, 0 \notin DOMAIN movements, NEW p \in Procs, End(p), NEW d \in brought,
         Doc[d].kind # "reverse", NEW new, Extends(d, new)
  PROVE  LinksOK'
<1>1. brought' = brought /\ \A q \in Procs : UndoesOK(job[q])'
  BY EndJobs DEF Extends
<1>2. SUFFICES ASSUME NEW m \in DOMAIN movements' PROVE LinkOK(m)'
  BY <1>1 DEF LinksOK
<1>3. CASE m \in new
  BY <1>1, <1>3 DEF Extends, LinkOK
<1>4. CASE m \in DOMAIN movements
  <2>1. LinkOK(m)
    BY <1>4 DEF LinksOK
  <2>2. Stays(movements'[m], movements[m]) /\ movements'[m].reversedBy = movements[m].reversedBy
    BY <1>4 DEF Extends
  <2>3. Doc[movements'[m].doc].kind = "reverse" =>
          \A n \in DOMAIN movements' : movements'[n].doc = movements'[m].doc => n = m
    BY <2>1, <2>2 DEF Extends, LinkOK, Stays
  <2>4. movements'[m].reversalOf # 0 =>
          /\ movements'[m].reversalOf \in DOMAIN movements'
          /\ Doc[movements'[m].doc].kind = "reverse"
          /\ Doc[movements'[m].doc].of = movements'[movements'[m].reversalOf].doc
    BY <2>1, <2>2 DEF Extends, LinkOK, Stays
  <2>5. movements'[m].reversedBy # 0 =>
          /\ movements'[m].reversedBy \in DOMAIN movements'
          /\ movements'[movements'[m].reversedBy].reversalOf = m
    BY <2>1, <2>2 DEF Extends, LinkOK, Stays
  <2> QED BY <1>1, <2>1, <2>2, <2>3, <2>4, <2>5 DEF LinkOK, Stays
<1> QED BY <1>3, <1>4 DEF Extends

LEMMA OneExtends ==
  ASSUME IInv, NEW n, NewAt(n), NEW d, NEW c, NEW delta, NEW left, NEW drawn,
         Carries(movements'[n], d, c, delta, left, drawn, 0),
         \A k \in DOMAIN movements : /\ Stays(movements'[k], movements[k])
                                     /\ movements'[k].reversedBy = movements[k].reversedBy
  PROVE  \E new : Extends(d, new)
<1>1. Extends(d, {n})
  BY DEF Extends, NewAt, Carries
<1> QED BY <1>1

LEMMA ZeroIsNone == IInv => 0 \notin DOMAIN movements
<1> SUFFICES ASSUME IInv PROVE 0 \notin DOMAIN movements
  OBVIOUS
<1>1. Len(movements) \in Nat /\ DOMAIN movements = 1..Len(movements)
  BY DEF IInv, MovementsOK
<1> QED BY <1>1

(* The movement that a reversal undoes is not reversed yet, when it        *)
(* commits: the one that undid it would be of the same document.           *)
LEMMA NotReversedYet ==
  ASSUME OneUndo, LinksOK, 0 \notin DOMAIN movements, NEW j, j.doc # None, UndoesOK(j), Doc[j.doc].kind = "reverse",
         Fresh(j.doc)
  PROVE  movements[j.orig].reversedBy = 0
<1> SUFFICES ASSUME movements[j.orig].reversedBy # 0 PROVE FALSE
  OBVIOUS
<1>1. PICK o, m : o = j.orig /\ m = movements[o].reversedBy
  OBVIOUS
<1>2. o \in DOMAIN movements /\ j.doc \in brought /\ movements[o].doc = Doc[j.doc].of
  BY <1>1 DEF UndoesOK
<1>3. m \in DOMAIN movements /\ movements[m].reversalOf = o
  BY <1>1, <1>2 DEF LinksOK, LinkOK
<1>4. /\ movements[m].doc \in brought /\ Doc[movements[m].doc].kind = "reverse"
      /\ Doc[movements[m].doc].of = movements[o].doc
  BY <1>2, <1>3 DEF LinksOK, LinkOK
<1>5. movements[m].doc = j.doc
  BY <1>2, <1>4 DEF OneUndo, LinksOK
<1> QED BY <1>3, <1>5 DEF Fresh, Keyed, Booked

LEMMA LinksReverse ==
  ASSUME IInv, LinksOK, NEW p \in Procs, End(p), NEW j, j = job[p], j.doc \in Docs,
         Doc[j.doc].kind = "reverse", Fresh(j.doc),
         NEW o, o = j.orig, NEW n, NewAt(n), 0 \notin DOMAIN movements,
         movements[o].reversedBy = 0,
         \A k \in DOMAIN movements :
           /\ Stays(movements'[k], movements[k])
           /\ movements'[k].reversedBy = IF k = o THEN n ELSE movements[k].reversedBy,
         movements'[n].doc = j.doc, movements'[n].reversalOf = o, movements'[n].reversedBy = 0
  PROVE  LinksOK'
<1>1. brought' = brought /\ \A q \in Procs : UndoesOK(job[q])'
  BY EndJobs DEF NewAt
<1>2. /\ j.doc \in brought /\ o \in DOMAIN movements
      /\ movements[o].doc = Doc[j.doc].of /\ movements[o].reversalOf = 0
  BY StockAssumption DEF LinksOK, UndoesOK
<1>3. \A k \in DOMAIN movements : movements[k].doc # j.doc
  BY DEF Fresh, Keyed, Booked
<1>4. DOMAIN movements' = DOMAIN movements \cup {n} /\ n \notin DOMAIN movements
  BY DEF NewAt
<1>5. SUFFICES ASSUME NEW m \in DOMAIN movements' PROVE LinkOK(m)'
  BY <1>1 DEF LinksOK
<1>6. CASE m = n
  BY <1>1, <1>2, <1>3, <1>4, <1>6 DEF LinkOK, Stays
<1>7. CASE m \in DOMAIN movements
  <2>1. LinkOK(m) /\ Stays(movements'[m], movements[m])
    BY <1>7 DEF LinksOK
  <2>2. Doc[movements'[m].doc].kind = "reverse" =>
          \A k \in DOMAIN movements' : movements'[k].doc = movements'[m].doc => k = m
    BY <1>3, <1>4, <1>7, <2>1 DEF LinkOK, Stays
  <2>3. movements'[m].reversalOf # 0 =>
          /\ movements'[m].reversalOf \in DOMAIN movements'
          /\ Doc[movements'[m].doc].kind = "reverse"
          /\ Doc[movements'[m].doc].of = movements'[movements'[m].reversalOf].doc
    BY <1>4, <2>1 DEF LinkOK, Stays
  <2>4. movements'[m].reversedBy # 0 =>
          /\ movements'[m].reversedBy \in DOMAIN movements'
          /\ movements'[movements'[m].reversedBy].reversalOf = m
    BY <1>4, <1>7, <2>1 DEF LinkOK, Stays
  <2> QED BY <1>1, <2>1, <2>2, <2>3, <2>4 DEF LinkOK, Stays
<1> QED BY <1>4, <1>6, <1>7

LEMMA LinksCommit ==
  ASSUME OneUndo, IInv, LinksOK, NEW p \in Procs, Commit(p)
  PROVE  LinksOK'
<1> PICK j, c, quantity, n :
      j = job[p] /\ c = CellOf(j) /\ quantity = Doc[j.doc].qty /\ n = Len(movements) + 1
  OBVIOUS
<1>1. 0 \notin DOMAIN movements
  BY ZeroIsNone
<1>2. RowsStand => \A k \in DOMAIN movements : /\ Stays(movements'[k], movements[k])
                                               /\ movements'[k].reversedBy = movements[k].reversedBy
  BY DEF RowsStand, Stays
<1>3. /\ End(p) /\ j.doc \in Docs /\ j.doc \in brought /\ UndoesOK(j)
      /\ Doc[j.doc].kind = "reverse" => Fresh(j.doc)
  <2>1. PICK kinds : Committing(p, kinds)
    <3>1. IssueStock(p) => Committing(p, {"issue"})
      BY DEF IssueStock
    <3>2. ReverseMovement(p) => Committing(p, {"reverse"})
      BY DEF ReverseMovement
    <3> QED BY <3>1, <3>2 DEF Commit, ReceiveStock, TransferStock, ShipTransfer, ReceiveTransfer,
              AdjustStock, IssueVendorReturn, ReserveStock
  <2>2. End(p) /\ j.doc \in Docs /\ (Doc[j.doc].kind = "reverse" => Fresh(j.doc))
    BY <2>1, CommitFacts
  <2> QED BY <2>2, StockAssumption DEF LinksOK, UndoesOK
<1>4. ASSUME Doc[j.doc].kind # "reverse", \E new : Extends(j.doc, new) PROVE LinksOK'
  BY <1>1, <1>3, <1>4, LinksExtend
<1>5. ASSUME ReceiveStock(p) PROVE LinksOK'
  <2>1. /\ Doc[j.doc].kind = "receive" /\ NewAt(n) /\ RowsStand
        /\ Carries(movements'[n], j.doc, c, quantity, quantity, 0, 0)
    BY <1>5, ReceiveWrites
  <2> QED BY <1>2, <1>4, <2>1, OneExtends
<1>6. ASSUME IssueStock(p) PROVE LinksOK'
  <2>1. /\ Doc[j.doc].kind = "issue" /\ NewAt(n)
        /\ \A k \in DOMAIN movements : /\ Stays(movements'[k], movements[k])
                                       /\ movements'[k].reversedBy = movements[k].reversedBy
        /\ Carries(movements'[n], j.doc, c, -quantity, 0, IF UsesLot(j) THEN quantity ELSE 0, 0)
    BY <1>6, IssueWrites
  <2> QED BY <1>4, <2>1, OneExtends
<1>7. ASSUME TransferStock(p) PROVE LinksOK'
  <2>1. PICK from, out, to, made, x, o : TransferRows(j.doc, from, out, to, made, x, o)
    BY <1>7, TransferWrites
  <2>2. Extends(j.doc, {x, o}) /\ Doc[j.doc].kind # "reverse"
    BY <1>2, <2>1 DEF TransferRows, Extends, Carries
  <2> QED BY <1>4, <2>2
<1>8. ASSUME AdjustStock(p) PROVE LinksOK'
  <2>1. /\ Doc[j.doc].kind = "adjust" /\ NewAt(n) /\ RowsStand
        /\ \E left : Carries(movements'[n], j.doc, c, quantity, left, 0, 0)
    BY <1>8, AdjustWrites
  <2> QED BY <1>2, <1>4, <2>1, OneExtends
<1>9. ASSUME IssueVendorReturn(p) PROVE LinksOK'
  <2>1. /\ Doc[j.doc].kind = "vendorReturn" /\ NewAt(n) /\ RowsStand
        /\ Carries(movements'[n], j.doc, c, -quantity, 0, 0, 0)
    BY <1>9, VendorReturnWrites
  <2> QED BY <1>2, <1>4, <2>1, OneExtends
<1>10. ASSUME ReverseMovement(p) PROVE LinksOK'
  <2>1. PICK o, delta : o = j.orig /\ delta = movements[o].delta
    OBVIOUS
  <2>2. /\ Doc[j.doc].kind = "reverse" /\ NewAt(n)
        /\ \A k \in DOMAIN movements :
             /\ Stays(movements'[k], movements[k])
             /\ movements'[k].reversedBy = IF k = o THEN n ELSE movements[k].reversedBy
        /\ Carries(movements'[n], j.doc, c, -delta, 0, 0, o)
    BY <1>10, <2>1, ReverseWrites
  <2>3. movements[o].reversedBy = 0
    BY <1>1, <1>3, <2>1, <2>2, NotReversedYet, StockAssumption
  <2>4. movements'[n].doc = j.doc /\ movements'[n].reversalOf = o /\ movements'[n].reversedBy = 0
    BY <2>2 DEF Carries
  <2> QED BY <1>1, <1>3, <2>1, <2>2, <2>3, <2>4, LinksReverse
<1>11. ASSUME ReserveStock(p) PROVE LinksOK'
  <2>1. UNCHANGED movements
    BY <1>11, ReserveWrites
  <2>2. \A k \in DOMAIN movements : Stays(movements'[k], movements[k])
    BY <2>1 DEF Stays
  <2>3. brought' = brought /\ \A q \in Procs : UndoesOK(job[q])'
    BY <1>3, <2>1, <2>2, EndJobs
  <2> QED BY <2>1, <2>3 DEF LinksOK, LinkOK
<1>12. ASSUME ShipTransfer(p) PROVE LinksOK'
  <2>1. /\ Doc[j.doc].kind = "transfer" /\ NewAt(n) /\ RowsStand
        /\ Carries(movements'[n], j.doc, c, -quantity, 0, 0, 0)
    BY <1>12, ShipWrites
  <2> QED BY <1>2, <1>4, <2>1, OneExtends
<1>13. ASSUME ReceiveTransfer(p) PROVE LinksOK'
  <2>1. /\ Doc[j.doc].kind = "transfer" /\ NewAt(n) /\ RowsStand
        /\ Carries(movements'[n], j.doc, c, quantity, quantity, 0, 0)
    BY <1>13, ArriveWrites
  <2> QED BY <1>2, <1>4, <2>1, OneExtends
<1> QED BY <1>5, <1>6, <1>7, <1>8, <1>9, <1>10, <1>11, <1>12, <1>13 DEF Commit

LEMMA LinksNext ==
  ASSUME OneUndo, IInv, LinksOK, [Next]_vars
  PROVE  LinksOK'
<1>1. ASSUME UNCHANGED <<movements, brought>>, \A p \in Procs : UndoesOK(job[p])'
      PROVE  LinksOK'
  BY <1>1 DEF LinksOK, LinkOK
<1>2. CASE UNCHANGED vars
  BY <1>1, <1>2 DEF vars, LinksOK, UndoesOK
<1>3. ASSUME NEW p \in Procs, Begin(p) PROVE LinksOK'
  <2>1. PICK d, part, orig, cost :
          /\ d \in brought /\ Start(p, Call(d, part, orig, cost))
          /\ Doc[d].kind = "reverse" => /\ orig \in DOMAIN movements
                                        /\ movements[orig].doc = Doc[d].of
                                        /\ movements[orig].reversalOf = 0
    BY <1>3 DEF Begin, BeginReceive, BeginIssue, BeginTransfer, BeginShipment, BeginArrival,
                BeginAdjust, BeginReverse, BeginVendorReturn, BeginReserve
  <2>2. /\ UNCHANGED <<movements, brought>> /\ \A q \in Procs \ {p} : job'[q] = job[q]
        /\ job'[p].doc = d /\ job'[p].orig = orig
    BY <2>1 DEF Start, Call, tables, IInv
  <2> QED BY <1>1, <2>1, <2>2 DEF LinksOK, UndoesOK
<1>4. ASSUME NEW p \in Procs, LockBalance(p) \/ ReadLot(p) \/ Refuse(p) \/ Crash(p) PROVE LinksOK'
  <2>1. UNCHANGED <<movements, brought>>
    BY <1>4 DEF LockBalance, ReadLot, Refuse, Crash, End, tables
  <2>2. \A q \in Procs \ {p} : job'[q] = job[q]
    BY <1>4 DEF LockBalance, ReadLot, Refuse, Crash, End, IInv
  <2>3. job'[p].doc = None \/ (job'[p].doc = job[p].doc /\ job'[p].orig = job[p].orig)
    BY <1>4 DEF LockBalance, ReadLot, Refuse, Crash, End, IInv, Idle, JobOK
  <2> QED BY <1>1, <2>1, <2>2, <2>3 DEF LinksOK, UndoesOK
<1>5. ASSUME NEW p \in Procs, Commit(p) PROVE LinksOK'
  BY <1>5, LinksCommit
<1> QED BY <1>2, <1>3, <1>4, <1>5 DEF Next

LEMMA LinksInit == Init => LinksOK
<1> SUFFICES ASSUME Init PROVE LinksOK
  OBVIOUS
<1>1. DOMAIN movements = {} /\ brought \in Workloads
  BY DEF Init
<1>2. \A p \in Procs : job[p].doc = None
  BY DEF Init, Idle
<1> QED BY <1>1, <1>2 DEF LinksOK, UndoesOK

LEMMA LinksReversedOnce ==
  ASSUME OneUndo, LinksOK
  PROVE  ReversedOnce
<1> SUFFICES ASSUME NEW m \in DOMAIN movements, NEW n \in DOMAIN movements,
                    movements[m].reversalOf # 0,
                    movements[m].reversalOf = movements[n].reversalOf
             PROVE  m = n
  BY DEF ReversedOnce
<1>1. /\ movements[m].doc \in brought /\ movements[n].doc \in brought
      /\ Doc[movements[m].doc].kind = "reverse" /\ Doc[movements[n].doc].kind = "reverse"
      /\ Doc[movements[m].doc].of = Doc[movements[n].doc].of
  BY DEF LinksOK, LinkOK
<1>2. movements[m].doc = movements[n].doc
  BY <1>1 DEF OneUndo, LinksOK
<1> QED BY <1>1, <1>2 DEF LinksOK, LinkOK

(* No movement is undone twice, when one document at most is to undo it:   *)
(* however many calls repeat that document, one of them books it.          *)
THEOREM NoDoubleReversal ==
  ASSUME OneUndo
  PROVE  Spec => []ReversedOnce
<1>1. IInv /\ LinksOK /\ [Next]_vars => LinksOK'
  BY LinksNext
<1>2. LinksOK => ReversedOnce
  BY LinksReversedOnce
<1> QED BY <1>1, <1>2, LinksInit, Invariance, PTL DEF Spec

-----------------------------------------------------------------------------
(* What a FIFO issue draws.                                                *)
Before(L, n) == {k \in L : k < n}

LEMMA BeforeGrows ==
  ASSUME NEW L, \A k \in L : k \in Nat, NEW n \in Nat
  PROVE  /\ Before(L, 0) = {} /\ n \notin Before(L, n)
         /\ n \notin L => Before(L, n + 1) = Before(L, n)
         /\ n \in L => Before(L, n + 1) = Before(L, n) \cup {n}
         /\ (\A k \in L : k <= n) => Before(L, n + 1) = L
<1>1. \A k \in L : k < n + 1 <=> k < n \/ k = n
  OBVIOUS
<1>2. \A k \in L : ~(k < 0)
  OBVIOUS
<1>3. Before(L, 0) = {}
  BY <1>2 DEF Before
<1>4. ~(n < n)
  OBVIOUS
<1>5. n \notin Before(L, n)
  BY <1>4 DEF Before
<1>6. n \notin L => Before(L, n + 1) = Before(L, n)
  BY <1>1 DEF Before
<1>7. n \in L => Before(L, n + 1) = Before(L, n) \cup {n}
  BY <1>1 DEF Before
<1>8. (\A k \in L : k <= n) => Before(L, n + 1) = L
  <2>1. (\A k \in L : k <= n) => \A k \in L : k < n + 1
    OBVIOUS
  <2> QED BY <2>1 DEF Before
<1> QED BY <1>3, <1>5, <1>6, <1>7, <1>8

(* What a layer of `left' gives to an issue that still wants `wanted'.     *)
Taken(wanted, left) == IF wanted <= 0 THEN 0 ELSE IF wanted >= left THEN left ELSE wanted

(* The layers, oldest first, give no more than what is asked.              *)
LEMMA FifoDraws ==
  ASSUME NEW bound \in Nat, NEW L \in SUBSET (1..bound), NEW left, NatOn(left, L),
         NEW quantity \in Nat, NEW drawn,
         \A m \in L : drawn[m] = Taken(quantity - SumFunctionOnSet(left, Before(L, m)), left[m])
  PROVE  NatOn(drawn, L) /\ SumFunctionOnSet(drawn, L) <= quantity
<1> DEFINE All(n) == SumFunctionOnSet(left, Before(L, n))
           Sum(n) == SumFunctionOnSet(drawn, Before(L, n))
           G == {n \in Nat : Sum(n) \in Nat /\ All(n) \in Nat
                              /\ Sum(n) = IF All(n) <= quantity THEN All(n) ELSE quantity}
<1>0. \A k \in L : k \in Nat /\ k > 0 /\ k <= bound
  OBVIOUS
<1>1. ASSUME NEW n PROVE IsFiniteSet(Before(L, n)) /\ Before(L, n) \subseteq L
  <2>1. IsFiniteSet(1..bound)
    BY FS_Interval
  <2> QED BY <2>1, FS_Subset DEF Before
<1>2. ASSUME NEW n PROVE All(n) \in Nat
  <2>1. NatOn(left, Before(L, n))
    BY <1>1 DEF NatOn
  <2> QED BY <1>1, <2>1, SumNat
<1>3. NatOn(drawn, L)
  <2> SUFFICES ASSUME NEW m \in L PROVE drawn[m] \in Nat
    BY DEF NatOn
  <2>1. All(m) \in Nat /\ left[m] \in Nat /\ drawn[m] = Taken(quantity - All(m), left[m])
    BY <1>2 DEF NatOn
  <2> HIDE DEF All
  <2> QED BY <2>1 DEF Taken
<1>4. 0 \in G
  <2>1. Before(L, 0) = {}
    BY <1>0, BeforeGrows
  <2> QED BY <2>1, SumEmpty
<1>5. ASSUME NEW n \in Nat, n \in G PROVE n + 1 \in G
  <2>1. CASE n \notin L
    <3>1. Before(L, n + 1) = Before(L, n)
      BY <1>0, <2>1, BeforeGrows
    <3> QED BY <1>5, <3>1
  <2>2. CASE n \in L
    <3>1. Before(L, n + 1) = Before(L, n) \cup {n} /\ n \notin Before(L, n)
      BY <1>0, <2>2, BeforeGrows
    <3>2. /\ IntOn(left, Before(L, n)) /\ left[n] \in Nat
          /\ IntOn(drawn, Before(L, n)) /\ drawn[n] \in Nat
      <4>1. \A x \in Before(L, n) : x \in L
        BY <1>1
      <4>2. \A x \in L : left[x] \in Nat /\ drawn[x] \in Nat
        BY <1>3 DEF NatOn
      <4>3. \A x \in Before(L, n) : left[x] \in Int /\ drawn[x] \in Int
        <5> SUFFICES ASSUME NEW x \in Before(L, n) PROVE left[x] \in Int /\ drawn[x] \in Int
          OBVIOUS
        <5>1. x \in L
          BY <4>1
        <5> QED BY <4>2, <5>1
      <4> QED BY <2>2, <4>2, <4>3 DEF IntOn
    <3>3. All(n + 1) = left[n] + All(n)
      BY <1>1, <3>1, <3>2, SumAdd
    <3>4. Sum(n + 1) = drawn[n] + Sum(n)
      BY <1>1, <3>1, <3>2, SumAdd
    <3>5. drawn[n] = Taken(quantity - All(n), left[n])
      BY <2>2
    <3>6. Sum(n) \in Nat /\ All(n) \in Nat /\ Sum(n) = IF All(n) <= quantity THEN All(n) ELSE quantity
      BY <1>5
    <3> HIDE DEF All, Sum
    <3>7. /\ Sum(n + 1) \in Nat /\ All(n + 1) \in Nat
          /\ Sum(n + 1) = IF All(n + 1) <= quantity THEN All(n + 1) ELSE quantity
      BY <3>2, <3>3, <3>4, <3>5, <3>6 DEF Taken
    <3> QED BY <3>7
  <2> QED BY <2>1, <2>2
<1>6. bound + 1 \in G
  <2>1. 0 \in G /\ \A n \in Nat : n \in G => n + 1 \in G
    BY <1>4, <1>5
  <2> HIDE DEF G
  <2> QED BY <2>1, NatInductive
<1>7. Before(L, bound + 1) = L
  BY <1>0, BeforeGrows
<1>8. Sum(bound + 1) <= quantity
  BY <1>6
<1> QED BY <1>3, <1>7, <1>8

(* Sums over rows of consumption.                                          *)
DrawnRowsOK(rows) == IsFiniteSet(rows) /\ \A row \in rows : row.qty \in Nat

RowQty(rows) == [row \in rows |-> row.qty]

RowsFor(rows, m) == {row \in rows : row.issue = m}
DrawnIn(rows, m) == DrawnBy(RowsFor(rows, m))

LEMMA DrawnByIs ==
  ASSUME NEW rows, DrawnRowsOK(rows), NEW R \in SUBSET rows, NEW f,
         \A row \in R : f[row] = row.qty
  PROVE  /\ IsFiniteSet(R) /\ IntOn(f, R)
         /\ DrawnBy(R) = SumFunctionOnSet(f, R) /\ DrawnBy(R) \in Nat
<1>1. IsFiniteSet(R) /\ NatOn(f, R) /\ IntOn(f, R)
  BY FS_Subset DEF DrawnRowsOK, NatOn, IntOn
<1>2. DrawnBy(R) = SumFunction(RowQty(R))
  BY DEF DrawnBy, RowQty
<1>3. DOMAIN RowQty(R) = R /\ \A row \in R : RowQty(R)[row] = f[row]
  BY DEF RowQty
<1>4. SumFunction(RowQty(R)) = SumFunctionOnSet(f, R)
  BY <1>1, <1>3, SumOfIs
<1>5. SumFunctionOnSet(f, R) \in Nat
  BY <1>1, SumNat
<1> QED BY <1>1, <1>2, <1>4, <1>5

LEMMA DrawnNone ==
  ASSUME NEW R, R = {}
  PROVE  DrawnBy(R) = 0
<1>1. DrawnBy(R) = SumFunction(RowQty(R)) /\ DOMAIN RowQty(R) = R
  BY DEF DrawnBy, RowQty
<1>2. SumFunction(RowQty(R)) = SumFunctionOnSet(RowQty(R), R)
  BY <1>1, SumFunctionIs
<1> QED BY <1>1, <1>2, SumEmpty

(* What a reversal gives back to all layers is what the issue drew.        *)
LEMMA GivenBackSum ==
  ASSUME NEW rows, DrawnRowsOK(rows), NEW o, NEW K, IsFiniteSet(K),
         \A row \in RowsFor(rows, o) : row.layer \in K,
         NEW g, \A k \in K : g[k] = GivenIn(rows, o, k)
  PROVE  NatOn(g, K) /\ SumFunctionOnSet(g, K) = DrawnIn(rows, o)
<1> DEFINE R == RowsFor(rows, o)
           f == RowQty(R)
           a == [row \in R |-> row.layer]
           h == GroupSums(f, a, R, K)
<1>1. R \in SUBSET rows /\ \A row \in R : f[row] = row.qty
  BY DEF RowsFor, RowQty
<1>2. \A row \in R : a[row] \in K
  OBVIOUS
<1>3. \A k \in K : Group(a, R, k) = {row \in rows : row.issue = o /\ row.layer = k}
  BY DEF Group, RowsFor
<1>4. \A k \in K : h[k] = SumFunctionOnSet(f, Group(a, R, k))
  BY DEF GroupSums
<1> HIDE DEF R, f, a, h
<1>5. IsFiniteSet(R) /\ IntOn(f, R) /\ DrawnBy(R) = SumFunctionOnSet(f, R)
  BY <1>1, DrawnByIs
<1>6. SumFunctionOnSet(h, K) = SumFunctionOnSet(f, R)
  BY <1>2, <1>5, SumGroups DEF h
<1>7. ASSUME NEW k \in K PROVE g[k] = h[k] /\ g[k] \in Nat
  <2> DEFINE S == Group(a, R, k)
  <2>1. S \in SUBSET rows /\ \A row \in S : f[row] = row.qty
    BY <1>1 DEF Group
  <2>2. g[k] = DrawnBy(S) /\ h[k] = SumFunctionOnSet(f, S)
    BY <1>3, <1>4 DEF GivenIn
  <2> HIDE DEF S
  <2> QED BY <2>1, <2>2, DrawnByIs
<1>8. NatOn(g, K) /\ IntOn(g, K)
  BY <1>7 DEF NatOn, IntOn
<1>9. SumFunctionOnSet(g, K) = SumFunctionOnSet(h, K)
  BY <1>7, <1>8, SumSame
<1> QED BY <1>5, <1>6, <1>8, <1>9 DEF DrawnIn, R

(* The rows an issue adds hold what it draws from all layers.              *)
RowFor(n, k, qty) == [issue |-> n, layer |-> k, qty |-> qty]
RowsWith(n, K, g) == {RowFor(n, k, g[k]) : k \in {l \in K : g[l] > 0}}

LEMMA NewDrawsSum ==
  ASSUME NEW n, NEW K, IsFiniteSet(K), NEW g, NatOn(g, K), NEW N, N = RowsWith(n, K, g)
  PROVE  DrawnRowsOK(N) /\ DrawnBy(N) = SumFunctionOnSet(g, K)
<1> DEFINE S == {l \in K : g[l] > 0}
           b == [k \in S |-> RowFor(n, k, g[k])]
           f == RowQty(N)
<1>1. IsFiniteSet(S) /\ S \in SUBSET K /\ IntOn(g, S) /\ IntOn(g, K)
  BY FS_Subset DEF IntOn, NatOn
<1>2. b \in Bijection(S, N)
  <2>1. \A k \in S : b[k] \in N
    BY DEF RowsWith
  <2>2. \A x, y \in S : b[x] = b[y] => x = y
    BY DEF RowFor
  <2>3. \A u \in N : \E x \in S : b[x] = u
    BY DEF RowsWith
  <2>4. b \in [S -> N]
    BY <2>1
  <2> HIDE DEF b, S
  <2> QED BY <2>2, <2>3, <2>4 DEF Bijection, Injection, Surjection, IsInjective
<1>3. \A k \in S : b[k] \in N /\ f[b[k]] = g[k]
  BY DEF RowQty, RowFor, RowsWith
<1>4. \A k \in K \ S : g[k] = 0
  BY DEF NatOn
<1>5. \A row \in N : row.qty \in Nat /\ f[row] = row.qty
  BY DEF RowsWith, RowFor, NatOn, RowQty
<1> HIDE DEF S, b, f
<1>6. SumFunctionOnSet(f, N) = SumFunctionOnSet(g, S)
  BY <1>1, <1>2, <1>3, SumRenamed
<1>7. SumFunctionOnSet(g, K) = SumFunctionOnSet(g, S)
  BY <1>1, <1>4, SumSupport
<1>8. IsFiniteSet(N)
  BY <1>1, <1>2, FS_Bijection DEF ExistsBijection
<1>9. DrawnRowsOK(N)
  BY <1>5, <1>8 DEF DrawnRowsOK
<1>10. N \in SUBSET N
  OBVIOUS
<1>11. DrawnBy(N) = SumFunctionOnSet(f, N)
  BY <1>5, <1>9, <1>10, DrawnByIs
<1> QED BY <1>6, <1>7, <1>9, <1>11

-----------------------------------------------------------------------------
(* What the layers of a cell hold beyond its stock: an outflow that is not *)
(* undone may have drawn less from them than it took out, and a reversal   *)
(* closes no layer.  A movement's part of it, and a cell's sum.            *)
Open(mv) == mv.delta < 0 /\ mv.reversalOf = 0 /\ mv.reversedBy = 0

Weight(mv, drawn) == mv.left + (IF Open(mv) THEN drawn ELSE -mv.delta)

WeightIn(table, rows, D, c) ==
  [m \in D |-> IF table[m].cell = c THEN Weight(table[m], DrawnIn(rows, m)) ELSE 0]

ExcessIn(table, rows, D, c) == SumFunctionOnSet(WeightIn(table, rows, D, c), D)

MovementWithin(mv, drawn) ==
  mv.left \in Nat /\ mv.delta \in Int /\ (Open(mv) => drawn <= -mv.delta)

LayersIn(table, rows, D) ==
  /\ DrawnRowsOK(rows)
  /\ \A row \in rows : /\ row.issue \in D /\ row.layer \in D
                        /\ table[row.layer].cell = table[row.issue].cell
  /\ \A m \in D : MovementWithin(table[m], DrawnIn(rows, m))
  /\ \A c \in Cells : ExcessIn(table, rows, D, c) >= 0

LayersOK == LayersIn(movements, draws, DOMAIN movements)

LEMMA DrawnInIs ==
  ASSUME NEW rows, DrawnRowsOK(rows), NEW m
  PROVE  DrawnIn(rows, m) \in Nat
<1> DEFINE R == RowsFor(rows, m)
<1>1. R \in SUBSET rows /\ \A row \in R : RowQty(R)[row] = row.qty
  BY DEF RowsFor, RowQty
<1> HIDE DEF R
<1>2. DrawnBy(R) \in Nat
  BY <1>1, DrawnByIs
<1> QED BY <1>2 DEF DrawnIn, R

LEMMA WeightInt ==
  ASSUME NEW table, NEW rows, NEW D, LayersIn(table, rows, D), NEW c
  PROVE  IntOn(WeightIn(table, rows, D, c), D)
<1> SUFFICES ASSUME NEW m \in D PROVE WeightIn(table, rows, D, c)[m] \in Int
  BY DEF IntOn
<1>1. DrawnIn(rows, m) \in Nat /\ table[m].left \in Nat /\ table[m].delta \in Int
  BY DrawnInIs DEF LayersIn, MovementWithin
<1>2. Weight(table[m], DrawnIn(rows, m)) \in Int
  BY <1>1 DEF Weight
<1> QED BY <1>2 DEF WeightIn

(* A movement that opens a layer of what it brings, or draws from none.    *)
LEMMA PlainLayers ==
  ASSUME NEW old, NEW rows, NEW D, IsFiniteSet(D), LayersIn(old, rows, D),
         NEW n, n \notin D, NEW E, E = D \cup {n},
         NEW new, \A k \in D : new[k] = old[k],
         NEW delta \in Int, new[n].delta = delta, new[n].left = IF delta > 0 THEN delta ELSE 0,
         new[n].reversalOf = 0, new[n].reversedBy = 0
  PROVE  LayersIn(new, rows, E)
<1>1. DrawnRowsOK(rows) /\ \A row \in rows : row.issue \in D /\ row.layer \in D
  BY DEF LayersIn
<1>2. DrawnIn(rows, n) = 0
  <2>1. RowsFor(rows, n) = {}
    BY <1>1 DEF RowsFor
  <2> QED BY <2>1, DrawnNone DEF DrawnIn
<1>3. Weight(new[n], 0) = 0
  BY DEF Weight, Open
<1>4. MovementWithin(new[n], 0)
  BY DEF MovementWithin, Open
<1>5. ASSUME NEW c \in Cells PROVE ExcessIn(new, rows, E, c) >= 0
  <2> DEFINE f == WeightIn(old, rows, D, c)
             h == WeightIn(new, rows, E, c)
  <2>1. IntOn(f, D) /\ SumFunctionOnSet(f, D) >= 0
    BY WeightInt DEF LayersIn, ExcessIn
  <2>2. \A k \in D : h[k] = f[k]
    BY DEF WeightIn
  <2>3. h[n] = 0
    BY <1>2, <1>3 DEF WeightIn
  <2>4. SumFunctionOnSet(h, E) = ExcessIn(new, rows, E, c)
    BY DEF ExcessIn
  <2> HIDE DEF f, h
  <2>5. SumFunctionOnSet(h, E) = SumFunctionOnSet(f, D) + h[n]
    BY <2>1, <2>2, <2>3, SumGrows
  <2>6. SumFunctionOnSet(f, D) \in Int
    BY <2>1, SumInt
  <2> QED BY <2>1, <2>3, <2>4, <2>5, <2>6
<1>6. \A m \in E : MovementWithin(new[m], DrawnIn(rows, m))
  BY <1>2, <1>4 DEF LayersIn
<1>7. \A row \in rows : /\ row.issue \in E /\ row.layer \in E
                        /\ new[row.layer].cell = new[row.issue].cell
  BY DEF LayersIn
<1> QED BY <1>1, <1>5, <1>6, <1>7 DEF LayersIn

(* An issue takes from the layers of its cell what its rows say.           *)
LEMMA IssueLayers ==
  ASSUME NEW old, NEW rows, NEW D, IsFiniteSet(D), LayersIn(old, rows, D),
         NEW n, n \notin D, NEW E, E = D \cup {n}, NEW c, NEW quantity \in Nat \ {0},
         NEW out, NatOn(out, D), SumFunctionOnSet(out, D) <= quantity,
         \A k \in D : out[k] <= old[k].left /\ (out[k] # 0 => old[k].cell = c),
         NEW new,
         \A k \in D : /\ Stays(new[k], old[k]) /\ new[k].reversedBy = old[k].reversedBy
                      /\ new[k].left = old[k].left - out[k],
         new[n].cell = c, new[n].delta = -quantity, new[n].left = 0,
         new[n].reversalOf = 0, new[n].reversedBy = 0,
         NEW both, both = rows \cup RowsWith(n, D, out)
  PROVE  LayersIn(new, both, E)
<1> DEFINE N == RowsWith(n, D, out)
<1>1. /\ DrawnRowsOK(rows)
      /\ \A row \in rows : /\ row.issue \in D /\ row.layer \in D
                            /\ old[row.layer].cell = old[row.issue].cell
  BY DEF LayersIn
<1>2. \A row \in N : row.issue = n /\ row.layer \in D /\ old[row.layer].cell = c
  BY DEF RowsWith, RowFor, NatOn
<1>3. DrawnRowsOK(N) /\ DrawnBy(N) = SumFunctionOnSet(out, D)
  BY NewDrawsSum
<1> HIDE DEF N
<1>4. both = rows \cup N
  BY DEF N
<1>5. DrawnRowsOK(both)
  <2>1. IsFiniteSet(both)
    <3>1. IsFiniteSet(rows) /\ IsFiniteSet(N)
      BY <1>1, <1>3 DEF DrawnRowsOK
    <3>2. IsFiniteSet(rows \cup N)
      BY <3>1, FS_Union
    <3> QED BY <1>4, <3>2
  <2>2. \A row \in both : row.qty \in Nat
    BY <1>1, <1>3, <1>4 DEF DrawnRowsOK
  <2> QED BY <2>1, <2>2 DEF DrawnRowsOK
<1>6. \A k \in D : DrawnIn(both, k) = DrawnIn(rows, k)
  <2>1. \A k \in D : RowsFor(both, k) = RowsFor(rows, k)
    BY <1>2, <1>4 DEF RowsFor
  <2> QED BY <2>1 DEF DrawnIn
<1>7. DrawnIn(both, n) = SumFunctionOnSet(out, D)
  <2>1. RowsFor(both, n) = N
    BY <1>1, <1>2, <1>4 DEF RowsFor
  <2> QED BY <1>3, <2>1 DEF DrawnIn
<1>8. SumFunctionOnSet(out, D) \in Nat
  BY SumNat
<1>9. \A row \in both : /\ row.issue \in E /\ row.layer \in E
                        /\ new[row.layer].cell = new[row.issue].cell
  BY <1>1, <1>2, <1>4 DEF Stays
<1>10. ASSUME NEW m \in E PROVE MovementWithin(new[m], DrawnIn(both, m))
  <2>1. CASE m = n
    BY <1>7, <1>8, <2>1 DEF MovementWithin, Open
  <2>2. CASE m \in D
    <3>1. MovementWithin(old[m], DrawnIn(rows, m)) /\ out[m] \in Nat
      BY <2>2 DEF LayersIn, NatOn
    <3>2. /\ new[m].left = old[m].left - out[m] /\ out[m] <= old[m].left
          /\ new[m].delta = old[m].delta /\ new[m].reversalOf = old[m].reversalOf
          /\ new[m].reversedBy = old[m].reversedBy /\ DrawnIn(both, m) = DrawnIn(rows, m)
      BY <1>6, <2>2 DEF Stays
    <3>3. old[m].left \in Nat /\ old[m].delta \in Int
          /\ (Open(old[m]) => DrawnIn(rows, m) <= -old[m].delta)
      BY <3>1 DEF MovementWithin
    <3>4. new[m].left \in Nat
      BY <3>1, <3>2, <3>3
    <3>5. ASSUME Open(new[m]) PROVE DrawnIn(both, m) <= -new[m].delta
      <4>1. Open(old[m])
        BY <3>2, <3>5 DEF Open
      <4> QED BY <3>2, <3>3, <4>1
    <3>6. new[m].left \in Nat /\ new[m].delta \in Int
      BY <3>2, <3>3, <3>4
    <3> QED BY <3>5, <3>6 DEF MovementWithin
  <2> QED BY <2>1, <2>2
<1>11. ASSUME NEW x \in Cells PROVE ExcessIn(new, both, E, x) >= 0
  <2> DEFINE f == WeightIn(old, rows, D, x)
             h == WeightIn(new, both, E, x)
             a == [k \in D |-> IF x = c THEN out[k] ELSE 0]
  <2>1. IntOn(f, D) /\ SumFunctionOnSet(f, D) >= 0
    BY WeightInt DEF LayersIn, ExcessIn
  <2>2. ASSUME NEW k \in D PROVE h[k] \in Int /\ a[k] \in Int /\ f[k] = h[k] + a[k]
    <3>1. /\ out[k] \in Nat /\ (out[k] # 0 => old[k].cell = c)
          /\ old[k].left \in Nat /\ old[k].delta \in Int /\ DrawnIn(rows, k) \in Nat
      BY <1>1, DrawnInIs DEF NatOn, LayersIn, MovementWithin
    <3> DEFINE d == DrawnIn(rows, k)
    <3>2. h[k] = IF old[k].cell = x THEN Weight(new[k], d) ELSE 0
      BY <1>6 DEF WeightIn, Stays
    <3>3. f[k] = IF old[k].cell = x THEN Weight(old[k], d) ELSE 0
      BY DEF WeightIn
    <3>4. d \in Nat
      BY <3>1
    <3> HIDE DEF f, h, d
    <3>5. /\ Weight(old[k], d) = Weight(new[k], d) + out[k] /\ Weight(new[k], d) \in Int
      BY <3>1, <3>4 DEF Weight, Open, Stays
    <3> QED BY <3>1, <3>2, <3>3, <3>5
  <2>3. h[n] = IF x = c THEN SumFunctionOnSet(out, D) ELSE 0
    BY <1>7, <1>8 DEF WeightIn, Weight, Open
  <2>4. SumFunctionOnSet(h, E) = ExcessIn(new, both, E, x)
    BY DEF ExcessIn
  <2>5. SumFunctionOnSet(a, D) = IF x = c THEN SumFunctionOnSet(out, D) ELSE 0
    <3>1. x # c => \A k \in D : a[k] = 0
      OBVIOUS
    <3>2. x = c => \A k \in D : out[k] = a[k]
      OBVIOUS
    <3>3. IntOn(out, D)
      BY DEF IntOn, NatOn
    <3> HIDE DEF a
    <3>4. x # c => SumFunctionOnSet(a, D) = 0
      BY <3>1, SumZero
    <3>5. x = c => SumFunctionOnSet(out, D) = SumFunctionOnSet(a, D)
      BY <3>2, <3>3, SumSame
    <3> QED BY <3>4, <3>5
  <2>6. IntOn(h, D) /\ IntOn(a, D)
    BY <2>2 DEF IntOn
  <2>7. \A k \in D : f[k] = h[k] + a[k]
    BY <2>2
  <2> HIDE DEF f, h, a
  <2>8. SumFunctionOnSet(f, D) = SumFunctionOnSet(h, D) + SumFunctionOnSet(a, D)
    BY <2>6, <2>7, SumPlus
  <2>9. h[n] \in Int
    BY <1>8, <2>3
  <2>10. SumFunctionOnSet(h, E) = h[n] + SumFunctionOnSet(h, D)
    BY <2>6, <2>9, SumAdd
  <2>11. SumFunctionOnSet(f, D) \in Int /\ SumFunctionOnSet(h, D) \in Int
    BY <2>1, <2>6, SumInt
  <2> QED BY <1>8, <2>1, <2>3, <2>4, <2>5, <2>8, <2>9, <2>10, <2>11
<1> QED BY <1>5, <1>9, <1>10, <1>11 DEF LayersIn

(* A reversal gives back what its movement drew.                           *)
LEMMA ReverseLayers ==
  ASSUME NEW old, NEW rows, NEW D, IsFiniteSet(D), LayersIn(old, rows, D),
         NEW n, n \notin D, n # 0, NEW E, E = D \cup {n}, NEW o \in D, o # 0,
         old[o].reversalOf = 0, old[o].reversedBy = 0,
         NEW back, \A k \in D : back[k] = GivenIn(rows, o, k),
         NEW new,
         \A k \in D : /\ Stays(new[k], old[k])
                      /\ new[k].reversedBy = IF k = o THEN n ELSE old[k].reversedBy
                      /\ new[k].left = old[k].left + back[k],
         new[n].cell = old[o].cell, new[n].delta = -old[o].delta, new[n].left = 0,
         new[n].reversalOf = o,
         NEW rest, rest = Kept(rows, o)
  PROVE  LayersIn(new, rest, E)
<1>1. /\ DrawnRowsOK(rows)
      /\ \A row \in rows : /\ row.issue \in D /\ row.layer \in D
                            /\ old[row.layer].cell = old[row.issue].cell
  BY DEF LayersIn
<1>2. DrawnRowsOK(rest)
  BY <1>1, FS_Subset DEF DrawnRowsOK, Kept
<1>3. NatOn(back, D) /\ SumFunctionOnSet(back, D) = DrawnIn(rows, o)
  <2>1. \A row \in RowsFor(rows, o) : row.layer \in D
    BY <1>1 DEF RowsFor
  <2> QED BY <1>1, <2>1, GivenBackSum
<1>4. \A k \in D : k # o => DrawnIn(rest, k) = DrawnIn(rows, k)
  <2>1. \A k \in D : k # o => RowsFor(rest, k) = RowsFor(rows, k)
    BY DEF RowsFor, Kept
  <2> QED BY <2>1 DEF DrawnIn
<1>5. ASSUME NEW k \in D, old[k].cell # old[o].cell PROVE back[k] = 0
  <2> DEFINE R == {row \in rows : row.issue = o /\ row.layer = k}
  <2>1. R = {}
    BY <1>1, <1>5
  <2>2. back[k] = DrawnBy(R)
    BY DEF GivenIn
  <2> HIDE DEF R
  <2> QED BY <2>1, <2>2, DrawnNone
<1>10. \A k \in D :
         /\ new[k].cell = old[k].cell /\ new[k].delta = old[k].delta
         /\ new[k].reversalOf = old[k].reversalOf
         /\ new[k].left = old[k].left + back[k] /\ back[k] \in Nat
  BY <1>3 DEF Stays, NatOn
<1>11. \A k \in D :
         /\ k = o => new[k].reversedBy = n
         /\ k # o => new[k].reversedBy = old[k].reversedBy
  OBVIOUS
<1>6. \A row \in rest : /\ row.issue \in E /\ row.layer \in E
                        /\ new[row.layer].cell = new[row.issue].cell
  BY <1>1 DEF Stays, Kept
<1>7. \A k \in D : old[k].left \in Nat /\ old[k].delta \in Int
  BY DEF LayersIn, MovementWithin
<1>8. ASSUME NEW m \in E PROVE MovementWithin(new[m], DrawnIn(rest, m))
  <2>1. CASE m = n
    <3>1. new[m].left \in Nat /\ new[m].delta \in Int /\ new[m].reversalOf # 0
      BY <1>7, <2>1
    <3> QED BY <3>1 DEF MovementWithin, Open
  <2>2. CASE m = o
    <3>1. new[m].left \in Nat /\ new[m].delta \in Int /\ new[m].reversedBy # 0
      BY <1>7, <1>10, <1>11, <2>2
    <3> QED BY <3>1 DEF MovementWithin, Open
  <2>3. CASE m \in D \ {o}
    <3>1. /\ new[m].left = old[m].left + back[m] /\ back[m] \in Nat
          /\ new[m].delta = old[m].delta /\ new[m].reversalOf = old[m].reversalOf
          /\ new[m].reversedBy = old[m].reversedBy /\ DrawnIn(rest, m) = DrawnIn(rows, m)
      BY <1>4, <1>10, <1>11, <2>3
    <3>2. Open(old[m]) => DrawnIn(rows, m) <= -old[m].delta
      BY <2>3 DEF LayersIn, MovementWithin
    <3>3. ASSUME Open(new[m]) PROVE DrawnIn(rest, m) <= -new[m].delta
      <4>1. Open(old[m])
        BY <3>1, <3>3 DEF Open
      <4> QED BY <3>1, <3>2, <4>1
    <3>4. new[m].left \in Nat /\ new[m].delta \in Int
      BY <1>7, <2>3, <3>1
    <3> QED BY <3>3, <3>4 DEF MovementWithin
  <2> QED BY <2>1, <2>2, <2>3
<1>9. ASSUME NEW x \in Cells PROVE ExcessIn(new, rest, E, x) >= 0
  <2> DEFINE f == WeightIn(old, rows, D, x)
             h == WeightIn(new, rest, E, x)
             drawn == DrawnIn(rows, o)
             delta == old[o].delta
             extra == IF Open(old[o]) THEN -delta - drawn ELSE 0
             g == [k \in D |-> IF old[k].cell # x THEN 0
                               ELSE IF k = o THEN back[k] + extra ELSE back[k]]
  <2>1. IntOn(f, D) /\ SumFunctionOnSet(f, D) >= 0
    BY WeightInt DEF LayersIn, ExcessIn
  <2>2. drawn \in Nat /\ delta \in Int /\ extra \in Int
    BY <1>1, <1>7, DrawnInIs
  <2>3. ASSUME NEW k \in D PROVE g[k] \in Int /\ h[k] = f[k] + g[k]
    <3> DEFINE d == DrawnIn(rows, k)
               e == DrawnIn(rest, k)
    <3>1. /\ back[k] \in Nat /\ old[k].left \in Nat /\ old[k].delta \in Int /\ d \in Nat
          /\ new[k].left = old[k].left + back[k] /\ new[k].delta = old[k].delta
          /\ new[k].reversalOf = old[k].reversalOf
      BY <1>1, <1>7, <1>10, DrawnInIs
    <3>2. h[k] = IF old[k].cell = x THEN Weight(new[k], e) ELSE 0
      BY DEF WeightIn, Stays
    <3>3. f[k] = IF old[k].cell = x THEN Weight(old[k], d) ELSE 0
      BY DEF WeightIn
    <3>4. g[k] = IF old[k].cell # x THEN 0 ELSE IF k = o THEN back[k] + extra ELSE back[k]
      OBVIOUS
    <3>5. CASE k = o
      <4>1. new[k].reversedBy # 0
        BY <1>11, <3>5
      <4>2. Weight(new[k], e) = old[k].left + back[k] - old[k].delta
        BY <3>1, <4>1 DEF Weight, Open
      <4>3. Weight(old[k], d) = old[k].left + (IF Open(old[k]) THEN d ELSE -old[k].delta)
        BY DEF Weight
      <4>4. extra = IF Open(old[k]) THEN -old[k].delta - d ELSE 0
        BY <3>5
      <4> HIDE DEF f, g, h, d, e, extra
      <4>5. CASE Open(old[k])
        BY <3>1, <3>2, <3>3, <3>4, <3>5, <4>2, <4>3, <4>4, <4>5
      <4>6. CASE ~Open(old[k])
        BY <3>1, <3>2, <3>3, <3>4, <3>5, <4>2, <4>3, <4>4, <4>6
      <4> QED BY <4>5, <4>6
    <3>6. CASE k # o
      <4>1. new[k].reversedBy = old[k].reversedBy /\ e = d
        BY <1>4, <1>11, <3>6
      <4> HIDE DEF f, g, h, d, e, extra
      <4>2. Weight(new[k], d) = Weight(old[k], d) + back[k] /\ Weight(old[k], d) \in Int
        BY <3>1, <4>1 DEF Weight, Open
      <4> QED BY <3>1, <3>2, <3>3, <3>4, <3>6, <4>1, <4>2
    <3> QED BY <3>5, <3>6
  <2>4. h[n] = IF old[o].cell = x THEN delta ELSE 0
    <3>1. Weight(new[n], DrawnIn(rest, n)) = delta
      BY <1>7 DEF Weight, Open
    <3> QED BY <3>1 DEF WeightIn
  <2>5. SumFunctionOnSet(h, E) = ExcessIn(new, rest, E, x)
    BY DEF ExcessIn
  <2>6. SumFunctionOnSet(g, D) = IF old[o].cell = x THEN drawn + extra ELSE 0
    <3>1. ASSUME old[o].cell # x PROVE SumFunctionOnSet(g, D) = 0
      <4>1. \A k \in D : g[k] = 0
        BY <1>5, <3>1
      <4> HIDE DEF g
      <4> QED BY <4>1, SumZero
    <3>2. ASSUME old[o].cell = x PROVE SumFunctionOnSet(g, D) = drawn + extra
      <4>1. \A k \in D \ {o} : g[k] = back[k]
        BY <1>5, <3>2
      <4>2. g[o] = back[o] + extra
        BY <3>2
      <4>3. IntOn(back, D) /\ back[o] \in Int
        BY <1>3 DEF IntOn, NatOn
      <4>4. IntOn(g, D)
        BY <2>3 DEF IntOn
      <4> HIDE DEF g, extra, drawn
      <4>5. SumFunctionOnSet(g, D) = SumFunctionOnSet(back, D) - back[o] + g[o]
        BY <4>1, <4>3, <4>4, SumChange
      <4>6. SumFunctionOnSet(back, D) = drawn
        BY <1>3 DEF drawn
      <4> QED BY <2>2, <4>2, <4>3, <4>5, <4>6
    <3> QED BY <3>1, <3>2
  <2>7. IntOn(g, D) /\ IntOn(h, D) /\ \A k \in D : h[k] = f[k] + g[k]
    <3>1. \A k \in D : f[k] \in Int
      BY <2>1 DEF IntOn
    <3>2. \A k \in D : g[k] \in Int /\ h[k] = f[k] + g[k]
      BY <2>3
    <3> HIDE DEF f, g, h
    <3>3. \A k \in D : h[k] \in Int
      BY <3>1, <3>2
    <3> QED BY <3>1, <3>2, <3>3 DEF IntOn
  <2>8. old[o].cell = x => drawn + extra + delta >= 0
    <3>1. delta < 0 => Open(old[o])
      BY DEF Open
    <3> QED BY <2>2, <3>1
  <2> HIDE DEF f, h, g, extra, drawn, delta
  <2>9. SumFunctionOnSet(h, D) = SumFunctionOnSet(f, D) + SumFunctionOnSet(g, D)
    BY <2>1, <2>7, SumPlus
  <2>10. h[n] \in Int
    BY <2>2, <2>4
  <2>11. SumFunctionOnSet(h, E) = h[n] + SumFunctionOnSet(h, D)
    BY <2>7, <2>10, SumAdd
  <2>12. SumFunctionOnSet(f, D) \in Int
    BY <2>1, SumInt
  <2> QED BY <2>1, <2>2, <2>4, <2>5, <2>6, <2>8, <2>9, <2>11, <2>12
<1> QED BY <1>2, <1>6, <1>8, <1>9 DEF LayersIn

(* The excess is not negative, so the layers cover the stock.              *)
LEMMA LayersCover ==
  ASSUME IInv, OnHandIs, LayersOK
  PROVE  LayersCoverOnHand
<1> SUFFICES ASSUME NEW c \in Cells PROVE LayerTotal(c) >= balance[c].onHand
  BY DEF LayersCoverOnHand
<1> DEFINE D == DOMAIN movements
           w == WeightIn(movements, draws, D, c)
           d == [m \in D |-> IF movements[m].cell = c THEN movements[m].delta ELSE 0]
           l == [m \in D |-> IF movements[m].cell = c THEN movements[m].left ELSE 0]
           s == [m \in D |-> w[m] + d[m]]
           S == {m \in D : movements[m].cell = c}
           L == LayersOf(c)
           sd == [m \in S |-> movements[m].delta]
           sl == [m \in L |-> movements[m].left]
<1>1. IsFiniteSet(D) /\ DrawnRowsOK(draws)
  BY FiniteMovements DEF LayersOK, LayersIn
<1>2. IntOn(w, D) /\ SumFunctionOnSet(w, D) >= 0
  BY WeightInt DEF LayersOK, LayersIn, ExcessIn
<1>3. ASSUME NEW m \in D
      PROVE  /\ movements[m].left \in Nat /\ movements[m].delta \in Int
             /\ d[m] \in Int /\ l[m] \in Int /\ s[m] \in Int /\ s[m] = w[m] + d[m] /\ s[m] <= l[m]
  <2> DEFINE r == DrawnIn(draws, m)
  <2>1. MovementWithin(movements[m], r) /\ r \in Nat
    BY <1>1, DrawnInIs DEF LayersOK, LayersIn
  <2>2. w[m] = IF movements[m].cell = c THEN Weight(movements[m], r) ELSE 0
    BY DEF WeightIn
  <2>3. /\ d[m] = IF movements[m].cell = c THEN movements[m].delta ELSE 0
        /\ l[m] = IF movements[m].cell = c THEN movements[m].left ELSE 0
        /\ s[m] = w[m] + d[m]
    OBVIOUS
  <2> HIDE DEF w, d, l, s, r
  <2>4. movements[m].left \in Nat /\ movements[m].delta \in Int
    BY <2>1 DEF MovementWithin
  <2>5. /\ Weight(movements[m], r) \in Int
        /\ Weight(movements[m], r) + movements[m].delta <= movements[m].left
    <3>1. CASE Open(movements[m])
      BY <2>1, <2>4, <3>1 DEF MovementWithin, Weight
    <3>2. CASE ~Open(movements[m])
      BY <2>1, <2>4, <3>2 DEF Weight
    <3> QED BY <3>1, <3>2
  <2> QED BY <2>2, <2>3, <2>4, <2>5
<1>4. LayerTotal(c) = SumFunction(sl) /\ CellDelta(c) = SumFunction(sd)
  BY DEF LayerTotal, LeftIn, CellDelta, DeltaIn
<1>5. S \in SUBSET D /\ L \in SUBSET D
  BY DEF LayersOf
<1>6. /\ \A m \in S : d[m] = sd[m] /\ sd[m] \in Int
      /\ \A m \in D \ S : d[m] = 0
  BY <1>3
<1>7. /\ \A m \in L : l[m] = sl[m] /\ sl[m] \in Int
      /\ \A m \in D \ L : l[m] = 0
  BY <1>3 DEF LayersOf
<1>8. DOMAIN sd = S /\ DOMAIN sl = L
  OBVIOUS
<1>9. IntOn(d, D) /\ IntOn(l, D) /\ IntOn(s, D) /\ \A m \in D : s[m] = w[m] + d[m] /\ s[m] <= l[m]
  BY <1>3 DEF IntOn
<1> HIDE DEF D, w, d, l, s, S, L, sd, sl
<1>10. IsFiniteSet(S) /\ IsFiniteSet(L) /\ IntOn(d, S) /\ IntOn(l, L)
  BY <1>1, <1>5, <1>9, FS_Subset DEF IntOn
<1>11. SumFunctionOnSet(d, D) = SumFunctionOnSet(d, S)
  BY <1>1, <1>5, <1>6, <1>10, SumSupport
<1>12. SumFunction(sd) = SumFunctionOnSet(d, S)
  BY <1>6, <1>8, <1>10, SumOfIs
<1>13. SumFunctionOnSet(l, D) = SumFunctionOnSet(l, L)
  BY <1>1, <1>5, <1>7, <1>10, SumSupport
<1>14. SumFunction(sl) = SumFunctionOnSet(l, L)
  BY <1>7, <1>8, <1>10, SumOfIs
<1>15. SumFunctionOnSet(s, D) = SumFunctionOnSet(w, D) + SumFunctionOnSet(d, D)
  BY <1>1, <1>2, <1>9, SumPlus
<1>16. SumFunctionOnSet(s, D) <= SumFunctionOnSet(l, D)
  BY <1>1, <1>9, SumMonotone
<1>17. SumFunctionOnSet(w, D) \in Int /\ SumFunctionOnSet(d, D) \in Int
       /\ SumFunctionOnSet(l, D) \in Int
  BY <1>1, <1>2, <1>9, SumInt
<1>18. balance[c].onHand = CellDelta(c)
  BY DEF OnHandIs
<1> QED BY <1>2, <1>4, <1>11, <1>12, <1>13, <1>14, <1>15, <1>16, <1>17, <1>18

-----------------------------------------------------------------------------
Draws(d, c, out) == \A k \in DOMAIN movements : out[k] = Out(d, c, k)
DrawsWithin(c, quantity, out) ==
  /\ NatOn(out, DOMAIN movements)
  /\ SumFunctionOnSet(out, DOMAIN movements) <= quantity
  /\ \A k \in DOMAIN movements :
       out[k] <= movements[k].left /\ (out[k] # 0 => movements[k].cell = c)

LEMMA OutFacts ==
  ASSUME IInv, LayersOK, NEW d, NEW c, NEW quantity \in Nat, quantity = Doc[d].qty,
         NEW out, Draws(d, c, out)
  PROVE  DrawsWithin(c, quantity, out)
<1> DEFINE D == DOMAIN movements
           L == LayersOf(c)
           left == [m \in L |-> movements[m].left]
           drawn == [m \in L |-> DrawnFrom(m, c, quantity)]
<1>1. PICK bound \in Nat : D = 1..bound
  BY DEF IInv, MovementsOK
<1>2. L \in SUBSET D /\ IsFiniteSet(D) /\ IsFiniteSet(L)
  BY FiniteMovements, FS_Subset DEF LayersOf
<1>3. \A m \in D : movements[m].left \in Nat
  BY DEF LayersOK, LayersIn, MovementWithin
<1>4. NatOn(left, L)
  BY <1>2, <1>3 DEF NatOn
<1>5. ASSUME NEW m \in L
      PROVE  drawn[m] = Taken(quantity - SumFunctionOnSet(left, Before(L, m)), left[m])
  <2> DEFINE B == Before(L, m)
             g == [k \in B |-> movements[k].left]
             wanted == quantity - LeftIn(B)
  <2>1. B \subseteq L /\ IsFiniteSet(B)
    BY <1>2, FS_Subset DEF Before
  <2>2. LeftIn(B) = SumFunction(g)
    BY DEF LeftIn
  <2>3. DOMAIN g = B /\ IntOn(left, B) /\ \A k \in B : g[k] = left[k]
    BY <1>4, <2>1 DEF NatOn, IntOn
  <2>4. DrawnFrom(m, c, quantity) = CASE wanted <= 0                 -> 0
                                      [] wanted >= movements[m].left -> movements[m].left
                                      [] OTHER                       -> wanted
    BY DEF DrawnFrom, Before
  <2>5. left[m] = movements[m].left /\ drawn[m] = DrawnFrom(m, c, quantity) /\ left[m] \in Nat
    BY <1>4 DEF NatOn
  <2>6. LeftIn(B) = SumFunctionOnSet(left, B)
    <3> HIDE DEF g, B, left
    <3> QED BY <2>1, <2>2, <2>3, SumOfIs
  <2>7. SumFunctionOnSet(left, B) \in Int
    <3> HIDE DEF B, left
    <3> QED BY <2>1, <2>3, SumInt
  <2>8. wanted \in Int /\ wanted = quantity - SumFunctionOnSet(left, B)
    BY <2>6, <2>7
  <2> HIDE DEF wanted, B, left, drawn
  <2>9. drawn[m] = Taken(wanted, left[m])
    BY <2>4, <2>5, <2>8 DEF Taken
  <2> QED BY <2>8, <2>9 DEF B
<1>6. /\ \A m \in D : out[m] = IF Doc[d].fifo /\ m \in L THEN drawn[m] ELSE 0
      /\ \A m \in L : left[m] = movements[m].left /\ movements[m].cell = c
  BY DEF Out, LayersOf, Draws
<1> HIDE DEF L, left, drawn
<1>7. NatOn(drawn, L) /\ SumFunctionOnSet(drawn, L) <= quantity
  <2>1. L \in SUBSET (1..bound)
    BY <1>1, <1>2
  <2> QED BY <1>4, <1>5, <2>1, FifoDraws
<1>8. \A m \in L : drawn[m] <= left[m]
  <2> SUFFICES ASSUME NEW m \in L PROVE drawn[m] <= left[m]
    OBVIOUS
  <2>1. left[m] \in Nat /\ drawn[m] \in Nat
    BY <1>4, <1>7 DEF NatOn
  <2>2. PICK w : drawn[m] = Taken(w, left[m])
    BY <1>5
  <2>3. CASE w <= 0
    BY <2>1, <2>2, <2>3 DEF Taken
  <2>4. CASE ~(w <= 0) /\ w >= left[m]
    BY <2>1, <2>2, <2>4 DEF Taken
  <2>5. CASE ~(w <= 0) /\ ~(w >= left[m])
    <3>1. drawn[m] = w
      BY <2>2, <2>5 DEF Taken
    <3> QED BY <2>1, <2>5, <3>1
  <2> QED BY <2>3, <2>4, <2>5
<1>9. ASSUME NEW k \in D
      PROVE  out[k] \in Nat /\ out[k] <= movements[k].left /\ (out[k] # 0 => movements[k].cell = c)
  BY <1>3, <1>6, <1>7, <1>8 DEF NatOn
<1>10. SumFunctionOnSet(out, D) <= quantity
  <2>1. CASE Doc[d].fifo
    <3>1. \A m \in D \ L : out[m] = 0
      BY <1>6
    <3>2. \A m \in L : out[m] = drawn[m]
      BY <1>2, <1>6, <2>1
    <3>3. IntOn(out, L) /\ IntOn(drawn, L)
      BY <1>2, <1>7, <3>2 DEF IntOn, NatOn
    <3>4. SumFunctionOnSet(out, D) = SumFunctionOnSet(out, L)
      BY <1>2, <3>1, <3>3, SumSupport
    <3>5. SumFunctionOnSet(out, L) = SumFunctionOnSet(drawn, L)
      BY <1>2, <3>2, <3>3, SumSame
    <3> QED BY <1>7, <3>4, <3>5
  <2>2. CASE ~Doc[d].fifo
    <3>1. SumFunctionOnSet(out, D) = 0
      BY <1>2, <1>6, <2>2, SumZero
    <3> QED BY <3>1
  <2> QED BY <2>1, <2>2
<1> QED BY <1>9, <1>10 DEF NatOn, DrawsWithin

LEMMA LayersIssue ==
  ASSUME IInv, LayersOK, NEW p \in Procs, IssueStock(p)
  PROVE  LayersOK'
<1>1. PICK j, c, quantity, n :
        j = job[p] /\ c = CellOf(j) /\ quantity = Doc[j.doc].qty /\ n = Len(movements) + 1
  OBVIOUS
<1> DEFINE D == DOMAIN movements
           E == D \cup {n}
           out == [k \in D |-> Out(j.doc, c, k)]
           N == RowsWith(n, D, out)
<1>2. PICK lotDrawn :
        /\ quantity \in Nat \ {0} /\ NewAt(n)
        /\ \A k \in DOMAIN movements :
             /\ Stays(movements'[k], movements[k])
             /\ movements'[k].left = movements[k].left - Out(j.doc, c, k)
             /\ movements'[k].reversedBy = movements[k].reversedBy
        /\ Carries(movements'[n], j.doc, c, -quantity, 0, lotDrawn, 0)
        /\ draws' = draws \cup NewDraws(j.doc, c, n)
  BY <1>1, IssueWrites
<1>3. N = NewDraws(j.doc, c, n)
  BY DEF RowsWith, RowFor, NewDraws
<1>4. \A k \in D : out[k] = Out(j.doc, c, k)
  OBVIOUS
<1>5. n \notin D /\ DOMAIN movements' = E
  BY <1>2 DEF NewAt
<1>6. LayersIn(movements, draws, D) /\ IsFiniteSet(D)
  BY FiniteMovements DEF LayersOK
<1>7. /\ NatOn(out, D) /\ SumFunctionOnSet(out, D) <= quantity
      /\ \A k \in D : out[k] <= movements[k].left /\ (out[k] # 0 => movements[k].cell = c)
  <2>1. quantity \in Nat
    BY <1>2
  <2>2. PICK f, d : f = out /\ d = j.doc
    OBVIOUS
  <2> HIDE DEF out
  <2>3. quantity = Doc[d].qty /\ Draws(d, c, f)
    BY <1>1, <1>4, <2>2 DEF Draws
  <2>4. DrawsWithin(c, quantity, f)
    BY <2>1, <2>3, OutFacts
  <2> QED BY <2>2, <2>4 DEF DrawsWithin
<1>8. PICK new : new = movements'
  OBVIOUS
<1> HIDE DEF out, N, E, D
<1>9. /\ new[n].cell = c /\ new[n].delta = -quantity /\ new[n].left = 0
      /\ new[n].reversalOf = 0 /\ new[n].reversedBy = 0
  BY <1>2, <1>8 DEF Carries
<1>10. \A k \in D : /\ Stays(new[k], movements[k]) /\ new[k].reversedBy = movements[k].reversedBy
                    /\ new[k].left = movements[k].left - out[k]
  BY <1>2, <1>4, <1>8 DEF D
<1>11. LayersIn(new, draws \cup N, E)
  <2>1. E = D \cup {n}
    BY DEF E
  <2>2. PICK both : both = draws \cup RowsWith(n, D, out)
    OBVIOUS
  <2>3. quantity \in Nat \ {0} /\ n \notin D
    BY <1>2, <1>5
  <2>4. LayersIn(new, both, E)
    BY <1>6, <1>7, <1>9, <1>10, <2>1, <2>2, <2>3, IssueLayers
  <2> QED BY <2>2, <2>4 DEF N
<1> QED BY <1>2, <1>3, <1>5, <1>8, <1>11 DEF LayersOK

LEMMA LayersReverse ==
  ASSUME IInv, LayersOK, NEW p \in Procs, ReverseMovement(p),
         movements[job[p].orig].reversalOf = 0, movements[job[p].orig].reversedBy = 0
  PROVE  LayersOK'
<1>1. PICK j, c, o, delta, n :
        /\ j = job[p] /\ c = CellOf(j) /\ o = j.orig /\ delta = movements[o].delta
        /\ n = Len(movements) + 1
  OBVIOUS
<1> DEFINE D == DOMAIN movements
           E == D \cup {n}
           back == [k \in D |-> GivenBack(o, k)]
<1>2. /\ o \in DOMAIN movements /\ movements[o].cell = c /\ NewAt(n)
      /\ \A k \in DOMAIN movements :
           /\ Stays(movements'[k], movements[k])
           /\ movements'[k].left = movements[k].left + GivenBack(o, k)
           /\ movements'[k].reversedBy = IF k = o THEN n ELSE movements[k].reversedBy
      /\ Carries(movements'[n], j.doc, c, -delta, 0, 0, o)
      /\ draws' = Kept(draws, o)
  BY <1>1, ReverseWrites
<1>3. \A k \in D : back[k] = GivenIn(draws, o, k)
  BY DEF GivenBack
<1>4. n \notin D /\ DOMAIN movements' = E /\ n # 0 /\ o # 0
  BY <1>1, <1>2, ZeroIsNone DEF NewAt, IInv, MovementsOK
<1>5. LayersIn(movements, draws, D) /\ IsFiniteSet(D)
  BY FiniteMovements DEF LayersOK
<1>6. PICK new : new = movements'
  OBVIOUS
<1>7. \A k \in D : /\ Stays(new[k], movements[k])
                   /\ new[k].reversedBy = IF k = o THEN n ELSE movements[k].reversedBy
                   /\ new[k].left = movements[k].left + back[k]
  BY <1>2, <1>6
<1> HIDE DEF back, D, E
<1>8. /\ new[n].cell = movements[o].cell /\ new[n].delta = -movements[o].delta
      /\ new[n].left = 0 /\ new[n].reversalOf = o
  BY <1>1, <1>2, <1>6 DEF Carries
<1>9. PICK rest : rest = Kept(draws, o)
  OBVIOUS
<1>10. LayersIn(new, rest, E)
  <2>1. E = D \cup {n} /\ o \in D
    BY <1>2 DEF E, D
  <2>2. movements[o].reversalOf = 0 /\ movements[o].reversedBy = 0
    BY <1>1
  <2> QED BY <1>3, <1>4, <1>5, <1>7, <1>8, <1>9, <2>1, <2>2, ReverseLayers
<1> QED BY <1>2, <1>4, <1>6, <1>9, <1>10 DEF LayersOK

LEMMA LayersPlain ==
  ASSUME IInv, LayersOK, NEW n, NewAt(n), RowsStand, NEW d, NEW c, NEW delta \in Int, NEW left,
         left = IF delta > 0 THEN delta ELSE 0,
         Carries(movements'[n], d, c, delta, left, 0, 0), draws' = draws
  PROVE  LayersOK'
<1>1. PICK new, E : new = movements' /\ E = DOMAIN movements'
  OBVIOUS
<1>2. n \notin DOMAIN movements /\ E = DOMAIN movements \cup {n}
  BY <1>1 DEF NewAt
<1>3. /\ \A k \in DOMAIN movements : new[k] = movements[k]
      /\ new[n].delta = delta /\ new[n].left = IF delta > 0 THEN delta ELSE 0
      /\ new[n].reversalOf = 0 /\ new[n].reversedBy = 0
  BY <1>1 DEF RowsStand, Carries
<1>4. LayersIn(movements, draws, DOMAIN movements) /\ IsFiniteSet(DOMAIN movements)
  BY FiniteMovements DEF LayersOK
<1>5. LayersIn(new, draws, E)
  BY <1>2, <1>3, <1>4, PlainLayers
<1> QED BY <1>1, <1>5 DEF LayersOK

LEMMA LayersTransfer ==
  ASSUME IInv, LayersOK, NEW p \in Procs, TransferStock(p)
  PROVE  LayersOK'
<1>1. PICK c, quantity, to, made, n, o : TransferRows(job[p].doc, c, quantity, to, made, n, o)
  BY TransferWrites
<1>2. PICK new, D, E, F : /\ new = movements' /\ D = DOMAIN movements
                          /\ E = D \cup {n} /\ F = E \cup {o}
  OBVIOUS
<1>3. /\ quantity \in Nat \ {0} /\ made \in Nat \ {0}
      /\ n \notin D /\ o \notin E /\ DOMAIN movements' = F
      /\ \A k \in D : new[k] = movements[k]
      /\ new[n].delta = -quantity /\ new[n].left = 0
      /\ new[n].reversalOf = 0 /\ new[n].reversedBy = 0
      /\ new[o].delta = made /\ new[o].left = made
      /\ new[o].reversalOf = 0 /\ new[o].reversedBy = 0
      /\ draws' = draws
  BY <1>1, <1>2 DEF TransferRows, RowsStand, Carries
<1>4. LayersIn(movements, draws, D) /\ IsFiniteSet(D)
  BY <1>2, FiniteMovements DEF LayersOK
<1>5. LayersIn(new, draws, E)
  <2>1. PICK less : less = -quantity
    OBVIOUS
  <2>2. less \in Int /\ new[n].delta = less /\ new[n].left = IF less > 0 THEN less ELSE 0
    BY <1>3, <2>1
  <2>3. new[n].reversalOf = 0 /\ new[n].reversedBy = 0 /\ n \notin D
        /\ \A k \in D : new[k] = movements[k]
    BY <1>3
  <2> QED BY <1>2, <1>4, <2>2, <2>3, PlainLayers
<1>6. LayersIn(new, draws, F)
  <2>1. IsFiniteSet(E)
    BY <1>2, <1>4, FS_AddElement
  <2>2. made \in Int /\ new[o].delta = made /\ new[o].left = IF made > 0 THEN made ELSE 0
    BY <1>3
  <2>3. new[o].reversalOf = 0 /\ new[o].reversedBy = 0 /\ o \notin E
        /\ \A k \in E : new[k] = new[k]
    BY <1>3
  <2> QED BY <1>2, <1>5, <2>1, <2>2, <2>3, PlainLayers
<1> QED BY <1>2, <1>3, <1>6 DEF LayersOK

LEMMA LayersCommit ==
  ASSUME OneUndo, IInv, LinksOK, LayersOK, NEW p \in Procs, Commit(p)
  PROVE  LayersOK'
<1> PICK j, c, quantity, n :
      j = job[p] /\ c = CellOf(j) /\ quantity = Doc[j.doc].qty /\ n = Len(movements) + 1
  OBVIOUS
<1>1. ASSUME ReceiveStock(p) PROVE LayersOK'
  <2>1. /\ quantity \in Nat \ {0} /\ NewAt(n) /\ RowsStand
        /\ Carries(movements'[n], j.doc, c, quantity, quantity, 0, 0) /\ draws' = draws
    BY <1>1, ReceiveWrites
  <2>2. quantity \in Int /\ quantity = IF quantity > 0 THEN quantity ELSE 0
    BY <2>1
  <2> QED BY <2>1, <2>2, LayersPlain
<1>2. ASSUME AdjustStock(p) PROVE LayersOK'
  <2>1. PICK left : left = IF quantity > 0 THEN quantity ELSE 0
    OBVIOUS
  <2>2. /\ quantity \in Int /\ NewAt(n) /\ RowsStand
        /\ Carries(movements'[n], j.doc, c, quantity, left, 0, 0) /\ draws' = draws
    BY <1>2, <2>1, AdjustWrites
  <2> QED BY <2>1, <2>2, LayersPlain
<1>3. ASSUME IssueVendorReturn(p) PROVE LayersOK'
  <2>1. PICK less : less = -quantity
    OBVIOUS
  <2>2. /\ quantity \in Nat \ {0} /\ NewAt(n) /\ RowsStand
        /\ Carries(movements'[n], j.doc, c, less, 0, 0, 0) /\ draws' = draws
    BY <1>3, <2>1, VendorReturnWrites
  <2>3. less \in Int /\ 0 = IF less > 0 THEN less ELSE 0
    BY <2>1, <2>2
  <2> QED BY <2>2, <2>3, LayersPlain
<1>4. ASSUME ReverseMovement(p) PROVE LayersOK'
  <2>1. j.doc \in Docs /\ Doc[j.doc].kind = "reverse" /\ Fresh(j.doc)
    BY <1>4, ReverseWrites
  <2>2. UndoesOK(j) /\ j.doc # None
    BY <2>1, StockAssumption DEF LinksOK
  <2>3. movements[j.orig].reversedBy = 0
    BY <2>1, <2>2, NotReversedYet, ZeroIsNone
  <2>4. movements[j.orig].reversalOf = 0
    BY <2>1, <2>2 DEF UndoesOK
  <2> QED BY <1>4, <2>3, <2>4, LayersReverse
<1>5. ASSUME ReserveStock(p) PROVE LayersOK'
  <2>1. UNCHANGED <<movements, draws>>
    BY <1>5, ReserveWrites
  <2> QED BY <2>1 DEF LayersOK
<1>6. ASSUME ShipTransfer(p) PROVE LayersOK'
  <2>1. PICK less : less = -quantity
    OBVIOUS
  <2>2. /\ quantity \in Nat \ {0} /\ NewAt(n) /\ RowsStand
        /\ Carries(movements'[n], j.doc, c, less, 0, 0, 0) /\ draws' = draws
    BY <1>6, <2>1, ShipWrites
  <2>3. less \in Int /\ 0 = IF less > 0 THEN less ELSE 0
    BY <2>1, <2>2
  <2> QED BY <2>2, <2>3, LayersPlain
<1>7. ASSUME ReceiveTransfer(p) PROVE LayersOK'
  <2>1. /\ quantity \in Nat \ {0} /\ NewAt(n) /\ RowsStand
        /\ Carries(movements'[n], j.doc, c, quantity, quantity, 0, 0) /\ draws' = draws
    BY <1>7, ArriveWrites
  <2>2. quantity \in Int /\ quantity = IF quantity > 0 THEN quantity ELSE 0
    BY <2>1
  <2> QED BY <2>1, <2>2, LayersPlain
<1> QED BY <1>1, <1>2, <1>3, <1>4, <1>5, <1>6, <1>7, LayersIssue, LayersTransfer DEF Commit

LEMMA LayersNext ==
  ASSUME OneUndo, IInv, LinksOK, LayersOK, [Next]_vars
  PROVE  LayersOK'
<1>1. ASSUME UNCHANGED <<movements, draws>> PROVE LayersOK'
  BY <1>1 DEF LayersOK
<1>2. CASE UNCHANGED vars
  BY <1>1, <1>2 DEF vars
<1>3. ASSUME NEW p \in Procs,
             Begin(p) \/ LockBalance(p) \/ ReadLot(p) \/ Refuse(p) \/ Crash(p)
      PROVE  LayersOK'
  <2>1. UNCHANGED <<movements, draws>>
    BY <1>3 DEF Begin, BeginReceive, BeginIssue, BeginTransfer, BeginShipment, BeginArrival,
                BeginAdjust, BeginReverse, BeginVendorReturn, BeginReserve, Start, LockBalance,
                ReadLot, Refuse, Crash, tables
  <2> QED BY <1>1, <2>1
<1>4. ASSUME NEW p \in Procs, Commit(p) PROVE LayersOK'
  BY <1>4, LayersCommit
<1> QED BY <1>2, <1>3, <1>4 DEF Next

LEMMA LayersInit == Init => LayersOK
<1> SUFFICES ASSUME Init PROVE LayersOK
  OBVIOUS
<1>1. DOMAIN movements = {} /\ draws = {}
  BY DEF Init
<1>2. DrawnRowsOK(draws)
  BY <1>1, FS_EmptySet DEF DrawnRowsOK
<1>3. ASSUME NEW c \in Cells PROVE ExcessIn(movements, draws, DOMAIN movements, c) = 0
  BY <1>1, SumEmpty DEF ExcessIn
<1> QED BY <1>1, <1>2, <1>3 DEF LayersOK, LayersIn

(* The layers that FIFO issues draw from cover the stock on hand: an issue *)
(* that the balance allows never fails for want of a layer.  An issue at   *)
(* average cost that was undone twice would come back to the stock twice   *)
(* and to no layer.                                                        *)
THEOREM LayersCoverStock ==
  ASSUME OneUndo
  PROVE  Spec => []LayersCoverOnHand
<1>1. Init => OnHandIs /\ LinksOK /\ LayersOK
  BY LinksInit, LayersInit, OnHandInit
<1>2. IInv /\ OnHandIs /\ LinksOK /\ LayersOK /\ [Next]_vars
        => OnHandIs' /\ LinksOK' /\ LayersOK'
  BY OnHandNext, LinksNext, LayersNext
<1>3. IInv /\ OnHandIs /\ LayersOK => LayersCoverOnHand
  BY LayersCover
<1> QED BY <1>1, <1>2, <1>3, Invariance, PTL DEF Spec

-----------------------------------------------------------------------------
(* Lots.  A lot's row is read and saved under the lock of a balance row,   *)
(* so two calls may write it at once only if two cells hold it.            *)
OneAtATime == \A p, q \in Procs : p = q
LotsApart  == \A b, c \in Cells : LotOf[b] # None /\ LotOf[b] = LotOf[c] => b = c
LotsHold   == OneAtATime \/ LotsApart

(* What a movement adds to what is left of its cell's lot.                 *)
LotTerm(mv) == (IF mv.delta > 0 /\ mv.reversalOf = 0 THEN mv.delta ELSE 0) - mv.lotDrawn

LotTermIn(table, D, l) == [m \in D |-> IF LotOf[table[m].cell] = l THEN LotTerm(table[m]) ELSE 0]

LotIn(table, D, l) == SumFunctionOnSet(LotTermIn(table, D, l), D)

TermsOK(table, D) == \A m \in D : table[m].delta \in Int /\ table[m].lotDrawn \in Int

LEMMA TermInt ==
  ASSUME NEW table, NEW D, TermsOK(table, D), NEW l
  PROVE  /\ \A m \in D : LotTerm(table[m]) \in Int
         /\ IntOn(LotTermIn(table, D, l), D)
<1>1. \A m \in D : LotTerm(table[m]) \in Int
  BY DEF TermsOK, LotTerm
<1> QED BY <1>1 DEF IntOn, LotTermIn

(* One movement more, and one whose part of the lot changes.               *)
LEMMA LotMoves ==
  ASSUME NEW old, NEW new, NEW D, IsFiniteSet(D), NEW n, n \notin D, NEW E, E = D \cup {n},
         TermsOK(old, D), TermsOK(new, E),
         \A k \in D : new[k].cell = old[k].cell, NEW o \in D,
         \A k \in D \ {o} : LotTerm(new[k]) = LotTerm(old[k]),
         NEW c, new[n].cell = c, new[o].cell = c, NEW l,
         NEW gain \in Int, gain = LotTerm(new[n]) + LotTerm(new[o]) - LotTerm(old[o])
  PROVE  LotIn(new, E, l) = LotIn(old, D, l) + (IF LotOf[c] = l THEN gain ELSE 0)
<1> DEFINE f == LotTermIn(old, D, l)
           h == LotTermIn(new, E, l)
<1>1. /\ \A k \in D : f[k] = IF LotOf[old[k].cell] = l THEN LotTerm(old[k]) ELSE 0
      /\ \A k \in E : h[k] = IF LotOf[new[k].cell] = l THEN LotTerm(new[k]) ELSE 0
  BY DEF LotTermIn
<1>2. IntOn(f, D) /\ IntOn(h, E) /\ \A k \in E : LotTerm(new[k]) \in Int
  BY TermInt
<1>3. LotTerm(old[o]) \in Int
  BY TermInt
<1>4. LotIn(new, E, l) = SumFunctionOnSet(h, E) /\ LotIn(old, D, l) = SumFunctionOnSet(f, D)
  BY DEF LotIn
<1> HIDE DEF f, h
<1>5. \A k \in D \ {o} : h[k] = f[k]
  BY <1>1
<1>6. IntOn(h, D) /\ h[n] \in Int
  BY <1>2 DEF IntOn
<1>7. SumFunctionOnSet(h, D) = SumFunctionOnSet(f, D) - f[o] + h[o]
  BY <1>2, <1>5, <1>6, SumChange
<1>8. SumFunctionOnSet(h, E) = h[n] + SumFunctionOnSet(h, D)
  BY <1>6, SumAdd
<1>9. SumFunctionOnSet(f, D) \in Int
  BY <1>2, SumInt
<1>10. /\ h[n] = IF LotOf[c] = l THEN LotTerm(new[n]) ELSE 0
       /\ h[o] = IF LotOf[c] = l THEN LotTerm(new[o]) ELSE 0
       /\ f[o] = IF LotOf[c] = l THEN LotTerm(old[o]) ELSE 0
  BY <1>1
<1>11. LotTerm(new[n]) \in Int /\ LotTerm(new[o]) \in Int
  BY <1>2
<1> QED BY <1>3, <1>4, <1>7, <1>8, <1>9, <1>10, <1>11

LEMMA LotGrows ==
  ASSUME NEW old, NEW new, NEW D, IsFiniteSet(D), NEW n, n \notin D, NEW E, E = D \cup {n},
         TermsOK(old, D), TermsOK(new, E),
         \A k \in D : new[k].cell = old[k].cell /\ LotTerm(new[k]) = LotTerm(old[k]),
         NEW c, new[n].cell = c, NEW l, NEW gain \in Int, gain = LotTerm(new[n])
  PROVE  LotIn(new, E, l) = LotIn(old, D, l) + (IF LotOf[c] = l THEN gain ELSE 0)
<1> DEFINE f == LotTermIn(old, D, l)
           h == LotTermIn(new, E, l)
<1>1. /\ \A k \in D : h[k] = f[k]
      /\ h[n] = IF LotOf[c] = l THEN gain ELSE 0
  BY DEF LotTermIn
<1>2. IntOn(f, D) /\ h[n] \in Int
  BY <1>1, TermInt
<1>3. LotIn(new, E, l) = SumFunctionOnSet(h, E) /\ LotIn(old, D, l) = SumFunctionOnSet(f, D)
  BY DEF LotIn
<1> HIDE DEF f, h
<1>4. IntOn(f, D) /\ h[n] \in Int
  BY <1>2
<1>5. \A k \in D : h[k] = f[k]
  BY <1>1
<1>6. SumFunctionOnSet(h, E) = SumFunctionOnSet(f, D) + h[n]
  <2>1. IntOn(h, D)
    BY <1>4, <1>5 DEF IntOn
  <2>2. SumFunctionOnSet(h, D) = SumFunctionOnSet(f, D)
    BY <1>4, <1>5, <2>1, SumSame
  <2>3. SumFunctionOnSet(h, D \cup {n}) = h[n] + SumFunctionOnSet(h, D)
    BY <1>4, <2>1, SumAdd
  <2>4. SumFunctionOnSet(f, D) \in Int
    BY <1>4, SumInt
  <2> QED BY <1>4, <2>2, <2>3, <2>4
<1>7. SumFunctionOnSet(f, D) \in Int
  BY <1>2, SumInt
<1> QED BY <1>1, <1>3, <1>6, <1>7

LotReadOK(p) ==
  job[p].stage = "lot" =>
    LET c == CellOf(job[p])
    IN /\ job[p].doc \in Docs /\ c \in Cells /\ seen[p][c] # None
       /\ UsesLot(job[p]) /\ seenLot[p] = lotLeft[LotOf[c]]

UntrackedOK(j) ==
  j.doc # None =>
    /\ Doc[j.doc].kind \in {"transfer", "build", "adjust"} => LotOf[Doc[j.doc].cell] = None
    /\ Doc[j.doc].kind \in {"transfer", "build"} => LotOf[Doc[j.doc].to] = None

LotsOK ==
  /\ DOMAIN lotLeft = Lots /\ \A l \in Lots : lotLeft[l] \in Int
  /\ DOMAIN seenLot = Procs
  /\ TermsOK(movements, DOMAIN movements)
  /\ \A p \in Procs : LotReadOK(p) /\ UntrackedOK(job[p])
  /\ \A l \in Lots : lotLeft[l] = LotIn(movements, DOMAIN movements, l)

(* Nobody else has read a lot that a commit writes.                        *)
LotWrite(c) ==
  \/ lotLeft' = lotLeft
  \/ LotOf[c] # None /\ \E v : lotLeft' = [lotLeft EXCEPT ![LotOf[c]] = v]

LEMMA LotEnd ==
  ASSUME LotsHold, IInv, LotsOK, NEW p \in Procs, End(p), NEW c \in Cells, seen[p][c] # None,
         LotWrite(c), DOMAIN movements \subseteq DOMAIN movements',
         \A k \in DOMAIN movements : Stays(movements'[k], movements[k])
  PROVE  DOMAIN seenLot' = Procs /\ \A q \in Procs : LotReadOK(q)' /\ UntrackedOK(job[q])'
<1>1. /\ \A q \in Procs \ {p} : /\ job'[q] = job[q] /\ seen'[q] = seen[q]
                                /\ seenLot'[q] = seenLot[q]
      /\ job'[p] = Idle /\ DOMAIN seenLot' = Procs
  BY DEF End, IInv, LotsOK
<1>2. SUFFICES ASSUME NEW q \in Procs PROVE LotReadOK(q)' /\ UntrackedOK(job[q])'
  BY <1>1
<1>3. CASE q = p
  <2>1. job'[q].doc = None /\ job'[q].stage # "lot"
    BY <1>1, <1>3 DEF Idle
  <2>2. LotReadOK(q)'
    BY <2>1 DEF LotReadOK
  <2>3. UntrackedOK(job[q])'
    BY <2>1 DEF UntrackedOK
  <2> QED BY <2>2, <2>3
<1>4. CASE q # p
  <2>1. job'[q] = job[q] /\ seen'[q] = seen[q] /\ seenLot'[q] = seenLot[q]
    BY <1>1, <1>4
  <2>2. UntrackedOK(job[q])'
    BY <2>1 DEF LotsOK, UntrackedOK
  <2>3. ASSUME job[q].stage = "lot" PROVE LotReadOK(q)'
    <3>1. PICK d : d = CellOf(job[q])
      OBVIOUS
    <3>2. /\ job[q].doc \in Docs /\ d \in Cells /\ seen[q][d] # None
          /\ UsesLot(job[q]) /\ seenLot[q] = lotLeft[LotOf[d]] /\ LotOf[d] # None
      BY <2>3, <3>1 DEF LotsOK, LotReadOK, UsesLot
    <3>3. Doc[job[q].doc].kind = "reverse" => job[q].orig \in DOMAIN movements
      BY <3>2 DEF IInv, JobOK, Refers
    <3>4. CellOf(job[q])' = d
      BY <2>1, <3>1, <3>3 DEF CellOf, Stays
    <3>5. UsesLot(job[q])'
      BY <2>1, <3>1, <3>2, <3>3, <3>4 DEF UsesLot, NamesLot, Stays
    <3>6. LotOf[d] # LotOf[c] \/ LotOf[c] = None
      <4>1. SUFFICES ASSUME LotOf[d] = LotOf[c], LotOf[c] # None PROVE FALSE
        OBVIOUS
      <4>2. d = c
        BY <1>4, <3>2, <4>1 DEF LotsHold, OneAtATime, LotsApart
      <4>3. lock[c] = p /\ lock[c] = q
        BY <3>2, <4>2 DEF IInv, SeenOK
      <4> QED BY <1>4, <4>3
    <3>7. lotLeft'[LotOf[d]] = lotLeft[LotOf[d]]
      <4>1. LotOf[d] \in Lots
        BY <3>2, StockAssumption
      <4> QED BY <3>2, <3>6, <4>1 DEF LotWrite, LotsOK
    <3> QED BY <2>1, <3>2, <3>4, <3>5, <3>7 DEF LotReadOK
  <2>4. ASSUME job[q].stage # "lot" PROVE LotReadOK(q)'
    BY <2>1, <2>4 DEF LotReadOK
  <2> QED BY <2>2, <2>3, <2>4
<1> QED BY <1>3, <1>4

(* What a commit does to the lots: all of them but that of cell c stand.   *)
LotGoes(c, gain) ==
  /\ DOMAIN lotLeft' = Lots
  /\ \A l \in Lots : /\ lotLeft'[l] \in Int
                     /\ lotLeft'[l] = lotLeft[l] + (IF LotOf[c] = l THEN gain ELSE 0)

LEMMA LotStands ==
  ASSUME LotsOK, lotLeft' = lotLeft, NEW c \in Cells, NEW gain \in Int,
         gain = 0 \/ LotOf[c] = None
  PROVE  LotGoes(c, gain) /\ LotWrite(c)
<1>1. \A l \in Lots : lotLeft[l] \in Int /\ lotLeft'[l] = lotLeft[l]
  BY DEF LotsOK
<1>2. \A l \in Lots : LotOf[c] = l => gain = 0
  BY StockAssumption
<1>3. \A l \in Lots : /\ lotLeft'[l] \in Int
                      /\ lotLeft'[l] = lotLeft[l] + (IF LotOf[c] = l THEN gain ELSE 0)
  BY <1>1, <1>2
<1> QED BY <1>3 DEF LotGoes, LotWrite, LotsOK

LEMMA LotSaved ==
  ASSUME IInv, LotsOK, NEW p \in Procs, NEW j, j = job[p], NEW c \in Cells, c = CellOf(j),
         j.stage = IF UsesLot(j) THEN "lot" ELSE "balance",
         NEW gain \in Int, ~UsesLot(j) => gain = 0 \/ LotOf[c] = None,
         NEW v, UsesLot(j) /\ seenLot[p] \in Int => v = seenLot[p] + gain,
         lotLeft' = IF UsesLot(j) THEN [lotLeft EXCEPT ![LotOf[c]] = v] ELSE lotLeft
  PROVE  LotGoes(c, gain) /\ LotWrite(c)
<1>1. CASE ~UsesLot(j)
  BY <1>1, LotStands
<1>2. CASE UsesLot(j)
  <2>1. LotOf[c] \in Lots /\ LotOf[c] # None
    BY <1>2, StockAssumption DEF UsesLot
  <2>2. seenLot[p] = lotLeft[LotOf[c]]
    BY <1>2 DEF LotsOK, LotReadOK
  <2>3. seenLot[p] \in Int
    BY <2>1, <2>2 DEF LotsOK
  <2>4. v = lotLeft[LotOf[c]] + gain
    BY <1>2, <2>2, <2>3
  <2>5. lotLeft' = [lotLeft EXCEPT ![LotOf[c]] = v]
    BY <1>2
  <2>6. LotWrite(c)
    BY <2>1, <2>5 DEF LotWrite
  <2> QED BY <2>1, <2>4, <2>5, <2>6 DEF LotGoes, LotsOK
<1> QED BY <1>1, <1>2

LotCommitted(p, c) ==
  /\ End(p) /\ seen[p][c] # None /\ LotWrite(c)
  /\ \A k \in DOMAIN movements : Stays(movements'[k], movements[k])

LEMMA LotsFrom ==
  ASSUME LotsHold, IInv, LotsOK, NEW p \in Procs, NEW c \in Cells, LotCommitted(p, c),
         DOMAIN movements \subseteq DOMAIN movements', NEW gain, LotGoes(c, gain),
         TermsOK(movements, DOMAIN movements)',
         \A l \in Lots : LotIn(movements, DOMAIN movements, l)'
                           = LotIn(movements, DOMAIN movements, l)
                             + (IF LotOf[c] = l THEN gain ELSE 0)
  PROVE  LotsOK'
<1>1. DOMAIN seenLot' = Procs /\ \A q \in Procs : LotReadOK(q)' /\ UntrackedOK(job[q])'
  BY LotEnd DEF LotCommitted
<1>2. DOMAIN lotLeft' = Lots /\ \A l \in Lots : lotLeft'[l] \in Int
  BY DEF LotGoes
<1>3. \A l \in Lots : lotLeft'[l] = LotIn(movements, DOMAIN movements, l)'
  <2> SUFFICES ASSUME NEW l \in Lots
               PROVE  lotLeft'[l] = LotIn(movements, DOMAIN movements, l)'
    OBVIOUS
  <2>1. lotLeft[l] = LotIn(movements, DOMAIN movements, l)
    BY DEF LotsOK
  <2>2. lotLeft'[l] = lotLeft[l] + (IF LotOf[c] = l THEN gain ELSE 0)
    BY DEF LotGoes
  <2> QED BY <2>1, <2>2
<1> QED BY <1>1, <1>2, <1>3 DEF LotsOK

LEMMA LotAppend ==
  ASSUME LotsHold, IInv, LotsOK, NEW p \in Procs, NEW c \in Cells, LotCommitted(p, c),
         NEW n, NewAt(n), NEW d, NEW delta \in Int, NEW left, NEW drawn \in Int, NEW of,
         Carries(movements'[n], d, c, delta, left, drawn, of),
         \A k \in DOMAIN movements : movements'[k].lotDrawn = movements[k].lotDrawn,
         NEW gain \in Int, gain = (IF delta > 0 /\ of = 0 THEN delta ELSE 0) - drawn,
         LotGoes(c, gain)
  PROVE  LotsOK'
<1> DEFINE D == DOMAIN movements
           E == DOMAIN movements'
<1>1. n \notin D /\ E = D \cup {n} /\ IsFiniteSet(D)
  BY FiniteMovements DEF NewAt
<1>2. TermsOK(movements, D)
  BY DEF LotsOK
<1>3. \A k \in D : Stays(movements'[k], movements[k])
  BY DEF LotCommitted
<1>4. /\ movements'[n].cell = c /\ movements'[n].delta = delta
      /\ movements'[n].lotDrawn = drawn /\ movements'[n].reversalOf = of
  BY DEF Carries
<1>5. TermsOK(movements', E)
  BY <1>1, <1>2, <1>3, <1>4 DEF TermsOK, Stays
<1>6. \A k \in D : /\ movements'[k].cell = movements[k].cell
                   /\ LotTerm(movements'[k]) = LotTerm(movements[k])
  BY <1>3 DEF Stays, LotTerm
<1>7. LotTerm(movements'[n]) = gain
  BY <1>4 DEF LotTerm
<1> HIDE DEF D, E
<1>8. \A l \in Lots : LotIn(movements', E, l)
                        = LotIn(movements, D, l) + (IF LotOf[c] = l THEN gain ELSE 0)
  BY <1>1, <1>2, <1>4, <1>5, <1>6, <1>7, LotGrows
<1> QED BY <1>1, <1>5, <1>8, LotsFrom DEF D, E

LEMMA CommitStage ==
  ASSUME IInv, NEW p \in Procs, NEW kinds, Committing(p, kinds)
  PROVE  LET j == job[p]
             c == CellOf(j)
         IN /\ j.stage = IF UsesLot(j) THEN "lot" ELSE "balance"
            /\ End(p) /\ c \in Cells /\ seen[p][c] # None
            /\ j.doc \in Docs /\ Doc[j.doc].kind \in kinds
            /\ UsesLot(j) /\ Doc[j.doc].kind = "reverse" => movements[j.orig].lotDrawn > 0
<1>1. Ready(p, kinds) /\ CanCommit(p)
  BY DEF Committing
<1>2. job[p].stage = IF UsesLot(job[p]) THEN "lot" ELSE "balance"
  BY <1>1 DEF Ready
<1>3. job[p].stage = "lot" => LotAllows(p)
  BY <1>1 DEF CanCommit
<1>4. LotAllows(p) /\ Doc[job[p].doc].kind = "reverse" => movements[job[p].orig].lotDrawn > 0
  BY DEF LotAllows
<1> QED BY <1>2, <1>3, <1>4, CommitFacts

LEMMA LotsReceive ==
  ASSUME LotsHold, IInv, LotsOK, NEW p \in Procs, ReceiveStock(p)
  PROVE  LotsOK'
<1>1. PICK j, c, quantity, n : /\ j = job[p] /\ c = CellOf(j) /\ quantity = Doc[j.doc].qty
                               /\ n = Len(movements) + 1
  OBVIOUS
<1>2. Committing(p, {"receive"})
  BY DEF ReceiveStock
<1>3. /\ j.stage = (IF UsesLot(j) THEN "lot" ELSE "balance")
      /\ End(p) /\ c \in Cells /\ seen[p][c] # None
  BY <1>1, <1>2, CommitStage
<1>4. /\ quantity \in Nat \ {0} /\ Doc[j.doc].kind = "receive" /\ NewAt(n) /\ RowsStand
      /\ Carries(movements'[n], j.doc, c, quantity, quantity, 0, 0)
  BY <1>1, ReceiveWrites
<1>5. PICK v : /\ v = seenLot[p] + quantity
               /\ lotLeft' = IF UsesLot(j) THEN [lotLeft EXCEPT ![LotOf[c]] = v] ELSE lotLeft
  BY <1>1 DEF ReceiveStock
<1>6. quantity \in Int /\ (~UsesLot(j) => LotOf[c] = None)
  BY <1>1, <1>4 DEF UsesLot, NamesLot
<1>7. LotGoes(c, quantity) /\ LotWrite(c)
  BY <1>1, <1>3, <1>4, <1>5, <1>6, LotSaved
<1>8. \A k \in DOMAIN movements : /\ Stays(movements'[k], movements[k])
                                  /\ movements'[k].lotDrawn = movements[k].lotDrawn
  BY <1>4 DEF RowsStand, Stays
<1>9. LotCommitted(p, c)
  BY <1>3, <1>7, <1>8 DEF LotCommitted
<1>10. PICK zero \in Int :
         /\ zero = 0 /\ Carries(movements'[n], j.doc, c, quantity, quantity, zero, zero)
         /\ quantity = (IF quantity > 0 /\ zero = 0 THEN quantity ELSE 0) - zero
  BY <1>4
<1> QED BY <1>3, <1>4, <1>7, <1>8, <1>9, <1>10, LotAppend

LEMMA LotsIssue ==
  ASSUME LotsHold, IInv, LotsOK, NEW p \in Procs, IssueStock(p)
  PROVE  LotsOK'
<1>1. PICK j, c, quantity, n, drawn : /\ j = job[p] /\ c = CellOf(j) /\ quantity = Doc[j.doc].qty
                                      /\ n = Len(movements) + 1
                                      /\ drawn = IF UsesLot(j) THEN quantity ELSE 0
  OBVIOUS
<1>2. Committing(p, {"issue"})
  BY DEF IssueStock
<1>3. /\ j.stage = (IF UsesLot(j) THEN "lot" ELSE "balance")
      /\ End(p) /\ c \in Cells /\ seen[p][c] # None
  BY <1>1, <1>2, CommitStage
<1>4. /\ quantity \in Nat \ {0} /\ NewAt(n)
      /\ \A k \in DOMAIN movements : /\ Stays(movements'[k], movements[k])
                                     /\ movements'[k].lotDrawn = movements[k].lotDrawn
      /\ Carries(movements'[n], j.doc, c, -quantity, 0, drawn, 0)
  BY <1>1, IssueWrites
<1>5. PICK v : v = seenLot[p] - quantity
  OBVIOUS
<1>6. lotLeft' = IF UsesLot(j) THEN [lotLeft EXCEPT ![LotOf[c]] = v] ELSE lotLeft
  BY <1>1, <1>5 DEF IssueStock
<1>7. PICK gain \in Int : gain = 0 - drawn /\ drawn \in Int /\ -quantity \in Int
  <2>1. drawn \in Int /\ 0 - drawn \in Int /\ -quantity \in Int
    BY <1>1, <1>4
  <2> QED BY <2>1
<1>8. UsesLot(j) /\ seenLot[p] \in Int => v = seenLot[p] + gain
  BY <1>1, <1>4, <1>5, <1>7
<1>9. ASSUME ~UsesLot(j) PROVE gain = 0
  BY <1>1, <1>7, <1>9
<1>10. LotGoes(c, gain) /\ LotWrite(c)
  BY <1>1, <1>3, <1>6, <1>7, <1>8, <1>9, LotSaved
<1>11. LotCommitted(p, c)
  BY <1>3, <1>4, <1>10 DEF LotCommitted
<1>12. PICK zero : /\ zero = 0 /\ Carries(movements'[n], j.doc, c, -quantity, zero, drawn, zero)
                   /\ gain = (IF -quantity > 0 /\ zero = 0 THEN -quantity ELSE 0) - drawn
  BY <1>4, <1>7
<1> QED BY <1>3, <1>4, <1>7, <1>10, <1>11, <1>12, LotAppend

LEMMA LotsAdjust ==
  ASSUME LotsHold, IInv, LotsOK, NEW p \in Procs, AdjustStock(p)
  PROVE  LotsOK'
<1>1. PICK j, c, delta, n : /\ j = job[p] /\ c = CellOf(j) /\ delta = Doc[j.doc].qty
                            /\ n = Len(movements) + 1
  OBVIOUS
<1>2. Committing(p, {"adjust"}) /\ lotLeft' = lotLeft
  BY DEF AdjustStock
<1>3. End(p) /\ c \in Cells /\ seen[p][c] # None /\ j.doc \in Docs
  BY <1>1, <1>2, CommitStage
<1>4. PICK left, zero \in Int :
        /\ delta \in Int /\ Doc[j.doc].kind = "adjust" /\ c = Doc[j.doc].cell
        /\ NewAt(n) /\ RowsStand /\ zero = 0
        /\ Carries(movements'[n], j.doc, c, delta, left, zero, zero)
  BY <1>1, AdjustWrites
<1>5. LotOf[c] = None
  BY <1>1, <1>3, <1>4, StockAssumption DEF LotsOK, UntrackedOK
<1>6. PICK gain \in Int : gain = (IF delta > 0 /\ zero = 0 THEN delta ELSE 0) - zero
  BY <1>4
<1>7. LotGoes(c, gain) /\ LotWrite(c)
  BY <1>2, <1>3, <1>5, LotStands
<1>8. \A k \in DOMAIN movements : /\ Stays(movements'[k], movements[k])
                                  /\ movements'[k].lotDrawn = movements[k].lotDrawn
  BY <1>4 DEF RowsStand, Stays
<1>9. LotCommitted(p, c)
  BY <1>3, <1>7, <1>8 DEF LotCommitted
<1> QED BY <1>3, <1>4, <1>6, <1>7, <1>8, <1>9, LotAppend

LEMMA LotsVendorReturn ==
  ASSUME LotsHold, IInv, LotsOK, NEW p \in Procs, IssueVendorReturn(p)
  PROVE  LotsOK'
<1>1. PICK j, c, quantity, n : /\ j = job[p] /\ c = CellOf(j) /\ quantity = Doc[j.doc].qty
                               /\ n = Len(movements) + 1
  OBVIOUS
<1>2. Committing(p, {"vendorReturn"}) /\ lotLeft' = lotLeft
  BY DEF IssueVendorReturn
<1>3. End(p) /\ c \in Cells /\ seen[p][c] # None
  BY <1>1, <1>2, CommitStage
<1>4. PICK zero \in Int : /\ quantity \in Nat \ {0} /\ NewAt(n) /\ RowsStand /\ zero = 0
                          /\ Carries(movements'[n], j.doc, c, -quantity, zero, zero, zero)
  BY <1>1, VendorReturnWrites
<1>5. -quantity \in Int /\ zero = (IF -quantity > 0 /\ zero = 0 THEN -quantity ELSE 0) - zero
  BY <1>4
<1>6. LotGoes(c, zero) /\ LotWrite(c)
  BY <1>2, <1>3, <1>4, LotStands
<1>7. \A k \in DOMAIN movements : /\ Stays(movements'[k], movements[k])
                                  /\ movements'[k].lotDrawn = movements[k].lotDrawn
  BY <1>4 DEF RowsStand, Stays
<1>8. LotCommitted(p, c)
  BY <1>3, <1>6, <1>7 DEF LotCommitted
<1> QED BY <1>3, <1>4, <1>5, <1>6, <1>7, <1>8, LotAppend

(* Two movements, of cells without a lot.                                  *)
LEMMA LotsTransfer ==
  ASSUME LotsHold, IInv, LotsOK, NEW p \in Procs, TransferStock(p)
  PROVE  LotsOK'
<1>1. Committing(p, {"transfer", "build"}) /\ lotLeft' = lotLeft
  BY DEF TransferStock
<1>2. PICK d, c, quantity, to, made, n, o :
        d = job[p].doc /\ TransferRows(d, c, quantity, to, made, n, o)
  BY TransferWrites
<1>3. /\ quantity \in Nat \ {0} /\ made \in Nat \ {0} /\ d \in Docs
      /\ c \in Cells /\ to \in Cells /\ c = Doc[d].cell /\ to = Doc[d].to
      /\ Doc[d].kind \in {"transfer", "build"}
      /\ n \notin DOMAIN movements /\ o \notin DOMAIN movements /\ n # o
      /\ DOMAIN movements' = DOMAIN movements \cup {n, o} /\ RowsStand
      /\ Carries(movements'[n], d, c, -quantity, 0, 0, 0)
      /\ Carries(movements'[o], d, to, made, made, 0, 0)
  BY <1>2 DEF TransferRows
<1>4. LotOf[c] = None /\ LotOf[to] = None
  BY <1>2, <1>3, StockAssumption DEF LotsOK, UntrackedOK
<1>5. End(p) /\ seen[p][c] # None
  <2>1. job[p].part = "both"
    BY DEF TransferStock
  <2>2. CellOf(job[p]) = c
    BY <1>2, <1>3, <2>1 DEF CellOf
  <2> QED BY <1>1, <2>2, CommitStage
<1> DEFINE D == DOMAIN movements
           E == D \cup {n}
           F == DOMAIN movements'
<1>6. IsFiniteSet(D) /\ IsFiniteSet(E) /\ F = E \cup {o} /\ n \notin D /\ o \notin E
  BY <1>3, FiniteMovements, FS_AddElement
<1>7. /\ TermsOK(movements, D)
      /\ \A k \in D : movements'[k] = movements[k]
  BY <1>3 DEF LotsOK, RowsStand
<1>8. /\ movements'[n].cell = c /\ movements'[n].delta = -quantity
      /\ movements'[n].lotDrawn = 0 /\ movements'[n].reversalOf = 0
      /\ movements'[o].cell = to /\ movements'[o].delta = made
      /\ movements'[o].lotDrawn = 0 /\ movements'[o].reversalOf = 0
  BY <1>3 DEF Carries
<1>9. TermsOK(movements', E) /\ TermsOK(movements', F)
  BY <1>3, <1>6, <1>7, <1>8 DEF TermsOK
<1>10. LotTerm(movements'[n]) \in Int /\ LotTerm(movements'[o]) \in Int
  BY <1>3, <1>8 DEF LotTerm
<1>11. \A k \in D : /\ movements'[k].cell = movements[k].cell
                    /\ LotTerm(movements'[k]) = LotTerm(movements[k])
  BY <1>7
<1> HIDE DEF D, E, F
<1>12. ASSUME NEW l \in Lots
       PROVE  LotIn(movements', F, l) = LotIn(movements, D, l)
  <2>1. l # None
    BY StockAssumption
  <2>2. PICK g \in Int : g = LotTerm(movements'[n])
    BY <1>10
  <2>3. PICK h \in Int : h = LotTerm(movements'[o])
    BY <1>10
  <2>4. LotIn(movements', E, l) = LotIn(movements, D, l) + (IF LotOf[c] = l THEN g ELSE 0)
    <3>1. TermsOK(movements, D) /\ IsFiniteSet(D) /\ n \notin D /\ E = D \cup {n}
          /\ TermsOK(movements', E) /\ movements'[n].cell = c
      BY <1>6, <1>7, <1>8, <1>9 DEF E
    <3> QED BY <1>11, <2>2, <3>1, LotGrows
  <2>5. \A k \in E : /\ movements'[k].cell = movements'[k].cell
                     /\ LotTerm(movements'[k]) = LotTerm(movements'[k])
    OBVIOUS
  <2>6. LotIn(movements', F, l) = LotIn(movements', E, l) + (IF LotOf[to] = l THEN h ELSE 0)
    BY <1>6, <1>8, <1>9, <2>3, <2>5, LotGrows
  <2>7. LotIn(movements, D, l) \in Int
    BY <1>6, <1>7, TermInt, SumInt DEF LotIn
  <2> QED BY <1>4, <2>1, <2>4, <2>6, <2>7
<1>13. PICK gain \in Int : gain = 0
  OBVIOUS
<1>14. LotGoes(c, gain) /\ LotWrite(c)
  BY <1>1, <1>3, <1>13, LotStands
<1>15. LotCommitted(p, c)
  BY <1>5, <1>7, <1>14 DEF LotCommitted, Stays, D
<1>16. \A l \in Lots : LotIn(movements', F, l)
                         = LotIn(movements, D, l) + (IF LotOf[c] = l THEN gain ELSE 0)
  <2> SUFFICES ASSUME NEW l \in Lots
               PROVE  LotIn(movements', F, l)
                        = LotIn(movements, D, l) + (IF LotOf[c] = l THEN gain ELSE 0)
    OBVIOUS
  <2>1. LotIn(movements, D, l) \in Int
    BY <1>6, <1>7, TermInt, SumInt DEF LotIn
  <2> QED BY <1>12, <1>13, <2>1
<1>17. D \subseteq F
  BY <1>3 DEF D, F
<1> QED BY <1>3, <1>9, <1>14, <1>15, <1>16, <1>17, LotsFrom DEF D, F

(* The legs of a transfer in two calls, of cells without a lot.            *)
LEMMA LotsShip ==
  ASSUME LotsHold, IInv, LotsOK, NEW p \in Procs, ShipTransfer(p)
  PROVE  LotsOK'
<1>1. PICK j, c, quantity, n : /\ j = job[p] /\ c = CellOf(j) /\ quantity = Doc[j.doc].qty
                               /\ n = Len(movements) + 1
  OBVIOUS
<1>2. Committing(p, {"transfer"}) /\ lotLeft' = lotLeft
  BY DEF ShipTransfer
<1>3. End(p) /\ c \in Cells /\ seen[p][c] # None
  BY <1>1, <1>2, CommitStage
<1>4. PICK zero \in Int : /\ quantity \in Nat \ {0} /\ NewAt(n) /\ RowsStand /\ zero = 0
                          /\ Carries(movements'[n], j.doc, c, -quantity, zero, zero, zero)
  BY <1>1, ShipWrites
<1>5. -quantity \in Int /\ zero = (IF -quantity > 0 /\ zero = 0 THEN -quantity ELSE 0) - zero
  BY <1>4
<1>6. LotGoes(c, zero) /\ LotWrite(c)
  BY <1>2, <1>3, <1>4, LotStands
<1>7. \A k \in DOMAIN movements : /\ Stays(movements'[k], movements[k])
                                  /\ movements'[k].lotDrawn = movements[k].lotDrawn
  BY <1>4 DEF RowsStand, Stays
<1>8. LotCommitted(p, c)
  BY <1>3, <1>6, <1>7 DEF LotCommitted
<1> QED BY <1>3, <1>4, <1>5, <1>6, <1>7, <1>8, LotAppend

LEMMA LotsArrive ==
  ASSUME LotsHold, IInv, LotsOK, NEW p \in Procs, ReceiveTransfer(p)
  PROVE  LotsOK'
<1>1. PICK j, c, quantity, n : /\ j = job[p] /\ c = CellOf(j) /\ quantity = Doc[j.doc].qty
                               /\ n = Len(movements) + 1
  OBVIOUS
<1>2. Committing(p, {"transfer"}) /\ lotLeft' = lotLeft
  BY DEF ReceiveTransfer
<1>3. End(p) /\ c \in Cells /\ seen[p][c] # None /\ j.doc \in Docs
  BY <1>1, <1>2, CommitStage
<1>4. PICK zero \in Int :
        /\ quantity \in Nat \ {0} /\ Doc[j.doc].kind = "transfer" /\ c = Doc[j.doc].to
        /\ NewAt(n) /\ RowsStand /\ zero = 0
        /\ Carries(movements'[n], j.doc, c, quantity, quantity, zero, zero)
  BY <1>1, ArriveWrites
<1>5. LotOf[c] = None
  BY <1>1, <1>3, <1>4, StockAssumption DEF LotsOK, UntrackedOK
<1>6. quantity \in Int /\ quantity = (IF quantity > 0 /\ zero = 0 THEN quantity ELSE 0) - zero
  BY <1>4
<1>7. LotGoes(c, quantity) /\ LotWrite(c)
  BY <1>2, <1>3, <1>5, <1>6, LotStands
<1>8. \A k \in DOMAIN movements : /\ Stays(movements'[k], movements[k])
                                  /\ movements'[k].lotDrawn = movements[k].lotDrawn
  BY <1>4 DEF RowsStand, Stays
<1>9. LotCommitted(p, c)
  BY <1>3, <1>7, <1>8 DEF LotCommitted
<1> QED BY <1>3, <1>4, <1>6, <1>7, <1>8, <1>9, LotAppend

(* An issue that is undone gives its lot back what it drew.                *)
LEMMA LotsReverse ==
  ASSUME LotsHold, IInv, LotsOK, NEW p \in Procs, ReverseMovement(p)
  PROVE  LotsOK'
<1>1. PICK j, c, o, delta, n : /\ j = job[p] /\ c = CellOf(j) /\ o = j.orig
                               /\ delta = movements[o].delta /\ n = Len(movements) + 1
  OBVIOUS
<1>2. Committing(p, {"reverse"})
  BY DEF ReverseMovement
<1>3. /\ j.stage = (IF UsesLot(j) THEN "lot" ELSE "balance")
      /\ End(p) /\ c \in Cells /\ seen[p][c] # None
  BY <1>1, <1>2, CommitStage
<1>4. /\ delta \in Int /\ o \in DOMAIN movements /\ movements[o].cell = c
      /\ NewAt(n)
      /\ \A k \in DOMAIN movements :
           /\ Stays(movements'[k], movements[k])
           /\ movements'[k].lotDrawn = IF k = o /\ UsesLot(j) THEN 0 ELSE movements[k].lotDrawn
      /\ Carries(movements'[n], j.doc, c, -delta, 0, 0, o)
  BY <1>1, ReverseWrites
<1>5. PICK drawn : drawn = movements[o].lotDrawn
  OBVIOUS
<1>6. drawn \in Int /\ o # 0
  <2>1. TermsOK(movements, DOMAIN movements)
    BY DEF LotsOK
  <2> QED BY <1>4, <1>5, <2>1, ZeroIsNone DEF TermsOK
<1>7. PICK gain \in Int : gain = IF UsesLot(j) THEN drawn ELSE 0
  BY <1>6
<1>8. PICK v : /\ v = seenLot[p] + drawn
               /\ lotLeft' = IF UsesLot(j) THEN [lotLeft EXCEPT ![LotOf[c]] = v] ELSE lotLeft
  BY <1>1, <1>5 DEF ReverseMovement
<1>9. UsesLot(j) /\ seenLot[p] \in Int => v = seenLot[p] + gain
  BY <1>7, <1>8
<1>10. ~UsesLot(j) => gain = 0
  BY <1>7
<1>11. LotGoes(c, gain) /\ LotWrite(c)
  BY <1>1, <1>3, <1>8, <1>9, <1>10, LotSaved
<1>12. LotCommitted(p, c)
  BY <1>3, <1>4, <1>11 DEF LotCommitted
<1> DEFINE D == DOMAIN movements
           E == DOMAIN movements'
<1>13. IsFiniteSet(D) /\ n \notin D /\ E = D \cup {n} /\ o \in D
  BY <1>4, FiniteMovements DEF NewAt
<1>14. TermsOK(movements, D) /\ \A k \in D : movements'[k].lotDrawn \in Int
  BY <1>4 DEF LotsOK, TermsOK
<1>15. /\ movements'[n].cell = c /\ movements'[n].delta = -delta
       /\ movements'[n].lotDrawn = 0 /\ movements'[n].reversalOf = o
  BY <1>4 DEF Carries
<1>16. TermsOK(movements', E)
  BY <1>4, <1>13, <1>14, <1>15 DEF TermsOK, Stays
<1>17. \A k \in D : movements'[k].cell = movements[k].cell
  BY <1>4 DEF Stays
<1>18. \A k \in D \ {o} : LotTerm(movements'[k]) = LotTerm(movements[k])
  BY <1>4 DEF Stays, LotTerm
<1>19. LotTerm(movements'[n]) = 0
  BY <1>6, <1>15 DEF LotTerm
<1>20. gain = LotTerm(movements'[n]) + LotTerm(movements'[o]) - LotTerm(movements[o])
  <2>1. PICK got \in Int :
          got = IF movements[o].delta > 0 /\ movements[o].reversalOf = 0
                THEN movements[o].delta ELSE 0
    BY <1>1, <1>4
  <2>2. LotTerm(movements[o]) = got - drawn
    BY <1>5, <2>1 DEF LotTerm
  <2>3. LotTerm(movements'[o]) = got - movements'[o].lotDrawn
    BY <1>4, <2>1 DEF LotTerm, Stays
  <2>4. movements'[o].lotDrawn = IF UsesLot(j) THEN 0 ELSE drawn
    BY <1>4, <1>5
  <2>5. CASE UsesLot(j)
    BY <1>6, <1>7, <1>19, <2>1, <2>2, <2>3, <2>4, <2>5
  <2>6. CASE ~UsesLot(j)
    BY <1>6, <1>7, <1>19, <2>1, <2>2, <2>3, <2>4, <2>6
  <2> QED BY <2>5, <2>6
<1>21. movements'[o].cell = c
  BY <1>4, <1>17
<1> HIDE DEF D, E
<1>22. \A l \in Lots : LotIn(movements', E, l)
                         = LotIn(movements, D, l) + (IF LotOf[c] = l THEN gain ELSE 0)
  BY <1>13, <1>14, <1>15, <1>16, <1>17, <1>18, <1>20, <1>21, LotMoves
<1>23. D \subseteq E
  BY <1>13
<1> QED BY <1>3, <1>11, <1>12, <1>16, <1>22, <1>23, LotsFrom DEF D, E

LEMMA LotsReserve ==
  ASSUME LotsHold, IInv, LotsOK, NEW p \in Procs, ReserveStock(p)
  PROVE  LotsOK'
<1>1. Committing(p, {"reserve", "release"}) /\ UNCHANGED <<movements, draws, lotLeft>>
  BY DEF ReserveStock
<1>2. PICK c \in Cells : seen[p][c] # None /\ End(p)
  BY <1>1, CommitStage
<1>3. LotWrite(c)
  BY <1>1 DEF LotWrite
<1>4. \A k \in DOMAIN movements : Stays(movements'[k], movements[k])
  BY <1>1 DEF Stays
<1>5. DOMAIN seenLot' = Procs /\ \A q \in Procs : LotReadOK(q)' /\ UntrackedOK(job[q])'
  BY <1>1, <1>2, <1>3, <1>4, LotEnd
<1> QED BY <1>1, <1>5 DEF LotsOK

LEMMA LotsCommit ==
  ASSUME LotsHold, IInv, LotsOK, NEW p \in Procs, Commit(p)
  PROVE  LotsOK'
<1>1. CASE ReceiveStock(p)
  BY <1>1, LotsReceive
<1>2. CASE IssueStock(p)
  BY <1>2, LotsIssue
<1>3. CASE TransferStock(p)
  BY <1>3, LotsTransfer
<1>4. CASE AdjustStock(p)
  BY <1>4, LotsAdjust
<1>5. CASE IssueVendorReturn(p)
  BY <1>5, LotsVendorReturn
<1>6. CASE ReverseMovement(p)
  BY <1>6, LotsReverse
<1>7. CASE ReserveStock(p)
  BY <1>7, LotsReserve
<1>8. CASE ShipTransfer(p)
  BY <1>8, LotsShip
<1>9. CASE ReceiveTransfer(p)
  BY <1>9, LotsArrive
<1> QED BY <1>1, <1>2, <1>3, <1>4, <1>5, <1>6, <1>7, <1>8, <1>9 DEF Commit

(* A step of p that writes neither movements nor lots.                     *)
LEMMA LotsStand ==
  ASSUME LotsOK, movements' = movements, lotLeft' = lotLeft, DOMAIN seenLot' = Procs,
         NEW p \in Procs,
         \A q \in Procs \ {p} : /\ job'[q] = job[q] /\ seen'[q] = seen[q]
                                /\ seenLot'[q] = seenLot[q],
         LotReadOK(p)', UntrackedOK(job[p])'
  PROVE  LotsOK'
<1>1. ASSUME NEW q \in Procs, q # p PROVE LotReadOK(q)' /\ UntrackedOK(job[q])'
  <2>1. job'[q] = job[q] /\ seen'[q] = seen[q] /\ seenLot'[q] = seenLot[q]
    BY <1>1
  <2>2. CellOf(job[q])' = CellOf(job[q]) /\ UsesLot(job[q])' = UsesLot(job[q])
    BY <2>1 DEF CellOf, UsesLot
  <2>3. LotReadOK(q)'
    BY <2>1, <2>2 DEF LotsOK, LotReadOK
  <2>4. UntrackedOK(job[q])'
    BY <2>1 DEF LotsOK, UntrackedOK
  <2> QED BY <2>3, <2>4
<1>2. \A q \in Procs : LotReadOK(q)' /\ UntrackedOK(job[q])'
  BY <1>1
<1> QED BY <1>2 DEF LotsOK

LEMMA LotsBegin ==
  ASSUME IInv, LotsOK, NEW p \in Procs, Begin(p)
  PROVE  LotsOK'
<1>1. PICK d, part, orig, cost :
        /\ d \in Docs /\ Start(p, Call(d, part, orig, cost))
        /\ Doc[d].kind \in {"transfer", "build"} => ~Tracked(d) /\ LotOf[Doc[d].to] = None
        /\ Doc[d].kind = "adjust" => ~Tracked(d)
  BY DEF Begin, IInv, BeginReceive, BeginIssue, BeginTransfer, BeginShipment, BeginArrival,
         BeginAdjust, BeginReverse, BeginVendorReturn, BeginReserve, Untracked
<1>2. UNCHANGED <<movements, lotLeft, seen, seenLot>>
  BY <1>1 DEF Start, tables
<1>3. /\ \A q \in Procs \ {p} : job'[q] = job[q]
      /\ job'[p] = Call(d, part, orig, cost)
  BY <1>1 DEF Start, IInv
<1>4. job'[p].doc = d /\ job'[p].stage = "balance"
  BY <1>3 DEF Call
<1>5. LotReadOK(p)'
  BY <1>4 DEF LotReadOK
<1>6. UntrackedOK(job[p])'
  BY <1>1, <1>4 DEF UntrackedOK, Tracked
<1> QED BY <1>2, <1>3, <1>5, <1>6, LotsStand DEF LotsOK

LEMMA LotsNext ==
  ASSUME LotsHold, IInv, LotsOK, [Next]_vars
  PROVE  LotsOK'
<1>1. CASE UNCHANGED vars
  BY <1>1 DEF vars, tables, LotsOK, LotReadOK, UntrackedOK, CellOf, UsesLot
<1>2. ASSUME NEW p \in Procs, Begin(p) PROVE LotsOK'
  BY <1>2, LotsBegin
<1>3. ASSUME NEW p \in Procs, LockBalance(p) PROVE LotsOK'
  <2>1. PICK c \in Cells : Take(p, c)
    BY <1>3 DEF LockBalance
  <2>2. UNCHANGED <<movements, lotLeft, seenLot, job>> /\ job[p].stage = "balance"
    BY <1>3 DEF LockBalance, tables
  <2>3. \A q \in Procs \ {p} : seen'[q] = seen[q]
    BY <2>1 DEF Take, IInv
  <2>4. LotReadOK(p)' /\ UntrackedOK(job[p])'
    BY <2>2 DEF LotReadOK, UntrackedOK, LotsOK
  <2> QED BY <2>2, <2>3, <2>4, LotsStand DEF LotsOK
<1>4. ASSUME NEW p \in Procs, ReadLot(p) PROVE LotsOK'
  <2>1. PICK j, c, row : j = job[p] /\ c = CellOf(j) /\ row = lotLeft[LotOf[c]]
    OBVIOUS
  <2>2. UNCHANGED <<movements, lotLeft, seen>> /\ j.stage = "balance" /\ RowsRead(p) /\ UsesLot(j)
        /\ seenLot' = [seenLot EXCEPT ![p] = row] /\ job' = [job EXCEPT ![p].stage = "lot"]
    BY <1>4, <2>1 DEF ReadLot, tables
  <2>3. \A q \in Procs \ {p} : job'[q] = job[q] /\ seenLot'[q] = seenLot[q]
    BY <2>2 DEF LotsOK, IInv
  <2>4. DOMAIN seenLot' = Procs /\ seenLot'[p] = row
    BY <2>2 DEF LotsOK
  <2>5. DOMAIN j = DOMAIN Idle /\ job'[p] = [j EXCEPT !.stage = "lot"]
    BY <2>1, <2>2 DEF IInv, JobOK
  <2>6. job'[p].doc = j.doc /\ job'[p].orig = j.orig /\ job'[p].part = j.part
    BY <2>5 DEF Idle
  <2>7. CellOf(job[p])' = c
    BY <2>1, <2>2, <2>6 DEF CellOf
  <2>8. UsesLot(job[p])'
    BY <2>1, <2>2, <2>6, <2>7 DEF UsesLot
  <2>9. j.doc \in Docs /\ c \in Cells /\ seen[p][c] # None
    <3>1. j.doc \in Docs
      BY <2>1, <2>2 DEF IInv, JobOK
    <3>2. c \in Cells
      BY <2>1, <3>1, DocTypes DEF CellOf, IInv, JobOK, MovementsOK, Refers
    <3> QED BY <2>1, <2>2, <3>1, <3>2 DEF RowsRead, RowsOf
  <2>10. LotReadOK(p)'
    BY <2>1, <2>2, <2>4, <2>6, <2>7, <2>8, <2>9 DEF LotReadOK
  <2>11. UntrackedOK(job[p])'
    BY <2>1, <2>6 DEF UntrackedOK, LotsOK
  <2> QED BY <2>2, <2>3, <2>4, <2>10, <2>11, LotsStand
<1>5. ASSUME NEW p \in Procs, Refuse(p) \/ Crash(p) PROVE LotsOK'
  <2>1. End(p) /\ UNCHANGED <<movements, lotLeft>>
    BY <1>5 DEF Refuse, Crash, tables
  <2>2. /\ \A q \in Procs \ {p} : /\ job'[q] = job[q] /\ seen'[q] = seen[q]
                                  /\ seenLot'[q] = seenLot[q]
        /\ job'[p] = Idle /\ DOMAIN seenLot' = Procs
    BY <2>1 DEF End, IInv, LotsOK
  <2>3. job'[p].doc = None /\ job'[p].stage # "lot"
    BY <2>2 DEF Idle
  <2>4. LotReadOK(p)'
    BY <2>3 DEF LotReadOK
  <2>5. UntrackedOK(job[p])'
    BY <2>3 DEF UntrackedOK
  <2> QED BY <2>1, <2>2, <2>4, <2>5, LotsStand
<1>6. ASSUME NEW p \in Procs, Commit(p) PROVE LotsOK'
  BY <1>6, LotsCommit
<1> QED BY <1>1, <1>2, <1>3, <1>4, <1>5, <1>6 DEF Next

LEMMA LotsInit == Init => LotsOK
<1> SUFFICES ASSUME Init PROVE LotsOK
  OBVIOUS
<1>1. /\ DOMAIN movements = {} /\ DOMAIN lotLeft = Lots /\ DOMAIN seenLot = Procs
      /\ \A l \in Lots : lotLeft[l] = 0
      /\ \A p \in Procs : job[p].doc = None /\ job[p].stage = "idle"
  BY DEF Init, Idle
<1>2. \A l \in Lots : LotIn(movements, DOMAIN movements, l) = 0
  BY <1>1, SumEmpty DEF LotIn
<1> QED BY <1>1, <1>2 DEF LotsOK, TermsOK, LotReadOK, UntrackedOK

(* What a lot received is what is left of it and what was drawn from it.   *)
LEMMA LotsUndrawn ==
  ASSUME IInv, LotsOK
  PROVE  LotIsUndrawn
<1> SUFFICES ASSUME NEW l \in Lots, NEW of, of = {m \in DOMAIN movements : LotOf[movements[m].cell] = l},
                    NEW got, got = {m \in of : movements[m].delta > 0 /\ movements[m].reversalOf = 0}
             PROVE  lotLeft[l] = DeltaOf(got) - SumFunction([m \in of |-> movements[m].lotDrawn])
  BY DEF LotIsUndrawn
<1> DEFINE D == DOMAIN movements
           f == LotTermIn(movements, D, l)
           g == [m \in D |-> IF m \in of THEN movements[m].lotDrawn ELSE 0]
           h == [m \in D |-> IF m \in got THEN movements[m].delta ELSE 0]
           drawn == [m \in of |-> movements[m].lotDrawn]
           delta == [m \in got |-> movements[m].delta]
<1>1. IsFiniteSet(D) /\ of \in SUBSET D /\ got \in SUBSET D
  BY FiniteMovements
<1>2. \A m \in D : movements[m].delta \in Int /\ movements[m].lotDrawn \in Int
  BY DEF LotsOK, TermsOK
<1>3. TermsOK(movements, D)
  BY <1>2 DEF TermsOK
<1>4. IntOn(f, D)
  BY <1>3, TermInt
<1>5. IntOn(g, D) /\ IntOn(h, D)
  BY <1>2 DEF IntOn
<1>6. \A m \in D : h[m] = f[m] + g[m]
  <2> SUFFICES ASSUME NEW m \in D PROVE h[m] = f[m] + g[m]
    OBVIOUS
  <2>1. f[m] = IF m \in of THEN LotTerm(movements[m]) ELSE 0
    BY DEF LotTermIn
  <2>2. m \in got <=> m \in of /\ movements[m].delta > 0 /\ movements[m].reversalOf = 0
    OBVIOUS
  <2> QED BY <1>2, <2>1, <2>2 DEF LotTerm
<1>7. /\ \A m \in D \ of : g[m] = 0
      /\ \A m \in of : drawn[m] = g[m]
  BY <1>1
<1>8. /\ \A m \in D \ got : h[m] = 0
      /\ \A m \in got : delta[m] = h[m]
  BY <1>1
<1>9. DOMAIN drawn = of /\ DOMAIN delta = got
  OBVIOUS
<1>10. DeltaOf(got) = SumFunction(delta)
  BY DEF DeltaOf
<1>11. lotLeft[l] = SumFunctionOnSet(f, D)
  BY DEF LotsOK, LotIn
<1> HIDE DEF D, f, g, h, drawn, delta
<1>12. SumFunctionOnSet(h, D) = SumFunctionOnSet(f, D) + SumFunctionOnSet(g, D)
  BY <1>1, <1>4, <1>5, <1>6, SumPlus
<1>13. /\ IntOn(g, of) /\ IntOn(h, got) /\ IsFiniteSet(of) /\ IsFiniteSet(got)
  BY <1>1, <1>5, FS_Subset DEF IntOn
<1>14. SumFunctionOnSet(g, D) = SumFunctionOnSet(g, of)
  BY <1>1, <1>7, <1>13, SumSupport
<1>15. SumFunctionOnSet(h, D) = SumFunctionOnSet(h, got)
  BY <1>1, <1>8, <1>13, SumSupport
<1>16. SumFunction(drawn) = SumFunctionOnSet(g, of)
  BY <1>7, <1>9, <1>13, SumOfIs
<1>17. SumFunction(delta) = SumFunctionOnSet(h, got)
  BY <1>8, <1>9, <1>13, SumOfIs
<1>18. SumFunctionOnSet(f, D) \in Int /\ SumFunctionOnSet(g, D) \in Int
  BY <1>1, <1>4, <1>5, SumInt
<1>19. lotLeft[l] = SumFunction(delta) - SumFunction(drawn)
  BY <1>11, <1>12, <1>14, <1>15, <1>16, <1>17, <1>18
<1> QED BY <1>10, <1>19 DEF drawn

(* What is left of a lot is what it received less what was drawn from it   *)
(* and not given back: the lot's row, read by a verb and saved at the end, *)
(* is not written in between, because whoever writes it holds the lock of  *)
(* the one balance row that the lot belongs to.                            *)
THEOREM LotsAreUndrawn ==
  ASSUME LotsHold
  PROVE  Spec => []LotIsUndrawn
<1>1. Init => LotsOK
  BY LotsInit
<1>2. IInv /\ LotsOK /\ [Next]_vars => LotsOK'
  BY LotsNext
<1>3. IInv /\ LotsOK => LotIsUndrawn
  BY LotsUndrawn
<1> QED BY <1>1, <1>2, <1>3, Invariance, PTL DEF Spec
=============================================================================
