---------------------- MODULE InvoiceSettlementProofs ----------------------
(***************************************************************************)
(* Proofs, for every set of requests, invoices and transactions and every  *)
(* choice of amounts and links, that the row locks of the settlement       *)
(* services protect what they are meant to protect.                        *)
(*                                                                         *)
(* The inductive invariant is IInv: types; an invoice row read FOR UPDATE  *)
(* stays what its reader saw (NoLostUpdate), without which the writes,     *)
(* computed from what was read, could not be bounded; BalanceCoherent; and *)
(* SettlementInv, which carries from one step of a request to the next     *)
(* what the request has checked.  From it follow that each service acts as *)
(* one atomic step (ImplementsAtomic) and that no requests wait for each   *)
(* other in a circle.  The money then needs the atomic steps only: what    *)
(* each of them does to the sums of the tables.  The lemmas about plans    *)
(* also settle the series of reversals of ReverseAllocation.               *)
(***************************************************************************)
EXTENDS InvoiceSettlement, ReverseAllocation, SumLemmas, SequenceTheorems, NaturalsInduction

IInv == TypeOK /\ BalanceCoherent /\ NoLostUpdate /\ SettlementInv

-----------------------------------------------------------------------------
(* A non-empty set of numbers holds its minimum.                           *)

Less == {ss \in Nat \X Nat : ss[1] < ss[2]}

LEMMA LessWellFounded == IsWellFoundedOn(Less, Nat)
  BY NatLessThanWellFounded DEF OpToRel, Less

LEMMA MinInSet ==
  ASSUME NEW S \in SUBSET Nat, S # {}
  PROVE  Min(S) \in S
<1>1. \E x \in S : \A y \in S : <<y, x>> \notin Less
  BY LessWellFounded, WFMin
<1>2. PICK x \in S : \A y \in S : <<y, x>> \notin Less
  BY <1>1
<1>3. ASSUME NEW y \in S PROVE x <= y
  <2>1. x \in Nat /\ y \in Nat
    OBVIOUS
  <2>2. <<y, x>> \notin Less
    BY <1>2
  <2> QED BY <2>1, <2>2 DEF Less
<1>4. \E z \in S : \A y \in S : z <= y
  BY <1>3
<1> QED BY <1>4 DEF Min

-----------------------------------------------------------------------------
(* The operators the actions are built from.                               *)

LEMMA ResolveType ==
  ASSUME NEW r \in Reversals
  PROVE  ResolveOriginalCharge(r) \in Charges \cup {None}
<1> DEFINE S == {t \in Charges : Request[t] = Request[r] /\ applied[t] # None}
<1>1. ASSUME S # {} PROVE Min(S) \in Charges
  <2>1. S \in SUBSET Nat
    BY SettlementAssumption DEF Txns
  <2>2. Min(S) \in S
    BY <1>1, <2>1, MinInSet
  <2> QED BY <2>2
<1> QED BY <1>1 DEF ResolveOriginalCharge

LEMMA ResolveForAllocationsType ==
  ASSUME NEW r \in Reversals
  PROVE  ResolveOriginalForAllocations(r) \in Charges \cup {None}
BY ResolveType DEF ResolveOriginalForAllocations

LEMMA RestoreType ==
  ASSUME TypeOK, NEW r \in Reversals
  PROVE  EffectiveReverseRestore(r) \in Nat
<1>1. TxnAmount[r] \in Nat
  BY SettlementAssumption DEF Txns
<1>2. ASSUME NEW c \in Charges PROVE EffectiveApplyAmount(c) \in Nat
  BY SettlementAssumption DEF Txns, EffectiveApplyAmount, TypeOK, TablesOK
<1> QED BY <1>1, <1>2, ResolveType DEF EffectiveReverseRestore

(* A payment no larger than the balance leaves a coherent row.             *)
LEMMA PaidRowOK ==
  ASSUME NEW i \in Invoices, NEW row \in InvoiceRow, RowCoherent(i, row),
         NEW amount \in Nat, amount <= row.balance,
         amount > 0 \/ row.balance = 0
  PROVE  PaidRow(row, amount) \in InvoiceRow /\ RowCoherent(i, PaidRow(row, amount))
<1>1. InvAmount[i] \in Nat \ {0} /\ row.balance \in Nat
  BY InvoicesAssumption DEF InvoiceRow
<1>2. row.balance <= InvAmount[i]
  BY <1>1 DEF RowCoherent, InvoiceRow
<1> QED BY <1>1, <1>2 DEF PaidRow, RowCoherent, InvoiceRow

(* Giving back no more than was paid leaves a coherent row.                *)
LEMMA RestoredRowOK ==
  ASSUME NEW i \in Invoices, NEW row \in InvoiceRow, RowCoherent(i, row),
         NEW amount \in Nat, row.balance + amount <= InvAmount[i]
  PROVE  RestoredRow(i, row, amount) \in InvoiceRow
         /\ RowCoherent(i, RestoredRow(i, row, amount))
<1>1. InvAmount[i] \in Nat \ {0} /\ row.balance \in Nat
  BY InvoicesAssumption DEF InvoiceRow
<1> QED BY <1>1 DEF RestoredRow, RowCoherent, InvoiceRow

LEMMA IdleOK == JobOK(Idle) /\ JobShape(Idle) /\ Idle.stage = "idle" /\ Idle.op = "none"
BY DEF JobOK, JobShape, Idle

-----------------------------------------------------------------------------
(* The initial states.                                                     *)

LEMMA InitInv == Init => IInv
<1> SUFFICES ASSUME Init PROVE IInv
  OBVIOUS
<1>1. TypeOK
  <2>1. \A i \in Invoices : InvAmount[i] \in Nat
    BY InvoicesAssumption
  <2>2. <<>> \in LineSeqs
    BY DEF LineSeqs
  <2> QED BY <2>1, <2>2, IdleOK DEF Init, TablesInit, TypeOK, TablesOK, InvoiceRow, NewInvoice,
                               NoCredit, NoneSeen
<1>2. BalanceCoherent
  BY DEF Init, TablesInit, BalanceCoherent, RowCoherent, NewInvoice
<1>3. NoLostUpdate
  BY DEF Init, NoLostUpdate, NoneSeen
<1>4. SettlementInv
  BY IdleOK DEF Init, SettlementInv, Keeps
<1> QED BY <1>1, <1>2, <1>3, <1>4 DEF IInv

-----------------------------------------------------------------------------
(* What a request relies on, and the rows it holds.                        *)

LEMMA HeldRows ==
  ASSUME NEW j, JobOK(j), JobShape(j), j.stage \notin {"idle", "source"}
  PROVE  Held(j) \subseteq Rows
<1>1. j.op \notin {"none", "unapply", "void"} => SourceRow(j) \in Rows
  BY DEF JobOK, JobShape, SourceRow, Rows, Txns, OpNames
<1>2. Planned(j) => <<"txn", j.orig>> \in Rows
  BY DEF JobShape, Planned, Rows, Txns
<1> QED BY <1>1, <1>2 DEF Held

LEMMA SameJob ==
  ASSUME NEW q, NEW j, job'[q] = j, JobShape(j)
  PROVE  JobShape(job[q])' /\ Held(job[q])' = Held(j) /\ Touched(job[q])' = Touched(j)
<1>1. JobShape(job[q])'
  BY DEF JobShape, DistinctInvoices, InvoiceOf, ReversedInvoice
<1>2. Held(job[q])' = Held(j)
  BY DEF Held, SourceRow, Planned
<1>3. Touched(job[q])' = Touched(j)
  BY DEF Touched, InvoicesOf
<1> QED BY <1>1, <1>2, <1>3

(* Reliance is a matter of the tables.                                     *)
LEMMA SameReliance ==
  ASSUME NEW q, NEW j, job'[q] = j, UNCHANGED tables, ReliesOn(j)
  PROVE  ReliesOn(job[q])'
BY DEF ReliesOn, Planned, FitsCharge, FitsCredit, ReverseRowsOf, ReverseRowsOfOrig,
       OriginalCheck, PlanFor, tables

(* What p may not change of a row it does not hold.                        *)
LeavesTxn(t) ==
  /\ applied[t] = None => applied'[t] = None
  /\ ReverseRowsOf(t)' = ReverseRowsOf(t)
  /\ t \in Charges => /\ allocs'[t] = allocs[t]
                      /\ ReverseRowsOfOrig(t)' = ReverseRowsOfOrig(t)

LeavesCredit(c) == credit[c].remaining > 0 => credit'[c] = credit[c]

(* Then another's reliance on the rows it holds is out of p's reach.       *)
LEMMA RelianceStays ==
  ASSUME NEW p \in Procs, NEW q \in Procs \ {p}, NEW j, job'[q] = j,
         JobOK(j), JobShape(j), ReliesOn(j),
         j.stage \notin {"idle", "source"},
         \A row \in Held(j) : lock[row] = q,
         \A t \in Txns : LeavesTxn(t) \/ lock[<<"txn", t>>] = p,
         \A c \in Charges : LeavesCredit(c) \/ lock[<<"credit", c>>] = p
  PROVE  ReliesOn(job[q])'
<1>1. ASSUME j.op \in {"apply", "reverse", "allocate", "reverseAllocations"}
      PROVE  j.src \in Txns /\ LeavesTxn(j.src)
  <2>1. j.src \in Txns
    BY <1>1 DEF JobShape, Txns
  <2>2. <<"txn", j.src>> \in Held(j)
    BY <1>1 DEF Held, SourceRow
  <2> QED BY <2>1, <2>2
<1>2. ASSUME Planned(j)
      PROVE  j.orig \in Charges /\ LeavesTxn(j.orig)
  <2>1. j.orig \in Charges
    BY <1>2 DEF JobShape, Planned
  <2>2. <<"txn", j.orig>> \in Held(j)
    BY <1>2 DEF Held
  <2> QED BY <2>1, <2>2 DEF Txns
<1>3. ASSUME j.op \in {"creditApply", "creditAllocate"}
      PROVE  FitsCredit(j.src, j.lines)'
  <2>1. j.src \in Charges /\ FitsCredit(j.src, j.lines)
    BY <1>3 DEF JobShape, ReliesOn
  <2>2. <<"credit", j.src>> \in Held(j)
    BY <1>3 DEF Held, SourceRow
  <2>3. credit'[j.src] = credit[j.src]
    BY <2>1, <2>2 DEF LeavesCredit, FitsCredit
  <2> QED BY <2>1, <2>3 DEF FitsCredit
<1>4. ASSUME j.op = "allocate" PROVE FitsCharge(j.src, j.lines)'
  <2>1. allocs'[j.src] = allocs[j.src]
    BY <1>1, <1>4 DEF JobShape, LeavesTxn
  <2> QED BY <1>4, <2>1 DEF ReliesOn, FitsCharge
<1>5. ASSUME Planned(j)
      PROVE  OriginalCheck(j.src, j.orig)' /\ j.lines = PlanFor(j.src, j.orig)'
  <2>1. /\ allocs'[j.orig] = allocs[j.orig]
        /\ ReverseRowsOfOrig(j.orig)' = ReverseRowsOfOrig(j.orig)
    BY <1>2, <1>5 DEF LeavesTxn
  <2> QED BY <1>5, <2>1 DEF ReliesOn, OriginalCheck, PlanFor
<1>6. j.op \in {"apply", "reverse", "allocate", "reverseAllocations"} =>
        applied'[j.src] = None
  BY <1>1 DEF ReliesOn, LeavesTxn
<1>7. j.op = "reverseAllocations" => ReverseRowsOf(j.src)' = {}
  BY <1>1 DEF ReliesOn, LeavesTxn
<1>8. ReliesOn(j)'
  BY <1>3, <1>4, <1>5, <1>6, <1>7 DEF ReliesOn, Planned
<1> QED BY <1>8

-----------------------------------------------------------------------------
(* A step of p that writes no table keeps the invariant, if it disturbs no *)
(* lock of another process and p holds the locks of what it has read.      *)

LEMMA ProcessStep ==
  ASSUME IInv, NEW p \in Procs, NEW j,
         UNCHANGED tables,
         job' = [job EXCEPT ![p] = j],
         JobOK(j), JobShape(j),
         lock' \in [Rows -> Procs \cup {None}],
         \A q \in Procs \ {p}, r \in Rows : lock[r] = q => lock'[r] = q,
         seen' \in [Procs -> [Invoices -> InvoiceRow \cup {None}]],
         \A q \in Procs \ {p} : seen'[q] = seen[q],
         \A i \in Invoices : seen'[p][i] # None =>
            seen'[p][i] = invoice[i] /\ lock'[<<"invoice", i>>] = p,
         j.stage \in {"update", "commit"} => \A i \in Touched(j) : seen'[p][i] # None,
         j.stage \notin {"idle", "source"} =>
            ReliesOn(j) /\ \A row \in Held(j) : lock'[row] = p
  PROVE  IInv'
<1>1. /\ \A q \in Procs : job'[q] = IF q = p THEN j ELSE job[q]
      /\ job' = [q \in Procs |-> job'[q]]
  BY DEF IInv, TypeOK
<1>2. TypeOK'
  BY <1>1 DEF IInv, TypeOK, TablesOK, tables
<1>3. BalanceCoherent'
  BY DEF IInv, BalanceCoherent, tables
<1>4. NoLostUpdate'
  <2> SUFFICES ASSUME NEW q \in Procs, NEW i \in Invoices, seen'[q][i] # None
               PROVE  seen'[q][i] = invoice'[i] /\ lock'[<<"invoice", i>>] = q
    BY DEF NoLostUpdate
  <2>1. <<"invoice", i>> \in Rows
    BY DEF Rows
  <2> QED BY <2>1 DEF IInv, NoLostUpdate, tables
<1>5. SettlementInv'
  <2> SUFFICES ASSUME NEW q \in Procs PROVE Keeps(q)'
    BY DEF SettlementInv
  <2>1. CASE q = p
    <3>1. job'[q] = j
      BY <1>1, <2>1
    <3>2. JobShape(job[q])' /\ Held(job[q])' = Held(j) /\ Touched(job[q])' = Touched(j)
      BY <3>1, SameJob
    <3>3. ReliesOn(j) => ReliesOn(job[q])'
      BY <3>1, SameReliance
    <3> QED BY <2>1, <3>1, <3>2, <3>3 DEF Keeps
  <2>2. CASE q # p
    <3>1. /\ job'[q] = job[q] /\ seen'[q] = seen[q]
          /\ JobOK(job[q]) /\ JobShape(job[q]) /\ Keeps(q)
      BY <1>1, <2>2 DEF IInv, TypeOK, SettlementInv, Keeps
    <3>2. /\ JobShape(job[q])' /\ Held(job[q])' = Held(job[q])
          /\ Touched(job[q])' = Touched(job[q])
      BY <3>1, SameJob
    <3>3. ReliesOn(job[q]) => ReliesOn(job[q])'
      BY <3>1, SameReliance
    <3>4. ASSUME job[q].stage \notin {"idle", "source"}
          PROVE  \A row \in Held(job[q]) : lock'[row] = q
      BY <2>2, <3>1, <3>4, HeldRows DEF Keeps
    <3> QED BY <3>1, <3>2, <3>3, <3>4 DEF Keeps
  <2> QED BY <2>1, <2>2
<1> QED BY <1>2, <1>3, <1>4, <1>5 DEF IInv

-----------------------------------------------------------------------------
(* A commit of p keeps the invariant if it writes coherent rows, and if    *)
(* what it writes of an invoice, of a transaction or of a credit in use is *)
(* locked by p.                                                            *)

LEMMA CommitStep ==
  ASSUME IInv, NEW p \in Procs, End(p), TablesOK', BalanceCoherent',
         \A i \in Invoices : invoice'[i] = invoice[i] \/ lock[<<"invoice", i>>] = p,
         \A t \in Txns : LeavesTxn(t) \/ lock[<<"txn", t>>] = p,
         \A c \in Charges : LeavesCredit(c) \/ lock[<<"credit", c>>] = p
  PROVE  IInv'
<1>1. /\ \A q \in Procs : /\ job'[q] = IF q = p THEN Idle ELSE job[q]
                          /\ seen'[q] = IF q = p THEN NoneSeen ELSE seen[q]
      /\ job' = [q \in Procs |-> job'[q]]
      /\ \A q \in Procs \ {p}, r \in Rows : lock[r] = q => lock'[r] = q
  BY DEF IInv, TypeOK, End
<1>2. TypeOK'
  <2>1. lock' \in [Rows -> Procs \cup {None}]
    BY DEF IInv, TypeOK, End
  <2>2. seen' \in [Procs -> [Invoices -> InvoiceRow \cup {None}]]
    BY DEF IInv, TypeOK, End, NoneSeen
  <2>3. \A q \in Procs : JobOK(job'[q])
    BY <1>1, IdleOK DEF IInv, TypeOK
  <2> QED BY <1>1, <2>1, <2>2, <2>3 DEF TypeOK
<1>3. NoLostUpdate'
  <2> SUFFICES ASSUME NEW q \in Procs, NEW i \in Invoices, seen'[q][i] # None
               PROVE  seen'[q][i] = invoice'[i] /\ lock'[<<"invoice", i>>] = q
    BY DEF NoLostUpdate
  <2>1. q # p
    BY <1>1 DEF NoneSeen
  <2>2. <<"invoice", i>> \in Rows
    BY DEF Rows
  <2>3. seen[q][i] = invoice[i] /\ lock[<<"invoice", i>>] = q
    BY <1>1, <2>1 DEF IInv, NoLostUpdate
  <2> QED BY <1>1, <2>1, <2>2, <2>3
<1>4. SettlementInv'
  <2> SUFFICES ASSUME NEW q \in Procs PROVE Keeps(q)'
    BY DEF SettlementInv
  <2>1. CASE q = p
    <3>1. job'[q] = Idle
      BY <1>1, <2>1
    <3>2. JobShape(job[q])'
      BY <3>1, IdleOK, SameJob
    <3> QED BY <3>1, <3>2 DEF Keeps, Idle
  <2>2. CASE q # p
    <3>1. /\ job'[q] = job[q] /\ seen'[q] = seen[q]
          /\ JobOK(job[q]) /\ JobShape(job[q]) /\ Keeps(q)
      BY <1>1, <2>2 DEF IInv, TypeOK, SettlementInv, Keeps
    <3>2. /\ JobShape(job[q])' /\ Held(job[q])' = Held(job[q])
          /\ Touched(job[q])' = Touched(job[q])
      BY <3>1, SameJob
    <3>3. ASSUME job[q].stage \notin {"idle", "source"}
          PROVE  ReliesOn(job[q])' /\ \A row \in Held(job[q]) : lock'[row] = q
      <4>1. ReliesOn(job[q]) /\ \A row \in Held(job[q]) : lock[row] = q
        BY <3>1, <3>3 DEF Keeps
      <4>2. ReliesOn(job[q])'
        BY <2>2, <3>1, <3>3, <4>1, RelianceStays
      <4> QED BY <1>1, <2>2, <3>1, <3>3, <4>1, <4>2, HeldRows
    <3> QED BY <3>1, <3>2, <3>3 DEF Keeps
  <2> QED BY <2>1, <2>2
<1> QED BY <1>2, <1>3, <1>4 DEF IInv

-----------------------------------------------------------------------------
(* What a commit finds.                                                    *)

LEMMA SeenRows ==
  ASSUME IInv, NEW p \in Procs, job[p].stage = "commit", NEW i \in Touched(job[p])
  PROVE  /\ i \in Invoices
         /\ seen[p][i] = invoice[i] /\ lock[<<"invoice", i>>] = p
         /\ invoice[i] \in InvoiceRow /\ RowCoherent(i, invoice[i])
<1>1. i \in Invoices
  BY DEF IInv, TypeOK, JobOK, Touched, InvoicesOf
<1>2. seen[p][i] # None
  BY DEF IInv, SettlementInv, Keeps
<1> QED BY <1>1, <1>2 DEF IInv, NoLostUpdate, TypeOK, TablesOK, BalanceCoherent

LEMMA FirstLine ==
  ASSUME IInv, NEW p \in Procs, job[p].op \in {"apply", "reverse", "unapply", "void"}
  PROVE  /\ job[p].lines[1].invoice \in Touched(job[p])
         /\ job[p].lines[1].amount \in Nat
<1>1. DOMAIN job[p].lines = {1}
  BY DEF IInv, SettlementInv, Keeps, JobShape
<1>2. JobOK(job[p])
  BY DEF IInv, TypeOK
<1> QED BY <1>1, <1>2 DEF JobOK, Touched, InvoicesOf

LEMMA FirstRow ==
  ASSUME IInv, NEW p \in Procs, job[p].stage = "commit",
         job[p].op \in {"apply", "reverse", "unapply", "void"}, NEW i,
         i = job[p].lines[1].invoice
  PROVE  /\ i \in Touched(job[p]) /\ i \in Invoices /\ seen[p][i] = invoice[i]
         /\ invoice[i] \in InvoiceRow /\ RowCoherent(i, invoice[i])
<1>1. i \in Touched(job[p])
  BY FirstLine
<1> QED BY <1>1, SeenRows

LEMMA LineOfSeq ==
  ASSUME NEW lines \in LineSeqs, NEW k \in DOMAIN lines
  PROVE  lines[k] \in [invoice : Invoices, amount : Nat \ {0}]
<1>1. DOMAIN lines = 1..Len(lines)
  BY DEF LineSeqs
<1> QED BY <1>1, ElementOfSeq DEF LineSeqs

LEMMA LinesAreSeq ==
  ASSUME NEW lines \in LineChoices
  PROVE  lines \in LineSeqs
BY SettlementAssumption

LEMMA AmountForType ==
  ASSUME IInv, NEW p \in Procs, NEW i \in Touched(job[p])
  PROVE  /\ AmountFor(job[p].lines, i) \in Nat
         /\ job[p].op \in {"allocate", "creditApply", "creditAllocate", "reverseAllocations"}
              => AmountFor(job[p].lines, i) # 0
<1> DEFINE j == job[p]
           c == CHOOSE k \in DOMAIN j.lines : j.lines[k].invoice = i
<1>1. c \in DOMAIN j.lines
  BY DEF Touched, InvoicesOf
<1>2. AmountFor(j.lines, i) = j.lines[c].amount
  BY DEF AmountFor
<1>3. j.lines[c].amount \in Nat
  BY <1>1 DEF IInv, TypeOK, JobOK
<1>4. ASSUME j.op \in {"allocate", "creditApply", "creditAllocate"}
      PROVE  j.lines[c].amount # 0
  <2>1. j.lines \in LineSeqs
    BY <1>4, LinesAreSeq DEF IInv, SettlementInv, Keeps, JobShape
  <2>2. \A k \in DOMAIN j.lines : j.lines[k] \in [invoice : Invoices, amount : Nat \ {0}]
    BY <2>1, LineOfSeq
  <2> QED BY <1>1, <2>2
<1>5. ASSUME j.op = "reverseAllocations" PROVE j.lines[c].amount # 0
  BY <1>1, <1>5 DEF IInv, SettlementInv, Keeps, JobShape
<1> QED BY <1>2, <1>3, <1>4, <1>5

(* Payments that every locked invoice accepts leave coherent rows.         *)
LEMMA PayLinesOK ==
  ASSUME IInv, NEW p \in Procs, job[p].stage = "commit", NEW customer,
         AllAccept(job[p].lines, customer, seen[p]), PayLines(job[p].lines, seen[p]),
         job[p].op \in {"allocate", "creditApply", "creditAllocate"}
  PROVE  /\ invoice' \in [Invoices -> InvoiceRow]
         /\ BalanceCoherent'
         /\ \A i \in Invoices : invoice'[i] = invoice[i] \/ lock[<<"invoice", i>>] = p
<1> DEFINE lines == job[p].lines
<1>1. ASSUME NEW i \in Invoices
      PROVE  /\ invoice'[i] \in InvoiceRow /\ RowCoherent(i, invoice'[i])
             /\ invoice'[i] = invoice[i] \/ lock[<<"invoice", i>>] = p
  <2>1. CASE i \notin InvoicesOf(lines)
    BY <2>1 DEF PayLines, IInv, TypeOK, TablesOK, BalanceCoherent
  <2>2. CASE i \in InvoicesOf(lines)
    <3>1. i \in Touched(job[p])
      BY <2>2 DEF Touched
    <3>2. AmountFor(lines, i) \in Nat /\ AmountFor(lines, i) > 0
      BY <3>1, AmountForType
    <3>3. AmountFor(lines, i) <= seen[p][i].balance
      BY <2>2 DEF AllAccept, Accepts
    <3>4. invoice'[i] = PaidRow(seen[p][i], AmountFor(lines, i))
      BY <2>2 DEF PayLines
    <3> QED BY <3>1, <3>2, <3>3, <3>4, SeenRows, PaidRowOK
  <2> QED BY <2>1, <2>2
<1>2. invoice' = [i \in Invoices |-> invoice'[i]]
  BY DEF PayLines
<1>3. invoice' \in [Invoices -> InvoiceRow]
  BY <1>1, <1>2
<1>4. BalanceCoherent'
  BY <1>1 DEF BalanceCoherent, RowCoherent
<1> QED BY <1>1, <1>3, <1>4

(* So does the write of one locked invoice.                                *)
LEMMA OneRowOK ==
  ASSUME IInv, NEW p \in Procs, job[p].stage = "commit",
         NEW i \in Touched(job[p]),
         NEW row \in InvoiceRow, RowCoherent(i, row),
         invoice' = [invoice EXCEPT ![i] = row]
  PROVE  /\ invoice' \in [Invoices -> InvoiceRow]
         /\ BalanceCoherent'
         /\ \A n \in Invoices : invoice'[n] = invoice[n] \/ lock[<<"invoice", n>>] = p
<1>1. invoice \in [Invoices -> InvoiceRow] /\ i \in Invoices
  BY SeenRows DEF IInv, TypeOK, TablesOK
<1>2. \A n \in Invoices : invoice'[n] = IF n = i THEN row ELSE invoice[n]
  BY <1>1
<1>3. BalanceCoherent'
  BY <1>2 DEF IInv, BalanceCoherent, RowCoherent
<1> QED BY <1>1, <1>2, <1>3, SeenRows

-----------------------------------------------------------------------------
(* The validations.                                                        *)

LEMMA StartStep ==
  ASSUME IInv, NEW p \in Procs, NEW op, NEW stage, NEW src, NEW lines,
         Start(p, op, stage, src, lines),
         op \in OpNames \ {"crash"}, src \in Txns \cup {None},
         stage = IF op \in {"unapply", "void"} THEN "invoices" ELSE "source",
         \A k \in DOMAIN lines : /\ lines[k].invoice \in Invoices
                                 /\ lines[k].amount \in Nat,
         op \in {"apply", "unapply", "allocate", "creditApply", "creditAllocate"}
            => src \in Charges,
         op \in {"reverse", "reverseAllocations"} => src \in Reversals,
         op \in {"apply", "reverse", "unapply", "void"} => DOMAIN lines = {1},
         op = "apply" => Request[src] # None /\ lines[1].invoice = InvoiceOf(src),
         op = "reverse" => lines[1].invoice = ReversedInvoice(src),
         op \in {"allocate", "creditApply", "creditAllocate"} => lines \in LineChoices,
         op \in {"allocate", "creditAllocate"} => DistinctInvoices(lines),
         op = "creditApply" => Len(lines) = 1,
         op = "reverseAllocations" => lines = <<>>
  PROVE  IInv'
<1> DEFINE j == [op |-> op, stage |-> stage, src |-> src, orig |-> None, lines |-> lines]
<1>1. JobOK(j) /\ JobShape(j)
  BY DEF JobOK, JobShape
<1>2. job' = [job EXCEPT ![p] = j] /\ UNCHANGED <<tables, lock, seen>>
  BY DEF Start
<1>3. \A i \in Invoices : seen'[p][i] # None =>
         seen'[p][i] = invoice[i] /\ lock'[<<"invoice", i>>] = p
  BY <1>2 DEF IInv, NoLostUpdate
<1>4. /\ lock' \in [Rows -> Procs \cup {None}]
      /\ seen' \in [Procs -> [Invoices -> InvoiceRow \cup {None}]]
  BY <1>2 DEF IInv, TypeOK
<1>5. /\ j.stage \notin {"update", "commit"}
      /\ j.stage \notin {"idle", "source"} => ReliesOn(j) /\ Held(j) = {}
  BY DEF ReliesOn, Held, Planned
<1> HIDE DEF j
<1> QED BY <1>1, <1>2, <1>3, <1>4, <1>5, ProcessStep

LEMMA ReversedInvoiceType ==
  ASSUME NEW r \in Reversals
  PROVE  ReversedInvoice(r) \in Invoices \cup {None}
BY SettlementAssumption DEF ReversedInvoice, InvoiceOf, Txns, Reversals

LEMMA EffectiveApplyType ==
  ASSUME TypeOK, NEW t \in Charges
  PROVE  EffectiveApplyAmount(t) \in Nat
BY SettlementAssumption DEF Txns, EffectiveApplyAmount, TypeOK, TablesOK

LEMMA OneLine ==
  ASSUME NEW i \in Invoices, NEW amount \in Nat
  PROVE  /\ DOMAIN One(i, amount) = {1} /\ One(i, amount)[1].invoice = i
         /\ \A k \in DOMAIN One(i, amount) : /\ One(i, amount)[k].invoice \in Invoices
                                            /\ One(i, amount)[k].amount \in Nat
BY DEF One

LEMMA StartOneStep ==
  ASSUME IInv, NEW p \in Procs, NEW op \in {"apply", "reverse", "unapply", "void"},
         NEW stage, NEW src \in Txns \cup {None},
         NEW i \in Invoices, NEW amount \in Nat,
         Start(p, op, stage, src, One(i, amount)),
         stage = IF op \in {"unapply", "void"} THEN "invoices" ELSE "source",
         op \in {"apply", "unapply"} => src \in Charges,
         op = "reverse" => src \in Reversals /\ i = ReversedInvoice(src),
         op = "apply" => Request[src] # None /\ i = InvoiceOf(src)
  PROVE  IInv'
<1> DEFINE lines == One(i, amount)
<1>1. /\ DOMAIN lines = {1} /\ lines[1].invoice = i
      /\ \A k \in DOMAIN lines : lines[k].invoice \in Invoices /\ lines[k].amount \in Nat
  BY OneLine
<1>2. Start(p, op, stage, src, lines)
  OBVIOUS
<1> HIDE DEF lines
<1> QED BY <1>1, <1>2, StartStep DEF OpNames

LEMMA BeginStep ==
  ASSUME IInv, NEW p \in Procs, Begin(p)
  PROVE  IInv'
<1>1. ASSUME NEW t \in Charges, BeginApply(p, t) PROVE IInv'
  <2>1. InvoiceOf(t) \in Invoices /\ TxnAmount[t] \in Nat /\ t \in Txns
    BY <1>1, SettlementAssumption DEF BeginApply, InvoiceOf, Txns
  <2>2. /\ Start(p, "apply", "source", t, One(InvoiceOf(t), TxnAmount[t]))
        /\ Request[t] # None
    BY <1>1 DEF BeginApply
  <2> QED BY <2>1, <2>2, StartOneStep
<1>2. ASSUME NEW t \in Charges, BeginUnapply(p, t) PROVE IInv'
  <2>1. applied[t] \in Invoices /\ t \in Txns
    BY <1>2 DEF BeginUnapply, IInv, TypeOK, TablesOK, Txns
  <2>2. EffectiveApplyAmount(t) \in Nat
    BY EffectiveApplyType DEF IInv
  <2>3. Start(p, "unapply", "invoices", t, One(applied[t], EffectiveApplyAmount(t)))
    BY <1>2 DEF BeginUnapply
  <2> QED BY <2>1, <2>2, <2>3, StartOneStep
<1>3. ASSUME NEW r \in Reversals, BeginReverse(p, r) PROVE IInv'
  <2>1. ReversedInvoice(r) \in Invoices /\ TxnAmount[r] \in Nat /\ r \in Txns
    BY <1>3, ReversedInvoiceType, SettlementAssumption DEF BeginReverse, Txns
  <2>2. Start(p, "reverse", "source", r, One(ReversedInvoice(r), TxnAmount[r]))
    BY <1>3 DEF BeginReverse
  <2> QED BY <2>1, <2>2, StartOneStep
<1>4. ASSUME NEW r \in Reversals, BeginReverseAllocations(p, r) PROVE IInv'
  <2>1. r \in Txns
    BY DEF Txns
  <2> QED BY <1>4, <2>1, StartStep DEF BeginReverseAllocations, OpNames
<1>5. ASSUME NEW t \in Charges, NEW lines \in LineChoices,
             BeginAllocate(p, t, lines) \/ BeginCreditApply(p, t, lines)
             \/ BeginCreditAllocate(p, t, lines)
      PROVE  IInv'
  <2>1. t \in Txns /\ lines \in LineSeqs
    BY LinesAreSeq DEF Txns
  <2>2. \A k \in DOMAIN lines : lines[k].invoice \in Invoices /\ lines[k].amount \in Nat
    BY <2>1, LineOfSeq
  <2>3. \/ Start(p, "allocate", "source", t, lines) /\ DistinctInvoices(lines)
        \/ Start(p, "creditApply", "source", t, lines) /\ Len(lines) = 1
        \/ Start(p, "creditAllocate", "source", t, lines) /\ DistinctInvoices(lines)
    BY <1>5 DEF BeginAllocate, BeginCreditApply, BeginCreditAllocate
  <2> QED BY <2>1, <2>2, <2>3, StartStep DEF OpNames
<1>6. ASSUME NEW i \in Invoices, BeginVoid(p, i) PROVE IInv'
  <2>1. Start(p, "void", "invoices", None, One(i, 0))
    BY <1>6 DEF BeginVoid
  <2> QED BY <2>1, StartOneStep
<1> QED BY <1>1, <1>2, <1>3, <1>4, <1>5, <1>6 DEF Begin

-----------------------------------------------------------------------------
(* The locks.                                                              *)

LEMMA TakeStep ==
  ASSUME IInv, NEW p \in Procs, Waiting(p), Take(p)
  PROVE  /\ lock' \in [Rows -> Procs \cup {None}]
         /\ \A q \in Procs, r \in Rows : lock[r] = q => lock'[r] = q
         /\ NextRow(p) \in Rows => lock'[NextRow(p)] = p
<1>1. /\ lock[NextRow(p)] = None
      /\ lock' = [lock EXCEPT ![NextRow(p)] = p]
  BY DEF Take, Blocked
<1>2. lock \in [Rows -> Procs \cup {None}] /\ None \notin Procs
  BY RequestsAssumption DEF IInv, TypeOK
<1> QED BY <1>1, <1>2

(* A lock on a transaction or a credit leaves what was read unchanged.     *)
LEMMA LockStep ==
  ASSUME IInv, NEW p \in Procs, Waiting(p), Take(p), NEW j,
         UNCHANGED <<tables, seen>>,
         job' = [job EXCEPT ![p] = j],
         JobOK(j), JobShape(j),
         j.stage \in {"update", "commit"} => \A i \in Touched(j) : seen[p][i] # None,
         j.stage \notin {"idle", "source"} =>
            ReliesOn(j) /\ \A row \in Held(j) : lock'[row] = p
  PROVE  IInv'
<1>1. \A i \in Invoices : seen'[p][i] # None =>
         seen'[p][i] = invoice[i] /\ lock'[<<"invoice", i>>] = p
  <2>1. \A i \in Invoices : <<"invoice", i>> \in Rows
    BY DEF Rows
  <2> QED BY <2>1, TakeStep DEF IInv, NoLostUpdate
<1>2. seen' \in [Procs -> [Invoices -> InvoiceRow \cup {None}]]
  BY DEF IInv, TypeOK
<1> QED BY <1>1, <1>2, TakeStep, ProcessStep

LEMMA LockSourceStep ==
  ASSUME IInv, NEW p \in Procs, LockSource(p)
  PROVE  IInv'
<1> DEFINE j == job[p]
           new == IF j.op = "reverseAllocations"
                  THEN [j EXCEPT !.stage = "original",
                                 !.orig  = ResolveOriginalForAllocations(j.src)]
                  ELSE [j EXCEPT !.stage = "invoices"]
<1>1. JobOK(j) /\ JobShape(j) /\ j.stage = "source" /\ SourceCheck(j)
  BY DEF IInv, TypeOK, SettlementInv, Keeps, LockSource
<1>2. NextRow(p) = SourceRow(j)
  BY <1>1 DEF NextRow
<1>3. job' = [job EXCEPT ![p] = new] /\ UNCHANGED <<tables, seen>>
      /\ Take(p) /\ Waiting(p)
  BY <1>1 DEF LockSource, Waiting
<1>4. ASSUME SourceRow(j) \in Rows PROVE lock'[SourceRow(j)] = p
  BY <1>2, <1>3, <1>4, TakeStep
<1>5. CASE j.op = "reverseAllocations"
  <2>1. LET orig == ResolveOriginalForAllocations(j.src)
        IN  orig \in Charges /\ (Original[j.src] \in Charges => orig = Original[j.src])
    BY <1>1, <1>5, ResolveForAllocationsType, SettlementAssumption
       DEF SourceCheck, JobShape, ResolveOriginalForAllocations, ResolveOriginalCharge, Reversals
  <2>2. JobOK(new) /\ JobShape(new)
    BY <1>1, <1>5, <2>1 DEF JobOK, JobShape
  <2>3. new.op = "reverseAllocations" /\ new.stage = "original" /\ new.src = j.src
    BY <1>1, <1>5 DEF JobOK
  <2>4. Held(new) = {SourceRow(j)} /\ SourceRow(j) \in Rows
    BY <1>1, <1>5, <2>3 DEF Held, SourceRow, Planned, JobShape, Rows, Txns
  <2>5. ReliesOn(new)
    BY <1>1, <1>5, <2>3 DEF ReliesOn, Planned, SourceCheck
  <2> HIDE DEF new
  <2> QED BY <1>3, <1>4, <2>2, <2>3, <2>4, <2>5, LockStep
<1>6. CASE j.op # "reverseAllocations"
  <2>1. JobOK(new) /\ JobShape(new)
    BY <1>1, <1>6 DEF JobOK, JobShape
  <2>2. new.op = j.op /\ new.stage = "invoices" /\ new.src = j.src /\ new.lines = j.lines
    BY <1>1, <1>6 DEF JobOK
  <2>3. Held(new) \subseteq {SourceRow(j)}
    BY <1>6, <2>2 DEF Held, SourceRow, Planned
  <2>4. ReliesOn(new)
    BY <1>1, <1>6, <2>2 DEF ReliesOn, Planned, SourceCheck
  <2>5. Held(new) \subseteq Rows
    BY <2>1, <2>2, HeldRows
  <2>6. \A row \in Held(new) : lock'[row] = p
    BY <1>4, <2>3, <2>5
  <2> HIDE DEF new
  <2> QED BY <1>3, <2>1, <2>2, <2>4, <2>6, LockStep
<1> QED BY <1>5, <1>6

(* The lines of a plan: allocations of the charge, positive amounts.       *)
LEMMA PlanLines ==
  ASSUME IInv, NEW c \in Charges, NEW rows, NEW amount,
         NEW k \in DOMAIN ReversalPlan(allocs[c], rows, amount)
  PROVE  /\ ReversalPlan(allocs[c], rows, amount)[k].invoice \in Invoices
         /\ ReversalPlan(allocs[c], rows, amount)[k].amount \in Nat \ {0}
<1> DEFINE lefts == RemainingAllocations(allocs[c], rows)
           effective == EffectiveReversal(amount, Total(allocs[c]))
<1>1. ReversalPlan(allocs[c], rows, amount) = ComputeReverseAllocationPlan(lefts, effective)
  BY DEF ReversalPlan
<1>2. /\ k \in DOMAIN lefts
      /\ LineAmount(lefts, effective, k) \in Nat \ {0}
      /\ ComputeReverseAllocationPlan(lefts, effective)[k]
           = [invoice |-> lefts[k].invoice, amount |-> LineAmount(lefts, effective, k)]
  <2> HIDE DEF lefts, effective
  <2> QED BY <1>1 DEF ComputeReverseAllocationPlan
<1>3. k \in DOMAIN allocs[c] /\ lefts[k].invoice = allocs[c][k].invoice
  BY <1>2 DEF RemainingAllocations
<1>4. allocs[c] \in LineSeqs
  BY DEF IInv, TypeOK, TablesOK
<1>5. allocs[c][k].invoice \in Invoices
  BY <1>3, <1>4, LineOfSeq
<1> HIDE DEF lefts, effective
<1> QED BY <1>1, <1>2, <1>3, <1>5

LEMMA LockOriginalStep ==
  ASSUME IInv, NEW p \in Procs, LockOriginal(p)
  PROVE  IInv'
<1> DEFINE j == job[p]
           plan == PlanFor(j.src, j.orig)
           new == [op |-> j.op, stage |-> IF DOMAIN plan = {} THEN "commit" ELSE "invoices",
                   src |-> j.src, orig |-> j.orig, lines |-> plan]
<1>1. JobOK(j) /\ JobShape(j) /\ j.stage = "original" /\ Keeps(p)
  BY DEF IInv, TypeOK, SettlementInv, Keeps, LockOriginal
<1>2. j.op = "reverseAllocations" /\ j.orig \in Charges /\ j.src \in Txns
  BY <1>1 DEF JobShape, Txns
<1>3. \A k \in DOMAIN plan : plan[k].invoice \in Invoices /\ plan[k].amount \in Nat \ {0}
  BY <1>2, PlanLines DEF PlanFor
<1>4. job' = [job EXCEPT ![p] = new] /\ UNCHANGED <<tables, seen>>
      /\ Take(p) /\ Waiting(p) /\ OriginalCheck(j.src, j.orig)
  BY <1>1 DEF LockOriginal, Waiting
<1>5. ReliesOn(j) /\ lock[<<"txn", j.src>>] = p
  BY <1>1, <1>2 DEF Keeps, Held, SourceRow
<1>6. lock'[<<"txn", j.src>>] = p /\ lock'[<<"txn", j.orig>>] = p
  <2>1. <<"txn", j.src>> \in Rows /\ <<"txn", j.orig>> \in Rows
    BY <1>2 DEF Rows, Txns
  <2>2. NextRow(p) = <<"txn", j.orig>>
    BY <1>1 DEF NextRow
  <2> QED BY <1>4, <1>5, <2>1, <2>2, TakeStep
<1> HIDE DEF plan
<1>7. JobOK(new)
  BY <1>1, <1>3 DEF JobOK
<1>8. JobShape(new)
  BY <1>1, <1>2, <1>3 DEF JobShape
<1>9. /\ new.op = "reverseAllocations" /\ new.stage \in {"invoices", "commit"}
      /\ new.src = j.src /\ new.orig = j.orig /\ new.lines = plan
      /\ new.stage = "commit" => DOMAIN plan = {}
  BY <1>2
<1> HIDE DEF new
<1>10. ReliesOn(new)
  BY <1>2, <1>4, <1>5, <1>9 DEF ReliesOn, plan
<1>11. \A row \in Held(new) : lock'[row] = p
  BY <1>6, <1>9 DEF Held, SourceRow
<1>12. new.stage \in {"update", "commit"} => Touched(new) = {}
  BY <1>9 DEF Touched, InvoicesOf
<1> QED BY <1>4, <1>7, <1>8, <1>9, <1>10, <1>11, <1>12, LockStep

LEMMA LockForUpdateStep ==
  ASSUME IInv, NEW p \in Procs, LockForUpdate(p)
  PROVE  IInv'
<1> DEFINE j == job[p]
           new == [j EXCEPT !.stage = "commit"]
<1>1. JobOK(j) /\ JobShape(j) /\ j.stage = "update" /\ Keeps(p)
  BY DEF IInv, TypeOK, SettlementInv, Keeps, LockForUpdate
<1>2. j.op = "unapply"
  BY <1>1 DEF JobShape
<1>3. job' = [job EXCEPT ![p] = new] /\ UNCHANGED <<tables, seen>>
      /\ Take(p) /\ Waiting(p)
  BY <1>1 DEF LockForUpdate, Waiting
<1>4. JobOK(new) /\ JobShape(new)
  BY <1>1, <1>2 DEF JobOK, JobShape
<1>5. new.op = "unapply" /\ Touched(new) = Touched(j)
  BY <1>1, <1>2 DEF JobOK, Touched
<1>6. ReliesOn(new) /\ Held(new) = {}
  BY <1>5 DEF ReliesOn, Held, Planned
<1>7. \A i \in Touched(j) : seen[p][i] # None
  BY <1>1 DEF Keeps
<1> HIDE DEF new
<1> QED BY <1>3, <1>4, <1>5, <1>6, <1>7, LockStep

LEMMA LockInvoiceStep ==
  ASSUME IInv, NEW p \in Procs, LockInvoice(p)
  PROVE  IInv'
<1> DEFINE j == job[p]
           i == NextInvoice(p)
           stage == IF \A k \in Touched(j) \ {i} : seen[p][k] # None
                    THEN IF j.op = "unapply" THEN "update" ELSE "commit"
                    ELSE "invoices"
           new == [j EXCEPT !.stage = stage]
<1>1. JobOK(j) /\ JobShape(j) /\ j.stage = "invoices" /\ Keeps(p)
  BY DEF IInv, TypeOK, SettlementInv, Keeps, LockInvoice
<1>2. job' = [job EXCEPT ![p] = new] /\ UNCHANGED tables
      /\ seen' = [seen EXCEPT ![p][i] = invoice[i]]
      /\ Take(p) /\ Waiting(p)
  BY <1>1 DEF LockInvoice, Waiting
<1>3. NextRow(p) = <<"invoice", i>>
  BY <1>1 DEF NextRow
<1>4. /\ stage \in {"invoices", "update", "commit"}
      /\ stage = "update" => j.op = "unapply"
      /\ stage # "invoices" => \A k \in Touched(j) \ {i} : seen[p][k] # None
  OBVIOUS
<1> HIDE DEF stage, i
<1>5. /\ JobOK(new) /\ JobShape(new)
      /\ new.op = j.op /\ new.src = j.src /\ new.lines = j.lines /\ new.stage = stage
      /\ Touched(new) = Touched(j)
  BY <1>1, <1>4 DEF JobOK, JobShape, Touched
<1>6. seen \in [Procs -> [Invoices -> InvoiceRow \cup {None}]]
      /\ invoice \in [Invoices -> InvoiceRow]
  BY DEF IInv, TypeOK, TablesOK
<1>7. /\ seen' \in [Procs -> [Invoices -> InvoiceRow \cup {None}]]
      /\ \A q \in Procs \ {p} : seen'[q] = seen[q]
      /\ \A n \in Invoices : seen'[p][n] = IF n = i THEN invoice[i] ELSE seen[p][n]
  BY <1>2, <1>6
<1>8. \A n \in Invoices : seen'[p][n] # None =>
         seen'[p][n] = invoice[n] /\ lock'[<<"invoice", n>>] = p
  <2>1. \A n \in Invoices : <<"invoice", n>> \in Rows
    BY DEF Rows
  <2> QED BY <1>2, <1>3, <1>7, <2>1, TakeStep DEF IInv, NoLostUpdate
<1>9. stage \in {"update", "commit"} => \A n \in Touched(j) : seen'[p][n] # None
  <2>1. Touched(j) \subseteq Invoices
    BY <1>1 DEF JobOK, Touched, InvoicesOf
  <2>2. None \notin InvoiceRow
    BY SettlementAssumption DEF InvoiceRow
  <2> QED BY <1>4, <1>6, <1>7, <2>1, <2>2
<1>10. ReliesOn(new) /\ Held(new) = Held(j)
  <2>1. new.orig = j.orig /\ (Planned(new) <=> Planned(j))
    BY <1>1, <1>4, <1>5 DEF JobOK, Planned
  <2>2. ReliesOn(j)
    BY <1>1 DEF Keeps
  <2> QED BY <1>5, <2>1, <2>2 DEF ReliesOn, Held, SourceRow
<1>11. \A row \in Held(j) : lock'[row] = p
  BY <1>1, <1>2, HeldRows, TakeStep DEF Keeps
<1> HIDE DEF new
<1> QED BY <1>2, <1>4, <1>5, <1>7, <1>8, <1>9, <1>10, <1>11, TakeStep, ProcessStep

-----------------------------------------------------------------------------
(* The commits.                                                            *)

LEMMA EndsInCommit ==
  ASSUME IInv, NEW p \in Procs, NEW op, Committing(p, op)
  PROVE  /\ job[p].op = op /\ job[p].stage = "commit" /\ CommitCheck(p) /\ End(p)
         /\ Keeps(p) /\ JobOK(job[p]) /\ JobShape(job[p])
         /\ ReliesOn(job[p]) /\ \A row \in Held(job[p]) : lock[row] = p
         /\ TablesOK /\ BalanceCoherent
BY DEF Committing, IInv, TypeOK, SettlementInv, Keeps

(* A commit that leaves the allocations and their reversals alone.         *)
LEMMA LeavesOthers ==
  ASSUME NEW p, NEW t \in Txns, UNCHANGED <<allocs, reverseRows>>,
         applied[t] = None => applied'[t] = None
  PROVE  LeavesTxn(t)
BY DEF LeavesTxn, ReverseRowsOf, ReverseRowsOfOrig

LEMMA ApplyStep ==
  ASSUME IInv, NEW p \in Procs, ApplyPaymentTransactionToInvoice(p)
  PROVE  IInv'
<1> DEFINE t == job[p].src
           i == InvoiceOf(t)
           amount == Applied(t, seen[p][i])
           excess == Excess(t, seen[p][i])
           row == PaidRow(seen[p][i], amount)
<1>1. Committing(p, "apply") /\ ApplyCharge(t, seen[p])
  BY DEF ApplyPaymentTransactionToInvoice
<1>2. /\ job[p].op = "apply" /\ job[p].stage = "commit" /\ CommitCheck(p) /\ End(p)
      /\ JobShape(job[p]) /\ TablesOK /\ BalanceCoherent
      /\ \A n \in Held(job[p]) : lock[n] = p
  BY <1>1, EndsInCommit
<1>3. /\ t \in Charges /\ t \in Txns /\ TxnAmount[t] \in Nat /\ TxnAmount[t] > 0
      /\ Request[t] \in Requests /\ i = job[p].lines[1].invoice
  BY <1>2, SettlementAssumption DEF JobShape, Txns
<1>4. /\ i \in Touched(job[p]) /\ i \in Invoices /\ seen[p][i] = invoice[i]
      /\ invoice[i] \in InvoiceRow /\ RowCoherent(i, invoice[i])
  BY <1>2, <1>3, FirstRow
<1>5. /\ amount \in Nat /\ amount <= seen[p][i].balance
      /\ amount > 0 \/ seen[p][i].balance = 0
      /\ excess \in Nat
  <2>1. seen[p][i].balance \in Nat
    BY <1>4 DEF InvoiceRow
  <2> QED BY <1>3, <2>1 DEF Applied, Excess
<1>6. row \in InvoiceRow /\ RowCoherent(i, row)
  BY <1>4, <1>5, PaidRowOK
<1>7. /\ invoice' = [invoice EXCEPT ![i] = row]
      /\ applied' = [applied EXCEPT ![t] = i]
      /\ appliedAmount' = [appliedAmount EXCEPT ![t] = amount]
      /\ paidRequests' = paidRequests \cup {Request[t]}
      /\ credit' = IF excess > 0
                   THEN [credit EXCEPT ![t] = [original |-> excess, remaining |-> excess]]
                   ELSE credit
      /\ UNCHANGED <<allocs, reverseRows, creditApps, restored>>
  BY <1>1 DEF ApplyCharge
<1>8. excess > 0 => credit[t] = NoCredit
  BY <1>2 DEF CommitCheck, CanApply
<1>9. lock[<<"txn", t>>] = p
  BY <1>2 DEF Held, SourceRow
<1> HIDE DEF row, i, amount, excess
<1>10. /\ invoice' \in [Invoices -> InvoiceRow] /\ BalanceCoherent'
       /\ \A n \in Invoices : invoice'[n] = invoice[n] \/ lock[<<"invoice", n>>] = p
  BY <1>2, <1>4, <1>6, <1>7, OneRowOK
<1>11. credit' \in [Charges -> [original : Nat, remaining : Nat]]
  BY <1>2, <1>3, <1>5, <1>7 DEF TablesOK
<1>12. TablesOK'
  BY <1>2, <1>3, <1>4, <1>5, <1>7, <1>10, <1>11 DEF TablesOK
<1>13. \A n \in Txns : LeavesTxn(n) \/ lock[<<"txn", n>>] = p
  <2>1. \A n \in Txns \ {t} : applied'[n] = applied[n]
    BY <1>2, <1>3, <1>7 DEF TablesOK
  <2> QED BY <1>7, <1>9, <2>1, LeavesOthers
<1>14. \A c \in Charges : LeavesCredit(c)
  BY <1>2, <1>3, <1>7, <1>8 DEF TablesOK, NoCredit, LeavesCredit
<1> QED BY <1>2, <1>10, <1>12, <1>13, <1>14, CommitStep

LEMMA ReversalStep ==
  ASSUME IInv, NEW p \in Procs, ApplyReversalToInvoice(p)
  PROVE  IInv'
<1> DEFINE r == job[p].src
           i == ReversedInvoice(r)
           restore == EffectiveReverseRestore(r)
           row == RestoredRow(i, seen[p][i], restore)
<1>1. Committing(p, "reverse") /\ Reverse(r, seen[p])
  BY DEF ApplyReversalToInvoice
<1>2. /\ job[p].op = "reverse" /\ job[p].stage = "commit" /\ CommitCheck(p) /\ End(p)
      /\ JobShape(job[p]) /\ TablesOK /\ BalanceCoherent
      /\ \A n \in Held(job[p]) : lock[n] = p
  BY <1>1, EndsInCommit
<1>3. r \in Reversals /\ r \in Txns /\ restore \in Nat /\ i = job[p].lines[1].invoice
  BY <1>2, RestoreType DEF JobShape, Txns, IInv
<1>4. /\ i \in Touched(job[p]) /\ i \in Invoices /\ seen[p][i] = invoice[i]
      /\ invoice[i] \in InvoiceRow /\ RowCoherent(i, invoice[i])
  BY <1>2, <1>3, FirstRow
<1>5. seen[p][i].balance + restore <= InvAmount[i]
  BY <1>2 DEF CommitCheck, CanReverse, WithinAmount
<1>6. row \in InvoiceRow /\ RowCoherent(i, row)
  BY <1>3, <1>4, <1>5, RestoredRowOK
<1>7. /\ invoice' = [invoice EXCEPT ![i] = row]
      /\ applied' = [applied EXCEPT ![r] = i]
      /\ restored' = [restored EXCEPT ![r] = restore]
      /\ UNCHANGED <<appliedAmount, allocs, reverseRows, credit, creditApps, paidRequests>>
  BY <1>1 DEF Reverse
<1>8. lock[<<"txn", r>>] = p
  BY <1>2 DEF Held, SourceRow
<1> HIDE DEF row, i, restore
<1>9. /\ invoice' \in [Invoices -> InvoiceRow] /\ BalanceCoherent'
      /\ \A n \in Invoices : invoice'[n] = invoice[n] \/ lock[<<"invoice", n>>] = p
  BY <1>2, <1>4, <1>6, <1>7, OneRowOK
<1>10. TablesOK'
  BY <1>2, <1>3, <1>4, <1>7, <1>9 DEF TablesOK
<1>11. \A n \in Txns : LeavesTxn(n) \/ lock[<<"txn", n>>] = p
  <2>1. \A n \in Txns \ {r} : applied'[n] = applied[n]
    BY <1>2, <1>3, <1>7 DEF TablesOK
  <2> QED BY <1>7, <1>8, <2>1, LeavesOthers
<1>12. \A c \in Charges : LeavesCredit(c)
  BY <1>7 DEF LeavesCredit
<1> QED BY <1>2, <1>9, <1>10, <1>11, <1>12, CommitStep

LEMMA UnapplyStep ==
  ASSUME IInv, NEW p \in Procs, UnapplyPaymentTransaction(p)
  PROVE  IInv'
<1> DEFINE t == job[p].src
           i == job[p].lines[1].invoice
           amount == job[p].lines[1].amount
           row == RestoredRow(i, seen[p][i], amount)
<1>1. Committing(p, "unapply") /\ Unapply(t, i, amount, seen[p])
  BY DEF UnapplyPaymentTransaction
<1>2. /\ job[p].op = "unapply" /\ job[p].stage = "commit" /\ CommitCheck(p) /\ End(p)
      /\ JobShape(job[p]) /\ TablesOK /\ BalanceCoherent
  BY <1>1, EndsInCommit
<1>3. t \in Txns /\ amount \in Nat
  BY <1>2, FirstLine DEF JobShape, Txns
<1>4. /\ i \in Touched(job[p]) /\ i \in Invoices /\ seen[p][i] = invoice[i]
      /\ invoice[i] \in InvoiceRow /\ RowCoherent(i, invoice[i])
  BY <1>2, FirstRow
<1>5. seen[p][i].balance + amount <= InvAmount[i]
  BY <1>2 DEF CommitCheck, WithinAmount
<1>6. row \in InvoiceRow /\ RowCoherent(i, row)
  BY <1>3, <1>4, <1>5, RestoredRowOK
<1>7. /\ invoice' = [invoice EXCEPT ![i] = row]
      /\ applied' = [applied EXCEPT ![t] = None]
      /\ appliedAmount' = [appliedAmount EXCEPT ![t] = None]
      /\ UNCHANGED <<allocs, reverseRows, credit, creditApps, paidRequests, restored>>
  BY <1>1 DEF Unapply
<1> HIDE DEF row, i, amount
<1>8. /\ invoice' \in [Invoices -> InvoiceRow] /\ BalanceCoherent'
      /\ \A n \in Invoices : invoice'[n] = invoice[n] \/ lock[<<"invoice", n>>] = p
  BY <1>2, <1>4, <1>6, <1>7, OneRowOK
<1>9. TablesOK'
  BY <1>2, <1>3, <1>7, <1>8 DEF TablesOK
<1>10. \A n \in Txns : LeavesTxn(n)
  <2>1. \A n \in Txns : applied[n] = None => applied'[n] = None
    BY <1>2, <1>3, <1>7 DEF TablesOK
  <2> QED BY <1>7, <2>1, LeavesOthers
<1>11. \A c \in Charges : LeavesCredit(c)
  BY <1>7 DEF LeavesCredit
<1> QED BY <1>2, <1>8, <1>9, <1>10, <1>11, CommitStep

LEMMA AllocateStep ==
  ASSUME IInv, NEW p \in Procs, AllocatePaymentToMultipleInvoices(p)
  PROVE  IInv'
<1> DEFINE t == job[p].src
           lines == job[p].lines
<1>1. Committing(p, "allocate") /\ Allocate(t, lines, seen[p])
  BY DEF AllocatePaymentToMultipleInvoices
<1>2. /\ PayLines(lines, seen[p])
      /\ allocs' = [allocs EXCEPT ![t] = @ \o lines]
      /\ UNCHANGED <<applied, appliedAmount, reverseRows, credit, creditApps,
                     paidRequests, restored>>
  BY <1>1 DEF Allocate
<1>3. /\ job[p].op = "allocate" /\ job[p].stage = "commit" /\ CommitCheck(p) /\ End(p)
      /\ JobShape(job[p]) /\ TablesOK
      /\ \A n \in Held(job[p]) : lock[n] = p
  BY <1>1, EndsInCommit
<1>4. t \in Charges /\ lines \in LineSeqs
  BY <1>3, LinesAreSeq DEF JobShape
<1>5. AllAccept(lines, ChargeCustomer(t, lines), seen[p])
  BY <1>3 DEF CommitCheck, CanAllocate
<1>6. /\ invoice' \in [Invoices -> InvoiceRow] /\ BalanceCoherent'
      /\ \A n \in Invoices : invoice'[n] = invoice[n] \/ lock[<<"invoice", n>>] = p
  BY <1>2, <1>3, <1>5, PayLinesOK
<1>7. allocs[t] \o lines \in LineSeqs
  BY <1>3, <1>4, ConcatProperties DEF TablesOK, LineSeqs
<1>8. TablesOK'
  BY <1>2, <1>3, <1>4, <1>6, <1>7 DEF TablesOK
<1>9. \A n \in Txns : LeavesTxn(n) \/ lock[<<"txn", n>>] = p
  <2>1. lock[<<"txn", t>>] = p
    BY <1>3 DEF Held, SourceRow
  <2>2. \A n \in Charges \ {t} : allocs'[n] = allocs[n]
    BY <1>2, <1>3, <1>4 DEF TablesOK
  <2> QED BY <1>2, <2>1, <2>2 DEF LeavesTxn, ReverseRowsOf, ReverseRowsOfOrig
<1>10. \A c \in Charges : LeavesCredit(c)
  BY <1>2 DEF LeavesCredit
<1> QED BY <1>3, <1>6, <1>8, <1>9, <1>10, CommitStep

LEMMA ReverseAllocationsStep ==
  ASSUME IInv, NEW p \in Procs, ApplyReverseAllocations(p)
  PROVE  IInv'
<1> DEFINE j == job[p]
           new == {[rev     |-> j.src,
                    orig    |-> j.orig,
                    alloc   |-> k,
                    invoice |-> j.lines[k].invoice,
                    amount  |-> j.lines[k].amount] : k \in DOMAIN j.lines}
<1>1. Committing(p, "reverseAllocations")
      /\ ReverseAllocations(j.src, j.orig, j.lines, seen[p])
  BY DEF ApplyReverseAllocations
<1>2. /\ invoice' = [i \in Invoices |-> IF i \in Touched(j)
                                        THEN RestoredRow(i, seen[p][i], AmountFor(j.lines, i))
                                        ELSE invoice[i]]
      /\ reverseRows' = reverseRows \cup new
      /\ UNCHANGED <<applied, appliedAmount, allocs, credit, creditApps,
                     paidRequests, restored>>
  BY <1>1 DEF ReverseAllocations, Touched
<1>3. /\ j.op = "reverseAllocations" /\ j.stage = "commit" /\ CommitCheck(p) /\ End(p)
      /\ JobShape(j) /\ JobOK(j) /\ TablesOK /\ BalanceCoherent
      /\ \A n \in Held(j) : lock[n] = p
  BY <1>1, EndsInCommit
<1>4. ASSUME NEW i \in Invoices
      PROVE  /\ invoice'[i] \in InvoiceRow /\ RowCoherent(i, invoice'[i])
             /\ invoice'[i] = invoice[i] \/ lock[<<"invoice", i>>] = p
  <2>1. CASE i \notin Touched(j)
    BY <1>2, <1>3, <2>1 DEF TablesOK, BalanceCoherent
  <2>2. CASE i \in Touched(j)
    <3>1. AmountFor(j.lines, i) \in Nat
      BY <2>2, AmountForType
    <3>2. seen[p][i].balance + AmountFor(j.lines, i) <= InvAmount[i]
      BY <1>3, <2>2 DEF CommitCheck, CanReverseAllocations, WithinAmount, Touched
    <3>3. invoice'[i] = RestoredRow(i, seen[p][i], AmountFor(j.lines, i))
      BY <1>2, <2>2
    <3>4. /\ seen[p][i] = invoice[i] /\ lock[<<"invoice", i>>] = p
          /\ invoice[i] \in InvoiceRow /\ RowCoherent(i, invoice[i])
      BY <1>3, <2>2, SeenRows
    <3> QED BY <3>1, <3>2, <3>3, <3>4, RestoredRowOK
  <2> QED BY <2>1, <2>2
<1>5. invoice' \in [Invoices -> InvoiceRow]
  BY <1>2, <1>4
<1>6. BalanceCoherent'
  BY <1>4 DEF BalanceCoherent, RowCoherent
<1>7. \A row \in reverseRows' : /\ row.rev \in Reversals /\ row.orig \in Charges
                                /\ row.invoice \in Invoices /\ row.amount \in Nat \ {0}
  <2>1. j.src \in Reversals /\ j.orig \in Charges
    BY <1>3 DEF JobShape
  <2>2. \A k \in DOMAIN j.lines : /\ j.lines[k].invoice \in Invoices
                                  /\ j.lines[k].amount \in Nat \ {0}
    BY <1>3 DEF JobOK, JobShape
  <2> QED BY <1>2, <1>3, <2>1, <2>2 DEF TablesOK
<1>8. TablesOK'
  BY <1>2, <1>3, <1>5, <1>7 DEF TablesOK
<1>9. \A n \in Txns : LeavesTxn(n) \/ lock[<<"txn", n>>] = p
  <2>1. lock[<<"txn", j.src>>] = p /\ lock[<<"txn", j.orig>>] = p
    BY <1>3 DEF Held, SourceRow, Planned
  <2>2. \A row \in new : row.rev = j.src /\ row.orig = j.orig
    OBVIOUS
  <2> HIDE DEF new
  <2>3. ASSUME NEW n \in Txns \ {j.src, j.orig}
        PROVE  /\ ReverseRowsOf(n)' = ReverseRowsOf(n)
               /\ ReverseRowsOfOrig(n)' = ReverseRowsOfOrig(n)
    BY <1>2, <2>2 DEF ReverseRowsOf, ReverseRowsOfOrig
  <2> QED BY <1>2, <2>1, <2>3 DEF LeavesTxn
<1>10. \A c \in Charges : LeavesCredit(c)
  BY <1>2 DEF LeavesCredit
<1> QED BY <1>3, <1>4, <1>6, <1>8, <1>9, <1>10, CommitStep

LEMMA CreditStep ==
  ASSUME IInv, NEW p \in Procs, ApplyCustomerCredit(p)
  PROVE  IInv'
<1> DEFINE c == job[p].src
           lines == job[p].lines
           left == credit[c].remaining - Total(lines)
<1>1. PICK op \in {"creditApply", "creditAllocate"} : Committing(p, op)
  BY DEF ApplyCustomerCredit
<1>2. /\ job[p].op = op /\ job[p].stage = "commit" /\ CommitCheck(p) /\ End(p)
      /\ JobShape(job[p]) /\ ReliesOn(job[p]) /\ TablesOK
      /\ \A n \in Held(job[p]) : lock[n] = p
  BY <1>1, EndsInCommit
<1>3. c \in Charges /\ lines \in LineSeqs /\ c \in Txns
  BY <1>2, LinesAreSeq DEF JobShape, Txns
<1>4. left \in Nat /\ lock[<<"credit", c>>] = p
  BY <1>2 DEF ReliesOn, FitsCredit, Held, SourceRow
<1>5. /\ PayLines(lines, seen[p])
      /\ credit' = [credit EXCEPT ![c].remaining = left]
      /\ creditApps' = [creditApps EXCEPT ![c] = @ \o lines]
      /\ UNCHANGED <<applied, appliedAmount, allocs, reverseRows, paidRequests, restored>>
  BY DEF ApplyCustomerCredit, UseCredit
<1>6. AllAccept(lines, Customer[InvoiceOf(c)], seen[p])
  BY <1>2 DEF CommitCheck, CanUseCredit
<1>7. /\ invoice' \in [Invoices -> InvoiceRow] /\ BalanceCoherent'
      /\ \A n \in Invoices : invoice'[n] = invoice[n] \/ lock[<<"invoice", n>>] = p
  BY <1>2, <1>5, <1>6, PayLinesOK
<1>8. creditApps[c] \o lines \in LineSeqs
  BY <1>2, <1>3, ConcatProperties DEF TablesOK, LineSeqs
<1> HIDE DEF left
<1>9. /\ credit' \in [Charges -> [original : Nat, remaining : Nat]]
      /\ \A n \in Charges \ {c} : credit'[n] = credit[n]
  BY <1>2, <1>3, <1>4, <1>5 DEF TablesOK
<1>10. creditApps' \in [Charges -> LineSeqs]
  BY <1>2, <1>3, <1>5, <1>8 DEF TablesOK
<1>11. TablesOK'
  BY <1>2, <1>5, <1>7, <1>9, <1>10 DEF TablesOK
<1>12. \A n \in Txns : LeavesTxn(n)
  BY <1>5, LeavesOthers
<1>13. \A n \in Charges : LeavesCredit(n) \/ lock[<<"credit", n>>] = p
  BY <1>4, <1>9 DEF LeavesCredit
<1> QED BY <1>2, <1>7, <1>11, <1>12, <1>13, CommitStep

LEMMA VoidStep ==
  ASSUME IInv, NEW p \in Procs, VoidInvoice(p)
  PROVE  IInv'
<1> DEFINE i == job[p].lines[1].invoice
           row == VoidedInvoice
<1>1. /\ Committing(p, "void") /\ invoice' = [invoice EXCEPT ![i] = row]
      /\ UNCHANGED <<applied, appliedAmount, allocs, reverseRows, credit, creditApps,
                     paidRequests, restored>>
  BY DEF VoidInvoice, Void
<1>2. /\ job[p].op = "void" /\ job[p].stage = "commit" /\ End(p) /\ TablesOK
  BY <1>1, EndsInCommit
<1>3. i \in Touched(job[p])
  BY <1>2, FirstRow
<1>4. row \in InvoiceRow /\ RowCoherent(i, row)
  BY DEF InvoiceRow, RowCoherent, VoidedInvoice
<1> HIDE DEF row, i
<1>5. /\ invoice' \in [Invoices -> InvoiceRow] /\ BalanceCoherent'
      /\ \A n \in Invoices : invoice'[n] = invoice[n] \/ lock[<<"invoice", n>>] = p
  BY <1>1, <1>2, <1>3, <1>4, OneRowOK
<1>6. TablesOK'
  BY <1>1, <1>2, <1>5 DEF TablesOK
<1>7. (\A n \in Txns : LeavesTxn(n)) /\ (\A c \in Charges : LeavesCredit(c))
  BY <1>1, LeavesOthers DEF LeavesCredit
<1> QED BY <1>2, <1>5, <1>6, <1>7, CommitStep

(* A rollback, asked for or suffered.                                      *)
LEMMA RollbackStep ==
  ASSUME IInv, NEW p \in Procs, Refuse(p) \/ Crash(p)
  PROVE  IInv'
<1>1. End(p) /\ UNCHANGED tables
  BY DEF Refuse, Crash
<1>2. TablesOK' /\ BalanceCoherent'
  BY <1>1 DEF IInv, TypeOK, TablesOK, BalanceCoherent, tables
<1>3. (\A n \in Txns : LeavesTxn(n)) /\ (\A c \in Charges : LeavesCredit(c))
  BY <1>1, LeavesOthers DEF LeavesCredit, tables
<1> QED BY <1>1, <1>2, <1>3, CommitStep DEF tables

-----------------------------------------------------------------------------
LEMMA NextInv == IInv /\ [Next]_vars => IInv'
<1> SUFFICES ASSUME IInv, [Next]_vars PROVE IInv'
  OBVIOUS
<1>1. CASE UNCHANGED vars
  <2>1. UNCHANGED <<tables, lock, seen, job>>
    BY <1>1 DEF vars, tables
  <2>2. TypeOK' /\ BalanceCoherent' /\ NoLostUpdate'
    BY <2>1 DEF IInv, TypeOK, TablesOK, BalanceCoherent, NoLostUpdate, tables, JobOK
  <2>3. ASSUME NEW q \in Procs PROVE Keeps(q)'
    <3>1. Keeps(q)
      BY DEF IInv, SettlementInv
    <3>2. JobShape(job[q])' /\ Held(job[q])' = Held(job[q])
          /\ Touched(job[q])' = Touched(job[q])
      BY <2>1, <3>1, SameJob DEF Keeps
    <3>3. ReliesOn(job[q]) => ReliesOn(job[q])'
      BY <2>1, SameReliance
    <3> QED BY <2>1, <3>1, <3>2, <3>3 DEF Keeps
  <2> QED BY <2>2, <2>3 DEF IInv, SettlementInv
<1>2. ASSUME NEW p \in Procs, Begin(p) PROVE IInv'
  BY <1>2, BeginStep
<1>3. ASSUME NEW p \in Procs, Proceed(p) PROVE IInv'
  BY <1>3, LockSourceStep, LockOriginalStep, LockInvoiceStep, LockForUpdateStep,
     ApplyStep, ReversalStep, UnapplyStep, AllocateStep, ReverseAllocationsStep,
     CreditStep, VoidStep, RollbackStep DEF Proceed, Commit
<1>4. ASSUME NEW p \in Procs, Crash(p) PROVE IInv'
  BY <1>4, RollbackStep
<1> QED BY <1>1, <1>2, <1>3, <1>4 DEF Next

(* The inductive invariant holds in every reachable state, however many    *)
(* requests race on however many rows.                                     *)
THEOREM Invariance == Spec => []IInv
<1> QED BY InitInv, NextInv, PTL DEF Spec

(* Every row the services write is well formed: in particular no balance,  *)
(* credit or amount written is negative.                                   *)
THEOREM TypeCorrect == Spec => []TypeOK
<1>1. IInv => TypeOK
  BY DEF IInv
<1> QED BY Invariance, <1>1, PTL

(* The status of an invoice always agrees with its balance, which stays    *)
(* between zero and the amount billed.                                     *)
THEOREM BalancesStayCoherent == Spec => []BalanceCoherent
<1>1. IInv => BalanceCoherent
  BY DEF IInv
<1> QED BY Invariance, <1>1, PTL

(* No settlement overwrites another's write to an invoice.                 *)
THEOREM NoUpdateIsLost == Spec => []NoLostUpdate
<1>1. IInv => NoLostUpdate
  BY DEF IInv
<1> QED BY Invariance, <1>1, PTL

-----------------------------------------------------------------------------
(* A transaction is applied by the holder of its row only, who has found   *)
(* it free; nobody else writes what was applied of it.                     *)

LEMMA CommitAppliesOnce ==
  ASSUME IInv, NEW p \in Procs, Commit(p)
  PROVE  AppliedOnceStep
<1> USE DEF AppliedOnceStep
<1>1. TablesOK
  BY DEF IInv, TypeOK
<1>2. CASE ApplyPaymentTransactionToInvoice(p)
  <2>1. Committing(p, "apply") /\ ApplyCharge(job[p].src, seen[p])
    BY <1>2 DEF ApplyPaymentTransactionToInvoice
  <2>2. applied[job[p].src] = None
    BY <2>1, EndsInCommit DEF ReliesOn
  <2>3. \A t \in Txns \ {job[p].src} :
          applied'[t] = applied[t] /\ appliedAmount'[t] = appliedAmount[t]
    BY <1>1, <2>1 DEF TablesOK, ApplyCharge
  <2>4. restored' = restored
    BY <2>1 DEF ApplyCharge
  <2> QED BY <2>2, <2>3, <2>4
<1>3. CASE ApplyReversalToInvoice(p)
  <2>1. Committing(p, "reverse") /\ Reverse(job[p].src, seen[p])
    BY <1>3 DEF ApplyReversalToInvoice
  <2>2. applied[job[p].src] = None
    BY <2>1, EndsInCommit DEF ReliesOn
  <2>3. \A t \in Txns \ {job[p].src} : applied'[t] = applied[t]
    BY <1>1, <2>1 DEF TablesOK, Reverse
  <2>4. \A t \in Reversals \ {job[p].src} : restored'[t] = restored[t]
    BY <1>1, <2>1 DEF TablesOK, Reverse
  <2>5. appliedAmount' = appliedAmount
    BY <2>1 DEF Reverse
  <2> QED BY <2>2, <2>3, <2>4, <2>5
<1>4. CASE UnapplyPaymentTransaction(p)
  <2>1. Committing(p, "unapply")
    BY <1>4 DEF UnapplyPaymentTransaction
  <2>2. job[p].src \in Txns
    BY <2>1, EndsInCommit DEF JobShape, Txns
  <2>3. /\ \A t \in Txns : applied'[t] = IF t = job[p].src THEN None ELSE applied[t]
        /\ \A t \in Txns \ {job[p].src} : appliedAmount'[t] = appliedAmount[t]
        /\ restored' = restored
    BY <1>1, <1>4, <2>2 DEF TablesOK, UnapplyPaymentTransaction, Unapply
  <2> QED BY <2>3
<1>5. CASE \/ AllocatePaymentToMultipleInvoices(p) \/ ApplyReverseAllocations(p)
           \/ ApplyCustomerCredit(p) \/ VoidInvoice(p)
  <2>1. applied' = applied /\ appliedAmount' = appliedAmount /\ restored' = restored
    BY <1>5 DEF AllocatePaymentToMultipleInvoices, Allocate,
                ApplyReverseAllocations, ReverseAllocations,
                ApplyCustomerCredit, UseCredit, VoidInvoice, Void
  <2> QED BY <2>1
<1> QED BY <1>2, <1>3, <1>4, <1>5 DEF Commit

(* The tables change only at a commit.                                     *)
LEMMA TablesChangeAtCommit ==
  ASSUME [Next]_vars
  PROVE  UNCHANGED tables \/ \E p \in Procs : Commit(p)
<1>1. ASSUME NEW p \in Procs, Begin(p) PROVE UNCHANGED tables
  BY <1>1 DEF Begin, BeginApply, BeginUnapply, BeginReverse, BeginReverseAllocations,
              BeginAllocate, BeginCreditApply, BeginCreditAllocate, BeginVoid, Start
<1>2. ASSUME NEW p \in Procs, Proceed(p) PROVE UNCHANGED tables \/ Commit(p)
  BY <1>2 DEF Proceed, LockSource, LockOriginal, LockInvoice, LockForUpdate, Refuse
<1>3. ASSUME NEW p \in Procs, Crash(p) PROVE UNCHANGED tables
  BY <1>3 DEF Crash
<1>4. CASE UNCHANGED vars
  BY <1>4 DEF vars, tables
<1> QED BY <1>1, <1>2, <1>3, <1>4 DEF Next

LEMMA NextAppliesOnce == IInv /\ [Next]_vars => AppliedOnceStep
<1> SUFFICES ASSUME IInv, [Next]_vars PROVE AppliedOnceStep
  OBVIOUS
<1>1. ASSUME NEW p \in Procs, Commit(p) PROVE AppliedOnceStep
  BY <1>1, CommitAppliesOnce
<1>2. CASE UNCHANGED tables
  BY <1>2 DEF tables, AppliedOnceStep
<1> QED BY <1>1, <1>2, TablesChangeAtCommit

(* Between its steps a request still holds what it checked: the locks on   *)
(* the rows it relies on, and a source that is still free or large enough. *)
THEOREM RequestsStayValid == Spec => []SettlementInv
<1>1. IInv => SettlementInv
  BY DEF IInv
<1> QED BY Invariance, <1>1, PTL

(* Once applied, a transaction is not applied again before it is unapplied.*)
THEOREM TransactionsApplyOnce == Spec => AppliedOnce
<1>1. IInv /\ [Next]_vars => [AppliedOnceStep]_vars
  BY NextAppliesOnce
<1> QED BY Invariance, <1>1, PTL DEF Spec, AppliedOnce

-----------------------------------------------------------------------------
(* The services implement AtomicSpec: whatever requests interleave, each   *)
(* commit is one service acting alone on the tables as they stand at that  *)
(* moment.  What a request computed from rows it read earlier is what it   *)
(* would compute from the rows now, because NoLostUpdate says they are the *)
(* same; what it checked earlier holds still, by SettlementInv.            *)

LEMMA CommitFinds ==
  ASSUME IInv, NEW p \in Procs, NEW op, Committing(p, op)
  PROVE  /\ job[p].op = op /\ CommitCheck(p)
         /\ JobOK(job[p]) /\ JobShape(job[p]) /\ ReliesOn(job[p])
         /\ \A i \in InvoicesOf(job[p].lines) :
              i \in Invoices /\ seen[p][i] = invoice[i] /\ invoice[i] \in InvoiceRow
BY EndsInCommit, SeenRows DEF Touched

(* The invoice of a request for one invoice is among those it has read.    *)
LEMMA OneLineFinds ==
  ASSUME IInv, NEW p \in Procs, NEW op \in {"apply", "reverse", "unapply", "void"},
         Committing(p, op), NEW i, i = job[p].lines[1].invoice
  PROVE  i \in Invoices /\ seen[p][i] = invoice[i] /\ invoice[i] \in InvoiceRow
BY EndsInCommit, FirstRow

(* Checks and writes of several invoices come out the same on the rows     *)
(* read and on the table.                                                  *)
LEMMA SameRows ==
  ASSUME NEW lines, NEW rows,
         \A i \in InvoicesOf(lines) : i \in Invoices /\ rows[i] = invoice[i]
  PROVE  /\ \A customer : AllAccept(lines, customer, rows)
                            <=> AllAccept(lines, customer, invoice)
         /\ CanReverseAllocations(lines, rows) <=> CanReverseAllocations(lines, invoice)
         /\ PayLines(lines, rows) <=> PayLines(lines, invoice)
         /\ \A r, c : ReverseAllocations(r, c, lines, rows)
                        <=> ReverseAllocations(r, c, lines, invoice)
<1>1. \A customer : AllAccept(lines, customer, rows)
                      <=> AllAccept(lines, customer, invoice)
  BY DEF AllAccept
<1>2. CanReverseAllocations(lines, rows) <=> CanReverseAllocations(lines, invoice)
  BY DEF CanReverseAllocations
<1>3. [i \in Invoices |-> IF i \in InvoicesOf(lines)
                          THEN PaidRow(rows[i], AmountFor(lines, i)) ELSE invoice[i]]
      = [i \in Invoices |-> IF i \in InvoicesOf(lines)
                            THEN PaidRow(invoice[i], AmountFor(lines, i)) ELSE invoice[i]]
  OBVIOUS
<1>4. [i \in Invoices |-> IF i \in InvoicesOf(lines)
                          THEN RestoredRow(i, rows[i], AmountFor(lines, i)) ELSE invoice[i]]
      = [i \in Invoices |-> IF i \in InvoicesOf(lines)
                            THEN RestoredRow(i, invoice[i], AmountFor(lines, i)) ELSE invoice[i]]
  OBVIOUS
<1>5. PayLines(lines, rows) <=> PayLines(lines, invoice)
  BY <1>3 DEF PayLines
<1>6. \A r, c : ReverseAllocations(r, c, lines, rows)
                  <=> ReverseAllocations(r, c, lines, invoice)
  BY <1>4 DEF ReverseAllocations
<1> QED BY <1>1, <1>2, <1>5, <1>6

-----------------------------------------------------------------------------
(* One lemma for each commit.                                              *)

LEMMA ApplyIsAtomic ==
  ASSUME IInv, NEW p \in Procs, ApplyPaymentTransactionToInvoice(p)
  PROVE  job[p].op = "apply" /\ job[p].src \in Charges /\ AtomicApply(job[p].src)
<1> DEFINE t == job[p].src
<1>1. Committing(p, "apply") /\ ApplyCharge(t, seen[p])
  BY DEF ApplyPaymentTransactionToInvoice
<1>2. job[p].op = "apply" /\ CommitCheck(p) /\ JobShape(job[p]) /\ ReliesOn(job[p])
  BY <1>1, CommitFinds
<1>3. t \in Charges /\ Request[t] # None /\ applied[t] = None
      /\ InvoiceOf(t) = job[p].lines[1].invoice
  BY <1>2 DEF JobShape, ReliesOn
<1>4. seen[p][InvoiceOf(t)] = invoice[InvoiceOf(t)]
  BY <1>1, <1>3, OneLineFinds
<1>5. CanApply(t, invoice)
  BY <1>2, <1>4 DEF CommitCheck, CanApply
<1>6. ApplyCharge(t, invoice)
  BY <1>1, <1>4 DEF ApplyCharge
<1>7. AtomicApply(t)
  BY <1>3, <1>5, <1>6 DEF AtomicApply
<1> QED BY <1>2, <1>3, <1>7

LEMMA ReverseIsAtomic ==
  ASSUME IInv, NEW p \in Procs, ApplyReversalToInvoice(p)
  PROVE  job[p].op = "reverse" /\ job[p].src \in Reversals /\ AtomicReverse(job[p].src)
<1> DEFINE r == job[p].src
<1>1. Committing(p, "reverse") /\ Reverse(r, seen[p])
  BY DEF ApplyReversalToInvoice
<1>2. job[p].op = "reverse" /\ CommitCheck(p) /\ JobShape(job[p]) /\ ReliesOn(job[p])
  BY <1>1, CommitFinds
<1>3. r \in Reversals /\ applied[r] = None /\ ReversedInvoice(r) = job[p].lines[1].invoice
  BY <1>2 DEF JobShape, ReliesOn
<1>4. ReversedInvoice(r) \in Invoices
      /\ seen[p][ReversedInvoice(r)] = invoice[ReversedInvoice(r)]
  BY <1>1, <1>3, OneLineFinds
<1>5. ReversedInvoice(r) # None
  BY <1>4, InvoicesAssumption, SettlementAssumption
<1>6. CanReverse(r, invoice)
  BY <1>2, <1>4 DEF CommitCheck, CanReverse
<1>7. Reverse(r, invoice)
  BY <1>1, <1>4 DEF Reverse
<1>8. AtomicReverse(r)
  BY <1>3, <1>5, <1>6, <1>7 DEF AtomicReverse
<1> QED BY <1>2, <1>3, <1>8

LEMMA UnapplyIsAtomic ==
  ASSUME IInv, NEW p \in Procs, UnapplyPaymentTransaction(p)
  PROVE  job[p].op = "unapply" /\ job[p].src \in Charges /\ AtomicUnapply(job[p].src)
<1> DEFINE t == job[p].src
           i == job[p].lines[1].invoice
           amount == job[p].lines[1].amount
<1>1. Committing(p, "unapply") /\ Unapply(t, i, amount, seen[p])
  BY DEF UnapplyPaymentTransaction
<1>2. job[p].op = "unapply" /\ CommitCheck(p) /\ JobShape(job[p]) /\ t \in Charges
  BY <1>1, CommitFinds DEF JobShape
<1>3. i \in Invoices /\ seen[p][i] = invoice[i] /\ invoice[i] \in InvoiceRow
  BY <1>1, OneLineFinds
<1>4. amount \in Nat
  BY <1>2, FirstLine
<1>5. WithinAmount(i, invoice[i], amount)
  BY <1>2, <1>3 DEF CommitCheck
<1>6. amount \in 0..InvAmount[i]
  <2>1. invoice[i].balance \in Nat /\ InvAmount[i] \in Nat
    BY <1>3, InvoicesAssumption DEF InvoiceRow
  <2> QED BY <1>4, <1>5, <2>1 DEF WithinAmount
<1>7. Unapply(t, i, amount, invoice)
  BY <1>1, <1>3 DEF Unapply
<1> HIDE DEF i, amount, t
<1>8. AtomicUnapply(t)
  BY <1>3, <1>5, <1>6, <1>7 DEF AtomicUnapply
<1> QED BY <1>2, <1>8 DEF t

LEMMA AllocateIsAtomic ==
  ASSUME IInv, NEW p \in Procs, AllocatePaymentToMultipleInvoices(p)
  PROVE  /\ job[p].op = "allocate" /\ job[p].src \in Charges /\ job[p].lines \in LineChoices
         /\ AtomicAllocate(job[p].src, job[p].lines)
<1> DEFINE t == job[p].src
           lines == job[p].lines
<1>1. Committing(p, "allocate") /\ Allocate(t, lines, seen[p])
  BY DEF AllocatePaymentToMultipleInvoices
<1>2. /\ job[p].op = "allocate" /\ CommitCheck(p) /\ JobShape(job[p]) /\ ReliesOn(job[p])
      /\ \A i \in InvoicesOf(lines) : i \in Invoices /\ seen[p][i] = invoice[i]
  BY <1>1, CommitFinds
<1>3. /\ t \in Charges /\ lines \in LineChoices /\ DistinctInvoices(lines)
      /\ applied[t] = None /\ FitsCharge(t, lines)
  BY <1>2 DEF JobShape, ReliesOn
<1>4. CanAllocate(t, lines, invoice)
  BY <1>2, SameRows DEF CommitCheck, CanAllocate
<1>5. Allocate(t, lines, invoice)
  BY <1>1, <1>2, SameRows DEF Allocate
<1>6. AtomicAllocate(t, lines)
  BY <1>3, <1>4, <1>5 DEF AtomicAllocate
<1> QED BY <1>2, <1>3, <1>6

LEMMA ReverseAllocationsIsAtomic ==
  ASSUME IInv, NEW p \in Procs, ApplyReverseAllocations(p)
  PROVE  /\ job[p].op = "reverseAllocations" /\ job[p].src \in Reversals
         /\ job[p].orig \in Charges
         /\ AtomicReverseAllocations(job[p].src, job[p].orig)
<1> DEFINE r == job[p].src
           c == job[p].orig
           lines == job[p].lines
<1>1. Committing(p, "reverseAllocations") /\ ReverseAllocations(r, c, lines, seen[p])
  BY DEF ApplyReverseAllocations
<1>2. /\ job[p].op = "reverseAllocations" /\ job[p].stage = "commit" /\ CommitCheck(p)
      /\ JobShape(job[p]) /\ ReliesOn(job[p])
      /\ \A i \in InvoicesOf(lines) : i \in Invoices /\ seen[p][i] = invoice[i]
  BY <1>1, CommitFinds, EndsInCommit
<1>3. /\ r \in Reversals /\ c \in Charges /\ (Original[r] \in Charges => c = Original[r])
      /\ applied[r] = None /\ ReverseRowsOf(r) = {}
      /\ OriginalCheck(r, c) /\ lines = PlanFor(r, c)
  BY <1>2 DEF JobShape, ReliesOn, Planned
<1>4. CanReverseAllocations(lines, invoice) /\ ReverseAllocations(r, c, lines, invoice)
  BY <1>1, <1>2, SameRows DEF CommitCheck
<1>5. AtomicReverseAllocations(r, c)
  BY <1>3, <1>4 DEF AtomicReverseAllocations
<1> QED BY <1>2, <1>3, <1>5

LEMMA UseCreditIsAtomic ==
  ASSUME IInv, NEW p \in Procs, ApplyCustomerCredit(p)
  PROVE  /\ job[p].op \in {"creditApply", "creditAllocate"}
         /\ job[p].src \in Charges /\ job[p].lines \in LineChoices
         /\ AtomicUseCredit(job[p].src, job[p].lines)
<1> DEFINE c == job[p].src
           lines == job[p].lines
<1>1. PICK op \in {"creditApply", "creditAllocate"} : Committing(p, op)
  BY DEF ApplyCustomerCredit
<1>2. UseCredit(c, lines, seen[p])
  BY DEF ApplyCustomerCredit
<1>3. /\ job[p].op = op /\ CommitCheck(p) /\ JobShape(job[p]) /\ ReliesOn(job[p])
      /\ \A i \in InvoicesOf(lines) : i \in Invoices /\ seen[p][i] = invoice[i]
  BY <1>1, CommitFinds
<1>4. c \in Charges /\ lines \in LineChoices /\ FitsCredit(c, lines)
  BY <1>3 DEF JobShape, ReliesOn
<1>5. \/ Len(lines) = 1
      \/ DistinctInvoices(lines) /\ CreditIsNew(c, lines)
  BY <1>3 DEF JobShape, CommitCheck
<1>6. CanUseCredit(c, lines, invoice)
  BY <1>3, SameRows DEF CommitCheck, CanUseCredit
<1>7. UseCredit(c, lines, invoice)
  BY <1>2, <1>3, SameRows DEF UseCredit
<1>8. AtomicUseCredit(c, lines)
  BY <1>4, <1>5, <1>6, <1>7 DEF AtomicUseCredit
<1> QED BY <1>3, <1>4, <1>8

LEMMA VoidIsAtomic ==
  ASSUME IInv, NEW p \in Procs, VoidInvoice(p)
  PROVE  /\ job[p].op = "void" /\ job[p].lines[1].invoice \in Invoices
         /\ AtomicVoid(job[p].lines[1].invoice)
<1> DEFINE i == job[p].lines[1].invoice
<1>1. Committing(p, "void") /\ Void(i)
  BY DEF VoidInvoice
<1>2. job[p].op = "void" /\ CommitCheck(p)
  BY <1>1, CommitFinds
<1>3. i \in Invoices /\ seen[p][i] = invoice[i]
  BY <1>1, OneLineFinds
<1>4. CanVoid(i, invoice[i])
  BY <1>2, <1>3 DEF CommitCheck
<1>5. AtomicVoid(i)
  BY <1>1, <1>4 DEF AtomicVoid
<1> QED BY <1>2, <1>3, <1>5

-----------------------------------------------------------------------------
LEMMA InitIsAtomic == Init => TablesInit
BY DEF Init

LEMMA StepIsAtomic ==
  ASSUME IInv, [Next]_vars
  PROVE  [AtomicNext]_tables
<1>1. ASSUME NEW p \in Procs, Commit(p) PROVE AtomicNext
  BY <1>1, ApplyIsAtomic, ReverseIsAtomic, UnapplyIsAtomic, AllocateIsAtomic,
     ReverseAllocationsIsAtomic, UseCreditIsAtomic, VoidIsAtomic DEF Commit, AtomicNext
<1> QED BY <1>1, TablesChangeAtCommit

(* Whatever requests race, every change to the tables is the act of one    *)
(* service on the tables as they stand: the services are as good as        *)
(* executed one at a time, at their commits.                               *)
THEOREM ImplementsAtomic == Spec => AtomicSpec
<1>1. IInv /\ [Next]_vars => [AtomicNext]_tables
  BY StepIsAtomic
<1> QED BY InitIsAtomic, Invariance, <1>1, PTL DEF Spec, AtomicSpec

-----------------------------------------------------------------------------
(* No requests wait for each other in a circle, however many there are,    *)
(* unless one of them unapplies a payment, which locks the invoice before  *)
(* the transaction.                                                        *)
(*                                                                         *)
(* A request that waits for its source row holds nothing.  One that waits  *)
(* for the original charge holds the reversal's own row, which only other  *)
(* requests for that reversal wait for, and they hold nothing.  One that   *)
(* waits for an invoice waits for a holder that has read it, and so waits  *)
(* for a larger id, if it waits at all.                                    *)

\* Why p holds row r.
Explained(p, r) ==
  LET j == job[p]
  IN \/ j.stage \in {"original", "invoices", "commit"} /\ r = SourceRow(j)
     \/ j.stage \in {"invoices", "commit"} /\ r = <<"txn", j.orig>> /\ Planned(j)
     \/ \E i \in Invoices : r = <<"invoice", i>> /\ seen[p][i] # None

OrderOK(p) ==
  LET j == job[p]
  IN /\ j.op # "unapply"
     /\ j.stage = "source" => j.op \notin {"none", "void"}
     /\ j.stage = "source" /\ j.op # "reverseAllocations" => Touched(j) # {}
     /\ j.stage = "invoices" => \E i \in Touched(j) : seen[p][i] = None
     /\ j.stage \notin {"invoices", "commit"} => \A i \in Invoices : seen[p][i] = None
     /\ j.stage = "invoices" =>
          \A i, k \in Invoices :
            seen[p][i] # None /\ k \in Touched(j) /\ seen[p][k] = None => i < k
     /\ \A r \in Rows : lock[r] = p => Explained(p, r)

OrderInv == \A p \in Procs : OrderOK(p)

-----------------------------------------------------------------------------
LEMMA MinIsLeast ==
  ASSUME NEW S \in SUBSET Nat, S # {}
  PROVE  Min(S) \in S /\ \A y \in S : Min(S) <= y
<1>1. \E x \in S : \A y \in S : <<y, x>> \notin Less
  BY LessWellFounded, WFMin
<1>2. PICK x \in S : \A y \in S : <<y, x>> \notin Less
  BY <1>1
<1>3. ASSUME NEW y \in S PROVE x <= y
  <2>1. x \in Nat /\ y \in Nat /\ <<y, x>> \notin Less
    BY <1>2
  <2> QED BY <2>1 DEF Less
<1>4. \E z \in S : \A y \in S : z <= y
  BY <1>3
<1> QED BY <1>4 DEF Min

LEMMA LargestIn ==
  ASSUME NEW S \in SUBSET Nat, S # {}, NEW n \in Nat, \A x \in S : x <= n
  PROVE  \E x \in S : \A y \in S : y <= x
<1> DEFINE T == {m \in Nat : n - m \in S}
<1>1. T \in SUBSET Nat /\ T # {}
  <2>1. PICK x \in S : TRUE
    OBVIOUS
  <2>2. n - x \in Nat /\ n - (n - x) = x
    BY <2>1
  <2> QED BY <2>1, <2>2
<1>2. \A y \in S : n - y \in T /\ y \in Nat
  OBVIOUS
<1>3. n - Min(T) \in S /\ Min(T) \in Nat /\ \A m \in T : Min(T) <= m
  <2>1. Min(T) \in T /\ \A m \in T : Min(T) <= m
    <3> HIDE DEF T
    <3> QED BY <1>1, MinIsLeast
  <2> QED BY <2>1
<1> HIDE DEF T
<1>4. \A y \in S : y <= n - Min(T)
  BY <1>2, <1>3
<1> QED BY <1>3, <1>4

(* The next invoice is the least that is left.                             *)
LEMMA NextIsLeast ==
  ASSUME IInv, NEW p \in Procs, \E i \in Touched(job[p]) : seen[p][i] = None
  PROVE  /\ NextInvoice(p) \in Invoices /\ NextInvoice(p) \in Touched(job[p])
         /\ seen[p][NextInvoice(p)] = None
         /\ \A i \in Touched(job[p]) : seen[p][i] = None => NextInvoice(p) <= i
<1> DEFINE S == {i \in Touched(job[p]) : seen[p][i] = None}
<1>1. Touched(job[p]) \subseteq Invoices
  BY DEF IInv, TypeOK, JobOK, Touched, InvoicesOf
<1>2. S \in SUBSET Nat /\ S # {}
  BY <1>1, InvoicesAssumption
<1>3. Min(S) \in S /\ \A y \in S : Min(S) <= y
  <2> HIDE DEF S
  <2> QED BY <1>2, MinIsLeast
<1> QED BY <1>1, <1>3 DEF NextInvoice

-----------------------------------------------------------------------------
(* A step of another request takes nothing from q and gives it nothing.    *)
LEMMA OthersKeepOrder ==
  ASSUME NEW q \in Procs, OrderOK(q), job'[q] = job[q], seen'[q] = seen[q],
         \A r \in Rows : lock'[r] = q => lock[r] = q
  PROVE  OrderOK(q)'
<1>1. (Touched(job[q]))' = Touched(job[q]) /\ (SourceRow(job[q]))' = SourceRow(job[q])
      /\ (Planned(job[q]))' = Planned(job[q])
  BY DEF Touched, InvoicesOf, SourceRow, Planned
<1>2. \A r : Explained(q, r) => Explained(q, r)'
  BY <1>1 DEF Explained
<1> QED BY <1>1, <1>2 DEF OrderOK

(* A request that begins holds nothing and has read nothing.               *)
LEMMA StartOrder ==
  ASSUME IInv, OrderInv, "unapply" \notin Ops, NEW p \in Procs,
         NEW op, NEW stage \in {"source", "invoices"}, NEW src, NEW lines,
         Start(p, op, stage, src, lines),
         op # "reverseAllocations" => DOMAIN lines # {},
         op = "reverseAllocations" => stage = "source",
         stage = "source" => op \notin {"none", "void"},
         \A k \in DOMAIN lines : lines[k].invoice \in Invoices
  PROVE  OrderInv'
<1> DEFINE new == [op |-> op, stage |-> stage, src |-> src, orig |-> None, lines |-> lines]
<1>1. job[p] = Idle /\ job' = [job EXCEPT ![p] = new] /\ op \in Ops /\ UNCHANGED <<lock, seen>>
  BY DEF Start
<1>2. job'[p] = new /\ \A q \in Procs \ {p} : job'[q] = job[q]
  BY <1>1 DEF IInv, TypeOK
<1>3. new.op = op /\ new.stage = stage /\ new.lines = lines
  OBVIOUS
<1> HIDE DEF new
<1>4. (Touched(job[p]))' = {lines[k].invoice : k \in DOMAIN lines}
  BY <1>2, <1>3 DEF Touched, InvoicesOf
<1>5. (\A i \in Invoices : seen[p][i] = None) /\ \A r \in Rows : lock[r] # p
  <2>1. OrderOK(p) /\ job[p].stage = "idle"
    BY <1>1, IdleOK DEF OrderInv
  <2> QED BY <2>1 DEF OrderOK, Explained
<1>6. OrderOK(p)'
  BY <1>1, <1>2, <1>3, <1>4, <1>5 DEF OrderOK
<1> QED BY <1>1, <1>2, <1>6, OthersKeepOrder DEF OrderInv

LEMMA BeginOrder ==
  ASSUME IInv, OrderInv, "unapply" \notin Ops, NEW p \in Procs, Begin(p)
  PROVE  OrderInv'
<1>1. ASSUME NEW t \in Charges, BeginApply(p, t) PROVE OrderInv'
  <2>1. InvoiceOf(t) \in Invoices /\ TxnAmount[t] \in Nat
    BY <1>1, SettlementAssumption DEF BeginApply, InvoiceOf, Txns
  <2> QED BY <1>1, <2>1, OneLine, StartOrder DEF BeginApply
<1>2. ASSUME NEW t \in Charges PROVE ~BeginUnapply(p, t)
  BY DEF BeginUnapply, Start
<1>3. ASSUME NEW r \in Reversals, BeginReverse(p, r) PROVE OrderInv'
  <2>1. ReversedInvoice(r) \in Invoices /\ TxnAmount[r] \in Nat
    BY <1>3, ReversedInvoiceType, SettlementAssumption DEF BeginReverse, Txns
  <2> QED BY <1>3, <2>1, OneLine, StartOrder DEF BeginReverse
<1>4. ASSUME NEW r \in Reversals, BeginReverseAllocations(p, r) PROVE OrderInv'
  <2>1. DOMAIN <<>> = {}
    OBVIOUS
  <2> QED BY <1>4, <2>1, StartOrder DEF BeginReverseAllocations
<1>5. ASSUME NEW lines \in LineChoices
      PROVE  /\ \A k \in DOMAIN lines : lines[k].invoice \in Invoices
             /\ lines # <<>> \/ Len(lines) = 1 => DOMAIN lines # {}
  <2>1. lines \in Seq([invoice : Invoices, amount : Nat \ {0}])
    BY LinesAreSeq DEF LineSeqs
  <2> QED BY <2>1, LinesAreSeq, LineOfSeq, EmptySeq
<1>6. ASSUME NEW t \in Charges, NEW lines \in LineChoices,
             BeginAllocate(p, t, lines) \/ BeginCreditApply(p, t, lines)
               \/ BeginCreditAllocate(p, t, lines)
      PROVE  OrderInv'
  BY <1>5, <1>6, StartOrder DEF BeginAllocate, BeginCreditApply, BeginCreditAllocate
<1>7. ASSUME NEW i \in Invoices, BeginVoid(p, i) PROVE OrderInv'
  BY <1>7, OneLine, StartOrder DEF BeginVoid
<1> QED BY <1>1, <1>2, <1>3, <1>4, <1>6, <1>7 DEF Begin

-----------------------------------------------------------------------------
LEMMA TakenRows ==
  ASSUME IInv, NEW p \in Procs, Take(p), NEW r \in Rows
  PROVE  /\ lock'[r] = p => lock[r] = p \/ r = NextRow(p)
         /\ \A q \in Procs \ {p} : lock'[r] = q => lock[r] = q
BY DEF Take, IInv, TypeOK

LEMMA LockOrder ==
  ASSUME IInv, OrderInv, NEW p \in Procs, Take(p), NEW j, job' = [job EXCEPT ![p] = j],
         \A q \in Procs \ {p} : seen'[q] = seen[q], OrderOK(p)'
  PROVE  OrderInv'
<1>1. ASSUME NEW q \in Procs \ {p} PROVE OrderOK(q)'
  <2>1. job'[q] = job[q] /\ seen'[q] = seen[q] /\ OrderOK(q)
    BY DEF IInv, TypeOK, OrderInv
  <2> QED BY <2>1, TakenRows, OthersKeepOrder
<1> QED BY <1>1 DEF OrderInv

LEMMA LockSourceOrder ==
  ASSUME IInv, OrderInv, NEW p \in Procs, LockSource(p)
  PROVE  OrderInv'
<1> DEFINE j == job[p]
<1>1. j.stage = "source" /\ Take(p) /\ UNCHANGED seen /\ OrderOK(p) /\ JobOK(j) /\ JobShape(j)
  BY DEF LockSource, OrderInv, IInv, TypeOK, SettlementInv, Keeps
<1>2. PICK new : /\ job' = [job EXCEPT ![p] = new]
                 /\ new = IF j.op = "reverseAllocations"
                          THEN [j EXCEPT !.stage = "original",
                                         !.orig  = ResolveOriginalForAllocations(j.src)]
                          ELSE [j EXCEPT !.stage = "invoices"]
  BY DEF LockSource
<1>3. /\ job'[p] = new /\ new.op = j.op /\ new.src = j.src /\ new.lines = j.lines
      /\ new.stage = IF j.op = "reverseAllocations" THEN "original" ELSE "invoices"
  BY <1>1, <1>2 DEF IInv, TypeOK, JobOK
<1>4. (SourceRow(job[p]))' = SourceRow(j) /\ (Touched(job[p]))' = Touched(j)
  BY <1>3 DEF SourceRow, Touched, InvoicesOf
<1>5. NextRow(p) = SourceRow(j)
  BY <1>1 DEF NextRow
<1>6. \A r \in Rows : lock[r] # p
  BY <1>1 DEF OrderOK, Explained
<1>7. \A i \in Touched(j) : i \in Invoices /\ seen[p][i] = None
  BY <1>1 DEF OrderOK, JobOK, Touched, InvoicesOf
<1>8. ASSUME NEW r \in Rows, lock'[r] = p PROVE Explained(p, r)'
  BY <1>1, <1>3, <1>4, <1>5, <1>6, <1>8, TakenRows DEF Explained
<1>9. OrderOK(p)'
  BY <1>1, <1>3, <1>4, <1>7, <1>8 DEF OrderOK
<1> QED BY <1>1, <1>2, <1>9, LockOrder

LEMMA LockOriginalOrder ==
  ASSUME IInv, OrderInv, NEW p \in Procs, LockOriginal(p)
  PROVE  OrderInv'
<1> DEFINE j == job[p]
<1>1. /\ j.stage = "original" /\ Take(p) /\ UNCHANGED seen
      /\ OrderOK(p) /\ JobOK(j) /\ JobShape(j) /\ j.op = "reverseAllocations"
  BY DEF LockOriginal, OrderInv, IInv, TypeOK, SettlementInv, Keeps, JobShape
<1>2. PICK new : /\ job' = [job EXCEPT ![p] = new]
                 /\ new = [op |-> j.op,
                           stage |-> IF DOMAIN PlanFor(j.src, j.orig) = {}
                                     THEN "commit" ELSE "invoices",
                           src |-> j.src, orig |-> j.orig, lines |-> PlanFor(j.src, j.orig)]
  BY DEF LockOriginal
<1>3. /\ job'[p] = new /\ new.op = j.op /\ new.src = j.src /\ new.orig = j.orig
      /\ new.stage \in {"invoices", "commit"}
      /\ new.stage = "invoices" => DOMAIN new.lines # {}
  BY <1>2 DEF IInv, TypeOK
<1>4. (SourceRow(job[p]))' = SourceRow(j) /\ (Planned(job[p]))'
  BY <1>1, <1>3 DEF SourceRow, Planned
<1>5. NextRow(p) = <<"txn", j.orig>>
  BY <1>1 DEF NextRow
<1>6. \A r \in Rows : lock[r] = p => r = SourceRow(j)
  BY <1>1 DEF OrderOK, Explained
<1>7. ASSUME NEW r \in Rows, lock'[r] = p PROVE Explained(p, r)'
  BY <1>1, <1>3, <1>4, <1>5, <1>6, <1>7, TakenRows DEF Explained
<1>8. TypeOK'
  BY LockOriginalStep DEF IInv
<1>9. new.stage = "invoices" => \E i \in (Touched(job[p]))' : i \in Invoices
  BY <1>3, <1>8 DEF Touched, InvoicesOf, TypeOK, JobOK
<1>10. \A i \in Invoices : seen'[p][i] = None
  BY <1>1 DEF OrderOK
<1>11. OrderOK(p)'
  BY <1>1, <1>3, <1>7, <1>9, <1>10 DEF OrderOK
<1> QED BY <1>1, <1>2, <1>11, LockOrder

LEMMA LockInvoiceOrder ==
  ASSUME IInv, OrderInv, NEW p \in Procs, LockInvoice(p)
  PROVE  OrderInv'
<1> DEFINE j == job[p]
           i == NextInvoice(p)
<1>1. /\ j.stage = "invoices" /\ Take(p) /\ OrderOK(p) /\ JobOK(j)
      /\ seen' = [seen EXCEPT ![p][i] = invoice[i]]
  BY DEF LockInvoice, OrderInv, IInv, TypeOK
<1>2. /\ i \in Invoices /\ i \in Touched(j) /\ seen[p][i] = None
      /\ \A k \in Touched(j) : seen[p][k] = None => i <= k
  BY <1>1, NextIsLeast DEF OrderOK
<1>3. PICK new : /\ job' = [job EXCEPT ![p] = new]
                 /\ new = [j EXCEPT !.stage =
                             IF \A k \in Touched(j) \ {i} : seen[p][k] # None
                             THEN IF j.op = "unapply" THEN "update" ELSE "commit"
                             ELSE "invoices"]
  BY DEF LockInvoice, IInv, TypeOK
<1>4. NextRow(p) = <<"invoice", i>>
  BY <1>1 DEF NextRow
<1> HIDE DEF i
<1>5. /\ job'[p] = new /\ new.op = j.op /\ new.src = j.src /\ new.orig = j.orig
      /\ new.lines = j.lines /\ new.stage \in {"invoices", "commit"}
      /\ new.stage = "invoices" => \E k \in Touched(j) \ {i} : seen[p][k] = None
  BY <1>1, <1>3 DEF IInv, TypeOK, JobOK, OrderOK
<1>6. /\ (SourceRow(job[p]))' = SourceRow(j) /\ (Touched(job[p]))' = Touched(j)
      /\ (Planned(job[p]))' = Planned(j)
  BY <1>1, <1>5 DEF SourceRow, Touched, InvoicesOf, Planned
<1>7. invoice[i] # None
  BY <1>2, SettlementAssumption DEF IInv, TypeOK, TablesOK
<1>8. /\ seen'[p][i] # None
      /\ \A k \in Invoices \ {i} : seen'[p][k] = seen[p][k]
  BY <1>1, <1>2, <1>7 DEF IInv, TypeOK
<1>9. ASSUME NEW r \in Rows, lock'[r] = p PROVE Explained(p, r)'
  <2>1. CASE r = NextRow(p)
    BY <1>2, <1>4, <1>8, <2>1 DEF Explained
  <2>2. CASE r # NextRow(p)
    <3>1. Explained(p, r)
      BY <1>1, <1>9, <2>2, TakenRows DEF OrderOK
    <3> QED BY <1>1, <1>5, <1>6, <1>8, <3>1 DEF Explained
  <2> QED BY <2>1, <2>2
<1>10. \A k \in Touched(j) : k \in Invoices /\ k \in Nat
  BY <1>1, InvoicesAssumption DEF JobOK, Touched, InvoicesOf
<1>11. new.stage = "invoices" => \E k \in Touched(j) : seen'[p][k] = None
  BY <1>5, <1>8, <1>10
<1>12. ASSUME NEW m \in Invoices, NEW k \in Invoices,
              seen'[p][m] # None, k \in Touched(j), seen'[p][k] = None
       PROVE  m < k
  <2>1. k # i /\ seen[p][k] = None /\ i \in Nat /\ k \in Nat
    BY <1>2, <1>8, <1>12, InvoicesAssumption
  <2>2. CASE m = i
    BY <1>2, <1>12, <2>1, <2>2
  <2>3. CASE m # i
    BY <1>1, <1>8, <1>12, <2>1, <2>3 DEF OrderOK
  <2> QED BY <2>2, <2>3
<1>13. OrderOK(p)'
  BY <1>1, <1>5, <1>6, <1>9, <1>11, <1>12 DEF OrderOK
<1>14. \A q \in Procs \ {p} : seen'[q] = seen[q]
  BY <1>1 DEF IInv, TypeOK
<1> QED BY <1>1, <1>3, <1>13, <1>14, LockOrder

(* A commit, a refusal and a crash give everything back.                   *)
LEMMA EndOrder ==
  ASSUME IInv, OrderInv, NEW p \in Procs, End(p)
  PROVE  OrderInv'
<1>1. /\ job'[p] = Idle /\ seen'[p] = NoneSeen
      /\ \A q \in Procs \ {p} : job'[q] = job[q] /\ seen'[q] = seen[q]
  BY DEF End, IInv, TypeOK
<1>2. \A r \in Rows : lock'[r] # p /\ \A q \in Procs : lock'[r] = q => lock[r] = q
  BY RequestsAssumption DEF End
<1>3. OrderOK(p)'
  BY <1>1, <1>2 DEF OrderOK, Idle, NoneSeen
<1> QED BY <1>1, <1>2, <1>3, OthersKeepOrder DEF OrderInv

LEMMA NextOrder ==
  ASSUME IInv, OrderInv, "unapply" \notin Ops, [Next]_vars
  PROVE  OrderInv'
<1>1. CASE UNCHANGED vars
  BY <1>1, OthersKeepOrder DEF vars, OrderInv
<1>2. ASSUME NEW p \in Procs, Commit(p) \/ Refuse(p) \/ Crash(p) PROVE End(p)
  BY <1>2 DEF Commit, Refuse, Crash, Committing, ApplyPaymentTransactionToInvoice,
              ApplyReversalToInvoice, UnapplyPaymentTransaction,
              AllocatePaymentToMultipleInvoices, ApplyReverseAllocations,
              ApplyCustomerCredit, VoidInvoice
<1>3. ASSUME NEW p \in Procs PROVE ~LockForUpdate(p)
  BY DEF LockForUpdate, OrderInv, OrderOK, IInv, SettlementInv, Keeps, JobShape
<1> QED BY <1>1, <1>2, <1>3, BeginOrder, LockSourceOrder, LockOriginalOrder,
           LockInvoiceOrder, EndOrder DEF Next, Proceed

LEMMA InitOrder == Init => OrderInv
BY RequestsAssumption DEF Init, OrderInv, OrderOK, Idle, NoneSeen

-----------------------------------------------------------------------------
(* The ids of the invoices are bounded, as every finite set of them is.    *)
IdsBounded == \E n \in Nat : \A i \in Invoices : i <= n

LEMMA NextRowIsRow ==
  ASSUME IInv, OrderInv, NEW p \in Procs, Waiting(p)
  PROVE  NextRow(p) \in Rows
<1> DEFINE j == job[p]
<1>1. JobOK(j) /\ JobShape(j) /\ OrderOK(p) /\ j.stage \in {"source", "original", "invoices"}
  BY DEF IInv, TypeOK, SettlementInv, Keeps, OrderInv, OrderOK, JobShape, Waiting
<1>2. CASE j.stage = "source"
  <2>1. /\ j.op \in {"apply", "reverse", "allocate", "reverseAllocations",
                     "creditApply", "creditAllocate"}
        /\ j.src \in Txns
        /\ j.op \in {"creditApply", "creditAllocate"} => j.src \in Charges
    BY <1>1, <1>2 DEF JobOK, JobShape, OrderOK, OpNames, Txns
  <2> QED BY <1>2, <2>1 DEF NextRow, SourceRow, Rows
<1>3. CASE j.stage = "original"
  <2>1. j.orig \in Txns
    BY <1>1, <1>3 DEF JobShape, Txns
  <2> QED BY <1>3, <2>1 DEF NextRow, Rows
<1>4. CASE j.stage = "invoices"
  <2>1. NextInvoice(p) \in Invoices
    BY <1>1, <1>4, NextIsLeast DEF OrderOK
  <2> QED BY <1>4, <2>1 DEF NextRow, Rows
<1> QED BY <1>1, <1>2, <1>3, <1>4

(* Whoever holds the row p waits for is past its own source row, and waits *)
(* for an invoice if p waits for a charge or an invoice, or else for the   *)
(* original charge.                                                        *)
LEMMA HolderIsAhead ==
  ASSUME IInv, OrderInv, NEW p \in Procs, NEW q \in Procs,
         Waiting(p), Waiting(q), lock[NextRow(p)] = q
  PROVE  /\ job[q].stage \in {"original", "invoices"}
         /\ job[p].stage # "source" => job[q].stage = "invoices"
         /\ job[p].stage = "invoices" => NextInvoice(p) < NextInvoice(q)
<1>1. /\ JobShape(job[p]) /\ OrderOK(p) /\ JobShape(job[q]) /\ OrderOK(q)
      /\ job[p].stage \in {"source", "original", "invoices"}
      /\ job[q].stage \in {"source", "original", "invoices"}
  BY DEF IInv, SettlementInv, Keeps, OrderInv, OrderOK, JobShape, Waiting
<1>2. Explained(q, NextRow(p))
  BY <1>1, NextRowIsRow DEF OrderOK
<1>3. job[q].stage # "source"
  BY <1>1, <1>2 DEF Explained, OrderOK
<1>4. ASSUME job[p].stage = "original", job[q].stage = "original" PROVE FALSE
  <2>1. /\ NextRow(p) = <<"txn", job[p].orig>> /\ job[p].orig \in Charges
        /\ job[q].src \in Reversals /\ SourceRow(job[q]) = <<"txn", job[q].src>>
    BY <1>1, <1>4 DEF NextRow, JobShape, SourceRow
  <2>2. NextRow(p) = SourceRow(job[q])
    BY <1>1, <1>2, <1>4, <2>1 DEF Explained, OrderOK
  <2> QED BY <2>1, <2>2, SettlementAssumption
<1>5. ASSUME job[p].stage = "invoices"
      PROVE  job[q].stage = "invoices" /\ NextInvoice(p) < NextInvoice(q)
  <2> DEFINE i == NextInvoice(p)
             k == NextInvoice(q)
  <2>1. NextRow(p) = <<"invoice", i>> /\ i \in Invoices
    BY <1>1, <1>5, NextIsLeast DEF NextRow, OrderOK
  <2> HIDE DEF i
  <2>2. seen[q][i] # None
    BY <1>2, <2>1 DEF Explained, SourceRow
  <2>3. job[q].stage = "invoices"
    BY <1>1, <2>1, <2>2 DEF OrderOK
  <2>4. k \in Invoices /\ k \in Touched(job[q]) /\ seen[q][k] = None
    BY <1>1, <2>3, NextIsLeast DEF OrderOK
  <2> HIDE DEF k
  <2>5. i < k
    BY <1>1, <2>1, <2>2, <2>3, <2>4 DEF OrderOK
  <2> QED BY <2>3, <2>5 DEF i, k
<1> QED BY <1>1, <1>3, <1>4, <1>5

LEMMA OrderNoCircle ==
  ASSUME IInv, OrderInv, IdsBounded
  PROVE  NoDeadlock
<1> SUFFICES ASSUME NEW S \in (SUBSET Procs) \ {{}},
                    ~\E p \in S : ~Blocked(p) \/ lock[NextRow(p)] \notin S
             PROVE  FALSE
  BY Zenon DEF NoDeadlock
<1>0. S # {} /\ S \subseteq Procs /\ \A p \in S : Blocked(p) /\ lock[NextRow(p)] \in S
  <2>1. S # {}
    OBVIOUS
  <2>2. S \subseteq Procs
    OBVIOUS
  <2>3. ASSUME NEW p \in S PROVE Blocked(p) /\ lock[NextRow(p)] \in S
    BY Zenon
  <2> QED BY <2>1, <2>2, <2>3, Zenon
<1>1. \A p \in S : p \in Procs /\ Waiting(p)
  BY <1>0 DEF Blocked
<1> DEFINE W == {p \in S : job[p].stage = "invoices"}
           T == {NextInvoice(p) : p \in W}
<1>2. \A p \in S :
        \E q \in S :
          /\ job[q].stage \in {"original", "invoices"}
          /\ job[p].stage # "source" => job[q].stage = "invoices"
          /\ job[p].stage = "invoices" => NextInvoice(p) < NextInvoice(q)
  BY <1>0, <1>1, HolderIsAhead
<1>3. W # {}
  <2>1. PICK p \in S : job[p].stage \in {"original", "invoices"}
    BY <1>0, <1>2
  <2> QED BY <1>2, <2>1
<1>4. \A p \in W : NextInvoice(p) \in Invoices
  BY <1>1, NextIsLeast DEF OrderInv, OrderOK
<1>5. T \in SUBSET Nat /\ T # {}
  BY <1>3, <1>4, InvoicesAssumption
<1>6. \E x \in T : \A y \in T : y <= x
  <2>1. PICK n \in Nat : \A i \in Invoices : i <= n
    BY DEF IdsBounded
  <2>2. \A x \in T : x <= n
    BY <1>4, <2>1
  <2> HIDE DEF T
  <2> QED BY <1>5, <2>1, <2>2, LargestIn
<1>7. PICK p \in W : \A y \in T : y <= NextInvoice(p)
  BY <1>6
<1>8. PICK q \in S : job[q].stage = "invoices" /\ NextInvoice(p) < NextInvoice(q)
  BY <1>2
<1>9. NextInvoice(q) \in T /\ NextInvoice(p) \in Nat /\ NextInvoice(q) \in Nat
  BY <1>5, <1>8
<1> QED BY <1>7, <1>8, <1>9

(* Without unapply, the requests that settle invoices never wait for each  *)
(* other's row locks in a circle, however many race on however many rows:  *)
(* the source row, then the original charge, then the invoices in          *)
(* ascending order.                                                        *)
THEOREM RequestsNeverCircle ==
  ASSUME "unapply" \notin Ops, IdsBounded
  PROVE  Spec => []NoDeadlock
<1>1. Init => IInv /\ OrderInv
  BY InitInv, InitOrder
<1>2. IInv /\ OrderInv /\ [Next]_vars => (IInv /\ OrderInv)'
  BY NextInv, NextOrder
<1>3. IInv /\ OrderInv => NoDeadlock
  BY OrderNoCircle
<1> QED BY <1>1, <1>2, <1>3, PTL DEF Spec

-----------------------------------------------------------------------------
(* The arithmetic of a reversal plan, for every set of allocation rows.    *)

(* The largest of a finite set of numbers.                                 *)
LEMMA MaxInSet ==
  ASSUME NEW S \in SUBSET Int, IsFiniteSet(S), S # {}
  PROVE  Max(S) \in S /\ \A y \in S : y <= Max(S)
<1> DEFINE G == {T \in SUBSET S : T = {} \/ \E x \in T : \A y \in T : y <= x}
<1>1. {} \in G
  OBVIOUS
<1>2. ASSUME NEW T \in SUBSET S, NEW z \in S \ T, T \in G PROVE T \cup {z} \in G
  <2>1. CASE T = {}
    BY <2>1
  <2>2. CASE T # {}
    <3>1. PICK x \in T : \A y \in T : y <= x
      BY <1>2, <2>2
    <3>2. x \in Int /\ z \in Int /\ \A y \in T : y \in Int
      OBVIOUS
    <3>3. CASE z <= x
      BY <3>1, <3>2, <3>3
    <3>4. CASE x <= z
      BY <3>1, <3>2, <3>4
    <3> QED BY <3>2, <3>3, <3>4
  <2> QED BY <2>1, <2>2
<1>3. S \in G
  <2> HIDE DEF G
  <2> QED BY <1>1, <1>2, SubsetInduction
<1> QED BY <1>3 DEF Max

-----------------------------------------------------------------------------
(* Totals of rows.                                                         *)

(* Rows with whole amounts, as many as can be counted.                     *)
RowsOK(rows) == IsFiniteSet(DOMAIN rows) /\ \A k \in DOMAIN rows : rows[k].amount \in Nat

LEMMA TotalIs ==
  ASSUME NEW rows, NEW f, NEW K, K = DOMAIN rows, IsFiniteSet(K), IntOn(f, K),
         \A k \in K : f[k] = rows[k].amount
  PROVE  Total(rows) = SumFunctionOnSet(f, K)
<1> DEFINE g == [k \in DOMAIN rows |-> rows[k].amount]
<1>1. DOMAIN g = K /\ \A k \in K : f[k] = g[k]
  OBVIOUS
<1>2. Total(rows) = SumFunction(g)
  BY DEF Total
<1> HIDE DEF g
<1>3. SumFunction(g) = SumFunctionOnSet(g, K)
  BY <1>1, SumFunctionIs
<1> QED BY <1>1, <1>2, <1>3, SumSame

LEMMA TotalOfSetIs ==
  ASSUME NEW R, NEW f, IsFiniteSet(R), IntOn(f, R), \A r \in R : f[r] = r.amount
  PROVE  TotalOfSet(R) = SumFunctionOnSet(f, R)
<1> DEFINE g == [r \in R |-> r.amount]
<1>1. DOMAIN g = R /\ \A r \in R : f[r] = g[r]
  OBVIOUS
<1>2. TotalOfSet(R) = SumFunction(g)
  BY DEF TotalOfSet
<1> HIDE DEF g
<1>3. SumFunction(g) = SumFunctionOnSet(g, R)
  BY <1>1, SumFunctionIs
<1> QED BY <1>1, <1>2, <1>3, SumSame

LEMMA TotalNat ==
  ASSUME NEW rows, RowsOK(rows)
  PROVE  Total(rows) \in Nat
<1> DEFINE f == [k \in DOMAIN rows |-> rows[k].amount]
           K == DOMAIN rows
<1>1. NatOn(f, K) /\ IntOn(f, K) /\ \A k \in K : f[k] = rows[k].amount
  BY DEF RowsOK, NatOn, IntOn
<1>2. IsFiniteSet(K)
  BY DEF RowsOK
<1> HIDE DEF f
<1>3. Total(rows) = SumFunctionOnSet(f, K)
  BY <1>1, <1>2, TotalIs
<1>4. SumFunctionOnSet(f, K) \in Nat
  BY <1>1, <1>2, SumNat
<1> QED BY <1>3, <1>4

-----------------------------------------------------------------------------
(* The share of a line: never more than the line.                          *)

LEMMA ShareBound ==
  ASSUME NEW a \in Nat, NEW T \in Nat \ {0}, NEW rev \in 0..T
  PROVE  Share(a, T, rev) \in 0..a
<1> DEFINE X == 2 * a * rev
           up == (X + T) \div (2 * T)
<1>1. a * rev \in Nat /\ a * rev <= a * T /\ a * T \in Nat
  OBVIOUS
<1>2. X = 2 * (a * rev) /\ X \in Nat
  BY <1>1
<1> DEFINE D == 2 * T
<1>3. D \in Nat /\ D > 0 /\ X + T \in Nat
  BY <1>2
<1>4. /\ up \in Int /\ (X + T) % D \in 0..(D - 1)
      /\ X + T = D * up + ((X + T) % D)
  BY <1>3
<1>5. up >= 0
  BY <1>3
<1>6. up <= a
  <2> SUFFICES ASSUME up >= a + 1 PROVE FALSE
    BY <1>4
  <2>1. D * up >= D * (a + 1)
    BY <1>3, <1>4
  <2>2. D * (a + 1) = 2 * (a * T) + 2 * T
    BY <1>1
  <2>3. X + T <= 2 * (a * T) + T
    BY <1>1, <1>2
  <2> HIDE DEF X, up, D
  <2>4. D * up \in Int /\ D * up <= X + T
    BY <1>3, <1>4
  <2> QED BY <1>1, <1>3, <2>1, <2>2, <2>3, <2>4
<1>7. (X + T) % D = 0 => up # 0
  BY <1>3, <1>4
<1>8. Share(a, T, rev) = up \/ (Share(a, T, rev) = up - 1 /\ (X + T) % D = 0)
  BY DEF Share
<1> HIDE DEF X, up, D
<1> QED BY <1>4, <1>5, <1>6, <1>7, <1>8

(* The share of a line of a reversal of everything is the line.            *)
LEMMA ShareOfAll ==
  ASSUME NEW a \in Nat, NEW T \in Nat \ {0}
  PROVE  Share(a, T, T) = a
<1> DEFINE X == 2 * a * T
           D == 2 * T
<1>1. a * T \in Nat /\ X = D * a /\ X \in Nat /\ D \in Nat /\ D > T
  OBVIOUS
<1>2. (X + T) \div D = a /\ (X + T) % D = T
  <2>1. X + T = D * a + T /\ T \in 0..(D - 1)
    BY <1>1
  <2> HIDE DEF X, D
  <2>2. \A q, r \in Int : X + T = D * q + r /\ r \in 0..(D - 1) => q = a /\ r = T
    <3> SUFFICES ASSUME NEW q \in Int, NEW r \in 0..(D - 1), X + T = D * q + r
                 PROVE  q = a /\ r = T
      OBVIOUS
    <3>1. D * a + T = D * q + r /\ D * a \in Int /\ D * q \in Int
      BY <1>1, <2>1
    <3>2. D * (a - q) = r - T
      BY <1>1, <3>1
    <3>3. ~(a - q >= 1)
      <4> SUFFICES ASSUME a - q >= 1 PROVE FALSE
        OBVIOUS
      <4>1. D * (a - q) >= D
        BY <1>1
      <4> QED BY <1>1, <3>2, <4>1
    <3>4. ~(a - q <= -1)
      <4> SUFFICES ASSUME a - q <= -1 PROVE FALSE
        OBVIOUS
      <4>1. D * (a - q) <= -D
        BY <1>1
      <4> QED BY <1>1, <3>2, <4>1
    <3>5. a = q
      BY <3>3, <3>4
    <3> QED BY <3>1, <3>5
  <2>3. /\ (X + T) \div D \in Int /\ (X + T) % D \in 0..(D - 1)
        /\ X + T = D * ((X + T) \div D) + ((X + T) % D)
    BY <1>1
  <2> QED BY <2>2, <2>3
<1>3. Share(a, T, T) = (X + T) \div D \/ (X + T) % D = 0
  BY DEF Share
<1> QED BY <1>2, <1>3

-----------------------------------------------------------------------------
(* The lines of a plan.                                                    *)

Shares(lefts, T, rev) == [j \in DOMAIN lefts |-> Share(lefts[j].amount, T, rev)]

LEMMA LineAmounts ==
  ASSUME NEW lefts, RowsOK(lefts), DOMAIN lefts # {}, DOMAIN lefts \subseteq Int,
         NEW T, T = Total(lefts), T > 0, NEW rev \in 0..T,
         NEW m, m = Max(DOMAIN lefts), NEW s, s = Shares(lefts, T, rev),
         NEW others, others = DOMAIN lefts \ {m}
  PROVE  /\ m \in DOMAIN lefts /\ T \in Nat /\ IsFiniteSet(others)
         /\ NatOn(s, others) /\ \A k \in others : s[k] <= lefts[k].amount
         /\ LineAmount(lefts, rev, m) = rev - SumFunctionOnSet(s, others)
         /\ \A k \in others : LineAmount(lefts, rev, k) = s[k]
<1>1. m \in DOMAIN lefts
  BY MaxInSet DEF RowsOK
<1>2. T \in Nat \ {0}
  BY TotalNat
<1>3. \A k \in DOMAIN lefts : s[k] \in 0..lefts[k].amount
  BY <1>2, ShareBound DEF Shares, RowsOK
<1>4. IsFiniteSet(others)
  BY FS_Subset DEF RowsOK
<1>5. NatOn(s, others) /\ \A k \in others : s[k] <= lefts[k].amount
  <2>1. \A k \in others : s[k] \in 0..lefts[k].amount /\ lefts[k].amount \in Nat
    BY <1>3 DEF RowsOK
  <2> QED BY <2>1 DEF NatOn
<1>6. LineAmount(lefts, rev, m) = rev - SumFunctionOnSet(s, others)
  BY <1>1 DEF LineAmount, Shares
<1>7. \A k \in others : LineAmount(lefts, rev, k) = s[k]
  BY DEF LineAmount, Shares
<1> QED BY <1>1, <1>2, <1>4, <1>5, <1>6, <1>7

(* A plan for no more than what is left restores no more than what is      *)
(* left, also where the roundings of the other lines exceed the reversal.  *)
LEMMA PlanTotal ==
  ASSUME NEW lefts, RowsOK(lefts), DOMAIN lefts \subseteq Int,
         NEW rev \in Nat \ {0}, rev <= Total(lefts),
         NEW plan, plan = ComputeReverseAllocationPlan(lefts, rev)
  PROVE  /\ DOMAIN plan \subseteq DOMAIN lefts /\ RowsOK(plan)
         /\ \A k \in DOMAIN plan : /\ plan[k].invoice = lefts[k].invoice
                                   /\ plan[k].amount \in Nat \ {0}
         /\ Total(plan) <= Total(lefts)
<1> DEFINE T == Total(lefts)
           K == DOMAIN lefts
           P == DOMAIN plan
           m == Max(K)
           s == Shares(lefts, T, rev)
           others == K \ {m}
           A == [k \in K |-> LineAmount(lefts, rev, k)]
           L == [k \in K |-> lefts[k].amount]
<1>1. /\ P = {k \in K : LineAmount(lefts, rev, k) \in Nat \ {0}}
      /\ \A k \in P : /\ plan[k].invoice = lefts[k].invoice
                      /\ plan[k].amount = A[k] /\ A[k] \in Nat \ {0}
  BY DEF ComputeReverseAllocationPlan
<1>2. P \subseteq K /\ IsFiniteSet(P) /\ IsFiniteSet(K) /\ RowsOK(plan)
  BY <1>1, FS_Subset DEF RowsOK
<1>3. T \in Nat /\ T > 0
  BY TotalNat
<1>4. K # {}
  <2>1. ASSUME K = {} PROVE FALSE
    <3>1. Total(lefts) = SumFunctionOnSet(L, K)
      BY <1>2, <2>1, TotalIs DEF IntOn
    <3> QED BY <1>3, <2>1, <3>1, SumEmpty
  <2> QED BY <2>1
<1>5. /\ m \in K /\ IsFiniteSet(others)
      /\ NatOn(s, others) /\ \A k \in others : s[k] <= lefts[k].amount
      /\ A[m] = rev - SumFunctionOnSet(s, others)
      /\ \A k \in others : A[k] = s[k]
  <2>1. rev \in 0..T
    BY <1>3
  <2>3. /\ m = Max(DOMAIN lefts) /\ s = Shares(lefts, T, rev) /\ T = Total(lefts)
        /\ others = DOMAIN lefts \ {m} /\ DOMAIN lefts # {}
    BY <1>4
  <2> HIDE DEF m, s, others, T, K
  <2>2. /\ m \in DOMAIN lefts /\ IsFiniteSet(others)
        /\ NatOn(s, others) /\ \A k \in others : s[k] <= lefts[k].amount
        /\ LineAmount(lefts, rev, m) = rev - SumFunctionOnSet(s, others)
        /\ \A k \in others : LineAmount(lefts, rev, k) = s[k]
    BY <1>3, <2>1, <2>3, LineAmounts
  <2> QED BY <2>2 DEF others, K
<1>6. IntOn(s, others) /\ IntOn(L, others) /\ IntOn(L, K) /\ IntOn(A, P) /\ NatOn(L, K)
  BY <1>1, <1>5 DEF RowsOK, IntOn, NatOn
<1>7. Total(plan) = SumFunctionOnSet(A, P)
  BY <1>1, <1>2, <1>6, TotalIs
<1>8. Total(lefts) = SumFunctionOnSet(L, K)
  BY <1>2, <1>6, TotalIs
<1>9. L[m] \in Nat
  BY <1>5 DEF RowsOK
<1>10. \A k \in others \ P : s[k] = 0
  BY <1>1, <1>5 DEF NatOn
<1>11. \A k \in others : s[k] <= L[k]
  BY <1>5
<1> HIDE DEF A, L, s, m, T, P, K
<1>12. SumFunctionOnSet(s, others) <= SumFunctionOnSet(L, others)
  BY <1>5, <1>6, <1>11, SumMonotone
<1>13. SumFunctionOnSet(L, K) = L[m] + SumFunctionOnSet(L, others)
  BY <1>2, <1>5, <1>6, SumTake
<1>14. SumFunctionOnSet(s, others) \in Int /\ SumFunctionOnSet(L, others) \in Int
  BY <1>5, <1>6, SumInt
<1> DEFINE Q == P \ {m}
<1>15. IsFiniteSet(Q) /\ Q \in SUBSET others /\ IntOn(s, Q) /\ IntOn(A, Q)
       /\ \A k \in Q : A[k] = s[k]
  BY <1>2, <1>5, <1>6, FS_Subset DEF IntOn
<1>16. \A k \in others \ Q : s[k] = 0
  BY <1>10
<1> HIDE DEF Q
<1>17. SumFunctionOnSet(A, Q) = SumFunctionOnSet(s, others)
  <2>1. SumFunctionOnSet(A, Q) = SumFunctionOnSet(s, Q)
    BY <1>15, SumSame
  <2>2. SumFunctionOnSet(s, others) = SumFunctionOnSet(s, Q)
    <3> HIDE DEF others
    <3> QED BY <1>5, <1>15, <1>16, SumSupport
  <2> QED BY <2>1, <2>2
<1>18. Total(plan) <= T
  <2>1. CASE m \in P
    <3>1. SumFunctionOnSet(A, P) = A[m] + SumFunctionOnSet(A, Q)
      BY <1>2, <1>6, <2>1, SumTake DEF Q
    <3>2. SumFunctionOnSet(A, P) = rev
      BY <1>5, <1>14, <1>17, <3>1
    <3> QED BY <1>7, <3>2 DEF T
  <2>2. CASE m \notin P
    <3>1. Q = P
      BY <2>2 DEF Q
    <3> QED BY <1>7, <1>8, <1>9, <1>12, <1>13, <1>14, <1>17, <3>1 DEF T
  <2> QED BY <2>1, <2>2
<1> QED BY <1>1, <1>2, <1>18 DEF T, P, K, A

-----------------------------------------------------------------------------
(* What is left of the allocations.                                        *)

(* Reverse rows of allocations that exist, with whole amounts.             *)
ReverseRowsOK(rows, reversed) ==
  /\ IsFiniteSet(reversed)
  /\ \A row \in reversed : row.alloc \in DOMAIN rows /\ row.amount \in Nat

LEMMA RemainingTotal ==
  ASSUME NEW rows, RowsOK(rows), NEW R, ReverseRowsOK(rows, R),
         ~SomeAllocationOverReversed(rows, R),
         NEW lefts, lefts = RemainingAllocations(rows, R)
  PROVE  /\ RowsOK(lefts) /\ DOMAIN lefts \subseteq DOMAIN rows
         /\ \A k \in DOMAIN lefts : /\ lefts[k].amount \in Nat \ {0}
                                    /\ lefts[k].invoice = rows[k].invoice
         /\ Total(lefts) = Total(rows) - TotalOfSet(R)
<1> DEFINE K == DOMAIN rows
           L == DOMAIN lefts
           a == [r \in R |-> r.alloc]
           w == [r \in R |-> r.amount]
           u == GroupSums(w, a, R, K)
           z == [k \in K |-> rows[k].amount]
           d == [k \in K |-> z[k] - u[k]]
<1>1. /\ IsFiniteSet(K) /\ IsFiniteSet(R) /\ NatOn(w, R) /\ IntOn(w, R) /\ IntOn(z, K)
      /\ \A r \in R : a[r] \in K
  BY DEF RowsOK, ReverseRowsOK, NatOn, IntOn
<1>2. ASSUME NEW k \in K PROVE Used(R, k) = u[k] /\ u[k] \in Nat
  <2> DEFINE S == {r \in R : r.alloc = k}
  <2>1. S = Group(a, R, k) /\ IsFiniteSet(S) /\ NatOn(w, S) /\ IntOn(w, S)
        /\ \A r \in S : w[r] = r.amount
    BY <1>1, FS_Subset DEF Group, NatOn, IntOn
  <2>2. Used(R, k) = TotalOfSet(S) /\ u[k] = SumFunctionOnSet(w, Group(a, R, k))
    BY DEF Used, GroupSums
  <2> HIDE DEF S, w, a
  <2>3. TotalOfSet(S) = SumFunctionOnSet(w, S) /\ SumFunctionOnSet(w, S) \in Nat
    BY <2>1, TotalOfSetIs, SumNat
  <2> QED BY <2>1, <2>2, <2>3
<1>3. IntOn(u, K) /\ IntOn(d, K)
  BY <1>1, <1>2 DEF IntOn
<1>4. ASSUME NEW k \in K PROVE u[k] <= z[k]
  BY <1>1, <1>2 DEF SomeAllocationOverReversed, IntOn
<1>5. /\ L = {k \in K : d[k] # 0} /\ L \subseteq K
      /\ \A k \in L : /\ lefts[k].amount = d[k] /\ d[k] \in Nat \ {0}
                      /\ lefts[k].invoice = rows[k].invoice
  <2>1. L = {k \in K : rows[k].amount - Used(R, k) # 0}
        /\ \A k \in L : /\ lefts[k].amount = rows[k].amount - Used(R, k)
                        /\ lefts[k].invoice = rows[k].invoice
    BY DEF RemainingAllocations
  <2>2. ASSUME NEW k \in K PROVE d[k] = rows[k].amount - Used(R, k) /\ d[k] \in Nat
    BY <1>1, <1>2, <1>4 DEF IntOn
  <2> HIDE DEF d, L, K
  <2> QED BY <2>1, <2>2
<1>6. IsFiniteSet(L) /\ IntOn(d, L)
  <2> HIDE DEF d, K, L
  <2> QED BY <1>1, <1>5, FS_Subset DEF IntOn
<1>7. RowsOK(lefts)
  BY <1>5, <1>6 DEF RowsOK
<1>8. \A k \in K \ L : d[k] = 0
  BY <1>5
<1>9. \A k \in K : z[k] = d[k] + u[k]
  BY <1>1, <1>3 DEF IntOn
<1>10. TotalOfSet(R) = SumFunctionOnSet(w, R) /\ Total(rows) = SumFunctionOnSet(z, K)
  BY <1>1, TotalOfSetIs, TotalIs
<1> HIDE DEF a, w, u, z, d, K, L
<1>11. Total(lefts) = SumFunctionOnSet(d, L)
  BY <1>5, <1>6, TotalIs DEF L
<1>12. SumFunctionOnSet(d, K) = SumFunctionOnSet(d, L)
  BY <1>1, <1>5, <1>6, <1>8, SumSupport
<1>13. SumFunctionOnSet(z, K) = SumFunctionOnSet(d, K) + SumFunctionOnSet(u, K)
  BY <1>1, <1>3, <1>9, SumPlus
<1>14. SumFunctionOnSet(u, K) = SumFunctionOnSet(w, R)
  BY <1>1, SumGroups DEF u
<1>15. SumFunctionOnSet(d, K) \in Int /\ SumFunctionOnSet(u, K) \in Int
  BY <1>1, <1>3, SumInt
<1> QED BY <1>5, <1>7, <1>10, <1>11, <1>12, <1>13, <1>14, <1>15 DEF K, L

(* A plan for all that is left restores each row to the cent.              *)
LEMMA FullPlan ==
  ASSUME NEW lefts, RowsOK(lefts), DOMAIN lefts # {}, DOMAIN lefts \subseteq Int,
         \A k \in DOMAIN lefts : lefts[k].amount # 0,
         NEW plan, plan = ComputeReverseAllocationPlan(lefts, Total(lefts))
  PROVE  /\ DOMAIN plan = DOMAIN lefts
         /\ \A k \in DOMAIN lefts : plan[k].amount = lefts[k].amount
<1> DEFINE T == Total(lefts)
           K == DOMAIN lefts
           m == Max(K)
           s == Shares(lefts, T, T)
           others == K \ {m}
           L == [k \in K |-> lefts[k].amount]
<1>1. /\ IsFiniteSet(K) /\ NatOn(L, K) /\ IntOn(L, K) /\ m \in K
      /\ \A k \in K : L[k] = lefts[k].amount /\ L[k] \in Nat \ {0}
  BY MaxInSet DEF RowsOK, NatOn, IntOn
<1> HIDE DEF L
<1>2. T = SumFunctionOnSet(L, K)
  BY <1>1, TotalIs
<1>3. L[m] <= SumFunctionOnSet(L, K)
  BY <1>1, SumCovers
<1>4. T \in Nat \ {0}
  BY <1>1, <1>2, <1>3, TotalNat
<1>5. /\ LineAmount(lefts, T, m) = T - SumFunctionOnSet(s, others)
      /\ \A k \in others : LineAmount(lefts, T, k) = s[k]
      /\ IsFiniteSet(others)
  <2>1. T \in 0..T /\ T > 0
    BY <1>4
  <2>2. /\ m = Max(DOMAIN lefts) /\ s = Shares(lefts, T, T) /\ T = Total(lefts)
        /\ others = DOMAIN lefts \ {m} /\ DOMAIN lefts # {}
    OBVIOUS
  <2> HIDE DEF m, s, others, T, K
  <2>3. /\ LineAmount(lefts, T, m) = T - SumFunctionOnSet(s, others)
        /\ \A k \in others : LineAmount(lefts, T, k) = s[k]
        /\ IsFiniteSet(others)
    BY <2>1, <2>2, LineAmounts
  <2> QED BY <2>3
<1>6. \A k \in K : s[k] = L[k]
  BY <1>1, <1>4, ShareOfAll DEF Shares
<1>7. SumFunctionOnSet(s, others) = SumFunctionOnSet(L, others)
  <2>1. IntOn(s, others) /\ \A k \in others : s[k] = L[k]
    BY <1>1, <1>6 DEF IntOn
  <2> HIDE DEF s, others
  <2> QED BY <1>5, <2>1, SumSame
<1>8. SumFunctionOnSet(L, K) = L[m] + SumFunctionOnSet(L, others)
  BY <1>1, SumTake
<1>9. SumFunctionOnSet(L, others) \in Int
  <2>1. IntOn(L, others)
    BY <1>1 DEF IntOn
  <2> HIDE DEF others
  <2> QED BY <1>5, <2>1, SumInt
<1>10. \A k \in K : LineAmount(lefts, T, k) = L[k]
  <2>1. LineAmount(lefts, T, m) = L[m]
    BY <1>1, <1>2, <1>5, <1>7, <1>8, <1>9
  <2>2. \A k \in others : LineAmount(lefts, T, k) = L[k]
    BY <1>5, <1>6
  <2> QED BY <2>1, <2>2
<1>11. \A k \in K : LineAmount(lefts, T, k) = lefts[k].amount /\ lefts[k].amount \in Nat \ {0}
  BY <1>1, <1>10
<1>12. DOMAIN plan = {k \in K : LineAmount(lefts, T, k) \in Nat \ {0}}
       /\ \A k \in DOMAIN plan : plan[k].amount = LineAmount(lefts, T, k)
  BY DEF ComputeReverseAllocationPlan
<1> QED BY <1>11, <1>12

-----------------------------------------------------------------------------
(* The sums the tables keep: each service changes one term of a sum, or    *)
(* adds to it the rows it writes.                                          *)

LEMMA SeqShape ==
  ASSUME NEW rows \in LineSeqs
  PROVE  /\ Len(rows) \in Nat /\ DOMAIN rows = 1..Len(rows)
         /\ \A k \in 1..Len(rows) : /\ rows[k].invoice \in Invoices
                                    /\ rows[k].amount \in Nat \ {0}
<1>1. Len(rows) \in Nat /\ DOMAIN rows = 1..Len(rows)
  BY DEF LineSeqs
<1> QED BY <1>1, LineOfSeq

LEMMA SeqsJoined ==
  ASSUME NEW rows \in LineSeqs, NEW lines \in LineSeqs
  PROVE  /\ rows \o lines \in LineSeqs
         /\ DOMAIN (rows \o lines) = 1..(Len(rows) + Len(lines))
         /\ \A k \in 1..Len(rows) : (rows \o lines)[k] = rows[k]
         /\ \A k \in 1..Len(lines) : (rows \o lines)[Len(rows) + k] = lines[k]
<1>1. rows \o lines \in LineSeqs /\ Len(rows \o lines) = Len(rows) + Len(lines)
  BY DEF LineSeqs
<1>2. DOMAIN (rows \o lines) = 1..(Len(rows) + Len(lines))
  BY <1>1, SeqShape
<1>3. \A k \in 1..Len(rows) : (rows \o lines)[k] = rows[k]
  BY DEF LineSeqs
<1>4. ASSUME NEW k \in 1..Len(lines) PROVE (rows \o lines)[Len(rows) + k] = lines[k]
  <2>1. Len(rows) + k \in 1..(Len(rows) + Len(lines)) /\ Len(rows) + k > Len(rows)
    BY SeqShape
  <2> QED BY <2>1, SeqShape DEF LineSeqs
<1> QED BY <1>1, <1>2, <1>3, <1>4

LEMMA SeqRowsOK ==
  ASSUME NEW rows \in LineSeqs
  PROVE  RowsOK(rows) /\ Total(rows) \in Nat
<1>1. IsFiniteSet(1..Len(rows))
  BY SeqShape, FS_Interval
<1>2. RowsOK(rows)
  BY <1>1, SeqShape DEF RowsOK
<1> QED BY <1>2, TotalNat

LEMMA TotalJoined ==
  ASSUME NEW rows \in LineSeqs, NEW lines \in LineSeqs
  PROVE  Total(rows \o lines) = Total(rows) + Total(lines)
<1> DEFINE m == Len(rows)
           n == Len(lines)
           both == rows \o lines
           f == [k \in 1..m |-> rows[k].amount]
           g == [k \in 1..n |-> lines[k].amount]
           h == [k \in 1..(m + n) |-> both[k].amount]
<1>1. m \in Nat /\ n \in Nat /\ IntOn(f, 1..m) /\ IntOn(g, 1..n)
  BY SeqShape DEF IntOn
<1>2. DOMAIN rows = 1..m /\ DOMAIN lines = 1..n /\ DOMAIN both = 1..(m + n)
      /\ both \in LineSeqs
  BY SeqShape, SeqsJoined
<1>3. IntOn(h, 1..(m + n))
  <2> HIDE DEF both, m, n
  <2>1. \A k \in DOMAIN both : both[k].amount \in Nat \ {0}
    BY <1>2, SeqShape
  <2> QED BY <1>2, <2>1 DEF IntOn
<1>4. /\ \A k \in 1..m : h[k] = f[k]
      /\ \A k \in 1..n : h[m + k] = g[k]
  <2>1. \A k \in 1..m : k \in 1..(m + n)
    BY <1>1
  <2>2. \A k \in 1..n : m + k \in 1..(m + n)
    BY <1>1
  <2> QED BY <2>1, <2>2, SeqsJoined
<1>5. IsFiniteSet(1..m) /\ IsFiniteSet(1..n) /\ IsFiniteSet(1..(m + n))
  BY <1>1, FS_Interval
<1>6. /\ \A k \in 1..m : f[k] = rows[k].amount
      /\ \A k \in 1..n : g[k] = lines[k].amount
      /\ \A k \in 1..(m + n) : h[k] = both[k].amount
  OBVIOUS
<1> HIDE DEF f, g, h, both, m, n
<1>7. /\ Total(rows) = SumFunctionOnSet(f, 1..m)
      /\ Total(lines) = SumFunctionOnSet(g, 1..n)
      /\ Total(both) = SumFunctionOnSet(h, 1..(m + n))
  BY <1>1, <1>2, <1>3, <1>5, <1>6, TotalIs
<1> QED BY <1>1, <1>4, <1>7, SumConcat DEF both

LEMMA TotalOfNone == Total(<<>>) = 0
<1> DEFINE f == [k \in {} |-> 0]
<1>1. DOMAIN <<>> = {} /\ IsFiniteSet({}) /\ IntOn(f, {})
  BY FS_EmptySet DEF IntOn
<1>2. Total(<<>>) = SumFunctionOnSet(f, {})
  BY <1>1, TotalIs
<1> QED BY <1>2, SumEmpty

-----------------------------------------------------------------------------
LEMMA CreditStays ==
  ASSUME TablesOK, CreditConserved, [AtomicNext]_tables
  PROVE  CreditConserved'
<1>0. /\ credit \in [Charges -> [original : Nat, remaining : Nat]]
      /\ creditApps \in [Charges -> LineSeqs]
  BY DEF TablesOK
<1>1. ASSUME NEW t \in Charges, AtomicApply(t) PROVE CreditConserved'
  <2> DEFINE excess == Excess(t, invoice[InvoiceOf(t)])
  <2>1. /\ creditApps' = creditApps
        /\ credit' = IF excess > 0
                     THEN [credit EXCEPT ![t] = [original |-> excess, remaining |-> excess]]
                     ELSE credit
        /\ excess > 0 => credit[t] = NoCredit
    BY <1>1 DEF AtomicApply, ApplyCharge, CanApply
  <2> HIDE DEF excess
  <2>2. ASSUME excess > 0 PROVE Total(creditApps[t]) = 0
    <3>1. credit[t].remaining + Total(creditApps[t]) = credit[t].original
      BY DEF CreditConserved
    <3>2. Total(creditApps[t]) \in Nat
      BY <1>0, SeqRowsOK
    <3> QED BY <2>1, <2>2, <3>1, <3>2 DEF NoCredit
  <2>3. excess \in Int
    <3>1. InvoiceOf(t) \in Invoices /\ TxnAmount[t] \in Nat
      BY <1>1, SettlementAssumption DEF AtomicApply, InvoiceOf, Txns
    <3>2. invoice[InvoiceOf(t)].balance \in Nat
      BY <3>1 DEF TablesOK, InvoiceRow
    <3> QED BY <3>1, <3>2 DEF excess, Excess, Applied
  <2>4. ASSUME excess > 0
        PROVE  /\ credit'[t].remaining = excess /\ credit'[t].original = excess
               /\ \A d \in Charges \ {t} : credit'[d] = credit[d]
    BY <1>0, <2>1, <2>4
  <2>5. CASE excess > 0
    <3>1. ASSUME NEW d \in Charges
          PROVE  credit'[d].remaining + Total(creditApps[d]) = credit'[d].original
      <4>1. CASE d = t
        BY <2>2, <2>3, <2>4, <2>5, <4>1
      <4>2. CASE d # t
        BY <2>4, <2>5, <4>2 DEF CreditConserved
      <4> QED BY <4>1, <4>2
    <3> QED BY <2>1, <3>1 DEF CreditConserved
  <2>6. CASE ~(excess > 0)
    BY <2>1, <2>6 DEF CreditConserved
  <2> QED BY <2>5, <2>6
<1>2. ASSUME NEW c \in Charges, NEW lines \in LineChoices, AtomicUseCredit(c, lines)
      PROVE  CreditConserved'
  <2>1. /\ credit' = [credit EXCEPT ![c].remaining = @ - Total(lines)]
        /\ creditApps' = [creditApps EXCEPT ![c] = @ \o lines]
    BY <1>2 DEF AtomicUseCredit, UseCredit
  <2>2. lines \in LineSeqs /\ Total(lines) \in Nat
    BY LinesAreSeq, SeqRowsOK
  <2>3. Total(creditApps[c] \o lines) = Total(creditApps[c]) + Total(lines)
        /\ Total(creditApps[c]) \in Nat
    BY <1>0, <2>2, TotalJoined, SeqRowsOK
  <2>4. /\ \A d \in Charges \ {c} : credit'[d] = credit[d] /\ creditApps'[d] = creditApps[d]
        /\ credit'[c].remaining = credit[c].remaining - Total(lines)
        /\ credit'[c].original = credit[c].original
        /\ creditApps'[c] = creditApps[c] \o lines
    BY <1>0, <2>1
  <2>5. credit[c].remaining \in Nat /\ credit[c].original \in Nat
    BY <1>0
  <2>6. ASSUME NEW d \in Charges
        PROVE  credit'[d].remaining + Total(creditApps'[d]) = credit'[d].original
    <3>1. CASE d = c
      <4>1. credit[c].remaining + Total(creditApps[c]) = credit[c].original
        BY DEF CreditConserved
      <4>2. Total(creditApps'[c]) = Total(creditApps[c]) + Total(lines)
        BY <2>3, <2>4
      <4>3. credit'[c].remaining + Total(creditApps'[c]) = credit'[c].original
        BY <2>2, <2>3, <2>4, <2>5, <4>1, <4>2
      <4> QED BY <3>1, <4>3
    <3>2. CASE d # c
      BY <2>4, <3>2 DEF CreditConserved
    <3> QED BY <3>1, <3>2
  <2> QED BY <2>6 DEF CreditConserved
<1>3. CASE credit' = credit /\ creditApps' = creditApps
  BY <1>3 DEF CreditConserved
<1>4. ASSUME NEW t \in Charges, AtomicUnapply(t) PROVE CreditConserved'
  BY <1>3, <1>4 DEF AtomicUnapply, Unapply
<1>5. ASSUME NEW r \in Reversals, AtomicReverse(r) PROVE CreditConserved'
  BY <1>3, <1>5 DEF AtomicReverse, Reverse
<1>6. ASSUME NEW r \in Reversals, NEW c \in Charges, AtomicReverseAllocations(r, c)
      PROVE  CreditConserved'
  BY <1>3, <1>6 DEF AtomicReverseAllocations, ReverseAllocations
<1>7. ASSUME NEW t \in Charges, NEW lines \in LineChoices, AtomicAllocate(t, lines)
      PROVE  CreditConserved'
  BY <1>3, <1>7 DEF AtomicAllocate, Allocate
<1>8. ASSUME NEW i \in Invoices, AtomicVoid(i) PROVE CreditConserved'
  BY <1>3, <1>8 DEF AtomicVoid, Void
<1>9. CASE UNCHANGED tables
  BY <1>3, <1>9 DEF tables
<1> QED BY <1>1, <1>2, <1>4, <1>5, <1>6, <1>7, <1>8, <1>9 DEF AtomicNext

-----------------------------------------------------------------------------
(* The rows a reversal adds.                                               *)

NewRow(r, c, lines, k) ==
  [rev |-> r, orig |-> c, alloc |-> k, invoice |-> lines[k].invoice, amount |-> lines[k].amount]
NewRows(r, c, lines) == {NewRow(r, c, lines, k) : k \in DOMAIN lines}

LEMMA NewRowsSum ==
  ASSUME NEW r, NEW c, NEW lines, NEW K, K = DOMAIN lines, IsFiniteSet(K),
         NEW N, N = NewRows(r, c, lines),
         NEW f, NEW g, IntOn(g, K), \A k \in K : f[NewRow(r, c, lines, k)] = g[k]
  PROVE  IsFiniteSet(N) /\ SumFunctionOnSet(f, N) = SumFunctionOnSet(g, K)
<1> DEFINE b == [k \in K |-> NewRow(r, c, lines, k)]
<1>1. b \in Bijection(K, N)
  <2>1. \A k \in K : b[k] \in N
    BY DEF NewRows
  <2>2. \A x, y \in K : b[x] = b[y] => x = y
    BY DEF NewRow
  <2>3. \A u \in N : \E x \in K : b[x] = u
    BY DEF NewRows
  <2>4. b \in [K -> N]
    BY <2>1
  <2> HIDE DEF b
  <2> QED BY <2>2, <2>3, <2>4 DEF Bijection, Injection, Surjection, IsInjective
<1>2. \A k \in K : f[b[k]] = g[k]
  OBVIOUS
<1> HIDE DEF b
<1>3. SumFunctionOnSet(f, N) = SumFunctionOnSet(g, K)
  BY <1>1, <1>2, SumRenamed
<1>4. IsFiniteSet(N)
  BY <1>1, FS_Bijection DEF ExistsBijection
<1> QED BY <1>3, <1>4

LEMMA ReverseAllocationsWrites ==
  ASSUME TablesOK, NEW r, NEW c, NEW lines, NEW rows, ReverseAllocations(r, c, lines, rows)
  PROVE  /\ reverseRows' = reverseRows \cup NewRows(r, c, lines)
         /\ allocs' = allocs /\ creditApps' = creditApps /\ applied' = applied
         /\ appliedAmount' = appliedAmount /\ restored' = restored /\ credit' = credit
BY DEF ReverseAllocations, NewRows, NewRow

-----------------------------------------------------------------------------
(* Every reversed row is one of an allocation of its charge.               *)
RowsInv ==
  /\ IsFiniteSet(reverseRows)
  /\ \A row \in reverseRows : row.alloc \in DOMAIN allocs[row.orig]

(* What a reversal finds of the charge it reverses, and the plan it makes. *)
LEMMA PlanFacts ==
  ASSUME TablesOK, RowsInv, NEW r \in Reversals, NEW c \in Charges, OriginalCheck(r, c),
         NEW plan, plan = PlanFor(r, c)
  PROVE  /\ IsFiniteSet(ReverseRowsOfOrig(c))
         /\ RowsOK(plan) /\ DOMAIN plan \subseteq DOMAIN allocs[c]
         /\ \A k \in DOMAIN plan : /\ plan[k].invoice = allocs[c][k].invoice
                                   /\ plan[k].amount \in Nat \ {0}
         /\ TotalOfSet(ReverseRowsOfOrig(c)) + Total(plan) <= Total(allocs[c])
<1> DEFINE R == ReverseRowsOfOrig(c)
           rows == allocs[c]
           lefts == RemainingAllocations(rows, R)
           rev == EffectiveReversal(TxnAmount[r], Total(rows))
<1>1. rows \in LineSeqs /\ RowsOK(rows) /\ DOMAIN rows \subseteq Int /\ Total(rows) \in Nat
  <2>1. rows \in LineSeqs
    BY DEF TablesOK
  <2>2. DOMAIN rows = 1..Len(rows) /\ Len(rows) \in Nat
    BY <2>1, SeqShape
  <2>3. \A k \in 1..Len(rows) : k \in Int
    BY <2>2
  <2> QED BY <2>1, <2>2, <2>3, SeqRowsOK
<1>2. IsFiniteSet(R)
  <2>1. R \subseteq reverseRows
    BY DEF ReverseRowsOfOrig
  <2> QED BY <2>1, FS_Subset DEF RowsInv
<1>3. ReverseRowsOK(rows, R)
  BY <1>2 DEF ReverseRowsOK, RowsInv, ReverseRowsOfOrig, TablesOK
<1>4. /\ ~SomeAllocationOverReversed(rows, R)
      /\ rev > 0 /\ rev <= Total(lefts) /\ plan = ComputeReverseAllocationPlan(lefts, rev)
  BY DEF OriginalCheck, Reversible, PlanFor, ReversalPlan
<1>5. rev \in Nat \ {0}
  <2>1. TxnAmount[r] \in Nat
    BY SettlementAssumption DEF Txns
  <2> HIDE DEF rows
  <2> QED BY <1>1, <1>4, <2>1 DEF EffectiveReversal
<1> HIDE DEF rev, lefts, R, rows
<1>6. /\ RowsOK(lefts) /\ DOMAIN lefts \subseteq DOMAIN rows
      /\ \A k \in DOMAIN lefts : lefts[k].invoice = rows[k].invoice
      /\ Total(lefts) = Total(rows) - TotalOfSet(R)
  BY <1>1, <1>3, <1>4, RemainingTotal DEF lefts
<1>7. DOMAIN lefts \subseteq Int
  BY <1>1, <1>6
<1>8. /\ DOMAIN plan \subseteq DOMAIN lefts /\ RowsOK(plan)
      /\ \A k \in DOMAIN plan : /\ plan[k].invoice = lefts[k].invoice
                                /\ plan[k].amount \in Nat \ {0}
      /\ Total(plan) <= Total(lefts)
  BY <1>4, <1>5, <1>6, <1>7, PlanTotal
<1>9. Total(plan) \in Nat /\ TotalOfSet(R) \in Nat
  <2> DEFINE f == [row \in R |-> row.amount]
  <2>1. NatOn(f, R) /\ IntOn(f, R) /\ \A row \in R : f[row] = row.amount
    BY <1>3 DEF ReverseRowsOK, NatOn, IntOn
  <2> HIDE DEF f
  <2>2. TotalOfSet(R) \in Nat
    BY <1>2, <2>1, TotalOfSetIs, SumNat
  <2> QED BY <1>8, <2>2, TotalNat
<1>10. TotalOfSet(R) + Total(plan) <= Total(rows)
  BY <1>1, <1>6, <1>8, <1>9
<1> QED BY <1>2, <1>6, <1>8, <1>10 DEF R, rows

LEMMA SetTotalNat ==
  ASSUME TablesOK, RowsInv, NEW R, R \subseteq reverseRows
  PROVE  IsFiniteSet(R) /\ TotalOfSet(R) \in Nat
<1> DEFINE f == [row \in R |-> row.amount]
<1>1. IsFiniteSet(R)
  BY FS_Subset DEF RowsInv
<1>2. NatOn(f, R) /\ IntOn(f, R) /\ \A row \in R : f[row] = row.amount
  BY DEF TablesOK, NatOn, IntOn
<1> HIDE DEF f
<1>3. TotalOfSet(R) \in Nat
  BY <1>1, <1>2, TotalOfSetIs, SumNat
<1> QED BY <1>1, <1>3

LEMMA RowsStay ==
  ASSUME TablesOK, RowsInv, [AtomicNext]_tables
  PROVE  RowsInv'
<1>0. allocs \in [Charges -> LineSeqs] /\ \A row \in reverseRows : row.orig \in Charges
  BY DEF TablesOK
<1>1. ASSUME NEW t \in Charges, NEW lines \in LineChoices, AtomicAllocate(t, lines)
      PROVE  RowsInv'
  <2>1. reverseRows' = reverseRows /\ allocs' = [allocs EXCEPT ![t] = @ \o lines]
    BY <1>1 DEF AtomicAllocate, Allocate
  <2>2. allocs[t] \in LineSeqs /\ lines \in LineSeqs
    BY <1>0, LinesAreSeq
  <2>3. DOMAIN allocs[t] \subseteq DOMAIN (allocs[t] \o lines)
    <3>1. /\ DOMAIN allocs[t] = 1..Len(allocs[t])
          /\ DOMAIN (allocs[t] \o lines) = 1..(Len(allocs[t]) + Len(lines))
          /\ Len(allocs[t]) \in Nat /\ Len(lines) \in Nat
      BY <2>2, SeqShape, SeqsJoined
    <3> QED BY <3>1
  <2>4. \A row \in reverseRows : DOMAIN allocs[row.orig] \subseteq DOMAIN allocs'[row.orig]
    <3> SUFFICES ASSUME NEW row \in reverseRows
                 PROVE  DOMAIN allocs[row.orig] \subseteq DOMAIN allocs'[row.orig]
      OBVIOUS
    <3>1. CASE row.orig = t
      BY <1>0, <2>1, <2>3, <3>1
    <3>2. CASE row.orig # t
      BY <1>0, <2>1, <3>2
    <3> QED BY <3>1, <3>2
  <2> QED BY <2>1, <2>4 DEF RowsInv
<1>2. ASSUME NEW r \in Reversals, NEW c \in Charges, AtomicReverseAllocations(r, c)
      PROVE  RowsInv'
  <2> DEFINE plan == PlanFor(r, c)
             N == NewRows(r, c, plan)
  <2>1. OriginalCheck(r, c) /\ ReverseAllocations(r, c, plan, invoice)
    BY <1>2 DEF AtomicReverseAllocations
  <2>2. RowsOK(plan) /\ DOMAIN plan \subseteq DOMAIN allocs[c]
    BY <2>1, PlanFacts
  <2>3. reverseRows' = reverseRows \cup N /\ allocs' = allocs
    BY <2>1, ReverseAllocationsWrites
  <2>4. IsFiniteSet(N)
    <3> DEFINE g == [k \in DOMAIN plan |-> 0]
               f == [row \in N |-> 0]
    <3>1. IntOn(g, DOMAIN plan) /\ \A k \in DOMAIN plan : f[NewRow(r, c, plan, k)] = g[k]
      BY DEF IntOn, NewRows
    <3> HIDE DEF f, g, plan
    <3> QED BY <2>2, <3>1, NewRowsSum DEF RowsOK
  <2>5. \A row \in N : row.orig = c /\ row.alloc \in DOMAIN plan
    BY DEF NewRows, NewRow
  <2>6. IsFiniteSet(reverseRows')
    BY <2>3, <2>4, FS_Union DEF RowsInv
  <2> QED BY <2>2, <2>3, <2>5, <2>6 DEF RowsInv
<1>3. CASE UNCHANGED <<allocs, reverseRows>>
  BY <1>3 DEF RowsInv
<1>4. ASSUME NEW t \in Charges, AtomicApply(t) \/ AtomicUnapply(t) PROVE RowsInv'
  BY <1>3, <1>4 DEF AtomicApply, ApplyCharge, AtomicUnapply, Unapply
<1>5. ASSUME NEW r \in Reversals, AtomicReverse(r) PROVE RowsInv'
  BY <1>3, <1>5 DEF AtomicReverse, Reverse
<1>6. ASSUME NEW t \in Charges, NEW lines \in LineChoices, AtomicUseCredit(t, lines)
      PROVE  RowsInv'
  BY <1>3, <1>6 DEF AtomicUseCredit, UseCredit
<1>7. ASSUME NEW i \in Invoices, AtomicVoid(i) PROVE RowsInv'
  BY <1>3, <1>7 DEF AtomicVoid, Void
<1>8. CASE UNCHANGED tables
  BY <1>3, <1>8 DEF tables
<1> QED BY <1>1, <1>2, <1>4, <1>5, <1>6, <1>7, <1>8 DEF AtomicNext

LEMMA ReversalsStayWithin ==
  ASSUME TablesOK, RowsInv, ReversalsWithinAllocations, [AtomicNext]_tables
  PROVE  ReversalsWithinAllocations'
<1>0. allocs \in [Charges -> LineSeqs]
  BY DEF TablesOK
<1>1. ASSUME NEW t \in Charges, NEW lines \in LineChoices, AtomicAllocate(t, lines)
      PROVE  ReversalsWithinAllocations'
  <2>1. reverseRows' = reverseRows /\ allocs' = [allocs EXCEPT ![t] = @ \o lines]
    BY <1>1 DEF AtomicAllocate, Allocate
  <2>2. allocs[t] \in LineSeqs /\ lines \in LineSeqs
    BY <1>0, LinesAreSeq
  <2>3. Total(allocs[t] \o lines) >= Total(allocs[t])
    <3>1. Total(allocs[t] \o lines) = Total(allocs[t]) + Total(lines)
          /\ Total(allocs[t]) \in Nat /\ Total(lines) \in Nat
      BY <2>2, TotalJoined, SeqRowsOK
    <3> QED BY <3>1
  <2>4. ASSUME NEW c \in Charges
        PROVE  TotalOfSet(ReverseRowsOfOrig(c)) <= Total(allocs'[c])
    <3>1. TotalOfSet(ReverseRowsOfOrig(c)) <= Total(allocs[c])
      BY DEF ReversalsWithinAllocations
    <3>2. CASE c = t
      <4>1. Total(allocs'[c]) = Total(allocs[t] \o lines)
        BY <1>0, <2>1, <3>2
      <4>2. Total(allocs[t]) \in Int /\ Total(allocs[t] \o lines) \in Int
        BY <2>2, SeqRowsOK, SeqsJoined
      <4>3. TotalOfSet(ReverseRowsOfOrig(c)) \in Nat
        <5>1. ReverseRowsOfOrig(c) \subseteq reverseRows
          BY DEF ReverseRowsOfOrig
        <5> QED BY <5>1, SetTotalNat
      <4> QED BY <2>3, <3>1, <3>2, <4>1, <4>2, <4>3
    <3>3. CASE c # t
      BY <1>0, <2>1, <3>1, <3>3
    <3> QED BY <3>2, <3>3
  <2>5. \A c : ReverseRowsOfOrig(c)' = ReverseRowsOfOrig(c)
    BY <2>1 DEF ReverseRowsOfOrig
  <2> QED BY <2>4, <2>5 DEF ReversalsWithinAllocations
<1>2. ASSUME NEW r \in Reversals, NEW c \in Charges, AtomicReverseAllocations(r, c)
      PROVE  ReversalsWithinAllocations'
  <2> DEFINE plan == PlanFor(r, c)
             N == NewRows(r, c, plan)
             R == ReverseRowsOfOrig(c)
             f == [row \in R \cup N |-> row.amount]
             g == [k \in DOMAIN plan |-> plan[k].amount]
  <2>1. OriginalCheck(r, c) /\ ReverseAllocations(r, c, plan, invoice) /\ ReverseRowsOf(r) = {}
    BY <1>2 DEF AtomicReverseAllocations
  <2>2. /\ RowsOK(plan) /\ TotalOfSet(R) + Total(plan) <= Total(allocs[c])
        /\ IsFiniteSet(R) /\ IsFiniteSet(DOMAIN plan)
    BY <2>1, PlanFacts DEF RowsOK
  <2>3. reverseRows' = reverseRows \cup N /\ allocs' = allocs
    BY <2>1, ReverseAllocationsWrites
  <2>4. \A row \in N : row.orig = c /\ row.rev = r /\ row.amount \in Nat
    BY <2>2 DEF NewRows, NewRow, RowsOK
  <2>5. /\ R \cap N = {} /\ ReverseRowsOfOrig(c)' = R \cup N
        /\ \A d \in Charges \ {c} : ReverseRowsOfOrig(d)' = ReverseRowsOfOrig(d)
    BY <2>1, <2>3, <2>4 DEF ReverseRowsOf, ReverseRowsOfOrig
  <2>6. /\ IntOn(f, R) /\ IntOn(f, N) /\ IntOn(f, R \cup N) /\ IntOn(g, DOMAIN plan)
        /\ \A row \in R \cup N : f[row] = row.amount
        /\ \A k \in DOMAIN plan : f[NewRow(r, c, plan, k)] = g[k]
    <3>1. \A row \in R : row.amount \in Nat
      BY DEF ReverseRowsOfOrig, TablesOK
    <3>2. \A k \in DOMAIN plan : NewRow(r, c, plan, k) \in N
                               /\ NewRow(r, c, plan, k).amount = plan[k].amount
      BY DEF NewRows, NewRow
    <3> HIDE DEF R, N, plan
    <3> QED BY <2>2, <2>4, <3>1, <3>2 DEF IntOn, RowsOK
  <2> HIDE DEF f, g, plan, R, N
  <2>7. IsFiniteSet(N) /\ SumFunctionOnSet(f, N) = SumFunctionOnSet(g, DOMAIN plan)
    BY <2>2, <2>6, NewRowsSum DEF N
  <2>8. Total(plan) = SumFunctionOnSet(g, DOMAIN plan)
    BY <2>2, <2>6, TotalIs DEF g
  <2>9. TotalOfSet(R) = SumFunctionOnSet(f, R)
    BY <2>2, <2>6, TotalOfSetIs
  <2>10. TotalOfSet(R \cup N) = TotalOfSet(R) + Total(plan)
    <3> DEFINE V == R \cup N
    <3>1. V = R \cup N /\ IsFiniteSet(V) /\ IntOn(f, V) /\ \A row \in V : f[row] = row.amount
      BY <2>2, <2>6, <2>7, FS_Union
    <3> HIDE DEF V
    <3>2. TotalOfSet(V) = SumFunctionOnSet(f, V)
      BY <3>1, TotalOfSetIs
    <3>3. SumFunctionOnSet(f, V) = SumFunctionOnSet(f, R) + SumFunctionOnSet(f, N)
      BY <2>2, <2>5, <2>6, <2>7, <3>1, SumUnion
    <3> QED BY <2>7, <2>8, <2>9, <3>1, <3>2, <3>3
  <2>11. ASSUME NEW d \in Charges
         PROVE  TotalOfSet(ReverseRowsOfOrig(d))' <= Total(allocs[d])
    <3>1. CASE d = c
      BY <2>2, <2>5, <2>10, <3>1
    <3>2. CASE d # c
      BY <2>5, <3>2 DEF ReversalsWithinAllocations
    <3> QED BY <3>1, <3>2
  <2> QED BY <2>3, <2>11 DEF ReversalsWithinAllocations
<1>3. CASE UNCHANGED <<allocs, reverseRows>>
  BY <1>3 DEF ReversalsWithinAllocations, ReverseRowsOfOrig
<1>4. ASSUME NEW t \in Charges, AtomicApply(t) \/ AtomicUnapply(t)
      PROVE  ReversalsWithinAllocations'
  BY <1>3, <1>4 DEF AtomicApply, ApplyCharge, AtomicUnapply, Unapply
<1>5. ASSUME NEW r \in Reversals, AtomicReverse(r) PROVE ReversalsWithinAllocations'
  BY <1>3, <1>5 DEF AtomicReverse, Reverse
<1>6. ASSUME NEW t \in Charges, NEW lines \in LineChoices, AtomicUseCredit(t, lines)
      PROVE  ReversalsWithinAllocations'
  BY <1>3, <1>6 DEF AtomicUseCredit, UseCredit
<1>7. ASSUME NEW i \in Invoices, AtomicVoid(i) PROVE ReversalsWithinAllocations'
  BY <1>3, <1>7 DEF AtomicVoid, Void
<1>8. CASE UNCHANGED tables
  BY <1>3, <1>8 DEF tables
<1> QED BY <1>1, <1>2, <1>4, <1>5, <1>6, <1>7, <1>8 DEF AtomicNext

-----------------------------------------------------------------------------
(* What some rows pay on one invoice.                                      *)

LineTerms(rows, i) ==
  [k \in DOMAIN rows |-> IF rows[k].invoice = i THEN rows[k].amount ELSE 0]

LEMMA LinesIs ==
  ASSUME NEW rows, RowsOK(rows), NEW i, NEW K, K = DOMAIN rows
  PROVE  /\ Lines(rows, i) = SumFunctionOnSet(LineTerms(rows, i), K)
         /\ Lines(rows, i) \in Nat
         /\ IntOn(LineTerms(rows, i), K) /\ IsFiniteSet(K)
<1> DEFINE f == LineTerms(rows, i)
<1>1. DOMAIN f = K /\ Lines(rows, i) = SumFunction(f)
  BY DEF LineTerms, Lines
<1>2. NatOn(f, K) /\ IntOn(f, K) /\ IsFiniteSet(K)
  BY DEF LineTerms, RowsOK, NatOn, IntOn
<1> HIDE DEF f
<1>3. Lines(rows, i) = SumFunctionOnSet(f, K)
  BY <1>1, SumFunctionIs
<1>4. Lines(rows, i) \in Nat
  BY <1>2, <1>3, SumNat
<1> QED BY <1>2, <1>3, <1>4 DEF f

LEMMA LinesJoined ==
  ASSUME NEW rows \in LineSeqs, NEW lines \in LineSeqs, NEW i
  PROVE  Lines(rows \o lines, i) = Lines(rows, i) + Lines(lines, i)
<1> DEFINE m == Len(rows)
           n == Len(lines)
           both == rows \o lines
           f == LineTerms(rows, i)
           g == LineTerms(lines, i)
           h == LineTerms(both, i)
<1>1. m \in Nat /\ n \in Nat /\ DOMAIN rows = 1..m /\ DOMAIN lines = 1..n
      /\ DOMAIN both = 1..(m + n) /\ both \in LineSeqs
  BY SeqShape, SeqsJoined
<1>2. RowsOK(rows) /\ RowsOK(lines) /\ RowsOK(both)
  BY <1>1, SeqRowsOK
<1>3. /\ \A k \in 1..m : h[k] = f[k]
      /\ \A k \in 1..n : h[m + k] = g[k]
  <2>1. \A k \in 1..m : k \in 1..(m + n)
    BY <1>1
  <2>2. \A k \in 1..n : m + k \in 1..(m + n)
    BY <1>1
  <2>3. /\ \A k \in 1..m : both[k] = rows[k]
        /\ \A k \in 1..n : both[m + k] = lines[k]
    BY SeqsJoined
  <2> HIDE DEF m, n, both
  <2> QED BY <1>1, <2>1, <2>2, <2>3 DEF LineTerms
<1> HIDE DEF f, g, h, both, m, n
<1>4. /\ Lines(rows, i) = SumFunctionOnSet(f, 1..m) /\ IntOn(f, 1..m)
      /\ Lines(lines, i) = SumFunctionOnSet(g, 1..n) /\ IntOn(g, 1..n)
      /\ Lines(both, i) = SumFunctionOnSet(h, 1..(m + n))
  BY <1>1, <1>2, LinesIs DEF f, g, h
<1> QED BY <1>1, <1>3, <1>4, SumConcat DEF both

(* Of rows on different invoices, at most one pays an invoice.             *)
LEMMA LinesOfDistinct ==
  ASSUME NEW lines, RowsOK(lines), DistinctInvoices(lines), NEW i
  PROVE  Lines(lines, i) = IF i \in InvoicesOf(lines) THEN AmountFor(lines, i) ELSE 0
<1> DEFINE K == DOMAIN lines
           f == LineTerms(lines, i)
           c == CHOOSE k \in DOMAIN lines : lines[k].invoice = i
<1>1. Lines(lines, i) = SumFunctionOnSet(f, K) /\ IntOn(f, K) /\ IsFiniteSet(K)
  BY LinesIs
<1>2. CASE i \in InvoicesOf(lines)
  <2>1. c \in K /\ lines[c].invoice = i
    BY <1>2 DEF InvoicesOf
  <2>2. AmountFor(lines, i) = lines[c].amount /\ lines[c].amount \in Nat
    BY <2>1 DEF AmountFor, RowsOK
  <2>3. f[c] = lines[c].amount /\ \A k \in K \ {c} : f[k] = 0
    BY <2>1 DEF LineTerms, DistinctInvoices
  <2> HIDE DEF f, c, K
  <2>4. SumFunctionOnSet(f, K) = f[c] + SumFunctionOnSet(f, K \ {c})
    BY <1>1, <2>1, SumTake
  <2>5. SumFunctionOnSet(f, K \ {c}) = 0
    <3>1. IsFiniteSet(K \ {c})
      BY <1>1, FS_Subset
    <3> QED BY <2>3, <3>1, SumZero
  <2> QED BY <1>1, <1>2, <2>2, <2>3, <2>4, <2>5
<1>3. CASE i \notin InvoicesOf(lines)
  <2>1. \A k \in K : f[k] = 0
    BY <1>3 DEF LineTerms, InvoicesOf
  <2> HIDE DEF f, K
  <2> QED BY <1>1, <1>3, <2>1, SumZero
<1> QED BY <1>2, <1>3

-----------------------------------------------------------------------------
(* What an invoice received.                                               *)

MoneyInv ==
  /\ RowsInv
  /\ \A t \in Charges : DistinctInvoices(allocs[t])
  /\ \A t \in Charges : applied[t] # None => appliedAmount[t] \in Nat

From(i) == [t \in Charges |-> Paid(t, i) + Lines(allocs[t], i) + Lines(creditApps[t], i)]
Back(i) == [r \in Reversals |-> GivenBack(r, i)]
ReversedOn(i) == {row \in reverseRows : row.invoice = i}

LEMMA FiniteTxns == IsFiniteSet(Charges) /\ IsFiniteSet(Reversals)
<1>1. Charges \subseteq Txns /\ Reversals \subseteq Txns
  BY DEF Txns
<1> QED BY <1>1, FS_Subset, SettlementAssumption

LEMMA ReceivedIs ==
  ASSUME NEW i
  PROVE  Received(i) = SumFunctionOnSet(From(i), Charges) - SumFunctionOnSet(Back(i), Reversals)
                       - TotalOfSet(ReversedOn(i))
<1>1. DOMAIN From(i) = Charges /\ DOMAIN Back(i) = Reversals
  BY DEF From, Back
<1>2. SumFunction(From(i)) = SumFunctionOnSet(From(i), Charges)
      /\ SumFunction(Back(i)) = SumFunctionOnSet(Back(i), Reversals)
  BY <1>1, SumFunctionIs
<1> QED BY <1>2 DEF Received, From, Back, ReversedOn

LEMMA TermTypes ==
  ASSUME TablesOK, MoneyInv, NEW i \in Invoices
  PROVE  /\ \A t \in Charges : /\ Paid(t, i) \in Nat
                               /\ Lines(allocs[t], i) \in Nat
                               /\ Lines(creditApps[t], i) \in Nat
         /\ \A r \in Reversals : GivenBack(r, i) \in Nat
         /\ IntOn(From(i), Charges) /\ IntOn(Back(i), Reversals)
         /\ SumFunctionOnSet(From(i), Charges) \in Int
         /\ SumFunctionOnSet(Back(i), Reversals) \in Int
         /\ TotalOfSet(ReversedOn(i)) \in Nat
         /\ Received(i) \in Int
<1>1. i # None
  BY InvoicesAssumption, SettlementAssumption
<1>2. ASSUME NEW t \in Charges
      PROVE  Paid(t, i) \in Nat /\ Lines(allocs[t], i) \in Nat /\ Lines(creditApps[t], i) \in Nat
  <2>1. Paid(t, i) \in Nat
    BY <1>1 DEF Paid, MoneyInv
  <2>2. allocs[t] \in LineSeqs /\ creditApps[t] \in LineSeqs
    BY DEF TablesOK
  <2> QED BY <2>1, <2>2, SeqRowsOK, LinesIs
<1>3. ASSUME NEW r \in Reversals PROVE GivenBack(r, i) \in Nat
  BY DEF GivenBack, TablesOK
<1>4. IntOn(From(i), Charges) /\ IntOn(Back(i), Reversals)
  BY <1>2, <1>3 DEF From, Back, IntOn
<1>5. SumFunctionOnSet(From(i), Charges) \in Int /\ SumFunctionOnSet(Back(i), Reversals) \in Int
  BY <1>4, FiniteTxns, SumInt
<1>6. TotalOfSet(ReversedOn(i)) \in Nat
  <2>1. ReversedOn(i) \subseteq reverseRows
    BY DEF ReversedOn
  <2> QED BY <2>1, SetTotalNat DEF MoneyInv
<1> QED BY <1>2, <1>3, <1>4, <1>5, <1>6, ReceivedIs

LEMMA ReceivedNext ==
  ASSUME NEW i
  PROVE  Received(i)' = SumFunctionOnSet(From(i)', Charges) - SumFunctionOnSet(Back(i)', Reversals)
                        - TotalOfSet(ReversedOn(i)')
<1>1. DOMAIN From(i)' = Charges /\ DOMAIN Back(i)' = Reversals
  BY DEF From, Back
<1>2. SumFunction(From(i)') = SumFunctionOnSet(From(i)', Charges)
      /\ SumFunction(Back(i)') = SumFunctionOnSet(Back(i)', Reversals)
  BY <1>1, SumFunctionIs
<1> QED BY <1>2 DEF Received, From, Back, ReversedOn

(* One charge pays d more on invoice i.                                    *)
LEMMA ChargePays ==
  ASSUME TablesOK, MoneyInv, NEW i \in Invoices, NEW c \in Charges, NEW d \in Int,
         \A t \in Charges \ {c} : From(i)'[t] = From(i)[t],
         From(i)'[c] = From(i)[c] + d,
         Back(i)' = Back(i), ReversedOn(i)' = ReversedOn(i)
  PROVE  Received(i)' = Received(i) + d
<1> DEFINE f == From(i)
           g == From(i)'
<1>1. IntOn(f, Charges) /\ SumFunctionOnSet(f, Charges) \in Int /\ f[c] \in Int
  BY TermTypes DEF IntOn
<1>2. IntOn(g, Charges)
  BY <1>1 DEF IntOn
<1> HIDE DEF f, g
<1>3. SumFunctionOnSet(g, Charges) = SumFunctionOnSet(f, Charges) - f[c] + g[c]
  BY <1>1, <1>2, FiniteTxns, SumChange DEF f, g
<1>4. SumFunctionOnSet(g, Charges) = SumFunctionOnSet(f, Charges) + d
  BY <1>1, <1>3 DEF f, g
<1>5. /\ Received(i) = SumFunctionOnSet(f, Charges) - SumFunctionOnSet(Back(i), Reversals)
                       - TotalOfSet(ReversedOn(i))
      /\ Received(i)' = SumFunctionOnSet(g, Charges) - SumFunctionOnSet(Back(i), Reversals)
                        - TotalOfSet(ReversedOn(i))
  BY ReceivedIs, ReceivedNext DEF f, g
<1>6. SumFunctionOnSet(Back(i), Reversals) \in Int /\ TotalOfSet(ReversedOn(i)) \in Int
  BY TermTypes
<1> QED BY <1>1, <1>4, <1>5, <1>6

(* The balance of an invoice moves against what it received.               *)
LEMMA BalanceFollows ==
  ASSUME TablesOK, MoneyInv, NEW i \in Invoices, NEW d \in Int,
         invoice[i].balance = InvAmount[i] - Received(i),
         invoice'[i].balance = invoice[i].balance - d,
         Received(i)' = Received(i) + d
  PROVE  invoice'[i].balance = InvAmount[i] - Received(i)'
<1>1. InvAmount[i] \in Int /\ Received(i) \in Int
  BY TermTypes, InvoicesAssumption
<1> QED BY <1>1

LEMMA ApplyPays ==
  ASSUME TablesOK, MoneyInv, BalanceIsUnreceived, NEW t \in Charges, AtomicApply(t),
         invoice[InvoiceOf(t)].status # "voided"
  PROVE  BalanceIsUnreceived'
<1> DEFINE n == InvoiceOf(t)
           amount == Applied(t, invoice[n])
<1>1. /\ n \in Invoices /\ applied[t] = None /\ None \notin Invoices
      /\ t \in Txns
  BY InvoicesAssumption, SettlementAssumption DEF AtomicApply, InvoiceOf, Txns
<1>2. /\ invoice' = [invoice EXCEPT ![n] = PaidRow(invoice[n], amount)]
      /\ applied' = [applied EXCEPT ![t] = n]
      /\ appliedAmount' = [appliedAmount EXCEPT ![t] = amount]
      /\ UNCHANGED <<allocs, reverseRows, creditApps, restored>>
  BY DEF AtomicApply, ApplyCharge
<1>3. amount \in Nat
  BY <1>1, SettlementAssumption DEF Applied, TablesOK, InvoiceRow
<1> HIDE DEF n, amount
<1>4. SUFFICES ASSUME NEW i \in Invoices, invoice'[i].status # "voided"
               PROVE  invoice'[i].balance = InvAmount[i] - Received(i)'
  BY DEF BalanceIsUnreceived
<1> DEFINE d == IF i = n THEN amount ELSE 0
<1>5. /\ \A x \in Txns \ {t} : applied'[x] = applied[x] /\ appliedAmount'[x] = appliedAmount[x]
      /\ applied'[t] = n /\ appliedAmount'[t] = amount
  BY <1>1, <1>2 DEF TablesOK
<1>6. From(i)'[t] = From(i)[t] + d
  <2>1. Paid(t, i) = 0 /\ Paid(t, i)' = d
    BY <1>1, <1>5 DEF Paid
  <2>2. Lines(allocs[t], i) \in Nat /\ Lines(creditApps[t], i) \in Nat
    BY TermTypes
  <2>3. /\ From(i)[t] = Paid(t, i) + Lines(allocs[t], i) + Lines(creditApps[t], i)
        /\ From(i)'[t] = Paid(t, i)' + Lines(allocs[t], i) + Lines(creditApps[t], i)
    BY <1>2 DEF From, Lines
  <2> QED BY <1>3, <2>1, <2>2, <2>3
<1>7. \A x \in Charges \ {t} : From(i)'[x] = From(i)[x]
  BY <1>2, <1>5 DEF From, Paid, Txns, Lines
<1>8. Back(i)' = Back(i) /\ ReversedOn(i)' = ReversedOn(i)
  <2>1. \A r \in Reversals : GivenBack(r, i)' = GivenBack(r, i)
    <3>1. \A r \in Reversals : r \in Txns \ {t}
      BY SettlementAssumption DEF Txns
    <3> QED BY <1>2, <1>5, <3>1 DEF GivenBack
  <2> QED BY <1>2, <2>1 DEF Back, ReversedOn
<1>9. Received(i)' = Received(i) + d
  <2>1. d \in Int
    BY <1>3
  <2> HIDE DEF d
  <2> QED BY <1>6, <1>7, <1>8, <2>1, ChargePays
<1>10. /\ invoice'[i].balance = invoice[i].balance - d
       /\ invoice[i].status # "voided"
  <2>1. invoice[i].balance \in Nat
    BY DEF TablesOK, InvoiceRow
  <2>2. CASE i = n
    BY <1>2, <2>1, <2>2 DEF TablesOK, PaidRow, n
  <2>3. CASE i # n
    BY <1>2, <1>4, <2>1, <2>3 DEF TablesOK
  <2> QED BY <2>2, <2>3
<1>11. invoice[i].balance = InvAmount[i] - Received(i)
  BY <1>10 DEF BalanceIsUnreceived
<1>12. d \in Int
  BY <1>3
<1> HIDE DEF d
<1> QED BY <1>9, <1>10, <1>11, <1>12, BalanceFollows

LEMMA UnapplyReturns ==
  ASSUME TablesOK, MoneyInv, BalanceIsUnreceived, NEW t \in Charges, NEW n \in Invoices,
         NEW amount, applied[t] = n, appliedAmount[t] = amount, Unapply(t, n, amount, invoice),
         invoice[n].status # "voided"
  PROVE  BalanceIsUnreceived'
<1>1. t \in Txns /\ None \notin Invoices /\ amount \in Nat
  BY InvoicesAssumption, SettlementAssumption DEF Txns, MoneyInv
<1>2. /\ invoice' = [invoice EXCEPT ![n] = RestoredRow(n, invoice[n], amount)]
      /\ applied' = [applied EXCEPT ![t] = None]
      /\ appliedAmount' = [appliedAmount EXCEPT ![t] = None]
      /\ UNCHANGED <<allocs, reverseRows, creditApps, restored>>
  BY DEF Unapply
<1>4. SUFFICES ASSUME NEW i \in Invoices, invoice'[i].status # "voided"
               PROVE  invoice'[i].balance = InvAmount[i] - Received(i)'
  BY DEF BalanceIsUnreceived
<1> DEFINE d == IF i = n THEN -amount ELSE 0
<1>5. /\ \A x \in Txns \ {t} : applied'[x] = applied[x] /\ appliedAmount'[x] = appliedAmount[x]
      /\ applied'[t] = None
  BY <1>1, <1>2 DEF TablesOK
<1>6. From(i)'[t] = From(i)[t] + d
  <2>1. Paid(t, i)' = 0 /\ Paid(t, i) = -d
    BY <1>1, <1>5 DEF Paid
  <2>2. Lines(allocs[t], i) \in Nat /\ Lines(creditApps[t], i) \in Nat
    BY TermTypes
  <2>3. /\ From(i)[t] = Paid(t, i) + Lines(allocs[t], i) + Lines(creditApps[t], i)
        /\ From(i)'[t] = Paid(t, i)' + Lines(allocs[t], i) + Lines(creditApps[t], i)
    BY <1>2 DEF From, Lines
  <2> QED BY <1>1, <2>1, <2>2, <2>3
<1>7. \A x \in Charges \ {t} : From(i)'[x] = From(i)[x]
  BY <1>2, <1>5 DEF From, Paid, Txns, Lines
<1>8. Back(i)' = Back(i) /\ ReversedOn(i)' = ReversedOn(i)
  <2>1. \A r \in Reversals : GivenBack(r, i)' = GivenBack(r, i)
    <3>1. \A r \in Reversals : r \in Txns \ {t}
      BY SettlementAssumption DEF Txns
    <3> QED BY <1>2, <1>5, <3>1 DEF GivenBack
  <2> QED BY <1>2, <2>1 DEF Back, ReversedOn
<1>9. Received(i)' = Received(i) + d
  <2>1. d \in Int
    BY <1>1
  <2> HIDE DEF d
  <2> QED BY <1>6, <1>7, <1>8, <2>1, ChargePays
<1>10. /\ invoice'[i].balance = invoice[i].balance - d
       /\ invoice[i].status # "voided"
  <2>1. invoice[i].balance \in Nat
    BY DEF TablesOK, InvoiceRow
  <2>2. CASE i = n
    BY <1>1, <1>2, <2>1, <2>2 DEF TablesOK, RestoredRow
  <2>3. CASE i # n
    BY <1>2, <1>4, <2>1, <2>3 DEF TablesOK
  <2> QED BY <2>2, <2>3
<1>11. invoice[i].balance = InvAmount[i] - Received(i)
  BY <1>10 DEF BalanceIsUnreceived
<1>12. d \in Int
  BY <1>1
<1> HIDE DEF d
<1> QED BY <1>9, <1>10, <1>11, <1>12, BalanceFollows

LEMMA ReverseReturns ==
  ASSUME TablesOK, MoneyInv, BalanceIsUnreceived, NEW r \in Reversals, AtomicReverse(r),
         EffectiveReverseRestore(r) \in Nat,
         invoice[ReversedInvoice(r)].status # "voided"
  PROVE  BalanceIsUnreceived'
<1> DEFINE n == ReversedInvoice(r)
           amount == EffectiveReverseRestore(r)
<1>1. /\ n \in Invoices /\ applied[r] = None /\ None \notin Invoices
      /\ r \in Txns
  BY ReversedInvoiceType, InvoicesAssumption, SettlementAssumption DEF AtomicReverse, Txns
<1>2. /\ invoice' = [invoice EXCEPT ![n] = RestoredRow(n, invoice[n], amount)]
      /\ applied' = [applied EXCEPT ![r] = n]
      /\ restored' = [restored EXCEPT ![r] = amount]
      /\ UNCHANGED <<appliedAmount, allocs, reverseRows, creditApps>>
  BY DEF AtomicReverse, Reverse
<1>3. amount \in Nat
  OBVIOUS
<1> HIDE DEF n, amount
<1>4. SUFFICES ASSUME NEW i \in Invoices, invoice'[i].status # "voided"
               PROVE  invoice'[i].balance = InvAmount[i] - Received(i)'
  BY DEF BalanceIsUnreceived
<1> DEFINE e == IF i = n THEN amount ELSE 0
           f == Back(i)
           g == Back(i)'
<1>5. /\ \A x \in Txns \ {r} : applied'[x] = applied[x]
      /\ \A x \in Reversals \ {r} : restored'[x] = restored[x]
      /\ applied'[r] = n /\ restored'[r] = amount
  BY <1>1, <1>2 DEF TablesOK
<1>6. f[r] = 0 /\ g[r] = e /\ \A x \in Reversals \ {r} : g[x] = f[x]
  BY <1>1, <1>5 DEF Back, GivenBack, Txns
<1>7. From(i)' = From(i) /\ ReversedOn(i)' = ReversedOn(i)
  <2>1. \A t \in Charges : Paid(t, i)' = Paid(t, i)
    <3>1. \A t \in Charges : t \in Txns \ {r}
      BY SettlementAssumption DEF Txns
    <3> QED BY <1>2, <1>5, <3>1 DEF Paid
  <2> QED BY <1>2, <2>1 DEF From, ReversedOn, Lines
<1>8. SumFunctionOnSet(g, Reversals) = SumFunctionOnSet(f, Reversals) + e
  <2>1. IntOn(f, Reversals) /\ e \in Int /\ SumFunctionOnSet(f, Reversals) \in Int
    BY <1>3, TermTypes
  <2> HIDE DEF e, f, g
  <2>2. IntOn(g, Reversals)
    BY <1>6, <2>1 DEF IntOn
  <2>3. SumFunctionOnSet(g, Reversals) = SumFunctionOnSet(f, Reversals) - f[r] + g[r]
    BY <1>6, <2>1, <2>2, FiniteTxns, SumChange
  <2> QED BY <1>6, <2>1, <2>3
<1>9. Received(i)' = Received(i) + (-e)
  <2>1. /\ SumFunctionOnSet(From(i), Charges) \in Int /\ SumFunctionOnSet(f, Reversals) \in Int
        /\ TotalOfSet(ReversedOn(i)) \in Int /\ e \in Int
    BY <1>3, TermTypes
  <2>2. /\ Received(i) = SumFunctionOnSet(From(i), Charges) - SumFunctionOnSet(f, Reversals)
                         - TotalOfSet(ReversedOn(i))
        /\ Received(i)' = SumFunctionOnSet(From(i), Charges) - SumFunctionOnSet(g, Reversals)
                          - TotalOfSet(ReversedOn(i))
    BY <1>7, ReceivedIs, ReceivedNext
  <2> HIDE DEF e, f, g
  <2> QED BY <1>8, <2>1, <2>2
<1>10. /\ invoice'[i].balance = invoice[i].balance - (-e)
       /\ invoice[i].status # "voided"
  <2>1. invoice[i].balance \in Nat
    BY DEF TablesOK, InvoiceRow
  <2>2. CASE i = n
    BY <1>1, <1>2, <1>3, <2>1, <2>2 DEF TablesOK, RestoredRow, n
  <2>3. CASE i # n
    BY <1>2, <1>4, <2>1, <2>3 DEF TablesOK
  <2> QED BY <2>2, <2>3
<1>11. invoice[i].balance = InvAmount[i] - Received(i)
  BY <1>10 DEF BalanceIsUnreceived
<1> DEFINE d == -e
<1>12. d \in Int /\ Received(i)' = Received(i) + d /\ invoice'[i].balance = invoice[i].balance - d
  BY <1>3, <1>9, <1>10
<1> HIDE DEF d
<1> QED BY <1>11, <1>12, BalanceFollows

(* Rows that pay the invoices of a request, whichever column they go to.   *)
LEMMA LinesPay ==
  ASSUME TablesOK, MoneyInv, BalanceIsUnreceived, NEW c \in Charges,
         NEW lines \in LineSeqs, DistinctInvoices(lines), NEW customer,
         AllAccept(lines, customer, invoice), PayLines(lines, invoice),
         UNCHANGED <<applied, appliedAmount, reverseRows, restored>>,
         \/ allocs' = [allocs EXCEPT ![c] = @ \o lines] /\ UNCHANGED creditApps
         \/ creditApps' = [creditApps EXCEPT ![c] = @ \o lines] /\ UNCHANGED allocs
  PROVE  BalanceIsUnreceived'
<1> SUFFICES ASSUME NEW i \in Invoices, invoice'[i].status # "voided"
             PROVE  invoice'[i].balance = InvAmount[i] - Received(i)'
  BY DEF BalanceIsUnreceived
<1> DEFINE d == Lines(lines, i)
<1>1. /\ d = (IF i \in InvoicesOf(lines) THEN AmountFor(lines, i) ELSE 0) /\ d \in Nat
  BY SeqRowsOK, LinesIs, LinesOfDistinct
<1>2. /\ invoice'[i].balance = invoice[i].balance - d
      /\ invoice[i].status # "voided"
  <2>1. invoice[i].balance \in Nat
    BY DEF TablesOK, InvoiceRow
  <2>2. CASE i \in InvoicesOf(lines)
    <3>1. invoice'[i] = PaidRow(invoice[i], AmountFor(lines, i)) /\ invoice[i].status # "voided"
      BY <2>2 DEF PayLines, AllAccept, Accepts
    <3>2. d = AmountFor(lines, i)
      BY <1>1, <2>2
    <3> QED BY <3>1, <3>2 DEF PaidRow
  <2>3. CASE i \notin InvoicesOf(lines)
    <3>1. invoice'[i] = invoice[i] /\ d = 0
      BY <1>1, <2>3 DEF PayLines
    <3> QED BY <2>1, <3>1
  <2> QED BY <2>2, <2>3
<1>3. /\ allocs \in [Charges -> LineSeqs] /\ creditApps \in [Charges -> LineSeqs]
      /\ allocs[c] \in LineSeqs /\ creditApps[c] \in LineSeqs
  BY DEF TablesOK
<1>4. From(i)'[c] = From(i)[c] + d
  <2>1. Paid(c, i) \in Nat /\ Lines(allocs[c], i) \in Nat /\ Lines(creditApps[c], i) \in Nat
    BY TermTypes
  <2>2. /\ From(i)[c] = Paid(c, i) + Lines(allocs[c], i) + Lines(creditApps[c], i)
        /\ From(i)'[c] = Paid(c, i) + Lines(allocs'[c], i) + Lines(creditApps'[c], i)
    BY DEF From, Lines, Paid
  <2>3. CASE allocs' = [allocs EXCEPT ![c] = @ \o lines] /\ UNCHANGED creditApps
    <3>1. Lines(allocs'[c], i) = Lines(allocs[c], i) + d
      BY <1>3, <2>3, LinesJoined
    <3>2. Lines(creditApps'[c], i) = Lines(creditApps[c], i)
      BY <2>3
    <3> QED BY <1>1, <2>1, <2>2, <3>1, <3>2
  <2>4. CASE creditApps' = [creditApps EXCEPT ![c] = @ \o lines] /\ UNCHANGED allocs
    <3>1. Lines(creditApps'[c], i) = Lines(creditApps[c], i) + d
      BY <1>3, <2>4, LinesJoined
    <3>2. Lines(allocs'[c], i) = Lines(allocs[c], i)
      BY <2>4
    <3> QED BY <1>1, <2>1, <2>2, <3>1, <3>2
  <2> QED BY <2>3, <2>4
<1>5. \A t \in Charges \ {c} : From(i)'[t] = From(i)[t]
  <2>1. \A t \in Charges \ {c} : allocs'[t] = allocs[t] /\ creditApps'[t] = creditApps[t]
    BY <1>3
  <2> QED BY <2>1 DEF From, Lines, Paid
<1>6. Back(i)' = Back(i) /\ ReversedOn(i)' = ReversedOn(i)
  BY DEF Back, GivenBack, ReversedOn
<1>7. d \in Int
  BY <1>1
<1> HIDE DEF d
<1>8. Received(i)' = Received(i) + d
  BY <1>4, <1>5, <1>6, <1>7, ChargePays
<1>9. invoice[i].balance = InvAmount[i] - Received(i)
  BY <1>2 DEF BalanceIsUnreceived
<1> QED BY <1>2, <1>7, <1>8, <1>9, BalanceFollows

LEMMA PlanReturns ==
  ASSUME TablesOK, MoneyInv, BalanceIsUnreceived, NEW r \in Reversals, NEW c \in Charges,
         AtomicReverseAllocations(r, c)
  PROVE  BalanceIsUnreceived'
<1> SUFFICES ASSUME NEW i \in Invoices, invoice'[i].status # "voided"
             PROVE  invoice'[i].balance = InvAmount[i] - Received(i)'
  BY DEF BalanceIsUnreceived
<1> DEFINE plan == PlanFor(r, c)
           K == DOMAIN plan
           N == NewRows(r, c, plan)
           S == ReversedOn(i)
           U == {row \in N : row.invoice = i}
           V == S \cup U
           f == [row \in V |-> row.amount]
           h == [row \in N |-> IF row.invoice = i THEN row.amount ELSE 0]
           d == Lines(plan, i)
<1>1. /\ OriginalCheck(r, c) /\ ReverseAllocations(r, c, plan, invoice)
      /\ ReverseRowsOf(r) = {} /\ CanReverseAllocations(plan, invoice)
  BY DEF AtomicReverseAllocations
<1>2. /\ RowsOK(plan) /\ IsFiniteSet(K) /\ DOMAIN plan \subseteq DOMAIN allocs[c]
      /\ \A k \in K : plan[k].invoice = allocs[c][k].invoice
  BY <1>1, PlanFacts DEF MoneyInv, RowsOK
<1>3. DistinctInvoices(plan)
  <2>1. DistinctInvoices(allocs[c])
    BY DEF MoneyInv
  <2> HIDE DEF plan
  <2> QED BY <1>2, <2>1 DEF DistinctInvoices
<1>4. /\ reverseRows' = reverseRows \cup N
      /\ UNCHANGED <<allocs, creditApps, applied, appliedAmount, restored>>
      /\ invoice' = [n \in Invoices |-> IF n \in InvoicesOf(plan)
                                        THEN RestoredRow(n, invoice[n], AmountFor(plan, n))
                                        ELSE invoice[n]]
  BY <1>1, ReverseAllocationsWrites DEF ReverseAllocations
<1>5. /\ ReversedOn(i)' = V /\ S \cap U = {}
      /\ \A row \in N : row.rev = r /\ row.amount \in Nat
  <2>1. \A row \in N : row.rev = r /\ row.amount \in Nat
    BY <1>2 DEF NewRows, NewRow, RowsOK
  <2>2. \A row \in S : row \in reverseRows /\ row.rev # r
    BY <1>1 DEF ReversedOn, ReverseRowsOf
  <2>3. ReversedOn(i)' = V
    BY <1>4 DEF ReversedOn
  <2> HIDE DEF N, S
  <2> QED BY <2>1, <2>2, <2>3
<1>6. IsFiniteSet(S) /\ \A row \in S : row.amount \in Nat
  <2>1. S \subseteq reverseRows
    BY DEF ReversedOn
  <2> QED BY <2>1, FS_Subset DEF MoneyInv, RowsInv, TablesOK
<1>7. d = (IF i \in InvoicesOf(plan) THEN AmountFor(plan, i) ELSE 0) /\ d \in Nat
  BY <1>2, <1>3, LinesIs, LinesOfDistinct
<1>8. IsFiniteSet(N) /\ SumFunctionOnSet(h, N) = d
  <2> DEFINE g == LineTerms(plan, i)
  <2>1. IntOn(g, K) /\ d = SumFunctionOnSet(g, K)
    BY <1>2, LinesIs
  <2>2. \A k \in K : h[NewRow(r, c, plan, k)] = g[k]
    <3>1. \A k \in K : /\ NewRow(r, c, plan, k) \in N
                       /\ NewRow(r, c, plan, k).invoice = plan[k].invoice
                       /\ NewRow(r, c, plan, k).amount = plan[k].amount
      BY DEF NewRows, NewRow
    <3> HIDE DEF N, plan
    <3> QED BY <3>1 DEF LineTerms
  <2> HIDE DEF g, h, d, plan, K
  <2>3. IsFiniteSet(N) /\ SumFunctionOnSet(h, N) = SumFunctionOnSet(g, K)
    BY <1>2, <2>1, <2>2, NewRowsSum DEF K
  <2> QED BY <2>1, <2>3
<1>9. /\ IsFiniteSet(U) /\ IsFiniteSet(V) /\ U \in SUBSET N
      /\ IntOn(f, S) /\ IntOn(f, U) /\ IntOn(f, V) /\ IntOn(h, U) /\ IntOn(h, N)
      /\ \A row \in U : h[row] = f[row]
      /\ \A row \in N \ U : h[row] = 0
      /\ \A row \in V : f[row] = row.amount
  <2>1. IsFiniteSet(U) /\ U \in SUBSET N
    BY <1>8, FS_Subset
  <2>2. IsFiniteSet(V)
    BY <1>6, <2>1, FS_Union
  <2> HIDE DEF N, S
  <2>3. IntOn(f, S) /\ IntOn(f, U) /\ IntOn(f, V) /\ IntOn(h, U) /\ IntOn(h, N)
    BY <1>5, <1>6 DEF IntOn
  <2> QED BY <2>1, <2>2, <2>3
<1>10. V = S \cup U
  OBVIOUS
<1> HIDE DEF f, h, U, V, S, N
<1>11. SumFunctionOnSet(h, N) = SumFunctionOnSet(f, U)
  <2>1. SumFunctionOnSet(h, N) = SumFunctionOnSet(h, U)
    BY <1>8, <1>9, SumSupport
  <2>2. SumFunctionOnSet(h, U) = SumFunctionOnSet(f, U)
    BY <1>9, SumSame
  <2> QED BY <2>1, <2>2
<1>12. SumFunctionOnSet(f, V) = SumFunctionOnSet(f, S) + SumFunctionOnSet(f, U)
  BY <1>5, <1>6, <1>9, <1>10, SumUnion
<1>13. TotalOfSet(V) = SumFunctionOnSet(f, V) /\ TotalOfSet(S) = SumFunctionOnSet(f, S)
  <2>1. TotalOfSet(V) = SumFunctionOnSet(f, V)
    BY <1>9, TotalOfSetIs
  <2>2. \A row \in S : f[row] = row.amount
    BY <1>9, <1>10
  <2>3. TotalOfSet(S) = SumFunctionOnSet(f, S)
    BY <1>6, <1>9, <2>2, TotalOfSetIs
  <2> QED BY <2>1, <2>3
<1>14. TotalOfSet(ReversedOn(i)') = TotalOfSet(ReversedOn(i)) + d
  <2>1. SumFunctionOnSet(f, U) = d
    BY <1>8, <1>11
  <2> QED BY <1>5, <1>12, <1>13, <2>1 DEF S
<1>15. From(i)' = From(i) /\ Back(i)' = Back(i)
  BY <1>4 DEF From, Back, Paid, GivenBack, Lines
<1>16. Received(i)' = Received(i) + (-d)
  <2>1. /\ SumFunctionOnSet(From(i), Charges) \in Int /\ SumFunctionOnSet(Back(i), Reversals) \in Int
        /\ TotalOfSet(ReversedOn(i)) \in Int
    BY TermTypes
  <2>2. /\ Received(i) = SumFunctionOnSet(From(i), Charges)
                         - SumFunctionOnSet(Back(i), Reversals) - TotalOfSet(ReversedOn(i))
        /\ Received(i)' = SumFunctionOnSet(From(i), Charges)
                          - SumFunctionOnSet(Back(i), Reversals) - TotalOfSet(ReversedOn(i)')
    BY <1>15, ReceivedIs, ReceivedNext
  <2> HIDE DEF d
  <2> QED BY <1>7, <1>14, <2>1, <2>2
<1>17. invoice'[i].balance = invoice[i].balance - (-d) /\ invoice[i].status # "voided"
  <2>1. invoice[i].balance \in Nat
    BY DEF TablesOK, InvoiceRow
  <2> HIDE DEF plan
  <2>2. CASE i \in InvoicesOf(plan)
    <3>1. invoice'[i] = RestoredRow(i, invoice[i], AmountFor(plan, i))
          /\ invoice[i].status # "voided"
      BY <1>1, <1>4, <2>2 DEF CanReverseAllocations
    <3>2. d = AmountFor(plan, i)
      BY <1>7, <2>2
    <3> HIDE DEF d
    <3> QED BY <1>7, <2>1, <3>1, <3>2 DEF RestoredRow
  <2>3. CASE i \notin InvoicesOf(plan)
    BY <1>4, <1>7, <2>1, <2>3
  <2> QED BY <2>2, <2>3
<1>18. invoice[i].balance = InvAmount[i] - Received(i)
  BY <1>17 DEF BalanceIsUnreceived
<1> DEFINE e == -d
<1>19. e \in Int /\ Received(i)' = Received(i) + e /\ invoice'[i].balance = invoice[i].balance - e
  BY <1>7, <1>16, <1>17
<1> HIDE DEF e
<1> QED BY <1>18, <1>19, BalanceFollows

LEMMA VoidKeepsBalances ==
  ASSUME TablesOK, BalanceIsUnreceived, NEW n \in Invoices, AtomicVoid(n)
  PROVE  BalanceIsUnreceived'
<1>1. /\ invoice' = [invoice EXCEPT ![n] = VoidedInvoice]
      /\ UNCHANGED <<applied, appliedAmount, allocs, reverseRows, creditApps, restored>>
  BY DEF AtomicVoid, Void
<1>2. \A i \in Invoices : Received(i)' = Received(i)
  BY <1>1 DEF Received, Paid, Lines, GivenBack
<1>3. \A i \in Invoices : invoice'[i].status # "voided" => invoice'[i] = invoice[i]
  BY <1>1 DEF TablesOK, VoidedInvoice
<1> QED BY <1>2, <1>3 DEF BalanceIsUnreceived

LEMMA MoneyInvStays ==
  ASSUME TablesOK, TablesOK', MoneyInv, [AtomicNext]_tables
  PROVE  MoneyInv'
<1>1. RowsInv'
  BY RowsStay DEF MoneyInv
<1>2. \A t \in Charges : DistinctInvoices(allocs'[t])
  <2>0. allocs \in [Charges -> LineSeqs]
    BY DEF TablesOK
  <2>1. ASSUME NEW t \in Charges, NEW lines \in LineChoices, AtomicAllocate(t, lines)
        PROVE  \A x \in Charges : DistinctInvoices(allocs'[x])
    <3>1. /\ allocs' = [allocs EXCEPT ![t] = @ \o lines] /\ DistinctInvoices(lines)
          /\ InvoicesOf(allocs[t]) \cap InvoicesOf(lines) = {}
      BY <2>1 DEF AtomicAllocate, Allocate, CanAllocate
    <3>2. allocs[t] \in LineSeqs /\ lines \in LineSeqs /\ DistinctInvoices(allocs[t])
      BY <2>0, LinesAreSeq DEF MoneyInv
    <3>3. DistinctInvoices(allocs[t] \o lines)
      <4> DEFINE rows == allocs[t]
                 both == rows \o lines
                 m == Len(rows)
                 n == Len(lines)
      <4>1. /\ DOMAIN both = 1..(m + n) /\ m \in Nat /\ n \in Nat
            /\ DOMAIN rows = 1..m /\ DOMAIN lines = 1..n
            /\ \A k \in 1..m : both[k] = rows[k]
            /\ \A k \in 1..n : both[m + k] = lines[k]
        BY <3>2, SeqShape, SeqsJoined
      <4> HIDE DEF both, m, n, rows
      <4>2. ASSUME NEW k \in 1..(m + n)
            PROVE  \/ k \in DOMAIN rows /\ both[k] = rows[k]
                   \/ k - m \in DOMAIN lines /\ both[k] = lines[k - m]
        <5>1. k \in 1..m \/ (k - m \in 1..n /\ k = m + (k - m))
          BY <4>1
        <5> QED BY <4>1, <5>1
      <4>3. ASSUME NEW k \in 1..(m + n), NEW l \in 1..(m + n), both[k].invoice = both[l].invoice
            PROVE  k = l
        <5>1. CASE k \in DOMAIN rows /\ both[k] = rows[k] /\ l \in DOMAIN rows /\ both[l] = rows[l]
          BY <3>2, <4>3, <5>1 DEF DistinctInvoices, rows
        <5>2. CASE k - m \in DOMAIN lines /\ both[k] = lines[k - m]
                   /\ l - m \in DOMAIN lines /\ both[l] = lines[l - m]
          <6>1. k - m = l - m
            BY <3>1, <4>3, <5>2 DEF DistinctInvoices
          <6> QED BY <4>1, <6>1
        <5>3. CASE k \in DOMAIN rows /\ both[k] = rows[k]
                   /\ l - m \in DOMAIN lines /\ both[l] = lines[l - m]
          BY <3>1, <4>3, <5>3 DEF InvoicesOf, rows
        <5>4. CASE k - m \in DOMAIN lines /\ both[k] = lines[k - m]
                   /\ l \in DOMAIN rows /\ both[l] = rows[l]
          BY <3>1, <4>3, <5>4 DEF InvoicesOf, rows
        <5> QED BY <4>2, <5>1, <5>2, <5>3, <5>4
      <4> QED BY <4>1, <4>3 DEF DistinctInvoices, both, rows
    <3> QED BY <2>0, <3>1, <3>3 DEF MoneyInv
  <2>2. CASE allocs' = allocs
    BY <2>2 DEF MoneyInv
  <2>3. ASSUME NEW t \in Charges, AtomicApply(t) \/ AtomicUnapply(t) PROVE allocs' = allocs
    BY <2>3 DEF AtomicApply, ApplyCharge, AtomicUnapply, Unapply
  <2>4. ASSUME NEW r \in Reversals, AtomicReverse(r) PROVE allocs' = allocs
    BY <2>4 DEF AtomicReverse, Reverse
  <2>5. ASSUME NEW r \in Reversals, NEW c \in Charges, AtomicReverseAllocations(r, c)
        PROVE  allocs' = allocs
    BY <2>5 DEF AtomicReverseAllocations, ReverseAllocations
  <2>6. ASSUME NEW t \in Charges, NEW lines \in LineChoices, AtomicUseCredit(t, lines)
        PROVE  allocs' = allocs
    BY <2>6 DEF AtomicUseCredit, UseCredit
  <2>7. ASSUME NEW i \in Invoices, AtomicVoid(i) PROVE allocs' = allocs
    BY <2>7 DEF AtomicVoid, Void
  <2>8. CASE UNCHANGED tables
    BY <2>2, <2>8 DEF tables
  <2> QED BY <2>1, <2>2, <2>3, <2>4, <2>5, <2>6, <2>7, <2>8 DEF AtomicNext
<1>3. \A t \in Charges : applied'[t] # None => appliedAmount'[t] \in Nat
  <2>0. /\ applied \in [Txns -> Invoices \cup {None}] /\ appliedAmount \in [Txns -> Nat \cup {None}]
        /\ None \notin Nat /\ \A t \in Charges : t \in Txns /\ t \notin Reversals
    BY SettlementAssumption DEF TablesOK, Txns
  <2>1. ASSUME NEW t \in Charges, AtomicApply(t)
        PROVE  \A x \in Charges : applied'[x] # None => appliedAmount'[x] \in Nat
    <3> DEFINE amount == Applied(t, invoice[InvoiceOf(t)])
    <3>1. /\ applied' = [applied EXCEPT ![t] = InvoiceOf(t)]
          /\ appliedAmount' = [appliedAmount EXCEPT ![t] = amount]
      BY <2>1 DEF AtomicApply, ApplyCharge
    <3>2. amount \in Nat
      <4>1. InvoiceOf(t) \in Invoices /\ TxnAmount[t] \in Nat
        BY <2>0, <2>1, SettlementAssumption DEF AtomicApply, InvoiceOf
      <4> QED BY <4>1 DEF Applied, TablesOK, InvoiceRow
    <3> HIDE DEF amount
    <3> QED BY <2>0, <3>1, <3>2 DEF MoneyInv
  <2>2. ASSUME NEW t \in Charges, AtomicUnapply(t)
        PROVE  \A x \in Charges : applied'[x] # None => appliedAmount'[x] \in Nat
    <3>1. /\ applied' = [applied EXCEPT ![t] = None]
          /\ appliedAmount' = [appliedAmount EXCEPT ![t] = None]
      BY <2>2 DEF AtomicUnapply, Unapply
    <3> QED BY <2>0, <3>1 DEF MoneyInv
  <2>3. ASSUME NEW r \in Reversals, AtomicReverse(r)
        PROVE  \A x \in Charges : applied'[x] # None => appliedAmount'[x] \in Nat
    <3>1. /\ applied' = [applied EXCEPT ![r] = ReversedInvoice(r)]
          /\ appliedAmount' = appliedAmount
      BY <2>3 DEF AtomicReverse, Reverse
    <3> QED BY <2>0, <3>1 DEF MoneyInv
  <2>4. CASE applied' = applied /\ appliedAmount' = appliedAmount
    BY <2>4 DEF MoneyInv
  <2>5. ASSUME NEW r \in Reversals, NEW c \in Charges, AtomicReverseAllocations(r, c)
        PROVE  applied' = applied /\ appliedAmount' = appliedAmount
    BY <2>5 DEF AtomicReverseAllocations, ReverseAllocations
  <2>6. ASSUME NEW t \in Charges, NEW lines \in LineChoices,
               AtomicAllocate(t, lines) \/ AtomicUseCredit(t, lines)
        PROVE  applied' = applied /\ appliedAmount' = appliedAmount
    BY <2>6 DEF AtomicAllocate, Allocate, AtomicUseCredit, UseCredit
  <2>7. ASSUME NEW i \in Invoices, AtomicVoid(i)
        PROVE  applied' = applied /\ appliedAmount' = appliedAmount
    BY <2>7 DEF AtomicVoid, Void
  <2>8. CASE UNCHANGED tables
    BY <2>4, <2>8 DEF tables
  <2> QED BY <2>1, <2>2, <2>3, <2>4, <2>5, <2>6, <2>7, <2>8 DEF AtomicNext
<1> QED BY <1>1, <1>2, <1>3 DEF MoneyInv

-----------------------------------------------------------------------------
(* The services in use, and the step each commit takes.                    *)

OpsInv == \A p \in Procs : job[p].op \in Ops \cup {"none"}

LEMMA OpsStay ==
  ASSUME TypeOK, OpsInv, [Next]_vars
  PROVE  OpsInv'
<1>1. \A j : \A p, q \in Procs : job' = [job EXCEPT ![p] = j] =>
                               job'[q] = IF q = p THEN j ELSE job[q]
  BY DEF TypeOK
<1>2. ASSUME NEW p \in Procs, NEW j, job' = [job EXCEPT ![p] = j], j.op \in Ops \cup {"none"}
      PROVE  OpsInv'
  BY <1>1, <1>2 DEF OpsInv
<1>3. ASSUME NEW p \in Procs, NEW op, NEW stage, NEW src, NEW lines,
             Start(p, op, stage, src, lines)
      PROVE  OpsInv'
  BY <1>2, <1>3 DEF Start
<1>4. ASSUME NEW p \in Procs, Begin(p) PROVE OpsInv'
  BY <1>3, <1>4 DEF Begin, BeginApply, BeginUnapply, BeginReverse, BeginReverseAllocations,
                    BeginAllocate, BeginCreditApply, BeginCreditAllocate, BeginVoid
<1>5. ASSUME NEW p \in Procs, End(p) PROVE OpsInv'
  BY <1>2, <1>5, IdleOK DEF End
<1>6. ASSUME NEW p \in Procs, NEW stage, job' = [job EXCEPT ![p].stage = stage] PROVE OpsInv'
  <2>1. \A q \in Procs : job'[q].op = job[q].op
    <3>1. \A q \in Procs : q # p => job'[q] = job[q]
      BY <1>6 DEF TypeOK
    <3>2. job'[p].op = job[p].op
      <4>1. job[p] = [op |-> job[p].op, stage |-> job[p].stage, src |-> job[p].src,
                      orig |-> job[p].orig, lines |-> job[p].lines]
        BY DEF TypeOK, JobOK
      <4>2. job'[p] = [job[p] EXCEPT !.stage = stage]
        BY <1>6 DEF TypeOK
      <4> QED BY <4>1, <4>2
    <3> QED BY <3>1, <3>2
  <2> QED BY <2>1 DEF OpsInv
<1>7. ASSUME NEW p \in Procs, LockSource(p) PROVE OpsInv'
  <2>1. CASE job[p].op = "reverseAllocations"
    <3> DEFINE k == [job[p] EXCEPT !.stage = "original",
                                   !.orig  = ResolveOriginalForAllocations(job[p].src)]
    <3>1. job' = [job EXCEPT ![p] = k]
      BY <1>7, <2>1 DEF LockSource
    <3>2. k.op = job[p].op
      BY DEF TypeOK, JobOK
    <3> HIDE DEF k
    <3> QED BY <1>2, <3>1, <3>2 DEF OpsInv
  <2>2. CASE job[p].op # "reverseAllocations"
    <3> DEFINE k == [job[p] EXCEPT !.stage = "invoices"]
    <3>1. job' = [job EXCEPT ![p] = k]
      BY <1>7, <2>2 DEF LockSource
    <3>2. k.op = job[p].op
      BY DEF TypeOK, JobOK
    <3> HIDE DEF k
    <3> QED BY <1>2, <3>1, <3>2 DEF OpsInv
  <2> QED BY <2>1, <2>2
<1>8. ASSUME NEW p \in Procs, LockOriginal(p) PROVE OpsInv'
  <2> DEFINE plan == PlanFor(job[p].src, job[p].orig)
             k == [op |-> job[p].op, stage |-> IF DOMAIN plan = {} THEN "commit" ELSE "invoices",
                   src |-> job[p].src, orig |-> job[p].orig, lines |-> plan]
  <2>1. job' = [job EXCEPT ![p] = k]
    BY <1>8 DEF LockOriginal
  <2>2. k.op = job[p].op
    OBVIOUS
  <2> HIDE DEF k
  <2> QED BY <1>2, <2>1, <2>2 DEF OpsInv
<1>9. ASSUME NEW p \in Procs, LockInvoice(p) \/ LockForUpdate(p) PROVE OpsInv'
  <2>1. PICK stage : job' = [job EXCEPT ![p].stage = stage]
    BY <1>9 DEF LockInvoice, LockForUpdate
  <2> QED BY <1>6, <2>1
<1>10. ASSUME NEW p \in Procs, Commit(p) PROVE OpsInv'
  <2>1. End(p)
    BY <1>10 DEF Commit, ApplyPaymentTransactionToInvoice, ApplyReversalToInvoice,
         UnapplyPaymentTransaction, AllocatePaymentToMultipleInvoices,
         ApplyReverseAllocations, ApplyCustomerCredit, VoidInvoice, Committing
  <2> QED BY <1>5, <2>1
<1>11. ASSUME NEW p \in Procs, Refuse(p) \/ Crash(p) PROVE OpsInv'
  BY <1>5, <1>11 DEF Refuse, Crash
<1>12. CASE UNCHANGED vars
  BY <1>12 DEF vars, OpsInv
<1> QED BY <1>4, <1>7, <1>8, <1>9, <1>10, <1>11, <1>12 DEF Next, Proceed

(* A step of some request in use, as the step of its service alone.        *)
ServiceStep(p) ==
  LET j == job[p]
  IN \/ j.op = "apply" /\ j.src \in Charges /\ AtomicApply(j.src)
     \/ j.op = "reverse" /\ j.src \in Reversals /\ AtomicReverse(j.src)
     \/ /\ j.op = "unapply" /\ j.src \in Charges /\ AtomicUnapply(j.src)
        /\ j.lines[1].invoice \in Invoices
        /\ Unapply(j.src, j.lines[1].invoice, j.lines[1].amount, invoice)
     \/ /\ j.op = "allocate" /\ j.src \in Charges /\ j.lines \in LineChoices
        /\ AtomicAllocate(j.src, j.lines)
     \/ /\ j.op = "reverseAllocations" /\ j.src \in Reversals /\ j.orig \in Charges
        /\ AtomicReverseAllocations(j.src, j.orig)
     \/ /\ j.op \in {"creditApply", "creditAllocate"} /\ j.src \in Charges
        /\ j.lines \in LineChoices /\ AtomicUseCredit(j.src, j.lines)
     \/ j.op = "void" /\ j.lines[1].invoice \in Invoices /\ AtomicVoid(j.lines[1].invoice)

LEMMA CommitIsService ==
  ASSUME IInv, NEW p \in Procs, Commit(p)
  PROVE  ServiceStep(p) /\ job[p].stage = "commit"
<1>1. job[p].stage = "commit"
  BY DEF Commit, ApplyPaymentTransactionToInvoice, ApplyReversalToInvoice,
         UnapplyPaymentTransaction, AllocatePaymentToMultipleInvoices,
         ApplyReverseAllocations, ApplyCustomerCredit, VoidInvoice, Committing
<1>2. CASE UnapplyPaymentTransaction(p)
  <2>1. job[p].op = "unapply" /\ job[p].src \in Charges /\ AtomicUnapply(job[p].src)
    BY <1>2, UnapplyIsAtomic
  <2>2. /\ Committing(p, "unapply")
        /\ Unapply(job[p].src, job[p].lines[1].invoice, job[p].lines[1].amount, seen[p])
    BY <1>2 DEF UnapplyPaymentTransaction
  <2>3. job[p].lines[1].invoice \in Invoices
        /\ seen[p][job[p].lines[1].invoice] = invoice[job[p].lines[1].invoice]
    BY <2>2, OneLineFinds
  <2>4. Unapply(job[p].src, job[p].lines[1].invoice, job[p].lines[1].amount, invoice)
    BY <2>2, <2>3 DEF Unapply
  <2> QED BY <1>1, <2>1, <2>3, <2>4 DEF ServiceStep
<1>3. CASE ApplyPaymentTransactionToInvoice(p) \/ ApplyReversalToInvoice(p)
           \/ AllocatePaymentToMultipleInvoices(p)
  BY <1>1, <1>3, ApplyIsAtomic, ReverseIsAtomic, AllocateIsAtomic DEF ServiceStep
<1>4. CASE ApplyReverseAllocations(p) \/ ApplyCustomerCredit(p) \/ VoidInvoice(p)
  BY <1>1, <1>4, ReverseAllocationsIsAtomic, UseCreditIsAtomic, VoidIsAtomic DEF ServiceStep
<1> QED BY <1>2, <1>3, <1>4 DEF Commit

-----------------------------------------------------------------------------
(* What a validation made before the transaction says, where the commit    *)
(* does not ask again: the invoice is not voided and an unapply gives back *)
(* what its charge paid.                                                   *)
StillOpen(p) ==
  LET j == job[p]
  IN /\ j.op = "apply" => invoice[InvoiceOf(j.src)].status # "voided"
     /\ j.op = "reverse" => invoice[ReversedInvoice(j.src)].status # "voided"
     /\ j.op = "unapply" => /\ applied[j.src] = j.lines[1].invoice
                            /\ appliedAmount[j.src] = j.lines[1].amount
                            /\ invoice[j.lines[1].invoice].status # "voided"

Fresh(p) == StillOpen(p) /\ (job[p].op = "apply" => allocs[job[p].src] = <<>>)

LEMMA ServiceKeepsBalances ==
  ASSUME IInv, MoneyInv, BalanceIsUnreceived, NEW p \in Procs, ServiceStep(p), StillOpen(p)
  PROVE  BalanceIsUnreceived'
<1> DEFINE j == job[p]
<1>0. TypeOK /\ TablesOK
  BY DEF IInv, TypeOK
<1>1. CASE j.op = "apply"
  BY <1>0, <1>1, ApplyPays DEF ServiceStep, StillOpen
<1>2. CASE j.op = "reverse"
  <2>1. EffectiveReverseRestore(j.src) \in Nat
    BY <1>0, <1>2, RestoreType DEF ServiceStep
  <2> QED BY <1>0, <1>2, <2>1, ReverseReturns DEF ServiceStep, StillOpen
<1>3. CASE j.op = "unapply"
  BY <1>0, <1>3, UnapplyReturns DEF ServiceStep, StillOpen
<1>4. CASE j.op = "allocate"
  <2>1. /\ j.src \in Charges /\ j.lines \in LineSeqs /\ DistinctInvoices(j.lines)
        /\ CanAllocate(j.src, j.lines, invoice) /\ Allocate(j.src, j.lines, invoice)
    BY <1>4, LinesAreSeq DEF ServiceStep, AtomicAllocate
  <2> HIDE DEF j
  <2> QED BY <1>0, <2>1, LinesPay DEF CanAllocate, Allocate
<1>5. CASE j.op = "reverseAllocations"
  BY <1>0, <1>5, PlanReturns DEF ServiceStep
<1>6. CASE j.op \in {"creditApply", "creditAllocate"}
  <2>1. /\ j.src \in Charges /\ j.lines \in LineSeqs
        /\ Len(j.lines) = 1 \/ DistinctInvoices(j.lines)
        /\ CanUseCredit(j.src, j.lines, invoice) /\ UseCredit(j.src, j.lines, invoice)
    BY <1>6, LinesAreSeq DEF ServiceStep, AtomicUseCredit
  <2> HIDE DEF j
  <2>2. DistinctInvoices(j.lines)
    <3>1. ASSUME Len(j.lines) = 1 PROVE DOMAIN j.lines = {1}
      BY <2>1, <3>1, SeqShape
    <3> QED BY <2>1, <3>1 DEF DistinctInvoices
  <2> QED BY <1>0, <2>1, <2>2, LinesPay DEF CanUseCredit, UseCredit
<1>7. CASE j.op = "void"
  BY <1>0, <1>7, VoidKeepsBalances DEF ServiceStep
<1> QED BY <1>1, <1>2, <1>3, <1>4, <1>5, <1>6, <1>7 DEF ServiceStep

LEMMA ServiceKeepsVoided ==
  ASSUME TablesOK, NEW p \in Procs, ServiceStep(p), StillOpen(p),
         NEW i \in Invoices, invoice[i].status = "voided"
  PROVE  invoice'[i].status = "voided"
<1> DEFINE j == job[p]
<1>1. \A n, row : n # i /\ invoice' = [invoice EXCEPT ![n] = row] => invoice'[i] = invoice[i]
  BY DEF TablesOK
<1>2. CASE j.op = "apply"
  <2> DEFINE n == InvoiceOf(j.src)
             row == PaidRow(invoice[n], Applied(j.src, invoice[n]))
  <2>1. invoice' = [invoice EXCEPT ![n] = row] /\ invoice[n].status # "voided"
    BY <1>2 DEF ServiceStep, StillOpen, AtomicApply, ApplyCharge
  <2> HIDE DEF n, row
  <2> QED BY <1>1, <2>1
<1>3. CASE j.op = "reverse"
  <2> DEFINE n == ReversedInvoice(j.src)
             row == RestoredRow(n, invoice[n], EffectiveReverseRestore(j.src))
  <2>1. invoice' = [invoice EXCEPT ![n] = row] /\ invoice[n].status # "voided"
    BY <1>3 DEF ServiceStep, StillOpen, AtomicReverse, Reverse
  <2> HIDE DEF n, row
  <2> QED BY <1>1, <2>1
<1>4. CASE j.op = "unapply"
  <2> DEFINE n == j.lines[1].invoice
             row == RestoredRow(n, invoice[n], j.lines[1].amount)
  <2>1. invoice' = [invoice EXCEPT ![n] = row] /\ invoice[n].status # "voided"
    BY <1>4 DEF ServiceStep, StillOpen, Unapply
  <2> HIDE DEF n, row
  <2> QED BY <1>1, <2>1
<1>5. CASE j.op \in {"allocate", "creditApply", "creditAllocate"}
  <2>1. PICK customer : AllAccept(j.lines, customer, invoice) /\ PayLines(j.lines, invoice)
    BY <1>5 DEF ServiceStep, AtomicAllocate, CanAllocate, Allocate,
                AtomicUseCredit, CanUseCredit, UseCredit
  <2>2. i \notin InvoicesOf(j.lines)
    BY <2>1 DEF AllAccept, Accepts
  <2> QED BY <2>1, <2>2 DEF PayLines
<1>6. CASE j.op = "reverseAllocations"
  <2> DEFINE plan == PlanFor(j.src, j.orig)
  <2>1. CanReverseAllocations(plan, invoice) /\ ReverseAllocations(j.src, j.orig, plan, invoice)
    BY <1>6 DEF ServiceStep, AtomicReverseAllocations
  <2> HIDE DEF plan
  <2>2. i \notin InvoicesOf(plan)
    BY <2>1 DEF CanReverseAllocations
  <2> QED BY <2>1, <2>2 DEF ReverseAllocations
<1>7. CASE j.op = "void"
  <2> DEFINE n == j.lines[1].invoice
  <2>1. invoice' = [invoice EXCEPT ![n] = VoidedInvoice] /\ CanVoid(n, invoice[n])
    BY <1>7 DEF ServiceStep, AtomicVoid, Void
  <2>2. invoice[n].status # "voided"
    BY <2>1 DEF CanVoid
  <2> HIDE DEF n
  <2> QED BY <1>1, <2>1, <2>2
<1> QED BY <1>2, <1>3, <1>4, <1>5, <1>6, <1>7 DEF ServiceStep

(* One request at a time.                                                  *)
OneAtATime == \A p, q \in Procs : p = q

LEMMA FreshStays ==
  ASSUME IInv, MoneyInv, NEW p \in Procs, Fresh(p), [Next]_vars, OneAtATime
  PROVE  Fresh(p)'
<1>0. /\ JobOK(job[p]) /\ JobShape(job[p])
      /\ \A j : job' = [job EXCEPT ![p] = j] => job'[p] = j
  BY DEF IInv, TypeOK, SettlementInv, Keeps
<1>1. ASSUME End(p) PROVE Fresh(p)'
  <2>1. job'[p].op = "none"
    BY <1>0, <1>1, IdleOK DEF End
  <2> QED BY <2>1 DEF Fresh, StillOpen
<1>2. ASSUME UNCHANGED tables, job'[p].op = job[p].op, job'[p].src = job[p].src,
             job[p].op # "reverseAllocations" => job'[p].lines = job[p].lines
      PROVE  Fresh(p)'
  BY <1>2 DEF tables, Fresh, StillOpen, InvoiceOf, ReversedInvoice
<1>3. ASSUME Begin(p) PROVE Fresh(p)'
  <2>0. ASSUME NEW op, NEW stage, NEW src, NEW lines, Start(p, op, stage, src, lines)
        PROVE  /\ UNCHANGED tables /\ job'[p].op = op /\ job'[p].src = src
               /\ job'[p].lines = lines
    <3> DEFINE k == [op |-> op, stage |-> stage, src |-> src, orig |-> None, lines |-> lines]
    <3>1. UNCHANGED tables /\ job' = [job EXCEPT ![p] = k]
      BY <2>0 DEF Start
    <3>2. k.op = op /\ k.src = src /\ k.lines = lines
      OBVIOUS
    <3> HIDE DEF k
    <3>3. job'[p] = k
      BY <1>0, <3>1
    <3> QED BY <3>1, <3>2, <3>3
  <2>1. ASSUME NEW t \in Charges, BeginApply(p, t) PROVE Fresh(p)'
    <3>1. /\ job'[p].op = "apply" /\ job'[p].src = t /\ UNCHANGED tables
          /\ allocs[t] = <<>> /\ invoice[InvoiceOf(t)].status # "voided"
      BY <2>0, <2>1 DEF BeginApply
    <3> QED BY <3>1 DEF Fresh, StillOpen, tables, InvoiceOf
  <2>2. ASSUME NEW t \in Charges, BeginUnapply(p, t) PROVE Fresh(p)'
    <3> DEFINE i == applied[t]
               lines == One(i, EffectiveApplyAmount(t))
    <3>1. /\ job'[p].op = "unapply" /\ job'[p].src = t /\ job'[p].lines = lines
          /\ UNCHANGED tables /\ i # None /\ invoice[i].status # "voided"
      BY <2>0, <2>2 DEF BeginUnapply
    <3>2. lines[1].invoice = i /\ lines[1].amount = EffectiveApplyAmount(t)
      BY DEF One
    <3>3. EffectiveApplyAmount(t) = appliedAmount[t]
      <4>1. appliedAmount[t] \in Nat
        BY <3>1 DEF MoneyInv
      <4> QED BY <4>1, SettlementAssumption DEF EffectiveApplyAmount
    <3> HIDE DEF lines
    <3> QED BY <3>1, <3>2, <3>3 DEF Fresh, StillOpen, tables
  <2>3. ASSUME NEW r \in Reversals, BeginReverse(p, r) PROVE Fresh(p)'
    <3>1. /\ job'[p].op = "reverse" /\ job'[p].src = r /\ UNCHANGED tables
          /\ invoice[ReversedInvoice(r)].status # "voided"
      BY <2>0, <2>3 DEF BeginReverse
    <3> QED BY <3>1 DEF Fresh, StillOpen, tables, ReversedInvoice, InvoiceOf
  <2>4. ASSUME job'[p].op \notin {"apply", "unapply", "reverse"} PROVE Fresh(p)'
    BY <2>4 DEF Fresh, StillOpen
  <2>5. ASSUME NEW r \in Reversals, BeginReverseAllocations(p, r) PROVE Fresh(p)'
    BY <2>0, <2>4, <2>5 DEF BeginReverseAllocations
  <2>6. ASSUME NEW t \in Charges, NEW lines \in LineChoices,
               BeginAllocate(p, t, lines) \/ BeginCreditApply(p, t, lines)
               \/ BeginCreditAllocate(p, t, lines)
        PROVE  Fresh(p)'
    BY <2>0, <2>4, <2>6 DEF BeginAllocate, BeginCreditApply, BeginCreditAllocate
  <2>7. ASSUME NEW i \in Invoices, BeginVoid(p, i) PROVE Fresh(p)'
    BY <2>0, <2>4, <2>7 DEF BeginVoid
  <2> QED BY <1>3, <2>1, <2>2, <2>3, <2>5, <2>6, <2>7 DEF Begin
<1>4. ASSUME NEW stage, job' = [job EXCEPT ![p].stage = stage], UNCHANGED tables
      PROVE  Fresh(p)'
  <2>1. job'[p] = [job[p] EXCEPT !.stage = stage]
    BY <1>4 DEF IInv, TypeOK
  <2>2. job[p] = [op |-> job[p].op, stage |-> job[p].stage, src |-> job[p].src,
                  orig |-> job[p].orig, lines |-> job[p].lines]
    BY <1>0 DEF JobOK
  <2>3. job'[p].op = job[p].op /\ job'[p].src = job[p].src /\ job'[p].lines = job[p].lines
    BY <2>1, <2>2
  <2> QED BY <1>2, <1>4, <2>3
<1>5. ASSUME LockSource(p) PROVE Fresh(p)'
  <2>1. CASE job[p].op = "reverseAllocations"
    <3>1. job'[p] = [job[p] EXCEPT !.stage = "original",
                                   !.orig  = ResolveOriginalForAllocations(job[p].src)]
      BY <1>0, <1>5, <2>1 DEF LockSource
    <3>2. job'[p].op = job[p].op
      BY <1>0, <3>1 DEF JobOK
    <3> QED BY <2>1, <3>2 DEF Fresh, StillOpen
  <2>2. CASE job[p].op # "reverseAllocations"
    <3>1. job' = [job EXCEPT ![p] = [job[p] EXCEPT !.stage = "invoices"]] /\ UNCHANGED tables
      BY <1>5, <2>2 DEF LockSource
    <3>2. job'[p] = [job[p] EXCEPT !.stage = "invoices"]
      BY <1>0, <3>1
    <3>3. job'[p].op = job[p].op /\ job'[p].src = job[p].src /\ job'[p].lines = job[p].lines
      BY <1>0, <3>2 DEF JobOK
    <3> QED BY <1>2, <3>1, <3>3
  <2> QED BY <2>1, <2>2
<1>6. ASSUME LockOriginal(p) PROVE Fresh(p)'
  <2>1. job[p].op = "reverseAllocations"
    BY <1>0, <1>6 DEF LockOriginal, JobShape
  <2>2. job'[p].op = job[p].op
    BY <1>0, <1>6 DEF LockOriginal
  <2> QED BY <2>1, <2>2 DEF Fresh, StillOpen
<1>7. ASSUME LockInvoice(p) \/ LockForUpdate(p) PROVE Fresh(p)'
  <2>1. PICK stage : job' = [job EXCEPT ![p].stage = stage]
    BY <1>7 DEF LockInvoice, LockForUpdate
  <2>2. UNCHANGED tables
    BY <1>7 DEF LockInvoice, LockForUpdate
  <2> QED BY <1>4, <2>1, <2>2
<1>8. ASSUME Commit(p) PROVE Fresh(p)'
  <2>1. End(p)
    BY <1>8 DEF Commit, ApplyPaymentTransactionToInvoice, ApplyReversalToInvoice,
         UnapplyPaymentTransaction, AllocatePaymentToMultipleInvoices,
         ApplyReverseAllocations, ApplyCustomerCredit, VoidInvoice, Committing
  <2> QED BY <1>1, <2>1
<1>9. ASSUME Refuse(p) \/ Crash(p) PROVE Fresh(p)'
  BY <1>1, <1>9 DEF Refuse, Crash
<1>10. CASE UNCHANGED vars
  BY <1>2, <1>10 DEF vars, tables
<1>11. CASE Next
  <2>1. PICK q \in Procs : Begin(q) \/ Proceed(q) \/ Crash(q)
    BY <1>11 DEF Next
  <2>2. q = p
    BY DEF OneAtATime
  <2> QED BY <1>3, <1>5, <1>6, <1>7, <1>8, <1>9, <2>1, <2>2 DEF Proceed
<1> QED BY <1>10, <1>11

LEMMA OneRequestStaysFresh ==
  ASSUME IInv, MoneyInv, [Next]_vars, OneAtATime, \A p \in Procs : Fresh(p)
  PROVE  (\A p \in Procs : Fresh(p))'
BY FreshStays

-----------------------------------------------------------------------------
(* The books of every set of requests.                                     *)

NoneVoided == \A i \in Invoices : invoice[i].status # "voided"

PathUnused == /\ "apply" \notin Ops => \A t \in Charges : applied[t] = None
              /\ "allocate" \notin Ops => \A t \in Charges : allocs[t] = <<>>

SettleInv ==
  /\ IInv /\ MoneyInv /\ OpsInv /\ PathUnused
  /\ "void" \notin Ops => NoneVoided
  /\ OneAtATime => \A p \in Procs : Fresh(p)

LEMMA NextIsService ==
  ASSUME IInv, OpsInv, [Next]_vars
  PROVE  \/ UNCHANGED tables
         \/ \E p \in Procs : ServiceStep(p) /\ job[p].op \in Ops
<1>1. CASE UNCHANGED vars
  BY <1>1 DEF vars, tables
<1>2. ASSUME NEW p \in Procs, Begin(p) \/ Proceed(p) \/ Crash(p)
      PROVE  UNCHANGED tables \/ (ServiceStep(p) /\ job[p].op \in Ops)
  <2>1. CASE Begin(p)
    BY <2>1 DEF Begin, BeginApply, BeginUnapply, BeginReverse, BeginReverseAllocations,
                BeginAllocate, BeginCreditApply, BeginCreditAllocate, BeginVoid, Start
  <2>2. CASE LockSource(p) \/ LockOriginal(p) \/ LockInvoice(p) \/ LockForUpdate(p)
    BY <2>2 DEF LockSource, LockOriginal, LockInvoice, LockForUpdate
  <2>3. CASE Commit(p)
    <3>1. ServiceStep(p)
      BY <2>3, CommitIsService
    <3>2. job[p].op # "none"
      BY <3>1 DEF ServiceStep
    <3> QED BY <3>1, <3>2 DEF OpsInv
  <2>4. CASE Refuse(p) \/ Crash(p)
    BY <2>4 DEF Refuse, Crash
  <2> QED BY <1>2, <2>1, <2>2, <2>3, <2>4 DEF Proceed
<1> QED BY <1>1, <1>2 DEF Next

LEMMA NoneVoidedStays ==
  ASSUME TablesOK, NoneVoided, NEW p \in Procs, ServiceStep(p), job[p].op # "void"
  PROVE  NoneVoided'
<1> DEFINE j == job[p]
<1>0. /\ \A n, row : /\ invoice' = [invoice EXCEPT ![n] = row]
                     /\ n \in Invoices => row.status # "voided"
                     => NoneVoided'
      /\ \A amount : \A i \in Invoices : /\ PaidRow(invoice[i], amount).status # "voided"
                                     /\ RestoredRow(i, invoice[i], amount).status # "voided"
  BY DEF TablesOK, NoneVoided, PaidRow, RestoredRow
<1>1. CASE j.op = "apply"
  <2> DEFINE n == InvoiceOf(j.src)
             amount == Applied(j.src, invoice[n])
             row == PaidRow(invoice[n], amount)
  <2>1. invoice' = [invoice EXCEPT ![n] = row]
    BY <1>1 DEF ServiceStep, AtomicApply, ApplyCharge
  <2> HIDE DEF n, amount
  <2>2. n \in Invoices => row.status # "voided"
    BY <1>0
  <2> HIDE DEF row
  <2> QED BY <1>0, <2>1, <2>2
<1>2. CASE j.op = "reverse"
  <2> DEFINE n == ReversedInvoice(j.src)
             amount == EffectiveReverseRestore(j.src)
             row == RestoredRow(n, invoice[n], amount)
  <2>1. invoice' = [invoice EXCEPT ![n] = row]
    BY <1>2 DEF ServiceStep, AtomicReverse, Reverse
  <2> HIDE DEF n, amount
  <2>2. n \in Invoices => row.status # "voided"
    BY <1>0
  <2> HIDE DEF row
  <2> QED BY <1>0, <2>1, <2>2
<1>3. CASE j.op = "unapply"
  <2> DEFINE n == j.lines[1].invoice
             amount == j.lines[1].amount
             row == RestoredRow(n, invoice[n], amount)
  <2>1. invoice' = [invoice EXCEPT ![n] = row]
    BY <1>3 DEF ServiceStep, Unapply
  <2> HIDE DEF n, amount
  <2>2. n \in Invoices => row.status # "voided"
    BY <1>0
  <2> HIDE DEF row
  <2> QED BY <1>0, <2>1, <2>2
<1>4. CASE j.op \in {"allocate", "creditApply", "creditAllocate"}
  <2>1. AtomicAllocate(j.src, j.lines) \/ AtomicUseCredit(j.src, j.lines)
    BY <1>4 DEF ServiceStep
  <2>2. PayLines(j.lines, invoice)
    BY <2>1 DEF AtomicAllocate, Allocate, AtomicUseCredit, UseCredit
  <2> QED BY <1>0, <2>2 DEF PayLines, NoneVoided
<1>5. CASE j.op = "reverseAllocations"
  <2> DEFINE plan == PlanFor(j.src, j.orig)
  <2>1. ReverseAllocations(j.src, j.orig, plan, invoice)
    BY <1>5 DEF ServiceStep, AtomicReverseAllocations
  <2> HIDE DEF plan
  <2> QED BY <1>0, <2>1 DEF ReverseAllocations, NoneVoided
<1> QED BY <1>1, <1>2, <1>3, <1>4, <1>5 DEF ServiceStep

(* What each service leaves of a charge's use.                             *)
LEMMA ServiceSpends ==
  ASSUME TablesOK, NEW p \in Procs, ServiceStep(p), NEW t \in Charges
  PROVE  /\ (job[p].op # "apply" \/ job[p].src # t)
              => (job[p].op = "unapply" \/ applied'[t] = applied[t])
         /\ (job[p].op # "allocate" \/ job[p].src # t) => allocs'[t] = allocs[t]
<1> DEFINE j == job[p]
<1>0. /\ applied \in [Txns -> Invoices \cup {None}] /\ allocs \in [Charges -> LineSeqs]
      /\ t \in Txns /\ t \notin Reversals
  BY SettlementAssumption DEF TablesOK, Txns
<1>1. CASE j.op = "apply"
  BY <1>0, <1>1 DEF ServiceStep, AtomicApply, ApplyCharge
<1>2. CASE j.op = "reverse"
  <2>1. j.src \in Reversals /\ Reverse(j.src, invoice)
    BY <1>2 DEF ServiceStep, AtomicReverse
  <2> QED BY <1>0, <1>2, <2>1 DEF Reverse
<1>3. CASE j.op = "unapply"
  BY <1>0, <1>3 DEF ServiceStep, Unapply
<1>4. CASE j.op = "allocate"
  <2>1. j.src \in Charges /\ Allocate(j.src, j.lines, invoice)
    BY <1>4 DEF ServiceStep, AtomicAllocate
  <2> DEFINE rows == allocs[j.src] \o j.lines
  <2>2. allocs' = [allocs EXCEPT ![j.src] = rows] /\ applied' = applied
    BY <2>1 DEF Allocate
  <2> HIDE DEF rows
  <2> QED BY <1>0, <1>4, <2>2
<1>5. CASE j.op \in {"creditApply", "creditAllocate"}
  BY <1>0, <1>5 DEF ServiceStep, AtomicUseCredit, UseCredit
<1>6. CASE j.op = "reverseAllocations"
  BY <1>0, <1>6 DEF ServiceStep, AtomicReverseAllocations, ReverseAllocations
<1>7. CASE j.op = "void"
  BY <1>0, <1>7 DEF ServiceStep, AtomicVoid, Void
<1> QED BY <1>1, <1>2, <1>3, <1>4, <1>5, <1>6, <1>7 DEF ServiceStep

LEMMA SettleInvStays ==
  ASSUME SettleInv, [Next]_vars
  PROVE  SettleInv'
<1>1. IInv' /\ OpsInv' /\ [AtomicNext]_tables
  BY NextInv, OpsStay, StepIsAtomic DEF SettleInv, IInv
<1>2. TypeOK /\ TablesOK /\ TablesOK'
  BY <1>1 DEF SettleInv, IInv, TypeOK
<1>3. MoneyInv'
  BY <1>1, <1>2, MoneyInvStays DEF SettleInv
<1>4. OneAtATime => (\A p \in Procs : Fresh(p))'
  BY OneRequestStaysFresh DEF SettleInv
<1>5. CASE UNCHANGED tables
  BY <1>1, <1>3, <1>4, <1>5 DEF SettleInv, tables, PathUnused, NoneVoided
<1>6. ASSUME NEW p \in Procs, ServiceStep(p), job[p].op \in Ops
      PROVE  SettleInv'
  <2>1. "void" \notin Ops => NoneVoided'
    BY <1>2, <1>6, NoneVoidedStays DEF SettleInv
  <2>2. PathUnused'
    <3>1. ASSUME "apply" \notin Ops, NEW t \in Charges PROVE applied'[t] = None
      <4>1. applied[t] = None
        BY <3>1 DEF SettleInv, PathUnused
      <4>2. CASE job[p].op # "unapply"
        BY <1>2, <1>6, <3>1, <4>1, <4>2, ServiceSpends
      <4>3. CASE job[p].op = "unapply"
        <5>1. applied' = [applied EXCEPT ![job[p].src] = None]
          BY <1>6, <4>3 DEF ServiceStep, Unapply
        <5> QED BY <1>2, <4>1, <5>1 DEF TablesOK
      <4> QED BY <4>2, <4>3
    <3>2. ASSUME "allocate" \notin Ops, NEW t \in Charges PROVE allocs'[t] = <<>>
      BY <1>2, <1>6, <3>2, ServiceSpends DEF SettleInv, PathUnused
    <3> QED BY <3>1, <3>2 DEF PathUnused
  <2> QED BY <1>1, <1>3, <1>4, <2>1, <2>2 DEF SettleInv
<1> QED BY <1>5, <1>6, NextIsService DEF SettleInv

(* Before the first request: nothing received, nothing spent.              *)
LEMMA InitSums ==
  ASSUME Init
  PROVE  /\ CreditConserved /\ ReversalsWithinAllocations
         /\ BalanceIsUnreceived /\ ChargeNotOverspent
<1>0. /\ TablesInit /\ TotalOfSet({}) = 0 /\ Total(<<>>) = 0
      /\ \A t \in Charges : t \in Txns
      /\ IsFiniteSet(Charges) /\ IsFiniteSet(Reversals) /\ IsFiniteSet({})
  <2>1. TotalOfSet({}) = 0
    <3> DEFINE f == [x \in {} |-> 0]
               R == {}
    <3>1. IsFiniteSet(R) /\ IntOn(f, R) /\ \A r \in R : f[r] = r.amount
      BY FS_EmptySet DEF IntOn
    <3> HIDE DEF f, R
    <3>2. TotalOfSet(R) = SumFunctionOnSet(f, R)
      BY <3>1, TotalOfSetIs
    <3>3. SumFunctionOnSet(f, {}) = 0
      BY SumEmpty
    <3> QED BY <3>2, <3>3 DEF R
  <2> QED BY <2>1, TotalOfNone, FiniteTxns, FS_EmptySet DEF Init, Txns
<1>1. CreditConserved
  BY <1>0 DEF TablesInit, CreditConserved, NoCredit
<1>2. ReversalsWithinAllocations
  <2>1. \A c \in Charges : ReverseRowsOfOrig(c) = {} /\ allocs[c] = <<>>
    BY <1>0 DEF TablesInit, ReverseRowsOfOrig
  <2>2. \A c \in Charges : TotalOfSet(ReverseRowsOfOrig(c)) = 0 /\ Total(allocs[c]) = 0
    BY <1>0, <2>1
  <2>3. \A c \in Charges : TotalOfSet(ReverseRowsOfOrig(c)) <= Total(allocs[c])
    BY <2>2, 0 <= 0, Zenon
  <2> QED BY <2>3 DEF ReversalsWithinAllocations
<1>3. BalanceIsUnreceived
  <2> SUFFICES ASSUME NEW i \in Invoices
               PROVE  invoice[i].balance = InvAmount[i] - Received(i)
    BY DEF BalanceIsUnreceived
  <2>1. invoice[i].balance = InvAmount[i] /\ InvAmount[i] \in Nat
    BY <1>0, InvoicesAssumption DEF TablesInit, NewInvoice
  <2>2. Lines(<<>>, i) = 0
    <3> DEFINE e == <<>>
               f == [k \in DOMAIN e |-> IF e[k].invoice = i THEN e[k].amount ELSE 0]
    <3>2. DOMAIN e = {} /\ DOMAIN f = DOMAIN e
      OBVIOUS
    <3>3. Lines(e, i) = SumFunction(f)
      BY DEF Lines
    <3> HIDE DEF f
    <3>4. SumFunction(f) = SumFunctionOnSet(f, {})
      BY <3>2, SumFunctionIs
    <3>5. SumFunctionOnSet(f, {}) = 0
      BY SumEmpty
    <3> QED BY <3>3, <3>4, <3>5
  <2>3. SumFunctionOnSet(From(i), Charges) = 0
    <3>1. \A t \in Charges : From(i)[t] = 0
      BY <1>0, <2>2, SettlementAssumption, InvoicesAssumption DEF TablesInit, From, Paid
    <3> QED BY <1>0, <3>1, SumZero
  <2>4. SumFunctionOnSet(Back(i), Reversals) = 0
    <3>1. \A r \in Reversals : Back(i)[r] = 0
      BY <1>0 DEF TablesInit, Back, GivenBack
    <3> QED BY <1>0, <3>1, SumZero
  <2>5. TotalOfSet(ReversedOn(i)) = 0
    <3>1. ReversedOn(i) = {}
      BY <1>0 DEF TablesInit, ReversedOn
    <3> QED BY <1>0, <3>1
  <2> QED BY <2>1, <2>3, <2>4, <2>5, ReceivedIs
<1>4. ChargeNotOverspent
  <2>1. \A t \in Charges : applied[t] = None /\ allocs[t] = <<>> /\ credit[t].original = 0
    BY <1>0 DEF TablesInit, NoCredit
  <2>2. \A t \in Charges : TxnAmount[t] \in Nat
    BY <1>0, SettlementAssumption
  <2> QED BY <1>0, <2>1, <2>2 DEF ChargeNotOverspent, SpentOf
<1> QED BY <1>1, <1>2, <1>3, <1>4

LEMMA InitSettle == ASSUME Init PROVE SettleInv
<1>1. IInv /\ TablesInit /\ \A p \in Procs : job[p] = Idle
  BY InitInv DEF Init
<1>2. MoneyInv
  BY <1>1, FS_EmptySet DEF TablesInit, MoneyInv, RowsInv, DistinctInvoices, Txns
<1>3. OpsInv /\ \A p \in Procs : Fresh(p)
  BY <1>1 DEF Idle, OpsInv, Fresh, StillOpen
<1>4. PathUnused /\ NoneVoided
  BY <1>1 DEF TablesInit, PathUnused, NoneVoided, NewInvoice, Txns
<1> QED BY <1>1, <1>2, <1>3, <1>4 DEF SettleInv

-----------------------------------------------------------------------------
(* An invoice's balance is what was not received, and voided is terminal:  *)
(* both wherever the status each service found is the status it writes on. *)
(* Apply and reverse read it before their transaction and do not ask again *)
(* under the lock, and unapply reads there what to give back, so the       *)
(* statements are of requests that run one at a time, or of concurrent     *)
(* requests without unapply and, with void among them, without those two.  *)

ReadsHold == \/ OneAtATime
             \/ /\ "unapply" \notin Ops
                /\ "void" \notin Ops \/ ("apply" \notin Ops /\ "reverse" \notin Ops)

LEMMA OpenAtCommit ==
  ASSUME SettleInv, ReadsHold, NEW p \in Procs, ServiceStep(p), job[p].op \in Ops
  PROVE  StillOpen(p)
<1> DEFINE j == job[p]
<1>1. CASE OneAtATime
  BY <1>1 DEF SettleInv, Fresh
<1>2. CASE "unapply" \notin Ops /\ "apply" \notin Ops /\ "reverse" \notin Ops
  BY <1>2 DEF StillOpen
<1>3. CASE "unapply" \notin Ops /\ "void" \notin Ops
  <2>1. NoneVoided
    BY <1>3 DEF SettleInv
  <2>2. CASE j.op = "apply"
    <3>1. InvoiceOf(j.src) \in Invoices
      BY <2>2, SettlementAssumption DEF ServiceStep, AtomicApply, InvoiceOf, Txns
    <3> QED BY <2>1, <2>2, <3>1 DEF StillOpen, NoneVoided
  <2>3. CASE j.op = "reverse"
    <3>1. ReversedInvoice(j.src) \in Invoices
      <4>1. j.src \in Reversals /\ ReversedInvoice(j.src) # None
        BY <2>3 DEF ServiceStep, AtomicReverse
      <4>2. \A t \in Txns : Request[t] # None => InvoiceOf(t) \in Invoices
        BY SettlementAssumption DEF InvoiceOf
      <4>3. j.src \in Txns /\ (Original[j.src] # None => Original[j.src] \in Txns)
        BY <4>1, SettlementAssumption DEF Txns
      <4> QED BY <4>1, <4>2, <4>3 DEF ReversedInvoice
    <3> QED BY <2>1, <2>3, <3>1 DEF StillOpen, NoneVoided
  <2> QED BY <1>3, <2>2, <2>3 DEF StillOpen
<1> QED BY <1>1, <1>2, <1>3 DEF ReadsHold

LEMMA BalancesStay ==
  ASSUME SettleInv, ReadsHold, BalanceIsUnreceived, [Next]_vars
  PROVE  BalanceIsUnreceived'
<1>1. CASE UNCHANGED tables
  <2>1. \A i \in Invoices : Received(i)' = Received(i)
    BY <1>1 DEF tables, Received, Paid, Lines, GivenBack
  <2> QED BY <1>1, <2>1 DEF tables, BalanceIsUnreceived
<1>2. ASSUME NEW p \in Procs, ServiceStep(p), job[p].op \in Ops
      PROVE  BalanceIsUnreceived'
  BY <1>2, OpenAtCommit, ServiceKeepsBalances DEF SettleInv
<1> QED BY <1>1, <1>2, NextIsService DEF SettleInv

LEMMA VoidedStays ==
  ASSUME SettleInv, ReadsHold, [Next]_vars
  PROVE  \A i \in Invoices : invoice[i].status = "voided" => invoice'[i].status = "voided"
<1>0. TablesOK
  BY DEF SettleInv, IInv, TypeOK
<1>1. CASE UNCHANGED tables
  BY <1>1 DEF tables
<1>2. ASSUME NEW p \in Procs, ServiceStep(p), job[p].op \in Ops
      PROVE  \A i \in Invoices : invoice[i].status = "voided" => invoice'[i].status = "voided"
  BY <1>0, <1>2, OpenAtCommit, ServiceKeepsVoided
<1> QED BY <1>1, <1>2, NextIsService DEF SettleInv

-----------------------------------------------------------------------------
(* The two ways to use a charge exclude each other where apply finds       *)
(* allocation rows that another request cannot add meanwhile: apply looks  *)
(* for them before its transaction only.                                   *)

PathsApart == OneAtATime \/ "apply" \notin Ops \/ "allocate" \notin Ops

LEMMA ApplyFindsNoRows ==
  ASSUME SettleInv, PathsApart, NEW p \in Procs, ServiceStep(p), job[p].op \in Ops,
         job[p].op = "apply"
  PROVE  allocs[job[p].src] = <<>>
BY DEF SettleInv, PathsApart, PathUnused, Fresh, ServiceStep

LEMMA PathsStayApart ==
  ASSUME SettleInv, PathsApart, ChargePathsExclusive, [Next]_vars
  PROVE  ChargePathsExclusive'
<1>0. TablesOK
  BY DEF SettleInv, IInv, TypeOK
<1>1. CASE UNCHANGED tables
  BY <1>1 DEF tables, ChargePathsExclusive
<1>2. ASSUME NEW p \in Procs, ServiceStep(p), job[p].op \in Ops
      PROVE  ChargePathsExclusive'
  <2> SUFFICES ASSUME NEW t \in Charges PROVE applied'[t] = None \/ allocs'[t] = <<>>
    BY DEF ChargePathsExclusive
  <2> DEFINE j == job[p]
  <2>1. applied[t] = None \/ allocs[t] = <<>>
    BY DEF ChargePathsExclusive
  <2>2. CASE j.op = "apply" /\ j.src = t
    BY <1>0, <1>2, <2>2, ServiceSpends, ApplyFindsNoRows
  <2>3. CASE j.op = "allocate" /\ j.src = t
    <3>1. applied[t] = None
      BY <1>2, <2>3 DEF ServiceStep, AtomicAllocate
    <3> QED BY <1>0, <1>2, <2>3, <3>1, ServiceSpends
  <2>4. CASE j.op = "unapply"
    <3>1. allocs'[t] = allocs[t]
      BY <1>0, <1>2, <2>4, ServiceSpends
    <3>2. applied' = [applied EXCEPT ![j.src] = None]
      BY <1>2, <2>4 DEF ServiceStep, Unapply
    <3>3. applied'[t] = applied[t] \/ applied'[t] = None
      BY <1>0, <3>2 DEF TablesOK, Txns
    <3> QED BY <2>1, <3>1, <3>3
  <2>5. CASE /\ j.op # "apply" \/ j.src # t
             /\ j.op # "allocate" \/ j.src # t
             /\ j.op # "unapply"
    BY <1>0, <1>2, <2>1, <2>5, ServiceSpends
  <2> QED BY <2>2, <2>3, <2>4, <2>5
<1> QED BY <1>1, <1>2, NextIsService DEF SettleInv

-----------------------------------------------------------------------------
(* A charge is spent once, without unapply: it leaves the credit of an     *)
(* overpaying charge in place and makes the charge whole again.            *)

SpendInv ==
  /\ ChargePathsExclusive /\ ChargeNotOverspent
  /\ \A t \in Charges : applied[t] = None => credit[t].original = 0

(* The spending of one charge changes by its own apply or allocation only. *)
LEMMA SpendStays ==
  ASSUME SettleInv, PathsApart, "unapply" \notin Ops, SpendInv, [Next]_vars
  PROVE  SpendInv'
<1>0. TablesOK
  BY DEF SettleInv, IInv, TypeOK
<1>1. ChargePathsExclusive'
  BY PathsStayApart DEF SpendInv
<1>2. CASE UNCHANGED tables
  BY <1>1, <1>2 DEF tables, SpendInv, ChargeNotOverspent, SpentOf
<1>3. ASSUME NEW p \in Procs, ServiceStep(p), job[p].op \in Ops
      PROVE  SpendInv'
  <2> SUFFICES ASSUME NEW t \in Charges
               PROVE  /\ SpentOf(t)' <= TxnAmount[t]
                      /\ applied'[t] = None => credit'[t].original = 0
    BY <1>1 DEF SpendInv, ChargeNotOverspent
  <2> DEFINE j == job[p]
  <2>0. /\ applied \in [Txns -> Invoices \cup {None}] /\ t \in Txns /\ t \notin Reversals
        /\ appliedAmount \in [Txns -> Nat \cup {None}]
        /\ credit \in [Charges -> [original : Nat, remaining : Nat]]
        /\ allocs \in [Charges -> LineSeqs]
        /\ TxnAmount[t] \in Nat /\ j.op # "unapply"
    BY <1>0, <1>3, SettlementAssumption DEF TablesOK, Txns
  <2>1. /\ SpentOf(t) <= TxnAmount[t]
        /\ applied[t] = None => credit[t].original = 0
    BY DEF SpendInv, ChargeNotOverspent
  <2>2. ASSUME applied'[t] = applied[t], appliedAmount'[t] = appliedAmount[t],
               allocs'[t] = allocs[t], credit'[t].original = credit[t].original
        PROVE  /\ SpentOf(t)' <= TxnAmount[t]
               /\ applied'[t] = None => credit'[t].original = 0
    BY <2>1, <2>2 DEF SpentOf
  <2>3. CASE j.op = "apply" /\ j.src = t
    <3> DEFINE n == InvoiceOf(t)
               paid == Applied(t, invoice[n])
               excess == Excess(t, invoice[n])
    <3>1. /\ applied[t] = None /\ n \in Invoices /\ credit[t].original = 0
          /\ applied' = [applied EXCEPT ![t] = n]
          /\ appliedAmount' = [appliedAmount EXCEPT ![t] = paid]
          /\ credit' = IF excess > 0
                       THEN [credit EXCEPT ![t] = [original |-> excess, remaining |-> excess]]
                       ELSE credit
          /\ allocs' = allocs
      BY <1>3, <2>0, <2>1, <2>3, SettlementAssumption
      DEF ServiceStep, AtomicApply, ApplyCharge, InvoiceOf
    <3>2. /\ paid \in Nat /\ excess \in Nat /\ paid + excess = TxnAmount[t] /\ n # None
      <4>0. /\ n \in Invoices /\ Invoices \subseteq Nat /\ None \notin Nat
            /\ invoice \in [Invoices -> InvoiceRow]
        BY <1>0, <3>1, SettlementAssumption, InvoicesAssumption DEF TablesOK
      <4>1. invoice[n].balance \in Nat /\ n # None
        <5> HIDE DEF n
        <5> QED BY <4>0 DEF InvoiceRow
      <4> HIDE DEF n
      <4> QED BY <2>0, <4>1 DEF Applied, Excess
    <3>3. Total(allocs'[t]) = 0
      BY <1>3, <2>3, <3>1, ApplyFindsNoRows, TotalOfNone
    <3> HIDE DEF n, paid, excess
    <3>4. credit'[t].original = excess
      BY <2>0, <3>1, <3>2
    <3>5. applied'[t] = n /\ appliedAmount'[t] = paid
      BY <2>0, <3>1
    <3>6. SpentOf(t)' = paid + 0 + excess
      BY <3>2, <3>3, <3>4, <3>5 DEF SpentOf
    <3> QED BY <2>0, <3>2, <3>5, <3>6
  <2>4. CASE j.op = "apply" /\ j.src # t
    <3>1. ApplyCharge(j.src, invoice) /\ j.src \in Charges
      BY <1>3, <2>4 DEF ServiceStep, AtomicApply
    <3>2. credit'[t] = credit[t]
      BY <2>0, <2>4, <3>1 DEF ApplyCharge
    <3> QED BY <2>0, <2>2, <2>4, <3>1, <3>2 DEF ApplyCharge
  <2>5. CASE j.op = "allocate" /\ j.src = t
    <3> DEFINE rows == allocs[t]
               both == rows \o j.lines
    <3>1. /\ applied[t] = None /\ FitsCharge(t, j.lines) /\ j.lines \in LineSeqs
          /\ allocs' = [allocs EXCEPT ![t] = both]
          /\ applied' = applied /\ credit' = credit
      BY <1>3, <2>5, LinesAreSeq DEF ServiceStep, AtomicAllocate, Allocate
    <3>2. rows \in LineSeqs
      BY <2>0
    <3>3. /\ Total(both) = Total(rows) + Total(j.lines)
          /\ Total(rows) \in Nat /\ Total(j.lines) \in Nat
      BY <3>1, <3>2, TotalJoined, SeqRowsOK, TotalNat
    <3>4. Total(j.lines) <= TxnAmount[t] - Total(rows)
      BY <3>1 DEF FitsCharge
    <3> HIDE DEF both, rows
    <3>5. allocs'[t] = both /\ applied'[t] = None /\ credit'[t].original = 0
      BY <2>0, <2>1, <3>1
    <3>6. SpentOf(t)' = 0 + Total(both) + 0
      BY <3>5 DEF SpentOf
    <3> QED BY <2>0, <3>3, <3>4, <3>5, <3>6
  <2>6. CASE j.op = "allocate" /\ j.src # t
    <3>1. allocs'[t] = allocs[t]
      BY <1>0, <1>3, <2>6, ServiceSpends
    <3>2. UNCHANGED <<applied, appliedAmount, credit>>
      BY <1>3, <2>6 DEF ServiceStep, AtomicAllocate, Allocate
    <3> QED BY <2>2, <3>1, <3>2
  <2>7. CASE j.op = "reverse"
    <3>1. j.src \in Reversals /\ Reverse(j.src, invoice)
      BY <1>3, <2>7 DEF ServiceStep, AtomicReverse
    <3>2. applied'[t] = applied[t]
      BY <2>0, <3>1 DEF Reverse
    <3> QED BY <2>2, <3>1, <3>2 DEF Reverse
  <2>8. CASE j.op \in {"creditApply", "creditAllocate"}
    <3>1. /\ credit' = [credit EXCEPT ![j.src].remaining = @ - Total(j.lines)]
          /\ UNCHANGED <<applied, appliedAmount, allocs>> /\ j.src \in Charges
      BY <1>3, <2>8 DEF ServiceStep, AtomicUseCredit, UseCredit
    <3>2. credit'[t].original = credit[t].original
      BY <2>0, <3>1
    <3> QED BY <2>2, <3>1, <3>2
  <2>9. CASE j.op = "reverseAllocations"
    BY <1>3, <2>2, <2>9 DEF ServiceStep, AtomicReverseAllocations, ReverseAllocations
  <2>10. CASE j.op = "void"
    BY <1>3, <2>2, <2>10 DEF ServiceStep, AtomicVoid, Void
  <2> QED BY <1>3, <2>0, <2>3, <2>4, <2>5, <2>6, <2>7, <2>8, <2>9, <2>10 DEF ServiceStep
<1> QED BY <1>2, <1>3, NextIsService DEF SettleInv

-----------------------------------------------------------------------------
(* Theorems.                                                               *)

(* A customer credit is worth its original amount: what is left of it and  *)
(* what was used add up, whatever requests use it at once.                 *)
THEOREM CreditsAreConserved == Spec => []CreditConserved
<1>1. Init => CreditConserved
  BY InitSums
<1>2. IInv /\ CreditConserved /\ [Next]_vars => CreditConserved'
  BY StepIsAtomic, CreditStays DEF IInv, TypeOK
<1> QED BY Invariance, <1>1, <1>2, PTL DEF Spec

(* Concurrent refunds and chargebacks of one split charge give back no     *)
(* more than it allocated.                                                 *)
THEOREM ReversalsAreWithinAllocations == Spec => []ReversalsWithinAllocations
<1>1. Init => RowsInv /\ ReversalsWithinAllocations
  BY InitSums, InitSettle DEF SettleInv, MoneyInv
<1>2. IInv /\ RowsInv /\ ReversalsWithinAllocations /\ [Next]_vars
        => (RowsInv /\ ReversalsWithinAllocations)'
  BY StepIsAtomic, RowsStay, ReversalsStayWithin DEF IInv, TypeOK
<1> QED BY Invariance, <1>1, <1>2, PTL DEF Spec

LEMMA SettleInvariance == Spec => []SettleInv
<1>1. Init => SettleInv
  BY InitSettle
<1>2. SettleInv /\ [Next]_vars => SettleInv'
  BY SettleInvStays
<1> QED BY <1>1, <1>2, PTL DEF Spec

(* An invoice's balance is its amount less what the records of payments,   *)
(* returns and reversals say it received.                                  *)
THEOREM BalancesAreUnreceived ==
  ASSUME ReadsHold
  PROVE  Spec => []BalanceIsUnreceived
<1>1. Init => BalanceIsUnreceived
  BY InitSums
<1>2. SettleInv /\ BalanceIsUnreceived /\ [Next]_vars => BalanceIsUnreceived'
  BY BalancesStay
<1> QED BY SettleInvariance, <1>1, <1>2, PTL DEF Spec

(* Nothing brings a voided invoice back.                                   *)
THEOREM VoidedInvoicesStayVoided ==
  ASSUME ReadsHold
  PROVE  Spec => VoidedIsFinal
<1>1. SettleInv /\ [Next]_vars =>
        [\A i \in Invoices : invoice[i].status = "voided" => invoice'[i].status = "voided"]_vars
  BY VoidedStays
<1> QED BY SettleInvariance, <1>1, PTL DEF Spec, VoidedIsFinal

(* A charge that paid an invoice as a whole has no allocations.            *)
THEOREM PathsAreExclusive ==
  ASSUME PathsApart
  PROVE  Spec => []ChargePathsExclusive
<1>1. Init => ChargePathsExclusive
  BY DEF Init, TablesInit, ChargePathsExclusive
<1>2. SettleInv /\ ChargePathsExclusive /\ [Next]_vars => ChargePathsExclusive'
  BY PathsStayApart
<1> QED BY SettleInvariance, <1>1, <1>2, PTL DEF Spec

(* The books of invoices, charges and credits agree while requests settle  *)
(* at once.                                                                *)
THEOREM BooksAgree ==
  ASSUME ReadsHold, PathsApart, "unapply" \notin Ops
  PROVE  Spec => []MoneyAddsUp
<1>1. Init => SpendInv
  <2>1. Init => \A t \in Charges : credit[t].original = 0
    BY DEF Init, TablesInit, NoCredit
  <2>2. Init => ChargePathsExclusive
    BY DEF Init, TablesInit, ChargePathsExclusive
  <2> QED BY <2>1, <2>2, InitSums DEF SpendInv
<1>2. SettleInv /\ SpendInv /\ [Next]_vars => SpendInv'
  BY SpendStays
<1>3. SpendInv /\ BalanceIsUnreceived /\ CreditConserved => MoneyAddsUp
  BY DEF SpendInv, MoneyAddsUp
<1>4. Spec => []SpendInv
  BY SettleInvariance, <1>1, <1>2, PTL DEF Spec
<1> QED BY BalancesAreUnreceived, CreditsAreConserved, <1>3, <1>4, PTL

-----------------------------------------------------------------------------
(* One charge and any series of reversals of it, one after the other       *)
(* (ReverseAllocation): it shares nothing with the requests above but the  *)
(* arithmetic.                                                             *)

(* The rows of the charge and of what was given back of it.                *)
SeriesInv ==
  /\ RowsOK(allocRows) /\ DOMAIN allocRows \subseteq Nat
  /\ ReverseRowsOK(allocRows, returnedRows)
  /\ reversals \in Seq(Int) /\ \A row \in returnedRows : row.rev \in 1..Len(reversals)
  /\ TotalOfSet(returnedRows) <= Total(allocRows)

LEMMA ReturnedTotal ==
  ASSUME NEW rows, NEW R, ReverseRowsOK(rows, R)
  PROVE  TotalOfSet(R) \in Nat
<1> DEFINE f == [r \in R |-> r.amount]
<1>1. IsFiniteSet(R) /\ NatOn(f, R) /\ IntOn(f, R) /\ \A r \in R : f[r] = r.amount
  BY DEF ReverseRowsOK, NatOn, IntOn
<1> HIDE DEF f
<1> QED BY <1>1, TotalOfSetIs, SumNat

LEMMA SeriesStarts ==
  ASSUME SeriesInit
  PROVE  SeriesInv
<1>1. PICK amounts \in Allocations :
        allocRows = [k \in DOMAIN amounts |-> [invoice |-> k, amount |-> amounts[k]]]
  BY DEF SeriesInit
<1>2. amounts \in Seq(Nat) /\ Len(amounts) \in Nat /\ DOMAIN amounts = 1..Len(amounts)
  BY <1>1, ReverseAllocationAssumption
<1>3. IsFiniteSet(DOMAIN amounts)
  BY <1>2, FS_Interval
<1>4. RowsOK(allocRows) /\ DOMAIN allocRows \subseteq Nat
  BY <1>1, <1>2, <1>3 DEF RowsOK
<1>5. returnedRows = {} /\ reversals = <<>>
  BY DEF SeriesInit
<1>6. TotalOfSet({}) = 0
  <2> DEFINE f == [r \in {} |-> r.amount]
  <2>1. TotalOfSet({}) = SumFunctionOnSet(f, {})
    BY TotalOfSetIs, FS_EmptySet DEF IntOn
  <2> QED BY <2>1, SumEmpty
<1>7. ReverseRowsOK(allocRows, {})
  BY FS_EmptySet DEF ReverseRowsOK
<1> QED BY <1>4, <1>5, <1>6, <1>7, TotalNat DEF SeriesInv

(* A reversal plans with the rows that stand, and adds what it planned.    *)
SeriesRow(n, plan, k) ==
  [rev |-> n, alloc |-> k, invoice |-> plan[k].invoice, amount |-> plan[k].amount]

SeriesRows(n, plan) == {SeriesRow(n, plan, k) : k \in DOMAIN plan}

LEMMA SeriesRowsSum ==
  ASSUME NEW R, IsFiniteSet(R), \A row \in R : row.amount \in Nat,
         NEW n, \A row \in R : row.rev # n, NEW plan, RowsOK(plan),
         NEW N, N = SeriesRows(n, plan)
  PROVE  IsFiniteSet(R \cup N) /\ TotalOfSet(R \cup N) = TotalOfSet(R) + Total(plan)
<1> DEFINE K == DOMAIN plan
           V == R \cup N
           f == [row \in V |-> row.amount]
           g == [k \in K |-> plan[k].amount]
           b == [k \in K |-> SeriesRow(n, plan, k)]
<1>1. IsFiniteSet(K) /\ IntOn(g, K) /\ \A k \in K : g[k] = plan[k].amount
  BY DEF RowsOK, IntOn
<1>2. b \in Bijection(K, N)
  <2>1. \A k \in K : b[k] \in N
    BY DEF SeriesRows
  <2>2. \A x, y \in K : b[x] = b[y] => x = y
    BY DEF SeriesRow
  <2>3. \A u \in N : \E x \in K : b[x] = u
    BY DEF SeriesRows
  <2>4. b \in [K -> N]
    BY <2>1
  <2> HIDE DEF b
  <2> QED BY <2>2, <2>3, <2>4 DEF Bijection, Injection, Surjection, IsInjective
<1>3. \A k \in K : f[b[k]] = g[k]
  BY DEF SeriesRow, SeriesRows
<1>4. \A row \in N : row.rev = n /\ row.amount \in Nat
  BY DEF SeriesRow, SeriesRows, RowsOK
<1>5. /\ IntOn(f, R) /\ IntOn(f, N) /\ IntOn(f, V) /\ R \cap N = {} /\ V = R \cup N
      /\ \A row \in V : f[row] = row.amount
  BY <1>4 DEF IntOn
<1> HIDE DEF b, f, g, V, K
<1>6. SumFunctionOnSet(f, N) = SumFunctionOnSet(g, K) /\ IsFiniteSet(N)
  BY <1>1, <1>2, <1>3, SumRenamed, FS_Bijection DEF ExistsBijection
<1>7. IsFiniteSet(V)
  BY <1>5, <1>6, FS_Union
<1>8. TotalOfSet(V) = SumFunctionOnSet(f, V) /\ TotalOfSet(R) = SumFunctionOnSet(f, R)
  BY <1>5, <1>7, TotalOfSetIs
<1>9. Total(plan) = SumFunctionOnSet(g, K)
  BY <1>1, TotalIs DEF K
<1>10. SumFunctionOnSet(f, V) = SumFunctionOnSet(f, R) + SumFunctionOnSet(f, N)
  BY <1>5, <1>6, SumUnion
<1> QED BY <1>6, <1>7, <1>8, <1>9, <1>10 DEF V

LEMMA SeriesReverses ==
  ASSUME SeriesInv, NEW amount \in Int, ReversePart(amount)
  PROVE  SeriesInv'
<1> DEFINE R == returnedRows
           lefts == RemainingAllocations(allocRows, R)
           effective == EffectiveReversal(amount, Total(allocRows))
           plan == ComputeReverseAllocationPlan(lefts, effective)
           n == Len(reversals) + 1
           N == SeriesRows(n, plan)
<1>1. ReversalPlan(allocRows, R, amount) = plan
  BY DEF ReversalPlan
<1>2. /\ ~SomeAllocationOverReversed(allocRows, R)
      /\ effective > 0 /\ effective <= Total(lefts)
  BY DEF ReversePart, Reversible
<1>3. /\ allocRows' = allocRows /\ reversals' = Append(reversals, effective)
      /\ R' = R \cup N
  BY <1>1 DEF ReversePart, SeriesRow, SeriesRows
<1>4. /\ RowsOK(allocRows) /\ ReverseRowsOK(allocRows, R) /\ Total(allocRows) \in Nat
      /\ DOMAIN allocRows \subseteq Nat /\ reversals \in Seq(Int)
      /\ \A row \in R : row.rev \in 1..Len(reversals)
  BY TotalNat DEF SeriesInv
<1>5. effective \in Int
  BY <1>4 DEF EffectiveReversal
<1> HIDE DEF effective
<1>6. /\ RowsOK(lefts) /\ DOMAIN lefts \subseteq DOMAIN allocRows
      /\ Total(lefts) = Total(allocRows) - TotalOfSet(R)
  BY <1>2, <1>4, RemainingTotal
<1>7. effective \in Nat \ {0} /\ DOMAIN lefts \subseteq Int
  BY <1>2, <1>4, <1>5, <1>6
<1> HIDE DEF lefts
<1>8. RowsOK(plan) /\ DOMAIN plan \subseteq DOMAIN lefts /\ Total(plan) <= Total(lefts)
  BY <1>2, <1>6, <1>7, PlanTotal
<1>9. \A row \in N : /\ row.alloc \in DOMAIN allocRows /\ row.amount \in Nat /\ row.rev = n
  BY <1>6, <1>8 DEF SeriesRow, SeriesRows, RowsOK
<1> HIDE DEF plan, N
<1>10. /\ reversals' \in Seq(Int) /\ Len(reversals') = Len(reversals) + 1 /\ Len(reversals) \in Nat
  BY <1>3, <1>4, <1>5
<1>11. \A row \in R : row.rev \in 1..Len(reversals)
  BY <1>4
<1>12. \A row \in R : row.rev # n
  BY <1>10, <1>11
<1>13. IsFiniteSet(R \cup N) /\ TotalOfSet(R \cup N) = TotalOfSet(R) + Total(plan)
  <2>1. IsFiniteSet(R) /\ \A row \in R : row.amount \in Nat
    BY <1>4 DEF ReverseRowsOK
  <2>2. N = SeriesRows(n, plan)
    BY DEF N
  <2> HIDE DEF R, n
  <2>3. RowsOK(plan) /\ \A row \in R : row.rev # n
    BY <1>8, <1>12
  <2> QED BY <2>1, <2>2, <2>3, SeriesRowsSum
<1>14. ReverseRowsOK(allocRows, R \cup N)
  BY <1>4, <1>9, <1>13 DEF ReverseRowsOK
<1>15. \A row \in R \cup N : row.rev \in 1..n
  BY <1>9, <1>10, <1>11
<1>16. TotalOfSet(R) \in Int
  BY <1>4, ReturnedTotal
<1>17. Total(plan) \in Nat /\ Total(lefts) \in Nat
  BY <1>6, <1>8, TotalNat
<1>18. TotalOfSet(R \cup N) <= Total(allocRows)
  BY <1>4, <1>6, <1>8, <1>13, <1>16, <1>17
<1> QED BY <1>3, <1>4, <1>10, <1>14, <1>15, <1>18 DEF SeriesInv

LEMMA SeriesInvariance == SeriesSpec => []SeriesInv
<1>1. SeriesInv /\ [SeriesNext]_seriesVars => SeriesInv'
  <2> SUFFICES ASSUME SeriesInv, [SeriesNext]_seriesVars PROVE SeriesInv'
    OBVIOUS
  <2>1. CASE SeriesNext
    BY <2>1, SeriesReverses, ReverseAllocationAssumption DEF SeriesNext
  <2>2. CASE UNCHANGED seriesVars
    BY <2>2 DEF seriesVars, SeriesInv
  <2> QED BY <2>1, <2>2
<1> QED BY <1>1, SeriesStarts, PTL DEF SeriesSpec

(* Whatever a charge was split into and however often parts of it are      *)
(* reversed, with whatever roundings, the invoices give back no more than  *)
(* they were given.                                                        *)
THEOREM SeriesStaysWithin == SeriesSpec => []NeverRestoresMoreThanAllocated
<1>1. SeriesInv => NeverRestoresMoreThanAllocated
  BY DEF SeriesInv, NeverRestoresMoreThanAllocated
<1> QED BY <1>1, SeriesInvariance, PTL

(* A reversal of all that is left, after any series of reversals, restores *)
(* each allocation to the cent.                                            *)
THEOREM FullReversalRestores == SeriesSpec => []FullReversalIsExact
<1>1. SeriesInv => FullReversalIsExact
  <2> SUFFICES ASSUME SeriesInv PROVE FullReversalIsExact
    OBVIOUS
  <2> DEFINE lefts == RemainingAllocations(allocRows, returnedRows)
             plan == ComputeReverseAllocationPlan(lefts, Total(lefts))
  <2>1. ASSUME DOMAIN lefts # {}, ~SomeAllocationOverReversed(allocRows, returnedRows)
        PROVE  DOMAIN plan = DOMAIN lefts /\ \A k \in DOMAIN lefts : plan[k].amount = lefts[k].amount
    <3>1. /\ RowsOK(lefts) /\ DOMAIN lefts \subseteq DOMAIN allocRows
          /\ \A k \in DOMAIN lefts : lefts[k].amount # 0
      BY <2>1, RemainingTotal DEF SeriesInv
    <3>2. DOMAIN lefts \subseteq Int
      BY <3>1 DEF SeriesInv
    <3> HIDE DEF lefts
    <3> QED BY <2>1, <3>1, <3>2, FullPlan
  <2> QED BY <2>1 DEF FullReversalIsExact
<1> QED BY <1>1, SeriesInvariance, PTL
=============================================================================
