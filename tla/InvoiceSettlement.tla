-------------------------- MODULE InvoiceSettlement --------------------------
(***************************************************************************)
(* Gateway payments against invoices: payment_application_service.go (one  *)
(* charge, one invoice), payment_allocation_service.go (one charge or one  *)
(* customer credit, many invoices), payment_reverse_allocation_service.go  *)
(* (refunds and chargebacks of the latter), customer_credit_service.go and *)
(* the balance side of invoice_void.go.                                    *)
(*                                                                         *)
(* A process is one request.  Each service validates outside the database  *)
(* transaction, then opens a READ COMMITTED transaction that locks rows    *)
(* with SELECT ... FOR UPDATE, re-checks part of what it validated, writes *)
(* and commits.  The steps of a process here are:                          *)
(*   Begin...     the validation outside the transaction has passed;       *)
(*   Lock...      one FOR UPDATE, with the re-check that follows it;       *)
(*   the commit   the last checks, every write, the release of the locks;  *)
(*   Refuse       a check inside the transaction failed: rollback;         *)
(*   Crash        the transaction is lost before its commit: rollback.     *)
(* Reads made between the last lock and the commit are part of the commit. *)
(***************************************************************************)
EXTENDS Settlement, FiniteSets

CONSTANTS
  Procs, \* concurrent requests
  Ops    \* the operations in use

OpNames == {"apply", "reverse", "unapply", "allocate", "reverseAllocations",
            "creditApply", "creditAllocate", "void", "crash"}

ASSUME RequestsAssumption == Ops \subseteq OpNames /\ None \notin Procs

VARIABLES
  lock, \* the process whose transaction holds each row, or None
  seen, \* the invoice rows each open transaction read under its lock
  job   \* what each process is doing

vars == <<invoice, applied, appliedAmount, allocs, reverseRows, credit,
          creditApps, paidRequests, restored, lock, seen, job>>

-----------------------------------------------------------------------------
Rows == ({"txn"} \X Txns) \cup ({"invoice"} \X Invoices) \cup ({"credit"} \X Charges)

Idle     == [op |-> "none", stage |-> "idle", src |-> None, orig |-> None, lines |-> <<>>]
NoneSeen == [i \in Invoices |-> None]

Init ==
  /\ TablesInit
  /\ lock = [r \in Rows |-> None]
  /\ seen = [p \in Procs |-> NoneSeen]
  /\ job = [p \in Procs |-> Idle]

-----------------------------------------------------------------------------
(* Validation before the transaction.                                      *)

Start(p, op, stage, src, lines) ==
  /\ op \in Ops
  /\ job[p] = Idle
  /\ job' = [job EXCEPT ![p] = [op |-> op, stage |-> stage, src |-> src,
                                orig |-> None, lines |-> lines]]
  /\ UNCHANGED <<tables, lock, seen>>

One(i, amount) == <<[invoice |-> i, amount |-> amount]>>

(* MUTANT of BeginApply: allocation rows are not looked for.               *)
BeginApplyDespiteAllocs(p, t) ==
  /\ applied[t] = None
  /\ Request[t] # None
  /\ invoice[InvoiceOf(t)].status \notin {"voided", "paid"}
  /\ Start(p, "apply", "source", t, One(InvoiceOf(t), TxnAmount[t]))

(* MUTANT of BeginApply: the invoice's status is not looked at.            *)
BeginApplyAnyStatus(p, t) ==
  /\ applied[t] = None
  /\ allocs[t] = <<>>
  /\ Request[t] # None
  /\ Start(p, "apply", "source", t, One(InvoiceOf(t), TxnAmount[t]))

BeginApply(p, t) ==
  /\ applied[t] = None
  /\ allocs[t] = <<>>
  /\ Request[t] # None
  /\ invoice[InvoiceOf(t)].status \notin {"voided", "paid"}
  /\ Start(p, "apply", "source", t, One(InvoiceOf(t), TxnAmount[t]))

BeginReverse(p, r) ==
  LET i == ReversedInvoice(r)
  IN /\ applied[r] = None
     /\ ReverseRowsOf(r) = {}
     /\ ~ReverseSourceHasMultiAllocation(r)
     /\ i # None
     /\ invoice[i].status # "voided"
     /\ ~ExceedsCharge(r)
     /\ WithinAmount(i, invoice[i], EffectiveReverseRestore(r))
     /\ Start(p, "reverse", "source", r, One(i, TxnAmount[r]))

(* The amount to give back is read here, before any lock is taken.         *)
BeginUnapply(p, t) ==
  LET i == applied[t]
  IN /\ i # None
     /\ invoice[i].status # "voided"
     /\ WithinAmount(i, invoice[i], EffectiveApplyAmount(t))
     /\ Start(p, "unapply", "invoices", t, One(i, EffectiveApplyAmount(t)))

BeginAllocate(p, t, lines) ==
  /\ lines # <<>> /\ DistinctInvoices(lines)
  /\ applied[t] = None
  /\ Start(p, "allocate", "source", t, lines)

BeginReverseAllocations(p, r) ==
  /\ applied[r] = None
  /\ ReverseRowsOf(r) = {}
  /\ Start(p, "reverseAllocations", "source", r, <<>>)

(* A credit is found by its id inside the transaction; there is nothing to *)
(* validate before it but the shape of the request.                        *)
BeginCreditApply(p, c, lines) ==
  /\ credit[c] # NoCredit
  /\ Len(lines) = 1
  /\ Start(p, "creditApply", "source", c, lines)

BeginCreditAllocate(p, c, lines) ==
  /\ credit[c] # NoCredit
  /\ lines # <<>> /\ DistinctInvoices(lines)
  /\ Start(p, "creditAllocate", "source", c, lines)

BeginVoid(p, i) ==
  /\ invoice[i].status # "voided"
  /\ \A t \in Txns : applied[t] # i
  /\ Start(p, "void", "invoices", None, One(i, 0))

-----------------------------------------------------------------------------
(* The row a transaction must lock next.                                   *)

Touched(j) == InvoicesOf(j.lines)

(* MUTANT of NextInvoice: the order of the lines.                          *)
NextLine(p) ==
  LET lines == job[p].lines
  IN lines[Min({k \in DOMAIN lines : seen[p][lines[k].invoice] = None})].invoice

(* Invoices are locked in ascending id order.                              *)
NextInvoice(p) == Min({i \in Touched(job[p]) : seen[p][i] = None})

SourceRow(j) ==
  IF j.op \in {"creditApply", "creditAllocate"} THEN <<"credit", j.src>>
                                                ELSE <<"txn", j.src>>

NextRow(p) ==
  CASE job[p].stage = "source"   -> SourceRow(job[p])
    [] job[p].stage = "original" -> <<"txn", job[p].orig>>
    [] job[p].stage = "invoices" -> <<"invoice", NextInvoice(p)>>
    [] job[p].stage = "update"   -> <<"txn", job[p].src>>

Waiting(p) == job[p].stage \in {"source", "original", "invoices", "update"}
Blocked(p) == Waiting(p) /\ lock[NextRow(p)] # None

(* MUTANT of Take: no FOR UPDATE.                                          *)
TakeAnyway(p) == lock' = [lock EXCEPT ![NextRow(p)] = p]

Take(p) == /\ ~Blocked(p)
           /\ lock' = [lock EXCEPT ![NextRow(p)] = p]

(* MUTANT of SourceCheck: what Begin saw of the source is still trusted.   *)
SourceUnchecked(j) == j.op = "reverseAllocations" =>
                         ResolveOriginalForAllocations(j.src) # None

(* MUTANT of SourceCheck: earlier allocations are not subtracted.          *)
SourceUnspent(j) ==
  /\ j.op \notin {"creditApply", "creditAllocate"} => applied[j.src] = None
  /\ j.op = "allocate" => Total(j.lines) <= TxnAmount[j.src]
  /\ j.op = "reverseAllocations" => ResolveOriginalForAllocations(j.src) # None

(* What each service re-checks once it holds its source row.               *)
SourceCheck(j) ==
  CASE j.op \in {"apply", "reverse"} -> applied[j.src] = None
    [] j.op = "allocate" -> applied[j.src] = None /\ FitsCharge(j.src, j.lines)
    [] j.op = "reverseAllocations" ->
         /\ applied[j.src] = None
         /\ ReverseRowsOf(j.src) = {}
         /\ ResolveOriginalForAllocations(j.src) # None
    [] j.op \in {"creditApply", "creditAllocate"} -> FitsCredit(j.src, j.lines)

LockSource(p) ==
  LET j == job[p]
  IN /\ j.stage = "source"
     /\ Take(p)
     /\ SourceCheck(j)
     /\ job' = [job EXCEPT ![p] =
          IF j.op = "reverseAllocations"
          THEN [j EXCEPT !.stage = "original",
                         !.orig  = ResolveOriginalForAllocations(j.src)]
          ELSE [j EXCEPT !.stage = "invoices"]]
     /\ UNCHANGED <<tables, seen>>

(* The plan is made, from the allocations and what was already reversed,   *)
(* once the original charge is locked as well; without lines no invoice is *)
(* locked.                                                                 *)
LockOriginal(p) ==
  LET j    == job[p]
      plan == PlanFor(j.src, j.orig)
  IN /\ j.stage = "original"
     /\ Take(p)
     /\ OriginalCheck(j.src, j.orig)
     /\ job' = [job EXCEPT ![p] =
          [op |-> j.op, stage |-> IF DOMAIN plan = {} THEN "commit" ELSE "invoices",
           src |-> j.src, orig |-> j.orig, lines |-> plan]]
     /\ UNCHANGED <<tables, seen>>

LockInvoice(p) ==
  LET j == job[p]
      i == NextInvoice(p)
  IN /\ j.stage = "invoices"
     /\ Take(p)
     /\ seen' = [seen EXCEPT ![p][i] = invoice[i]]
     /\ job' = [job EXCEPT ![p].stage =
          IF \A k \in Touched(j) \ {i} : seen[p][k] # None
          THEN IF j.op = "unapply" THEN "update" ELSE "commit"
          ELSE "invoices"]
     /\ UNCHANGED tables

(* UnapplyPaymentTransaction never selects its transaction FOR UPDATE: the *)
(* UPDATE that clears it takes the row lock, after the invoice's.          *)
LockForUpdate(p) ==
  /\ job[p].stage = "update"
  /\ Take(p)
  /\ job' = [job EXCEPT ![p].stage = "commit"]
  /\ UNCHANGED <<tables, seen>>

-----------------------------------------------------------------------------
(* The last checks, against the invoice rows read under their locks.       *)
CommitCheck(p) ==
  LET j    == job[p]
      i    == j.lines[1].invoice
      rows == seen[p]
  IN CASE j.op = "apply"    -> CanApply(j.src, rows)
       [] j.op = "reverse"  -> CanReverse(j.src, rows)
       [] j.op = "unapply"  -> WithinAmount(i, rows[i], j.lines[1].amount)
       [] j.op = "allocate" -> CanAllocate(j.src, j.lines, rows)
       [] j.op = "reverseAllocations" -> CanReverseAllocations(j.lines, rows)
       [] j.op = "creditApply"    -> CanUseCredit(j.src, j.lines, rows)
       [] j.op = "creditAllocate" -> CanUseCredit(j.src, j.lines, rows)
                                     /\ CreditIsNew(j.src, j.lines)
       [] j.op = "void"     -> CanVoid(i, rows[i])

-----------------------------------------------------------------------------
(* The commits.                                                            *)

(* MUTANT of End: the locks outlive the transaction.                       *)
EndKeepingLocks(p) ==
  /\ job' = [job EXCEPT ![p] = Idle]
  /\ seen' = [seen EXCEPT ![p] = NoneSeen]
  /\ UNCHANGED lock

End(p) ==
  /\ job' = [job EXCEPT ![p] = Idle]
  /\ lock' = [r \in Rows |-> IF lock[r] = p THEN None ELSE lock[r]]
  /\ seen' = [seen EXCEPT ![p] = NoneSeen]

Committing(p, op) ==
  /\ job[p].op = op
  /\ job[p].stage = "commit"
  /\ CommitCheck(p)
  /\ End(p)

ApplyPaymentTransactionToInvoice(p) ==
  Committing(p, "apply") /\ ApplyCharge(job[p].src, seen[p])

(* ApplyRefundTransactionToInvoice and ApplyChargebackTransactionToInvoice.*)
ApplyReversalToInvoice(p) ==
  Committing(p, "reverse") /\ Reverse(job[p].src, seen[p])

UnapplyPaymentTransaction(p) ==
  LET line == job[p].lines[1]
  IN Committing(p, "unapply") /\ Unapply(job[p].src, line.invoice, line.amount, seen[p])

AllocatePaymentToMultipleInvoices(p) ==
  Committing(p, "allocate") /\ Allocate(job[p].src, job[p].lines, seen[p])

ApplyReverseAllocations(p) ==
  LET j == job[p]
  IN Committing(p, "reverseAllocations") /\ ReverseAllocations(j.src, j.orig, j.lines, seen[p])

(* ApplyCustomerCreditToInvoice, AllocateCustomerCreditToMultipleInvoices. *)
ApplyCustomerCredit(p) ==
  /\ Committing(p, "creditApply") \/ Committing(p, "creditAllocate")
  /\ UseCredit(job[p].src, job[p].lines, seen[p])

VoidInvoice(p) ==
  Committing(p, "void") /\ Void(job[p].lines[1].invoice)

(* A check made inside the transaction failed: it returns an error and the *)
(* transaction rolls back.                                                 *)
Refuse(p) ==
  /\ \/ job[p].stage = "source" /\ ~Blocked(p) /\ ~SourceCheck(job[p])
     \/ job[p].stage = "original" /\ ~Blocked(p) /\ ~OriginalCheck(job[p].src, job[p].orig)
     \/ job[p].stage = "commit" /\ ~CommitCheck(p)
  /\ End(p)
  /\ UNCHANGED tables

(* The process or its connection dies, or PostgreSQL ends the transaction. *)
Crash(p) ==
  /\ "crash" \in Ops
  /\ job[p] # Idle
  /\ End(p)
  /\ UNCHANGED tables

-----------------------------------------------------------------------------
Begin(p) ==
  \/ \E t \in Charges : BeginApply(p, t) \/ BeginUnapply(p, t)
  \/ \E r \in Reversals : BeginReverse(p, r) \/ BeginReverseAllocations(p, r)
  \/ \E t \in Charges, lines \in LineChoices :
       \/ BeginAllocate(p, t, lines)
       \/ BeginCreditApply(p, t, lines)
       \/ BeginCreditAllocate(p, t, lines)
  \/ \E i \in Invoices : BeginVoid(p, i)

Commit(p) ==
  \/ ApplyPaymentTransactionToInvoice(p)
  \/ ApplyReversalToInvoice(p)
  \/ UnapplyPaymentTransaction(p)
  \/ AllocatePaymentToMultipleInvoices(p)
  \/ ApplyReverseAllocations(p)
  \/ ApplyCustomerCredit(p)
  \/ VoidInvoice(p)

Proceed(p) ==
  \/ LockSource(p) \/ LockOriginal(p) \/ LockInvoice(p) \/ LockForUpdate(p)
  \/ Commit(p)
  \/ Refuse(p)

Next == \E p \in Procs : Begin(p) \/ Proceed(p) \/ Crash(p)

Spec == Init /\ [][Next]_vars

(* PostgreSQL grants a row lock to its waiters in turn, and a request that *)
(* is running is not suspended for ever.                                   *)
FairSpec == Spec /\ \A p \in Procs : SF_vars(Proceed(p))

-----------------------------------------------------------------------------
(* Types.                                                                  *)

JobOK(j) ==
  /\ j = [op |-> j.op, stage |-> j.stage, src |-> j.src, orig |-> j.orig, lines |-> j.lines]
  /\ j.op \in (OpNames \ {"crash"}) \cup {"none"}
  /\ j.stage \in {"idle", "source", "original", "invoices", "update", "commit"}
  /\ j.src \in Txns \cup {None}
  /\ j.orig \in Charges \cup {None}
  /\ \A k \in DOMAIN j.lines : /\ j.lines[k].invoice \in Invoices
                               /\ j.lines[k].amount \in Nat

TablesOK ==
  /\ invoice \in [Invoices -> InvoiceRow]
  /\ applied \in [Txns -> Invoices \cup {None}]
  /\ appliedAmount \in [Txns -> Nat \cup {None}]
  /\ allocs \in [Charges -> LineSeqs]
  /\ \A row \in reverseRows : /\ row.rev \in Reversals /\ row.orig \in Charges
                              /\ row.invoice \in Invoices /\ row.amount \in Nat \ {0}
  /\ credit \in [Charges -> [original : Nat, remaining : Nat]]
  /\ creditApps \in [Charges -> LineSeqs]
  /\ paidRequests \subseteq Requests
  /\ restored \in [Reversals -> Nat]

TypeOK ==
  /\ TablesOK
  /\ lock \in [Rows -> Procs \cup {None}]
  /\ seen \in [Procs -> [Invoices -> InvoiceRow \cup {None}]]
  /\ job = [p \in Procs |-> job[p]] /\ \A p \in Procs : JobOK(job[p])

-----------------------------------------------------------------------------
(* Safety.                                                                 *)

(* Whatever requests race, an invoice's status agrees with its balance and *)
(* its balance stays between zero and its amount: no interleaving of the   *)
(* checks, locks and writes of the services takes more than is due or      *)
(* gives back more than was billed.                                        *)
BalanceCoherent == \A i \in Invoices : RowCoherent(i, invoice[i])

(* A row read FOR UPDATE is still what the table holds when the reader     *)
(* writes it back: no commit overwrites another's (lost update).           *)
NoLostUpdate ==
  \A p \in Procs, i \in Invoices :
    seen[p][i] # None => seen[p][i] = invoice[i] /\ lock[<<"invoice", i>>] = p

(* What the services rely on between their steps: the request is of the    *)
(* kind the service checked for, every invoice was read before the commit, *)
(* and the rows the request holds locked keep what it found there free,    *)
(* large enough or not yet reversed.                                       *)
JobShape(j) ==
  /\ j.op \in {"apply", "unapply", "allocate", "creditApply", "creditAllocate"}
       => j.src \in Charges
  /\ j.op \in {"reverse", "reverseAllocations"} => j.src \in Reversals
  /\ j.op \in {"apply", "reverse", "unapply", "void"} => DOMAIN j.lines = {1}
  /\ j.op = "apply" => Request[j.src] # None /\ j.lines[1].invoice = InvoiceOf(j.src)
  /\ j.op = "reverse" => j.lines[1].invoice = ReversedInvoice(j.src)
  /\ j.op \in {"allocate", "creditApply", "creditAllocate"} => j.lines \in LineChoices
  /\ j.op \in {"allocate", "creditAllocate"} => DistinctInvoices(j.lines)
  /\ j.op = "creditApply" => Len(j.lines) = 1
  /\ j.op = "reverseAllocations" =>
       /\ \A k \in DOMAIN j.lines : j.lines[k].amount # 0
       /\ j.stage # "source" =>
            /\ j.orig \in Charges
            /\ Original[j.src] \in Charges => j.orig = Original[j.src]
  /\ j.stage = "original" => j.op = "reverseAllocations"
  /\ j.stage = "update" => j.op = "unapply"

Planned(j) == j.op = "reverseAllocations" /\ j.stage # "original"

Held(j) == (IF j.op \in {"none", "unapply", "void"} THEN {} ELSE {SourceRow(j)})
           \cup (IF Planned(j) THEN {<<"txn", j.orig>>} ELSE {})

ReliesOn(j) ==
  /\ j.op \in {"apply", "reverse", "allocate", "reverseAllocations"} => applied[j.src] = None
  /\ j.op = "allocate" => FitsCharge(j.src, j.lines)
  /\ j.op = "reverseAllocations" => ReverseRowsOf(j.src) = {}
  /\ Planned(j) => OriginalCheck(j.src, j.orig) /\ j.lines = PlanFor(j.src, j.orig)
  /\ j.op \in {"creditApply", "creditAllocate"} => FitsCredit(j.src, j.lines)

Keeps(p) ==
  LET j == job[p]
  IN /\ JobShape(j)
     /\ j.stage \in {"update", "commit"} => \A i \in Touched(j) : seen[p][i] # None
     /\ j.stage \notin {"idle", "source"} =>
          ReliesOn(j) /\ \A row \in Held(j) : lock[row] = p

SettlementInv == \A p \in Procs : Keeps(p)

(* BalanceIsUnreceived: what an invoice received, by the records every     *)
(* payment leaves, is exactly what its balance lost.                       *)
Paid(t, i) == IF applied[t] = i THEN appliedAmount[t] ELSE 0
Lines(rows, i) ==
  SumFunction([k \in DOMAIN rows |-> IF rows[k].invoice = i THEN rows[k].amount ELSE 0])
GivenBack(r, i) == IF applied[r] = i THEN restored[r] ELSE 0
Received(i) ==
    SumFunction([t \in Charges |-> Paid(t, i) + Lines(allocs[t], i) + Lines(creditApps[t], i)])
  - SumFunction([r \in Reversals |-> GivenBack(r, i)])
  - TotalOfSet({row \in reverseRows : row.invoice = i})
BalanceIsUnreceived ==
  \A i \in Invoices :
    invoice[i].status # "voided" => invoice[i].balance = InvAmount[i] - Received(i)

(* A charge is spent once: what it paid on its invoice, what it allocated  *)
(* and the credit its excess became add up to no more than the charge.     *)
SpentOf(t) == (IF applied[t] # None THEN appliedAmount[t] ELSE 0)
              + Total(allocs[t]) + credit[t].original
ChargeNotOverspent == \A t \in Charges : SpentOf(t) <= TxnAmount[t]

(* "RemainingAmount decrements on each CustomerCreditApplication. Must     *)
(* never go below 0": a credit is worth its original amount, no more.      *)
CreditConserved ==
  \A c \in Charges : credit[c].remaining + Total(creditApps[c]) = credit[c].original

(* MoneyAddsUp: the books of the invoices, the charges and the credits     *)
(* agree while several requests settle at once.                            *)
MoneyAddsUp == BalanceIsUnreceived /\ ChargeNotOverspent /\ CreditConserved

(* Reversals of a split charge give back at most what it allocated.        *)
ReversalsWithinAllocations ==
  \A c \in Charges :
    TotalOfSet(ReverseRowsOfOrig(c)) <= Total(allocs[c])

(* No requests wait for each other's row locks in a circle: "lock all      *)
(* target invoices in ascending ID order (deadlock prevention)".           *)
NoDeadlock ==
  \A S \in (SUBSET Procs) \ {{}} :
    \E p \in S : ~Blocked(p) \/ lock[NextRow(p)] \notin S

(* A transaction that is applied is not applied again before it is         *)
(* unapplied ("prevents concurrent double-apply").                         *)
AppliedOnceStep ==
  \A t \in Txns :
    applied[t] # None =>
      \/ applied'[t] = None
      \/ /\ applied'[t] = applied[t] /\ appliedAmount'[t] = appliedAmount[t]
         /\ t \in Reversals => restored'[t] = restored[t]
AppliedOnce == [][AppliedOnceStep]_vars

(* The two ways to use a charge are "mutually exclusive per transaction".  *)
ChargePathsExclusive == \A t \in Charges : applied[t] = None \/ allocs[t] = <<>>

(* "Voided is terminal": no payment, return of a payment or reversal of an *)
(* allocation brings a voided invoice back.                                *)
VoidedIsFinal ==
  [][\A i \in Invoices : invoice[i].status = "voided" => invoice'[i].status = "voided"]_vars

(* Every request ends, with a commit or a rollback.                        *)
EveryRequestEnds == \A p \in Procs : job[p] # Idle ~> job[p] = Idle
=============================================================================
