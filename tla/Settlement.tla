------------------------------ MODULE Settlement ------------------------------
(***************************************************************************)
(* The tables of invoice settlement, what each service reads and writes in *)
(* them, and what the services promise: each acts as one atomic step on    *)
(* the tables as they stand (AtomicSpec).  Requests, locks and the reads   *)
(* made before them come with InvoiceSettlement.                           *)
(*                                                                         *)
(* Amounts are whole cents in the base currency; every transaction is      *)
(* posted and no invoice comes from a sales channel.  "issued" stands for  *)
(* issued, sent and overdue, which these services do not tell apart.       *)
(*                                                                         *)
(* A guard or an effect takes the invoice rows it is computed from as its  *)
(* parameter `rows': the table here, the rows a transaction read under its *)
(* locks in InvoiceSettlement.                                             *)
(***************************************************************************)
EXTENDS InvoiceRows, ReversePlan

CONSTANTS
  Charges,        \* charge and capture transactions, by id
  Refunds,        \* refund transactions, by id
  Chargebacks,    \* chargeback transactions, by id
  Requests,       \* payment requests
  Customer,       \* Invoice.CustomerID
  TxnAmount,      \* PaymentTransaction.Amount
  Request,        \* PaymentTransaction.PaymentRequestID, or None
  RequestInvoice, \* PaymentRequest.InvoiceID
  Original,       \* OriginalTransactionID of a refund or chargeback, or None
  LineChoices,    \* the allocation lines users ask for
  None

Reversals == Refunds \cup Chargebacks
Txns      == Charges \cup Reversals
LineSeqs  == Seq([invoice : Invoices, amount : Nat \ {0}])

ASSUME SettlementAssumption ==
  /\ Txns \subseteq Nat /\ IsFiniteSet(Txns)
  /\ Charges \cap Reversals = {} /\ Refunds \cap Chargebacks = {}
  /\ TxnAmount \in [Txns -> Nat \ {0}]
  /\ Request \in [Txns -> Requests \cup {None}]
  /\ RequestInvoice \in [Requests -> Invoices]
  /\ Original \in [Reversals -> Txns \cup {None}]
  /\ LineChoices \subseteq LineSeqs
  /\ None \notin Nat /\ None \notin Requests /\ None \notin InvoiceRow

VARIABLES
  invoice,       \* status and balance_due of each invoice
  applied,       \* PaymentTransaction.AppliedInvoiceID
  appliedAmount, \* PaymentTransaction.AppliedAmount
  allocs,        \* the PaymentAllocation rows of each charge, in ID order
  reverseRows,   \* the PaymentReverseAllocation rows
  credit,        \* the CustomerCredit an overpaying charge created
  creditApps,    \* the CustomerCreditApplication rows of each credit
  paidRequests,  \* payment requests with status paid
  restored       \* audit log: restore_amount of each single-invoice reversal

tables == <<invoice, applied, appliedAmount, allocs, reverseRows, credit,
            creditApps, paidRequests, restored>>

NoCredit == [original |-> 0, remaining |-> 0]

TablesInit ==
  /\ invoice = [i \in Invoices |-> NewInvoice(i)]
  /\ applied = [t \in Txns |-> None]
  /\ appliedAmount = [t \in Txns |-> None]
  /\ allocs = [t \in Charges |-> <<>>]
  /\ reverseRows = {}
  /\ credit = [t \in Charges |-> NoCredit]
  /\ creditApps = [t \in Charges |-> <<>>]
  /\ paidRequests = {}
  /\ restored = [r \in Reversals |-> 0]

-----------------------------------------------------------------------------
(* Lookups the services share.                                             *)

InvoiceOf(t) == RequestInvoice[Request[t]]

(* The invoice a refund or chargeback restores: its own payment request's, *)
(* a chargeback falling back to the request of the original transaction.   *)
ReversedInvoice(r) ==
  IF Request[r] # None THEN InvoiceOf(r)
  ELSE IF r \in Chargebacks /\ Original[r] # None /\ Request[Original[r]] # None
       THEN InvoiceOf(Original[r])
       ELSE None

(* The charge that reversal r reverses: the linked one, else the oldest    *)
(* applied charge of the same payment request.                             *)
ResolveOriginalCharge(r) ==
  LET sameRequest == {t \in Charges : /\ Request[t] = Request[r]
                                      /\ applied[t] # None}
  IN IF Original[r] \in Charges THEN Original[r]
     ELSE IF Request[r] # None /\ sameRequest # {} THEN Min(sameRequest)
     ELSE None

(* The multi-invoice path refuses a reversal of a reversal first.          *)
ResolveOriginalForAllocations(r) ==
  IF Original[r] \in Reversals THEN None ELSE ResolveOriginalCharge(r)

(* MUTANT of EffectiveApplyAmount: the overpaid part goes back as well.    *)
WholeAmount(t) == TxnAmount[t]

(* AppliedAmount, or the whole amount where the column is null.            *)
EffectiveApplyAmount(t) ==
  IF appliedAmount[t] = None THEN TxnAmount[t] ELSE appliedAmount[t]

ExceedsCharge(r) ==
  LET c == ResolveOriginalCharge(r) IN c # None /\ TxnAmount[r] > TxnAmount[c]

EffectiveReverseRestore(r) ==
  LET c == ResolveOriginalCharge(r)
  IN IF c # None /\ TxnAmount[r] > EffectiveApplyAmount(c)
     THEN EffectiveApplyAmount(c)
     ELSE TxnAmount[r]

ReverseSourceHasMultiAllocation(r) ==
  \/ Original[r] \in Charges /\ allocs[Original[r]] # <<>>
  \/ /\ Request[r] # None
     /\ \E t \in Charges : Request[t] = Request[r] /\ allocs[t] # <<>>

ReverseRowsOf(r)     == {row \in reverseRows : row.rev = r}
ReverseRowsOfOrig(c) == {row \in reverseRows : row.orig = c}

InvoicesOf(lines)    == {lines[k].invoice : k \in DOMAIN lines}
AmountFor(lines, i)  == lines[CHOOSE k \in DOMAIN lines : lines[k].invoice = i].amount

DistinctInvoices(lines) ==
  \A k, l \in DOMAIN lines : lines[k].invoice = lines[l].invoice => k = l

-----------------------------------------------------------------------------
(* What the services check of the rows.                                    *)

(* An invoice that can take a payment of `amount'.                         *)
Accepts(row, amount) ==
  row.status \notin {"voided", "paid"} /\ amount <= row.balance

(* MUTANT of WithinAmount: what is given back is not bounded.              *)
WithinAnything(i, row, amount) == TRUE

(* A balance that stays within the invoice when `amount' is given back.    *)
WithinAmount(i, row, amount) == row.balance + amount <= InvAmount[i]

(* A charge without payment request only ties the invoices of one call.    *)
ChargeCustomer(t, lines) ==
  IF Request[t] # None THEN Customer[InvoiceOf(t)] ELSE Customer[lines[1].invoice]

AllAccept(lines, customer, rows) ==
  \A i \in InvoicesOf(lines) :
    Accepts(rows[i], AmountFor(lines, i)) /\ Customer[i] = customer

(* MUTANT of Applied: not capped at the balance.                           *)
AppliedUncapped(t, row) == TxnAmount[t]

(* The part of a charge its invoice cannot take becomes a customer credit. *)
Applied(t, row) ==
  IF TxnAmount[t] > row.balance THEN row.balance ELSE TxnAmount[t]

(* MUTANT of Excess: the whole of an overpaying charge becomes a credit.   *)
ExcessOfAll(t, row) == IF TxnAmount[t] > row.balance THEN TxnAmount[t] ELSE 0

Excess(t, row) == TxnAmount[t] - Applied(t, row)

(* A unique index on the charge and the invoice allows one credit.         *)
CanApply(t, rows) == Excess(t, rows[InvoiceOf(t)]) > 0 => credit[t] = NoCredit

CanReverse(r, rows) ==
  LET i == ReversedInvoice(r)
  IN ~ExceedsCharge(r) /\ WithinAmount(i, rows[i], EffectiveReverseRestore(r))

(* A unique index on (transaction, invoice) allows one allocation.         *)
CanAllocate(t, lines, rows) ==
  /\ AllAccept(lines, ChargeCustomer(t, lines), rows)
  /\ InvoicesOf(allocs[t]) \cap InvoicesOf(lines) = {}

(* What is left of a charge that the multi-invoice path allocates.         *)
FitsCharge(t, lines) == Total(lines) <= TxnAmount[t] - Total(allocs[t])

CanReverseAllocations(lines, rows) ==
  \A i \in InvoicesOf(lines) :
    rows[i].status # "voided" /\ WithinAmount(i, rows[i], AmountFor(lines, i))

OriginalCheck(r, c) == Reversible(allocs[c], ReverseRowsOfOrig(c), TxnAmount[r])

PlanFor(r, c) == ReversalPlan(allocs[c], ReverseRowsOfOrig(c), TxnAmount[r])

FitsCredit(c, lines) ==
  credit[c].remaining > 0 /\ credit[c].remaining - Total(lines) \in Nat

CanUseCredit(c, lines, rows) == AllAccept(lines, Customer[InvoiceOf(c)], rows)

(* Only the service for several invoices looks for earlier applications.   *)
CreditIsNew(c, lines) == InvoicesOf(creditApps[c]) \cap InvoicesOf(lines) = {}

CanVoid(i, row) == row.status # "voided" /\ \A t \in Txns : applied[t] # i

-----------------------------------------------------------------------------
(* What the services write.                                                *)

ApplyCharge(t, rows) ==
  LET i == InvoiceOf(t)
      excess == Excess(t, rows[i])
  IN /\ invoice' = [invoice EXCEPT ![i] = PaidRow(rows[i], Applied(t, rows[i]))]
     /\ applied' = [applied EXCEPT ![t] = i]
     /\ appliedAmount' = [appliedAmount EXCEPT ![t] = Applied(t, rows[i])]
     /\ paidRequests' = paidRequests \cup {Request[t]}
     /\ credit' = IF excess > 0
                  THEN [credit EXCEPT ![t] = [original |-> excess, remaining |-> excess]]
                  ELSE credit
     /\ UNCHANGED <<allocs, reverseRows, creditApps, restored>>

Reverse(r, rows) ==
  LET i == ReversedInvoice(r)
      restore == EffectiveReverseRestore(r)
  IN /\ invoice' = [invoice EXCEPT ![i] = RestoredRow(i, rows[i], restore)]
     /\ applied' = [applied EXCEPT ![r] = i]
     /\ restored' = [restored EXCEPT ![r] = restore]
     /\ UNCHANGED <<appliedAmount, allocs, reverseRows, credit, creditApps, paidRequests>>

Unapply(t, i, amount, rows) ==
  /\ invoice' = [invoice EXCEPT ![i] = RestoredRow(i, rows[i], amount)]
  /\ applied' = [applied EXCEPT ![t] = None]
  /\ appliedAmount' = [appliedAmount EXCEPT ![t] = None]
  /\ UNCHANGED <<allocs, reverseRows, credit, creditApps, paidRequests, restored>>

PayLines(lines, rows) ==
  invoice' = [i \in Invoices |-> IF i \in InvoicesOf(lines)
                                 THEN PaidRow(rows[i], AmountFor(lines, i))
                                 ELSE invoice[i]]

Allocate(t, lines, rows) ==
  /\ PayLines(lines, rows)
  /\ allocs' = [allocs EXCEPT ![t] = @ \o lines]
  /\ UNCHANGED <<applied, appliedAmount, reverseRows, credit, creditApps,
                 paidRequests, restored>>

ReverseAllocations(r, c, lines, rows) ==
  /\ invoice' = [i \in Invoices |-> IF i \in InvoicesOf(lines)
                                    THEN RestoredRow(i, rows[i], AmountFor(lines, i))
                                    ELSE invoice[i]]
  /\ reverseRows' = reverseRows \cup
       {[rev     |-> r,
         orig    |-> c,
         alloc   |-> k,
         invoice |-> lines[k].invoice,
         amount  |-> lines[k].amount] : k \in DOMAIN lines}
  /\ UNCHANGED <<applied, appliedAmount, allocs, credit, creditApps,
                 paidRequests, restored>>

UseCredit(c, lines, rows) ==
  /\ PayLines(lines, rows)
  /\ credit' = [credit EXCEPT ![c].remaining = @ - Total(lines)]
  /\ creditApps' = [creditApps EXCEPT ![c] = @ \o lines]
  /\ UNCHANGED <<applied, appliedAmount, allocs, reverseRows, paidRequests, restored>>

(* The journal, stock and sales-order sides of the void are not settlement.*)
Void(i) ==
  /\ invoice' = [invoice EXCEPT ![i] = VoidedInvoice]
  /\ UNCHANGED <<applied, appliedAmount, allocs, reverseRows, credit, creditApps,
                 paidRequests, restored>>

-----------------------------------------------------------------------------
(* The promise: each service as one step on the tables as they stand, with *)
(* what it can rely on when it writes.  It is weaker than what a service   *)
(* validates before its transaction: an apply may find its charge split or *)
(* its invoice voided, and an unapply gives back an amount it read earlier.*)

AtomicApply(t) ==
  /\ applied[t] = None /\ Request[t] # None
  /\ CanApply(t, invoice)
  /\ ApplyCharge(t, invoice)

AtomicReverse(r) ==
  /\ applied[r] = None /\ ReversedInvoice(r) # None
  /\ CanReverse(r, invoice)
  /\ Reverse(r, invoice)

AtomicUnapply(t) ==
  \E i \in Invoices : \E amount \in 0..InvAmount[i] :
    /\ WithinAmount(i, invoice[i], amount)
    /\ Unapply(t, i, amount, invoice)

AtomicAllocate(t, lines) ==
  /\ applied[t] = None /\ DistinctInvoices(lines)
  /\ FitsCharge(t, lines)
  /\ CanAllocate(t, lines, invoice)
  /\ Allocate(t, lines, invoice)

AtomicReverseAllocations(r, c) ==
  /\ applied[r] = None /\ ReverseRowsOf(r) = {}
  /\ Original[r] \in Charges => c = Original[r]
  /\ OriginalCheck(r, c)
  /\ CanReverseAllocations(PlanFor(r, c), invoice)
  /\ ReverseAllocations(r, c, PlanFor(r, c), invoice)

AtomicUseCredit(c, lines) ==
  /\ FitsCredit(c, lines)
  /\ \/ Len(lines) = 1
     \/ DistinctInvoices(lines) /\ CreditIsNew(c, lines)
  /\ CanUseCredit(c, lines, invoice)
  /\ UseCredit(c, lines, invoice)

AtomicVoid(i) == CanVoid(i, invoice[i]) /\ Void(i)

AtomicNext ==
  \/ \E t \in Charges : AtomicApply(t) \/ AtomicUnapply(t)
  \/ \E r \in Reversals : AtomicReverse(r) \/ \E c \in Charges : AtomicReverseAllocations(r, c)
  \/ \E t \in Charges, lines \in LineChoices : AtomicAllocate(t, lines) \/ AtomicUseCredit(t, lines)
  \/ \E i \in Invoices : AtomicVoid(i)

AtomicSpec == TablesInit /\ [][AtomicNext]_tables
=============================================================================
