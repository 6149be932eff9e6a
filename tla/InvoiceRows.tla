---------------------------- MODULE InvoiceRows ----------------------------
(***************************************************************************)
(* The settlement columns of an invoice row, and what a payment and the    *)
(* return of a payment make of them: the computation every service of      *)
(* internal/services repeats before it updates an invoice.                 *)
(***************************************************************************)
EXTENDS Integers

CONSTANTS
  Invoices,  \* posted invoices, by id
  InvAmount  \* Invoice.Amount

ASSUME InvoicesAssumption ==
  Invoices \subseteq Nat /\ InvAmount \in [Invoices -> Nat \ {0}]

InvoiceRow == [status : {"issued", "partially_paid", "paid", "voided"}, balance : Nat]

NewInvoice(i) == [status |-> "issued", balance |-> InvAmount[i]]
VoidedInvoice == [status |-> "voided", balance |-> 0]

PaidRow(row, amount) ==
  [status  |-> IF row.balance = amount THEN "paid" ELSE "partially_paid",
   balance |-> row.balance - amount]

RestoredRow(i, row, amount) ==
  LET new == row.balance + amount
  IN [status  |-> IF new = InvAmount[i] THEN "issued"
                  ELSE IF new > 0 THEN "partially_paid" ELSE row.status,
      balance |-> new]

(* The status agrees with the balance, which is between 0 and the amount.  *)
RowCoherent(i, row) ==
  /\ row.status = "issued" => row.balance = InvAmount[i]
  /\ row.status = "partially_paid" => row.balance \in 1..(InvAmount[i] - 1)
  /\ row.status \in {"paid", "voided"} => row.balance = 0
=============================================================================
