------------------------- MODULE MCInvoiceSettlement -------------------------
(***************************************************************************)
(* Two invoices of one customer and, in some runs, one of another; charges *)
(* that fit an invoice, split over both, or overpay; refunds of them.      *)
(***************************************************************************)
EXTENDS InvoiceSettlement, TLC

ProcSymmetry == Permutations(Procs)

L(i, amount) == [invoice |-> i, amount |-> amount]

SmallInvAmount == 1 :> 2 @@ 2 :> 3
OneCustomer    == 1 :> "a" @@ 2 :> "a"
SmallRequestInvoice == "q1" :> 1 @@ "q2" :> 2

(* Charge 11 overpays invoice 1 and charge 12 pays part of invoice 2.      *)
SingleTxnAmount == 11 :> 3 @@ 12 :> 1 @@ 21 :> 3 @@ 31 :> 1
SingleRequest   == 11 :> "q1" @@ 12 :> "q2" @@ 21 :> "q1" @@ 31 :> None
SingleOriginal  == 21 :> None @@ 31 :> 12
SingleLines     == {<<L(2, 1)>>}

(* Charge 11 is split over both invoices, and refunded and charged back in *)
(* two parts that are more than it together; charge 12 takes either.       *)
SplitInvAmount == 1 :> 2 @@ 2 :> 4
SplitTxnAmount == 11 :> 4 @@ 12 :> 2 @@ 21 :> 2 @@ 31 :> 3
SplitRequest   == 11 :> "q1" @@ 12 :> None @@ 21 :> "q1" @@ 31 :> None
SplitOriginal  == 21 :> 11 @@ 31 :> 11
SplitLines     == {<<L(1, 1), L(2, 3)>>, <<L(2, 1), L(1, 1)>>, <<L(1, 2)>>, <<L(2, 3)>>}

(* Charges 11 and 12 both pay invoice 2, and either may be split instead;  *)
(* the refund and the chargeback both reverse charge 12.  Invoice 3 is     *)
(* another customer's.                                                     *)
MixedInvAmount == 1 :> 2 @@ 2 :> 3 @@ 3 :> 2
TwoCustomers   == 1 :> "a" @@ 2 :> "a" @@ 3 :> "b"
MixedTxnAmount == 11 :> 3 @@ 12 :> 1 @@ 21 :> 1 @@ 31 :> 1
MixedRequest   == 11 :> "q2" @@ 12 :> "q2" @@ 21 :> "q2" @@ 31 :> None
MixedOriginal  == 21 :> 12 @@ 31 :> 12
MixedLines     == {<<L(1, 1)>>, <<L(1, 1), L(2, 1)>>, <<L(3, 1)>>, <<L(2, 1), L(3, 1)>>}
=============================================================================
