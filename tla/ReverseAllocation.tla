-------------------------- MODULE ReverseAllocation --------------------------
(***************************************************************************)
(* One charge, already allocated to several invoices, and the refunds and  *)
(* chargebacks that reverse parts of it one after the other.  The locks of *)
(* applyReverseAllocations serialise the reversals of one charge (module   *)
(* InvoiceSettlement models them), so a reversal is one step here and what *)
(* is left is the arithmetic of the plan.                                  *)
(***************************************************************************)
EXTENDS ReversePlan

CONSTANTS
  Allocations,   \* the possible sequences of allocated amounts, in ID order
  OtherPayments, \* the possible amounts another payment paid on each invoice
  Amounts,       \* the possible amounts of a refund or chargeback
  MaxReversals   \* bound: how many reversals of the charge are attempted

ASSUME ReverseAllocationAssumption ==
  /\ Allocations \subseteq Seq(Nat) /\ OtherPayments \subseteq Nat
  /\ Amounts \subseteq Nat /\ MaxReversals \in Nat

VARIABLES
  allocRows,     \* the PaymentAllocation rows of the charge
  otherPaid,     \* what other payments paid on the invoice of each allocation
  returnedRows,  \* the PaymentReverseAllocation rows of the charge
  reversals      \* the effective amount of each reversal that was applied
seriesVars == <<allocRows, otherPaid, returnedRows, reversals>>

SeriesInit ==
  /\ \E amounts \in Allocations :
       allocRows = [k \in DOMAIN amounts |-> [invoice |-> k, amount |-> amounts[k]]]
  /\ otherPaid \in [DOMAIN allocRows -> OtherPayments]
  /\ returnedRows = {}
  /\ reversals = <<>>

(* invoice.Amount - invoice.BalanceDue: what a reversal may give back.     *)
PaidOn(k) == otherPaid[k] + allocRows[k].amount - Used(returnedRows, k)

(* One refund or chargeback of the charge, applied to all its invoices.    *)
ReversePart(amount) ==
  LET plan == ReversalPlan(allocRows, returnedRows, amount)
  IN /\ Len(reversals) < MaxReversals
     /\ Reversible(allocRows, returnedRows, amount)
     /\ \A k \in DOMAIN plan : plan[k].amount <= PaidOn(k)
     /\ reversals' = Append(reversals, EffectiveReversal(amount, Total(allocRows)))
     /\ returnedRows' = returnedRows \cup
          {[rev     |-> Len(reversals) + 1,
            alloc   |-> k,
            invoice |-> plan[k].invoice,
            amount  |-> plan[k].amount] : k \in DOMAIN plan}
     /\ UNCHANGED <<allocRows, otherPaid>>

SeriesNext == \E amount \in Amounts : ReversePart(amount)

SeriesSpec == SeriesInit /\ [][SeriesNext]_seriesVars

-----------------------------------------------------------------------------
(* Whatever the roundings, a series of partial reversals never gives the   *)
(* invoices back more than the charge had allocated to them                *)
(* (ErrReverseAllocExceedsReversibleTotal).                                *)
NeverRestoresMoreThanAllocated ==
  TotalOfSet(returnedRows) <= Total(allocRows)

(* A reversal of all that is left, after any partial reversals that did    *)
(* not over-reverse a row, restores each allocation to the cent.           *)
FullReversalIsExact ==
  LET left == RemainingAllocations(allocRows, returnedRows)
  IN (DOMAIN left # {} /\ ~SomeAllocationOverReversed(allocRows, returnedRows)) =>
       LET plan == ComputeReverseAllocationPlan(left, Total(left))
       IN /\ DOMAIN plan = DOMAIN left
          /\ \A k \in DOMAIN left : plan[k].amount = left[k].amount
=============================================================================
