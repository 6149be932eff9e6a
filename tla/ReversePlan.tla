----------------------------- MODULE ReversePlan -----------------------------
(***************************************************************************)
(* How a refund or a chargeback of a payment that was split over several   *)
(* invoices is divided between them (payment_reverse_allocation_service.go,*)
(* ComputeReverseAllocationPlan and the helpers it is called with).        *)
(*                                                                         *)
(* Amounts are whole cents.  An allocation row is [invoice, amount]; the   *)
(* rows of one charge are a sequence in PaymentAllocation.ID order, and    *)
(* what is left of them, or planned for them, is a function of their       *)
(* positions.  A PaymentReverseAllocation row is [rev, orig, alloc,        *)
(* invoice, amount], `alloc' being the position of the allocation.         *)
(***************************************************************************)
EXTENDS Integers, Sequences, FiniteSetsExt

(* The sum of the amounts of some rows: SQL's COALESCE(SUM(amount), 0).    *)
Total(rows) == SumFunction([k \in DOMAIN rows |-> rows[k].amount])
TotalOfSet(rows) == SumFunction([row \in rows |-> row.amount])

(***************************************************************************)
(* decimal.Div keeps 16 digits, rounded half up, so a quotient a/T that    *)
(* has no finite expansion is slightly too large or too small.  That shows *)
(* only when the exact share lies half-way between two cents: the product  *)
(* then rounds up if the quotient was rounded up or was exact.             *)
(* 10^16 modulo T is taken by squaring, within TLC's integers.             *)
(***************************************************************************)
QuotientRoundsUp(a, T) ==
  LET p4  == 10000 % T
      p8  == (p4 * p4) % T
      p16 == (p8 * p8) % T
      rem == (a * p16) % T
  IN rem = 0 \/ 2 * rem >= T

(* alloc.AllocatedAmount.Div(total).Mul(reversal).Round(2), in cents.      *)
Share(a, T, reversal) ==
  LET twice == 2 * a * reversal
      tie   == (twice + T) % (2 * T) = 0
      up    == (twice + T) \div (2 * T)
  IN IF tie /\ ~QuotientRoundsUp(a, T) THEN up - 1 ELSE up

(* MUTANT of LineAmount: the last line's own share is subtracted too.      *)
LineAmountOfAll(lefts, reversal, k) ==
  LET T     == Total(lefts)
      share == [j \in DOMAIN lefts |-> Share(lefts[j].amount, T, reversal)]
  IN IF k = Max(DOMAIN lefts)
     THEN reversal - SumFunctionOnSet(share, DOMAIN lefts)
     ELSE share[k]

(* The amount of line k: every line but the last gets its rounded share,   *)
(* the last one what is left of the reversal.                              *)
LineAmount(lefts, reversal, k) ==
  LET T     == Total(lefts)
      share == [j \in DOMAIN lefts |-> Share(lefts[j].amount, T, reversal)]
  IN IF k = Max(DOMAIN lefts)
     THEN reversal - SumFunctionOnSet(share, DOMAIN lefts \ {k})
     ELSE share[k]

(* The lines of the plan, by allocation; a line whose amount is zero or    *)
(* negative is skipped.                                                    *)
ComputeReverseAllocationPlan(lefts, reversal) ==
  LET lines == {k \in DOMAIN lefts : LineAmount(lefts, reversal, k) \in Nat \ {0}}
  IN [k \in lines |-> [invoice |-> lefts[k].invoice,
                       amount  |-> LineAmount(lefts, reversal, k)]]

-----------------------------------------------------------------------------
(* What earlier reversals of the charge already restored of allocation k.  *)
Used(reverseRows, k) == TotalOfSet({r \in reverseRows : r.alloc = k})

(* MUTANT of RemainingAllocations: earlier reversals are not subtracted.   *)
AllAllocations(allocRows, reverseRows) ==
  [k \in DOMAIN allocRows |-> [invoice |-> allocRows[k].invoice,
                               amount  |-> allocRows[k].amount]]

(* The allocations that still have something to reverse, each cut down to  *)
(* what is left of it.                                                     *)
RemainingAllocations(allocRows, reverseRows) ==
  LET left(k) == allocRows[k].amount - Used(reverseRows, k)
  IN [k \in {n \in DOMAIN allocRows : left(n) # 0} |->
        [invoice |-> allocRows[k].invoice, amount |-> left(k)]]

(* An allocation reversed beyond its amount makes every further reversal   *)
(* of the charge fail.                                                     *)
SomeAllocationOverReversed(allocRows, reverseRows) ==
  \E k \in DOMAIN allocRows : Used(reverseRows, k) > allocRows[k].amount

(* An overpayment's excess is never pushed back to invoices.               *)
EffectiveReversal(amount, totalAllocated) ==
  IF amount > totalAllocated THEN totalAllocated ELSE amount

(* MUTANT of Reversible: the amount is compared with all that was          *)
(* allocated, not with what is left of it.                                 *)
ReversibleOfAll(allocRows, reverseRows, amount) ==
  LET effective == EffectiveReversal(amount, Total(allocRows))
  IN /\ allocRows # <<>>
     /\ effective > 0
     /\ effective <= Total(allocRows)

(* All that applyReverseAllocations requires before it makes the plan.     *)
Reversible(allocRows, reverseRows, amount) ==
  LET effective == EffectiveReversal(amount, Total(allocRows))
  IN /\ allocRows # <<>>
     /\ ~SomeAllocationOverReversed(allocRows, reverseRows)
     /\ effective > 0
     /\ effective <= Total(RemainingAllocations(allocRows, reverseRows))

(* The plan of a reversal of `amount', given what was allocated and what   *)
(* has been restored so far.                                               *)
ReversalPlan(allocRows, reverseRows, amount) ==
  ComputeReverseAllocationPlan(RemainingAllocations(allocRows, reverseRows),
                               EffectiveReversal(amount, Total(allocRows)))
=============================================================================
