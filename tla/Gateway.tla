------------------------------- MODULE Gateway -------------------------------
(***************************************************************************)
(* Hosted payment of an invoice through a payment provider: the customer's *)
(* checkout (hosted_payment_service.go), the provider's webhooks           *)
(* (webhook_ingestion_service.go), the automatic settlement of what they   *)
(* confirm (gateway_settlement_service.go) and the operator's way to book  *)
(* the same money by hand (payment_posting_service.go).                    *)
(*                                                                         *)
(* A checkout is a row written before the provider is called and completed *)
(* after; a webhook is one transaction, and the settlement after it a      *)
(* second one with a status written outside both.  The provider repeats an *)
(* event until it is acknowledged.  Faults are crashes of a request and    *)
(* failed writes whose error the code ignores; MaxFaults bounds them.      *)
(***************************************************************************)
EXTENDS Integers, Sequences, FiniteSets, FiniteSetsExt, Functions

CONSTANTS
  Procs, Invoices,
  Attempts,  \* the checkouts in the order of their rows
  Amount,    \* of each invoice
  Request,   \* what each request asks for
  Workloads, \* the sets of requests that users may bring
  MaxFaults,
  None

Kinds == {"pay", "cancel", "retry", "post", "apply", "receive", "void", "configure"}

ASSUME GatewayAssumption ==
  /\ Attempts \subseteq Nat \ {0}
  /\ Amount \in [Invoices -> Nat \ {0}]
  /\ \A r \in DOMAIN Request : /\ Request[r].kind \in Kinds
                                /\ Request[r].invoice \in Invoices /\ Request[r].amount \in Nat
  /\ Workloads \subseteq SUBSET DOMAIN Request
  /\ MaxFaults \in Nat
  /\ None \notin Procs /\ None \notin Invoices

VARIABLES
  invoice,    \* status, balance due, and what Receive Payment settled
  attempt,    \* hosted_payment_attempts
  session,    \* the provider's checkout session of each attempt
  stored,     \* webhook_events
  acked,      \* the events the provider got a 200 for
  charge,     \* payment_transactions of type charge, in ID order
  journal,    \* the journal entries of charges
  settlement, \* gateway_settlements: the charge that settled each attempt, or 0
  mapped,     \* the gateway has a clearing account
  lock,       \* the process that holds each invoice row
  job,        \* what each process is doing
  todo,       \* the requests still to be made
  faults

tables == <<invoice, attempt, charge, journal, settlement>>
vars   == <<tables, session, stored, acked, mapped, lock, job, todo, faults>>

(* event is the webhook a process answers; seen is the balance a checkout  *)
(* read, or the outcome a settlement is going to write.                    *)
Idle == [stage |-> "idle", invoice |-> None, row |-> 0, event |-> None, seen |-> 0]

NoAttempt == [invoice |-> None, status |-> "none", ref |-> FALSE, fresh |-> FALSE,
              amount |-> 0, outcome |-> "none"]

Events == {"completed", "expired"} \X Attempts

Init ==
  /\ todo \in Workloads
  /\ invoice = [i \in Invoices |-> [status |-> "issued", balance |-> Amount[i], received |-> 0]]
  /\ attempt = [a \in Attempts |-> NoAttempt]
  /\ session = [a \in Attempts |-> "none"]
  /\ stored = {} /\ acked = {}
  /\ charge = <<>> /\ journal = <<>>
  /\ settlement = [a \in Attempts |-> 0]
  /\ mapped = \A r \in todo : Request[r].kind # "configure"
  /\ lock = [i \in Invoices |-> None]
  /\ job = [p \in Procs |-> Idle]
  /\ faults = 0

-----------------------------------------------------------------------------
(* What the services read.                                                 *)

IsPayable(i) == invoice[i].status \in {"issued", "partially_paid"}

InFlight(i) ==
  {a \in Attempts : /\ attempt[a].invoice = i /\ attempt[a].fresh
                    /\ attempt[a].status \in {"created", "redirected"}}

Succeeded(i) == {a \in Attempts : attempt[a].invoice = i /\ attempt[a].status = "payment_succeeded"}

Verified(i) == SumFunction([a \in Succeeded(i) |-> attempt[a].amount])

(* UnconsumedVerifiedCollectionAmount: whatever lowered the balance counts *)
(* as a collection that was consumed.                                      *)
Unconsumed(i, balance) == Max({0, Verified(i) - (Amount[i] - balance)})

(* HasVerifiedGatewayCollectionForInvoice                                  *)
IsCollected(i) ==
  LET u == Unconsumed(i, invoice[i].balance) IN u > 0 /\ u >= invoice[i].balance

PayableAmount(i, balance) ==
  LET rest == balance - Unconsumed(i, balance) IN IF rest > 0 THEN rest ELSE balance

(* findChargeTransaction: the first charge of the attempt, or 0.           *)
ChargeOf(a) ==
  LET ks == {k \in DOMAIN charge : charge[k].attempt = a} IN IF ks = {} THEN 0 ELSE Min(ks)

(* MUTANT of KeyIsFree: no unique index on the source of posted entries.   *)
KeyIsFreeAnyway(k) == TRUE

(* The unique index on the source of posted journal entries.               *)
KeyIsFree(k) == \A n \in DOMAIN journal : journal[n].charge # k

Unbooked(k) == ~charge[k].posted /\ ~charge[k].applied

-----------------------------------------------------------------------------
(* Processes.                                                              *)

Goto(p, stage) == job' = [job EXCEPT ![p].stage = stage]

Free(p) == [i \in Invoices |-> IF lock[i] = p THEN None ELSE lock[i]]

(* A handler that ends answers the provider, if it was a webhook.          *)
End(p) ==
  /\ job' = [job EXCEPT ![p] = Idle]
  /\ acked' = acked \cup ({job[p].event} \ {None})

Ask(r, kind) == r \in todo /\ Request[r].kind = kind /\ todo' = todo \ {r}

Start(p, r, kind, stage, row, seen) ==
  /\ job[p] = Idle /\ Ask(r, kind)
  /\ job' = [job EXCEPT ![p] = [stage |-> stage, invoice |-> Request[r].invoice, row |-> row,
                                event |-> None, seen |-> seen]]

-----------------------------------------------------------------------------
(* The customer's checkout.                                                *)

(* The page's invoice, read once, and EvaluateHostedPayability.            *)
BeginPay(p, r) ==
  LET i == Request[r].invoice
  IN /\ IsPayable(i) /\ ~IsCollected(i)
     /\ Start(p, r, "pay", "find", 0, invoice[i].balance)
     /\ UNCHANGED <<tables, session, stored, acked, mapped, lock, faults>>

(* A checkout in flight is shown again, or awaited.                        *)
FindInFlight(p) ==
  LET i == job[p].invoice
  IN /\ job[p].stage = "find"
     /\ IF IsCollected(i) \/ InFlight(i) # {} THEN End(p) ELSE Goto(p, "insert") /\ UNCHANGED acked
     /\ UNCHANGED <<tables, session, stored, mapped, lock, todo, faults>>

IsNextRow(a) ==
  LET free == {b \in Attempts : attempt[b].status = "none"}
  IN a \in free /\ \A b \in free : a <= b

Insert(p, a) ==
  LET i == job[p].invoice
  IN /\ job[p].stage = "insert" /\ IsNextRow(a)
     /\ attempt' = [attempt EXCEPT ![a] =
                      [NoAttempt EXCEPT !.invoice = i, !.status = "created", !.fresh = TRUE,
                                        !.amount = PayableAmount(i, job[p].seen)]]
     /\ job' = [job EXCEPT ![p].stage = "call", ![p].row = a]
     /\ UNCHANGED <<invoice, charge, journal, settlement, session, stored, acked, mapped, lock, todo, faults>>

(* CreateCheckoutSession, which succeeds ...                               *)
CallProvider(p) ==
  /\ job[p].stage = "call"
  /\ session' = [session EXCEPT ![job[p].row] = "open"]
  /\ Goto(p, "redirect")
  /\ UNCHANGED <<tables, stored, acked, mapped, lock, todo, faults>>

(* ... or fails.                                                           *)
ProviderFails(p) ==
  /\ job[p].stage = "call"
  /\ attempt' = [attempt EXCEPT ![job[p].row].status = "failed"]
  /\ End(p)
  /\ UNCHANGED <<invoice, charge, journal, settlement, session, stored, mapped, lock, todo, faults>>

Offer(p) ==
  session' = [session EXCEPT ![job[p].row] = IF @ = "open" THEN "offered" ELSE @]

(* The reference and the status are written whatever the status became.    *)
Redirect(p) ==
  /\ job[p].stage = "redirect"
  /\ attempt' = [attempt EXCEPT ![job[p].row].ref = TRUE, ![job[p].row].status = "redirected"]
  /\ Offer(p) /\ End(p)
  /\ UNCHANGED <<invoice, charge, journal, settlement, stored, mapped, lock, todo, faults>>

(* The error of that write is not looked at: the customer goes on to pay.  *)
RedirectUnsaved(p) ==
  /\ job[p].stage = "redirect" /\ faults < MaxFaults
  /\ faults' = faults + 1
  /\ Offer(p) /\ End(p)
  /\ UNCHANGED <<tables, stored, mapped, lock, todo>>

(* MUTANT of CancelCheckout: whatever state the checkouts are in.          *)
CancelCheckoutAny(r) ==
  LET i == Request[r].invoice
  IN /\ Ask(r, "cancel")
     /\ attempt' = [a \in Attempts |-> IF attempt[a].invoice = i /\ attempt[a].fresh
                                       THEN [attempt[a] EXCEPT !.status = "cancelled"] ELSE attempt[a]]
     /\ UNCHANGED <<invoice, charge, journal, settlement, session, stored, acked, mapped, lock, job, faults>>

(* The customer comes back from the provider: one conditional UPDATE.      *)
CancelCheckout(r) ==
  /\ Ask(r, "cancel")
  /\ attempt' = [a \in Attempts |-> IF a \in InFlight(Request[r].invoice)
                                    THEN [attempt[a] EXCEPT !.status = "cancelled"] ELSE attempt[a]]
  /\ UNCHANGED <<invoice, charge, journal, settlement, session, stored, acked, mapped, lock, job, faults>>

(* Thirty minutes pass.                                                    *)
Age(a) ==
  /\ attempt[a].fresh /\ attempt[a].status \in {"created", "redirected", "cancelled"}
  /\ attempt' = [attempt EXCEPT ![a].fresh = FALSE]
  /\ UNCHANGED <<invoice, charge, journal, settlement, session, stored, acked, mapped, lock, job, todo, faults>>

-----------------------------------------------------------------------------
(* The provider.  A session stays payable after the application cancelled  *)
(* the attempt.                                                            *)

CustomerPays(a) ==
  /\ session[a] = "offered"
  /\ session' = [session EXCEPT ![a] = "paid"]
  /\ UNCHANGED <<tables, stored, acked, mapped, lock, job, todo, faults>>

SessionExpires(a) ==
  /\ session[a] \in {"open", "offered"}
  /\ session' = [session EXCEPT ![a] = "expired"]
  /\ UNCHANGED <<tables, stored, acked, mapped, lock, job, todo, faults>>

Emitted == {<<"completed", a>> : a \in {b \in Attempts : session[b] = "paid"}}
             \cup {<<"expired", a>> : a \in {b \in Attempts : session[b] = "expired"}}

(* Repeated, in any order and at once, until it is acknowledged.           *)
Deliver(p, e) ==
  /\ job[p] = Idle /\ e \in Emitted \ acked
  /\ job' = [job EXCEPT ![p] = [Idle EXCEPT !.stage = e[1], !.row = e[2], !.event = e]]
  /\ UNCHANGED <<tables, session, stored, acked, mapped, lock, todo, faults>>

-----------------------------------------------------------------------------
(* Webhooks.                                                               *)

(* MUTANT of EventIsFree: an event that another delivery is storing does   *)
(* not hold this one up.                                                   *)
EventIsFreeAnyway(e) == TRUE

(* The unique index on the event's ID makes a second delivery wait for the *)
(* transaction of the first.                                               *)
EventIsFree(e) == \A o \in Procs : ~(job[o].event = e /\ job[o].stage = "record")

(* An event stored before: on PostgreSQL the commit after the failed       *)
(* insert fails, and the provider is told to try again; a database that    *)
(* goes on after it (the tests') runs the settlement again.                *)
Duplicate(p) ==
  /\ job[p].stage \in {"completed", "expired"} /\ job[p].event \in stored
  /\ \/ job' = [job EXCEPT ![p] = Idle] /\ UNCHANGED acked
     \/ job[p].stage = "completed" /\ Goto(p, "evaluate") /\ UNCHANGED acked
     \/ job[p].stage = "expired" /\ End(p)
  /\ UNCHANGED <<tables, session, stored, mapped, lock, todo, faults>>

(* MUTANT of IngestUnknown: a cancelled attempt is not looked for.         *)
IngestCancelled(p) ==
  /\ job[p].stage = "completed" /\ job[p].event \notin stored
  /\ EventIsFree(job[p].event)
  /\ ~attempt[job[p].row].ref \/ attempt[job[p].row].status = "cancelled"
  /\ stored' = stored \cup {job[p].event}
  /\ End(p)
  /\ UNCHANGED <<tables, session, mapped, lock, todo, faults>>

(* A session no attempt is known for, or one that succeeded before: the    *)
(* event is stored all the same.                                           *)
IngestUnknown(p) ==
  LET a == job[p].row
  IN /\ job[p].stage = "completed" /\ job[p].event \notin stored
     /\ EventIsFree(job[p].event)
     /\ ~attempt[a].ref \/ attempt[a].status = "payment_succeeded"
     /\ stored' = stored \cup {job[p].event}
     /\ IF attempt[a].ref THEN Goto(p, "evaluate") /\ UNCHANGED acked ELSE End(p)
     /\ UNCHANGED <<tables, session, mapped, lock, todo, faults>>

Confirms(p) ==
  LET a == job[p].row
  IN /\ job[p].stage = "completed" /\ job[p].event \notin stored
     /\ EventIsFree(job[p].event)
     /\ attempt[a].ref /\ attempt[a].status # "payment_succeeded"

(* MUTANT of IngestCompleted: the event is stored in a transaction of its  *)
(* own.                                                                    *)
IngestCompletedApart(p) ==
  /\ Confirms(p)
  /\ stored' = stored \cup {job[p].event}
  /\ Goto(p, "record")
  /\ UNCHANGED <<tables, session, acked, mapped, lock, todo, faults>>

(* The attempt, read without a lock.                                       *)
IngestCompleted(p) ==
  /\ Confirms(p)
  /\ Goto(p, "record")
  /\ UNCHANGED <<tables, session, stored, acked, mapped, lock, todo, faults>>

RecordCharge(p) ==
  LET a == job[p].row
  IN /\ job[p].stage = "record"
     /\ attempt' = [attempt EXCEPT ![a].status = "payment_succeeded"]
     /\ charge' = Append(charge, [attempt |-> a, posted |-> FALSE, applied |-> FALSE, used |-> 0])
     /\ stored' = stored \cup {job[p].event}
     /\ Goto(p, "evaluate")
     /\ UNCHANGED <<invoice, journal, settlement, session, acked, mapped, lock, todo, faults>>

IngestExpired(p) ==
  LET a == job[p].row
      open == attempt[a].ref /\ attempt[a].status \notin {"payment_succeeded", "cancelled"}
  IN /\ job[p].stage = "expired" /\ job[p].event \notin stored
     /\ stored' = stored \cup {job[p].event}
     /\ attempt' = [attempt EXCEPT ![a].status = IF open THEN "cancelled" ELSE @]
     /\ End(p)
     /\ UNCHANGED <<invoice, charge, journal, settlement, session, mapped, lock, todo, faults>>

-----------------------------------------------------------------------------
(* Settlement: ExecuteGatewaySettlement, after a webhook or on an          *)
(* operator's retry.                                                       *)

Outcome(p, what) == job' = [job EXCEPT ![p].stage = "persist", ![p].seen = what]

IsEligible(a) ==
  LET i == attempt[a].invoice
      k == ChargeOf(a)
  IN /\ IsPayable(i) /\ attempt[a].amount = invoice[i].balance
     /\ k # 0 /\ Unbooked(k) /\ mapped

(* RetryGatewaySettlement takes the invoice's latest attempt that          *)
(* succeeded.                                                              *)
Retry(p, r, a) ==
  LET done == Succeeded(Request[r].invoice)
  IN /\ a \in done /\ \A b \in done : b <= a
     /\ Start(p, r, "retry", "evaluate", a, 0)
     /\ UNCHANGED <<tables, session, stored, acked, mapped, lock, faults>>

(* TryAutoSettleAfterIngestion finds no attempt that succeeded.            *)
NothingToSettle(p) ==
  /\ job[p].stage = "evaluate" /\ attempt[job[p].row].status # "payment_succeeded"
  /\ End(p)
  /\ UNCHANGED <<tables, session, stored, mapped, lock, todo, faults>>

(* MUTANT of Evaluate: why a payment is not settled is only logged.        *)
EvaluateSilently(p) ==
  LET a == job[p].row
  IN /\ job[p].stage = "evaluate" /\ attempt[a].status = "payment_succeeded"
     /\ IF settlement[a] # 0 THEN Outcome(p, "applied") /\ UNCHANGED acked
        ELSE IF IsEligible(a) THEN Goto(p, "recheck") /\ UNCHANGED acked
        ELSE End(p)
     /\ UNCHANGED <<tables, session, stored, mapped, lock, todo, faults>>

(* The reads before the transaction.                                       *)
Evaluate(p) ==
  LET a == job[p].row
  IN /\ job[p].stage = "evaluate" /\ attempt[a].status = "payment_succeeded"
     /\ IF settlement[a] # 0 THEN Outcome(p, "applied")
        ELSE IF IsEligible(a) THEN Goto(p, "recheck")
        ELSE Outcome(p, "pending_review")
     /\ UNCHANGED <<tables, session, stored, acked, mapped, lock, todo, faults>>

(* The first statement of the transaction.                                 *)
RecheckSettled(p) ==
  /\ job[p].stage = "recheck"
  /\ IF settlement[job[p].row] # 0 THEN Outcome(p, "applied") ELSE Goto(p, "lock")
  /\ UNCHANGED <<tables, session, stored, acked, mapped, lock, todo, faults>>

(* MUTANT of StillEligible: what was read before the lock is trusted.      *)
StillEligibleAnyway(a) == TRUE

(* What is read again under the lock of the invoice.                       *)
StillEligible(a) ==
  /\ IsPayable(attempt[a].invoice) /\ attempt[a].amount = invoice[attempt[a].invoice].balance
  /\ Unbooked(ChargeOf(a))

LockInvoice(p) ==
  LET i == attempt[job[p].row].invoice
  IN /\ job[p].stage = "lock" /\ lock[i] = None
     /\ IF StillEligible(job[p].row)
        THEN Goto(p, "settle") /\ lock' = [lock EXCEPT ![i] = p]
        ELSE Outcome(p, "pending_review") /\ UNCHANGED lock
     /\ UNCHANGED <<tables, session, stored, acked, mapped, todo, faults>>

Booked(k, by) == Append(journal, [charge |-> k, by |-> by])

Settle(p) ==
  LET a == job[p].row
      i == attempt[a].invoice
      k == ChargeOf(a)
  IN /\ job[p].stage = "settle" /\ KeyIsFree(k)
     /\ journal' = Booked(k, "settlement")
     /\ charge' = [charge EXCEPT ![k] = [@ EXCEPT !.posted = TRUE, !.applied = TRUE,
                                                  !.used = attempt[a].amount]]
     /\ invoice' = [invoice EXCEPT ![i].balance = 0, ![i].status = "paid"]
     /\ settlement' = [settlement EXCEPT ![a] = k]
     /\ lock' = Free(p)
     /\ Outcome(p, "applied")
     /\ UNCHANGED <<attempt, session, stored, acked, mapped, todo, faults>>

(* The charge was posted by hand since it was read: its entry is there.    *)
SettleFails(p) ==
  /\ job[p].stage = "settle" /\ ~KeyIsFree(ChargeOf(job[p].row))
  /\ lock' = Free(p)
  /\ Outcome(p, "failed")
  /\ UNCHANGED <<tables, session, stored, acked, mapped, todo, faults>>

(* persistSettlementOutcome, after the transaction.                        *)
Persist(p) ==
  /\ job[p].stage = "persist"
  /\ attempt' = [attempt EXCEPT ![job[p].row].outcome = job[p].seen]
  /\ End(p)
  /\ UNCHANGED <<invoice, charge, journal, settlement, session, stored, mapped, lock, todo, faults>>

-----------------------------------------------------------------------------
(* The operator.                                                           *)

(* The checks of a posting come before its transaction.                    *)
BeginPost(p, r) ==
  \E k \in DOMAIN charge :
    /\ ~charge[k].posted /\ mapped
    /\ Start(p, r, "post", "post", k, 0)
    /\ UNCHANGED <<tables, session, stored, acked, mapped, lock, faults>>

Post(p) ==
  LET k == job[p].row
  IN /\ job[p].stage = "post"
     /\ IF KeyIsFree(k)
        THEN journal' = Booked(k, "posting") /\ charge' = [charge EXCEPT ![k].posted = TRUE]
        ELSE UNCHANGED <<journal, charge>>
     /\ End(p)
     /\ UNCHANGED <<invoice, attempt, settlement, session, stored, mapped, lock, todo, faults>>

(* A call that is a single step, when nobody holds the invoice's row.      *)
AtOnce(r, kind, i) ==
  /\ Ask(r, kind) /\ lock[i] = None
  /\ UNCHANGED <<attempt, settlement, session, stored, acked, mapped, lock, job, faults>>

Paid(i, amount) ==
  LET rest == invoice[i].balance - amount
  IN [invoice EXCEPT ![i].balance = rest,
                     ![i].status = IF rest = 0 THEN "paid" ELSE "partially_paid"]

(* ApplyPaymentTransactionToInvoice: what exceeds the balance is credit.   *)
Apply(r) ==
  \E k \in DOMAIN charge :
    LET a == charge[k].attempt
        i == attempt[a].invoice
        used == Min({attempt[a].amount, invoice[i].balance})
    IN /\ AtOnce(r, "apply", i)
       /\ charge[k].posted /\ ~charge[k].applied /\ IsPayable(i)
       /\ invoice' = Paid(i, used)
       /\ charge' = [charge EXCEPT ![k].applied = TRUE, ![k].used = used]
       /\ UNCHANGED journal

(* Receive Payment                                                         *)
Receive(r) ==
  LET i == Request[r].invoice
  IN /\ AtOnce(r, "receive", i)
     /\ IsPayable(i) /\ Request[r].amount <= invoice[i].balance
     /\ invoice' = [Paid(i, Request[r].amount) EXCEPT ![i].received = @ + Request[r].amount]
     /\ UNCHANGED <<charge, journal>>

(* A voided invoice: nothing was applied to it.                            *)
Void(r) ==
  LET i == Request[r].invoice
  IN /\ AtOnce(r, "void", i)
     /\ invoice[i].status = "issued"
     /\ \A k \in DOMAIN charge : charge[k].applied => attempt[charge[k].attempt].invoice # i
     /\ invoice' = [invoice EXCEPT ![i].status = "voided", ![i].balance = 0]
     /\ UNCHANGED <<charge, journal>>

(* SavePaymentAccountingMapping                                            *)
Configure(r) ==
  /\ Ask(r, "configure")
  /\ mapped' = TRUE
  /\ UNCHANGED <<tables, session, stored, acked, lock, job, faults>>

-----------------------------------------------------------------------------
(* A process dies; its transaction is rolled back.                         *)
Crash(p) ==
  /\ job[p] # Idle /\ faults < MaxFaults
  /\ faults' = faults + 1
  /\ lock' = Free(p)
  /\ job' = [job EXCEPT ![p] = Idle]
  /\ UNCHANGED <<tables, session, stored, acked, mapped, todo>>

Step(p) ==
  \/ FindInFlight(p) \/ CallProvider(p) \/ ProviderFails(p) \/ Redirect(p)
  \/ Duplicate(p) \/ IngestUnknown(p) \/ IngestCompleted(p) \/ RecordCharge(p)
  \/ IngestExpired(p) \/ NothingToSettle(p) \/ Evaluate(p) \/ RecheckSettled(p)
  \/ LockInvoice(p) \/ Settle(p) \/ SettleFails(p) \/ Persist(p) \/ Post(p)
  \/ \E a \in Attempts : Insert(p, a)

Provider(a) == Age(a) \/ CustomerPays(a) \/ SessionExpires(a)

Operator(r) == CancelCheckout(r) \/ Apply(r) \/ Receive(r) \/ Void(r) \/ Configure(r)

Next ==
  \/ \E p \in Procs : Step(p) \/ RedirectUnsaved(p) \/ Crash(p)
  \/ \E p \in Procs, r \in todo : BeginPay(p, r) \/ BeginPost(p, r)
  \/ \E p \in Procs, r \in todo, a \in Attempts : Retry(p, r, a)
  \/ \E p \in Procs, e \in Events : Deliver(p, e)
  \/ \E a \in Attempts : Provider(a)
  \/ \E r \in todo : Operator(r)

Spec == Init /\ [][Next]_vars

(* A request goes on until it ends.  The provider keeps delivering an      *)
(* event that was not acknowledged, and some handler is there to take it.  *)
Fairness ==
  /\ \A p \in Procs : WF_vars(Step(p))
  /\ \A e \in Events : SF_vars(\E p \in Procs : Deliver(p, e))

FairSpec == Spec /\ Fairness

-----------------------------------------------------------------------------
(* Properties.                                                             *)

(* BalanceIsCollected: what an invoice does not owe any more is what the   *)
(* charges applied to it and Receive Payment brought, however settlement,  *)
(* application by hand and payments cross.                                 *)
BalanceIsCollected ==
  \A i \in Invoices : invoice[i].status # "voided" =>
    LET paid == {k \in DOMAIN charge : attempt[charge[k].attempt].invoice = i}
    IN Amount[i] - invoice[i].balance =
         invoice[i].received + SumFunction([k \in paid |-> charge[k].used])

(* BookedOnce: a charge is posted exactly when it has its one journal      *)
(* entry; a settlement row stands for an entry the settlement wrote for a  *)
(* charge of that checkout, though the operator may post it by hand at the *)
(* same moment; and what the operator sees as applied is settled.          *)
BookedOnce ==
  LET Entries(k) == {n \in DOMAIN journal : journal[n].charge = k}
  IN /\ \A k \in DOMAIN charge :
          Cardinality(Entries(k)) = IF charge[k].posted THEN 1 ELSE 0
     /\ \A a \in Attempts : settlement[a] # 0 =>
          /\ charge[settlement[a]].attempt = a /\ charge[settlement[a]].applied
          /\ \E n \in Entries(settlement[a]) : journal[n].by = "settlement"
     /\ \A a \in Attempts : attempt[a].outcome = "applied" => settlement[a] # 0

(* OneChargePerSession: however often and however concurrently the         *)
(* provider delivers it, a confirmed payment is one charge.                *)
OneChargePerSession ==
  \A k, n \in DOMAIN charge : charge[k].attempt = charge[n].attempt => k = n

(* StoredIsCharged: once the event of a payment of a known session is      *)
(* stored, and so never acted on again, its charge is there.               *)
StoredIsCharged ==
  \A a \in Attempts : <<"completed", a>> \in stored /\ attempt[a].ref => ChargeOf(a) # 0

(* SuccessIsFinal: no cancellation, expiry, redirect or late failure takes *)
(* a confirmed payment back.                                               *)
SuccessIsFinal ==
  [][\A a \in Attempts : attempt[a].status = "payment_succeeded"
                            => attempt'[a].status = "payment_succeeded"]_vars

(* PaidIsCharged: a payment of a session that the application knows is     *)
(* charged in the end, crashes and repeated deliveries included, also when *)
(* the customer had cancelled before paying.                               *)
PaidIsCharged ==
  \A a \in Attempts :
    (session[a] = "paid" /\ attempt[a].ref) ~> (attempt[a].status = "payment_succeeded")

(* VerifiedIsDecided: unless a request died, a confirmed payment ends      *)
(* settled or with a reason the operator sees.                             *)
VerifiedIsDecided ==
  \A a \in Attempts :
    (attempt[a].status = "payment_succeeded") ~> (attempt[a].outcome # "none" \/ faults > 0)
=============================================================================
