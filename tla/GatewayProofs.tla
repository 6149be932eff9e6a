---------------------------- MODULE GatewayProofs ----------------------------
(***************************************************************************)
(* What is proved of Gateway, for any number of processes, invoices and    *)
(* checkouts, any amounts, any requests and any number of faults.          *)
(*                                                                         *)
(* The argument is one of ownership: a checkout whose provider call is not *)
(* over is known to its process only and has no reference, so no event can *)
(* confirm it; a confirmation under way is the only one of its checkout;   *)
(* and a checkout has succeeded exactly when it has its charge.            *)
(*                                                                         *)
(* The money rests on it: a settlement takes the whole balance of its      *)
(* invoice, read under the lock of the invoice, and nobody else changes    *)
(* the invoice or its charges meanwhile; the sums are those of SumLemmas.  *)
(***************************************************************************)
EXTENDS Gateway, SumLemmas

AttemptOK(a) ==
  /\ DOMAIN attempt[a] = DOMAIN NoAttempt
  /\ attempt[a].ref \in BOOLEAN
  /\ attempt[a].status = "none" => ~attempt[a].ref /\ session[a] = "none"
  /\ attempt[a].status = "payment_succeeded" =>
       attempt[a].ref /\ \E k \in DOMAIN charge : charge[k].attempt = a
  /\ <<"completed", a>> \in stored =>
       session[a] = "paid" /\ (attempt[a].ref => attempt[a].status = "payment_succeeded")
  /\ attempt[a].outcome = "applied" => settlement[a] # 0

SettlementOK(a) ==
  settlement[a] # 0 =>
    /\ settlement[a] \in DOMAIN charge
    /\ charge[settlement[a]].attempt = a /\ charge[settlement[a]].applied
    /\ \E n \in DOMAIN journal : journal[n].charge = settlement[a] /\ journal[n].by = "settlement"

AttemptsOK ==
  /\ DOMAIN attempt = Attempts /\ DOMAIN session = Attempts /\ DOMAIN settlement = Attempts
  /\ \A a \in Attempts : AttemptOK(a) /\ SettlementOK(a)

ChargeOK(k) ==
  /\ DOMAIN charge[k] = {"attempt", "posted", "applied", "used"}
  /\ charge[k].attempt \in Attempts
  /\ attempt[charge[k].attempt].status = "payment_succeeded"
  /\ charge[k].posted \in BOOLEAN
  /\ charge[k].posted <=> \E n \in DOMAIN journal : journal[n].charge = k

ChargesOK ==
  /\ Len(charge) \in Nat /\ DOMAIN charge = 1..Len(charge)
  /\ \A k \in DOMAIN charge : ChargeOK(k)
  /\ OneChargePerSession

JournalOK ==
  /\ Len(journal) \in Nat /\ DOMAIN journal = 1..Len(journal)
  /\ \A n \in DOMAIN journal : journal[n].charge \in DOMAIN charge
  /\ \A n, m \in DOMAIN journal : journal[n].charge = journal[m].charge => n = m

Opening    == {"call", "redirect"}
Settling   == {"recheck", "lock", "settle"}
OfCheckout == Opening \cup Settling \cup {"completed", "expired", "record", "evaluate", "persist"}

JobOK(j) ==
  /\ DOMAIN j = DOMAIN Idle
  /\ j.stage \in OfCheckout => j.row \in Attempts
  /\ j.stage \in Opening => ~attempt[j.row].ref /\ attempt[j.row].status # "none"
  /\ j.stage = "call" => session[j.row] = "none"
  /\ j.stage = "redirect" => session[j.row] \notin {"offered", "paid"}
  /\ j.stage \in {"completed", "record"} => j.event = <<"completed", j.row>> /\ session[j.row] = "paid"
  /\ j.stage = "expired" => j.event = <<"expired", j.row>>
  /\ j.stage = "record" => attempt[j.row].ref /\ attempt[j.row].status # "payment_succeeded"
  /\ j.stage \in Settling => attempt[j.row].status = "payment_succeeded"
  /\ j.stage = "persist" /\ j.seen = "applied" => settlement[j.row] # 0
  /\ j.stage = "post" => j.row \in DOMAIN charge

Apart(i, j) ==
  /\ i.stage \in Opening /\ j.stage \in Opening => i.row # j.row
  /\ i.stage = "record" /\ j.stage = "record" => i.row # j.row

JobsOK ==
  /\ DOMAIN job = Procs
  /\ \A p \in Procs : JobOK(job[p])
  /\ \A p, q \in Procs : p # q => Apart(job[p], job[q])

IInv == AttemptsOK /\ ChargesOK /\ JournalOK /\ JobsOK

LEMMA InitInv == Init => IInv
<1> SUFFICES ASSUME Init PROVE IInv
  OBVIOUS
<1>1. charge = <<>> /\ journal = <<>> /\ stored = {} /\ Len(charge) = 0 /\ Len(journal) = 0
  BY DEF Init
<1>2. DOMAIN charge = {} /\ DOMAIN journal = {}
  BY <1>1
<1>3. AttemptsOK
  BY <1>1 DEF Init, AttemptsOK, AttemptOK, SettlementOK, NoAttempt
<1>4. ChargesOK
  BY <1>1, <1>2 DEF ChargesOK, OneChargePerSession
<1>5. JournalOK
  BY <1>1, <1>2 DEF JournalOK
<1>6. JobsOK
  BY DEF Init, JobsOK, JobOK, Apart, Idle, OfCheckout, Opening, Settling
<1> QED BY <1>3, <1>4, <1>5, <1>6 DEF IInv

-----------------------------------------------------------------------------
(* A checkout that succeeded has one charge, and ChargeOf finds it.        *)
LEMMA ChargeFound ==
  ASSUME IInv, NEW a \in Attempts, attempt[a].status = "payment_succeeded"
  PROVE  ChargeOf(a) \in DOMAIN charge /\ charge[ChargeOf(a)].attempt = a /\ ChargeOf(a) # 0
<1>1. PICK k \in DOMAIN charge : charge[k].attempt = a
  BY DEF IInv, AttemptsOK, AttemptOK
<1> DEFINE ks == {n \in DOMAIN charge : charge[n].attempt = a}
<1>2. ks = {k} /\ k \in Nat \ {0}
  BY <1>1 DEF IInv, ChargesOK, OneChargePerSession
<1>3. Min({k}) = k
  BY <1>2 DEF Min
<1> QED BY <1>1, <1>2, <1>3 DEF ChargeOf

NoWrites == UNCHANGED <<attempt, session, stored, charge, journal, settlement>>

(* Process p goes on, the others stay where they are.                      *)
Moves(p) == DOMAIN job' = Procs /\ \A q \in Procs \ {p} : job'[q] = job[q]

(* A step of one process that writes none of the tables the argument is    *)
(* about, and is not about to open a checkout.                             *)
Quiet(p) ==
  /\ NoWrites /\ Moves(p) /\ JobOK(job[p])'
  /\ job'[p].stage \notin Opening
  /\ job'[p].stage = "record" =>
       \A q \in Procs \ {p} : job[q].stage = "record" => job[q].row # job'[p].row

LEMMA QuietStep ==
  ASSUME IInv, NEW p \in Procs, Quiet(p)
  PROVE  IInv'
<1>1. AttemptsOK' /\ ChargesOK' /\ JournalOK'
  <2>1. AttemptsOK'
    BY DEF Quiet, IInv, NoWrites, AttemptsOK, AttemptOK, SettlementOK
  <2>2. ChargesOK'
    BY DEF Quiet, IInv, NoWrites, ChargesOK, ChargeOK, OneChargePerSession
  <2>3. JournalOK'
    BY DEF Quiet, IInv, NoWrites, JournalOK
  <2> QED BY <2>1, <2>2, <2>3
<1>2. \A q \in Procs : JobOK(job[q])'
  BY DEF Quiet, IInv, JobsOK, JobOK, NoWrites, Moves
<1>3. \A q, r \in Procs : q # r => Apart(job[q], job[r])'
  BY DEF Quiet, IInv, JobsOK, Apart, NoWrites, Moves
<1> QED BY <1>1, <1>2, <1>3 DEF Quiet, IInv, JobsOK, Moves

LEMMA QuietActions ==
  ASSUME IInv, NEW p \in Procs
  PROVE  /\ FindInFlight(p) => Quiet(p)
         /\ Duplicate(p) => Quiet(p)
         /\ IngestCompleted(p) => Quiet(p)
         /\ NothingToSettle(p) => Quiet(p)
         /\ Evaluate(p) => Quiet(p)
         /\ RecheckSettled(p) => Quiet(p)
         /\ LockInvoice(p) => Quiet(p)
         /\ SettleFails(p) => Quiet(p)
         /\ Crash(p) => Quiet(p)
         /\ \A r \in todo : BeginPay(p, r) => Quiet(p)
         /\ \A r \in todo : BeginPost(p, r) => Quiet(p)
         /\ \A r \in todo, a \in Attempts : Retry(p, r, a) => Quiet(p)
         /\ \A e \in Events : Deliver(p, e) => Quiet(p)
<1> USE DEF Quiet, NoWrites, Moves, JobOK, Opening, Settling, OfCheckout, Idle, tables
<1>0. /\ DOMAIN job = Procs /\ JobOK(job[p]) /\ AttemptsOK
      /\ \A q \in Procs : DOMAIN job[q] = DOMAIN Idle
  BY DEF IInv, JobsOK
<1>1. FindInFlight(p) => Quiet(p)
  BY <1>0 DEF FindInFlight, End, Goto
<1>2. Duplicate(p) => Quiet(p)
  BY <1>0 DEF Duplicate, End, Goto
<1>3. IngestCompleted(p) => Quiet(p)
  BY <1>0 DEF IngestCompleted, Confirms, EventIsFree, Goto, IInv, JobsOK
<1>4. NothingToSettle(p) => Quiet(p)
  BY <1>0 DEF NothingToSettle, End
<1>5. Evaluate(p) => Quiet(p)
  BY <1>0 DEF Evaluate, Outcome, Goto
<1>6. RecheckSettled(p) => Quiet(p)
  BY <1>0 DEF RecheckSettled, Outcome, Goto
<1>7. LockInvoice(p) => Quiet(p)
  BY <1>0 DEF LockInvoice, Outcome, Goto
<1>8. SettleFails(p) => Quiet(p)
  BY <1>0 DEF SettleFails, Outcome
<1>9. Crash(p) => Quiet(p)
  BY <1>0 DEF Crash
<1>10. \A r \in todo : BeginPay(p, r) => Quiet(p)
  BY <1>0 DEF BeginPay, Start
<1>11. \A r \in todo : BeginPost(p, r) => Quiet(p)
  BY <1>0 DEF BeginPost, Start
<1>12. \A r \in todo, a \in Attempts : Retry(p, r, a) => Quiet(p)
  BY <1>0 DEF Retry, Start
<1>13. \A e \in Events : Deliver(p, e) => Quiet(p)
  BY <1>0 DEF Deliver, Emitted, Events
<1> QED BY <1>1, <1>2, <1>3, <1>4, <1>5, <1>6, <1>7, <1>8, <1>9, <1>10, <1>11, <1>12, <1>13

-----------------------------------------------------------------------------
(* The steps that write a table, one lemma each.                           *)

(* The charges stay as they are while their checkouts stay succeeded.      *)
LEMMA ChargesStay ==
  ASSUME IInv, UNCHANGED <<charge, journal>>,
         \A a \in Attempts : attempt[a].status = "payment_succeeded"
                                => attempt'[a].status = "payment_succeeded"
  PROVE  ChargesOK' /\ JournalOK'
<1>1. \A k \in DOMAIN charge : ChargeOK(k)'
  BY DEF IInv, ChargesOK, ChargeOK
<1> QED BY <1>1 DEF IInv, ChargesOK, OneChargePerSession, JournalOK

LEMMA InsertStep ==
  ASSUME IInv, NEW p \in Procs, NEW a \in Attempts, Insert(p, a)
  PROVE  IInv'
<1> USE DEF IInv, AttemptsOK, Insert, IsNextRow
<1>1. /\ attempt[a].status = "none" /\ ~attempt[a].ref /\ session[a] = "none"
      /\ DOMAIN attempt' = Attempts /\ \A b \in Attempts \ {a} : attempt'[b] = attempt[b]
      /\ DOMAIN attempt'[a] = DOMAIN NoAttempt
      /\ attempt'[a].status = "created" /\ ~attempt'[a].ref /\ attempt'[a].ref \in BOOLEAN
      /\ attempt'[a].outcome = "none"
  BY DEF AttemptOK, NoAttempt
<1>2. AttemptsOK'
  BY <1>1 DEF AttemptOK, SettlementOK
<1>3. UNCHANGED <<charge, journal>>
  OBVIOUS
<1>4. ChargesOK' /\ JournalOK'
  BY <1>1, <1>3, ChargesStay
<1>5. /\ DOMAIN job' = Procs /\ \A q \in Procs \ {p} : job'[q] = job[q]
      /\ DOMAIN job'[p] = DOMAIN Idle /\ job'[p].stage = "call" /\ job'[p].row = a
  BY DEF JobsOK, JobOK, Idle
<1>6. JobsOK'
  BY <1>1, <1>5 DEF JobsOK, JobOK, Apart, OfCheckout, Opening, Settling
<1> QED BY <1>2, <1>4, <1>6

LEMMA CallProviderStep ==
  ASSUME IInv, NEW p \in Procs, CallProvider(p)
  PROVE  IInv'
<1> USE DEF IInv, AttemptsOK, CallProvider, tables, Goto
<1> DEFINE a == job[p].row
<1>1. /\ a \in Attempts /\ session[a] = "none" /\ ~attempt[a].ref /\ attempt[a].status # "none"
      /\ DOMAIN session' = Attempts /\ \A b \in Attempts \ {a} : session'[b] = session[b]
      /\ session'[a] = "open"
  BY DEF JobsOK, JobOK, OfCheckout, Opening
<1>2. AttemptsOK'
  BY <1>1 DEF AttemptOK, SettlementOK
<1>3. ChargesOK' /\ JournalOK'
  BY ChargesStay
<1>5. /\ DOMAIN job' = Procs /\ \A q \in Procs \ {p} : job'[q] = job[q]
      /\ DOMAIN job'[p] = DOMAIN Idle /\ job'[p].stage = "redirect" /\ job'[p].row = a
  BY DEF JobsOK, JobOK, Idle
<1>6. JobsOK'
  BY <1>1, <1>5 DEF JobsOK, JobOK, Apart, OfCheckout, Opening, Settling
<1> QED BY <1>2, <1>3, <1>6

LEMMA ProviderFailsStep ==
  ASSUME IInv, NEW p \in Procs, ProviderFails(p)
  PROVE  IInv'
<1> USE DEF IInv, AttemptsOK, ProviderFails, End
<1> DEFINE a == job[p].row
<1>1. /\ a \in Attempts /\ session[a] = "none" /\ ~attempt[a].ref /\ attempt[a].status # "none"
      /\ attempt[a].status # "payment_succeeded"
  BY DEF JobsOK, JobOK, OfCheckout, Opening, AttemptOK
<1>2. /\ DOMAIN attempt' = Attempts /\ \A b \in Attempts \ {a} : attempt'[b] = attempt[b]
      /\ DOMAIN attempt'[a] = DOMAIN NoAttempt /\ attempt'[a].status = "failed"
      /\ attempt'[a].ref = attempt[a].ref /\ attempt'[a].outcome = attempt[a].outcome
  BY <1>1 DEF AttemptOK, NoAttempt
<1>3. AttemptsOK'
  BY <1>1, <1>2 DEF AttemptOK, SettlementOK
<1>4. ChargesOK' /\ JournalOK'
  BY <1>1, <1>2, ChargesStay
<1>5. JobsOK'
  BY <1>1, <1>2 DEF JobsOK, JobOK, Apart, OfCheckout, Opening, Settling, Idle
<1> QED BY <1>3, <1>4, <1>5

(* The reference is written while no event of the session can have come.   *)
LEMMA RedirectStep ==
  ASSUME IInv, NEW p \in Procs, Redirect(p) \/ RedirectUnsaved(p)
  PROVE  IInv'
<1> USE DEF IInv, AttemptsOK, Redirect, RedirectUnsaved, Offer, End, tables
<1> DEFINE a == job[p].row
<1>1. /\ a \in Attempts /\ session[a] \notin {"offered", "paid"} /\ ~attempt[a].ref
      /\ attempt[a].status \notin {"none", "payment_succeeded"}
  BY DEF JobsOK, JobOK, OfCheckout, Opening, AttemptOK
<1>2. /\ DOMAIN attempt' = Attempts /\ \A b \in Attempts \ {a} : attempt'[b] = attempt[b]
      /\ DOMAIN attempt'[a] = DOMAIN NoAttempt
      /\ attempt'[a].status \notin {"none", "payment_succeeded"}
      /\ attempt'[a].ref \in BOOLEAN /\ attempt'[a].outcome = attempt[a].outcome
  <2>1. CASE Redirect(p)
    BY <1>1, <2>1 DEF AttemptOK, NoAttempt
  <2>2. CASE RedirectUnsaved(p)
    BY <1>1, <2>2 DEF AttemptOK
  <2> QED BY <2>1, <2>2
<1>3. /\ DOMAIN session' = Attempts /\ \A b \in Attempts \ {a} : session'[b] = session[b]
      /\ session'[a] # "paid"
  BY <1>1
<1>4. AttemptsOK'
  BY <1>1, <1>2, <1>3 DEF AttemptOK, SettlementOK
<1>5. ChargesOK' /\ JournalOK'
  BY <1>1, <1>2, ChargesStay
<1>6. /\ DOMAIN job' = Procs /\ \A q \in Procs \ {p} : job'[q] = job[q]
      /\ job'[p] = Idle
  BY DEF JobsOK
<1>7. JobsOK'
  BY <1>1, <1>2, <1>3, <1>6 DEF JobsOK, JobOK, Apart, OfCheckout, Opening, Settling, Idle
<1> QED BY <1>4, <1>5, <1>7

LEMMA CancelStep ==
  ASSUME IInv, NEW r, CancelCheckout(r)
  PROVE  IInv'
<1> USE DEF IInv, AttemptsOK, CancelCheckout, InFlight
<1>1. \A a \in Attempts : attempt'[a] = attempt[a] \/ attempt[a].status \in {"created", "redirected"}
  OBVIOUS
<1>2. /\ DOMAIN attempt' = Attempts
      /\ \A a \in Attempts : attempt'[a] = attempt[a]
                              \/ attempt'[a] = [attempt[a] EXCEPT !.status = "cancelled"]
  OBVIOUS
<1>3. \A a \in Attempts :
        /\ DOMAIN attempt'[a] = DOMAIN NoAttempt /\ attempt'[a].ref = attempt[a].ref
        /\ attempt'[a].outcome = attempt[a].outcome
        /\ \/ attempt'[a].status = attempt[a].status
           \/ attempt[a].status \in {"created", "redirected"} /\ attempt'[a].status = "cancelled"
  BY <1>1, <1>2 DEF AttemptOK, NoAttempt
<1>4. AttemptsOK'
  BY <1>2, <1>3 DEF AttemptOK, SettlementOK
<1>5. ChargesOK' /\ JournalOK'
  BY <1>3, ChargesStay
<1>6. JobsOK'
  BY <1>3 DEF JobsOK, JobOK, Apart, OfCheckout, Opening, Settling
<1> QED BY <1>4, <1>5, <1>6

LEMMA ProviderStep ==
  ASSUME IInv, NEW a \in Attempts, Provider(a)
  PROVE  IInv'
<1> USE DEF IInv, AttemptsOK, tables
<1>1. CASE Age(a)
  <2>1. /\ DOMAIN attempt' = Attempts /\ \A b \in Attempts \ {a} : attempt'[b] = attempt[b]
        /\ DOMAIN attempt'[a] = DOMAIN NoAttempt /\ attempt'[a].ref = attempt[a].ref
        /\ attempt'[a].status = attempt[a].status /\ attempt'[a].outcome = attempt[a].outcome
    BY <1>1 DEF Age, AttemptOK, NoAttempt
  <2>2. AttemptsOK'
    BY <1>1, <2>1 DEF Age, AttemptOK, SettlementOK
  <2>3. ChargesOK' /\ JournalOK'
    BY <1>1, <2>1, ChargesStay DEF Age
  <2>4. JobsOK'
    BY <1>1, <2>1 DEF Age, JobsOK, JobOK, Apart, OfCheckout, Opening, Settling
  <2> QED BY <2>2, <2>3, <2>4
<1>2. CASE CustomerPays(a) \/ SessionExpires(a)
  <2>1. /\ DOMAIN session' = Attempts /\ \A b \in Attempts \ {a} : session'[b] = session[b]
        /\ session[a] \notin {"none", "paid"} /\ session'[a] # "none"
        /\ \/ session'[a] = "paid" /\ session[a] = "offered"
           \/ session'[a] = "expired"
        /\ UNCHANGED <<tables, stored, job>>
    BY <1>2 DEF CustomerPays, SessionExpires
  <2>2. AttemptsOK'
    BY <2>1 DEF AttemptOK, SettlementOK
  <2>3. ChargesOK' /\ JournalOK'
    BY <2>1, ChargesStay
  <2>4. JobsOK'
    BY <2>1 DEF JobsOK, JobOK, Apart, OfCheckout, Opening, Settling
  <2> QED BY <2>2, <2>3, <2>4
<1> QED BY <1>1, <1>2 DEF Provider

LEMMA IngestUnknownStep ==
  ASSUME IInv, NEW p \in Procs, IngestUnknown(p)
  PROVE  IInv'
<1> USE DEF IInv, AttemptsOK, IngestUnknown, End, Goto, tables
<1> DEFINE a == job[p].row
<1>1. /\ a \in Attempts /\ job[p].event = <<"completed", a>> /\ session[a] = "paid"
      /\ stored' = stored \cup {<<"completed", a>>}
      /\ attempt[a].ref => attempt[a].status = "payment_succeeded"
  BY DEF JobsOK, JobOK, OfCheckout
<1>2. AttemptsOK'
  BY <1>1 DEF AttemptOK, SettlementOK
<1>3. ChargesOK' /\ JournalOK'
  BY ChargesStay
<1>4. JobsOK'
  BY <1>1 DEF JobsOK, JobOK, Apart, OfCheckout, Opening, Settling, Idle
<1> QED BY <1>2, <1>3, <1>4

(* One confirmation of a checkout is under way at a time, so the charge is *)
(* its first.                                                              *)
LEMMA RecordChargeStep ==
  ASSUME IInv, NEW p \in Procs, RecordCharge(p)
  PROVE  IInv'
<1> USE DEF IInv, AttemptsOK, RecordCharge, Goto
<1> DEFINE a == job[p].row
<1>0. PICK k : k = Len(charge) + 1
  OBVIOUS
<1>1. /\ a \in Attempts /\ job[p].event = <<"completed", a>> /\ session[a] = "paid"
      /\ attempt[a].ref /\ attempt[a].status # "payment_succeeded"
  BY DEF JobsOK, JobOK, OfCheckout
<1>2. /\ DOMAIN attempt' = Attempts /\ \A b \in Attempts \ {a} : attempt'[b] = attempt[b]
      /\ DOMAIN attempt'[a] = DOMAIN NoAttempt /\ attempt'[a].ref = attempt[a].ref
      /\ attempt'[a].status = "payment_succeeded" /\ attempt'[a].outcome = attempt[a].outcome
  BY <1>1 DEF AttemptOK, NoAttempt
<1>3. /\ Len(charge') = k /\ DOMAIN charge' = 1..k /\ DOMAIN charge' = DOMAIN charge \cup {k}
      /\ k \notin DOMAIN charge /\ Len(charge') \in Nat
      /\ charge'[k] = [attempt |-> a, posted |-> FALSE, applied |-> FALSE, used |-> 0]
      /\ \A n \in DOMAIN charge : charge'[n] = charge[n]
  BY <1>0 DEF ChargesOK
<1>4. \A n \in DOMAIN charge : charge[n].attempt # a
  BY <1>1 DEF ChargesOK, ChargeOK
<1>5. \A b \in Attempts : AttemptOK(b)' /\ SettlementOK(b)'
  <2> TAKE b \in Attempts
  <2>1. AttemptOK(b)'
    BY <1>1, <1>2, <1>3 DEF AttemptOK
  <2>2. SettlementOK(b)'
    BY <1>3 DEF SettlementOK
  <2> QED BY <2>1, <2>2
<1>6. \A n \in DOMAIN charge' : ChargeOK(n)'
  <2>1. ChargeOK(k)'
    <3>1. /\ DOMAIN charge'[k] = {"attempt", "posted", "applied", "used"}
          /\ charge'[k].attempt = a /\ charge'[k].posted = FALSE
      BY <1>3
    <3>2. journal' = journal /\ \A n \in DOMAIN journal : journal[n].charge # k
      BY <1>3 DEF JournalOK
    <3>3. charge'[k].posted \in BOOLEAN /\ ~\E n \in DOMAIN journal' : journal'[n].charge = k
      BY <3>1, <3>2
    <3>4. charge'[k].attempt \in Attempts /\ attempt'[charge'[k].attempt].status = "payment_succeeded"
      BY <1>1, <1>2, <3>1
    <3>5. charge'[k].posted <=> \E n \in DOMAIN journal' : journal'[n].charge = k
      BY <3>1, <3>3
    <3> QED BY <3>1, <3>3, <3>4, <3>5 DEF ChargeOK
  <2>2. \A n \in DOMAIN charge : ChargeOK(n)'
    BY <1>2, <1>3, <1>4 DEF ChargesOK, ChargeOK
  <2> QED BY <1>3, <2>1, <2>2
<1>7. OneChargePerSession'
  BY <1>3, <1>4 DEF ChargesOK, OneChargePerSession
<1>8. JournalOK'
  BY <1>3 DEF JournalOK
<1>9. /\ DOMAIN job' = Procs /\ \A q \in Procs \ {p} : job'[q] = job[q]
      /\ DOMAIN job'[p] = DOMAIN Idle /\ job'[p].stage = "evaluate" /\ job'[p].row = a
  BY DEF JobsOK, JobOK, Idle
<1>10. JobsOK'
  <2>1. \A q \in Procs \ {p} : JobOK(job[q])'
    BY <1>1, <1>2, <1>3, <1>9 DEF JobsOK, JobOK, Apart, OfCheckout, Opening, Settling
  <2>2. JobOK(job[p])'
    BY <1>1, <1>9 DEF JobOK, Opening, Settling
  <2>3. \A q, r \in Procs : q # r => Apart(job[q], job[r])'
    BY <1>9 DEF JobsOK, Apart, Opening
  <2> QED BY <1>9, <2>1, <2>2, <2>3 DEF JobsOK
<1> QED BY <1>2, <1>3, <1>5, <1>6, <1>7, <1>8, <1>10 DEF ChargesOK

LEMMA IngestExpiredStep ==
  ASSUME IInv, NEW p \in Procs, IngestExpired(p)
  PROVE  IInv'
<1> USE DEF IInv, AttemptsOK
<1> DEFINE a == job[p].row
<1>1. a \in Attempts /\ job[p].event = <<"expired", a>>
  BY DEF IngestExpired, JobsOK, JobOK, OfCheckout
<1>2. \A b \in Attempts : <<"completed", b>> \in stored' <=> <<"completed", b>> \in stored
  BY <1>1 DEF IngestExpired
<1>3. /\ DOMAIN attempt' = Attempts /\ \A b \in Attempts \ {a} : attempt'[b] = attempt[b]
      /\ DOMAIN attempt'[a] = DOMAIN NoAttempt /\ attempt'[a].ref = attempt[a].ref
      /\ attempt'[a].outcome = attempt[a].outcome
      /\ \/ attempt'[a].status = attempt[a].status
         \/ /\ attempt[a].ref /\ attempt[a].status # "payment_succeeded"
            /\ attempt'[a].status = "cancelled"
  BY <1>1 DEF IngestExpired, AttemptOK, NoAttempt
<1>4. UNCHANGED <<session, charge, journal, settlement>>
  BY DEF IngestExpired
<1>5. AttemptsOK'
  <2> SUFFICES ASSUME NEW b \in Attempts PROVE AttemptOK(b)' /\ SettlementOK(b)'
    BY <1>3, <1>4
  <2>1. AttemptOK(b)'
    BY <1>1, <1>2, <1>3, <1>4 DEF AttemptOK
  <2> QED BY <1>4, <2>1 DEF SettlementOK
<1>6. ChargesOK' /\ JournalOK'
  BY <1>3, <1>4, ChargesStay
<1>7. /\ DOMAIN job' = Procs /\ \A q \in Procs \ {p} : job'[q] = job[q]
      /\ job'[p] = Idle
  BY DEF IngestExpired, End, JobsOK
<1>8. \A q \in Procs : JobOK(job[q])'
  BY <1>1, <1>3, <1>4, <1>7 DEF JobsOK, JobOK, OfCheckout, Opening, Settling, Idle
<1>9. \A q, r \in Procs : q # r => Apart(job[q], job[r])'
  BY <1>7 DEF JobsOK, Apart, Opening, Idle
<1> QED BY <1>5, <1>6, <1>7, <1>8, <1>9 DEF JobsOK

LEMMA PersistStep ==
  ASSUME IInv, NEW p \in Procs, Persist(p)
  PROVE  IInv'
<1> USE DEF IInv, AttemptsOK, Persist, End
<1> DEFINE a == job[p].row
<1>1. a \in Attempts /\ (job[p].seen = "applied" => settlement[a] # 0)
  BY DEF JobsOK, JobOK, OfCheckout
<1>2. /\ DOMAIN attempt' = Attempts /\ \A b \in Attempts \ {a} : attempt'[b] = attempt[b]
      /\ DOMAIN attempt'[a] = DOMAIN NoAttempt /\ attempt'[a].ref = attempt[a].ref
      /\ attempt'[a].outcome = job[p].seen /\ attempt'[a].status = attempt[a].status
  BY <1>1 DEF AttemptOK, NoAttempt
<1>3. AttemptsOK'
  BY <1>1, <1>2 DEF AttemptOK, SettlementOK
<1>4. ChargesOK' /\ JournalOK'
  BY <1>2, ChargesStay
<1>5. JobsOK'
  BY <1>1, <1>2 DEF JobsOK, JobOK, Apart, OfCheckout, Opening, Settling, Idle
<1> QED BY <1>3, <1>4, <1>5

(* Booking charge k, which has no entry yet.                               *)
Books(k, by) ==
  /\ KeyIsFree(k)
  /\ journal' = Booked(k, by)
  /\ DOMAIN charge' = DOMAIN charge /\ Len(charge') = Len(charge)
  /\ \A n \in DOMAIN charge :
       /\ DOMAIN charge'[n] = DOMAIN charge[n]
       /\ charge'[n].attempt = charge[n].attempt
       /\ charge'[n].posted = (IF n = k THEN TRUE ELSE charge[n].posted)
       /\ charge[n].applied => charge'[n].applied

LEMMA BooksKeepsLedger ==
  ASSUME IInv, NEW k \in DOMAIN charge, NEW by, Books(k, by), UNCHANGED attempt
  PROVE  ChargesOK' /\ JournalOK'
<1>0. ChargesOK /\ JournalOK
  BY DEF IInv
<1>1. PICK m : m = Len(journal) + 1
  OBVIOUS
<1>2. /\ Len(journal') = m /\ DOMAIN journal' = 1..m /\ DOMAIN journal' = DOMAIN journal \cup {m}
      /\ m \notin DOMAIN journal /\ Len(journal') \in Nat
      /\ journal'[m] = [charge |-> k, by |-> by]
      /\ \A n \in DOMAIN journal : journal'[n] = journal[n]
  BY <1>0, <1>1 DEF Books, Booked, JournalOK
<1>3. /\ DOMAIN journal' = DOMAIN journal \cup {m} /\ journal'[m].charge = k
      /\ \A n \in DOMAIN journal : journal'[n] = journal[n]
  BY <1>2
<1>7. \A n \in DOMAIN journal : journal[n].charge # k
  BY DEF Books, KeyIsFree
<1>4. JournalOK'
  <2>1. \A n \in DOMAIN journal' : journal'[n].charge \in DOMAIN charge'
    BY <1>0, <1>3 DEF Books, JournalOK
  <2>2. \A n, x \in DOMAIN journal' : journal'[n].charge = journal'[x].charge => n = x
    BY <1>0, <1>3, <1>7 DEF JournalOK
  <2> QED BY <1>2, <2>1, <2>2 DEF JournalOK
<1>5. \A n \in DOMAIN charge : ChargeOK(n)'
  <2> SUFFICES ASSUME NEW n \in DOMAIN charge PROVE ChargeOK(n)'
    OBVIOUS
  <2>1. ChargeOK(n)
    BY <1>0 DEF ChargesOK
  <2>2. charge'[n].posted <=> \E x \in DOMAIN journal' : journal'[x].charge = n
    <3>1. CASE n = k
      <4>1. charge'[n].posted = TRUE
        BY <3>1 DEF Books
      <4>2. m \in DOMAIN journal' /\ journal'[m].charge = n
        BY <1>3, <3>1
      <4> QED BY <4>1, <4>2
    <3>2. CASE n # k
      <4>1. charge'[n].posted = charge[n].posted
        BY <3>2 DEF Books
      <4>2. (\E x \in DOMAIN journal' : journal'[x].charge = n)
              <=> \E x \in DOMAIN journal : journal[x].charge = n
        BY <1>3, <3>2
      <4> QED BY <2>1, <4>1, <4>2 DEF ChargeOK
    <3> QED BY <3>1, <3>2
  <2> QED BY <2>1, <2>2 DEF Books, ChargeOK
<1>6. OneChargePerSession'
  BY <1>0 DEF Books, ChargesOK, OneChargePerSession
<1> QED BY <1>0, <1>4, <1>5, <1>6 DEF Books, ChargesOK

LEMMA SettleStep ==
  ASSUME IInv, NEW p \in Procs, Settle(p)
  PROVE  IInv'
<1> USE DEF IInv, AttemptsOK
<1> DEFINE a == job[p].row
<1>1. a \in Attempts /\ attempt[a].status = "payment_succeeded"
  BY DEF Settle, JobsOK, JobOK, OfCheckout, Settling
<1>2. PICK k : k = ChargeOf(a)
  OBVIOUS
<1>3. k \in DOMAIN charge /\ charge[k].attempt = a /\ k # 0
  BY <1>1, <1>2, ChargeFound
<1>4. Books(k, "settlement") /\ charge'[k].applied
  <2>1. KeyIsFree(k) /\ journal' = Booked(k, "settlement")
    BY <1>2 DEF Settle
  <2>2. charge' = [charge EXCEPT ![k] = [@ EXCEPT !.posted = TRUE, !.applied = TRUE,
                                                  !.used = attempt[a].amount]]
    BY <1>2 DEF Settle
  <2>3. /\ DOMAIN charge' = DOMAIN charge /\ Len(charge') = Len(charge)
        /\ \A n \in DOMAIN charge \ {k} : charge'[n] = charge[n]
        /\ DOMAIN charge'[k] = DOMAIN charge[k] /\ charge'[k].attempt = charge[k].attempt
        /\ charge'[k].posted = TRUE /\ charge'[k].applied = TRUE
    BY <1>3, <2>2 DEF ChargesOK, ChargeOK
  <2> QED BY <2>1, <2>3 DEF Books
<1>5. UNCHANGED <<attempt, session, stored>>
  BY DEF Settle
<1>6. ChargesOK' /\ JournalOK'
  BY <1>3, <1>4, <1>5, BooksKeepsLedger
<1>7. /\ DOMAIN settlement' = Attempts /\ settlement'[a] = k
      /\ \A b \in Attempts \ {a} : settlement'[b] = settlement[b]
  BY <1>1, <1>2 DEF Settle
<1>8. \E n \in DOMAIN journal' : journal'[n].charge = k /\ journal'[n].by = "settlement"
  BY <1>4 DEF Books, Booked, JournalOK
<1>9. \A n \in DOMAIN journal : n \in DOMAIN journal' /\ journal'[n] = journal[n]
  BY <1>4 DEF Books, Booked, JournalOK
<1>10. AttemptsOK'
  <2> SUFFICES ASSUME NEW b \in Attempts PROVE AttemptOK(b)' /\ SettlementOK(b)'
    BY <1>5, <1>7
  <2>1. AttemptOK(b)'
    <3>1. (\E n \in DOMAIN charge : charge[n].attempt = b)
            => \E n \in DOMAIN charge' : charge'[n].attempt = b
      BY <1>4 DEF Books
    <3>2. settlement[b] # 0 => settlement'[b] # 0
      BY <1>3, <1>7
    <3> QED BY <1>5, <3>1, <3>2 DEF AttemptOK
  <2>2. SettlementOK(b)'
    <3>1. CASE b = a
      <4>1. settlement'[b] = k
        BY <1>7, <3>1
      <4>2. k \in DOMAIN charge' /\ charge'[k].attempt = b /\ charge'[k].applied
        BY <1>3, <1>4, <3>1 DEF Books
      <4> QED BY <1>8, <4>1, <4>2 DEF SettlementOK
    <3>2. CASE b # a
      <4>1. settlement'[b] = settlement[b] /\ SettlementOK(b)
        BY <1>7, <3>2
      <4>2. \A n \in DOMAIN charge : /\ n \in DOMAIN charge'
                                     /\ charge'[n].attempt = charge[n].attempt
                                     /\ charge[n].applied => charge'[n].applied
        BY <1>4 DEF Books
      <4> QED BY <1>9, <4>1, <4>2 DEF SettlementOK
    <3> QED BY <3>1, <3>2
  <2> QED BY <2>1, <2>2
<1>11. /\ DOMAIN job' = Procs /\ \A q \in Procs \ {p} : job'[q] = job[q]
       /\ DOMAIN job'[p] = DOMAIN Idle /\ job'[p].stage = "persist" /\ job'[p].row = a
  BY DEF Settle, Outcome, JobsOK, JobOK, Idle
<1>12. JobsOK'
  <2>1. \A q \in Procs : JobOK(job[q])'
    BY <1>1, <1>3, <1>4, <1>5, <1>7, <1>11 DEF JobsOK, JobOK, Books, OfCheckout, Opening, Settling
  <2>2. \A q, r \in Procs : q # r => Apart(job[q], job[r])'
    BY <1>11 DEF JobsOK, Apart, Opening
  <2> QED BY <1>11, <2>1, <2>2 DEF JobsOK
<1> QED BY <1>6, <1>10, <1>12

LEMMA PostStep ==
  ASSUME IInv, NEW p \in Procs, Post(p)
  PROVE  IInv'
<1> USE DEF IInv, AttemptsOK
<1>1. PICK k : k = job[p].row
  OBVIOUS
<1>2. k \in DOMAIN charge /\ UNCHANGED <<attempt, session, stored, settlement>>
  BY <1>1 DEF Post, JobsOK, JobOK
<1>3. Quiet(p) \/ Books(k, "posting")
  <2>1. Moves(p) /\ job'[p] = Idle
    BY DEF Post, End, JobsOK, Moves
  <2>2. CASE KeyIsFree(k)
    <3>1. journal' = Booked(k, "posting") /\ charge' = [charge EXCEPT ![k].posted = TRUE]
      BY <1>1, <2>2 DEF Post
    <3>2. /\ DOMAIN charge' = DOMAIN charge /\ Len(charge') = Len(charge)
          /\ \A n \in DOMAIN charge \ {k} : charge'[n] = charge[n]
          /\ DOMAIN charge'[k] = DOMAIN charge[k] /\ charge'[k].attempt = charge[k].attempt
          /\ charge'[k].posted = TRUE /\ charge'[k].applied = charge[k].applied
      BY <1>2, <3>1 DEF ChargesOK, ChargeOK
    <3> QED BY <2>2, <3>1, <3>2 DEF Books
  <2>3. CASE ~KeyIsFree(k)
    BY <1>1, <1>2, <2>1, <2>3 DEF Post, Quiet, NoWrites, JobOK, Opening, Settling, OfCheckout, Idle
  <2> QED BY <2>2, <2>3
<1>4. CASE Quiet(p)
  BY <1>4, QuietStep
<1>5. CASE Books(k, "posting")
  <2>1. ChargesOK' /\ JournalOK'
    BY <1>2, <1>5, BooksKeepsLedger
  <2>2. \A n \in DOMAIN journal : n \in DOMAIN journal' /\ journal'[n] = journal[n]
    BY <1>5 DEF Books, Booked, JournalOK
  <2>3. AttemptsOK'
    <3> SUFFICES ASSUME NEW b \in Attempts PROVE AttemptOK(b)' /\ SettlementOK(b)'
      BY <1>2
    <3>1. \A n \in DOMAIN charge : /\ n \in DOMAIN charge'
                                   /\ charge'[n].attempt = charge[n].attempt
                                   /\ charge[n].applied => charge'[n].applied
      BY <1>5 DEF Books
    <3>2. AttemptOK(b)'
      BY <1>2, <3>1 DEF AttemptOK
    <3>3. SettlementOK(b)'
      BY <1>2, <2>2, <3>1 DEF SettlementOK
    <3> QED BY <3>2, <3>3
  <2>4. /\ DOMAIN job' = Procs /\ \A q \in Procs \ {p} : job'[q] = job[q]
        /\ job'[p] = Idle
    BY DEF Post, End, JobsOK
  <2>5. \A q \in Procs : JobOK(job[q])'
    BY <1>2, <1>5, <2>4 DEF JobsOK, JobOK, Books, OfCheckout, Opening, Settling, Idle
  <2>6. \A q, r \in Procs : q # r => Apart(job[q], job[r])'
    BY <2>4 DEF JobsOK, Apart, Opening, Idle
  <2> QED BY <2>1, <2>3, <2>4, <2>5, <2>6 DEF JobsOK
<1> QED BY <1>3, <1>4, <1>5

(* What the operator does at once changes the applied charges at most.     *)
LEMMA OperatorStep ==
  ASSUME IInv, NEW r, Apply(r) \/ Receive(r) \/ Void(r) \/ Configure(r)
  PROVE  IInv'
<1> USE DEF IInv, AttemptsOK
<1>1. UNCHANGED <<attempt, session, stored, journal, settlement, job>>
  BY DEF Apply, Receive, Void, Configure, AtOnce, tables
<1>2. /\ DOMAIN charge' = DOMAIN charge /\ Len(charge') = Len(charge)
      /\ \A n \in DOMAIN charge :
           /\ DOMAIN charge'[n] = DOMAIN charge[n]
           /\ charge'[n].attempt = charge[n].attempt /\ charge'[n].posted = charge[n].posted
           /\ charge[n].applied => charge'[n].applied
  <2>1. CASE Apply(r)
    <3>1. PICK k, used :
            k \in DOMAIN charge /\ charge' = [charge EXCEPT ![k].applied = TRUE, ![k].used = used]
      BY <2>1 DEF Apply
    <3>2. DOMAIN charge[k] = {"attempt", "posted", "applied", "used"}
      BY <3>1 DEF ChargesOK, ChargeOK
    <3>3. /\ DOMAIN charge' = DOMAIN charge /\ Len(charge') = Len(charge)
          /\ \A n \in DOMAIN charge \ {k} : charge'[n] = charge[n]
          /\ DOMAIN charge'[k] = DOMAIN charge[k] /\ charge'[k].attempt = charge[k].attempt
          /\ charge'[k].posted = charge[k].posted /\ charge'[k].applied = TRUE
      BY <3>1, <3>2 DEF ChargesOK
    <3> QED BY <3>3
  <2>2. CASE Receive(r) \/ Void(r) \/ Configure(r)
    BY <2>2 DEF Receive, Void, Configure, tables
  <2> QED BY <2>1, <2>2
<1>3. AttemptsOK'
  BY <1>1, <1>2 DEF AttemptOK, SettlementOK
<1>4. ChargesOK' /\ JournalOK'
  BY <1>1, <1>2 DEF ChargesOK, ChargeOK, OneChargePerSession, JournalOK
<1>5. JobsOK'
  BY <1>1, <1>2 DEF JobsOK, JobOK, Apart
<1> QED BY <1>3, <1>4, <1>5

-----------------------------------------------------------------------------
LEMMA NextInv == IInv /\ [Next]_vars => IInv'
<1> SUFFICES ASSUME IInv, [Next]_vars PROVE IInv'
  OBVIOUS
<1>1. ASSUME NEW p \in Procs, Step(p) PROVE IInv'
  BY <1>1, QuietActions, QuietStep, InsertStep, CallProviderStep, ProviderFailsStep, RedirectStep,
     IngestUnknownStep, RecordChargeStep, IngestExpiredStep, SettleStep, PersistStep, PostStep
     DEF Step
<1>2. ASSUME NEW p \in Procs, RedirectUnsaved(p) \/ Crash(p) PROVE IInv'
  BY <1>2, RedirectStep, QuietActions, QuietStep
<1>3. ASSUME NEW p \in Procs, NEW r \in todo, BeginPay(p, r) \/ BeginPost(p, r) PROVE IInv'
  BY <1>3, QuietActions, QuietStep
<1>4. ASSUME NEW p \in Procs, NEW r \in todo, NEW a \in Attempts, Retry(p, r, a) PROVE IInv'
  BY <1>4, QuietActions, QuietStep
<1>5. ASSUME NEW p \in Procs, NEW e \in Events, Deliver(p, e) PROVE IInv'
  BY <1>5, QuietActions, QuietStep
<1>6. ASSUME NEW a \in Attempts, Provider(a) PROVE IInv'
  BY <1>6, ProviderStep
<1>7. ASSUME NEW r \in todo, Operator(r) PROVE IInv'
  BY <1>7, CancelStep, OperatorStep DEF Operator
<1>8. CASE UNCHANGED vars
  <2> USE <1>8 DEF vars, tables
  <2>1. AttemptsOK'
    BY DEF IInv, AttemptsOK, AttemptOK, SettlementOK
  <2>2. ChargesOK' /\ JournalOK'
    BY ChargesStay
  <2>3. JobsOK'
    BY DEF IInv, JobsOK, JobOK, Apart
  <2> QED BY <2>1, <2>2, <2>3 DEF IInv
<1> QED BY <1>1, <1>2, <1>3, <1>4, <1>5, <1>6, <1>7, <1>8 DEF Next

THEOREM Invariance == Spec => []IInv
<1> QED BY InitInv, NextInv, PTL DEF Spec

(* A payment that the provider confirms is one charge, however often and   *)
(* however concurrently its event is delivered.                            *)
THEOREM SessionsChargeOnce == Spec => []OneChargePerSession
<1>1. IInv => OneChargePerSession
  BY DEF IInv, ChargesOK
<1> QED BY Invariance, <1>1, PTL

(* An event is stored only with the charge it stands for.                  *)
THEOREM StoredEventsAreCharged == Spec => []StoredIsCharged
<1>1. IInv => StoredIsCharged
  BY ChargeFound DEF IInv, AttemptsOK, AttemptOK, StoredIsCharged
<1> QED BY Invariance, <1>1, PTL

(* A charge that is posted has one journal entry, and a settlement the     *)
(* entry it wrote.                                                         *)
THEOREM ChargesAreBookedOnce == Spec => []BookedOnce
<1> DEFINE Entries(k) == {n \in DOMAIN journal : journal[n].charge = k}
<1>1. ASSUME IInv, NEW k \in DOMAIN charge
      PROVE  Cardinality(Entries(k)) = IF charge[k].posted THEN 1 ELSE 0
  <2>1. charge[k].posted \in BOOLEAN /\ (charge[k].posted <=> Entries(k) # {})
    BY <1>1 DEF IInv, ChargesOK, ChargeOK
  <2>2. CASE charge[k].posted
    <3>1. PICK n \in DOMAIN journal : Entries(k) = {n}
      BY <1>1, <2>1, <2>2 DEF IInv, JournalOK
    <3> QED BY <2>2, <3>1, FS_Singleton
  <2>3. CASE ~charge[k].posted
    BY <2>1, <2>3, FS_EmptySet
  <2> QED BY <2>1, <2>2, <2>3
<1>2. IInv => BookedOnce
  <2> SUFFICES ASSUME IInv PROVE BookedOnce
    OBVIOUS
  <2>1. ASSUME NEW a \in Attempts, settlement[a] # 0
        PROVE  /\ charge[settlement[a]].attempt = a /\ charge[settlement[a]].applied
               /\ \E n \in Entries(settlement[a]) : journal[n].by = "settlement"
    BY <2>1 DEF IInv, AttemptsOK, SettlementOK
  <2>2. \A a \in Attempts : attempt[a].outcome = "applied" => settlement[a] # 0
    BY DEF IInv, AttemptsOK, AttemptOK
  <2> HIDE DEF IInv
  <2> QED BY <1>1, <2>1, <2>2 DEF BookedOnce
<1> QED BY Invariance, <1>2, PTL

(* The steps that write a status are kept from a checkout that succeeded.  *)
LEMMA SuccessStays ==
  ASSUME IInv, Next, NEW a \in Attempts, attempt[a].status = "payment_succeeded"
  PROVE  attempt'[a].status = "payment_succeeded"
<1> USE DEF IInv, AttemptsOK, AttemptOK, NoAttempt
<1>1. ASSUME NEW p \in Procs, Step(p) \/ RedirectUnsaved(p) \/ Crash(p)
      PROVE  attempt'[a].status = "payment_succeeded"
  <2>1. job[p].stage \in Opening => job[p].row # a
    BY DEF JobsOK, JobOK
  <2>2. CASE \E b \in Attempts : Insert(p, b)
    BY <2>2 DEF Insert, IsNextRow
  <2>3. CASE ProviderFails(p) \/ Redirect(p)
    BY <2>1, <2>3 DEF ProviderFails, Redirect, Opening
  <2>4. CASE RecordCharge(p)
    BY <2>4 DEF RecordCharge
  <2>5. CASE IngestExpired(p)
    BY <2>5 DEF IngestExpired
  <2>6. CASE Persist(p)
    BY <2>6 DEF Persist
  <2>7. CASE UNCHANGED attempt
    BY <2>7
  <2>8. \/ \E b \in Attempts : Insert(p, b)
        \/ ProviderFails(p) \/ Redirect(p) \/ RecordCharge(p) \/ IngestExpired(p) \/ Persist(p)
        \/ UNCHANGED attempt
    BY <1>1 DEF Step, FindInFlight, CallProvider, Duplicate, IngestUnknown, IngestCompleted,
                NothingToSettle, Evaluate, RecheckSettled, LockInvoice, Settle, SettleFails, Post,
                RedirectUnsaved, Crash, tables
  <2> QED BY <2>2, <2>3, <2>4, <2>5, <2>6, <2>7, <2>8
<1>2. ASSUME NEW b \in Attempts, Provider(b) PROVE attempt'[a].status = "payment_succeeded"
  BY <1>2 DEF Provider, Age, CustomerPays, SessionExpires, tables
<1>3. ASSUME NEW r \in todo, Operator(r) PROVE attempt'[a].status = "payment_succeeded"
  <2>1. CASE CancelCheckout(r)
    <3>1. a \notin InFlight(Request[r].invoice)
      BY DEF InFlight
    <3> QED BY <2>1, <3>1 DEF CancelCheckout
  <2>2. CASE Apply(r) \/ Receive(r) \/ Void(r) \/ Configure(r)
    BY <2>2 DEF Apply, Receive, Void, Configure, AtOnce, tables
  <2> QED BY <1>3, <2>1, <2>2 DEF Operator
<1>4. CASE UNCHANGED attempt
  BY <1>4
<1>5. (\E p \in Procs, r \in todo : BeginPay(p, r) \/ BeginPost(p, r)) => UNCHANGED attempt
  BY DEF BeginPay, BeginPost, tables
<1>6. (\E p \in Procs, r \in todo, b \in Attempts : Retry(p, r, b)) => UNCHANGED attempt
  BY DEF Retry, tables
<1>7. (\E p \in Procs, e \in Events : Deliver(p, e)) => UNCHANGED attempt
  BY DEF Deliver, tables
<1> QED BY <1>1, <1>2, <1>3, <1>4, <1>5, <1>6, <1>7 DEF Next

(* No cancellation, expiry, redirect or late failure takes a confirmed     *)
(* payment back.                                                           *)
THEOREM ConfirmedPaymentsStay == Spec => SuccessIsFinal
<1> DEFINE Stays == \A a \in Attempts : attempt[a].status = "payment_succeeded"
                                         => attempt'[a].status = "payment_succeeded"
<1>1. IInv /\ [Next]_vars => [Stays]_vars
  BY SuccessStays
<1> QED BY Invariance, <1>1, PTL DEF Spec, SuccessIsFinal

-----------------------------------------------------------------------------
(* The money: what an invoice does not owe any more is what was paid.  A   *)
(* settlement takes the whole balance, which it read under the lock of the *)
(* invoice, and nobody else changes the invoice or its charges meanwhile.  *)
InvoiceOK(row) ==
  DOMAIN row = {"status", "balance", "received"} /\ row.balance \in Int /\ row.received \in Int

AmountOK(row) == row.amount \in Int /\ (row.status # "none" => row.invoice \in Invoices)

UsedOK(row) == row.used \in Int /\ (~row.applied => row.used = 0)

SettlesOK(p) ==
  LET a == job[p].row
      i == attempt[a].invoice
  IN /\ lock[i] = p /\ IsPayable(i) /\ attempt[a].amount = invoice[i].balance
     /\ \A k \in DOMAIN charge : charge[k].attempt = a => ~charge[k].applied

JobMoney(p) ==
  /\ job[p].stage \in {"find", "insert"} => job[p].invoice \in Invoices /\ job[p].seen \in Int
  /\ job[p].stage = "settle" => SettlesOK(p)

UsedIn(rows, attempts, D, i) ==
  [k \in D |-> IF attempts[rows[k].attempt].invoice = i THEN rows[k].used ELSE 0]
UsedFor(i) == SumFunctionOnSet(UsedIn(charge, attempt, DOMAIN charge, i), DOMAIN charge)

CollectedOK(i) ==
  invoice[i].status # "voided" =>
    Amount[i] = invoice[i].balance + invoice[i].received + UsedFor(i)

MoneyOK ==
  /\ DOMAIN invoice = Invoices /\ DOMAIN lock = Invoices
  /\ todo \subseteq DOMAIN Request
  /\ \A a \in Attempts : AmountOK(attempt[a])
  /\ \A k \in DOMAIN charge : UsedOK(charge[k])
  /\ \A p \in Procs : JobMoney(p)
  /\ \A i \in Invoices : InvoiceOK(invoice[i]) /\ CollectedOK(i)

-----------------------------------------------------------------------------
LEMMA FiniteCharges == ASSUME IInv PROVE IsFiniteSet(DOMAIN charge)
BY FS_Interval DEF IInv, ChargesOK

LEMMA UsedInt ==
  ASSUME IInv, MoneyOK, NEW i
  PROVE  IntOn(UsedIn(charge, attempt, DOMAIN charge, i), DOMAIN charge) /\ UsedFor(i) \in Int
<1>1. \A k \in DOMAIN charge : charge[k].used \in Int
  BY DEF MoneyOK, UsedOK
<1>2. IntOn(UsedIn(charge, attempt, DOMAIN charge, i), DOMAIN charge)
  BY <1>1 DEF IntOn, UsedIn
<1> QED BY <1>2, FiniteCharges, SumInt DEF UsedFor

(* The invoice of a charge is that of its checkout, which succeeded.       *)
SameCheckouts ==
  \A a \in Attempts : attempt[a].status = "payment_succeeded"
                        => attempt'[a].invoice = attempt[a].invoice
                           /\ attempt'[a].amount = attempt[a].amount

SameCharges ==
  /\ DOMAIN charge' = DOMAIN charge
  /\ \A k \in DOMAIN charge : /\ charge'[k].attempt = charge[k].attempt
                              /\ charge'[k].applied = charge[k].applied
                              /\ charge'[k].used = charge[k].used

LEMMA ChargeKnown ==
  ASSUME IInv, NEW k \in DOMAIN charge
  PROVE  charge[k].attempt \in Attempts /\ attempt[charge[k].attempt].status = "payment_succeeded"
BY DEF IInv, ChargesOK, ChargeOK

LEMMA UsedStands ==
  ASSUME IInv, SameCheckouts, SameCharges, NEW i
  PROVE  UsedFor(i)' = UsedFor(i)
<1>1. \A k \in DOMAIN charge : attempt'[charge'[k].attempt].invoice = attempt[charge[k].attempt].invoice
                                /\ charge'[k].used = charge[k].used
  BY ChargeKnown DEF SameCheckouts, SameCharges
<1>2. UsedIn(charge', attempt', DOMAIN charge, i) = UsedIn(charge, attempt, DOMAIN charge, i)
  BY <1>1 DEF UsedIn
<1>3. DOMAIN charge' = DOMAIN charge
  BY DEF SameCharges
<1> QED BY <1>2, <1>3 DEF UsedFor

(* Charge k is applied to invoice c, with that amount.                     *)
LEMMA UsedMoves ==
  ASSUME IInv, MoneyOK, UNCHANGED attempt, DOMAIN charge' = DOMAIN charge,
         NEW k \in DOMAIN charge, NEW c, c = attempt[charge[k].attempt].invoice,
         ~charge[k].applied, NEW used \in Int, charge'[k].used = used,
         charge'[k].attempt = charge[k].attempt,
         \A n \in DOMAIN charge \ {k} : charge'[n] = charge[n], NEW i
  PROVE  UsedFor(i)' = UsedFor(i) + (IF i = c THEN used ELSE 0)
<1> DEFINE D == DOMAIN charge
           f == UsedIn(charge, attempt, D, i)
           g == UsedIn(charge', attempt, D, i)
<1>1. /\ \A n \in D : f[n] = IF attempt[charge[n].attempt].invoice = i THEN charge[n].used ELSE 0
      /\ \A n \in D : g[n] = IF attempt[charge'[n].attempt].invoice = i THEN charge'[n].used ELSE 0
  BY DEF UsedIn
<1>2. charge[k].used = 0
  BY DEF MoneyOK, UsedOK
<1>3. f[k] = 0 /\ g[k] = IF i = c THEN used ELSE 0
  BY <1>1, <1>2
<1>4. UsedFor(i) = SumFunctionOnSet(f, D) /\ UsedFor(i)' = SumFunctionOnSet(g, D)
  BY DEF UsedFor
<1>5. IntOn(f, D) /\ IsFiniteSet(D) /\ k \in D
  BY UsedInt, FiniteCharges
<1>6. \A n \in D \ {k} : g[n] = f[n]
  BY <1>1
<1> HIDE DEF D, f, g
<1>7. IntOn(g, D) /\ g[k] \in Int
  BY <1>3, <1>5, <1>6 DEF IntOn
<1>8. SumFunctionOnSet(g, D) = SumFunctionOnSet(f, D) - f[k] + g[k]
  BY <1>5, <1>6, <1>7, SumChange
<1>9. SumFunctionOnSet(f, D) \in Int
  BY <1>5, SumInt
<1> QED BY <1>3, <1>4, <1>7, <1>8, <1>9

-----------------------------------------------------------------------------
(* Steps that move no money.                                               *)
JobKeeps(p) == job'[p] = job[p] /\ \A i \in Invoices : lock[i] = p => lock'[i] = p

LEMMA CheckoutOf ==
  ASSUME IInv, NEW p \in Procs, job[p].stage = "settle"
  PROVE  job[p].row \in Attempts /\ attempt[job[p].row].status = "payment_succeeded"
BY DEF IInv, JobsOK, JobOK, OfCheckout, Settling

LEMMA MoneyStands ==
  ASSUME IInv, MoneyOK, UNCHANGED invoice, todo' \subseteq todo, SameCheckouts, SameCharges,
         \A a \in Attempts : AmountOK(attempt'[a]), DOMAIN lock' = Invoices,
         \A q \in Procs : JobKeeps(q) \/ JobMoney(q)'
  PROVE  MoneyOK'
<1>1. \A k \in DOMAIN charge' : UsedOK(charge'[k])
  BY DEF MoneyOK, UsedOK, SameCharges
<1>2. ASSUME NEW i \in Invoices PROVE InvoiceOK(invoice[i])' /\ CollectedOK(i)'
  <2>1. UsedFor(i)' = UsedFor(i)
    BY UsedStands
  <2> QED BY <2>1 DEF MoneyOK, InvoiceOK, CollectedOK
<1>3. ASSUME NEW q \in Procs, JobKeeps(q) PROVE JobMoney(q)'
  <2>1. JobMoney(q) /\ job'[q] = job[q]
    BY <1>3 DEF MoneyOK, JobKeeps
  <2>2. ASSUME job[q].stage = "settle" PROVE SettlesOK(q)'
    <3>1. PICK a, i : a = job[q].row /\ i = attempt[a].invoice
      OBVIOUS
    <3>2. /\ a \in Attempts /\ attempt[a].status = "payment_succeeded"
          /\ i \in Invoices
      BY <2>2, <3>1, CheckoutOf DEF MoneyOK, AmountOK
    <3>3. /\ lock[i] = q /\ IsPayable(i) /\ attempt[a].amount = invoice[i].balance
          /\ \A k \in DOMAIN charge : charge[k].attempt = a => ~charge[k].applied
      BY <2>1, <2>2, <3>1 DEF JobMoney, SettlesOK
    <3>4. attempt'[a].invoice = i /\ attempt'[a].amount = attempt[a].amount
      BY <3>1, <3>2 DEF SameCheckouts
    <3>5. lock'[i] = q /\ IsPayable(i)'
      BY <1>3, <3>2, <3>3 DEF JobKeeps, IsPayable
    <3>6. \A k \in DOMAIN charge' : charge'[k].attempt = a => ~charge'[k].applied
      BY <3>3 DEF SameCharges
    <3>7. job'[q].row = a
      BY <2>1, <3>1
    <3> QED BY <3>3, <3>4, <3>5, <3>6, <3>7 DEF SettlesOK
  <2> QED BY <2>1, <2>2 DEF JobMoney
<1>4. \A q \in Procs : JobMoney(q)'
  BY <1>3
<1>5. DOMAIN invoice' = Invoices /\ todo' \subseteq DOMAIN Request
  BY DEF MoneyOK
<1> QED BY <1>1, <1>2, <1>4, <1>5 DEF MoneyOK

(* A step of p alone, that keeps the locks of the others.                  *)
Turn(p) ==
  /\ UNCHANGED invoice /\ todo' \subseteq todo /\ SameCheckouts /\ SameCharges
  /\ \A a \in Attempts : AmountOK(attempt'[a])
  /\ lock' = lock \/ lock' = Free(p)
  /\ \A q \in Procs \ {p} : job'[q] = job[q]
  /\ job'[p].stage \notin {"find", "insert", "settle"}

LEMMA TurnStep ==
  ASSUME IInv, MoneyOK, NEW p \in Procs, Turn(p)
  PROVE  MoneyOK'
<1>1. DOMAIN lock' = Invoices /\ \A q \in Procs \ {p} : JobKeeps(q)
  BY DEF Turn, MoneyOK, JobKeeps, Free
<1>2. JobMoney(p)'
  BY DEF Turn, JobMoney
<1> QED BY <1>1, <1>2, MoneyStands DEF Turn

LEMMA StandingRows ==
  ASSUME MoneyOK
  PROVE  /\ UNCHANGED attempt => SameCheckouts /\ \A a \in Attempts : AmountOK(attempt'[a])
         /\ UNCHANGED charge => SameCharges
BY DEF MoneyOK, SameCheckouts, SameCharges

LEMMA Turns ==
  ASSUME IInv, MoneyOK, NEW p \in Procs
  PROVE  /\ CallProvider(p) => Turn(p)
         /\ RedirectUnsaved(p) => Turn(p)
         /\ Duplicate(p) => Turn(p)
         /\ IngestUnknown(p) => Turn(p)
         /\ IngestCompleted(p) => Turn(p)
         /\ NothingToSettle(p) => Turn(p)
         /\ Evaluate(p) => Turn(p)
         /\ RecheckSettled(p) => Turn(p)
         /\ SettleFails(p) => Turn(p)
         /\ Crash(p) => Turn(p)
         /\ \A r \in todo : BeginPost(p, r) => Turn(p)
         /\ \A r \in todo, a \in Attempts : Retry(p, r, a) => Turn(p)
         /\ \A e \in Events : Deliver(p, e) => Turn(p)
<1> USE StandingRows DEF Turn, tables, Idle, Goto, End, Outcome
<1>0. DOMAIN job = Procs /\ DOMAIN job[p] = DOMAIN Idle
  BY DEF IInv, JobsOK, JobOK
<1>1. CallProvider(p) => Turn(p)
  BY <1>0 DEF CallProvider
<1>2. RedirectUnsaved(p) => Turn(p)
  BY <1>0 DEF RedirectUnsaved
<1>3. Duplicate(p) => Turn(p)
  BY <1>0 DEF Duplicate
<1>4. IngestUnknown(p) => Turn(p)
  BY <1>0 DEF IngestUnknown
<1>5. IngestCompleted(p) => Turn(p)
  BY <1>0 DEF IngestCompleted
<1>6. NothingToSettle(p) => Turn(p)
  BY <1>0 DEF NothingToSettle
<1>7. Evaluate(p) => Turn(p)
  BY <1>0 DEF Evaluate
<1>8. RecheckSettled(p) => Turn(p)
  BY <1>0 DEF RecheckSettled
<1>9. SettleFails(p) => Turn(p)
  BY <1>0 DEF SettleFails
<1>10. Crash(p) => Turn(p)
  BY <1>0 DEF Crash
<1>11. \A r \in todo : BeginPost(p, r) => Turn(p)
  BY <1>0 DEF BeginPost, Start, Ask
<1>12. \A r \in todo, a \in Attempts : Retry(p, r, a) => Turn(p)
  BY <1>0 DEF Retry, Start, Ask
<1>13. \A e \in Events : Deliver(p, e) => Turn(p)
  BY <1>0 DEF Deliver, Events
<1> QED BY <1>1, <1>2, <1>3, <1>4, <1>5, <1>6, <1>7, <1>8, <1>9, <1>10, <1>11, <1>12, <1>13

(* A column of a checkout's row that is neither its invoice nor its amount.*)
LEMMA RowStands ==
  ASSUME MoneyOK, DOMAIN attempt' = Attempts,
         \A a \in Attempts : /\ attempt'[a].invoice = attempt[a].invoice
                             /\ attempt'[a].amount = attempt[a].amount
                             /\ attempt[a].status = "none" => attempt'[a].status = "none"
  PROVE  SameCheckouts /\ \A a \in Attempts : AmountOK(attempt'[a])
<1>1. \A a \in Attempts : AmountOK(attempt[a])
  BY DEF MoneyOK
<1>2. \A a \in Attempts : AmountOK(attempt'[a])
  BY <1>1 DEF AmountOK
<1> QED BY <1>2 DEF SameCheckouts

LEMMA StatusTurns ==
  ASSUME IInv, MoneyOK, NEW p \in Procs
  PROVE  /\ ProviderFails(p) => Turn(p)
         /\ Redirect(p) => Turn(p)
         /\ IngestExpired(p) => Turn(p)
         /\ Persist(p) => Turn(p)
<1> USE DEF Turn, tables, Idle, End
<1>0. /\ DOMAIN job = Procs /\ DOMAIN job[p] = DOMAIN Idle /\ JobOK(job[p])
      /\ AttemptsOK /\ \A a \in Attempts : AttemptOK(a)
  BY DEF IInv, JobsOK, JobOK, AttemptsOK
<1>1. \A a \in Attempts : DOMAIN attempt[a] = DOMAIN NoAttempt
  BY <1>0 DEF AttemptOK
<1>2. DOMAIN attempt = Attempts
  BY <1>0 DEF AttemptsOK
<1>3. ASSUME ProviderFails(p) PROVE Turn(p)
  <2>1. job[p].row \in Attempts /\ attempt[job[p].row].status # "none"
    BY <1>0, <1>3 DEF ProviderFails, JobOK, OfCheckout, Opening
  <2>2. attempt' = [attempt EXCEPT ![job[p].row].status = "failed"]
    BY <1>3 DEF ProviderFails
  <2>3. SameCheckouts /\ \A a \in Attempts : AmountOK(attempt'[a])
    BY <1>1, <1>2, <2>1, <2>2, RowStands DEF NoAttempt
  <2> QED BY <1>0, <1>3, <2>3, StandingRows DEF ProviderFails
<1>4. ASSUME Redirect(p) PROVE Turn(p)
  <2>1. job[p].row \in Attempts /\ attempt[job[p].row].status # "none"
    BY <1>0, <1>4 DEF Redirect, JobOK, OfCheckout, Opening
  <2>2. attempt' = [attempt EXCEPT ![job[p].row].ref = TRUE, ![job[p].row].status = "redirected"]
    BY <1>4 DEF Redirect
  <2>3. SameCheckouts /\ \A a \in Attempts : AmountOK(attempt'[a])
    BY <1>1, <1>2, <2>1, <2>2, RowStands DEF NoAttempt
  <2> QED BY <1>0, <1>4, <2>3, StandingRows DEF Redirect
<1>5. ASSUME IngestExpired(p) PROVE Turn(p)
  <2>1. job[p].row \in Attempts
    BY <1>0, <1>5 DEF IngestExpired, JobOK, OfCheckout
  <2>2. PICK status : /\ attempt' = [attempt EXCEPT ![job[p].row].status = status]
                      /\ attempt[job[p].row].status = "none" => status = "none"
    BY <1>0, <1>1, <1>2, <1>5, <2>1 DEF IngestExpired, AttemptOK, NoAttempt
  <2>3. SameCheckouts /\ \A a \in Attempts : AmountOK(attempt'[a])
    BY <1>1, <1>2, <2>1, <2>2, RowStands DEF NoAttempt
  <2> QED BY <1>0, <1>5, <2>3, StandingRows DEF IngestExpired
<1>6. ASSUME Persist(p) PROVE Turn(p)
  <2>1. job[p].row \in Attempts
    BY <1>0, <1>6 DEF Persist, JobOK, OfCheckout
  <2>2. attempt' = [attempt EXCEPT ![job[p].row].outcome = job[p].seen]
    BY <1>6 DEF Persist
  <2>3. SameCheckouts /\ \A a \in Attempts : AmountOK(attempt'[a])
    BY <1>1, <1>2, <2>1, <2>2, RowStands DEF NoAttempt
  <2> QED BY <1>0, <1>6, <2>3, StandingRows DEF Persist
<1> QED BY <1>3, <1>4, <1>5, <1>6

LEMMA PostTurns ==
  ASSUME IInv, MoneyOK, NEW p \in Procs, Post(p)
  PROVE  Turn(p)
<1>1. DOMAIN job = Procs /\ UNCHANGED <<invoice, attempt, todo, lock>> /\ job[p].row \in DOMAIN charge
  BY DEF IInv, JobsOK, JobOK, Post
<1>2. SameCharges
  <2>1. CASE KeyIsFree(job[p].row)
    <3>1. charge' = [charge EXCEPT ![job[p].row].posted = TRUE]
      BY <2>1 DEF Post
    <3>2. DOMAIN charge[job[p].row] = {"attempt", "posted", "applied", "used"}
      BY <1>1 DEF IInv, ChargesOK, ChargeOK
    <3> QED BY <1>1, <3>1, <3>2 DEF SameCharges
  <2>2. CASE ~KeyIsFree(job[p].row)
    BY <2>2 DEF Post, SameCharges
  <2> QED BY <2>1, <2>2
<1>3. job'[p] = Idle /\ \A q \in Procs \ {p} : job'[q] = job[q]
  BY <1>1 DEF Post, End
<1> QED BY <1>1, <1>2, <1>3, StandingRows DEF Turn, Idle

(* The checkout takes what is owed, less what the provider has collected.  *)
LEMMA MaxInt == ASSUME NEW x \in Int PROVE Max({0, x}) \in Int
<1>1. \E m \in {0, x} : \A n \in {0, x} : m >= n
  OBVIOUS
<1> QED BY <1>1 DEF Max

LEMMA VerifiedInt ==
  ASSUME IInv, MoneyOK, NEW i
  PROVE  Verified(i) \in Int
<1> DEFINE S == Succeeded(i)
           f == [a \in S |-> attempt[a].amount]
           T == {charge[k].attempt : k \in DOMAIN charge}
<1>1. \A a \in S : f[a] \in Int
  BY DEF MoneyOK, AmountOK, Succeeded
<1>2. S \subseteq T
  BY DEF Succeeded, IInv, AttemptsOK, AttemptOK
<1>3. IsFiniteSet(T)
  <2> DEFINE D == DOMAIN charge
             g == [k \in D |-> charge[k].attempt]
  <2>1. g \in [D -> T] /\ \A a \in T : \E k \in D : g[k] = a
    OBVIOUS
  <2> HIDE DEF g, T
  <2>2. g \in Surjection(D, T)
    BY <2>1 DEF Surjection
  <2> QED BY <2>2, FiniteCharges, FS_Surjection
<1>4. DOMAIN f = S /\ Verified(i) = SumFunction(f)
  BY DEF Verified
<1> HIDE DEF S, f, T
<1>5. IsFiniteSet(S) /\ IntOn(f, S)
  BY <1>1, <1>2, <1>3, FS_Subset DEF IntOn
<1>6. SumFunction(f) = SumFunctionOnSet(f, S)
  BY <1>4, SumFunctionIs
<1> QED BY <1>4, <1>5, <1>6, SumInt

LEMMA PayableInt ==
  ASSUME IInv, MoneyOK, NEW i \in Invoices, NEW balance \in Int
  PROVE  PayableAmount(i, balance) \in Int
<1>1. Verified(i) - (Amount[i] - balance) \in Int
  BY VerifiedInt, GatewayAssumption
<1>2. Unconsumed(i, balance) \in Int
  BY <1>1, MaxInt DEF Unconsumed
<1> QED BY <1>2 DEF PayableAmount

LEMMA PayStep ==
  ASSUME IInv, MoneyOK, NEW p \in Procs,
         FindInFlight(p) \/ \E r \in todo : BeginPay(p, r)
  PROVE  MoneyOK'
<1>1. /\ UNCHANGED <<invoice, attempt, charge, lock>> /\ todo' \subseteq todo
      /\ DOMAIN job = Procs /\ DOMAIN job[p] = DOMAIN Idle
  BY DEF FindInFlight, BeginPay, Start, Ask, tables, IInv, JobsOK, JobOK
<1>2. \A q \in Procs \ {p} : job'[q] = job[q]
  BY <1>1 DEF FindInFlight, BeginPay, Start, End, Goto
<1>3. JobMoney(p)'
  <2>1. CASE FindInFlight(p)
    <3>1. job[p].stage = "find" /\ job[p].invoice \in Invoices /\ job[p].seen \in Int
      BY <2>1 DEF FindInFlight, MoneyOK, JobMoney
    <3>2. job' = [job EXCEPT ![p] = Idle] \/ job' = [job EXCEPT ![p].stage = "insert"]
      BY <2>1 DEF FindInFlight, End, Goto
    <3>3. job'[p] = Idle \/ (/\ job'[p].stage = "insert" /\ job'[p].invoice = job[p].invoice
                             /\ job'[p].seen = job[p].seen)
      BY <1>1, <3>2 DEF Idle
    <3> QED BY <3>1, <3>3 DEF JobMoney, Idle
  <2>2. ASSUME NEW r \in todo, BeginPay(p, r) PROVE JobMoney(p)'
    <3>1. PICK i : i = Request[r].invoice
      OBVIOUS
    <3>2. i \in Invoices
      BY <3>1, GatewayAssumption DEF MoneyOK
    <3>3. invoice[i].balance \in Int
      BY <3>2 DEF MoneyOK, InvoiceOK
    <3>4. job'[p] = [stage |-> "find", invoice |-> i, row |-> 0, event |-> None,
                     seen |-> invoice[i].balance]
      BY <1>1, <2>2, <3>1 DEF BeginPay, Start
    <3> QED BY <3>2, <3>3, <3>4 DEF JobMoney
  <2> QED BY <2>1, <2>2
<1>4. \A q \in Procs \ {p} : JobKeeps(q)
  BY <1>1, <1>2 DEF JobKeeps
<1>5. DOMAIN lock' = Invoices
  BY <1>1 DEF MoneyOK
<1> QED BY <1>1, <1>3, <1>4, <1>5, StandingRows, MoneyStands

LEMMA InsertMoney ==
  ASSUME IInv, MoneyOK, NEW p \in Procs, NEW a \in Attempts, Insert(p, a)
  PROVE  MoneyOK'
<1>1. /\ UNCHANGED <<invoice, charge, lock, todo>> /\ attempt[a].status = "none"
      /\ DOMAIN job = Procs /\ DOMAIN job[p] = DOMAIN Idle /\ DOMAIN attempt = Attempts
  BY DEF Insert, IsNextRow, IInv, JobsOK, JobOK, AttemptsOK
<1>2. PICK i, amount : i = job[p].invoice /\ amount = PayableAmount(i, job[p].seen)
  OBVIOUS
<1>3. i \in Invoices /\ amount \in Int
  BY <1>2, PayableInt DEF Insert, MoneyOK, JobMoney
<1>4. attempt' = [attempt EXCEPT ![a] =
                    [NoAttempt EXCEPT !.invoice = i, !.status = "created", !.fresh = TRUE,
                                      !.amount = amount]]
  BY <1>2 DEF Insert
<1>5. /\ attempt'[a].invoice = i /\ attempt'[a].amount = amount
      /\ \A b \in Attempts \ {a} : attempt'[b] = attempt[b]
  BY <1>1, <1>4 DEF NoAttempt
<1>6. SameCheckouts /\ \A b \in Attempts : AmountOK(attempt'[b])
  BY <1>1, <1>3, <1>5 DEF SameCheckouts, MoneyOK, AmountOK
<1>7. job'[p].stage = "call" /\ \A q \in Procs \ {p} : job'[q] = job[q]
  BY <1>1 DEF Insert, Idle
<1>8. Turn(p)
  BY <1>1, <1>6, <1>7, StandingRows DEF Turn
<1> QED BY <1>8, TurnStep

LEMMA LockMoney ==
  ASSUME IInv, MoneyOK, NEW p \in Procs, LockInvoice(p)
  PROVE  MoneyOK'
<1>1. /\ UNCHANGED <<invoice, attempt, charge, todo>>
      /\ DOMAIN job = Procs /\ DOMAIN job[p] = DOMAIN Idle
  BY DEF LockInvoice, IInv, JobsOK, JobOK, tables
<1>2. CASE ~StillEligible(job[p].row)
  <2>1. Turn(p)
    BY <1>1, <1>2, StandingRows DEF LockInvoice, Turn, Outcome, Idle
  <2> QED BY <2>1, TurnStep
<1>3. CASE StillEligible(job[p].row)
  <2>1. PICK a, i, k : a = job[p].row /\ i = attempt[a].invoice /\ k = ChargeOf(a)
    OBVIOUS
  <2>2. a \in Attempts /\ attempt[a].status = "payment_succeeded"
    BY <2>1 DEF LockInvoice, IInv, JobsOK, JobOK, OfCheckout, Settling
  <2>3. i \in Invoices
    BY <2>1, <2>2 DEF MoneyOK, AmountOK
  <2>4. /\ lock[i] = None /\ lock' = [lock EXCEPT ![i] = p]
        /\ job' = [job EXCEPT ![p].stage = "settle"]
        /\ IsPayable(i) /\ attempt[a].amount = invoice[i].balance /\ ~charge[k].applied
    BY <1>3, <2>1 DEF LockInvoice, StillEligible, Unbooked, Goto
  <2>5. \A n \in DOMAIN charge : charge[n].attempt = a => ~charge[n].applied
    BY <2>1, <2>2, <2>4, ChargeFound DEF IInv, ChargesOK, OneChargePerSession
  <2>6. DOMAIN lock' = Invoices /\ lock'[i] = p /\ \A j \in Invoices \ {i} : lock'[j] = lock[j]
    BY <2>3, <2>4 DEF MoneyOK
  <2>7. job'[p].stage = "settle" /\ job'[p].row = a /\ \A q \in Procs \ {p} : job'[q] = job[q]
    BY <1>1, <2>1, <2>4 DEF Idle
  <2>8. SettlesOK(p)'
    BY <1>1, <2>1, <2>4, <2>5, <2>6, <2>7 DEF SettlesOK, IsPayable
  <2>9. JobMoney(p)'
    BY <2>7, <2>8 DEF JobMoney
  <2>10. \A q \in Procs \ {p} : JobKeeps(q)
    BY <2>4, <2>6, <2>7, GatewayAssumption DEF JobKeeps
  <2> QED BY <1>1, <2>6, <2>9, <2>10, StandingRows, MoneyStands
<1> QED BY <1>2, <1>3

(* A charge that is recorded brings nothing yet.                           *)
LEMMA RecordMoney ==
  ASSUME IInv, MoneyOK, NEW p \in Procs, RecordCharge(p)
  PROVE  MoneyOK'
<1>1. PICK a, n : a = job[p].row /\ n = Len(charge) + 1
  OBVIOUS
<1>2. /\ a \in Attempts /\ attempt[a].status # "payment_succeeded" /\ attempt[a].ref
      /\ DOMAIN attempt = Attempts /\ DOMAIN attempt[a] = DOMAIN NoAttempt
      /\ attempt[a].status # "none"
      /\ DOMAIN job = Procs /\ DOMAIN job[p] = DOMAIN Idle
  BY <1>1 DEF RecordCharge, IInv, JobsOK, JobOK, OfCheckout, AttemptsOK, AttemptOK
<1>3. UNCHANGED <<invoice, lock, todo>> /\ attempt' = [attempt EXCEPT ![a].status = "payment_succeeded"]
      /\ charge' = Append(charge, [attempt |-> a, posted |-> FALSE, applied |-> FALSE, used |-> 0])
      /\ job' = [job EXCEPT ![p].stage = "evaluate"]
  BY <1>1 DEF RecordCharge, Goto
<1>4. \A b \in Attempts : /\ attempt'[b].invoice = attempt[b].invoice
                          /\ attempt'[b].amount = attempt[b].amount
                          /\ attempt[b].status = "none" => attempt'[b].status = "none"
  BY <1>2, <1>3 DEF NoAttempt
<1>5. SameCheckouts /\ \A b \in Attempts : AmountOK(attempt'[b])
  BY <1>2, <1>3, <1>4, RowStands
<1>6. Len(charge) \in Nat /\ DOMAIN charge = 1..Len(charge)
  BY DEF IInv, ChargesOK
<1>7. /\ DOMAIN charge' = DOMAIN charge \cup {n} /\ n \notin DOMAIN charge
      /\ charge'[n] = [attempt |-> a, posted |-> FALSE, applied |-> FALSE, used |-> 0]
      /\ \A k \in DOMAIN charge : charge'[k] = charge[k]
  BY <1>1, <1>3, <1>6
<1>8. charge'[n].attempt = a /\ charge'[n].used = 0 /\ charge'[n].applied = FALSE
  BY <1>7
<1>9. \A k \in DOMAIN charge' : UsedOK(charge'[k])
  BY <1>7, <1>8 DEF MoneyOK, UsedOK
<1>10. ASSUME NEW i PROVE UsedFor(i)' = UsedFor(i)
  <2> DEFINE D == DOMAIN charge
             E == DOMAIN charge'
             f == UsedIn(charge, attempt, D, i)
             g == UsedIn(charge', attempt', E, i)
  <2>1. \A k \in D : attempt'[charge[k].attempt].invoice = attempt[charge[k].attempt].invoice
    BY <1>4, ChargeKnown
  <2>2. \A k \in D : g[k] = f[k]
    BY <1>7, <2>1 DEF UsedIn
  <2>3. g[n] = 0
    BY <1>7, <1>8 DEF UsedIn
  <2>4. IntOn(f, D) /\ IsFiniteSet(D) /\ UsedFor(i) \in Int
    BY UsedInt, FiniteCharges
  <2>5. UsedFor(i) = SumFunctionOnSet(f, D) /\ UsedFor(i)' = SumFunctionOnSet(g, E)
    BY DEF UsedFor
  <2>6. n \notin D /\ E = D \cup {n}
    BY <1>7
  <2> HIDE DEF D, E, f, g
  <2>7. g[n] \in Int
    BY <2>3
  <2>8. SumFunctionOnSet(g, E) = SumFunctionOnSet(f, D) + g[n]
    BY <2>2, <2>4, <2>6, <2>7, SumGrows
  <2> QED BY <2>3, <2>4, <2>5, <2>8
<1>11. ASSUME NEW i \in Invoices PROVE InvoiceOK(invoice[i])' /\ CollectedOK(i)'
  <2>1. UsedFor(i)' = UsedFor(i)
    BY <1>10
  <2> QED BY <1>3, <2>1 DEF MoneyOK, InvoiceOK, CollectedOK
<1>12. job'[p].stage = "evaluate" /\ \A q \in Procs \ {p} : job'[q] = job[q]
  BY <1>2, <1>3 DEF Idle
<1>13. ASSUME NEW q \in Procs PROVE JobMoney(q)'
  <2>1. CASE q = p
    BY <1>12, <2>1 DEF JobMoney
  <2>2. CASE q # p
    <3>1. job'[q] = job[q] /\ JobMoney(q)
      BY <1>12, <2>2 DEF MoneyOK
    <3>2. ASSUME job[q].stage = "settle" PROVE SettlesOK(q)'
      <4>1. PICK b : b = job[q].row
        OBVIOUS
      <4>2. b \in Attempts /\ b # a
        BY <1>2, <3>2, <4>1, CheckoutOf
      <4>3. /\ lock[attempt[b].invoice] = q /\ IsPayable(attempt[b].invoice)
            /\ attempt[b].amount = invoice[attempt[b].invoice].balance
            /\ \A k \in DOMAIN charge : charge[k].attempt = b => ~charge[k].applied
        BY <3>1, <3>2, <4>1 DEF JobMoney, SettlesOK
      <4>4. \A k \in DOMAIN charge' : charge'[k].attempt = b => ~charge'[k].applied
        BY <1>7, <1>8, <4>2, <4>3
      <4>5. attempt'[b].invoice = attempt[b].invoice /\ attempt'[b].amount = attempt[b].amount
        BY <1>4, <4>2
      <4> QED BY <1>3, <3>1, <4>1, <4>3, <4>4, <4>5 DEF SettlesOK, IsPayable
    <3> QED BY <3>1, <3>2 DEF JobMoney
  <2> QED BY <2>1, <2>2
<1> QED BY <1>3, <1>5, <1>9, <1>11, <1>13 DEF MoneyOK

(* Money moves on invoice c, whose row nobody else has locked: the balance *)
(* falls by what a charge or Receive Payment brings.                       *)
Brings(p, c, paid, received) ==
  /\ UNCHANGED attempt /\ todo' \subseteq todo /\ DOMAIN invoice' = Invoices
  /\ \A i \in Invoices \ {c} : invoice'[i] = invoice[i]
  /\ InvoiceOK(invoice'[c])
  /\ invoice'[c].balance = invoice[c].balance - paid - received
  /\ invoice'[c].received = invoice[c].received + received
  /\ invoice[c].status # "voided"
  /\ DOMAIN lock' = Invoices
  /\ \A q \in Procs : /\ lock[c] # q \/ q = p
                      /\ q # p => job'[q] = job[q] /\ \A i \in Invoices : lock[i] = q => lock'[i] = q

ChargesOutside(c) ==
  /\ DOMAIN charge' = DOMAIN charge
  /\ \A k \in DOMAIN charge :
       /\ attempt[charge[k].attempt].invoice # c => charge'[k] = charge[k]
       /\ charge'[k].attempt = charge[k].attempt

LEMMA OthersSettle ==
  ASSUME IInv, MoneyOK, NEW c \in Invoices, ChargesOutside(c), UNCHANGED attempt,
         \A i \in Invoices \ {c} : invoice'[i] = invoice[i],
         NEW q \in Procs, lock[c] # q, job'[q] = job[q],
         \A i \in Invoices : lock[i] = q => lock'[i] = q
  PROVE  JobMoney(q)'
<1>1. JobMoney(q)
  BY DEF MoneyOK
<1>2. ASSUME job[q].stage = "settle" PROVE SettlesOK(q)'
  <2>1. PICK a, i : a = job[q].row /\ i = attempt[a].invoice
    OBVIOUS
  <2>2. a \in Attempts /\ attempt[a].status = "payment_succeeded" /\ i \in Invoices
    BY <1>2, <2>1, CheckoutOf DEF MoneyOK, AmountOK
  <2>3. /\ lock[i] = q /\ IsPayable(i) /\ attempt[a].amount = invoice[i].balance
        /\ \A k \in DOMAIN charge : charge[k].attempt = a => ~charge[k].applied
    BY <1>1, <1>2, <2>1 DEF JobMoney, SettlesOK
  <2>4. i # c /\ lock'[i] = q /\ invoice'[i] = invoice[i]
    BY <2>2, <2>3
  <2>5. \A k \in DOMAIN charge' : charge'[k].attempt = a => ~charge'[k].applied
    BY <2>1, <2>3, <2>4 DEF ChargesOutside
  <2> QED BY <2>1, <2>3, <2>4, <2>5 DEF SettlesOK, IsPayable
<1> QED BY <1>1, <1>2 DEF JobMoney

LEMMA BringsMoney ==
  ASSUME IInv, MoneyOK, NEW p, NEW c \in Invoices, NEW paid \in Int, NEW received \in Int,
         Brings(p, c, paid, received), ChargesOutside(c),
         \A k \in DOMAIN charge : UsedOK(charge'[k]), p \in Procs => JobMoney(p)',
         \A i : UsedFor(i)' = UsedFor(i) + (IF i = c THEN paid ELSE 0)
  PROVE  MoneyOK'
<1>1. \A q \in Procs : JobMoney(q)'
  <2> SUFFICES ASSUME NEW q \in Procs PROVE JobMoney(q)'
    OBVIOUS
  <2>1. CASE q = p
    BY <2>1
  <2>2. CASE q # p
    BY <2>2, OthersSettle DEF Brings
  <2> QED BY <2>1, <2>2
<1>2. ASSUME NEW i \in Invoices PROVE InvoiceOK(invoice[i])' /\ CollectedOK(i)'
  <2>1. InvoiceOK(invoice[i]) /\ CollectedOK(i) /\ UsedFor(i) \in Int
    BY UsedInt DEF MoneyOK
  <2>2. UsedFor(i)' = UsedFor(i) + (IF i = c THEN paid ELSE 0)
    OBVIOUS
  <2>3. CASE i # c
    BY <2>1, <2>2, <2>3 DEF Brings, InvoiceOK, CollectedOK
  <2>4. CASE i = c
    <3>1. Amount[c] = invoice[c].balance + invoice[c].received + UsedFor(c)
      BY <2>1, <2>4 DEF CollectedOK, Brings
    <3>2. UsedFor(c)' = UsedFor(c) + paid
      BY <2>2, <2>4
    <3>3. invoice[c].balance \in Int /\ invoice[c].received \in Int /\ UsedFor(c) \in Int
      BY <2>1, <2>4 DEF InvoiceOK
    <3>4. /\ invoice'[c].balance = invoice[c].balance - paid - received
          /\ invoice'[c].received = invoice[c].received + received
          /\ InvoiceOK(invoice'[c])
      BY DEF Brings
    <3>5. Amount[c] = invoice'[c].balance + invoice'[c].received + UsedFor(c)'
      BY <3>1, <3>2, <3>3, <3>4
    <3> QED BY <2>4, <3>4, <3>5 DEF CollectedOK
  <2> QED BY <2>3, <2>4
<1>3. \A a \in Attempts : AmountOK(attempt'[a])
  BY DEF Brings, MoneyOK
<1>4. \A k \in DOMAIN charge' : UsedOK(charge'[k])
  BY DEF ChargesOutside
<1>5. DOMAIN invoice' = Invoices /\ DOMAIN lock' = Invoices /\ todo' \subseteq DOMAIN Request
  BY DEF Brings, MoneyOK
<1> QED BY <1>1, <1>2, <1>3, <1>4, <1>5 DEF MoneyOK

LEMMA SettleMoney ==
  ASSUME IInv, MoneyOK, NEW p \in Procs, Settle(p)
  PROVE  MoneyOK'
<1>1. PICK a, i, k, amount : /\ a = job[p].row /\ i = attempt[a].invoice /\ k = ChargeOf(a)
                             /\ amount = attempt[a].amount
  OBVIOUS
<1>2. job[p].stage = "settle" /\ DOMAIN job = Procs /\ DOMAIN job[p] = DOMAIN Idle
  BY DEF Settle, IInv, JobsOK, JobOK
<1>3. /\ a \in Attempts /\ attempt[a].status = "payment_succeeded"
      /\ i \in Invoices /\ amount \in Int
  BY <1>1, <1>2, CheckoutOf DEF MoneyOK, AmountOK
<1>4. k \in DOMAIN charge /\ charge[k].attempt = a
  BY <1>1, <1>3, ChargeFound
<1>5. /\ lock[i] = p /\ IsPayable(i) /\ amount = invoice[i].balance /\ ~charge[k].applied
  BY <1>1, <1>2, <1>4 DEF MoneyOK, JobMoney, SettlesOK
<1>6. /\ UNCHANGED <<attempt, todo>> /\ lock' = Free(p)
      /\ charge' = [charge EXCEPT ![k] = [@ EXCEPT !.posted = TRUE, !.applied = TRUE, !.used = amount]]
      /\ invoice' = [invoice EXCEPT ![i].balance = 0, ![i].status = "paid"]
      /\ job' = [job EXCEPT ![p].stage = "persist", ![p].seen = "applied"]
  BY <1>1 DEF Settle, Outcome
<1>7. DOMAIN charge[k] = {"attempt", "posted", "applied", "used"}
  BY <1>4 DEF IInv, ChargesOK, ChargeOK
<1>8. /\ DOMAIN charge' = DOMAIN charge /\ \A n \in DOMAIN charge \ {k} : charge'[n] = charge[n]
      /\ charge'[k].attempt = a /\ charge'[k].applied = TRUE /\ charge'[k].used = amount
  BY <1>4, <1>6, <1>7
<1>9. ChargesOutside(i)
  BY <1>1, <1>4, <1>8 DEF ChargesOutside
<1>10. \A n \in DOMAIN charge : UsedOK(charge'[n])
  BY <1>3, <1>8 DEF MoneyOK, UsedOK
<1>11. ASSUME NEW j PROVE UsedFor(j)' = UsedFor(j) + (IF j = i THEN amount ELSE 0)
  <2>1. i = attempt[charge[k].attempt].invoice /\ charge'[k].attempt = charge[k].attempt
    BY <1>1, <1>4, <1>8
  <2> QED BY <1>3, <1>4, <1>5, <1>6, <1>8, <2>1, UsedMoves
<1>12. job'[p].stage = "persist" /\ \A q \in Procs \ {p} : job'[q] = job[q]
  BY <1>2, <1>6 DEF Idle
<1>13. JobMoney(p)'
  BY <1>12 DEF JobMoney
<1>14. PICK zero \in Int : zero = 0
  OBVIOUS
<1>15. InvoiceOK(invoice[i]) /\ DOMAIN invoice = Invoices /\ DOMAIN lock = Invoices
  BY <1>3 DEF MoneyOK
<1>16. /\ DOMAIN invoice' = Invoices /\ \A j \in Invoices \ {i} : invoice'[j] = invoice[j]
       /\ InvoiceOK(invoice'[i])
       /\ invoice'[i].balance = 0 /\ invoice'[i].received = invoice[i].received
  BY <1>3, <1>6, <1>15 DEF InvoiceOK
<1>17. /\ invoice'[i].balance = invoice[i].balance - amount - zero
       /\ invoice'[i].received = invoice[i].received + zero
  BY <1>5, <1>14, <1>15, <1>16 DEF InvoiceOK
<1>18. /\ DOMAIN lock' = Invoices
       /\ \A q \in Procs : /\ lock[i] # q \/ q = p
                           /\ q # p => job'[q] = job[q] /\ \A j \in Invoices : lock[j] = q => lock'[j] = q
  BY <1>5, <1>6, <1>12 DEF Free
<1>19. Brings(p, i, amount, zero)
  BY <1>5, <1>6, <1>16, <1>17, <1>18 DEF Brings, IsPayable
<1> QED BY <1>3, <1>9, <1>10, <1>11, <1>13, <1>14, <1>19, BringsMoney

(* A call that is one step waits for the lock of the invoice.              *)
LEMMA MinInt == ASSUME NEW x \in Int, NEW y \in Int PROVE Min({x, y}) \in Int
<1>1. \E m \in {x, y} : \A n \in {x, y} : m <= n
  OBVIOUS
<1> QED BY <1>1 DEF Min

LEMMA PaidRow ==
  ASSUME MoneyOK, NEW c \in Invoices, NEW amount \in Int, NEW paid, paid = Paid(c, amount)
  PROVE  /\ DOMAIN paid = Invoices /\ \A i \in Invoices \ {c} : paid[i] = invoice[i]
         /\ InvoiceOK(paid[c]) /\ paid[c].balance = invoice[c].balance - amount
         /\ paid[c].received = invoice[c].received
<1>1. InvoiceOK(invoice[c]) /\ DOMAIN invoice = Invoices
  BY DEF MoneyOK
<1>2. PICK rest, status :
        /\ rest = invoice[c].balance - amount
        /\ status = IF rest = 0 THEN "paid" ELSE "partially_paid"
  OBVIOUS
<1>3. paid = [invoice EXCEPT ![c].balance = rest, ![c].status = status]
  BY <1>2 DEF Paid
<1>4. rest \in Int
  BY <1>1, <1>2 DEF InvoiceOK
<1> QED BY <1>1, <1>2, <1>3, <1>4 DEF InvoiceOK

LEMMA PaidBrings ==
  ASSUME IInv, MoneyOK, NEW c \in Invoices, IsPayable(c), lock[c] = None,
         UNCHANGED <<attempt, lock, job>>, todo' \subseteq todo,
         NEW paid \in Int, NEW received \in Int,
         DOMAIN invoice' = Invoices, \A i \in Invoices \ {c} : invoice'[i] = invoice[i],
         InvoiceOK(invoice'[c]),
         invoice'[c].balance = invoice[c].balance - paid - received,
         invoice'[c].received = invoice[c].received + received
  PROVE  Brings(None, c, paid, received)
<1>1. \A q \in Procs : lock[c] # q
  BY GatewayAssumption
<1> QED BY <1>1 DEF Brings, IsPayable, MoneyOK

LEMMA ApplyMoney ==
  ASSUME IInv, MoneyOK, NEW r, Apply(r)
  PROVE  MoneyOK'
<1>1. PICK k \in DOMAIN charge :
        LET a == charge[k].attempt
            i == attempt[a].invoice
            used == Min({attempt[a].amount, invoice[i].balance})
        IN /\ AtOnce(r, "apply", i) /\ ~charge[k].applied /\ IsPayable(i)
           /\ invoice' = Paid(i, used)
           /\ charge' = [charge EXCEPT ![k].applied = TRUE, ![k].used = used]
  BY DEF Apply
<1>2. PICK a, i, used : /\ a = charge[k].attempt /\ i = attempt[a].invoice
                        /\ used = Min({attempt[a].amount, invoice[i].balance})
  OBVIOUS
<1>3. /\ AtOnce(r, "apply", i) /\ ~charge[k].applied /\ IsPayable(i)
      /\ invoice' = Paid(i, used)
      /\ charge' = [charge EXCEPT ![k].applied = TRUE, ![k].used = used]
  BY <1>1, <1>2
<1>4. i \in Invoices /\ attempt[a].amount \in Int
  BY <1>2, ChargeKnown DEF MoneyOK, AmountOK
<1>5. used \in Int /\ invoice[i].balance \in Int /\ InvoiceOK(invoice[i])
  BY <1>2, <1>4, MinInt DEF MoneyOK, InvoiceOK
<1>6. DOMAIN charge[k] = {"attempt", "posted", "applied", "used"}
  BY DEF IInv, ChargesOK, ChargeOK
<1>7. /\ DOMAIN charge' = DOMAIN charge /\ \A n \in DOMAIN charge \ {k} : charge'[n] = charge[n]
      /\ charge'[k].attempt = a /\ charge'[k].applied = TRUE /\ charge'[k].used = used
  BY <1>2, <1>3, <1>6
<1>8. /\ lock[i] = None /\ UNCHANGED <<attempt, lock, job>> /\ todo' \subseteq todo
  BY <1>3 DEF AtOnce, Ask
<1>9. ChargesOutside(i)
  BY <1>2, <1>7 DEF ChargesOutside
<1>10. \A n \in DOMAIN charge : UsedOK(charge'[n])
  BY <1>5, <1>7 DEF MoneyOK, UsedOK
<1>11. ASSUME NEW j PROVE UsedFor(j)' = UsedFor(j) + (IF j = i THEN used ELSE 0)
  <2>1. i = attempt[charge[k].attempt].invoice /\ charge'[k].attempt = charge[k].attempt
    BY <1>2, <1>7
  <2> QED BY <1>3, <1>5, <1>7, <1>8, <2>1, UsedMoves
<1>12. PICK zero \in Int : zero = 0
  OBVIOUS
<1>13. /\ DOMAIN invoice' = Invoices /\ \A j \in Invoices \ {i} : invoice'[j] = invoice[j]
       /\ InvoiceOK(invoice'[i]) /\ invoice'[i].balance = invoice[i].balance - used
       /\ invoice'[i].received = invoice[i].received
  BY <1>3, <1>4, <1>5, PaidRow
<1>14. /\ invoice'[i].balance = invoice[i].balance - used - zero
       /\ invoice'[i].received = invoice[i].received + zero
  BY <1>5, <1>12, <1>13 DEF InvoiceOK
<1>15. Brings(None, i, used, zero)
  BY <1>3, <1>4, <1>5, <1>8, <1>13, <1>14, PaidBrings
<1> QED BY <1>4, <1>5, <1>9, <1>10, <1>11, <1>12, <1>15, BringsMoney, GatewayAssumption

LEMMA ReceiveMoney ==
  ASSUME IInv, MoneyOK, NEW r \in todo, Receive(r)
  PROVE  MoneyOK'
<1>1. PICK i, amount, paid : /\ i = Request[r].invoice /\ amount = Request[r].amount
                             /\ paid = Paid(i, amount)
  OBVIOUS
<1>2. i \in Invoices /\ amount \in Int
  BY <1>1, GatewayAssumption DEF MoneyOK
<1>3. InvoiceOK(invoice[i])
  BY <1>2 DEF MoneyOK
<1>4. /\ lock[i] = None /\ UNCHANGED <<attempt, lock, job, charge>> /\ todo' \subseteq todo
      /\ IsPayable(i) /\ invoice' = [paid EXCEPT ![i].received = @ + amount]
  BY <1>1 DEF Receive, AtOnce, Ask
<1>5. PICK zero \in Int : zero = 0
  OBVIOUS
<1>6. /\ DOMAIN paid = Invoices /\ \A j \in Invoices \ {i} : paid[j] = invoice[j]
      /\ InvoiceOK(paid[i]) /\ paid[i].balance = invoice[i].balance - amount
      /\ paid[i].received = invoice[i].received
  BY <1>1, <1>2, PaidRow
<1>7. /\ DOMAIN invoice' = Invoices /\ \A j \in Invoices \ {i} : invoice'[j] = invoice[j]
      /\ InvoiceOK(invoice'[i]) /\ invoice'[i].balance = invoice[i].balance - zero - amount
      /\ invoice'[i].received = invoice[i].received + amount
  BY <1>2, <1>3, <1>4, <1>5, <1>6 DEF InvoiceOK
<1>8. Brings(None, i, zero, amount)
  BY <1>2, <1>4, <1>5, <1>7, PaidBrings
<1>9. ChargesOutside(i) /\ SameCharges /\ SameCheckouts
  BY <1>4 DEF ChargesOutside, SameCharges, SameCheckouts
<1>10. \A n \in DOMAIN charge : UsedOK(charge'[n])
  BY <1>4 DEF MoneyOK
<1>11. ASSUME NEW j PROVE UsedFor(j)' = UsedFor(j) + (IF j = i THEN zero ELSE 0)
  <2>1. UsedFor(j)' = UsedFor(j) /\ UsedFor(j) \in Int
    BY <1>9, UsedStands, UsedInt
  <2> QED BY <1>5, <2>1
<1> QED BY <1>2, <1>5, <1>8, <1>9, <1>10, <1>11, BringsMoney, GatewayAssumption

(* A voided invoice owes nothing and is out of the account.                *)
LEMMA VoidMoney ==
  ASSUME IInv, MoneyOK, NEW r \in todo, Void(r)
  PROVE  MoneyOK'
<1>1. PICK c : c = Request[r].invoice
  OBVIOUS
<1>2. c \in Invoices
  BY <1>1, GatewayAssumption DEF MoneyOK
<1>3. /\ lock[c] = None /\ UNCHANGED <<attempt, lock, job, charge>> /\ todo' \subseteq todo
      /\ invoice' = [invoice EXCEPT ![c].status = "voided", ![c].balance = 0]
  BY <1>1 DEF Void, AtOnce, Ask
<1>4. InvoiceOK(invoice[c]) /\ DOMAIN invoice = Invoices
  BY <1>2 DEF MoneyOK
<1>5. /\ DOMAIN invoice' = Invoices /\ \A i \in Invoices \ {c} : invoice'[i] = invoice[i]
      /\ InvoiceOK(invoice'[c]) /\ invoice'[c].status = "voided"
  BY <1>2, <1>3, <1>4 DEF InvoiceOK
<1>6. ChargesOutside(c) /\ SameCharges /\ SameCheckouts
  BY <1>3 DEF ChargesOutside, SameCharges, SameCheckouts
<1>7. ASSUME NEW i \in Invoices PROVE InvoiceOK(invoice[i])' /\ CollectedOK(i)'
  <2>1. UsedFor(i)' = UsedFor(i)
    BY <1>6, UsedStands
  <2>2. CASE i = c
    BY <1>5, <2>2 DEF CollectedOK
  <2>3. CASE i # c
    BY <1>5, <2>1, <2>3 DEF CollectedOK, InvoiceOK, MoneyOK
  <2> QED BY <2>2, <2>3
<1>8. ASSUME NEW q \in Procs PROVE JobMoney(q)'
  <2>1. lock[c] # q /\ job'[q] = job[q] /\ \A i \in Invoices : lock[i] = q => lock'[i] = q
    BY <1>3, GatewayAssumption
  <2> QED BY <1>2, <1>3, <1>5, <1>6, <2>1, OthersSettle
<1> QED BY <1>3, <1>5, <1>7, <1>8 DEF MoneyOK


(* Steps of nobody's: the checkouts' status and age, the provider.         *)
LEMMA ProviderMoney ==
  ASSUME IInv, MoneyOK,
         \/ \E a \in Attempts : Provider(a)
         \/ \E r \in todo : CancelCheckout(r) \/ Configure(r)
  PROVE  MoneyOK'
<1>1. UNCHANGED <<invoice, charge, lock, job>> /\ todo' \subseteq todo
  BY DEF Provider, Age, CustomerPays, SessionExpires, CancelCheckout, Configure, Ask, tables
<1>2. \A a \in Attempts : DOMAIN attempt[a] = DOMAIN NoAttempt /\ DOMAIN attempt = Attempts
  BY DEF IInv, AttemptsOK, AttemptOK
<1>3. SameCheckouts /\ \A a \in Attempts : AmountOK(attempt'[a])
  <2>1. CASE UNCHANGED attempt
    BY <2>1, StandingRows
  <2>2. CASE \E a \in Attempts : Age(a)
    <3>1. PICK a \in Attempts : attempt' = [attempt EXCEPT ![a].fresh = FALSE]
      BY <2>2 DEF Age
    <3> QED BY <1>2, <3>1, RowStands DEF NoAttempt
  <2>3. CASE \E r \in todo : CancelCheckout(r)
    <3>1. PICK S : attempt' = [a \in Attempts |-> IF a \in S THEN [attempt[a] EXCEPT !.status = "cancelled"]
                                                  ELSE attempt[a]]
                   /\ \A a \in S : attempt[a].status # "none"
      BY <2>3 DEF CancelCheckout, InFlight
    <3> QED BY <1>2, <3>1, RowStands DEF NoAttempt
  <2> QED BY <2>1, <2>2, <2>3 DEF Provider, CustomerPays, SessionExpires, Configure, tables
<1>4. \A q \in Procs : JobKeeps(q)
  BY <1>1 DEF JobKeeps
<1> QED BY <1>1, <1>3, <1>4, StandingRows, MoneyStands DEF MoneyOK

LEMMA MoneyNext ==
  ASSUME IInv, MoneyOK, [Next]_vars
  PROVE  MoneyOK'
<1>1. ASSUME NEW p \in Procs, Step(p) PROVE MoneyOK'
  BY <1>1, Turns, StatusTurns, PostTurns, TurnStep, PayStep, InsertMoney, LockMoney, RecordMoney,
     SettleMoney DEF Step
<1>2. ASSUME NEW p \in Procs, RedirectUnsaved(p) \/ Crash(p) PROVE MoneyOK'
  BY <1>2, Turns, TurnStep
<1>3. ASSUME NEW p \in Procs, NEW r \in todo, BeginPay(p, r) \/ BeginPost(p, r) PROVE MoneyOK'
  BY <1>3, Turns, TurnStep, PayStep
<1>4. ASSUME NEW p \in Procs, NEW r \in todo, NEW a \in Attempts, Retry(p, r, a) PROVE MoneyOK'
  BY <1>4, Turns, TurnStep
<1>5. ASSUME NEW p \in Procs, NEW e \in Events, Deliver(p, e) PROVE MoneyOK'
  BY <1>5, Turns, TurnStep
<1>6. ASSUME NEW a \in Attempts, Provider(a) PROVE MoneyOK'
  BY <1>6, ProviderMoney
<1>7. ASSUME NEW r \in todo, Operator(r) PROVE MoneyOK'
  BY <1>7, ProviderMoney, ApplyMoney, ReceiveMoney, VoidMoney DEF Operator
<1>8. CASE UNCHANGED vars
  <2>1. UNCHANGED <<invoice, attempt, charge, lock, job, todo>>
    BY <1>8 DEF vars, tables
  <2>2. \A q \in Procs : JobKeeps(q)
    BY <2>1 DEF JobKeeps
  <2> QED BY <2>1, <2>2, StandingRows, MoneyStands DEF MoneyOK
<1> QED BY <1>1, <1>2, <1>3, <1>4, <1>5, <1>6, <1>7, <1>8 DEF Next

LEMMA MoneyInit == Init => MoneyOK
<1> SUFFICES ASSUME Init PROVE MoneyOK
  OBVIOUS
<1>1. /\ DOMAIN charge = {} /\ DOMAIN invoice = Invoices /\ DOMAIN lock = Invoices
      /\ todo \subseteq DOMAIN Request
      /\ \A a \in Attempts : attempt[a].amount = 0 /\ attempt[a].status = "none"
      /\ \A p \in Procs : job[p].stage = "idle"
  BY GatewayAssumption DEF Init, NoAttempt, Idle
<1>2. ASSUME NEW i \in Invoices PROVE InvoiceOK(invoice[i]) /\ CollectedOK(i)
  <2>1. invoice[i] = [status |-> "issued", balance |-> Amount[i], received |-> 0] /\ Amount[i] \in Int
    BY GatewayAssumption DEF Init
  <2>2. UsedFor(i) = 0
    BY <1>1, SumEmpty DEF UsedFor
  <2> QED BY <2>1, <2>2 DEF InvoiceOK, CollectedOK
<1> QED BY <1>1, <1>2 DEF MoneyOK, AmountOK, UsedOK, JobMoney

LEMMA Collected ==
  ASSUME IInv, MoneyOK
  PROVE  BalanceIsCollected
<1> SUFFICES ASSUME NEW i \in Invoices, invoice[i].status # "voided",
                    NEW paid, paid = {k \in DOMAIN charge : attempt[charge[k].attempt].invoice = i}
             PROVE  Amount[i] - invoice[i].balance
                      = invoice[i].received + SumFunction([k \in paid |-> charge[k].used])
  BY DEF BalanceIsCollected
<1> DEFINE D == DOMAIN charge
           f == UsedIn(charge, attempt, D, i)
           g == [k \in paid |-> charge[k].used]
<1>1. IntOn(f, D) /\ UsedFor(i) \in Int /\ IsFiniteSet(D) /\ paid \in SUBSET D
  BY UsedInt, FiniteCharges
<1>2. (\A k \in D \ paid : f[k] = 0) /\ \A k \in paid : g[k] = f[k]
  BY DEF UsedIn
<1>3. UsedFor(i) = SumFunctionOnSet(f, D)
  BY DEF UsedFor
<1>4. DOMAIN g = paid
  OBVIOUS
<1>5. /\ Amount[i] = invoice[i].balance + invoice[i].received + UsedFor(i)
      /\ invoice[i].balance \in Int /\ invoice[i].received \in Int
  BY DEF MoneyOK, CollectedOK, InvoiceOK
<1> HIDE DEF D, f, g
<1>6. IntOn(f, paid) /\ IsFiniteSet(paid)
  BY <1>1, FS_Subset DEF IntOn
<1>7. SumFunctionOnSet(f, D) = SumFunctionOnSet(f, paid)
  BY <1>1, <1>2, <1>6, SumSupport
<1>8. SumFunction(g) = SumFunctionOnSet(f, paid)
  BY <1>2, <1>4, <1>6, SumOfIs
<1>9. Amount[i] - invoice[i].balance = invoice[i].received + SumFunction(g)
  BY <1>1, <1>3, <1>5, <1>7, <1>8
<1> QED BY <1>9 DEF g

(* What an invoice does not owe any more is what the charges applied to it *)
(* and Receive Payment brought, however the automatic settlement, an       *)
(* operator's application and payments cross.                              *)
THEOREM BalancesAreCollected == Spec => []BalanceIsCollected
<1>1. IInv /\ MoneyOK /\ [Next]_vars => MoneyOK'
  BY MoneyNext
<1>2. IInv /\ MoneyOK => BalanceIsCollected
  BY Collected
<1> QED BY MoneyInit, <1>1, <1>2, Invariance, PTL DEF Spec
=============================================================================
