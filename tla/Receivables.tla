----------------------------- MODULE Receivables -----------------------------
(***************************************************************************)
(* The credits of a customer and the invoices they pay: customer deposits  *)
(* (customer_deposit_service.go), customer receipts                        *)
(* (customer_receipt_service.go), credit notes (credit_note_post.go,       *)
(* credit_note_service.go), Receive Payment (receive_payment.go), the void *)
(* of an invoice (invoice_void.go) and its being sent                      *)
(* (invoice_lifecycle_service.go).                                         *)
(*                                                                         *)
(* The three kinds of credit share a life: drafted, posted to the journal, *)
(* applied to invoices in part or in full, given back, voided.  A request  *)
(* reads rows before its transaction (Begin), locks and reads again inside *)
(* it what the code locks and reads there (Enter), and writes (a commit).  *)
(* One customer, base currency, amounts in cents.                          *)
(***************************************************************************)
EXTENDS Integers, FiniteSets, Functions

CONSTANTS
  Procs, Invoices, Credits,
  Amount,    \* the amount of each invoice, deposit, receipt and credit note
  Kind,      \* of each credit: "deposit", "receipt" or "note"
  Link,      \* the invoice a credit note was raised for, or None
  Created,   \* the deposits that payments create from what they overpay
  Request,   \* what each request asks for
  Workloads, \* the sets of requests that users may bring
  Overlap,   \* the pairs of request kinds that users bring at the same time
  None

Docs == Invoices \cup Credits

Positive == Nat \ {0}

(* The credits a payment may use.                                          *)
Usable == {c \in Credits : Kind[c] \in {"deposit", "note"}}

IsFunctionOn(f, D, R) == DOMAIN f \subseteq D /\ f \in [DOMAIN f -> R]

Kinds == {"post", "apply", "unapply", "void", "pay", "voidInvoice", "send"}

ASSUME ReceivablesAssumption ==
  /\ Invoices \subseteq Nat /\ Credits \subseteq Nat /\ Invoices \cap Credits = {}
  /\ IsFiniteSet(Docs)
  /\ Amount \in [Docs -> Nat]
  /\ Kind \in [Credits -> {"deposit", "receipt", "note"}]
  /\ Link \in [Credits -> Invoices \cup {None}]
  /\ Created \subseteq {c \in Credits : Kind[c] = "deposit"}
  /\ None \notin Procs /\ None \notin Nat
  /\ \A workload \in Workloads : workload \subseteq DOMAIN Request
  /\ \A r \in DOMAIN Request :
       LET q == Request[r]
       IN /\ q.kind \in Kinds
          /\ q.kind \in {"post", "apply", "unapply", "void"} => q.credit \in Credits
          /\ q.kind \in {"apply", "unapply", "voidInvoice", "send"} => q.invoice \in Invoices
          /\ q.kind = "apply" => q.amount \in Positive
          /\ q.kind = "pay" => /\ IsFunctionOn(q.lines, Invoices, Positive)
                              /\ IsFunctionOn(q.uses, Usable, Positive)
                              /\ q.extra \in Nat /\ q.makes \in Created \cup {None}

VARIABLES
  doc,          \* invoices and credits: status, amount, what is left of it, journal entry
  applications, \* application rows of the three kinds, by request, credit and invoice
  settled,      \* the invoices with settlement_allocations rows of Receive Payment
  entries,      \* journal entries by source: their effect on each account
  lock,         \* the process that holds each row, or None
  seen,         \* the rows a process works with, as it read them
  job,          \* the request each process is making
  todo          \* the requests still to be made

tables == <<doc, applications, settled, entries>>
vars   == <<doc, applications, settled, entries, lock, seen, job, todo>>

Idle == [req |-> None, stage |-> "idle", app |-> None]

(* A journal entry by its effect, debits positive.                         *)
Entry(bank, ar, deposits, revenue) ==
  [bank |-> bank, ar |-> ar, deposits |-> deposits, revenue |-> revenue]

Reversal(entry) == [account \in DOMAIN entry |-> -entry[account]]

NothingSeen == [x \in {} |-> 0]

(* Posted invoices with nothing paid, drafts of the credits.               *)
Init ==
  /\ doc = [x \in Docs |->
              [status |-> IF x \in Invoices THEN "issued"
                          ELSE IF x \in Created THEN "none" ELSE "draft",
               amount |-> Amount[x], left |-> Amount[x],
               entry  |-> IF x \in Invoices THEN <<"post", x>> ELSE None]]
  /\ applications = [k \in {} |-> 0]
  /\ settled = {}
  /\ entries = [source \in {<<"post", i>> : i \in Invoices} |->
                  Entry(0, Amount[source[2]], 0, -Amount[source[2]])]
  /\ lock = [x \in Docs |-> None]
  /\ seen = [p \in Procs |-> NothingSeen]
  /\ job = [p \in Procs |-> Idle]
  /\ todo \in Workloads

-----------------------------------------------------------------------------
(* The rows a request touches.                                             *)

Live(k) == k \in DOMAIN applications /\ applications[k].live

AmountOf(S) == SumFunction([k \in S |-> applications[k].amount])

NotesOn(i) == {k \in DOMAIN applications :
                 Live(k) /\ k.invoice = i /\ Kind[k.credit] = "note"}

Linked(c) == IF Kind[c] = "note" /\ Link[c] # None THEN {Link[c]} ELSE {}

Touched(q) ==
  CASE q.kind = "post"        -> {q.credit} \cup Linked(q.credit)
    [] q.kind = "void"        -> {q.credit}
    [] q.kind = "pay"         -> DOMAIN q.lines \cup DOMAIN q.uses
    [] q.kind = "send"        -> {q.invoice}
    [] q.kind = "voidInvoice" -> {q.invoice} \cup {k.credit : k \in NotesOn(q.invoice)}
    [] OTHER                  -> {q.credit, q.invoice}

(* MUTANT of Locks: rows are read without FOR UPDATE.                      *)
LocksNone(q) == {}

(* What is read FOR UPDATE: deposits and receipts are applied without.     *)
Locks(q) ==
  CASE q.kind = "pay"         -> Touched(q)
    [] q.kind = "voidInvoice" -> {q.invoice}
    [] q.kind = "post"        -> IF Kind[q.credit] = "note" THEN Touched(q) ELSE {}
    [] q.kind = "apply"       -> IF Kind[q.credit] = "note" THEN {q.invoice} ELSE {}
    [] OTHER                  -> {}

(* Inside the transaction a request reads what it locks and, unlocked, the *)
(* credit notes whose balance it changes.                                  *)
ReadsInside(q) ==
  IF q.kind = "voidInvoice" \/ (q.kind = "apply" /\ Kind[q.credit] = "note")
  THEN Touched(q) ELSE Locks(q)

-----------------------------------------------------------------------------
(* Before the transaction.                                                 *)

Open(row) == row.status \in {"open", "part"}

Begin(p, r, app) ==
  LET q == Request[r]
  IN /\ job[p] = Idle /\ r \in todo
     /\ \A o \in Procs : job[o] # Idle =>
          job[o].req # r /\ {Request[job[o].req].kind, q.kind} \in Overlap
     /\ job' = [job EXCEPT ![p] = [req |-> r, app |-> app,
                                   stage |-> IF ReadsInside(q) = {} THEN "entered" ELSE "begun"]]
     /\ seen' = [seen EXCEPT ![p] = [x \in Touched(q) |-> doc[x]]]
     /\ UNCHANGED <<tables, lock, todo>>

BeginPost(p, r) ==
  /\ Request[r].kind = "post" /\ doc[Request[r].credit].status = "draft"
  /\ Begin(p, r, None)

(* A deposit or a receipt is not applied beyond the invoice's balance;     *)
(* a credit note is cut down to it later.                                  *)
BeginApply(p, r) ==
  LET q == Request[r]
  IN /\ q.kind = "apply"
     /\ Open(doc[q.credit]) /\ q.amount <= doc[q.credit].left
     /\ Kind[q.credit] # "note" => q.amount <= doc[q.invoice].left
     /\ Begin(p, r, None)

(* Applications of receipts and credit notes can be undone.                *)
BeginUnapply(p, r) ==
  LET q == Request[r]
  IN /\ q.kind = "unapply" /\ Kind[q.credit] # "deposit"
     /\ \E k \in DOMAIN applications :
          /\ Live(k) /\ k.credit = q.credit /\ k.invoice = q.invoice
          /\ Kind[q.credit] = "note" => "voided" \notin {doc[q.credit].status, doc[q.invoice].status}
          /\ Begin(p, r, k)

BeginVoid(p, r) ==
  LET c == Request[r].credit
  IN /\ Request[r].kind = "void" /\ doc[c].status \in {"draft", "open"}
     /\ Kind[c] = "note" => \A k \in DOMAIN applications : ~(Live(k) /\ k.credit = c)
     /\ Begin(p, r, None)

BeginPay(p, r) == Request[r].kind = "pay" /\ Begin(p, r, None)

BeginVoidInvoice(p, r) ==
  LET i == Request[r].invoice
  IN /\ Request[r].kind = "voidInvoice" /\ doc[i].status # "voided" /\ i \notin settled
     /\ Begin(p, r, None)

BeginSend(p, r) ==
  /\ Request[r].kind = "send" /\ doc[Request[r].invoice].status \in {"issued", "sent"}
  /\ Begin(p, r, None)

(* The transaction takes its locks, in the order of the documents, and     *)
(* reads; what it read and holds does not change until it ends.            *)
Enter(p) ==
  LET q == Request[job[p].req]
  IN /\ job[p].stage = "begun"
     /\ \A x \in Locks(q) : lock[x] = None
     /\ lock' = [x \in Docs |-> IF x \in Locks(q) THEN p ELSE lock[x]]
     /\ seen' = [seen EXCEPT ![p] = [x \in Touched(q) |->
                   IF x \in ReadsInside(q) \/ x \notin DOMAIN seen[p] THEN doc[x] ELSE seen[p][x]]]
     /\ job' = [job EXCEPT ![p].stage = "entered"]
     /\ UNCHANGED <<tables, todo>>

-----------------------------------------------------------------------------
(* Receive Payment.                                                        *)

Rounded(n, d) == (2 * n + d) \div (2 * d)
Smaller(a, b) == IF a <= b THEN a ELSE b

(* effectiveBalances: nothing left reads as nothing paid.                  *)
EffectiveBalance(row) == IF row.left <= 0 THEN row.amount ELSE row.left

(* A row settles its invoice up to the balance; the excess is held as a    *)
(* new deposit.                                                            *)
Settles(q, rows, i) == Smaller(q.lines[i], EffectiveBalance(rows[i]))

TotalSettled(q, rows) == SumFunction([i \in DOMAIN q.lines |-> Settles(q, rows, i)])
Overage(q, rows) == SumFunction(q.lines) - TotalSettled(q, rows)
Used(q, kind) == SumFunctionOnSet(q.uses, {c \in DOMAIN q.uses : Kind[c] = kind})
NewDeposit(q, rows) == q.extra + Overage(q, rows)
Bank(q, rows) == TotalSettled(q, rows) + Overage(q, rows) - Used(q, "note") - Used(q, "deposit") + q.extra

Share(q, rows, total, i) == Rounded(total * Settles(q, rows, i), TotalSettled(q, rows))

(* MUTANT of ProRata: every share is rounded, the last one too.            *)
ProRataRounded(q, rows, total) == [i \in DOMAIN q.lines |-> Share(q, rows, total, i)]

(* What the invoices of S, the first ones in ID order, are given of        *)
(* `total': their rounded shares as far as it goes, all of it with the     *)
(* last one.                                                               *)
Given(q, rows, total, S) ==
  IF S = DOMAIN q.lines THEN total
  ELSE Smaller(total, SumFunction([j \in S |-> Share(q, rows, total, j)]))

(* invoiceProRata: `total' over the invoices by what each settles.         *)
ProRata(q, rows, total) ==
  [i \in DOMAIN q.lines |->
     IF total = 0 \/ TotalSettled(q, rows) = 0 THEN 0
     ELSE Given(q, rows, total, {j \in DOMAIN q.lines : j <= i})
            - Given(q, rows, total, {j \in DOMAIN q.lines : j < i})]

PayableStatus == {"issued", "sent", "overdue", "partially_paid"}

CanPay(q, rows) ==
  /\ \A i \in DOMAIN q.lines : rows[i].status \in PayableStatus
  /\ \A c \in DOMAIN q.uses : Open(rows[c]) /\ q.uses[c] <= rows[c].left
  /\ Used(q, "deposit") <= TotalSettled(q, rows)
  /\ Used(q, "note") <= TotalSettled(q, rows)
  /\ Bank(q, rows) >= 0
  /\ TotalSettled(q, rows) # 0 \/ NewDeposit(q, rows) # 0

(* Less is credited to AR for what credit notes, posted there before, pay. *)
PaymentEntry(q, rows) ==
  LET ofNotes == ProRata(q, rows, Used(q, "note"))
      credited == [i \in DOMAIN q.lines |->
                     LET net == Settles(q, rows, i) - ofNotes[i] IN IF net < 0 THEN 0 ELSE net]
  IN Entry(Bank(q, rows), -SumFunction(credited), Used(q, "deposit") - NewDeposit(q, rows), 0)

-----------------------------------------------------------------------------
(* What the commits write.                                                 *)

(* The entry of a posted credit.                                           *)
PostingEntry(c) ==
  CASE Kind[c] = "deposit" -> Entry(Amount[c], 0, -Amount[c], 0)
    [] Kind[c] = "receipt" -> Entry(Amount[c], -Amount[c], 0, 0)
    [] Kind[c] = "note"    -> Entry(0, -Amount[c], 0, Amount[c])

PostedRow(c) == [status |-> "open", amount |-> Amount[c], left |-> Amount[c], entry |-> <<"post", c>>]

Drawn(row, amount) ==
  IF row.left - amount <= 0 THEN [row EXCEPT !.left = 0, !.status = "full"]
  ELSE [row EXCEPT !.left = @ - amount, !.status = "part"]

(* MUTANT of GivenBack: the status is restored, the balance is not.        *)
GivenBackNothing(row, amount) == [row EXCEPT !.status = "part"]

GivenBack(row, amount) ==
  [row EXCEPT !.left = @ + amount, !.status = IF row.left + amount = row.amount THEN "open" ELSE "part"]

(* An invoice that a credit note or a payment brings to zero is paid.      *)
PaidDown(row, amount) ==
  LET rest == EffectiveBalance(row) - amount
  IN IF rest <= 0 THEN [row EXCEPT !.left = 0, !.status = "paid"]
     ELSE [row EXCEPT !.left = rest, !.status = "partially_paid"]

(* applyCreditNoteToInvoiceTx: the amount cut down to the balance; whatever *)
(* the status of the invoice was, nothing left is paid.                    *)
NoteApplied(row, asked) ==
  LET amount == Smaller(asked, row.left)
  IN IF row.left - amount <= 0 THEN [row EXCEPT !.left = 0, !.status = "paid"]
     ELSE [row EXCEPT !.left = @ - amount,
                      !.status = IF amount > 0 /\ @ = "issued" THEN "partially_paid" ELSE @]

DrawnByNote(row, amount) == IF amount = 0 /\ row.left > 0 THEN [row EXCEPT !.status = "open"]
                            ELSE Drawn(row, amount)

(* The rows a request adds; it is committed once.                          *)
Row(r, c, i) == [req |-> r, credit |-> c, invoice |-> i]

(* Every credit a payment uses is spread over its invoices.                *)
PaymentRows(r, q) == {Row(r, c, i) : c \in DOMAIN q.uses, i \in DOMAIN q.lines}
PaidBy(q, rows, k) == ProRata(q, rows, q.uses[k.credit])[k.invoice]

WithRow(row, amount) ==
  [k \in DOMAIN applications \cup {row} |->
     IF k = row THEN [amount |-> amount, live |-> TRUE] ELSE applications[k]]

-----------------------------------------------------------------------------
(* The commits.                                                            *)

End(p) ==
  /\ job' = [job EXCEPT ![p] = Idle]
  /\ seen' = [seen EXCEPT ![p] = NothingSeen]
  /\ lock' = [x \in Docs |-> IF lock[x] = p THEN None ELSE lock[x]]

(* An UPDATE waits for the row locks of others.                            *)
Committing(p, kind) ==
  /\ job[p].stage = "entered" /\ Request[job[p].req].kind = kind
  /\ \A x \in Touched(Request[job[p].req]) : lock[x] \in {None, p}
  /\ todo' = todo \ {job[p].req}
  /\ End(p)

(* uq_journal_entries_posted_source.                                       *)
IsFree(source) == source \notin DOMAIN entries

WithEntry(source, entry) ==
  [s \in DOMAIN entries \cup {source} |->
     IF s # source THEN entries[s]
     ELSE IF s \notin DOMAIN entries THEN entry
     ELSE [account \in DOMAIN entry |-> entries[s][account] + entry[account]]]

(* The checks inside the transaction.                                      *)
CanCommit(p) ==
  LET q == Request[job[p].req] rows == seen[p]
  IN CASE q.kind = "post"        -> rows[q.credit].status = "draft" /\ IsFree(<<"post", q.credit>>)
       [] q.kind = "apply"       -> Kind[q.credit] = "deposit" => IsFree(<<"apply", q.credit>>)
       [] q.kind = "void"        -> rows[q.credit].status = "open" =>
                                      IsFree(<<"reverse", rows[q.credit].entry>>)
       [] q.kind = "pay"         -> CanPay(q, rows)
       [] q.kind = "voidInvoice" -> /\ rows[q.invoice].status # "voided" /\ q.invoice \notin settled
                                    /\ IsFree(<<"reverse", rows[q.invoice].entry>>)
       [] OTHER                  -> TRUE

Post(p) ==
  LET c == Request[job[p].req].credit
      amount(i) == Smaller(Amount[c], seen[p][i].left)
  IN /\ Committing(p, "post") /\ CanCommit(p)
     /\ entries' = WithEntry(<<"post", c>>, PostingEntry(c))
     /\ IF Linked(c) = {}
        THEN doc' = [doc EXCEPT ![c] = PostedRow(c)] /\ UNCHANGED applications
        ELSE \E i \in Linked(c) :
               /\ doc' = [doc EXCEPT ![c] = DrawnByNote(PostedRow(c), amount(i)),
                                     ![i] = NoteApplied(seen[p][i], Amount[c])]
               /\ applications' = WithRow(Row(job[p].req, c, i), amount(i))
     /\ UNCHANGED settled

(* The columns written: the balance and the status of the credit, the      *)
(* balance of the invoice but not its status.                              *)
ApplyCredit(p) ==
  LET q == Request[job[p].req] c == q.credit i == q.invoice
      credit == Drawn(seen[p][c], q.amount)
  IN /\ Committing(p, "apply") /\ CanCommit(p) /\ Kind[c] # "note"
     /\ doc' = [doc EXCEPT ![c].left = credit.left, ![c].status = credit.status,
                           ![i].left = seen[p][i].left - q.amount]
     /\ applications' = WithRow(Row(job[p].req, c, i), q.amount)
     /\ entries' = IF Kind[c] = "deposit"
                   THEN WithEntry(<<"apply", c>>, Entry(0, -q.amount, q.amount, 0))
                   ELSE entries
     /\ UNCHANGED settled

ApplyNote(p) ==
  LET q == Request[job[p].req] c == q.credit i == q.invoice
      amount == Smaller(q.amount, seen[p][i].left)
      credit == DrawnByNote(seen[p][c], amount)
  IN /\ Committing(p, "apply") /\ CanCommit(p) /\ Kind[c] = "note"
     /\ doc' = [doc EXCEPT ![c].left = credit.left, ![c].status = credit.status,
                           ![i] = NoteApplied(seen[p][i], q.amount)]
     /\ applications' = WithRow(Row(job[p].req, c, i), amount)
     /\ UNCHANGED <<settled, entries>>

Unapply(p) ==
  LET q == Request[job[p].req] c == q.credit i == q.invoice
      amount == applications[job[p].app].amount
      credit == GivenBack(seen[p][c], amount)
      left   == seen[p][i].left + amount
  IN /\ Committing(p, "unapply")
     /\ doc' = [doc EXCEPT ![c].left = credit.left, ![c].status = credit.status,
                           ![i].left = left,
                           ![i].status = IF Kind[c] # "note" THEN @
                                         ELSE IF left = seen[p][i].amount THEN "sent" ELSE "partially_paid"]
     /\ applications' = [applications EXCEPT ![job[p].app].live = FALSE]
     /\ UNCHANGED <<settled, entries>>

(* A posted credit's entry is reversed; a deposit made of an overpayment   *)
(* has the entry of the whole payment.                                     *)
VoidCredit(p) ==
  LET c == Request[job[p].req].credit row == seen[p][c]
  IN /\ Committing(p, "void") /\ CanCommit(p)
     /\ doc' = [doc EXCEPT ![c].status = "voided",
                           ![c].left = IF Kind[c] # "note" /\ row.status = "open" THEN 0 ELSE @]
     /\ entries' = IF row.status = "open"
                   THEN WithEntry(<<"reverse", row.entry>>, Reversal(entries[row.entry]))
                   ELSE entries
     /\ UNCHANGED <<applications, settled>>

Pay(p) ==
  LET r == job[p].req q == Request[r] rows == seen[p]
      source == <<"pay", r>>
      new == NewDeposit(q, rows)
      added == {k \in PaymentRows(r, q) : PaidBy(q, rows, k) > 0}
  IN /\ Committing(p, "pay") /\ CanCommit(p)
     /\ doc' = [x \in Docs |->
                  IF x \in DOMAIN q.lines THEN PaidDown(rows[x], Settles(q, rows, x))
                  ELSE IF x \in DOMAIN q.uses THEN Drawn(rows[x], q.uses[x])
                  ELSE IF x = q.makes /\ new > 0
                       THEN [status |-> "open", amount |-> new, left |-> new, entry |-> source]
                  ELSE doc[x]]
     /\ applications' = [k \in DOMAIN applications \cup added |->
                           IF k \in added THEN [amount |-> PaidBy(q, rows, k), live |-> TRUE]
                           ELSE applications[k]]
     /\ settled' = settled \cup DOMAIN q.lines
     /\ entries' = WithEntry(source, PaymentEntry(q, rows))

(* What credit notes paid goes back to them.                               *)
VoidInvoice(p) ==
  LET i == Request[job[p].req].invoice
      paidBy(c) == AmountOf({k \in NotesOn(i) : k.credit = c})
  IN /\ Committing(p, "voidInvoice") /\ CanCommit(p)
     /\ doc' = [x \in Docs |->
                  IF x = i THEN [doc[i] EXCEPT !.status = "voided", !.left = 0]
                  ELSE IF x \in DOMAIN seen[p] THEN GivenBack(seen[p][x], paidBy(x))
                  ELSE doc[x]]
     /\ applications' = [k \in DOMAIN applications |->
                           [applications[k] EXCEPT !.live = @ /\ k \notin NotesOn(i)]]
     /\ entries' = WithEntry(<<"reverse", doc[i].entry>>, Reversal(entries[doc[i].entry]))
     /\ UNCHANGED settled

(* db.Save writes every column of the row read before.                     *)
Send(p) ==
  LET i == Request[job[p].req].invoice
  IN /\ Committing(p, "send")
     /\ doc' = [doc EXCEPT ![i] = [seen[p][i] EXCEPT !.status = "sent"]]
     /\ UNCHANGED <<applications, settled, entries>>

Refuse(p) ==
  /\ job[p].stage = "entered" /\ ~CanCommit(p)
  /\ todo' = todo \ {job[p].req}
  /\ End(p) /\ UNCHANGED tables

(* The transaction is lost; the user may ask again.                        *)
Crash(p) == job[p] # Idle /\ End(p) /\ UNCHANGED <<tables, todo>>

-----------------------------------------------------------------------------
BeginAny(p) ==
  \E r \in todo :
    \/ BeginPost(p, r) \/ BeginApply(p, r) \/ BeginUnapply(p, r) \/ BeginVoid(p, r)
    \/ BeginPay(p, r) \/ BeginVoidInvoice(p, r) \/ BeginSend(p, r)

Commit(p) ==
  \/ Post(p) \/ ApplyCredit(p) \/ ApplyNote(p) \/ Unapply(p) \/ VoidCredit(p)
  \/ Pay(p) \/ VoidInvoice(p) \/ Send(p)

Next == \E p \in Procs : BeginAny(p) \/ Enter(p) \/ Commit(p) \/ Refuse(p) \/ Crash(p)

Spec == Init /\ [][Next]_vars

-----------------------------------------------------------------------------
Balance(account) == SumFunction([s \in DOMAIN entries |-> entries[s][account]])

LeftOf(S) ==
  SumFunction([x \in {d \in S : doc[d].status \notin {"none", "draft", "voided"}} |-> doc[x].left])
Of(kind) == {c \in Credits : Kind[c] = kind}

(* Accounts receivable in the general ledger is what the documents say:    *)
(* the open balances of the invoices, less what is left of the credit      *)
(* notes and receipts.                                                     *)
ReceivableAgrees ==
  Balance("ar") = LeftOf(Invoices) - LeftOf(Of("note")) - LeftOf(Of("receipt"))

(* The liability to customers is what is left of their deposits.           *)
DepositsAgree == Balance("deposits") = -LeftOf(Of("deposit"))

(* The control accounts of the customers agree with the documents, however *)
(* payments, postings, applications and voids follow one another.          *)
ControlsAgree == ReceivableAgrees /\ DepositsAgree

(* "DR = I - C + N = CR": no posting, payment or reversal leaves the       *)
(* debits of the ledger different from its credits.                        *)
LedgerBalances == Balance("bank") + Balance("ar") + Balance("deposits") + Balance("revenue") = 0

(* What is left of a credit is its amount less its applications; a voided  *)
(* one is not applied.                                                     *)
CreditIsAccounted ==
  \A c \in Credits :
    LET applied == AmountOf({k \in DOMAIN applications : Live(k) /\ k.credit = c})
    IN CASE doc[c].status \in {"open", "part", "full"} -> doc[c].left = doc[c].amount - applied
         [] OTHER -> applied = 0
=============================================================================
