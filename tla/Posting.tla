------------------------------- MODULE Posting -------------------------------
(***************************************************************************)
(* Documents become journal entries and are taken back: drafts of invoices *)
(* and bills are edited, issued, posted, sent, deleted and voided          *)
(* (invoice_post.go, bill_post.go, invoice_void.go, bill_void.go,          *)
(* invoice_lifecycle_service.go, the two editors), journal entries are     *)
(* reversed (journal_reverse.go), and a sales order counts what is         *)
(* invoiced of it (sales_order_invoice_tracking.go).                       *)
(*                                                                         *)
(* A service reads the document, prepares its entry, and only then opens   *)
(* its transaction: Begin is that read, LockDoc and LockOrder the SELECT   *)
(* ... FOR UPDATE of the document and of its sales order, and a commit all *)
(* the writes.  A draft's editor and the lifecycle calls save the row they *)
(* read as a whole: their commit only waits for the row lock.              *)
(***************************************************************************)
EXTENDS Integers, Sequences, FiniteSets, FiniteSetsExt, Functions

CONSTANTS
  Procs, Docs, Orders,
  Kind,      \* of each document: "invoice" or "bill"
  Ordered,   \* the quantity of each sales order
  Request,   \* what each request asks for
  Workloads, \* the sets of requests that users may bring
  Clash,     \* the pairs of request kinds not brought for one row at a time
  None

DocKinds == {"create", "edit", "post", "issue", "send", "void", "delete"}
Kinds == DocKinds \cup {"confirm", "cancel", "enter", "reverse", "replace"}

ASSUME PostingAssumption ==
  /\ IsFiniteSet(Docs) /\ Kind \in [Docs -> {"invoice", "bill"}]
  /\ Ordered \in [Orders -> Nat]
  /\ Docs \cap Orders = {}
  /\ None \notin Procs /\ None \notin Docs /\ None \notin Orders
  /\ \A d \in Docs : None # <<Kind[d], d>>
  /\ \A workload \in Workloads : workload \subseteq DOMAIN Request
  /\ \A r \in DOMAIN Request :
       /\ Request[r].kind \in Kinds
       /\ Request[r].kind \in DocKinds => Request[r].row \in Docs
       /\ Request[r].kind \in {"confirm", "cancel"} => Request[r].row \in Orders
       /\ Request[r].content \in Nat /\ Request[r].order \in Orders \cup {None}

VARIABLES
  doc,     \* the documents: status, content, updated_at, entry, sales order
  journal, \* journal entries in ID order; their ledger rows follow their status
  order,   \* the sales orders: status and invoiced quantity
  lock,    \* the process that holds each row, or None
  job,     \* the request each process is making
  seen,    \* the document row each process read
  todo     \* the requests still to be made

tables == <<doc, journal, order>>
vars   == <<doc, journal, order, lock, job, seen, todo>>

Idle == [req |-> None, stage |-> "idle"]

Absent == [status |-> "absent", content |-> 0, stamp |-> 0, entry |-> 0,
           order |-> None, tracked |-> FALSE]

Init ==
  /\ doc = [d \in Docs |-> Absent]
  /\ journal = <<>>
  /\ order = [o \in Orders |-> [status |-> "draft", invoiced |-> 0]]
  /\ lock = [x \in Docs \cup Orders |-> None]
  /\ job = [p \in Procs |-> Idle]
  /\ seen = [p \in Procs |-> Absent]
  /\ todo \in Workloads

-----------------------------------------------------------------------------
(* The journal.                                                            *)

(* An entry by what it does to the document's account.  Manual entries     *)
(* have no source; a reversal's source is the entry it reverses.           *)
Entry(source, amount, reverses) ==
  [source |-> source, amount |-> amount, reverses |-> reverses, status |-> "posted"]

Reversal(k) == Entry(<<"reversal", k>>, -journal[k].amount, k)

(* The unique index on (company, source_type, source_id) of posted entries *)
(* that have a source.                                                     *)
KeyIsFree(source) ==
  source # None => \A k \in DOMAIN journal :
                     journal[k].status = "posted" => journal[k].source # source

IsReversed(k) == \E m \in DOMAIN journal : journal[m].reverses = k

(* MUTANT of Reportable: reports show every posted entry that is no        *)
(* reversal itself.                                                        *)
ReportableUnlessReversal(k) == journal[k].status = "posted" /\ journal[k].reverses = 0

(* reportableJournalEntryWhere: reports show neither a reversal nor the    *)
(* posted entry it reverses.                                               *)
Reportable(k) ==
  /\ journal[k].status = "posted" /\ journal[k].reverses = 0
  /\ ~\E m \in DOMAIN journal : journal[m].status = "posted" /\ journal[m].reverses = k

-----------------------------------------------------------------------------
(* The sales order.                                                        *)

(* A line is matched to the order while something of it is not invoiced.   *)
Matches(o) == o # None /\ order[o].invoiced < Ordered[o]

(* recomputeSOStatus                                                       *)
OrderStatus(o, invoiced) ==
  IF invoiced >= Ordered[o] THEN "fully_invoiced"
  ELSE IF invoiced > 0 THEN "partially_invoiced"
  ELSE "confirmed"

(* MUTANT of Invoiced: what a void takes back is whatever the invoice has, *)
(* matched or not.                                                         *)
InvoicedOfAll(row, sign) ==
  LET o == row.order
      delta == IF row.tracked \/ sign < 0 THEN sign * row.content ELSE 0
      invoiced == Max({0, order[o].invoiced + delta})
  IN IF o = None THEN order
     ELSE [order EXCEPT ![o] = [status |-> OrderStatus(o, invoiced), invoiced |-> invoiced]]

(* mutateSOInvoicedTotals, of the lines that are matched, floored at zero. *)
Invoiced(row, sign) ==
  LET o == row.order
      delta == IF row.tracked THEN sign * row.content ELSE 0
      invoiced == Max({0, order[o].invoiced + delta})
  IN IF o = None THEN order
     ELSE [order EXCEPT ![o] = [status |-> OrderStatus(o, invoiced), invoiced |-> invoiced]]

-----------------------------------------------------------------------------
(* Before the transaction.                                                 *)

Drafts == {"draft"}

(* What the code accepts to post, as it reads it and again under the lock. *)
Postable(d, row) ==
  /\ row.status \in (IF Kind[d] = "invoice" THEN {"draft", "issued"} ELSE Drafts)
  /\ row.entry = 0

Voidable(d, row) ==
  /\ row.status \in (IF Kind[d] = "invoice" THEN {"issued", "sent"} ELSE {"posted"})
  /\ row.entry # 0

Deletable(row) == row.status = "draft" /\ row.entry = 0

(* Two requests meet on a row, or on a document and its sales order.       *)
OrderOf(x) == IF x \in Docs THEN doc[x].order ELSE None
Meet(x, y) == x = y \/ OrderOf(x) = y \/ OrderOf(y) = x

Clashes(r) ==
  \E o \in Procs :
    /\ job[o] # Idle
    /\ LET other == Request[job[o].req]
       IN \/ job[o].req = r
          \/ Meet(other.row, Request[r].row) /\ {other.kind, Request[r].kind} \in Clash

Begin(p, r, kind) ==
  LET q == Request[r]
  IN /\ job[p] = Idle /\ r \in todo /\ q.kind = kind
     /\ ~Clashes(r)
     /\ job' = [job EXCEPT ![p] = [req |-> r, stage |-> "begun"]]
     /\ seen' = [seen EXCEPT ![p] = IF q.row \in Docs THEN doc[q.row] ELSE Absent]
     /\ UNCHANGED <<tables, lock, todo>>

BeginPost(p, r) == Begin(p, r, "post") /\ Postable(Request[r].row, doc[Request[r].row])
BeginVoid(p, r) == Begin(p, r, "void") /\ Voidable(Request[r].row, doc[Request[r].row])
BeginDelete(p, r) == Begin(p, r, "delete") /\ Deletable(doc[Request[r].row])
BeginIssue(p, r) == Begin(p, r, "issue") /\ doc[Request[r].row].status = "draft"
BeginSend(p, r) == Begin(p, r, "send") /\ doc[Request[r].row].status \in {"issued", "sent"}

(* MUTANT of BeginEdit: the editor does not ask for a draft.               *)
BeginEditAnyStatus(p, r) == Begin(p, r, "edit") /\ doc[Request[r].row].status # "absent"

BeginEdit(p, r) == Begin(p, r, "edit") /\ doc[Request[r].row].status = "draft"

BeginConfirm(p, r) == Begin(p, r, "confirm") /\ order[Request[r].row].status = "draft"
BeginCancel(p, r) == Begin(p, r, "cancel") /\ order[Request[r].row].status \in {"draft", "confirmed"}

-----------------------------------------------------------------------------
(* Inside the transaction of post, issue, void and delete.                 *)

Row(p) == Request[job[p].req].row
IsKind(p, kinds) == job[p] # Idle /\ Request[job[p].req].kind \in kinds

ToLock(p) ==
  \/ IsKind(p, {"post", "void", "delete"}) /\ job[p].stage = "begun"
  \/ job[p].stage = "prepared"

LockDoc(p) ==
  /\ ToLock(p) /\ lock[Row(p)] = None
  /\ lock' = [lock EXCEPT ![Row(p)] = p]
  /\ job' = [job EXCEPT ![p].stage = "locked"]
  /\ UNCHANGED <<tables, seen, todo>>

(* MUTANT of StillAllowed: the recheck under the lock is left out.        *)
StillAllowedAnyway(p) == TRUE

(* The posting snapshot guard: nothing of the document may have changed    *)
(* since its entry was prepared; a void needs the same entry still.        *)
StillAllowed(p) ==
  LET d == Row(p)
  IN CASE IsKind(p, {"post", "issue"}) -> doc[d] = seen[p] /\ Postable(d, doc[d])
       [] IsKind(p, {"void"})          -> Voidable(d, doc[d]) /\ doc[d].entry = seen[p].entry
       [] OTHER                        -> Deletable(doc[d])

NeedsOrder(p) == IsKind(p, {"post", "issue", "void"}) /\ doc[Row(p)].order # None

LockOrder(p) ==
  LET o == doc[Row(p)].order
  IN /\ job[p].stage = "locked" /\ StillAllowed(p) /\ NeedsOrder(p)
     /\ lock[o] = None
     /\ lock' = [lock EXCEPT ![o] = p]
     /\ job' = [job EXCEPT ![p].stage = "ordered"]
     /\ UNCHANGED <<tables, seen, todo>>

Source(p) ==
  LET d == Row(p)
  IN IF IsKind(p, {"void"}) THEN <<"reversal", doc[d].entry>> ELSE <<Kind[d], d>>

CanCommit(p) ==
  /\ StillAllowed(p)
  /\ ~IsKind(p, {"delete"}) => KeyIsFree(Source(p))
  /\ job[p].stage = "ordered" => order[doc[Row(p)].order].status # "cancelled"

(* Commit and rollback free the row locks.                                 *)
End(p) ==
  /\ job' = [job EXCEPT ![p] = Idle]
  /\ seen' = [seen EXCEPT ![p] = Absent]
  /\ lock' = [x \in DOMAIN lock |-> IF lock[x] = p THEN None ELSE lock[x]]

Done(p) == todo' = todo \ {job[p].req} /\ End(p)

Committing(p, kinds) ==
  /\ IsKind(p, kinds)
  /\ job[p].stage = IF NeedsOrder(p) THEN "ordered" ELSE "locked"
  /\ CanCommit(p)
  /\ Done(p)

(* The status a posted document has, and its entry.                        *)
PostedRow(d, row, k) ==
  [row EXCEPT !.status = IF Kind[d] = "invoice" THEN "issued" ELSE "posted",
              !.entry = k, !.stamp = @ + 1]

Post(p) ==
  LET d == Row(p)
  IN /\ Committing(p, {"post", "issue"})
     /\ journal' = Append(journal, Entry(<<Kind[d], d>>, doc[d].content, 0))
     /\ doc' = [doc EXCEPT ![d] = PostedRow(d, @, Len(journal) + 1)]
     /\ order' = Invoiced(doc[d], 1)

VoidedRow(row) == [row EXCEPT !.status = "voided", !.stamp = @ + 1]

(* The entry stays posted beside its reversal.                             *)
Void(p) ==
  LET d == Row(p)
  IN /\ Committing(p, {"void"})
     /\ journal' = Append(journal, Reversal(doc[d].entry))
     /\ doc' = [doc EXCEPT ![d] = VoidedRow(@)]
     /\ order' = Invoiced(doc[d], -1)

Delete(p) ==
  /\ Committing(p, {"delete"})
  /\ doc' = [doc EXCEPT ![Row(p)].status = "deleted"]
  /\ UNCHANGED <<journal, order>>

-----------------------------------------------------------------------------
(* Whole rows saved as they were read, and the other statements that only  *)
(* wait for the row.                                                       *)

Saving(p, kinds) == IsKind(p, kinds) /\ job[p].stage = "begun" /\ lock[Row(p)] = None

(* A new draft is a row nobody knows of yet.                               *)
Drafted(d, row, q) ==
  [row EXCEPT !.content = q.content, !.stamp = doc[d].stamp + 1,
              !.order = q.order, !.tracked = Matches(q.order)]

Create(p, r) ==
  LET q == Request[r]
  IN /\ job[p] = Idle /\ r \in todo /\ q.kind = "create"
     /\ doc[q.row].status = "absent"
     /\ doc' = [doc EXCEPT ![q.row] = Drafted(q.row, [Absent EXCEPT !.status = "draft"], q)]
     /\ todo' = todo \ {r}
     /\ UNCHANGED <<journal, order, lock, job, seen>>

(* tx.Save of the row read as a draft; the lines are written anew.         *)
Edit(p) ==
  /\ Saving(p, {"edit"})
  /\ doc' = [doc EXCEPT ![Row(p)] = Drafted(Row(p), seen[p], Request[job[p].req])]
  /\ Done(p) /\ UNCHANGED <<journal, order>>

(* IssueInvoice saves the row with fresh snapshots of the customer, then   *)
(* posts it like any other draft.                                          *)
SaveIssue(p) ==
  /\ Saving(p, {"issue"})
  /\ doc' = [doc EXCEPT ![Row(p)] = [seen[p] EXCEPT !.stamp = doc[Row(p)].stamp + 1]]
  /\ job' = [job EXCEPT ![p].stage = "saved"]
  /\ UNCHANGED <<journal, order, lock, seen, todo>>

Prepare(p) ==
  /\ job[p].stage = "saved" /\ Postable(Row(p), doc[Row(p)])
  /\ seen' = [seen EXCEPT ![p] = doc[Row(p)]]
  /\ job' = [job EXCEPT ![p].stage = "prepared"]
  /\ UNCHANGED <<tables, lock, todo>>

Send(p) ==
  /\ Saving(p, {"send"})
  /\ doc' = [doc EXCEPT ![Row(p)] =
               [seen[p] EXCEPT !.status = "sent", !.stamp = doc[Row(p)].stamp + 1]]
  /\ Done(p) /\ UNCHANGED <<journal, order>>

(* ConfirmSalesOrder and CancelSalesOrder write the status alone.          *)
Transition(p) ==
  LET status == IF IsKind(p, {"confirm"}) THEN "confirmed" ELSE "cancelled"
  IN /\ Saving(p, {"confirm", "cancel"})
     /\ order' = [order EXCEPT ![Row(p)].status = status]
     /\ Done(p) /\ UNCHANGED <<doc, journal>>

-----------------------------------------------------------------------------
(* Manual entries, each call one transaction: all that reverseJournalEntry *)
(* reads, it reads under the lock of the entry.                            *)

IsManual(k) == journal[k].source = None

Reversible(k) ==
  /\ journal[k].reverses = 0 /\ IsManual(k) /\ ~IsReversed(k)
  /\ KeyIsFree(<<"reversal", k>>)

Reversed(entries, k) == Append([entries EXCEPT ![k].status = "reversed"], Reversal(k))

(* A call that is a single step.                                           *)
AtOnce(p, r, kind) ==
  /\ job[p] = Idle /\ r \in todo /\ Request[r].kind = kind
  /\ todo' = todo \ {r}
  /\ UNCHANGED <<doc, order, lock, job, seen>>

EnterManual(p, r) ==
  /\ AtOnce(p, r, "enter")
  /\ journal' = Append(journal, Entry(None, Request[r].content, 0))

ReverseManual(p, r) ==
  /\ AtOnce(p, r, "reverse")
  /\ \E k \in DOMAIN journal : Reversible(k) /\ journal' = Reversed(journal, k)

(* The new entry and the reversal of the one it replaces.                  *)
ReplaceManual(p, r) ==
  /\ AtOnce(p, r, "replace")
  /\ \E k \in DOMAIN journal :
       /\ Reversible(k)
       /\ journal' = Reversed(Append(journal, Entry(None, Request[r].content, 0)), k)

-----------------------------------------------------------------------------
(* What a check under the lock refuses, or posting after a save.           *)
Refuse(p) ==
  /\ \/ job[p].stage \in {"locked", "ordered"} /\ ~CanCommit(p)
     \/ job[p].stage = "saved" /\ ~Postable(Row(p), doc[Row(p)])
  /\ Done(p) /\ UNCHANGED tables

(* The transaction is lost; the user may ask again, though not once an     *)
(* issue has saved its row: a bound on updated_at.                         *)
Crash(p) ==
  /\ job[p] # Idle
  /\ IF IsKind(p, {"issue"}) /\ job[p].stage # "begun" THEN Done(p) ELSE End(p) /\ UNCHANGED todo
  /\ UNCHANGED tables

BeginAny(p) ==
  \E r \in todo :
    \/ BeginEdit(p, r) \/ BeginPost(p, r) \/ BeginIssue(p, r) \/ BeginSend(p, r)
    \/ BeginVoid(p, r) \/ BeginDelete(p, r) \/ BeginConfirm(p, r) \/ BeginCancel(p, r)

Manual(p) == \E r \in todo : EnterManual(p, r) \/ ReverseManual(p, r) \/ ReplaceManual(p, r)

Next ==
  \E p \in Procs :
    \/ BeginAny(p) \/ (\E r \in todo : Create(p, r)) \/ Manual(p)
    \/ LockDoc(p) \/ LockOrder(p) \/ Post(p) \/ Void(p) \/ Delete(p)
    \/ Edit(p) \/ SaveIssue(p) \/ Prepare(p) \/ Send(p) \/ Transition(p)
    \/ Refuse(p) \/ Crash(p)

Spec == Init /\ [][Next]_vars

-----------------------------------------------------------------------------
Booked(d) == doc[d].status \in {"issued", "sent", "posted"}

(* What reports show of a document: its one entry with the amount the      *)
(* document has while it is posted; nothing before it is posted and        *)
(* nothing once it is voided, whoever posts, edits, voids or deletes it at *)
(* the same time.                                                          *)
BooksMatchDocuments ==
  \A d \in Docs :
    LET shown == {k \in DOMAIN journal : journal[k].source = <<Kind[d], d>> /\ Reportable(k)}
    IN IF Booked(d)
       THEN shown = {doc[d].entry} /\ journal[doc[d].entry].amount = doc[d].content
       ELSE shown = {}

(* What reports hide cancels out: the entries they show add up to what all *)
(* entries of the journal add up to (report_visibility.go, and the two     *)
(* ways to reverse, of which only one marks the original).                 *)
ReportsHideOnlyPairs ==
  LET amounts  == [k \in DOMAIN journal |-> journal[k].amount]
      total(S) == SumFunctionOnSet(amounts, S)
  IN total(DOMAIN journal) = total({k \in DOMAIN journal : Reportable(k)})

(* A sales order has invoiced the whole quantities of the posted invoices  *)
(* matched to it, beyond what was ordered too; its status says so, and a   *)
(* cancelled order has nothing invoiced.                                   *)
OrderIsTracked ==
  \A o \in Orders :
    LET matched == {d \in Docs : Booked(d) /\ doc[d].order = o /\ doc[d].tracked}
        row == order[o]
    IN /\ row.invoiced = SumFunction([d \in matched |-> doc[d].content])
       /\ row.status = IF row.status \in {"draft", "cancelled"} /\ row.invoiced = 0
                       THEN row.status ELSE OrderStatus(o, row.invoiced)

(* A posted document is immutable: it keeps its entry, its content and its *)
(* order, is never a draft again nor deleted, and once voided stays so.    *)
PostedIsImmutable ==
  [][\A d \in Docs : doc[d].entry # 0 =>
       /\ doc'[d].entry = doc[d].entry /\ doc'[d].content = doc[d].content
       /\ doc'[d].order = doc[d].order /\ doc'[d].tracked = doc[d].tracked
       /\ doc'[d].status \notin {"draft", "deleted"}
       /\ doc[d].status = "voided" => doc'[d].status = "voided"]_vars
=============================================================================
