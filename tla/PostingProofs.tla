---------------------------- MODULE PostingProofs ----------------------------
(***************************************************************************)
(* What the books show of documents, for any number of users, documents,   *)
(* orders and requests.  Editors, IssueInvoice and SendInvoice save whole  *)
(* rows read earlier without a check; that they do so while nobody posts   *)
(* or voids the document is assumed of the users (SavesApart).  Everything *)
(* else follows from the recheck under the lock and the journal itself.    *)
(* That nobody changes the status of a sales order while an invoice of it  *)
(* is posted is assumed for the orders only (TransitionsApart).            *)
(***************************************************************************)
EXTENDS Posting, SumLemmas

(* The requests that nobody brings for one row at a time.                  *)
SavesApart ==
  {{"edit", "post"}, {"edit", "issue"}, {"issue", "post"}, {"issue"}, {"send", "void"}}
    \subseteq Clash

Statuses == {"absent", "draft", "issued", "sent", "posted", "voided", "deleted"}
Rows == [status : Statuses, content : Nat, stamp : Nat, entry : Nat,
         order : Orders \cup {None}, tracked : BOOLEAN]

Sources == {None} \cup ({"invoice", "bill"} \X Docs) \cup ({"reversal"} \X Nat)
Entries == [source : Sources, amount : Int, reverses : Nat, status : {"posted", "reversed"}]

Stages == {"idle", "begun", "saved", "prepared", "locked", "ordered"}

Typed ==
  /\ doc \in [Docs -> Rows]
  /\ journal \in Seq(Entries)
  /\ seen \in [Procs -> Rows]
  /\ job \in [Procs -> [req : DOMAIN Request \cup {None}, stage : Stages]]
  /\ todo \subseteq DOMAIN Request

-----------------------------------------------------------------------------
(* A document has an entry from its posting on.                            *)
RowOK(row) == row.entry # 0 <=> row.status \in {"issued", "sent", "posted", "voided"}

(* An entry with a document's source is the document's, with its amount.   *)
EntryOK(k) ==
  /\ \A d \in Docs : journal[k].source = <<Kind[d], d>> =>
       /\ doc[d].entry = k
       /\ journal[k].amount = doc[d].content
       /\ journal[k].status = "posted" /\ journal[k].reverses = 0
  /\ journal[k].reverses # 0 =>
       /\ journal[k].status = "posted"
       /\ journal[k].source = <<"reversal", journal[k].reverses>>
       /\ journal[k].reverses \in DOMAIN journal

(* It is reversed exactly when the document is voided.                     *)
DocOK(d) ==
  /\ RowOK(doc[d])
  /\ doc[d].entry # 0 =>
       /\ doc[d].entry \in DOMAIN journal
       /\ journal[doc[d].entry].source = <<Kind[d], d>>
       /\ IsReversed(doc[d].entry) <=> doc[d].status = "voided"

Books ==
  /\ \A k \in DOMAIN journal : EntryOK(k)
  /\ \A d \in Docs : DocOK(d)

-----------------------------------------------------------------------------
(* What a request that saves a row needs of the row it read.               *)
KindOf(p) == Request[job[p].req].kind

SavesDraft(p) ==
  IsKind(p, {"edit"}) \/ (IsKind(p, {"issue"}) /\ job[p].stage = "begun")

SaverOK(p) ==
  /\ SavesDraft(p) =>
       seen[p].status = "draft" /\ seen[p].entry = 0 /\ doc[Row(p)].entry = 0
  /\ IsKind(p, {"send"}) =>
       /\ doc[Row(p)].status \in {"issued", "sent"}
       /\ seen[p].entry = doc[Row(p)].entry /\ seen[p].content = doc[Row(p)].content
       /\ seen[p].order = doc[Row(p)].order /\ seen[p].tracked = doc[Row(p)].tracked

JobOK(p) ==
  job[p] # Idle =>
    /\ job[p].req \in DOMAIN Request
    /\ job[p].stage = "saved" => KindOf(p) = "issue"
    /\ job[p].stage \in {"prepared", "locked", "ordered"} =>
         KindOf(p) \in {"post", "issue", "void", "delete"}
    /\ KindOf(p) \in {"edit", "send"} => job[p].stage = "begun"
    /\ KindOf(p) \in DocKinds \cup {"confirm", "cancel"}

Apart(p, o) ==
  p # o /\ job[p] # Idle /\ job[o] # Idle /\ Row(p) = Row(o)
    => {KindOf(p), KindOf(o)} \notin Clash

IInv ==
  /\ Typed
  /\ Books
  /\ \A p \in Procs : JobOK(p) /\ SaverOK(p)
  /\ \A p, o \in Procs : Apart(p, o)

-----------------------------------------------------------------------------
(* Records and the empty row.                                              *)

LEMMA AbsentRow == Absent \in Rows /\ RowOK(Absent)
BY PostingAssumption DEF Absent, Rows, Statuses, RowOK

LEMMA IdleJob == Idle \in [req : DOMAIN Request \cup {None}, stage : Stages]
BY DEF Idle, Stages

LEMMA PostedRowOK ==
  ASSUME NEW d, NEW row \in Rows, NEW k \in Nat
  PROVE  /\ PostedRow(d, row, k) \in Rows
         /\ PostedRow(d, row, k).entry = k /\ PostedRow(d, row, k).content = row.content
         /\ PostedRow(d, row, k).status \in {"issued", "posted"}
<1>1. row.stamp + 1 \in Nat
  BY DEF Rows
<1>2. PostedRow(d, row, k) \in Rows
  <2>1. CASE Kind[d] = "invoice"
    BY <1>1, <2>1, Zenon DEF PostedRow, Rows, Statuses
  <2>2. CASE Kind[d] # "invoice"
    BY <1>1, <2>2, Zenon DEF PostedRow, Rows, Statuses
  <2> QED BY <2>1, <2>2
<1> QED BY <1>2 DEF PostedRow, Rows

LEMMA VoidedRowOK ==
  ASSUME NEW row \in Rows
  PROVE  /\ VoidedRow(row) \in Rows
         /\ VoidedRow(row).entry = row.entry /\ VoidedRow(row).content = row.content
         /\ VoidedRow(row).order = row.order /\ VoidedRow(row).tracked = row.tracked
         /\ VoidedRow(row).status = "voided"
<1>1. row.stamp + 1 \in Nat
  BY DEF Rows
<1>2. VoidedRow(row) \in Rows
  BY <1>1, Zenon DEF VoidedRow, Rows, Statuses
<1> QED BY <1>2 DEF VoidedRow, Rows

LEMMA EntryTyped ==
  ASSUME NEW source \in Sources, NEW amount \in Int, NEW reverses \in Nat
  PROVE  Entry(source, amount, reverses) \in Entries
BY DEF Entry, Entries

LEMMA InitOK == Init => IInv
<1> SUFFICES ASSUME Init PROVE IInv
    OBVIOUS
<1>1. Typed
  BY AbsentRow, IdleJob, PostingAssumption DEF Init, Typed
<1>2. Books
  BY AbsentRow DEF Init, Books, DocOK, RowOK, Absent
<1>3. \A p \in Procs : JobOK(p) /\ SaverOK(p)
  BY DEF Init, JobOK, SaverOK, SavesDraft, IsKind
<1>4. \A p, o \in Procs : Apart(p, o)
  BY DEF Init, Apart
<1> QED BY <1>1, <1>2, <1>3, <1>4 DEF IInv

-----------------------------------------------------------------------------
(* Steps of one process.                                                   *)

(* A request that goes on or ends meets nobody it did not meet before.     *)
LEMMA StayApart ==
  ASSUME IInv, NEW p \in Procs,
         \A o \in Procs \ {p} : job'[o] = job[o],
         job'[p] # Idle => job[p] # Idle /\ job'[p].req = job[p].req
  PROVE  \A q, o \in Procs : Apart(q, o)'
<1> SUFFICES ASSUME NEW q \in Procs, NEW o \in Procs PROVE Apart(q, o)'
    OBVIOUS
<1>1. Apart(q, o)
  BY DEF IInv
<1>2. /\ job'[q] # Idle => job[q] # Idle /\ job'[q].req = job[q].req
      /\ job'[o] # Idle => job[o] # Idle /\ job'[o].req = job[o].req
  OBVIOUS
<1> QED BY <1>1, <1>2 DEF Apart, Row, KindOf

(* Those that do nothing keep what they rely on, if their rows do.         *)
LEMMA OthersStay ==
  ASSUME IInv, NEW o \in Procs, job'[o] = job[o], seen'[o] = seen[o],
         SaverOK(o) => SaverOK(o)'
  PROVE  JobOK(o)' /\ SaverOK(o)'
<1>1. JobOK(o) /\ SaverOK(o)
  BY DEF IInv
<1> QED BY <1>1 DEF JobOK, KindOf

LEMMA SaverStays ==
  ASSUME NEW o, job'[o] = job[o], seen'[o] = seen[o], doc'[Row(o)] = doc[Row(o)], SaverOK(o)
  PROVE  SaverOK(o)'
<1>1. Row(o)' = Row(o)
  BY DEF Row
<1>2. doc'[Row(o)'] = doc[Row(o)]
  BY <1>1
<1> QED BY <1>1, <1>2 DEF SaverOK, SavesDraft, IsKind

LEMMA IdleOK ==
  ASSUME NEW p, job'[p] = Idle
  PROVE  JobOK(p)' /\ SaverOK(p)'
BY DEF JobOK, SaverOK, SavesDraft, IsKind

-----------------------------------------------------------------------------
(* A row saved: it keeps its entry, and once it has one all but its status *)
(* of issued or sent.                                                      *)

Rewrites(d, row) ==
  /\ row \in Rows /\ RowOK(row)
  /\ row.entry = doc[d].entry
  /\ doc[d].entry # 0 =>
       /\ row.content = doc[d].content
       /\ row.order = doc[d].order /\ row.tracked = doc[d].tracked
       /\ doc[d].status \in {"issued", "sent"} /\ row.status \in {"issued", "sent"}

LEMMA RewriteKeepsBooks ==
  ASSUME IInv, NEW d \in Docs, NEW row, Rewrites(d, row),
         doc' = [doc EXCEPT ![d] = row], journal' = journal
  PROVE  Books' /\ doc' \in [Docs -> Rows]
<1>1. doc \in [Docs -> Rows] /\ Books
  BY DEF IInv, Typed
<1>2. doc' \in [Docs -> Rows]
  BY <1>1 DEF Rewrites
<1>3. doc'[d] = row /\ \A x \in Docs \ {d} : doc'[x] = doc[x]
  BY <1>1
<1>4. \A x \in Docs : /\ doc'[x].entry = doc[x].entry
                      /\ doc[x].entry # 0 => doc'[x].content = doc[x].content
                      /\ doc[x].entry # 0 => (doc'[x].status = "voided" <=> doc[x].status = "voided")
  BY <1>3 DEF Rewrites
<1>5. \A k \in DOMAIN journal : EntryOK(k)'
  <2> SUFFICES ASSUME NEW k \in DOMAIN journal PROVE EntryOK(k)'
      OBVIOUS
  <2>1. EntryOK(k)
    BY <1>1 DEF Books
  <2>2. k # 0
    BY DEF IInv, Typed
  <2> QED BY <2>1, <2>2, <1>4 DEF EntryOK
<1>6. \A x \in Docs : DocOK(x)'
  <2> SUFFICES ASSUME NEW x \in Docs PROVE DocOK(x)'
      OBVIOUS
  <2>1. DocOK(x)
    BY <1>1 DEF Books
  <2>2. RowOK(doc'[x])
    BY <2>1, <1>3 DEF DocOK, Rewrites
  <2>3. \A k : IsReversed(k)' <=> IsReversed(k)
    BY DEF IsReversed
  <2> QED BY <2>1, <2>2, <2>3, <1>4 DEF DocOK
<1> QED BY <1>2, <1>5, <1>6 DEF Books

LEMMA RewriteKeepsSavers ==
  ASSUME IInv, NEW d \in Docs, NEW row, Rewrites(d, row),
         doc' = [doc EXCEPT ![d] = row],
         NEW o \in Procs, job'[o] = job[o], seen'[o] = seen[o]
  PROVE  JobOK(o)' /\ SaverOK(o)'
<1>1. SaverOK(o) /\ doc \in [Docs -> Rows] /\ \A x \in Docs : RowOK(doc[x])
  BY DEF IInv, Typed, Books, DocOK
<1>2. CASE Row(o) = d
  <2>1. doc'[Row(o)] = row /\ Row(o)' = Row(o)
    BY <1>1, <1>2 DEF Row
  <2>2. SavesDraft(o) => doc'[Row(o)].entry = 0
    BY <1>1, <1>2, <2>1 DEF SaverOK, Rewrites
  <2>3. IsKind(o, {"send"}) =>
          /\ doc'[Row(o)].status \in {"issued", "sent"}
          /\ seen[o].entry = doc'[Row(o)].entry /\ seen[o].content = doc'[Row(o)].content
          /\ seen[o].order = doc'[Row(o)].order /\ seen[o].tracked = doc'[Row(o)].tracked
    BY <1>1, <1>2, <2>1 DEF SaverOK, Rewrites, RowOK
  <2>4. SaverOK(o)'
    BY <1>1, <2>1, <2>2, <2>3 DEF SaverOK, SavesDraft, IsKind
  <2> QED BY <2>4, OthersStay
<1>3. CASE Row(o) # d
  <2>1. doc'[Row(o)] = doc[Row(o)]
    BY <1>1, <1>3
  <2> QED BY <2>1, SaverStays, OthersStay
<1> QED BY <1>2, <1>3

-----------------------------------------------------------------------------
(* The journal grows.                                                      *)

LEMMA Appended ==
  ASSUME journal \in Seq(Entries), NEW e \in Entries, journal' = Append(journal, e)
  PROVE  /\ journal' \in Seq(Entries)
         /\ DOMAIN journal' = DOMAIN journal \cup {Len(journal) + 1}
         /\ Len(journal) + 1 \notin DOMAIN journal
         /\ journal'[Len(journal) + 1] = e
         /\ \A k \in DOMAIN journal : journal'[k] = journal[k]
OBVIOUS

LEMMA DocEntries ==
  ASSUME IInv, NEW d \in Docs, NEW x \in Docs, doc[d].entry # 0, doc[d].entry = doc[x].entry
  PROVE  d = x
BY DEF IInv, Books, DocOK

LEMMA PostKeepsBooks ==
  ASSUME IInv, NEW d \in Docs, doc[d].entry = 0,
         journal' = Append(journal, Entry(<<Kind[d], d>>, doc[d].content, 0)),
         doc' = [doc EXCEPT ![d] = PostedRow(d, @, Len(journal) + 1)]
  PROVE  Books' /\ doc' \in [Docs -> Rows] /\ journal' \in Seq(Entries)
<1> DEFINE e == Entry(<<Kind[d], d>>, doc[d].content, 0)
<1>0. PICK n : n = Len(journal) + 1
  OBVIOUS
<1>1. doc \in [Docs -> Rows] /\ journal \in Seq(Entries) /\ Books /\ Kind[d] \in {"invoice", "bill"}
  BY PostingAssumption DEF IInv, Typed
<1>2. e \in Entries
  <2>1. <<Kind[d], d>> \in Sources /\ doc[d].content \in Int
    BY <1>1 DEF Sources, Rows
  <2> QED BY <2>1, EntryTyped
<1>3. /\ journal' \in Seq(Entries)
      /\ DOMAIN journal' = DOMAIN journal \cup {n} /\ n \notin DOMAIN journal
      /\ journal'[n] = e /\ \A k \in DOMAIN journal : journal'[k] = journal[k]
  BY <1>0, <1>1, <1>2, Appended
<1>4. n \in Nat \ {0}
  BY <1>0, <1>1
<1>5. /\ doc'[d] \in Rows /\ doc'[d].entry = n /\ doc'[d].content = doc[d].content
      /\ doc'[d].status \in {"issued", "posted"}
      /\ \A x \in Docs \ {d} : doc'[x] = doc[x]
  <2>1. doc'[d] = PostedRow(d, doc[d], n) /\ \A x \in Docs \ {d} : doc'[x] = doc[x]
    BY <1>0, <1>1
  <2>2. doc[d] \in Rows
    BY <1>1
  <2> QED BY <2>1, <2>2, <1>4, PostedRowOK
<1>6. doc' \in [Docs -> Rows]
  BY <1>1, <1>5
<1>7. \A k \in DOMAIN journal' : EntryOK(k)'
  <2>1. ASSUME NEW k \in DOMAIN journal PROVE EntryOK(k)'
    <3>1. EntryOK(k) /\ k # 0
      BY <1>1 DEF Books
    <3>2. \A x \in Docs : journal[k].source = <<Kind[x], x>> => x # d
      BY <3>1 DEF EntryOK
    <3> QED BY <3>1, <3>2, <1>3, <1>5 DEF EntryOK
  <2>2. EntryOK(n)'
    <3>1. /\ e.source = <<Kind[d], d>> /\ e.amount = doc[d].content
          /\ e.reverses = 0 /\ e.status = "posted"
      BY DEF Entry
    <3> QED BY <3>1, <1>3, <1>5 DEF EntryOK
  <2> QED BY <2>1, <2>2, <1>3
<1>8. \A m \in DOMAIN journal' : journal'[m].reverses # n
  <2>1. e.reverses = 0
    BY DEF Entry
  <2> QED BY <2>1, <1>1, <1>3, <1>4 DEF Books, EntryOK
<1>9. \A x \in Docs : DocOK(x)'
  <2>1. ASSUME NEW x \in Docs \ {d} PROVE DocOK(x)'
    <3>1. DocOK(x) /\ doc'[x] = doc[x]
      BY <1>1, <1>5 DEF Books
    <3>2. e.reverses = 0
      BY DEF Entry
    <3>3. doc[x].entry # 0 => (IsReversed(doc[x].entry)' <=> IsReversed(doc[x].entry))
      BY <1>3, <3>1, <3>2 DEF IsReversed
    <3> QED BY <1>3, <3>1, <3>3 DEF DocOK
  <2>2. DocOK(d)'
    <3>1. RowOK(doc'[d])
      BY <1>4, <1>5 DEF RowOK
    <3>2. e.source = <<Kind[d], d>>
      BY DEF Entry
    <3>3. ~IsReversed(n)'
      BY <1>8 DEF IsReversed
    <3> QED BY <1>3, <1>5, <3>1, <3>2, <3>3 DEF DocOK
  <2> QED BY <2>1, <2>2
<1> QED BY <1>3, <1>6, <1>7, <1>9 DEF Books

LEMMA VoidKeepsBooks ==
  ASSUME IInv, NEW d \in Docs, doc[d].entry # 0,
         journal' = Append(journal, Reversal(doc[d].entry)),
         doc' = [doc EXCEPT ![d] = VoidedRow(@)]
  PROVE  Books' /\ doc' \in [Docs -> Rows] /\ journal' \in Seq(Entries)
<1> DEFINE e == Reversal(doc[d].entry)
<1>0. PICK n, v : n = Len(journal) + 1 /\ v = doc[d].entry
  OBVIOUS
<1>1. doc \in [Docs -> Rows] /\ journal \in Seq(Entries) /\ Books
  BY DEF IInv, Typed
<1>2. doc[d].entry \in DOMAIN journal /\ doc[d].entry \in Nat
  BY <1>1 DEF Books, DocOK
<1>3. /\ e.source = <<"reversal", doc[d].entry>> /\ e.reverses = doc[d].entry
      /\ e.status = "posted"
  BY DEF Reversal, Entry
<1>4. e \in Entries
  <2>1. <<"reversal", doc[d].entry>> \in Sources /\ -journal[doc[d].entry].amount \in Int
    <3>1. journal[doc[d].entry] \in Entries
      BY <1>1, <1>2
    <3> QED BY <3>1, <1>2 DEF Sources, Entries
  <2> QED BY <2>1, <1>2, EntryTyped DEF Reversal
<1>5. /\ journal' \in Seq(Entries)
      /\ DOMAIN journal' = DOMAIN journal \cup {n}
      /\ journal'[n] = e /\ \A k \in DOMAIN journal : journal'[k] = journal[k]
  BY <1>0, <1>1, <1>4, Appended
<1>6. /\ doc'[d] \in Rows /\ doc'[d].entry = doc[d].entry /\ doc'[d].content = doc[d].content
      /\ doc'[d].order = doc[d].order /\ doc'[d].tracked = doc[d].tracked
      /\ doc'[d].status = "voided"
      /\ \A x \in Docs \ {d} : doc'[x] = doc[x]
  <2>1. doc'[d] = VoidedRow(doc[d]) /\ \A x \in Docs \ {d} : doc'[x] = doc[x]
    BY <1>1
  <2>2. doc[d] \in Rows
    BY <1>1
  <2> QED BY <2>1, <2>2, VoidedRowOK
<1>7. doc' \in [Docs -> Rows]
  BY <1>1, <1>6
<1>8. \A k \in DOMAIN journal' : EntryOK(k)'
  <2>1. ASSUME NEW k \in DOMAIN journal PROVE EntryOK(k)'
    <3>1. EntryOK(k)
      BY <1>1 DEF Books
    <3>2. \A x \in Docs : doc'[x].entry = doc[x].entry /\ doc'[x].content = doc[x].content
      BY <1>6
    <3> QED BY <3>1, <3>2, <1>5 DEF EntryOK
  <2>2. EntryOK(n)'
    <3>1. \A x \in Docs : e.source # <<Kind[x], x>>
      BY <1>3, PostingAssumption
    <3> QED BY <3>1, <1>2, <1>3, <1>5 DEF EntryOK
  <2> QED BY <2>1, <2>2, <1>5
<1>9. \A x \in Docs : DocOK(x)'
  <2>1. ASSUME NEW x \in Docs \ {d} PROVE DocOK(x)'
    <3>1. DocOK(x) /\ doc'[x] = doc[x]
      BY <1>1, <1>6 DEF Books
    <3>2. doc[x].entry # doc[d].entry
      BY DocEntries
    <3>3. IsReversed(doc[x].entry)' <=> IsReversed(doc[x].entry)
      BY <1>3, <1>5, <3>1, <3>2 DEF IsReversed
    <3> QED BY <1>5, <3>1, <3>3 DEF DocOK
  <2>2. DocOK(d)'
    <3>1. \E m \in DOMAIN journal' : journal'[m].reverses = v
      BY <1>0, <1>3, <1>5
    <3>2. DocOK(d)
      BY <1>1 DEF Books
    <3>3. RowOK(doc'[d])
      BY <1>6 DEF RowOK
    <3>4. IsReversed(doc[d].entry)'
      BY <3>1, <1>0, <1>6 DEF IsReversed
    <3> QED BY <1>2, <1>5, <1>6, <3>1, <3>2, <3>3, <3>4 DEF DocOK
  <2> QED BY <2>1, <2>2
<1> QED BY <1>5, <1>7, <1>8, <1>9 DEF Books

(* Manual entries: new ones, and reversals of ones without a source.       *)
LEMMA ManualKeepsBooks ==
  ASSUME IInv, doc' = doc, journal' \in Seq(Entries),
         DOMAIN journal \subseteq DOMAIN journal',
         \A k \in DOMAIN journal :
           \/ journal'[k] = journal[k]
           \/ /\ journal[k].source = None /\ journal'[k].source = None
              /\ journal[k].reverses = 0 /\ journal'[k].reverses = 0,
         \A k \in DOMAIN journal' \ DOMAIN journal :
           \/ journal'[k].source = None /\ journal'[k].reverses = 0
           \/ /\ journal'[k].reverses \in DOMAIN journal
              /\ journal[journal'[k].reverses].source = None
              /\ journal'[k].source = <<"reversal", journal'[k].reverses>>
              /\ journal'[k].status = "posted"
  PROVE  Books'
<1>1. /\ doc \in [Docs -> Rows] /\ Books
      /\ \A x \in Docs : None # <<Kind[x], x>> /\ Kind[x] # "reversal"
  BY PostingAssumption DEF IInv, Typed
<1>2. \A k \in DOMAIN journal' : EntryOK(k)'
  <2>1. ASSUME NEW k \in DOMAIN journal PROVE EntryOK(k)'
    <3>1. EntryOK(k)
      BY <1>1 DEF Books
    <3>2. CASE journal'[k] = journal[k]
      BY <3>1, <3>2 DEF EntryOK
    <3>3. CASE journal'[k].source = None /\ journal'[k].reverses = 0
      BY <1>1, <3>3 DEF EntryOK
    <3> QED BY <3>2, <3>3
  <2>2. ASSUME NEW k \in DOMAIN journal' \ DOMAIN journal PROVE EntryOK(k)'
    <3>1. CASE journal'[k].source = None /\ journal'[k].reverses = 0
      BY <1>1, <3>1 DEF EntryOK
    <3>2. CASE /\ journal'[k].reverses \in DOMAIN journal
               /\ journal'[k].source = <<"reversal", journal'[k].reverses>>
               /\ journal'[k].status = "posted"
      <4>1. \A x \in Docs : journal'[k].source # <<Kind[x], x>>
        BY <1>1, <3>2
      <4> QED BY <4>1, <3>2 DEF EntryOK
    <3> QED BY <3>1, <3>2
  <2> QED BY <2>1, <2>2
<1>3. \A x \in Docs : DocOK(x)'
  <2> SUFFICES ASSUME NEW x \in Docs PROVE DocOK(x)'
      OBVIOUS
  <2>1. DocOK(x)
    BY <1>1 DEF Books
  <2>2. CASE doc[x].entry = 0
    BY <2>1, <2>2 DEF DocOK
  <2>3. CASE doc[x].entry # 0
    <3>1. /\ doc[x].entry \in DOMAIN journal
          /\ journal[doc[x].entry].source = <<Kind[x], x>>
          /\ journal'[doc[x].entry] = journal[doc[x].entry]
      BY <1>1, <2>1, <2>3 DEF DocOK
    <3>2. IsReversed(doc[x].entry)' <=> IsReversed(doc[x].entry)
      <4>1. \A m \in DOMAIN journal : journal'[m].reverses = journal[m].reverses
        OBVIOUS
      <4>2. \A m \in DOMAIN journal' \ DOMAIN journal : journal'[m].reverses # doc[x].entry
        BY <1>1, <2>3, <3>1
      <4> QED BY <4>1, <4>2 DEF IsReversed
    <3> QED BY <2>1, <3>1, <3>2 DEF DocOK
  <2> QED BY <2>2, <2>3
<1> QED BY <1>2, <1>3 DEF Books

-----------------------------------------------------------------------------
(* The actions.                                                            *)

Jobs == [req : DOMAIN Request \cup {None}, stage : Stages]

Immutable ==
  \A d \in Docs : doc[d].entry # 0 =>
    /\ doc'[d].entry = doc[d].entry /\ doc'[d].content = doc[d].content
    /\ doc'[d].order = doc[d].order /\ doc'[d].tracked = doc[d].tracked
    /\ doc'[d].status \notin {"draft", "deleted"}
    /\ doc[d].status = "voided" => doc'[d].status = "voided"

LEMMA StepOK ==
  ASSUME IInv, NEW p \in Procs,
         Books', doc' \in [Docs -> Rows], journal' \in Seq(Entries),
         job' \in [Procs -> Jobs], seen' \in [Procs -> Rows], todo' \subseteq todo,
         \A o \in Procs \ {p} : job'[o] = job[o] /\ seen'[o] = seen[o] /\ SaverOK(o)',
         JobOK(p)', SaverOK(p)',
         job'[p] # Idle => job[p] # Idle /\ job'[p].req = job[p].req
  PROVE  IInv'
<1>1. Typed'
  BY DEF IInv, Typed, Jobs
<1>2. \A o \in Procs : JobOK(o)' /\ SaverOK(o)'
  <2>1. \A o \in Procs \ {p} : JobOK(o)'
    BY DEF IInv, JobOK, KindOf
  <2> QED BY <2>1
<1>3. \A q, o \in Procs : Apart(q, o)'
  BY StayApart
<1> QED BY <1>1, <1>2, <1>3 DEF IInv

LEMMA SameDocs ==
  ASSUME IInv, doc' = doc
  PROVE  Immutable
BY DEF IInv, Books, DocOK, RowOK, Immutable

LEMMA SameBooks ==
  ASSUME IInv, doc' = doc, journal' = journal
  PROVE  Books'
BY DEF IInv, Books, DocOK, EntryOK, IsReversed

LEMMA SavesRow ==
  ASSUME IInv, NEW p \in Procs, NEW d \in Docs, NEW row, Rewrites(d, row),
         doc' = [doc EXCEPT ![d] = row], journal' = journal,
         job' \in [Procs -> Jobs], seen' \in [Procs -> Rows], todo' \subseteq todo,
         \A o \in Procs \ {p} : job'[o] = job[o] /\ seen'[o] = seen[o],
         JobOK(p)', SaverOK(p)',
         job'[p] # Idle => job[p] # Idle /\ job'[p].req = job[p].req
  PROVE  IInv' /\ Immutable
<1>1. Books' /\ doc' \in [Docs -> Rows]
  BY RewriteKeepsBooks
<1>2. \A o \in Procs \ {p} : SaverOK(o)'
  BY RewriteKeepsSavers
<1>3. IInv'
  <2>1. journal' \in Seq(Entries)
    BY DEF IInv, Typed
  <2> QED BY <1>1, <1>2, <2>1, StepOK
<1>4. Immutable
  <2>1. doc \in [Docs -> Rows] /\ \A x \in Docs : RowOK(doc[x])
    BY DEF IInv, Typed, Books, DocOK
  <2>2. doc'[d] = row /\ \A x \in Docs \ {d} : doc'[x] = doc[x]
    BY <2>1
  <2> QED BY <2>1, <2>2 DEF Immutable, Rewrites, RowOK
<1> QED BY <1>3, <1>4

LEMMA KeepsTables ==
  ASSUME IInv, NEW p \in Procs, doc' = doc, journal' = journal,
         job' \in [Procs -> Jobs], seen' \in [Procs -> Rows], todo' \subseteq todo,
         \A o \in Procs \ {p} : job'[o] = job[o] /\ seen'[o] = seen[o],
         JobOK(p)', SaverOK(p)',
         job'[p] # Idle => job[p] # Idle /\ job'[p].req = job[p].req
  PROVE  IInv' /\ Immutable
<1>1. doc' \in [Docs -> Rows] /\ journal' \in Seq(Entries)
  BY DEF IInv, Typed
<1>2. \A o \in Procs \ {p} : SaverOK(o)'
  BY SaverStays DEF IInv
<1>3. IInv'
  BY <1>1, <1>2, SameBooks, StepOK
<1> QED BY <1>3, SameDocs

LEMMA EndOK ==
  ASSUME IInv, NEW p \in Procs, End(p)
  PROVE  /\ job' \in [Procs -> Jobs] /\ seen' \in [Procs -> Rows]
         /\ \A o \in Procs \ {p} : job'[o] = job[o] /\ seen'[o] = seen[o]
         /\ job'[p] = Idle /\ JobOK(p)' /\ SaverOK(p)'
<1>1. job \in [Procs -> Jobs] /\ seen \in [Procs -> Rows]
  BY DEF IInv, Typed, Jobs
<1>2. /\ job' \in [Procs -> Jobs] /\ seen' \in [Procs -> Rows] /\ job'[p] = Idle
      /\ \A o \in Procs \ {p} : job'[o] = job[o] /\ seen'[o] = seen[o]
  BY <1>1, IdleJob, AbsentRow DEF End, Jobs
<1> QED BY <1>2, IdleOK

LEMMA StageOK ==
  ASSUME IInv, NEW p \in Procs, NEW s \in Stages \ {"idle"}, job[p] # Idle,
         job' = [job EXCEPT ![p].stage = s]
  PROVE  /\ job' \in [Procs -> Jobs]
         /\ \A o \in Procs \ {p} : job'[o] = job[o]
         /\ job'[p].req = job[p].req /\ job'[p].stage = s /\ job'[p] # Idle
         /\ Row(p)' = Row(p) /\ KindOf(p)' = KindOf(p)
<1>1. job \in [Procs -> Jobs]
  BY DEF IInv, Typed, Jobs
<1>2. job[p] \in Jobs
  BY <1>1
<1>3. job'[p] = [job[p] EXCEPT !.stage = s] /\ \A o \in Procs \ {p} : job'[o] = job[o]
  BY <1>1
<1>4. [job[p] EXCEPT !.stage = s] \in Jobs
  BY <1>2 DEF Jobs
<1>5. job'[p].req = job[p].req /\ job'[p].stage = s
  BY <1>2, <1>3 DEF Jobs
<1>6. job' \in [Procs -> Jobs]
  BY <1>1, <1>4
<1>7. job'[p] # Idle
  BY <1>5 DEF Idle
<1> QED BY <1>3, <1>5, <1>6, <1>7 DEF Row, KindOf

LEMMA ReqOK ==
  ASSUME IInv, NEW p \in Procs, job[p] # Idle
  PROVE  /\ job[p].req \in DOMAIN Request
         /\ KindOf(p) \in DocKinds => Row(p) \in Docs
         /\ Request[job[p].req].content \in Nat
         /\ Request[job[p].req].order \in Orders \cup {None}
BY PostingAssumption DEF IInv, JobOK, KindOf, Row

LEMMA DraftedOK ==
  ASSUME IInv, NEW d \in Docs, NEW row \in Rows, row.status = "draft", row.entry = 0,
         NEW q, q.content \in Nat, q.order \in Orders \cup {None}, doc[d].entry = 0
  PROVE  Rewrites(d, Drafted(d, row, q))
<1>1. doc[d].stamp + 1 \in Nat
  <2>1. doc[d] \in Rows
    BY DEF IInv, Typed
  <2> QED BY <2>1 DEF Rows
<1>2. Matches(q.order) \in BOOLEAN
  BY DEF Matches
<1>3. Drafted(d, row, q) \in Rows
  BY <1>1, <1>2, Zenon DEF Drafted, Rows
<1>4. Drafted(d, row, q).status = "draft" /\ Drafted(d, row, q).entry = 0
  BY DEF Drafted, Rows
<1> QED BY <1>3, <1>4 DEF Rewrites, RowOK

(* A request that begins reads what its kind may read, and clashes with    *)
(* nobody on its row.                                                      *)
LEMMA BeginOK ==
  ASSUME IInv, NEW p \in Procs, NEW r \in todo,
         NEW kind \in (DocKinds \ {"create"}) \cup {"confirm", "cancel"}, Begin(p, r, kind),
         kind \in {"edit", "issue"} => doc[Request[r].row].status = "draft",
         kind = "send" => doc[Request[r].row].status \in {"issued", "sent"}
  PROVE  IInv' /\ Immutable
<1> DEFINE q == Request[r]
<1>1. /\ Typed /\ Books /\ r \in DOMAIN Request /\ q.kind = kind
      /\ job \in [Procs -> Jobs] /\ seen \in [Procs -> Rows] /\ doc \in [Docs -> Rows]
      /\ kind \in DocKinds => q.row \in Docs
  BY PostingAssumption DEF IInv, Typed, Begin, Jobs
<1>2. /\ doc' = doc /\ journal' = journal /\ todo' = todo /\ job[p] = Idle
      /\ job' = [job EXCEPT ![p] = [req |-> r, stage |-> "begun"]]
      /\ seen' = [seen EXCEPT ![p] = IF q.row \in Docs THEN doc[q.row] ELSE Absent]
  BY DEF Begin, tables
<1>3. /\ job' \in [Procs -> Jobs] /\ job'[p] = [req |-> r, stage |-> "begun"]
      /\ \A o \in Procs \ {p} : job'[o] = job[o] /\ seen'[o] = seen[o]
  BY <1>1, <1>2 DEF Jobs, Stages
<1>4. /\ seen' \in [Procs -> Rows]
      /\ q.row \in Docs => seen'[p] = doc[q.row]
  BY <1>1, <1>2, AbsentRow
<1>5. /\ Row(p)' = q.row /\ KindOf(p)' = kind
      /\ \A kinds : IsKind(p, kinds)' <=> kind \in kinds
  BY <1>1, <1>3 DEF Row, KindOf, IsKind, Idle
<1>6. JobOK(p)'
  BY <1>1, <1>3, <1>5 DEF JobOK
<1>7. SaverOK(p)'
  <2>1. CASE kind \in DocKinds
    <3>1. RowOK(doc[q.row]) /\ doc'[q.row] = doc[q.row] /\ seen'[p] = doc[q.row]
      BY <1>1, <1>2, <1>4, <2>1 DEF Books, DocOK
    <3>2. SavesDraft(p)' => kind \in {"edit", "issue"}
      BY <1>5 DEF SavesDraft
    <3> QED BY <1>5, <3>1, <3>2 DEF SaverOK, RowOK
  <2>2. CASE kind \notin DocKinds
    BY <1>5, <2>2 DEF SaverOK, SavesDraft, DocKinds
  <2> QED BY <2>1, <2>2
<1>8. \A o \in Procs \ {p} : JobOK(o)' /\ SaverOK(o)'
  <2> SUFFICES ASSUME NEW o \in Procs \ {p} PROVE JobOK(o)' /\ SaverOK(o)'
      OBVIOUS
  <2>1. SaverOK(o) => SaverOK(o)'
    BY <1>2, <1>3, SaverStays
  <2> QED BY <1>3, <2>1, OthersStay
<1>9. \A o \in Procs \ {p} : Apart(p, o)' /\ Apart(o, p)'
  <2> SUFFICES ASSUME NEW o \in Procs \ {p} PROVE Apart(p, o)' /\ Apart(o, p)'
      OBVIOUS
  <2>1. ~Clashes(r)
    BY DEF Begin
  <2>2. job[o] # Idle /\ Row(o) = q.row => {KindOf(o), kind} \notin Clash
    BY <1>1, <2>1 DEF Clashes, Meet, Row, KindOf
  <2>3. job'[o] = job[o] /\ Row(o)' = Row(o) /\ KindOf(o)' = KindOf(o)
    BY <1>3 DEF Row, KindOf
  <2>4. {KindOf(o), kind} = {kind, KindOf(o)}
    OBVIOUS
  <2> QED BY <1>5, <2>2, <2>3, <2>4 DEF Apart
<1>10. \A o, x \in Procs : Apart(o, x)'
  <2> SUFFICES ASSUME NEW o \in Procs, NEW x \in Procs PROVE Apart(o, x)'
      OBVIOUS
  <2>1. CASE o # p /\ x # p
    <3>1. Apart(o, x)
      BY DEF IInv
    <3> QED BY <1>3, <2>1, <3>1 DEF Apart, Row, KindOf
  <2>2. CASE o = x
    BY <2>2 DEF Apart
  <2> QED BY <1>9, <2>1, <2>2
<1>11. Typed' /\ Books'
  BY <1>1, <1>2, <1>3, <1>4, SameBooks DEF Typed, Jobs
<1> QED BY <1>2, <1>6, <1>7, <1>8, <1>10, <1>11, SameDocs DEF IInv

LEMMA BeginAnyOK ==
  ASSUME IInv, NEW p \in Procs, BeginAny(p)
  PROVE  IInv' /\ Immutable
<1>1. PICK r \in todo :
        \/ BeginEdit(p, r) \/ BeginPost(p, r) \/ BeginIssue(p, r) \/ BeginSend(p, r)
        \/ BeginVoid(p, r) \/ BeginDelete(p, r) \/ BeginConfirm(p, r) \/ BeginCancel(p, r)
  BY DEF BeginAny
<1>2. PICK kind \in {"edit", "post", "issue", "send", "void", "delete", "confirm", "cancel"} :
        /\ Begin(p, r, kind)
        /\ kind \in {"edit", "issue"} => doc[Request[r].row].status = "draft"
        /\ kind = "send" => doc[Request[r].row].status \in {"issued", "sent"}
  BY <1>1 DEF BeginEdit, BeginPost, BeginIssue, BeginSend, BeginVoid, BeginDelete,
              BeginConfirm, BeginCancel
<1> QED BY <1>2, BeginOK DEF DocKinds

LEMMA CreateOK ==
  ASSUME IInv, NEW p \in Procs, NEW r \in todo, Create(p, r)
  PROVE  IInv' /\ Immutable
<1> DEFINE q == Request[r]
           row == [Absent EXCEPT !.status = "draft"]
<1>1. /\ r \in DOMAIN Request /\ q.row \in Docs /\ q.content \in Nat
      /\ q.order \in Orders \cup {None}
  BY PostingAssumption DEF IInv, Typed, Create, DocKinds
<1>2. row \in Rows /\ row.status = "draft" /\ row.entry = 0
  BY AbsentRow, Zenon DEF Absent, Rows, Statuses
<1>3. doc[q.row].entry = 0
  BY <1>1 DEF IInv, Books, DocOK, RowOK, Create
<1>4. Rewrites(q.row, Drafted(q.row, row, q))
  BY <1>1, <1>2, <1>3, DraftedOK
<1>5. /\ doc' = [doc EXCEPT ![q.row] = Drafted(q.row, row, q)]
      /\ journal' = journal /\ job' = job /\ seen' = seen /\ todo' \subseteq todo /\ job[p] = Idle
  BY DEF Create
<1>6. job' \in [Procs -> Jobs] /\ seen' \in [Procs -> Rows]
  BY <1>5 DEF IInv, Typed, Jobs
<1>7. JobOK(p)' /\ SaverOK(p)'
  BY <1>5, IdleOK
<1> QED BY <1>1, <1>4, <1>5, <1>6, <1>7, SavesRow

LEMMA EditOK ==
  ASSUME IInv, NEW p \in Procs, Edit(p)
  PROVE  IInv' /\ Immutable
<1> DEFINE q == Request[job[p].req]
           d == Row(p)
<1>1. job[p] # Idle /\ KindOf(p) = "edit" /\ SavesDraft(p)
  BY DEF Edit, Saving, IsKind, KindOf, SavesDraft
<1>2. d \in Docs /\ q.content \in Nat /\ q.order \in Orders \cup {None}
  BY <1>1, ReqOK DEF DocKinds
<1>3. seen[p] \in Rows /\ seen[p].status = "draft" /\ seen[p].entry = 0 /\ doc[d].entry = 0
  BY <1>1 DEF IInv, Typed, SaverOK
<1>4. Rewrites(d, Drafted(d, seen[p], q))
  BY <1>2, <1>3, DraftedOK
<1>5. /\ doc' = [doc EXCEPT ![d] = Drafted(d, seen[p], q)] /\ journal' = journal
      /\ End(p) /\ todo' \subseteq todo
  BY DEF Edit, Done
<1> QED BY <1>2, <1>4, <1>5, EndOK, SavesRow

LEMMA SaveIssueOK ==
  ASSUME IInv, NEW p \in Procs, SaveIssue(p)
  PROVE  IInv' /\ Immutable
<1> DEFINE d == Row(p)
           row == [seen[p] EXCEPT !.stamp = doc[d].stamp + 1]
<1>1. job[p] # Idle /\ KindOf(p) = "issue" /\ SavesDraft(p)
  BY DEF SaveIssue, Saving, IsKind, KindOf, SavesDraft
<1>2. d \in Docs
  BY <1>1, ReqOK DEF DocKinds
<1>3. seen[p] \in Rows /\ seen[p].status = "draft" /\ seen[p].entry = 0 /\ doc[d].entry = 0
  BY <1>1 DEF IInv, Typed, SaverOK
<1>4. Rewrites(d, row)
  <2>1. doc[d] \in Rows
    BY <1>2 DEF IInv, Typed
  <2>2. doc[d].stamp + 1 \in Nat
    BY <2>1 DEF Rows
  <2>3. row \in Rows
    BY <2>2, <1>3, Zenon DEF Rows
  <2>4. row.status = "draft" /\ row.entry = 0
    BY <1>3 DEF Rows
  <2> QED BY <2>3, <2>4, <1>3 DEF Rewrites, RowOK
<1>5. /\ doc' = [doc EXCEPT ![d] = row] /\ journal' = journal /\ seen' = seen /\ todo' = todo
      /\ job' = [job EXCEPT ![p].stage = "saved"]
  BY DEF SaveIssue
<1>6. /\ job' \in [Procs -> Jobs] /\ \A o \in Procs \ {p} : job'[o] = job[o]
      /\ job'[p].req = job[p].req /\ job'[p].stage = "saved" /\ job'[p] # Idle
      /\ KindOf(p)' = "issue"
  BY <1>1, <1>5, StageOK DEF Stages
<1>7. JobOK(p)'
  BY <1>1, <1>6, ReqOK DEF JobOK, DocKinds
<1>8. SaverOK(p)'
  BY <1>6 DEF SaverOK, SavesDraft, IsKind, KindOf
<1>9. seen' \in [Procs -> Rows]
  BY <1>5 DEF IInv, Typed
<1> QED BY <1>1, <1>2, <1>4, <1>5, <1>6, <1>7, <1>8, <1>9, SavesRow

LEMMA SendOK ==
  ASSUME IInv, NEW p \in Procs, Send(p)
  PROVE  IInv' /\ Immutable
<1> DEFINE d == Row(p)
           row == [seen[p] EXCEPT !.status = "sent", !.stamp = doc[d].stamp + 1]
<1>1. job[p] # Idle /\ KindOf(p) = "send" /\ IsKind(p, {"send"})
  BY DEF Send, Saving, IsKind, KindOf
<1>2. d \in Docs
  BY <1>1, ReqOK DEF DocKinds
<1>3. /\ seen[p] \in Rows /\ doc[d].status \in {"issued", "sent"}
      /\ seen[p].entry = doc[d].entry /\ seen[p].content = doc[d].content
      /\ seen[p].order = doc[d].order /\ seen[p].tracked = doc[d].tracked
      /\ doc[d] \in Rows /\ RowOK(doc[d])
  BY <1>1, <1>2 DEF IInv, Typed, SaverOK, Books, DocOK
<1>4. Rewrites(d, row)
  <2>1. doc[d].stamp + 1 \in Nat
    BY <1>3 DEF Rows
  <2>2. row \in Rows
    BY <2>1, <1>3, Zenon DEF Rows, Statuses
  <2>3. /\ row.status = "sent" /\ row.entry = seen[p].entry /\ row.content = seen[p].content
        /\ row.order = seen[p].order /\ row.tracked = seen[p].tracked
    BY <1>3 DEF Rows
  <2> QED BY <2>2, <2>3, <1>3 DEF Rewrites, RowOK
<1>5. /\ doc' = [doc EXCEPT ![d] = row] /\ journal' = journal
      /\ End(p) /\ todo' \subseteq todo
  BY DEF Send, Done
<1> QED BY <1>2, <1>4, <1>5, EndOK, SavesRow

LEMMA DeleteOK ==
  ASSUME IInv, NEW p \in Procs, Delete(p)
  PROVE  IInv' /\ Immutable
<1> DEFINE d == Row(p)
           row == [doc[d] EXCEPT !.status = "deleted"]
<1>1. job[p] # Idle /\ KindOf(p) = "delete" /\ doc[d].entry = 0
  BY DEF Delete, Committing, CanCommit, StillAllowed, Deletable, IsKind, KindOf
<1>2. d \in Docs
  BY <1>1, ReqOK DEF DocKinds
<1>3. Rewrites(d, row)
  <2>1. doc[d] \in Rows
    BY <1>2 DEF IInv, Typed
  <2>2. row \in Rows
    BY <2>1, Zenon DEF Rows, Statuses
  <2>3. row.status = "deleted" /\ row.entry = 0
    BY <1>1, <2>1 DEF Rows
  <2> QED BY <2>2, <2>3, <1>1 DEF Rewrites, RowOK
<1>4. /\ doc' = [doc EXCEPT ![d] = row] /\ journal' = journal
      /\ End(p) /\ todo' \subseteq todo
  BY DEF Delete, Committing, Done
<1> QED BY <1>2, <1>3, <1>4, EndOK, SavesRow

LEMMA LockDocOK ==
  ASSUME IInv, NEW p \in Procs, LockDoc(p)
  PROVE  IInv' /\ Immutable
<1>1. /\ job[p] # Idle /\ KindOf(p) \in {"post", "issue", "void", "delete"}
      /\ KindOf(p) # "issue" \/ job[p].stage = "prepared"
  BY DEF LockDoc, ToLock, IsKind, KindOf, Idle, IInv, JobOK
<1>2. /\ doc' = doc /\ journal' = journal /\ seen' = seen /\ todo' = todo
      /\ job' = [job EXCEPT ![p].stage = "locked"]
  BY DEF LockDoc, tables
<1>3. /\ job' \in [Procs -> Jobs] /\ \A o \in Procs \ {p} : job'[o] = job[o]
      /\ job'[p].req = job[p].req /\ job'[p].stage = "locked" /\ job'[p] # Idle
      /\ KindOf(p)' = KindOf(p)
  BY <1>1, <1>2, StageOK DEF Stages
<1>4. JobOK(p)'
  BY <1>1, <1>3, ReqOK DEF JobOK, DocKinds
<1>5. SaverOK(p)'
  BY <1>1, <1>3 DEF SaverOK, SavesDraft, IsKind, KindOf
<1>6. seen' \in [Procs -> Rows]
  BY <1>2 DEF IInv, Typed
<1> QED BY <1>1, <1>2, <1>3, <1>4, <1>5, <1>6, KeepsTables

LEMMA LockOrderOK ==
  ASSUME IInv, NEW p \in Procs, LockOrder(p)
  PROVE  IInv' /\ Immutable
<1>1. job[p] # Idle /\ KindOf(p) \in {"post", "issue", "void", "delete"}
  BY DEF LockOrder, Idle, IInv, JobOK
<1>2. /\ doc' = doc /\ journal' = journal /\ seen' = seen /\ todo' = todo
      /\ job' = [job EXCEPT ![p].stage = "ordered"]
  BY DEF LockOrder, tables
<1>3. /\ job' \in [Procs -> Jobs] /\ \A o \in Procs \ {p} : job'[o] = job[o]
      /\ job'[p].req = job[p].req /\ job'[p].stage = "ordered" /\ job'[p] # Idle
      /\ KindOf(p)' = KindOf(p)
  BY <1>1, <1>2, StageOK DEF Stages
<1>4. JobOK(p)'
  BY <1>1, <1>3, ReqOK DEF JobOK, DocKinds
<1>5. SaverOK(p)'
  BY <1>1, <1>3 DEF SaverOK, SavesDraft, IsKind, KindOf
<1>6. seen' \in [Procs -> Rows]
  BY <1>2 DEF IInv, Typed
<1> QED BY <1>1, <1>2, <1>3, <1>4, <1>5, <1>6, KeepsTables

LEMMA PrepareOK ==
  ASSUME IInv, NEW p \in Procs, Prepare(p)
  PROVE  IInv' /\ Immutable
<1>1. job[p] # Idle /\ KindOf(p) = "issue" /\ Row(p) \in Docs
  <2>1. job[p] # Idle /\ KindOf(p) = "issue"
    BY DEF Prepare, Idle, IInv, JobOK
  <2> QED BY <2>1, ReqOK DEF DocKinds
<1>2. /\ doc' = doc /\ journal' = journal /\ todo' = todo
      /\ seen' = [seen EXCEPT ![p] = doc[Row(p)]]
      /\ job' = [job EXCEPT ![p].stage = "prepared"]
  BY DEF Prepare, tables
<1>3. /\ job' \in [Procs -> Jobs] /\ \A o \in Procs \ {p} : job'[o] = job[o]
      /\ job'[p].req = job[p].req /\ job'[p].stage = "prepared" /\ job'[p] # Idle
      /\ KindOf(p)' = KindOf(p)
  BY <1>1, <1>2, StageOK DEF Stages
<1>4. JobOK(p)'
  BY <1>1, <1>3, ReqOK DEF JobOK, DocKinds
<1>5. SaverOK(p)'
  BY <1>1, <1>3 DEF SaverOK, SavesDraft, IsKind, KindOf
<1>6. seen' \in [Procs -> Rows] /\ \A o \in Procs \ {p} : seen'[o] = seen[o]
  BY <1>1, <1>2 DEF IInv, Typed
<1> QED BY <1>1, <1>2, <1>3, <1>4, <1>5, <1>6, KeepsTables

LEMMA EndsOK ==
  ASSUME IInv, NEW p \in Procs, End(p), todo' \subseteq todo, doc' = doc, journal' = journal
  PROVE  IInv' /\ Immutable
BY EndOK, KeepsTables

LEMMA TransitionOK ==
  ASSUME IInv, NEW p \in Procs, Transition(p)
  PROVE  IInv' /\ Immutable
BY EndsOK DEF Transition, Done

LEMMA RefuseOK ==
  ASSUME IInv, NEW p \in Procs, Refuse(p)
  PROVE  IInv' /\ Immutable
BY EndsOK DEF Refuse, Done, tables

LEMMA CrashOK ==
  ASSUME IInv, NEW p \in Procs, Crash(p)
  PROVE  IInv' /\ Immutable
<1>1. End(p) /\ todo' \subseteq todo /\ doc' = doc /\ journal' = journal
  <2>1. CASE IsKind(p, {"issue"}) /\ job[p].stage # "begun"
    BY <2>1 DEF Crash, Done, tables
  <2>2. CASE ~(IsKind(p, {"issue"}) /\ job[p].stage # "begun")
    BY <2>2 DEF Crash, tables
  <2> QED BY <2>1, <2>2
<1> QED BY <1>1, EndsOK

(* A posting meets no request that saves the row as a draft (SavesApart),  *)
(* and none that sends it, as it is not issued yet.                        *)
LEMMA PostOK ==
  ASSUME SavesApart, IInv, NEW p \in Procs, Post(p)
  PROVE  IInv' /\ Immutable
<1> DEFINE d == Row(p)
<1>1. job[p] # Idle /\ KindOf(p) \in {"post", "issue"} /\ doc[d].entry = 0
  BY DEF Post, Committing, CanCommit, StillAllowed, Postable, IsKind, KindOf
<1>2. d \in Docs
  BY <1>1, ReqOK DEF DocKinds
<1>3. /\ journal' = Append(journal, Entry(<<Kind[d], d>>, doc[d].content, 0))
      /\ doc' = [doc EXCEPT ![d] = PostedRow(d, @, Len(journal) + 1)]
      /\ End(p) /\ todo' \subseteq todo
  BY DEF Post, Committing, Done
<1>4. Books' /\ doc' \in [Docs -> Rows] /\ journal' \in Seq(Entries)
  BY <1>1, <1>2, <1>3, PostKeepsBooks
<1>5. \A x \in Docs \ {d} : doc'[x] = doc[x]
  BY <1>3 DEF IInv, Typed
<1>6. \A o \in Procs \ {p} : job'[o] = job[o] /\ seen'[o] = seen[o]
  BY <1>3, EndOK
<1>7. ASSUME NEW o \in Procs \ {p} PROVE SaverOK(o)'
  <2>1. SaverOK(o) /\ Apart(p, o)
    BY DEF IInv
  <2>2. CASE SavesDraft(o) \/ IsKind(o, {"send"})
    <3>1. job[o] # Idle /\ KindOf(o) \in {"edit", "issue", "send"} /\ Row(o) \in Docs
      <4>1. job[o] # Idle /\ KindOf(o) \in {"edit", "issue", "send"}
        BY <2>2 DEF SavesDraft, IsKind, KindOf
      <4> QED BY <4>1, ReqOK DEF DocKinds
    <3>2. Row(o) # d
      <4>1. CASE KindOf(o) = "send"
        <5>1. doc[Row(o)].status \in {"issued", "sent"}
          BY <2>1, <3>1, <4>1 DEF SaverOK, IsKind, KindOf
        <5>2. doc[Row(o)].entry # 0
          BY <3>1, <5>1 DEF IInv, Books, DocOK, RowOK
        <5> QED BY <1>1, <5>2
      <4>2. CASE KindOf(o) \in {"edit", "issue"}
        <5>1. {KindOf(p), KindOf(o)} \in Clash
          <6>1. {KindOf(p), KindOf(o)} \in
                  {{"edit", "post"}, {"edit", "issue"}, {"issue", "post"}, {"issue"}}
            BY <1>1, <4>2
          <6> QED BY <6>1 DEF SavesApart
        <5> QED BY <1>1, <2>1, <3>1, <5>1 DEF Apart
      <4> QED BY <3>1, <4>1, <4>2
    <3>3. doc'[Row(o)] = doc[Row(o)]
      BY <1>5, <3>1, <3>2
    <3> QED BY <1>6, <2>1, <3>3, SaverStays
  <2>3. CASE ~(SavesDraft(o) \/ IsKind(o, {"send"}))
    BY <1>6, <2>3 DEF SaverOK, SavesDraft, IsKind
  <2> QED BY <2>2, <2>3
<1>8. IInv'
  BY <1>3, <1>4, <1>6, <1>7, EndOK, StepOK
<1>9. Immutable
  BY <1>1, <1>5 DEF Immutable, IInv, Books, DocOK, RowOK
<1> QED BY <1>8, <1>9

(* A void meets no sending of the document (SavesApart), and leaves the    *)
(* entry alone, on which the others rely.                                  *)
LEMMA VoidOK ==
  ASSUME SavesApart, IInv, NEW p \in Procs, Void(p)
  PROVE  IInv' /\ Immutable
<1> DEFINE d == Row(p)
<1>1. job[p] # Idle /\ KindOf(p) = "void" /\ doc[d].entry # 0
  BY DEF Void, Committing, CanCommit, StillAllowed, Voidable, IsKind, KindOf
<1>2. d \in Docs
  BY <1>1, ReqOK DEF DocKinds
<1>3. /\ journal' = Append(journal, Reversal(doc[d].entry))
      /\ doc' = [doc EXCEPT ![d] = VoidedRow(@)]
      /\ End(p) /\ todo' \subseteq todo
  BY DEF Void, Committing, Done
<1>4. Books' /\ doc' \in [Docs -> Rows] /\ journal' \in Seq(Entries)
  BY <1>1, <1>2, <1>3, VoidKeepsBooks
<1>5. doc'[d] = VoidedRow(doc[d]) /\ \A x \in Docs \ {d} : doc'[x] = doc[x]
  BY <1>2, <1>3 DEF IInv, Typed
<1>6. /\ doc'[d].entry = doc[d].entry /\ doc'[d].content = doc[d].content
      /\ doc'[d].order = doc[d].order /\ doc'[d].tracked = doc[d].tracked
      /\ doc'[d].status = "voided"
  <2>1. doc[d] \in Rows
    BY <1>2 DEF IInv, Typed
  <2> QED BY <2>1, <1>5, VoidedRowOK
<1>7. \A o \in Procs \ {p} : job'[o] = job[o] /\ seen'[o] = seen[o]
  BY <1>3, EndOK
<1>8. ASSUME NEW o \in Procs \ {p} PROVE SaverOK(o)'
  <2>1. SaverOK(o) /\ Apart(p, o) /\ Row(o)' = Row(o)
    BY <1>7 DEF IInv, Row
  <2>2. CASE Row(o) = d
    <3>1. ~IsKind(o, {"send"})
      <4>1. {"send", "void"} \in Clash
        BY DEF SavesApart
      <4>2. KindOf(o) = "send" => {KindOf(p), KindOf(o)} = {"send", "void"}
        BY <1>1
      <4> QED BY <1>1, <2>1, <2>2, <4>1, <4>2 DEF Apart, IsKind, KindOf
    <3> QED BY <1>6, <1>7, <2>1, <2>2, <3>1 DEF SaverOK, SavesDraft, IsKind
  <2>3. CASE Row(o) # d /\ Row(o) \in Docs
    BY <1>5, <1>7, <2>1, <2>3, SaverStays
  <2>4. CASE Row(o) \notin Docs
    <3>1. ~SavesDraft(o) /\ ~IsKind(o, {"send"})
      BY <2>4, ReqOK DEF SavesDraft, IsKind, KindOf, DocKinds
    <3> QED BY <1>7, <3>1 DEF SaverOK, SavesDraft, IsKind
  <2> QED BY <2>2, <2>3, <2>4
<1>9. IInv'
  BY <1>3, <1>4, <1>7, <1>8, EndOK, StepOK
<1>10. Immutable
  BY <1>5, <1>6 DEF Immutable, IInv, Books, DocOK, RowOK
<1> QED BY <1>9, <1>10

-----------------------------------------------------------------------------
(* Manual entries.                                                         *)

LEMMA AtOnceOK ==
  ASSUME IInv, NEW p \in Procs, NEW r \in todo, NEW kind, AtOnce(p, r, kind),
         journal' \in Seq(Entries), Books'
  PROVE  IInv' /\ Immutable
<1>1. /\ doc' = doc /\ job' = job /\ seen' = seen /\ todo' \subseteq todo /\ job[p] = Idle
  BY DEF AtOnce
<1>2. doc' \in [Docs -> Rows] /\ job' \in [Procs -> Jobs] /\ seen' \in [Procs -> Rows]
  BY <1>1 DEF IInv, Typed, Jobs
<1>3. \A o \in Procs : JobOK(o)' /\ SaverOK(o)'
  BY <1>1, SaverStays DEF IInv, JobOK, KindOf
<1>4. IInv'
  BY <1>1, <1>2, <1>3, StepOK
<1> QED BY <1>1, <1>4, SameDocs

(* What Reversed makes of a journal, or of one that has a new entry more.  *)
LEMMA ReversedOK ==
  ASSUME NEW entries \in Seq(Entries), NEW k \in DOMAIN entries,
         k \in DOMAIN journal, entries[k] = journal[k],
         entries[k].source = None, entries[k].reverses = 0
  PROVE  LET after == Reversed(entries, k)
             n     == Len(entries) + 1
         IN /\ after \in Seq(Entries) /\ DOMAIN after = DOMAIN entries \cup {n}
            /\ \A m \in DOMAIN entries \ {k} : after[m] = entries[m]
            /\ after[k].source = None /\ after[k].reverses = 0
            /\ after[n].reverses = k /\ after[n].source = <<"reversal", k>>
            /\ after[n].status = "posted"
<1> DEFINE marked == [entries EXCEPT ![k].status = "reversed"]
           n == Len(entries) + 1
           e == Reversal(k)
<1>1. entries[k] \in Entries /\ k \in Nat
  OBVIOUS
<1>2. e \in Entries /\ e.reverses = k /\ e.source = <<"reversal", k>> /\ e.status = "posted"
  <2>1. -journal[k].amount \in Int
    BY <1>1 DEF Entries
  <2>2. <<"reversal", k>> \in Sources
    BY <1>1 DEF Sources
  <2>3. e \in Entries
    BY <1>1, <2>1, <2>2, EntryTyped DEF Reversal
  <2> QED BY <2>3 DEF Reversal, Entry
<1>3. /\ [entries[k] EXCEPT !.status = "reversed"] \in Entries
      /\ [entries[k] EXCEPT !.status = "reversed"].source = entries[k].source
      /\ [entries[k] EXCEPT !.status = "reversed"].reverses = entries[k].reverses
  BY <1>1 DEF Entries
<1>4. /\ marked \in Seq(Entries) /\ Len(marked) = Len(entries) /\ DOMAIN marked = DOMAIN entries
      /\ marked[k] = [entries[k] EXCEPT !.status = "reversed"]
      /\ \A m \in DOMAIN entries \ {k} : marked[m] = entries[m]
  BY <1>3
<1> HIDE DEF marked, e
<1>5. /\ Append(marked, e) \in Seq(Entries)
      /\ DOMAIN Append(marked, e) = DOMAIN entries \cup {n}
      /\ Append(marked, e)[n] = e
      /\ \A m \in DOMAIN entries : Append(marked, e)[m] = marked[m]
  BY <1>2, <1>4
<1>6. Reversed(entries, k) = Append(marked, e)
  BY DEF Reversed, marked, e
<1> QED BY <1>2, <1>3, <1>4, <1>5, <1>6

LEMMA NewManual ==
  ASSUME NEW r \in DOMAIN Request, IInv
  PROVE  LET e == Entry(None, Request[r].content, 0)
         IN /\ Append(journal, e) \in Seq(Entries)
            /\ Len(Append(journal, e)) = Len(journal) + 1
            /\ DOMAIN Append(journal, e) = DOMAIN journal \cup {Len(journal) + 1}
            /\ Append(journal, e)[Len(journal) + 1] = e
            /\ \A k \in DOMAIN journal : Append(journal, e)[k] = journal[k]
            /\ e.source = None /\ e.reverses = 0
<1> DEFINE e == Entry(None, Request[r].content, 0)
<1>1. e \in Entries /\ e.source = None /\ e.reverses = 0
  <2>1. Request[r].content \in Int
    BY PostingAssumption
  <2>2. e \in Entries
    BY <2>1, EntryTyped DEF Sources
  <2> QED BY <2>2 DEF Entry
<1>2. journal \in Seq(Entries)
  BY DEF IInv, Typed
<1> HIDE DEF e
<1>3. /\ Append(journal, e) \in Seq(Entries)
      /\ Len(Append(journal, e)) = Len(journal) + 1
      /\ DOMAIN Append(journal, e) = DOMAIN journal \cup {Len(journal) + 1}
      /\ Append(journal, e)[Len(journal) + 1] = e
      /\ \A k \in DOMAIN journal : Append(journal, e)[k] = journal[k]
  BY <1>1, <1>2
<1> QED BY <1>1, <1>3 DEF e

LEMMA ManualOK ==
  ASSUME IInv, NEW p \in Procs, Manual(p)
  PROVE  IInv' /\ Immutable
<1>1. PICK r \in todo : EnterManual(p, r) \/ ReverseManual(p, r) \/ ReplaceManual(p, r)
  BY DEF Manual
<1>2. r \in DOMAIN Request /\ journal \in Seq(Entries)
  BY DEF IInv, Typed
<1>3. CASE EnterManual(p, r)
  <2>1. journal' = Append(journal, Entry(None, Request[r].content, 0)) /\ AtOnce(p, r, "enter")
    BY <1>3 DEF EnterManual
  <2>2. /\ journal' \in Seq(Entries)
        /\ DOMAIN journal' = DOMAIN journal \cup {Len(journal) + 1}
        /\ journal'[Len(journal) + 1].source = None /\ journal'[Len(journal) + 1].reverses = 0
        /\ \A k \in DOMAIN journal : journal'[k] = journal[k]
    BY <1>2, <2>1, NewManual
  <2>3. Books'
    BY <2>1, <2>2, ManualKeepsBooks DEF AtOnce
  <2> QED BY <2>1, <2>2, <2>3, AtOnceOK
<1>4. CASE ReverseManual(p, r)
  <2>1. PICK k \in DOMAIN journal : Reversible(k) /\ journal' = Reversed(journal, k)
    BY <1>4 DEF ReverseManual
  <2>2. journal[k].source = None /\ journal[k].reverses = 0
    BY <2>1 DEF Reversible, IsManual
  <2>3. /\ journal' \in Seq(Entries) /\ DOMAIN journal' = DOMAIN journal \cup {Len(journal) + 1}
        /\ \A m \in DOMAIN journal \ {k} : journal'[m] = journal[m]
        /\ journal'[k].source = None /\ journal'[k].reverses = 0
        /\ journal'[Len(journal) + 1].reverses = k
        /\ journal'[Len(journal) + 1].source = <<"reversal", k>>
        /\ journal'[Len(journal) + 1].status = "posted"
    BY <1>2, <2>1, <2>2, ReversedOK
  <2>4. doc' = doc
    BY <1>4 DEF ReverseManual, AtOnce
  <2>5. Books'
    BY <2>2, <2>3, <2>4, ManualKeepsBooks
  <2> QED BY <1>4, <2>3, <2>5, AtOnceOK DEF ReverseManual
<1>5. CASE ReplaceManual(p, r)
  <2> DEFINE entries == Append(journal, Entry(None, Request[r].content, 0))
  <2>1. PICK k \in DOMAIN journal : Reversible(k) /\ journal' = Reversed(entries, k)
    BY <1>5 DEF ReplaceManual
  <2>2. PICK n : n = Len(journal) + 1
    OBVIOUS
  <2>3. /\ entries \in Seq(Entries) /\ Len(entries) = n
        /\ DOMAIN entries = DOMAIN journal \cup {n}
        /\ entries[n].source = None /\ entries[n].reverses = 0 /\ n \notin DOMAIN journal
        /\ \A m \in DOMAIN journal : entries[m] = journal[m]
    BY <1>2, <2>2, NewManual
  <2>4. journal[k].source = None /\ journal[k].reverses = 0 /\ entries[k] = journal[k]
    BY <2>1, <2>3 DEF Reversible, IsManual
  <2> HIDE DEF entries
  <2>5. /\ journal' \in Seq(Entries) /\ DOMAIN journal' = DOMAIN entries \cup {n + 1}
        /\ \A m \in DOMAIN entries \ {k} : journal'[m] = entries[m]
        /\ journal'[k].source = None /\ journal'[k].reverses = 0
        /\ journal'[n + 1].reverses = k
        /\ journal'[n + 1].source = <<"reversal", k>>
        /\ journal'[n + 1].status = "posted"
    <3>1. k \in DOMAIN entries /\ k \in DOMAIN journal /\ Len(entries) + 1 = n + 1
      BY <2>1, <2>3
    <3>2. entries[k].source = None /\ entries[k].reverses = 0
      BY <2>4
    <3> DEFINE after == Reversed(entries, k)
    <3>3. /\ after \in Seq(Entries) /\ DOMAIN after = DOMAIN entries \cup {n + 1}
          /\ \A m \in DOMAIN entries \ {k} : after[m] = entries[m]
          /\ after[k].source = None /\ after[k].reverses = 0
          /\ after[n + 1].reverses = k /\ after[n + 1].source = <<"reversal", k>>
          /\ after[n + 1].status = "posted"
      <4> HIDE DEF after
      <4> QED BY <2>3, <2>4, <3>1, <3>2, ReversedOK DEF after
    <3>4. journal' = after
      BY <2>1
    <3> HIDE DEF after
    <3> QED BY <3>3, <3>4
  <2>6. doc' = doc
    BY <1>5 DEF ReplaceManual, AtOnce
  <2>7. /\ DOMAIN journal' = DOMAIN journal \cup {n, n + 1}
        /\ \A m \in DOMAIN journal \ {k} : journal'[m] = journal[m]
        /\ journal'[n].source = None /\ journal'[n].reverses = 0
    BY <2>3, <2>5
  <2>8. Books'
    BY <2>1, <2>4, <2>5, <2>6, <2>7, ManualKeepsBooks
  <2> QED BY <1>5, <2>5, <2>8, AtOnceOK DEF ReplaceManual
<1> QED BY <1>1, <1>3, <1>4, <1>5

-----------------------------------------------------------------------------
LEMMA NextOK ==
  ASSUME SavesApart, IInv, [Next]_vars
  PROVE  IInv' /\ Immutable
<1>1. CASE Next
  <2> SUFFICES ASSUME NEW p \in Procs,
                      \/ BeginAny(p) \/ (\E r \in todo : Create(p, r)) \/ Manual(p)
                      \/ LockDoc(p) \/ LockOrder(p) \/ Post(p) \/ Void(p) \/ Delete(p)
                      \/ Edit(p) \/ SaveIssue(p) \/ Prepare(p) \/ Send(p) \/ Transition(p)
                      \/ Refuse(p) \/ Crash(p)
               PROVE  IInv' /\ Immutable
      BY <1>1 DEF Next
  <2>1. CASE BeginAny(p) \/ (\E r \in todo : Create(p, r)) \/ Manual(p)
    BY <2>1, BeginAnyOK, CreateOK, ManualOK
  <2>2. CASE LockDoc(p) \/ LockOrder(p) \/ Post(p) \/ Void(p) \/ Delete(p)
    BY <2>2, LockDocOK, LockOrderOK, PostOK, VoidOK, DeleteOK
  <2>3. CASE Edit(p) \/ SaveIssue(p) \/ Prepare(p) \/ Send(p) \/ Transition(p)
    BY <2>3, EditOK, SaveIssueOK, PrepareOK, SendOK, TransitionOK
  <2>4. CASE Refuse(p) \/ Crash(p)
    BY <2>4, RefuseOK, CrashOK
  <2> QED BY <2>1, <2>2, <2>3, <2>4
<1>2. CASE UNCHANGED vars
  <2>1. doc' = doc /\ journal' = journal /\ job' = job /\ seen' = seen /\ todo' = todo
    BY <1>2 DEF vars
  <2>2. IInv'
    <3>1. Typed' /\ Books'
      BY <2>1, SameBooks DEF IInv, Typed
    <3>2. \A p \in Procs : JobOK(p)' /\ SaverOK(p)'
      BY <2>1, SaverStays DEF IInv, JobOK, KindOf
    <3>3. \A p, o \in Procs : Apart(p, o)'
      BY <2>1 DEF IInv, Apart, Row, KindOf
    <3> QED BY <3>1, <3>2, <3>3 DEF IInv
  <2> QED BY <2>1, <2>2, SameDocs
<1> QED BY <1>1, <1>2

(* The invariant all else follows from: documents and journal agree, and   *)
(* what a request saves or relies on still stands.                         *)
THEOREM Invariance ==
  ASSUME SavesApart
  PROVE  Spec => []IInv
<1>1. IInv /\ [Next]_vars => IInv'
  BY NextOK
<1> QED BY <1>1, InitOK, PTL DEF Spec

(* Reports show of every document its one entry, with its amount, while it *)
(* is posted, and nothing before or after.                                 *)
THEOREM BooksAgree ==
  ASSUME SavesApart
  PROVE  Spec => []BooksMatchDocuments
<1>1. IInv => BooksMatchDocuments
  <2> SUFFICES ASSUME IInv, NEW d \in Docs
               PROVE  LET shown == {k \in DOMAIN journal :
                                      journal[k].source = <<Kind[d], d>> /\ Reportable(k)}
                      IN IF Booked(d)
                         THEN /\ shown = {doc[d].entry}
                              /\ journal[doc[d].entry].amount = doc[d].content
                         ELSE shown = {}
      BY DEF BooksMatchDocuments
  <2>1. DocOK(d) /\ \A k \in DOMAIN journal : EntryOK(k)
    BY DEF IInv, Books
  <2>2. \A k \in DOMAIN journal : journal[k].source = <<Kind[d], d>> =>
          /\ doc[d].entry = k /\ k # 0
          /\ Reportable(k) <=> doc[d].status # "voided"
    <3> SUFFICES ASSUME NEW k \in DOMAIN journal, journal[k].source = <<Kind[d], d>>
                 PROVE  /\ doc[d].entry = k /\ k # 0
                        /\ Reportable(k) <=> doc[d].status # "voided"
        OBVIOUS
    <3>1. /\ doc[d].entry = k /\ journal[k].status = "posted" /\ journal[k].reverses = 0
      BY <2>1 DEF EntryOK
    <3>2. k \in Nat \ {0}
      BY DEF IInv, Typed
    <3>3. IsReversed(k) <=> doc[d].status = "voided"
      BY <2>1, <3>1, <3>2 DEF DocOK
    <3>4. IsReversed(k) <=> \E m \in DOMAIN journal : journal[m].status = "posted" /\ journal[m].reverses = k
      BY <2>1, <3>2 DEF IsReversed, EntryOK
    <3> QED BY <3>1, <3>2, <3>3, <3>4 DEF Reportable
  <2>3. Booked(d) <=> doc[d].entry # 0 /\ doc[d].status # "voided"
    BY <2>1 DEF DocOK, RowOK, Booked
  <2>4. doc[d].entry # 0 =>
          /\ doc[d].entry \in DOMAIN journal /\ journal[doc[d].entry].source = <<Kind[d], d>>
          /\ journal[doc[d].entry].amount = doc[d].content
    BY <2>1 DEF DocOK, EntryOK
  <2> QED BY <2>2, <2>3, <2>4
<1> QED BY <1>1, Invariance, PTL

(* Once posted a document keeps its entry, content and order, is never a   *)
(* draft again nor deleted, and once voided stays so.                      *)
THEOREM PostedStays ==
  ASSUME SavesApart
  PROVE  Spec => PostedIsImmutable
<1>1. IInv /\ [Next]_vars => Immutable
  BY NextOK
<1>2. []IInv /\ [][Next]_vars => [][Immutable]_vars
  BY <1>1, PTL
<1>3. Spec => []IInv
  BY Invariance
<1>4. Spec => [][Immutable]_vars
  BY <1>2, <1>3, PTL DEF Spec
<1> QED BY <1>4, PTL DEF PostedIsImmutable, Immutable

-----------------------------------------------------------------------------
(* What reports hide cancels out.  An entry is marked reversed only with a *)
(* reversal beside it, and what is reversed was shown until then.          *)
Amounts(rows, D) == [k \in D |-> rows[k].amount]

(* Reportable, of any journal.                                             *)
Shows(rows, D, k) ==
  /\ rows[k].status = "posted" /\ rows[k].reverses = 0
  /\ ~\E m \in D : rows[m].status = "posted" /\ rows[m].reverses = k

Shown(rows, D) == [k \in D |-> IF Shows(rows, D, k) THEN rows[k].amount ELSE 0]

Balanced(rows, D) ==
  /\ IsFiniteSet(D)
  /\ \A k \in D : rows[k].amount \in Int
  /\ SumFunctionOnSet(Amounts(rows, D), D) = SumFunctionOnSet(Shown(rows, D), D)

LEMMA AmountsInt ==
  ASSUME NEW rows, NEW D, Balanced(rows, D)
  PROVE  /\ IntOn(Amounts(rows, D), D) /\ IntOn(Shown(rows, D), D)
         /\ SumFunctionOnSet(Amounts(rows, D), D) \in Int
         /\ SumFunctionOnSet(Shown(rows, D), D) \in Int
<1>1. IntOn(Amounts(rows, D), D) /\ IntOn(Shown(rows, D), D) /\ IsFiniteSet(D)
  BY DEF Balanced, IntOn, Amounts, Shown
<1> QED BY <1>1, SumInt

Agree(g, f, S) == \A y \in S : g[y] = f[y]

LEMMA SumOneMore ==
  ASSUME NEW S, IsFiniteSet(S), NEW x, x \notin S, NEW T, T = S \cup {x},
         NEW f, NEW g, IntOn(f, S), Agree(g, f, S), NEW a \in Int, a = g[x]
  PROVE  SumFunctionOnSet(g, T) = SumFunctionOnSet(f, S) + a
<1>1. IntOn(g, S) /\ SumFunctionOnSet(f, S) = SumFunctionOnSet(g, S)
  BY SumSame DEF Agree, IntOn
<1>2. SumFunctionOnSet(g, S \cup {x}) = g[x] + SumFunctionOnSet(g, S)
  BY <1>1, SumAdd
<1>3. SumFunctionOnSet(g, S) \in Int
  BY <1>1, SumInt
<1> QED BY <1>1, <1>2, <1>3

(* An entry that reverses none and that none reverses is shown.            *)
Enters(more, E, rows, D, n) ==
  /\ n \notin D /\ E = D \cup {n}
  /\ \A k \in D : more[k] = rows[k] /\ rows[k].reverses # n
  /\ more[n].status = "posted" /\ more[n].amount \in Int
  /\ more[n].reverses = 0 /\ 0 \notin E

LEMMA BalancedNew ==
  ASSUME NEW rows, NEW D, Balanced(rows, D), NEW n, NEW more, NEW E,
         Enters(more, E, rows, D, n)
  PROVE  Balanced(more, E)
<1> DEFINE a == Amounts(rows, D)
           s == Shown(rows, D)
           b == Amounts(more, E)
           t == Shown(more, E)
<1>11. /\ n \notin D /\ E = D \cup {n}
       /\ \A k \in D : more[k] = rows[k] /\ rows[k].reverses # n
       /\ more[n].status = "posted" /\ more[n].amount \in Int
       /\ more[n].reverses = 0 /\ 0 \notin E
  BY DEF Enters
<1>1. IsFiniteSet(D) /\ IntOn(a, D) /\ IntOn(s, D)
      /\ SumFunctionOnSet(a, D) = SumFunctionOnSet(s, D)
  BY <1>11, AmountsInt DEF Balanced
<1>2. Agree(b, a, D)
  BY <1>11 DEF Amounts, Agree
<1>3. \A k \in D : Shows(more, E, k) <=> Shows(rows, D, k)
  BY <1>11 DEF Shows
<1>4. Shows(more, E, n)
  BY <1>11 DEF Shows
<1>5. Agree(t, s, D)
  BY <1>11, <1>3 DEF Shown, Agree
<1>6. t[n] = more[n].amount /\ b[n] = more[n].amount
  BY <1>11, <1>4 DEF Shown, Amounts
<1> HIDE DEF a, s, b, t
<1>0. PICK x \in Int : x = more[n].amount
  BY <1>11
<1>7. SumFunctionOnSet(b, E) = SumFunctionOnSet(a, D) + x
  BY <1>11, <1>0, <1>1, <1>2, <1>6, SumOneMore
<1>8. SumFunctionOnSet(t, E) = SumFunctionOnSet(s, D) + x
  BY <1>11, <1>0, <1>1, <1>5, <1>6, SumOneMore
<1>9. \A k \in E : more[k].amount \in Int
  BY <1>11 DEF Balanced
<1>10. IsFiniteSet(E)
  BY <1>11, <1>1, FS_AddElement
<1> QED BY <1>11, <1>1, <1>7, <1>8, <1>9, <1>10 DEF Balanced, b, t

(* A reversal hides itself and the entry it reverses.                      *)
LEMMA BalancedReversal ==
  ASSUME NEW rows, NEW D, Balanced(rows, D), NEW n, n \notin D, NEW more,
         NEW E, E = D \cup {n}, n # 0,
         NEW v \in D, v # 0, Shows(rows, D, v),
         \A k \in D \ {v} : more[k] = rows[k],
         more[v].amount = rows[v].amount, more[v].reverses = 0,
         more[n].status = "posted", more[n].reverses = v,
         more[n].amount = -rows[v].amount
  PROVE  Balanced(more, E)
<1> DEFINE a == Amounts(rows, D)
           s == Shown(rows, D)
           b == Amounts(more, E)
           t == Shown(more, E)
           u == [k \in D |-> t[k]]
<1>0. rows[v].amount \in Int /\ rows[v].reverses = 0
  BY DEF Balanced, Shows
<1>1. IsFiniteSet(D) /\ IntOn(a, D) /\ IntOn(s, D)
      /\ SumFunctionOnSet(a, D) = SumFunctionOnSet(s, D)
      /\ SumFunctionOnSet(a, D) \in Int
  BY AmountsInt DEF Balanced
<1>2. Agree(b, a, D) /\ b[n] = more[n].amount
  BY DEF Amounts, Agree
<1>3. \A k \in D \ {v} : Shows(more, E, k) <=> Shows(rows, D, k)
  BY DEF Shows
<1>4. ~Shows(more, E, v) /\ ~Shows(more, E, n)
  BY DEF Shows
<1>5. \A k \in D \ {v} : u[k] = s[k]
  BY <1>3 DEF Shown
<1>6. t[n] = 0 /\ u[v] = 0 /\ s[v] = rows[v].amount
  BY <1>4 DEF Shown
<1>7. IntOn(u, D)
  <2> HIDE DEF u, s
  <2> QED BY <1>1, <1>5, <1>6 DEF IntOn
<1>8. Agree(t, u, D)
  BY DEF Agree
<1> HIDE DEF a, s, b, t, u
<1>9. SumFunctionOnSet(u, D) = SumFunctionOnSet(s, D) - s[v] + u[v]
  BY <1>1, <1>5, <1>7, SumChange
<1>10. PICK zero \in Int : zero = 0
  OBVIOUS
<1>11. PICK x \in Int : x = more[n].amount
  BY <1>0
<1>12. SumFunctionOnSet(t, E) = SumFunctionOnSet(u, D) + zero
  BY <1>1, <1>6, <1>7, <1>8, <1>10, SumOneMore
<1>13. SumFunctionOnSet(b, E) = SumFunctionOnSet(a, D) + x
  BY <1>1, <1>2, <1>11, SumOneMore
<1>14. IsFiniteSet(E) /\ \A k \in E : more[k].amount \in Int
  BY <1>0, <1>1, <1>11, FS_AddElement DEF Balanced
<1>15. x = 0 - rows[v].amount
  BY <1>0, <1>11
<1>16. SumFunctionOnSet(b, E) = SumFunctionOnSet(t, E)
  BY <1>0, <1>1, <1>6, <1>9, <1>10, <1>12, <1>13, <1>15
<1> QED BY <1>14, <1>16 DEF Balanced, b, t

Marked == \A k \in DOMAIN journal : journal[k].status = "posted" \/ IsReversed(k)

PairsOK == Balanced(journal, DOMAIN journal) /\ Marked

LEMMA PairsInit == Init => PairsOK
<1> SUFFICES ASSUME Init PROVE PairsOK
  OBVIOUS
<1>1. journal = <<>> /\ DOMAIN journal = {}
  BY DEF Init
<1>2. IsFiniteSet({})
  BY FS_EmptySet
<1>3. \A f : SumFunctionOnSet(f, {}) = 0
  BY SumEmpty
<1> QED BY <1>1, <1>2, <1>3 DEF PairsOK, Balanced, Marked

LEMMA Journal ==
  ASSUME IInv
  PROVE  /\ journal \in Seq(Entries) /\ Len(journal) \in Nat /\ DOMAIN journal = 1..Len(journal)
         /\ \A k \in DOMAIN journal :
              /\ journal[k] \in Entries
              /\ journal[k].reverses # Len(journal) + 1
              /\ journal[k].reverses # 0 => journal[k].status = "posted"
<1>1. journal \in Seq(Entries)
  BY DEF IInv, Typed
<1>2. \A k \in DOMAIN journal : journal[k].reverses = 0 \/ journal[k].reverses \in DOMAIN journal
  BY DEF IInv, Books, EntryOK
<1>3. \A k \in DOMAIN journal : journal[k].reverses # 0 => journal[k].status = "posted"
  BY DEF IInv, Books, EntryOK
<1> QED BY <1>1, <1>2, <1>3

LEMMA IsShown ==
  ASSUME IInv, NEW v \in DOMAIN journal, journal[v].status = "posted", journal[v].reverses = 0,
         ~IsReversed(v)
  PROVE  Shows(journal, DOMAIN journal, v)
BY DEF Shows, IsReversed

(* An entry that is shown, as a posting and a manual entry make it.        *)
LEMMA PairsEntered ==
  ASSUME IInv, PairsOK, NEW source, NEW amount \in Int,
         NEW more, more = Append(journal, Entry(source, amount, 0)),
         more \in Seq(Entries)
  PROVE  Balanced(more, DOMAIN more)
<1> DEFINE e == Entry(source, amount, 0)
<1>1. PICK n \in Nat : n = Len(journal) + 1
  BY Journal
<1>2. e.status = "posted" /\ e.amount = amount /\ e.reverses = 0
  BY DEF Entry
<1> HIDE DEF e
<1>3. /\ DOMAIN more = DOMAIN journal \cup {n} /\ n \notin DOMAIN journal
      /\ more[n] = e /\ \A k \in DOMAIN journal : more[k] = journal[k]
  BY <1>1, Journal DEF e
<1>4. \A k \in DOMAIN more : k # 0
  OBVIOUS
<1>5. \A k \in DOMAIN journal : journal[k].reverses # n
  BY <1>1, Journal
<1>6. Enters(more, DOMAIN more, journal, DOMAIN journal, n)
  BY <1>2, <1>3, <1>4, <1>5 DEF Enters
<1>7. Balanced(journal, DOMAIN journal)
  BY DEF PairsOK
<1> QED BY <1>6, <1>7, BalancedNew

LEMMA PairsPost ==
  ASSUME IInv, PairsOK, NEW p \in Procs, Post(p)
  PROVE  PairsOK'
<1> DEFINE d == Row(p)
<1>1. d \in Docs
  <2>1. job[p] # Idle /\ KindOf(p) \in DocKinds
    BY DEF Post, Committing, IsKind, KindOf, DocKinds
  <2> QED BY <2>1, ReqOK
<1>2. doc[d].content \in Int /\ <<Kind[d], d>> \in Sources
  BY <1>1, PostingAssumption DEF IInv, Typed, Rows, Sources
<1>3. PICK e : e = Entry(<<Kind[d], d>>, doc[d].content, 0)
  OBVIOUS
<1>4. e \in Entries /\ e.status = "posted"
  BY <1>2, <1>3, EntryTyped DEF Entry
<1>5. journal' = Append(journal, e)
  BY <1>3 DEF Post
<1>6. journal' \in Seq(Entries)
  BY <1>4, <1>5, Journal
<1>7. Balanced(journal', DOMAIN journal')
  BY <1>2, <1>3, <1>5, <1>6, PairsEntered
<1>8. Marked'
  <2>1. /\ DOMAIN journal' = DOMAIN journal \cup {Len(journal) + 1}
        /\ journal'[Len(journal) + 1] = e
        /\ \A k \in DOMAIN journal : journal'[k] = journal[k]
    BY <1>4, <1>5, Journal
  <2> QED BY <1>4, <2>1 DEF PairsOK, Marked, IsReversed
<1> QED BY <1>7, <1>8 DEF PairsOK

LEMMA PairsVoid ==
  ASSUME IInv, PairsOK, NEW p \in Procs, Void(p)
  PROVE  PairsOK'
<1> DEFINE d == Row(p)
<1>1. d \in Docs /\ Voidable(d, doc[d])
  <2>1. job[p] # Idle /\ KindOf(p) = "void" /\ Voidable(d, doc[d])
    BY DEF Void, Committing, CanCommit, StillAllowed, IsKind, KindOf
  <2> QED BY <2>1, ReqOK DEF DocKinds
<1>2. PICK v : v = doc[d].entry
  OBVIOUS
<1>3. v # 0 /\ doc[d].status # "voided"
  BY <1>1, <1>2 DEF Voidable
<1>4. v \in DOMAIN journal /\ journal[v].source = <<Kind[d], d>> /\ ~IsReversed(v)
  BY <1>1, <1>2, <1>3 DEF IInv, Books, DocOK
<1>5. journal[v].status = "posted" /\ journal[v].reverses = 0
  BY <1>1, <1>4 DEF IInv, Books, EntryOK
<1>6. Shows(journal, DOMAIN journal, v)
  BY <1>4, <1>5, IsShown
<1>7. PICK e : e = Reversal(v)
  OBVIOUS
<1>8. e.status = "posted" /\ e.reverses = v /\ e.amount = -journal[v].amount
  BY <1>7 DEF Reversal, Entry
<1>9. PICK n \in Nat : n = Len(journal) + 1
  BY Journal
<1>10. journal' = Append(journal, e)
  BY <1>2, <1>7 DEF Void
<1>11. /\ DOMAIN journal' = DOMAIN journal \cup {n} /\ n \notin DOMAIN journal /\ n # 0
       /\ journal'[n] = e /\ \A k \in DOMAIN journal : journal'[k] = journal[k]
  BY <1>9, <1>10, Journal
<1>12. Balanced(journal', DOMAIN journal')
  BY <1>3, <1>4, <1>5, <1>6, <1>8, <1>11, BalancedReversal DEF PairsOK
<1>13. Marked'
  BY <1>8, <1>11 DEF PairsOK, Marked, IsReversed
<1> QED BY <1>12, <1>13 DEF PairsOK

TakenBack(more, entries, v) ==
  /\ Balanced(more, DOMAIN more)
  /\ \A k \in DOMAIN more :
       more[k].status = entries[k].status \/ k \notin DOMAIN entries \/ k = v
  /\ DOMAIN more = DOMAIN entries \cup {Len(entries) + 1}
  /\ more[Len(entries) + 1].status = "posted" /\ more[Len(entries) + 1].reverses = v
  /\ \A k \in DOMAIN entries : more[k].reverses = entries[k].reverses

(* A manual entry that is reversed was shown, whether or not a new one was *)
(* entered for it before.                                                  *)
LEMMA PairsReversed ==
  ASSUME IInv, NEW entries \in Seq(Entries), Balanced(entries, DOMAIN entries),
         NEW v \in DOMAIN entries, entries[v].amount = journal[v].amount,
         Shows(entries, DOMAIN entries, v),
         NEW more, more = Reversed(entries, v)
  PROVE  TakenBack(more, entries, v)
<1>1. PICK e : e = Reversal(v)
  OBVIOUS
<1>2. e.status = "posted" /\ e.reverses = v /\ e.amount = -entries[v].amount
  BY <1>1 DEF Reversal, Entry
<1>3. entries[v] \in Entries
  OBVIOUS
<1>4. PICK row : row = [entries[v] EXCEPT !.status = "reversed"]
  OBVIOUS
<1>5. row.amount = entries[v].amount /\ row.reverses = entries[v].reverses
  BY <1>3, <1>4 DEF Entries
<1>6. PICK marked : marked = [entries EXCEPT ![v] = row]
  OBVIOUS
<1>7. more = Append(marked, e)
  BY <1>1, <1>4, <1>6 DEF Reversed
<1>8. PICK n \in Nat : n = Len(entries) + 1
  OBVIOUS
<1>9. /\ Len(marked) = Len(entries) /\ DOMAIN marked = DOMAIN entries
      /\ marked[v] = row /\ \A k \in DOMAIN entries \ {v} : marked[k] = entries[k]
  BY <1>6
<1>10. marked \in Seq(Entries)
  <2>1. row \in Entries
    BY <1>3, <1>4 DEF Entries
  <2> QED BY <1>6, <2>1
<1>11. /\ DOMAIN more = DOMAIN entries \cup {n} /\ more[n] = e /\ n \notin DOMAIN entries /\ n # 0
       /\ \A k \in DOMAIN entries : more[k] = marked[k]
  BY <1>7, <1>8, <1>9, <1>10
<1>12. /\ \A k \in DOMAIN entries \ {v} : more[k] = entries[k]
       /\ more[v].amount = entries[v].amount /\ more[v].reverses = 0
       /\ more[n].status = "posted" /\ more[n].reverses = v /\ more[n].amount = -entries[v].amount
       /\ v # 0 /\ entries[v].reverses = 0
  BY <1>2, <1>5, <1>9, <1>11 DEF Shows
<1>13. Balanced(more, DOMAIN more)
  BY <1>11, <1>12, BalancedReversal
<1>14. /\ \A k \in DOMAIN more :
            more[k].status = entries[k].status \/ k \notin DOMAIN entries \/ k = v
       /\ \A k \in DOMAIN entries : more[k].reverses = entries[k].reverses
  BY <1>11, <1>12
<1> QED BY <1>8, <1>11, <1>12, <1>13, <1>14 DEF TakenBack

LEMMA PairsManual ==
  ASSUME IInv, PairsOK, NEW p \in Procs, Manual(p)
  PROVE  PairsOK'
<1>1. PICK r \in todo : EnterManual(p, r) \/ ReverseManual(p, r) \/ ReplaceManual(p, r)
  BY DEF Manual
<1>2. r \in DOMAIN Request /\ Request[r].content \in Int
  BY PostingAssumption DEF IInv, Typed
<1>3. PICK more : more = Append(journal, Entry(None, Request[r].content, 0))
  OBVIOUS
<1>4. PICK n \in Nat : n = Len(journal) + 1
  BY Journal
<1>5. /\ more \in Seq(Entries) /\ Len(more) = n
      /\ DOMAIN more = DOMAIN journal \cup {n} /\ n \notin DOMAIN journal
      /\ more[n].status = "posted" /\ more[n].reverses = 0
      /\ \A k \in DOMAIN journal : more[k] = journal[k]
  <2>1. PICK e : e = Entry(None, Request[r].content, 0)
    OBVIOUS
  <2>2. e \in Entries /\ e.status = "posted" /\ e.reverses = 0
    <3>1. None \in Sources
      BY DEF Sources
    <3> QED BY <1>2, <2>1, <3>1, EntryTyped DEF Entry
  <2> QED BY <1>3, <1>4, <2>1, <2>2, Journal
<1>6. Balanced(more, DOMAIN more)
  BY <1>2, <1>3, <1>5, PairsEntered
<1>7. ASSUME NEW k \in DOMAIN journal, Reversible(k)
      PROVE  journal[k].status = "posted" /\ journal[k].reverses = 0 /\ ~IsReversed(k)
  BY <1>7 DEF Reversible, PairsOK, Marked
<1>8. CASE EnterManual(p, r)
  <2>1. journal' = more
    BY <1>3, <1>8 DEF EnterManual
  <2> QED BY <1>5, <1>6, <2>1 DEF PairsOK, Marked, IsReversed
<1>9. CASE ReverseManual(p, r)
  <2>1. PICK k \in DOMAIN journal : Reversible(k) /\ journal' = Reversed(journal, k)
    BY <1>9 DEF ReverseManual
  <2>2. Shows(journal, DOMAIN journal, k)
    BY <1>7, <2>1, IsShown
  <2>3. TakenBack(journal', journal, k)
    BY <2>1, <2>2, Journal, PairsReversed DEF PairsOK
  <2> QED BY <2>3 DEF PairsOK, Marked, IsReversed, TakenBack
<1>10. CASE ReplaceManual(p, r)
  <2>1. PICK k \in DOMAIN journal : Reversible(k) /\ journal' = Reversed(more, k)
    BY <1>3, <1>10 DEF ReplaceManual
  <2>2. /\ k \in DOMAIN more /\ more[k] = journal[k]
        /\ journal[k].status = "posted" /\ journal[k].reverses = 0 /\ ~IsReversed(k)
    BY <1>5, <1>7, <2>1
  <2>3. Shows(more, DOMAIN more, k)
    <3>1. k # 0
      BY <2>1, Journal
    <3> QED BY <1>5, <2>2, <3>1 DEF Shows, IsReversed
  <2>4. TakenBack(journal', more, k)
    BY <1>5, <1>6, <2>1, <2>2, <2>3, PairsReversed
  <2>5. \A m \in DOMAIN more : more[m].status = "posted" \/ IsReversed(m)
    BY <1>5 DEF PairsOK, Marked
  <2>6. \A m : IsReversed(m) => IsReversed(m)'
    BY <1>5, <2>4 DEF IsReversed, TakenBack
  <2>7. IsReversed(k)'
    BY <2>4 DEF IsReversed, TakenBack
  <2>8. Marked'
    BY <2>4, <2>5, <2>6, <2>7 DEF Marked, TakenBack
  <2> QED BY <2>4, <2>8 DEF PairsOK, TakenBack
<1> QED BY <1>1, <1>8, <1>9, <1>10

LEMMA PairsNext ==
  ASSUME IInv, PairsOK, [Next]_vars
  PROVE  PairsOK'
<1>1. ASSUME journal' = journal PROVE PairsOK'
  BY <1>1 DEF PairsOK, Marked, IsReversed
<1>2. ASSUME NEW p \in Procs, ~Manual(p), ~Post(p), ~Void(p),
             \/ BeginAny(p) \/ (\E r \in todo : Create(p, r)) \/ Manual(p)
             \/ LockDoc(p) \/ LockOrder(p) \/ Post(p) \/ Void(p) \/ Delete(p)
             \/ Edit(p) \/ SaveIssue(p) \/ Prepare(p) \/ Send(p) \/ Transition(p)
             \/ Refuse(p) \/ Crash(p)
      PROVE  journal' = journal
  <2>1. CASE BeginAny(p) \/ (\E r \in todo : Create(p, r)) \/ LockDoc(p) \/ LockOrder(p)
    BY <2>1 DEF BeginAny, BeginEdit, BeginPost, BeginIssue, BeginSend, BeginVoid, BeginDelete,
                BeginConfirm, BeginCancel, Begin, Create, LockDoc, LockOrder, tables
  <2>2. CASE Delete(p) \/ Edit(p) \/ SaveIssue(p) \/ Prepare(p) \/ Send(p) \/ Transition(p)
    BY <2>2 DEF Delete, Edit, SaveIssue, Prepare, Send, Transition, tables
  <2>3. CASE Refuse(p) \/ Crash(p)
    BY <2>3 DEF Refuse, Crash, tables
  <2> QED BY <1>2, <2>1, <2>2, <2>3
<1>3. CASE UNCHANGED vars
  BY <1>1, <1>3 DEF vars
<1>4. ASSUME NEW p \in Procs, Manual(p) \/ Post(p) \/ Void(p) PROVE PairsOK'
  BY <1>4, PairsManual, PairsPost, PairsVoid
<1> QED BY <1>1, <1>2, <1>3, <1>4 DEF Next

(* Whatever reports leave out cancels out: no reversal, of either kind,    *)
(* moves what the books add up to.                                         *)
THEOREM HiddenCancelsOut ==
  ASSUME SavesApart
  PROVE  Spec => []ReportsHideOnlyPairs
<1>1. IInv /\ PairsOK => ReportsHideOnlyPairs
  <2> SUFFICES ASSUME IInv, PairsOK PROVE ReportsHideOnlyPairs
    OBVIOUS
  <2>1. PICK D : D = DOMAIN journal
    OBVIOUS
  <2>2. PICK a : a = [k \in DOMAIN journal |-> journal[k].amount]
    OBVIOUS
  <2>3. PICK T : T = {k \in DOMAIN journal : Reportable(k)}
    OBVIOUS
  <2>4. a = Amounts(journal, D) /\ Balanced(journal, D)
    BY <2>1, <2>2 DEF Amounts, PairsOK
  <2>5. PICK s : s = Shown(journal, D)
    OBVIOUS
  <2>6. /\ IsFiniteSet(D) /\ IntOn(a, D) /\ IntOn(s, D)
        /\ SumFunctionOnSet(a, D) = SumFunctionOnSet(s, D)
    BY <2>4, <2>5, AmountsInt DEF Balanced
  <2>7. /\ T \in SUBSET D /\ \A k \in D \ T : s[k] = 0
        /\ \A k \in T : s[k] = a[k]
    BY <2>1, <2>2, <2>3, <2>5 DEF Shown, Shows, Reportable
  <2>8. IsFiniteSet(T) /\ IntOn(s, T)
    BY <2>6, <2>7, FS_Subset DEF IntOn
  <2>9. SumFunctionOnSet(s, D) = SumFunctionOnSet(s, T)
    BY <2>6, <2>7, <2>8, SumSupport
  <2>10. SumFunctionOnSet(s, T) = SumFunctionOnSet(a, T)
    BY <2>7, <2>8, SumSame
  <2>11. SumFunctionOnSet(a, DOMAIN journal) = SumFunctionOnSet(a, T)
    BY <2>1, <2>6, <2>9, <2>10
  <2> QED BY <2>2, <2>3, <2>11 DEF ReportsHideOnlyPairs
<1>2. IInv /\ PairsOK /\ [Next]_vars => PairsOK'
  BY PairsNext
<1> QED BY <1>1, <1>2, PairsInit, Invariance, PTL DEF Spec

-----------------------------------------------------------------------------
(* What a sales order has invoiced.  A change of its status is kept apart  *)
(* from posting an invoice of it, because it saves the status it derived   *)
(* from the row it read.                                                   *)
TransitionsApart ==
  {{"confirm", "post"}, {"confirm", "issue"}, {"cancel", "post"}, {"cancel", "issue"}}
    \subseteq Clash

Counts(row, o) ==
  row.status \in {"issued", "sent", "posted"} /\ row.order = o /\ row.tracked

Counted(rows, o) == [d \in Docs |-> IF Counts(rows[d], o) THEN rows[d].content ELSE 0]

OrderStatuses == {"draft", "confirmed", "partially_invoiced", "fully_invoiced", "cancelled"}

(* An order's row says what the documents that count for it say.           *)
Tracks(row, o, rows) ==
  /\ row \in [status : OrderStatuses, invoiced : Nat]
  /\ row.invoiced = SumFunctionOnSet(Counted(rows, o), Docs)
  /\ row.status = IF row.status \in {"draft", "cancelled"} /\ row.invoiced = 0
                  THEN row.status ELSE OrderStatus(o, row.invoiced)

Posts(p) == job[p] # Idle /\ KindOf(p) \in {"post", "issue"}
Turns(p) == job[p] # Idle /\ KindOf(p) \in {"confirm", "cancel"}

PosterOK(p) ==
  Posts(p) =>
    /\ doc[Row(p)].status # "absent"
    /\ SavesDraft(p) => seen[p].order = doc[Row(p)].order

TurnOK(p) ==
  Turns(p) =>
    /\ order[Row(p)].invoiced = 0
    /\ \A o \in Procs : Posts(o) => doc[Row(o)].order # Row(p)

OrdersOK ==
  /\ DOMAIN order = Orders
  /\ \A o \in Orders : Tracks(order[o], o, doc)
  /\ \A p \in Procs : PosterOK(p) /\ TurnOK(p)

-----------------------------------------------------------------------------
LEMMA CountedNat ==
  ASSUME NEW rows \in [Docs -> Rows], NEW o
  PROVE  /\ NatOn(Counted(rows, o), Docs) /\ IntOn(Counted(rows, o), Docs)
         /\ IsFiniteSet(Docs) /\ SumFunctionOnSet(Counted(rows, o), Docs) \in Nat
<1>1. \A d \in Docs : rows[d].content \in Nat
  BY DEF Rows
<1>2. NatOn(Counted(rows, o), Docs) /\ IntOn(Counted(rows, o), Docs) /\ IsFiniteSet(Docs)
  BY <1>1, PostingAssumption DEF NatOn, IntOn, Counted
<1> QED BY <1>2, SumNat

(* Rows that count as before leave the orders as they are.                 *)
LEMMA TracksSame ==
  ASSUME NEW rows \in [Docs -> Rows], NEW old \in [Docs -> Rows],
         \A d \in Docs : \/ rows[d] = old[d]
                         \/ \A o \in Orders : ~Counts(rows[d], o) /\ ~Counts(old[d], o)
                         \/ /\ \A o \in Orders : Counts(rows[d], o) <=> Counts(old[d], o)
                            /\ rows[d].content = old[d].content,
         NEW o \in Orders, NEW row, Tracks(row, o, old)
  PROVE  Tracks(row, o, rows)
<1>1. \A d \in Docs : Counted(old, o)[d] = Counted(rows, o)[d]
  BY DEF Counted
<1>2. SumFunctionOnSet(Counted(old, o), Docs) = SumFunctionOnSet(Counted(rows, o), Docs)
  BY <1>1, CountedNat, SumSame
<1> QED BY <1>2 DEF Tracks

(* One row that counts for an order more, or no more.                      *)
LEMMA TracksChange ==
  ASSUME NEW rows \in [Docs -> Rows], NEW old \in [Docs -> Rows], NEW d \in Docs,
         \A x \in Docs \ {d} : rows[x] = old[x], NEW o
  PROVE  SumFunctionOnSet(Counted(rows, o), Docs)
           = SumFunctionOnSet(Counted(old, o), Docs) - Counted(old, o)[d] + Counted(rows, o)[d]
<1>1. \A x \in Docs \ {d} : Counted(rows, o)[x] = Counted(old, o)[x]
  BY DEF Counted
<1> QED BY <1>1, CountedNat, SumChange

LEMMA MaxZero ==
  ASSUME NEW x \in Int
  PROVE  Max({0, x}) = IF x >= 0 THEN x ELSE 0
<1>1. PICK m : m = IF x >= 0 THEN x ELSE 0
  OBVIOUS
<1>2. m \in {0, x} /\ \A y \in {0, x} : m >= y
  BY <1>1
<1>3. \A n \in {0, x} : (\A y \in {0, x} : n >= y) => n = m
  BY <1>1
<1>4. Max({0, x}) = m
  BY <1>2, <1>3 DEF Max
<1> QED BY <1>1, <1>4

LEMMA InvoicedIs ==
  ASSUME OrdersOK, NEW row \in Rows, NEW sign \in {1, -1}
  PROVE  /\ row.order = None => Invoiced(row, sign) = order
         /\ row.order # None =>
              LET delta == IF row.tracked THEN sign * row.content ELSE 0
                  n     == IF order[row.order].invoiced + delta >= 0
                           THEN order[row.order].invoiced + delta ELSE 0
              IN Invoiced(row, sign)
                   = [order EXCEPT ![row.order] =
                        [status |-> OrderStatus(row.order, n), invoiced |-> n]]
<1>1. ASSUME row.order # None
      PROVE  LET delta == IF row.tracked THEN sign * row.content ELSE 0
                 n     == IF order[row.order].invoiced + delta >= 0
                          THEN order[row.order].invoiced + delta ELSE 0
             IN Invoiced(row, sign)
                  = [order EXCEPT ![row.order] =
                       [status |-> OrderStatus(row.order, n), invoiced |-> n]]
  <2>1. row.order \in Orders /\ row.content \in Nat
    BY <1>1 DEF Rows
  <2>2. order[row.order].invoiced \in Nat
    BY <2>1 DEF OrdersOK, Tracks
  <2>3. PICK delta \in Int : delta = IF row.tracked THEN sign * row.content ELSE 0
    BY <2>1
  <2>4. PICK m \in Int : m = order[row.order].invoiced + delta
    BY <2>2, <2>3
  <2>5. Max({0, m}) = IF m >= 0 THEN m ELSE 0
    BY MaxZero
  <2> QED BY <1>1, <2>3, <2>4, <2>5 DEF Invoiced
<1> QED BY <1>1 DEF Invoiced

(* Without a new journal entry no document starts or stops counting.       *)
LEMMA SteadyDocs ==
  ASSUME IInv, IInv', Immutable, journal' = journal, NEW d \in Docs
  PROVE  \/ \A o \in Orders : ~Counts(doc'[d], o) /\ ~Counts(doc[d], o)
         \/ /\ \A o \in Orders : Counts(doc'[d], o) <=> Counts(doc[d], o)
            /\ doc'[d].content = doc[d].content
<1>1. RowOK(doc[d]) /\ RowOK(doc'[d])
  BY DEF IInv, Books, DocOK
<1>2. CASE doc[d].entry = 0
  <2>1. doc'[d].entry = 0
    <3>1. doc'[d].entry # 0 => doc'[d].entry \in DOMAIN journal
                               /\ journal[doc'[d].entry].source = <<Kind[d], d>>
      BY DEF IInv, Books, DocOK
    <3>2. \A k \in DOMAIN journal : journal[k].source = <<Kind[d], d>> => doc[d].entry = k
      BY DEF IInv, Books, EntryOK
    <3> QED BY <1>2, <3>1, <3>2
  <2> QED BY <1>1, <1>2, <2>1 DEF Counts, RowOK
<1>3. CASE doc[d].entry # 0
  <2>1. /\ doc'[d].entry = doc[d].entry /\ doc'[d].content = doc[d].content
        /\ doc'[d].order = doc[d].order /\ doc'[d].tracked = doc[d].tracked
    BY <1>3 DEF Immutable
  <2>2. (\E m \in DOMAIN journal : journal[m].reverses = doc[d].entry)
          <=> doc[d].status = "voided"
    BY <1>3 DEF IInv, Books, DocOK, IsReversed
  <2>3. (\E m \in DOMAIN journal' : journal'[m].reverses = doc'[d].entry)
          <=> doc'[d].status = "voided"
    BY <1>3, <2>1 DEF IInv, Books, DocOK, IsReversed
  <2>4. doc'[d].status = "voided" <=> doc[d].status = "voided"
    BY <2>1, <2>2, <2>3
  <2> QED BY <1>1, <1>3, <2>1, <2>4 DEF Counts, RowOK
<1> QED BY <1>2, <1>3

LEMMA OrdersSteady ==
  ASSUME IInv, IInv', Immutable, journal' = journal \/ doc' = doc, OrdersOK,
         NEW o \in Orders, NEW row, Tracks(row, o, doc)
  PROVE  Tracks(row, o, doc')
<1>1. doc \in [Docs -> Rows] /\ doc' \in [Docs -> Rows]
  BY DEF IInv, Typed
<1>2. CASE doc' = doc
  BY <1>2
<1>3. CASE journal' = journal
  <2>1. \A d \in Docs : \/ doc'[d] = doc[d]
                        \/ \A x \in Orders : ~Counts(doc'[d], x) /\ ~Counts(doc[d], x)
                        \/ /\ \A x \in Orders : Counts(doc'[d], x) <=> Counts(doc[d], x)
                           /\ doc'[d].content = doc[d].content
    BY <1>3, SteadyDocs
  <2> QED BY <1>1, <2>1, TracksSame
<1> QED BY <1>2, <1>3

-----------------------------------------------------------------------------
(* Those who post and those who change an order.                           *)

KeepsOrder(d) ==
  /\ doc'[d].order = doc[d].order
  /\ doc[d].status # "absent" => doc'[d].status # "absent"

Others(p) == \A o \in Procs \ {p} : job'[o] = job[o] /\ seen'[o] = seen[o]

Goes(p) ==
  \/ job'[p] = Idle
  \/ job[p] # Idle /\ job'[p].req = job[p].req /\ ~SavesDraft(p)'

LEMMA JobsStay ==
  ASSUME IInv, OrdersOK, NEW p \in Procs, Others(p), Goes(p),
         \A o \in Procs : Posts(o) /\ Posts(o)' => KeepsOrder(Row(o)),
         \A o \in Procs : Turns(o) => order'[Row(o)].invoiced = 0,
         NEW q \in Procs
  PROVE  PosterOK(q)' /\ TurnOK(q)'
<1>1. \A o \in Procs : /\ Posts(o)' => Posts(o) /\ Row(o)' = Row(o)
                       /\ Turns(o)' => Turns(o) /\ Row(o)' = Row(o)
  BY DEF Others, Goes, Posts, Turns, Row, KindOf
<1>2. \A o \in Procs : Posts(o)' =>
        /\ doc'[Row(o)].order = doc[Row(o)].order
        /\ doc'[Row(o)].status # "absent"
  BY <1>1 DEF OrdersOK, PosterOK, KeepsOrder
<1>3. SavesDraft(q)' => (SavesDraft(q) /\ seen'[q] = seen[q]) \/ ~Posts(q)'
  BY DEF Others, Goes, SavesDraft, IsKind, Posts, KindOf
<1>4. PosterOK(q)'
  BY <1>1, <1>2, <1>3 DEF OrdersOK, PosterOK
<1>5. TurnOK(q)'
  <2> SUFFICES ASSUME Turns(q)'
               PROVE  /\ order'[Row(q)'].invoiced = 0
                      /\ \A o \in Procs : Posts(o)' => doc'[Row(o)'].order # Row(q)'
    BY DEF TurnOK
  <2>1. Turns(q) /\ Row(q)' = Row(q)
    BY <1>1
  <2> QED BY <1>1, <1>2, <2>1 DEF OrdersOK, TurnOK
<1> QED BY <1>4, <1>5

LEMMA EndGoes ==
  ASSUME IInv, NEW p \in Procs, End(p)
  PROVE  Others(p) /\ Goes(p)
BY EndOK DEF Others, Goes

LEMMA IdleGoes ==
  ASSUME NEW p \in Procs, job' = job, seen' = seen, job[p] = Idle
  PROVE  Others(p) /\ Goes(p)
BY DEF Others, Goes

LEMMA StageGoes ==
  ASSUME IInv, NEW p \in Procs, job[p] # Idle, NEW s \in Stages \ {"idle", "begun"},
         job' = [job EXCEPT ![p].stage = s], \A o \in Procs \ {p} : seen'[o] = seen[o],
         KindOf(p) # "edit"
  PROVE  Others(p) /\ Goes(p)
<1>1. /\ \A o \in Procs \ {p} : job'[o] = job[o]
      /\ job'[p].req = job[p].req /\ job'[p].stage = s /\ KindOf(p)' = KindOf(p)
  BY StageOK
<1>2. ~SavesDraft(p)'
  BY <1>1 DEF SavesDraft, IsKind, KindOf
<1> QED BY <1>1, <1>2 DEF Others, Goes

(* Everything but a posting, a void, a change of an order's status and the *)
(* beginning of a request: the orders stay.                                *)
LEMMA OrdersKept ==
  ASSUME IInv, IInv', Immutable, journal' = journal \/ doc' = doc, order' = order,
         OrdersOK, NEW p \in Procs, Others(p), Goes(p),
         \A o \in Procs : Posts(o) /\ Posts(o)' => KeepsOrder(Row(o))
  PROVE  OrdersOK'
<1>1. \A o \in Orders : Tracks(order[o], o, doc')
  BY OrdersSteady DEF OrdersOK
<1>2. \A o \in Procs : Turns(o) => order'[Row(o)].invoiced = 0
  BY DEF OrdersOK, TurnOK
<1>3. \A q \in Procs : PosterOK(q)' /\ TurnOK(q)'
  BY <1>2, JobsStay
<1> QED BY <1>1, <1>3 DEF OrdersOK

LEMMA PosterRow ==
  ASSUME IInv, NEW o \in Procs, Posts(o)
  PROVE  Row(o) \in Docs /\ job[o] # Idle /\ KindOf(o) \in {"post", "issue"}
BY ReqOK DEF Posts, DocKinds

LEMMA SameOrder ==
  ASSUME doc' = doc
  PROVE  \A d : KeepsOrder(d)
BY DEF KeepsOrder

LEMMA OrdersCreate ==
  ASSUME IInv, IInv', Immutable, OrdersOK, NEW p \in Procs, NEW r \in todo, Create(p, r)
  PROVE  OrdersOK'
<1>1. /\ journal' = journal /\ order' = order /\ Others(p) /\ Goes(p)
  BY IdleGoes DEF Create
<1>2. \A o \in Procs : Posts(o) => KeepsOrder(Row(o))
  <2> SUFFICES ASSUME NEW o \in Procs, Posts(o) PROVE KeepsOrder(Row(o))
    OBVIOUS
  <2>1. doc[Row(o)].status # "absent" /\ Row(o) \in Docs
    BY PosterRow DEF OrdersOK, PosterOK
  <2>2. doc'[Row(o)] = doc[Row(o)]
    BY <2>1 DEF Create, IInv, Typed
  <2> QED BY <2>2 DEF KeepsOrder
<1> QED BY <1>1, <1>2, OrdersKept

LEMMA OrdersEdit ==
  ASSUME SavesApart, IInv, IInv', Immutable, OrdersOK, NEW p \in Procs, Edit(p)
  PROVE  OrdersOK'
<1>1. /\ journal' = journal /\ order' = order /\ Others(p) /\ Goes(p)
      /\ job[p] # Idle /\ KindOf(p) = "edit" /\ job'[p] = Idle
  BY EndGoes, EndOK DEF Edit, Done, Saving, IsKind, KindOf
<1>2. \A o \in Procs : Posts(o) => KeepsOrder(Row(o))
  <2> SUFFICES ASSUME NEW o \in Procs, Posts(o) PROVE KeepsOrder(Row(o))
    OBVIOUS
  <2>1. Row(o) \in Docs /\ job[o] # Idle /\ KindOf(o) \in {"post", "issue"}
    BY PosterRow
  <2>2. {KindOf(p), KindOf(o)} \in Clash
    <3>1. {KindOf(p), KindOf(o)} \in {{"edit", "post"}, {"edit", "issue"}}
      BY <1>1, <2>1
    <3> QED BY <3>1 DEF SavesApart
  <2>3. Row(p) # Row(o)
    BY <1>1, <2>1, <2>2 DEF IInv, Apart
  <2>4. doc'[Row(o)] = doc[Row(o)]
    BY <2>1, <2>3 DEF Edit, IInv, Typed
  <2> QED BY <2>4 DEF KeepsOrder
<1> QED BY <1>1, <1>2, OrdersKept

LEMMA OrdersSaveIssue ==
  ASSUME IInv, IInv', Immutable, OrdersOK, NEW p \in Procs, SaveIssue(p)
  PROVE  OrdersOK'
<1>1. job[p] # Idle /\ KindOf(p) = "issue" /\ SavesDraft(p) /\ Posts(p) /\ Row(p) \in Docs
  <2>1. job[p] # Idle /\ KindOf(p) = "issue" /\ SavesDraft(p)
    BY DEF SaveIssue, Saving, IsKind, KindOf, SavesDraft
  <2> QED BY <2>1, ReqOK DEF Posts, DocKinds
<1>2. /\ journal' = journal /\ order' = order /\ Others(p) /\ Goes(p)
  BY <1>1, StageGoes DEF SaveIssue, Stages
<1>3. \A d \in Docs : KeepsOrder(d)
  <2>1. seen[p].order = doc[Row(p)].order /\ seen[p].status = "draft" /\ seen[p] \in Rows
    BY <1>1 DEF OrdersOK, PosterOK, IInv, SaverOK, Typed
  <2>2. /\ doc'[Row(p)].order = seen[p].order /\ doc'[Row(p)].status = seen[p].status
        /\ \A d \in Docs \ {Row(p)} : doc'[d] = doc[d]
    BY <1>1, <2>1 DEF SaveIssue, IInv, Typed, Rows
  <2> QED BY <2>1, <2>2 DEF KeepsOrder
<1> QED BY <1>2, <1>3, OrdersKept, PosterRow

LEMMA OrdersSend ==
  ASSUME IInv, IInv', Immutable, OrdersOK, NEW p \in Procs, Send(p)
  PROVE  OrdersOK'
<1>1. job[p] # Idle /\ KindOf(p) = "send" /\ Row(p) \in Docs
  <2>1. job[p] # Idle /\ KindOf(p) = "send"
    BY DEF Send, Saving, IsKind, KindOf
  <2> QED BY <2>1, ReqOK DEF DocKinds
<1>2. /\ journal' = journal /\ order' = order /\ Others(p) /\ Goes(p)
  BY EndGoes DEF Send, Done
<1>3. \A d \in Docs : KeepsOrder(d)
  <2>1. seen[p].order = doc[Row(p)].order /\ seen[p] \in Rows
    BY <1>1 DEF IInv, SaverOK, Typed, IsKind, KindOf
  <2>2. /\ doc'[Row(p)].order = seen[p].order /\ doc'[Row(p)].status = "sent"
        /\ \A d \in Docs \ {Row(p)} : doc'[d] = doc[d]
    BY <1>1, <2>1 DEF Send, IInv, Typed, Rows
  <2> QED BY <2>1, <2>2 DEF KeepsOrder
<1> QED BY <1>2, <1>3, OrdersKept, PosterRow

LEMMA OrdersDelete ==
  ASSUME IInv, IInv', Immutable, OrdersOK, NEW p \in Procs, Delete(p)
  PROVE  OrdersOK'
<1>1. /\ journal' = journal /\ order' = order /\ Others(p) /\ Goes(p)
  BY EndGoes DEF Delete, Committing, Done
<1>2. \A d \in Docs : KeepsOrder(d)
  <2> SUFFICES ASSUME NEW d \in Docs PROVE KeepsOrder(d)
    OBVIOUS
  <2>1. doc[d] \in Rows /\ doc' = [doc EXCEPT ![Row(p)].status = "deleted"]
    BY DEF Delete, IInv, Typed
  <2>2. doc'[d].order = doc[d].order /\ (doc'[d].status = doc[d].status \/ doc'[d].status = "deleted")
    BY <2>1 DEF IInv, Typed, Rows
  <2> QED BY <2>2 DEF KeepsOrder
<1> QED BY <1>1, <1>2, OrdersKept, PosterRow

(* What leaves documents and orders alone.                                 *)
LEMMA OrdersOther ==
  ASSUME IInv, IInv', Immutable, OrdersOK, NEW p \in Procs,
         Manual(p) \/ LockDoc(p) \/ LockOrder(p) \/ Prepare(p) \/ Refuse(p) \/ Crash(p)
  PROVE  OrdersOK'
<1>1. doc' = doc /\ order' = order
  BY DEF Manual, EnterManual, ReverseManual, ReplaceManual, AtOnce, LockDoc, LockOrder,
         Prepare, Refuse, Crash, tables
<1>2. Others(p) /\ Goes(p)
  <2>1. CASE Manual(p)
    BY <2>1, IdleGoes DEF Manual, EnterManual, ReverseManual, ReplaceManual, AtOnce
  <2>2. CASE Refuse(p) \/ Crash(p)
    <3>1. End(p)
      BY <2>2 DEF Refuse, Crash, Done
    <3> QED BY <3>1, EndGoes
  <2>3. CASE LockDoc(p) \/ LockOrder(p) \/ Prepare(p)
    <3>1. job[p] # Idle /\ KindOf(p) # "edit"
      BY <2>3 DEF LockDoc, LockOrder, Prepare, ToLock, IsKind, KindOf, Idle, IInv, JobOK
    <3>2. \A o \in Procs \ {p} : seen'[o] = seen[o]
      BY <2>3 DEF LockDoc, LockOrder, Prepare, IInv, Typed
    <3>3. PICK s \in {"locked", "ordered", "prepared"} : job' = [job EXCEPT ![p].stage = s]
      BY <2>3 DEF LockDoc, LockOrder, Prepare
    <3> QED BY <3>1, <3>2, <3>3, StageGoes DEF Stages
  <2> QED BY <2>1, <2>2, <2>3
<1> QED BY <1>1, <1>2, SameOrder, OrdersKept

(* An invoice that starts or stops counting for its order.                 *)
Delta(row, o, sign) == IF row.order = o /\ row.tracked THEN sign * row.content ELSE 0

LEMMA OrdersInvoiced ==
  ASSUME IInv, IInv', OrdersOK, NEW d \in Docs, \A x \in Docs \ {d} : doc'[x] = doc[x],
         NEW sign \in {1, -1}, order' = Invoiced(doc[d], sign),
         \A o \in Orders : Counted(doc', o)[d] - Counted(doc, o)[d] = Delta(doc[d], o, sign)
  PROVE  /\ DOMAIN order' = Orders
         /\ \A o \in Orders :
              /\ Tracks(order'[o], o, doc')
              /\ order'[o].invoiced = order[o].invoiced + Delta(doc[d], o, sign)
<1>1. doc \in [Docs -> Rows] /\ doc' \in [Docs -> Rows] /\ doc[d] \in Rows
  BY DEF IInv, Typed
<1>2. ASSUME NEW o \in Orders
      PROVE  /\ SumFunctionOnSet(Counted(doc', o), Docs) \in Nat
             /\ SumFunctionOnSet(Counted(doc', o), Docs)
                  = order[o].invoiced + Delta(doc[d], o, sign)
  <2>1. SumFunctionOnSet(Counted(doc', o), Docs)
          = SumFunctionOnSet(Counted(doc, o), Docs) - Counted(doc, o)[d] + Counted(doc', o)[d]
    BY <1>1, TracksChange
  <2>2. /\ SumFunctionOnSet(Counted(doc, o), Docs) \in Nat
        /\ SumFunctionOnSet(Counted(doc', o), Docs) \in Nat
        /\ Counted(doc, o)[d] \in Int /\ Counted(doc', o)[d] \in Int
    BY <1>1, CountedNat DEF IntOn
  <2>3. Counted(doc', o)[d] - Counted(doc, o)[d] = Delta(doc[d], o, sign)
    OBVIOUS
  <2>4. order[o].invoiced = SumFunctionOnSet(Counted(doc, o), Docs)
    BY DEF OrdersOK, Tracks
  <2>5. Delta(doc[d], o, sign) \in Int
    BY <1>1 DEF Delta, Rows
  <2> QED BY <2>1, <2>2, <2>3, <2>4, <2>5
<1>3. ASSUME NEW o \in Orders, NEW n \in Nat, order'[o] = [status |-> OrderStatus(o, n), invoiced |-> n],
             n = order[o].invoiced + Delta(doc[d], o, sign)
      PROVE  /\ Tracks(order'[o], o, doc')
             /\ order'[o].invoiced = order[o].invoiced + Delta(doc[d], o, sign)
  <2>1. OrderStatus(o, n) \in OrderStatuses
    BY DEF OrderStatus, OrderStatuses
  <2>2. n = SumFunctionOnSet(Counted(doc', o), Docs)
    BY <1>2, <1>3
  <2>3. PICK s : s = OrderStatus(o, n)
    OBVIOUS
  <2>4. order'[o].invoiced = n /\ order'[o].status = s /\ order'[o] \in [status : OrderStatuses, invoiced : Nat]
    BY <1>3, <2>1, <2>3
  <2> QED BY <1>3, <2>2, <2>3, <2>4 DEF Tracks
<1>4. ASSUME NEW o \in Orders, order'[o] = order[o], Delta(doc[d], o, sign) = 0
      PROVE  /\ Tracks(order'[o], o, doc')
             /\ order'[o].invoiced = order[o].invoiced + Delta(doc[d], o, sign)
  <2>1. Tracks(order[o], o, doc) /\ order[o].invoiced \in Nat
    BY DEF OrdersOK, Tracks
  <2>2. SumFunctionOnSet(Counted(doc', o), Docs) = SumFunctionOnSet(Counted(doc, o), Docs)
    BY <1>2, <1>4, <2>1 DEF Tracks
  <2> QED BY <1>4, <2>1, <2>2 DEF Tracks
<1>5. CASE doc[d].order = None
  <2>1. order' = order /\ None \notin Orders
    BY <1>1, <1>5, InvoicedIs, PostingAssumption
  <2>2. \A o \in Orders : Delta(doc[d], o, sign) = 0
    BY <1>5, <2>1 DEF Delta
  <2> QED BY <1>4, <2>1, <2>2 DEF OrdersOK
<1>6. CASE doc[d].order # None
  <2>1. PICK x \in Orders : x = doc[d].order
    BY <1>1, <1>6 DEF Rows
  <2>2. Delta(doc[d], x, sign) = IF doc[d].tracked THEN sign * doc[d].content ELSE 0
    BY <2>1 DEF Delta
  <2>3. PICK n \in Nat : n = order[x].invoiced + Delta(doc[d], x, sign)
    BY <1>2
  <2>4. order' = [order EXCEPT ![x] = [status |-> OrderStatus(x, n), invoiced |-> n]]
    <3>1. n = IF n >= 0 THEN n ELSE 0
      BY <2>3
    <3> QED BY <1>1, <1>6, <2>1, <2>2, <2>3, <3>1, InvoicedIs
  <2>5. DOMAIN order = Orders
    BY DEF OrdersOK
  <2>6. order'[x] = [status |-> OrderStatus(x, n), invoiced |-> n]
    BY <2>4, <2>5
  <2>7. \A o \in Orders \ {x} : order'[o] = order[o] /\ Delta(doc[d], o, sign) = 0
    BY <2>1, <2>4, <2>5 DEF Delta
  <2>8. \A o \in Orders : /\ Tracks(order'[o], o, doc')
                          /\ order'[o].invoiced = order[o].invoiced + Delta(doc[d], o, sign)
    BY <1>3, <1>4, <2>3, <2>6, <2>7
  <2> QED BY <2>4, <2>5, <2>8
<1> QED BY <1>5, <1>6

LEMMA TurnRow ==
  ASSUME IInv, NEW q \in Procs, Turns(q)
  PROVE  Row(q) \in Orders
<1>1. job[q].req \in DOMAIN Request
  BY ReqOK DEF Turns
<1> QED BY <1>1, PostingAssumption DEF Turns, KindOf, Row

LEMMA OrdersPost ==
  ASSUME IInv, IInv', OrdersOK, NEW p \in Procs, Post(p)
  PROVE  OrdersOK'
<1>1. job[p] # Idle /\ KindOf(p) \in {"post", "issue"} /\ doc[Row(p)].entry = 0
  BY DEF Post, Committing, CanCommit, StillAllowed, Postable, IsKind, KindOf
<1>2. Posts(p) /\ Row(p) \in Docs
  BY <1>1, ReqOK DEF Posts, DocKinds
<1>3. PICK d \in Docs : d = Row(p)
  BY <1>2
<1>4. doc[d] \in Rows /\ doc \in [Docs -> Rows]
  BY DEF IInv, Typed
<1>5. PICK k : doc' = [doc EXCEPT ![d] = PostedRow(d, doc[d], k)]
  BY <1>3 DEF Post
<1>6. /\ doc'[d].order = doc[d].order /\ doc'[d].tracked = doc[d].tracked
      /\ doc'[d].content = doc[d].content /\ doc'[d].status \in {"issued", "posted"}
      /\ \A x \in Docs \ {d} : doc'[x] = doc[x]
  <2>1. doc'[d] = PostedRow(d, doc[d], k)
    BY <1>4, <1>5
  <2> QED BY <2>1, <1>4, <1>5 DEF PostedRow, Rows
<1>7. doc[d].status \notin {"issued", "sent", "posted"}
  BY <1>1, <1>3 DEF IInv, Books, DocOK, RowOK
<1>8. ASSUME NEW o \in Orders
      PROVE  Counted(doc', o)[d] - Counted(doc, o)[d] = Delta(doc[d], o, 1)
  <2>1. doc[d].content \in Nat
    BY <1>4 DEF Rows
  <2>2. Counted(doc, o)[d] = 0
    BY <1>7 DEF Counted, Counts
  <2>3. Counted(doc', o)[d] = IF doc[d].order = o /\ doc[d].tracked THEN doc[d].content ELSE 0
    BY <1>6 DEF Counted, Counts
  <2> QED BY <2>1, <2>2, <2>3 DEF Delta
<1>9. order' = Invoiced(doc[d], 1)
  BY <1>3 DEF Post
<1>10. /\ DOMAIN order' = Orders
       /\ \A o \in Orders :
            /\ Tracks(order'[o], o, doc')
            /\ order'[o].invoiced = order[o].invoiced + Delta(doc[d], o, 1)
  BY <1>6, <1>8, <1>9, OrdersInvoiced
<1>11. \A q \in Procs : Turns(q) => order'[Row(q)].invoiced = 0
  <2> SUFFICES ASSUME NEW q \in Procs, Turns(q) PROVE order'[Row(q)].invoiced = 0
    OBVIOUS
  <2>1. Row(q) \in Orders /\ order[Row(q)].invoiced = 0 /\ doc[d].order # Row(q)
    BY <1>2, <1>3, TurnRow DEF OrdersOK, TurnOK
  <2>2. Delta(doc[d], Row(q), 1) = 0
    BY <2>1 DEF Delta
  <2>3. order'[Row(q)].invoiced = order[Row(q)].invoiced + Delta(doc[d], Row(q), 1)
    BY <1>10, <2>1
  <2> QED BY <2>1, <2>2, <2>3
<1>12. Others(p) /\ Goes(p)
  BY EndGoes DEF Post, Committing, Done
<1>13. \A o \in Procs : Posts(o) /\ Posts(o)' => KeepsOrder(Row(o))
  <2>1. \A x \in Docs : KeepsOrder(x)
    BY <1>6 DEF KeepsOrder
  <2> QED BY <2>1, PosterRow
<1> QED BY <1>10, <1>11, <1>12, <1>13, JobsStay DEF OrdersOK

LEMMA OrdersVoid ==
  ASSUME IInv, IInv', OrdersOK, NEW p \in Procs, Void(p)
  PROVE  OrdersOK'
<1>1. job[p] # Idle /\ KindOf(p) = "void" /\ Voidable(Row(p), doc[Row(p)])
  BY DEF Void, Committing, CanCommit, StillAllowed, IsKind, KindOf
<1>2. PICK d \in Docs : d = Row(p)
  BY <1>1, ReqOK DEF DocKinds
<1>3. doc[d] \in Rows /\ doc \in [Docs -> Rows] /\ doc[d].status \in {"issued", "sent", "posted"}
  BY <1>1, <1>2 DEF IInv, Typed, Voidable
<1>4. doc' = [doc EXCEPT ![d] = VoidedRow(doc[d])] /\ order' = Invoiced(doc[d], -1)
  BY <1>2 DEF Void
<1>5. /\ doc'[d].order = doc[d].order /\ doc'[d].status = "voided"
      /\ \A x \in Docs \ {d} : doc'[x] = doc[x]
  <2>1. doc'[d] = VoidedRow(doc[d]) /\ \A x \in Docs \ {d} : doc'[x] = doc[x]
    BY <1>3, <1>4
  <2> QED BY <2>1, <1>3, VoidedRowOK
<1>6. ASSUME NEW o \in Orders
      PROVE  Counted(doc', o)[d] - Counted(doc, o)[d] = Delta(doc[d], o, -1)
  <2>1. doc[d].content \in Nat
    BY <1>3 DEF Rows
  <2>2. Counted(doc, o)[d] = IF doc[d].order = o /\ doc[d].tracked THEN doc[d].content ELSE 0
    BY <1>3 DEF Counted, Counts
  <2>3. Counted(doc', o)[d] = 0
    BY <1>5 DEF Counted, Counts
  <2> QED BY <2>1, <2>2, <2>3 DEF Delta
<1>7. /\ DOMAIN order' = Orders
      /\ \A o \in Orders :
           /\ Tracks(order'[o], o, doc')
           /\ order'[o].invoiced = order[o].invoiced + Delta(doc[d], o, -1)
  BY <1>4, <1>5, <1>6, OrdersInvoiced
<1>8. \A q \in Procs : Turns(q) => order'[Row(q)].invoiced = 0
  <2> SUFFICES ASSUME NEW q \in Procs, Turns(q) PROVE order'[Row(q)].invoiced = 0
    OBVIOUS
  <2>1. Row(q) \in Orders /\ order[Row(q)].invoiced = 0
    BY TurnRow DEF OrdersOK, TurnOK
  <2>2. order'[Row(q)].invoiced \in Nat
    BY <1>7, <2>1 DEF Tracks
  <2>3. order'[Row(q)].invoiced = order[Row(q)].invoiced + Delta(doc[d], Row(q), -1)
    BY <1>7, <2>1
  <2>4. Delta(doc[d], Row(q), -1) \in Int /\ Delta(doc[d], Row(q), -1) <= 0
    BY <1>3 DEF Delta, Rows
  <2> QED BY <2>1, <2>2, <2>3, <2>4
<1>9. Others(p) /\ Goes(p)
  BY EndGoes DEF Void, Committing, Done
<1>10. \A o \in Procs : Posts(o) /\ Posts(o)' => KeepsOrder(Row(o))
  <2>1. \A x \in Docs : KeepsOrder(x)
    BY <1>5 DEF KeepsOrder
  <2> QED BY <2>1, PosterRow
<1> QED BY <1>7, <1>8, <1>9, <1>10, JobsStay DEF OrdersOK

LEMMA OrdersTransition ==
  ASSUME \A o \in Orders : Ordered[o] > 0,
         IInv, IInv', Immutable, OrdersOK, NEW p \in Procs, Transition(p)
  PROVE  OrdersOK'
<1>1. Turns(p) /\ Row(p) \in Orders
  <2>1. Turns(p)
    BY DEF Transition, Saving, IsKind, Turns, KindOf
  <2> QED BY <2>1, TurnRow
<1>2. PICK x \in Orders : x = Row(p)
  BY <1>1
<1>3. PICK s \in {"confirmed", "cancelled"} : order' = [order EXCEPT ![x].status = s]
  BY <1>2 DEF Transition
<1>4. DOMAIN order = Orders /\ order[x].invoiced = 0 /\ Tracks(order[x], x, doc)
  BY <1>1, <1>2 DEF OrdersOK, TurnOK
<1>5. /\ DOMAIN order' = Orders /\ doc' = doc
      /\ \A o \in Orders \ {x} : order'[o] = order[o]
      /\ order'[x].status = s /\ order'[x].invoiced = 0
      /\ order'[x] \in [status : OrderStatuses, invoiced : Nat]
  BY <1>3, <1>4 DEF Transition, Tracks, OrderStatuses
<1>6. OrderStatus(x, 0) = "confirmed"
  <2>1. Ordered[x] \in Nat /\ Ordered[x] > 0
    BY PostingAssumption
  <2> QED BY <2>1 DEF OrderStatus
<1>7. \A o \in Orders : Tracks(order'[o], o, doc')
  <2>1. Tracks(order'[x], x, doc')
    BY <1>4, <1>5, <1>6 DEF Tracks
  <2> QED BY <1>5, <2>1 DEF OrdersOK
<1>8. \A q \in Procs : Turns(q) => order'[Row(q)].invoiced = 0
  <2> SUFFICES ASSUME NEW q \in Procs, Turns(q) PROVE order'[Row(q)].invoiced = 0
    OBVIOUS
  <2>1. Row(q) \in Orders /\ order[Row(q)].invoiced = 0
    BY TurnRow DEF OrdersOK, TurnOK
  <2> QED BY <1>5, <2>1
<1>9. Others(p) /\ Goes(p)
  BY EndGoes DEF Transition, Done
<1>10. \A q \in Procs : PosterOK(q)' /\ TurnOK(q)'
  BY <1>5, <1>8, <1>9, SameOrder, JobsStay
<1> QED BY <1>5, <1>7, <1>10 DEF OrdersOK

(* A request begins: who posts and who changes the status of its order     *)
(* never meet.                                                             *)
LEMMA MeetsNone ==
  ASSUME TransitionsApart, NEW r, ~Clashes(r), NEW o \in Procs, job[o] # Idle,
         Meet(Row(o), Request[r].row)
  PROVE  ~(/\ KindOf(o) \in {"post", "issue"}
           /\ Request[r].kind \in {"confirm", "cancel"})
         /\ ~(/\ KindOf(o) \in {"confirm", "cancel"}
              /\ Request[r].kind \in {"post", "issue"})
<1>1. {KindOf(o), Request[r].kind} \notin Clash
  BY DEF Clashes, Row, KindOf
<1>2. ASSUME KindOf(o) \in {"post", "issue"}, Request[r].kind \in {"confirm", "cancel"}
      PROVE  FALSE
  <2>1. {KindOf(o), Request[r].kind} \in
          {{"confirm", "post"}, {"confirm", "issue"}, {"cancel", "post"}, {"cancel", "issue"}}
    BY <1>2
  <2> QED BY <1>1, <2>1 DEF TransitionsApart
<1>3. ASSUME KindOf(o) \in {"confirm", "cancel"}, Request[r].kind \in {"post", "issue"}
      PROVE  FALSE
  <2>1. {KindOf(o), Request[r].kind} \in
          {{"confirm", "post"}, {"confirm", "issue"}, {"cancel", "post"}, {"cancel", "issue"}}
    BY <1>3
  <2> QED BY <1>1, <2>1 DEF TransitionsApart
<1> QED BY <1>2, <1>3

LEMMA NothingInvoiced ==
  ASSUME NEW row, NEW o, Tracks(row, o, doc), row.status \in {"draft", "confirmed"}
  PROVE  row.invoiced = 0
BY DEF Tracks, OrderStatus

LEMMA OrdersBegin ==
  ASSUME TransitionsApart, IInv, IInv', Immutable, OrdersOK, NEW p \in Procs, BeginAny(p)
  PROVE  OrdersOK'
<1>1. PICK r \in todo :
        \/ BeginEdit(p, r) \/ BeginPost(p, r) \/ BeginIssue(p, r) \/ BeginSend(p, r)
        \/ BeginVoid(p, r) \/ BeginDelete(p, r) \/ BeginConfirm(p, r) \/ BeginCancel(p, r)
  BY DEF BeginAny
<1>2. PICK x : x = Request[r].row
  OBVIOUS
<1>3. PICK kind :
        /\ Begin(p, r, kind)
        /\ kind \in {"post", "issue"} => doc[x].status # "absent"
        /\ kind \in {"confirm", "cancel"} => order[x].status \in {"draft", "confirmed"}
  <2>1. CASE BeginPost(p, r) \/ BeginIssue(p, r)
    BY <1>2, <2>1 DEF BeginPost, BeginIssue, Postable, Drafts
  <2>2. CASE BeginConfirm(p, r) \/ BeginCancel(p, r)
    BY <1>2, <2>2 DEF BeginConfirm, BeginCancel
  <2>3. CASE BeginEdit(p, r) \/ BeginSend(p, r) \/ BeginVoid(p, r) \/ BeginDelete(p, r)
    BY <2>3 DEF BeginEdit, BeginSend, BeginVoid, BeginDelete
  <2> QED BY <1>1, <2>1, <2>2, <2>3
<1>4. /\ Request[r].kind = kind /\ ~Clashes(r) /\ r \in DOMAIN Request
      /\ doc' = doc /\ order' = order
      /\ job' = [job EXCEPT ![p] = [req |-> r, stage |-> "begun"]]
      /\ seen' = [seen EXCEPT ![p] = IF x \in Docs THEN doc[x] ELSE Absent]
  BY <1>2, <1>3 DEF Begin, tables, IInv, Typed
<1>5. /\ job \in [Procs -> [req : DOMAIN Request \cup {None}, stage : Stages]]
      /\ seen \in [Procs -> Rows]
  BY DEF IInv, Typed
<1>6. /\ \A q \in Procs \ {p} : job'[q] = job[q] /\ seen'[q] = seen[q]
      /\ job'[p].req = r /\ seen'[p] = IF x \in Docs THEN doc[x] ELSE Absent
  BY <1>4, <1>5
<1>7. /\ KindOf(p)' = kind /\ Row(p)' = x
      /\ \A q \in Procs \ {p} : /\ Posts(q)' <=> Posts(q)
                                /\ Turns(q)' <=> Turns(q)
                                /\ SavesDraft(q)' <=> SavesDraft(q)
                                /\ Row(q)' = Row(q)
  BY <1>2, <1>4, <1>6 DEF KindOf, Row, Posts, Turns, SavesDraft, IsKind
<1>8. /\ kind \in DocKinds => x \in Docs
      /\ kind \in {"confirm", "cancel"} => x \in Orders
  BY <1>2, <1>4, PostingAssumption
<1>9. Docs \cap Orders = {} /\ None \notin Orders
  BY PostingAssumption
<1>10. \A q \in Procs : PosterOK(q)'
  <2>1. PosterOK(p)'
    <3> SUFFICES ASSUME Posts(p)' PROVE doc'[Row(p)'].status # "absent" /\ seen'[p].order = doc'[Row(p)'].order
      BY DEF PosterOK
    <3>1. kind \in {"post", "issue"} /\ x \in Docs
      BY <1>7, <1>8 DEF Posts, DocKinds
    <3> QED BY <1>3, <1>4, <1>6, <1>7, <3>1
  <2>2. ASSUME NEW q \in Procs \ {p} PROVE PosterOK(q)'
    BY <1>4, <1>6, <1>7 DEF OrdersOK, PosterOK
  <2> QED BY <2>1, <2>2
<1>11. TurnOK(p)'
  <2> SUFFICES ASSUME Turns(p)'
               PROVE  /\ order'[Row(p)'].invoiced = 0
                      /\ \A o \in Procs : Posts(o)' => doc'[Row(o)'].order # Row(p)'
    BY DEF TurnOK
  <2>1. kind \in {"confirm", "cancel"} /\ x \in Orders
    BY <1>7, <1>8 DEF Turns
  <2>2. order[x].invoiced = 0
    BY <1>3, <2>1, NothingInvoiced DEF OrdersOK
  <2>3. ASSUME NEW o \in Procs, Posts(o)' PROVE doc[Row(o)'].order # x
    <3>1. o # p
      BY <1>7, <2>1, <2>3 DEF Posts
    <3>2. Posts(o) /\ Row(o) \in Docs /\ Row(o)' = Row(o)
      BY <1>7, <2>3, <3>1, PosterRow
    <3>3. doc[Row(o)].order = x => Meet(Row(o), x)
      BY <3>2 DEF Meet, OrderOf
    <3> QED BY <1>2, <1>4, <2>1, <3>2, <3>3, MeetsNone DEF Posts
  <2> QED BY <1>4, <1>7, <2>2, <2>3
<1>12. ASSUME NEW q \in Procs \ {p} PROVE TurnOK(q)'
  <2> SUFFICES ASSUME Turns(q)'
               PROVE  /\ order'[Row(q)'].invoiced = 0
                      /\ \A o \in Procs : Posts(o)' => doc'[Row(o)'].order # Row(q)'
    BY DEF TurnOK
  <2>1. Turns(q) /\ Row(q)' = Row(q)
    BY <1>7
  <2>2. order[Row(q)].invoiced = 0 /\ \A o \in Procs : Posts(o) => doc[Row(o)].order # Row(q)
    BY <2>1 DEF OrdersOK, TurnOK
  <2>3. ASSUME Posts(p)' PROVE doc[x].order # Row(q)
    <3>1. kind \in {"post", "issue"} /\ x \in Docs
      BY <1>7, <1>8, <2>3 DEF Posts, DocKinds
    <3>2. doc[x].order = Row(q) => Meet(Row(q), x)
      BY <3>1 DEF Meet, OrderOf
    <3> QED BY <1>2, <1>4, <2>1, <3>1, <3>2, MeetsNone DEF Turns
  <2>4. \A o \in Procs : Posts(o)' => doc[Row(o)'].order # Row(q)
    BY <1>7, <2>2, <2>3
  <2> QED BY <1>4, <2>1, <2>2, <2>4
<1>13. \A q \in Procs : TurnOK(q)'
  BY <1>11, <1>12
<1> QED BY <1>4, <1>10, <1>13 DEF OrdersOK

LEMMA OrdersInit == Init => OrdersOK
<1> SUFFICES ASSUME Init PROVE OrdersOK
  OBVIOUS
<1>1. /\ DOMAIN order = Orders
      /\ \A o \in Orders : order[o] = [status |-> "draft", invoiced |-> 0]
      /\ \A d \in Docs : doc[d] = Absent
      /\ \A p \in Procs : job[p] = Idle
  BY DEF Init
<1>2. ASSUME NEW o \in Orders PROVE Tracks(order[o], o, doc)
  <2>1. \A d \in Docs : Counted(doc, o)[d] = 0
    BY <1>1 DEF Counted, Counts, Absent
  <2>2. SumFunctionOnSet(Counted(doc, o), Docs) = 0
    BY <2>1, SumZero, PostingAssumption
  <2> QED BY <1>1, <2>2 DEF Tracks, OrderStatuses
<1>3. \A p \in Procs : PosterOK(p) /\ TurnOK(p)
  BY <1>1 DEF PosterOK, TurnOK, Posts, Turns
<1> QED BY <1>1, <1>2, <1>3 DEF OrdersOK

LEMMA OrdersNext ==
  ASSUME SavesApart, TransitionsApart, \A o \in Orders : Ordered[o] > 0,
         IInv, OrdersOK, [Next]_vars
  PROVE  OrdersOK'
<1>1. IInv' /\ Immutable
  BY NextOK
<1>2. ASSUME NEW p \in Procs,
             \/ BeginAny(p) \/ (\E r \in todo : Create(p, r)) \/ Manual(p)
             \/ LockDoc(p) \/ LockOrder(p) \/ Post(p) \/ Void(p) \/ Delete(p)
             \/ Edit(p) \/ SaveIssue(p) \/ Prepare(p) \/ Send(p) \/ Transition(p)
             \/ Refuse(p) \/ Crash(p)
      PROVE  OrdersOK'
  <2>1. CASE BeginAny(p) \/ (\E r \in todo : Create(p, r)) \/ Edit(p) \/ SaveIssue(p)
    BY <1>1, <2>1, OrdersBegin, OrdersCreate, OrdersEdit, OrdersSaveIssue
  <2>2. CASE Post(p) \/ Void(p) \/ Delete(p) \/ Send(p) \/ Transition(p)
    BY <1>1, <2>2, OrdersPost, OrdersVoid, OrdersDelete, OrdersSend, OrdersTransition
  <2>3. CASE Manual(p) \/ LockDoc(p) \/ LockOrder(p) \/ Prepare(p) \/ Refuse(p) \/ Crash(p)
    BY <1>1, <2>3, OrdersOther
  <2> QED BY <1>2, <2>1, <2>2, <2>3
<1>3. ASSUME UNCHANGED vars PROVE OrdersOK'
  <2>1. doc' = doc /\ order' = order /\ job' = job /\ seen' = seen
    BY <1>3 DEF vars
  <2>2. \A p \in Procs : PosterOK(p)' /\ TurnOK(p)'
    BY <2>1 DEF OrdersOK, PosterOK, TurnOK, Posts, Turns, Row, KindOf, SavesDraft, IsKind
  <2> QED BY <2>1, <2>2 DEF OrdersOK
<1> QED BY <1>2, <1>3 DEF Next

(* A sales order has invoiced what the posted invoices matched to it say,  *)
(* and its status says so, when nobody confirms or cancels it while an     *)
(* invoice of it is posted: both write the status that an earlier read of  *)
(* the order allowed.  An order of nothing would be invoiced in full with  *)
(* no invoice at all.                                                      *)
THEOREM OrdersAreTracked ==
  ASSUME SavesApart, TransitionsApart, \A o \in Orders : Ordered[o] > 0
  PROVE  Spec => []OrderIsTracked
<1>1. IInv /\ OrdersOK => OrderIsTracked
  <2> SUFFICES ASSUME IInv, OrdersOK, NEW o \in Orders
               PROVE  LET matched == {d \in Docs : Booked(d) /\ doc[d].order = o /\ doc[d].tracked}
                          row == order[o]
                      IN /\ row.invoiced = SumFunction([d \in matched |-> doc[d].content])
                         /\ row.status = IF row.status \in {"draft", "cancelled"} /\ row.invoiced = 0
                                         THEN row.status ELSE OrderStatus(o, row.invoiced)
    BY DEF OrderIsTracked
  <2>1. PICK M : M = {d \in Docs : Booked(d) /\ doc[d].order = o /\ doc[d].tracked}
    OBVIOUS
  <2>2. PICK g : g = [d \in M |-> doc[d].content]
    OBVIOUS
  <2>3. PICK f : f = Counted(doc, o)
    OBVIOUS
  <2>4. Tracks(order[o], o, doc) /\ doc \in [Docs -> Rows]
    BY DEF OrdersOK, IInv, Typed
  <2>5. IntOn(f, Docs) /\ IsFiniteSet(Docs)
    BY <2>3, <2>4, CountedNat
  <2>6. M \in SUBSET Docs /\ (\A d \in Docs \ M : f[d] = 0) /\ \A d \in M : f[d] = g[d]
    BY <2>1, <2>2, <2>3 DEF Counted, Counts, Booked
  <2>7. DOMAIN g = M /\ IsFiniteSet(M) /\ IntOn(f, M)
    BY <2>2, <2>5, <2>6, FS_Subset DEF IntOn
  <2>8. SumFunctionOnSet(f, Docs) = SumFunctionOnSet(f, M)
    BY <2>5, <2>6, <2>7, SumSupport
  <2>9. SumFunction(g) = SumFunctionOnSet(f, M)
    BY <2>6, <2>7, SumOfIs
  <2>10. order[o].invoiced = SumFunction(g)
    BY <2>3, <2>4, <2>8, <2>9 DEF Tracks
  <2> QED BY <2>1, <2>2, <2>4, <2>10 DEF Tracks
<1>2. IInv /\ OrdersOK /\ [Next]_vars => OrdersOK'
  BY OrdersNext
<1> QED BY <1>1, <1>2, OrdersInit, Invariance, PTL DEF Spec
=============================================================================
