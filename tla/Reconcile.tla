------------------------------ MODULE Reconcile ------------------------------
(***************************************************************************)
(* Bank reconciliation of one account (internal/services/banking.go,       *)
(* internal/web/banking_handlers.go, the page in internal/web/react).      *)
(*                                                                         *)
(* A user opens the account for a statement date, ticks journal lines and  *)
(* finishes: a reconciliation is written and the lines are linked to it.   *)
(* The latest one may be voided, which frees its lines.  A draft remembers *)
(* the ticks, and an engine suggests lines to tick.                        *)
(*                                                                         *)
(* No request locks a row before it writes it, and the transactions run at *)
(* READ COMMITTED: each statement sees what is committed when it starts,   *)
(* so a statement is a step.  The last updates of a transaction and its    *)
(* commit are one step, for it reads nothing between them but the rows it  *)
(* updates, where it waits for other writers and looks at their outcome.   *)
(* What follows a commit (links of suggestions, the draft) is best effort: *)
(* steps of their own, that a crash leaves out.                            *)
(*                                                                         *)
(* A user's ticks are chosen when the page is shown; ticking otherwise is  *)
(* showing it again.  The statement's ending balance is whatever makes the *)
(* page's difference zero, without which the page does not finish.         *)
(***************************************************************************)
EXTENDS Integers, FiniteSets

CONSTANTS
  Users,    \* browser windows, each with at most one request under way
  Lines,    \* journal lines of the account
  Net,      \* what each set of them adds up to, debit - credit
  Day,      \* the date of each line's entry
  Dates,    \* statement dates
  Suggs,    \* rows for match suggestions
  Matches,  \* the sets of lines the engine may find
  Workloads, \* the buttons each window uses
  MaxRecs   \* bound on the reconciliations, for TLC

Buttons == {"tick", "save", "finish", "void", "match", "answer", "discard"}

ASSUME ReconcileAssumption ==
  /\ Day \in [Lines -> Nat] /\ Dates \subseteq Nat /\ MaxRecs \in Nat
  /\ Matches \subseteq SUBSET Lines
  /\ Workloads \subseteq [Users -> SUBSET Buttons]

ASSUME NetAssumption ==
  /\ Net \in [SUBSET Lines -> Int]
  /\ \A S, T \in SUBSET Lines : S \cap T = {} => Net[S \cup T] = Net[S] + Net[T]

VARIABLES
  posted,    \* the lines there are
  recOf,     \* reconciliation_id of each line, 0 when NULL
  rec,       \* the reconciliations
  lastId,    \* the last id given to one
  sugg,      \* reconciliation_match_suggestions
  draft,     \* the lines of the account's draft; none is like one without any
  session,   \* what each user sees, and where the request stands
  buttons,   \* the workload
  overlaps   \* the users whose transaction has overlapped another (history)

tables == <<posted, recOf, rec, lastId, sugg, draft>>
history == <<buttons, overlaps>>
vars == <<posted, recOf, rec, lastId, sugg, draft, session, buttons, overlaps>>

Ids == 1..MaxRecs

Away == [at |-> "away", date |-> 0, lines |-> {}, ending |-> 0, prev |-> 0, id |-> 0]

NoRec == [status |-> "none", date |-> 0, ending |-> 0, alone |-> FALSE]

Init ==
  /\ posted = {}
  /\ recOf = [l \in Lines |-> 0]
  /\ rec = [k \in Ids |-> NoRec]
  /\ lastId = 0
  /\ sugg = [s \in Suggs |-> [status |-> "none", lines |-> {}, rec |-> 0]]
  /\ draft = {}
  /\ session = [u \in Users |-> Away]
  /\ overlaps = {}
  /\ buttons \in Workloads

----------------------------------------------------------------------------
(* The queries.                                                            *)

UpTo(d) == {l \in posted : Day[l] <= d}

ListReconcileCandidates(d) == {l \in UpTo(d) : recOf[l] = 0}
ClearedBalance(d) == Net[{l \in UpTo(d) : recOf[l] # 0}]

Active == {k \in Ids : rec[k].status = "active"}
NewerActive(k) == {n \in Active : n > k}
LatestActive == IF Active = {} THEN 0 ELSE CHOOSE k \in Active : NewerActive(k) = {}

AcceptedLines == UNION {sugg[s].lines : s \in {t \in Suggs : sugg[t].status = "accepted"}}

\* What the page ticks at first.
Preselected ==
  IF draft # {} THEN draft ELSE AcceptedLines

----------------------------------------------------------------------------
(* The user's way to the page, which an entry form, a redirect or an old   *)
(* URL leads to with any date, whatever the draft's.                       *)

At(u, at) == session[u].at = at
Goto(u, at) == session' = [session EXCEPT ![u].at = at]
Become(u, s) == session' = [session EXCEPT ![u] = s]
Redirect(u) == Become(u, Away)
InPage(u) == session[u].at \in {"work", "saved"}
Clicks(u, button) == At(u, "saved") /\ button \in buttons[u]

\* Any service posts lines of the account, of any date.
PostLines(S) == S # {} /\ S \subseteq Lines \ posted /\ posted' = posted \cup S

Post(l) ==
  /\ PostLines({l})
  /\ UNCHANGED <<recOf, rec, lastId, sugg, draft, session, history>>

\* A new period may begin with its bank charge, its interest or both.
CreateReconcileSetupEntries(u, entries) ==
  /\ At(u, "away") /\ Cardinality(entries) <= 2 /\ PostLines(entries)
  /\ UNCHANGED <<recOf, rec, lastId, sugg, draft, session, history>>

DiscardDraft(u) ==
  /\ At(u, "away") /\ "discard" \in buttons[u] /\ draft' = {}
  /\ UNCHANGED <<posted, recOf, rec, lastId, sugg, session, history>>

\* A preselected line that is no candidate is not seen, yet submitted.
Show(u, d, ticked) ==
  LET shown == ListReconcileCandidates(d)
  IN /\ At(u, "away") /\ ticked \subseteq shown
     /\ "tick" \notin buttons[u] => ticked = Preselected \cap shown
     /\ Become(u, [Away EXCEPT !.at = "work", !.date = d,
                               !.lines = ticked \cup (Preselected \ shown),
                               !.ending = ClearedBalance(d) + Net[ticked],
                               !.id = LatestActive])
     /\ UNCHANGED <<tables, history>>

Leave(u) == InPage(u) /\ Redirect(u) /\ UNCHANGED <<tables, history>>

----------------------------------------------------------------------------
(* The draft.                                                              *)

\* The page saves the ticks on request, and before it sends any but a void.
\* Lines that are no candidates (any more) are dropped.
SaveDraft(u) ==
  /\ InPage(u) /\ buttons[u] \cap {"save", "finish", "match", "answer"} # {}
  /\ draft' = session[u].lines \cap ListReconcileCandidates(session[u].date)
  /\ Goto(u, "saved")
  /\ UNCHANGED <<posted, recOf, rec, lastId, sugg, history>>

----------------------------------------------------------------------------
(* Suggestions.                                                            *)

(* MUTANT of Moved: the status that is replaced is not compared.          *)
AnyMoved(S, before, after) ==
  [s \in Suggs |-> IF s \in S THEN [sugg[s] EXCEPT !.status = after] ELSE sugg[s]]

\* UPDATE ... WHERE status = before: the rows of S that are still there.
Moved(S, before, after) ==
  [s \in Suggs |-> IF s \in S /\ sugg[s].status = before
                   THEN [sugg[s] EXCEPT !.status = after] ELSE sugg[s]]

\* The candidates are read, and the previous run's suggestions expire.
AutoMatch(u) ==
  /\ Clicks(u, "match")
  /\ sugg' = Moved(Suggs, "pending", "expired")
  /\ Become(u, [Away EXCEPT !.at = "match", !.lines = ListReconcileCandidates(session[u].date)])
  /\ UNCHANGED <<posted, recOf, rec, lastId, draft, history>>

\* The row and each line are inserted alone: a failure leaves a line out.
Suggest(u, s, found, lines) ==
  /\ At(u, "match") /\ sugg[s].status = "none"
  /\ found \subseteq session[u].lines /\ lines \subseteq found
  /\ sugg' = [sugg EXCEPT ![s] = [status |-> "pending", lines |-> lines, rec |-> 0]]
  /\ UNCHANGED <<posted, recOf, rec, lastId, draft, session, history>>

EndAutoMatch(u) == At(u, "match") /\ Redirect(u) /\ UNCHANGED <<tables, history>>

\* The page may be older than what others did to the suggestion it shows.
AcceptSuggestion(u, s) ==
  /\ Clicks(u, "answer") /\ sugg[s].status # "none"
  /\ sugg' = Moved({s}, "pending", "accepted")
  /\ IF sugg[s].status = "pending"
     THEN Become(u, [Away EXCEPT !.at = "merge", !.lines = sugg[s].lines])
     ELSE Redirect(u)
  /\ UNCHANGED <<posted, recOf, rec, lastId, draft, history>>

\* Its lines are added to the draft as it is by then, candidates or not.
MergeIntoDraft(u) ==
  /\ At(u, "merge") /\ Redirect(u)
  /\ draft' = draft \cup session[u].lines
  /\ UNCHANGED <<posted, recOf, rec, lastId, sugg, history>>

RejectSuggestion(u, s) ==
  /\ Clicks(u, "answer") /\ sugg[s].status # "none"
  /\ sugg' = Moved({s}, "pending", "rejected")
  /\ Redirect(u)
  /\ UNCHANGED <<posted, recOf, rec, lastId, draft, history>>

----------------------------------------------------------------------------
(* Transactions: which overlap which.                                      *)

InTransaction == {u \in Users : session[u].at \in {"difference", "insert", "link", "newer", "free"}}

Begin(u) ==
  /\ overlaps' = IF InTransaction = {} THEN {} ELSE InTransaction \cup {u}
  /\ UNCHANGED buttons
End(u) == overlaps' = overlaps \ {u} /\ UNCHANGED buttons

----------------------------------------------------------------------------
(* Finish Now.                                                             *)

\* The first statement of the transaction reads what is cleared by then.
Finish(u) ==
  /\ Clicks(u, "finish") /\ session[u].lines # {} /\ lastId < MaxRecs
  /\ Begin(u)
  /\ session' = [session EXCEPT ![u].at = "difference", ![u].id = 0,
                                ![u].prev = ClearedBalance(session[u].date)]
  /\ UNCHANGED tables

Selected(u) == session[u].lines \cap ListReconcileCandidates(session[u].date)

CheckDifference(u) ==
  /\ At(u, "difference")
  /\ IF session[u].prev + Net[Selected(u)] = session[u].ending
     THEN /\ session' = [session EXCEPT ![u].at = "insert", ![u].prev = 0]
          /\ UNCHANGED history
     ELSE Redirect(u) /\ End(u)
  /\ UNCHANGED tables

\* The id is taken at once; the row is seen by others when it is committed.
InsertReconciliation(u) ==
  /\ At(u, "insert") /\ lastId < MaxRecs
  /\ lastId' = lastId + 1
  /\ session' = [session EXCEPT ![u].at = "link", ![u].id = lastId + 1]
  /\ UNCHANGED <<posted, recOf, rec, sugg, draft, history>>

(* MUTANT of Linkable: lines of other reconciliations are taken too.       *)
AnyLine(S) == S \cap posted

\* "WHERE reconciliation_id IS NULL": of any date.
Linkable(S) == {l \in S \cap posted : recOf[l] = 0}

LinkAndCommit(u) ==
  LET id == session[u].id
  IN /\ At(u, "link") /\ End(u)
     /\ recOf' = [l \in Lines |-> IF l \in Linkable(session[u].lines) THEN id ELSE recOf[l]]
     /\ rec' = [rec EXCEPT ![id] = [status |-> "active", date |-> session[u].date,
                                    ending |-> session[u].ending, alone |-> u \notin overlaps]]
     /\ Become(u, [Away EXCEPT !.at = "linkSuggestions", !.id = id])
     /\ UNCHANGED <<posted, lastId, sugg, draft>>

LinkSuggestionsToReconciliation(u) ==
  /\ At(u, "linkSuggestions")
  /\ sugg' = [s \in Suggs |-> IF sugg[s].status = "accepted" /\ sugg[s].rec = 0
                              THEN [sugg[s] EXCEPT !.rec = session[u].id] ELSE sugg[s]]
  /\ Become(u, [Away EXCEPT !.at = "deleteDraft"])
  /\ UNCHANGED <<posted, recOf, rec, lastId, draft, history>>

DeleteReconcileDraft(u) ==
  /\ At(u, "deleteDraft") /\ Redirect(u)
  /\ draft' = {}
  /\ UNCHANGED <<posted, recOf, rec, lastId, sugg, history>>

----------------------------------------------------------------------------
(* Void, of the reconciliation the page shows as the latest.               *)

LoadReconciliation(u) ==
  /\ InPage(u) /\ "void" \in buttons[u] /\ session[u].id # 0
  /\ IF session[u].id \in Active
     THEN Become(u, [Away EXCEPT !.at = "newer", !.id = session[u].id]) /\ Begin(u)
     ELSE Redirect(u) /\ UNCHANGED history
  /\ UNCHANGED tables

CountNewer(u) ==
  /\ At(u, "newer")
  /\ IF NewerActive(session[u].id) = {} THEN Goto(u, "free") /\ UNCHANGED history
                                       ELSE Redirect(u) /\ End(u)
  /\ UNCHANGED tables

(* MUTANT of FreedBy: only the lines the statement counted are freed.      *)
FreedUpTo(k) == {l \in Lines : recOf[l] = k /\ Day[l] <= rec[k].date}

FreedBy(k) == {l \in Lines : recOf[l] = k}

FreeAndCommit(u) ==
  /\ At(u, "free") /\ Goto(u, "archive") /\ End(u)
  /\ recOf' = [l \in Lines |-> IF l \in FreedBy(session[u].id) THEN 0 ELSE recOf[l]]
  /\ rec' = [rec EXCEPT ![session[u].id].status = "voided"]
  /\ UNCHANGED <<posted, lastId, sugg, draft>>

ArchiveSuggestions(u) ==
  /\ At(u, "archive") /\ Redirect(u)
  /\ sugg' = Moved({s \in Suggs : sugg[s].rec = session[u].id}, "accepted", "archived")
  /\ UNCHANGED <<posted, recOf, rec, lastId, draft, history>>

----------------------------------------------------------------------------
\* The connection, or the server, is lost: an open transaction is rolled back,
\* and what should follow a commit is not done.
Crash(u) ==
  /\ session[u].at \notin {"away", "work", "saved"}
  /\ Redirect(u) /\ End(u)
  /\ UNCHANGED tables

Browse(u) ==
  \/ DiscardDraft(u) \/ Leave(u) \/ SaveDraft(u)
  \/ \E entries \in SUBSET Lines : CreateReconcileSetupEntries(u, entries)
  \/ \E d \in Dates, ticked \in SUBSET Lines : Show(u, d, ticked)

Match(u) ==
  \/ AutoMatch(u) \/ EndAutoMatch(u) \/ MergeIntoDraft(u)
  \/ \E s \in Suggs : AcceptSuggestion(u, s) \/ RejectSuggestion(u, s)
  \/ \E s \in Suggs, found \in Matches, lines \in SUBSET Lines : Suggest(u, s, found, lines)

Submit(u) ==
  \/ Finish(u) \/ CheckDifference(u) \/ InsertReconciliation(u)
  \/ LinkAndCommit(u) \/ LinkSuggestionsToReconciliation(u) \/ DeleteReconcileDraft(u)

VoidReconciliation(u) ==
  LoadReconciliation(u) \/ CountNewer(u) \/ FreeAndCommit(u) \/ ArchiveSuggestions(u)

Next ==
  \/ \E l \in Lines : Post(l)
  \/ \E u \in Users : Browse(u) \/ Match(u) \/ Submit(u) \/ VoidReconciliation(u) \/ Crash(u)

Spec == Init /\ [][Next]_vars

----------------------------------------------------------------------------
(* What must hold.                                                         *)

Places == {"away", "work", "saved", "match", "merge", "difference", "insert", "link",
           "linkSuggestions", "deleteDraft", "newer", "free", "archive"}

(* Every value is of its kind, and every request at a place of its handler. *)
TypeOK ==
  /\ posted \subseteq Lines
  /\ recOf \in [Lines -> 0..MaxRecs]
  /\ rec \in [Ids -> [status : {"none", "active", "voided"}, date : Nat, ending : Int, alone : BOOLEAN]]
  /\ lastId \in 0..MaxRecs
  /\ sugg \in [Suggs -> [status : {"none", "pending", "accepted", "rejected", "expired", "archived"},
                         lines : SUBSET Lines, rec : 0..MaxRecs]]
  /\ draft \subseteq Lines
  /\ session \in [Users -> [at : Places, date : Nat, lines : SUBSET Lines, ending : Int,
                            prev : Int, id : 0..MaxRecs]]
  /\ overlaps \subseteq Users

(* "Reconciliation may only complete when difference == 0": the statement  *)
(* of an active reconciliation still agrees with the lines cleared by it   *)
(* and by those before it, up to its date, whatever was posted, reconciled *)
(* or voided since, provided its own transaction overlapped no other one   *)
(* (banking_handlers.go:736 locks nothing).                                *)
StatementsBalance ==
  \A k \in Active : rec[k].alone =>
    rec[k].ending = Net[{l \in Lines : recOf[l] \in 1..k /\ Day[l] <= rec[k].date}]

(* A line that is reconciled stays with its reconciliation until this one  *)
(* is voided, and then all its lines are free, of whatever date they are   *)
(* and whoever submits them again meanwhile.                               *)
LinesFollowTheirReconciliation ==
  [][\A l \in Lines : recOf[l] # 0 =>
       recOf'[l] = IF rec[recOf[l]].status = "active" /\ rec'[recOf[l]].status = "voided"
                   THEN 0 ELSE recOf[l]]_vars

(* "Suggestion status lifecycle": an answer of one user is not overwritten *)
(* by another's, by a new run of the engine or by a late request; and only *)
(* the void of the reconciliation it is linked to archives it.             *)
Lifecycle == {<<"none", "pending">>, <<"pending", "accepted">>, <<"pending", "rejected">>,
              <<"pending", "expired">>, <<"accepted", "archived">>}

SuggestionsKeepTheirAnswer ==
  [][\A s \in Suggs :
       /\ sugg'[s].status # sugg[s].status => <<sugg[s].status, sugg'[s].status>> \in Lifecycle
       /\ sugg[s].rec # 0 => sugg'[s].rec = sugg[s].rec
       /\ sugg'[s].status = "archived" => rec[sugg[s].rec].status = "voided"]_vars
=============================================================================
