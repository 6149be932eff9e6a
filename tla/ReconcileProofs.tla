--------------------------- MODULE ReconcileProofs ---------------------------
(***************************************************************************)
(* What is proved of Reconcile, for any number of windows, lines, dates    *)
(* and suggestions, and whatever the lines add up to.                      *)
(*                                                                         *)
(* A transaction that overlaps no other one finds what it read unchanged   *)
(* when it commits, its id is then the newest, and no void that has looked *)
(* for newer reconciliations is under way.  So a statement that balanced   *)
(* goes on to balance: what is linked later has a newer id, and what is    *)
(* freed had one.                                                          *)
(***************************************************************************)
EXTENDS Reconcile, WellFoundedInduction, TLAPS

Transactional == {"difference", "insert", "link", "newer", "free"}

\* What is stored refers to lines that are posted and to reconciliations that
\* were committed; a line, to one that is active.
StoredOK ==
  /\ draft \subseteq posted
  /\ \A l \in Lines : recOf[l] # 0 => l \in posted /\ rec[recOf[l]].status = "active"
  /\ \A k \in Ids : rec[k].status # "none" => k <= lastId

SuggestionOK(s) ==
  /\ sugg[s].lines \subseteq posted
  /\ sugg[s].status = "none" => sugg[s].rec = 0
  /\ sugg[s].status = "archived" => sugg[s].rec # 0 /\ rec[sugg[s].rec].status = "voided"

SessionOK(u) ==
  LET s == session[u]
  IN /\ s.lines \subseteq posted
     /\ s.at = "link" => s.id # 0 /\ s.id <= lastId /\ rec[s.id].status = "none"
     /\ s.at \in {"linkSuggestions", "newer", "free"} => s.id # 0 /\ rec[s.id].status # "none"
     /\ s.at = "archive" => s.id # 0 /\ rec[s.id].status = "voided"

\* Two transactions do not take the same id.
IdsApart ==
  \A u, v \in Users : At(u, "link") /\ At(v, "link") /\ u # v => session[u].id # session[v].id

\* What a transaction relies on that overlaps no other one.
AloneOK(u) ==
  /\ InTransaction = {u}
  /\ At(u, "difference") => session[u].prev = ClearedBalance(session[u].date)
  /\ session[u].at \in {"insert", "link"} =>
       session[u].ending = ClearedBalance(session[u].date) + Net[Selected(u)]
  /\ At(u, "link") => \A l \in Lines : recOf[l] < session[u].id

Counted(k) == {l \in Lines : recOf[l] \in 1..k /\ Day[l] <= rec[k].date}

BalancedFor(k) ==
  /\ rec[k].ending = Net[Counted(k)]
  /\ \A u \in Users : At(u, "link") => k < session[u].id
  /\ \A u \in Users : At(u, "free") => k <= session[u].id

IInv ==
  /\ TypeOK /\ StoredOK /\ IdsApart
  /\ \A s \in Suggs : SuggestionOK(s)
  /\ \A u \in Users : SessionOK(u)
  /\ \A u \in InTransaction : u \notin overlaps => AloneOK(u)
  /\ \A k \in Active : rec[k].alone => BalancedFor(k)

-----------------------------------------------------------------------------
(* A bounded set of numbers has a largest one.                             *)
LEMMA Largest ==
  ASSUME NEW S \in SUBSET Nat, S # {}, NEW n \in Nat, \A x \in S : x <= n
  PROVE  \E x \in S : \A y \in S : y <= x
<1> DEFINE T == {m \in Nat : n - m \in S}
<1>1. T \subseteq Nat /\ T # {}
  <2>1. PICK x \in S : TRUE
    OBVIOUS
  <2>2. n - x \in Nat /\ n - (n - x) = x
    BY <2>1
  <2> QED BY <2>1, <2>2
<1>2. \E m \in T : \A k \in T : ~(<<k, m>> \in OpToRel(<, Nat))
  <2> HIDE DEF T
  <2> QED BY <1>1, NatLessThanWellFounded, WFMin
<1>3. PICK m \in T : \A k \in T : ~(<<k, m>> \in OpToRel(<, Nat))
  BY <1>2
<1>4. \A k \in T : ~(k < m)
  BY <1>3 DEF OpToRel
<1>5. \A y \in S : n - y \in T /\ y \in Nat
  OBVIOUS
<1>6. \A y \in S : y <= n - m
  BY <1>4, <1>5
<1> QED BY <1>6

LEMMA LatestTyped == LatestActive \in 0..MaxRecs
<1>1. CASE Active = {}
  BY <1>1, ReconcileAssumption DEF LatestActive
<1>2. CASE Active # {}
  <2>1. Active \in SUBSET Nat /\ \A x \in Active : x <= MaxRecs
    BY DEF Active, Ids
  <2>2. PICK x \in Active : \A y \in Active : y <= x
    BY <1>2, <2>1, ReconcileAssumption, Largest
  <2>3. NewerActive(x) = {}
    <3>1. \A y \in Active : x \in Nat /\ y \in Nat /\ ~(y > x)
      BY <2>1, <2>2
    <3> QED BY <3>1 DEF NewerActive
  <2>4. LatestActive \in Active
    BY <1>2, <2>2, <2>3 DEF LatestActive
  <2> QED BY <2>4, ReconcileAssumption DEF Active, Ids
<1> QED BY <1>1, <1>2

LEMMA NetTyped == \A S \in SUBSET Lines : Net[S] \in Int
  BY NetAssumption

Records == [status : {"none", "active", "voided"}, date : Nat, ending : Int, alone : BOOLEAN]
Rows == [status : {"none", "pending", "accepted", "rejected", "expired", "archived"},
         lines : SUBSET Lines, rec : 0..MaxRecs]
Sessions == [at : Places, date : Nat, lines : SUBSET Lines, ending : Int, prev : Int, id : 0..MaxRecs]

LEMMA AwayTyped == Away \in Sessions
  BY ReconcileAssumption, 0 \in 0..MaxRecs DEF Away, Sessions, Places

(* What a request changes of its session keeps its type.                   *)
LEMMA SessionAt ==
  ASSUME NEW s \in Sessions, NEW at \in Places
  PROVE  [s EXCEPT !.at = at] \in Sessions
  BY DEF Sessions

LEMMA SessionId ==
  ASSUME NEW s \in Sessions, NEW at \in Places, NEW i \in 0..MaxRecs
  PROVE  [s EXCEPT !.at = at, !.id = i] \in Sessions
  BY DEF Sessions

LEMMA SessionPrev ==
  ASSUME NEW s \in Sessions, NEW at \in Places, NEW n \in Int
  PROVE  [s EXCEPT !.at = at, !.prev = n] \in Sessions
  BY DEF Sessions

LEMMA SessionIdPrev ==
  ASSUME NEW s \in Sessions, NEW at \in Places, NEW i \in 0..MaxRecs, NEW n \in Int
  PROVE  [s EXCEPT !.at = at, !.id = i, !.prev = n] \in Sessions
  BY DEF Sessions

LEMMA InitInv == Init => IInv
<1> SUFFICES ASSUME Init PROVE IInv
  OBVIOUS
<1> USE DEF Init
<1>1. TypeOK
  <2>1. rec \in [Ids -> Records] /\ sugg \in [Suggs -> Rows] /\ session \in [Users -> Sessions]
    BY AwayTyped, ReconcileAssumption DEF NoRec, Records, Rows
  <2> QED BY <2>1, ReconcileAssumption DEF TypeOK, Records, Rows, Sessions
<1>2. StoredOK
  BY DEF StoredOK, NoRec
<1>3. IdsApart
  BY DEF IdsApart, At, Away
<1>4. \A s \in Suggs : SuggestionOK(s)
  BY DEF SuggestionOK
<1>5. \A u \in Users : SessionOK(u)
  BY DEF SessionOK, Away
<1>6. InTransaction = {} /\ Active = {}
  BY DEF InTransaction, Away, Active, NoRec
<1> QED BY <1>1, <1>2, <1>3, <1>4, <1>5, <1>6 DEF IInv

-----------------------------------------------------------------------------
(* Steps that touch neither lines nor reconciliations, by users that are   *)
(* in no transaction, before or after.                                     *)
LEMMA Quiet ==
  ASSUME IInv, UNCHANGED <<posted, recOf, rec, lastId, buttons, overlaps>>,
         sugg' \in [Suggs -> Rows], \A s \in Suggs : SuggestionOK(s)', draft' \subseteq posted,
         session' \in [Users -> Sessions],
         \A v \in Users : \/ session'[v] = session[v]
                         \/ /\ session[v].at \notin Transactional
                            /\ session'[v].at \notin Transactional
                            /\ SessionOK(v)'
  PROVE  IInv'
<1>1. TypeOK'
  BY DEF IInv, TypeOK, StoredOK, Rows, Sessions
<1>2. StoredOK'
  BY DEF IInv, StoredOK
<1>3. \A v \in Users : session'[v].at \in Transactional \/ session[v].at \in Transactional
                      => session'[v] = session[v]
  OBVIOUS
<1>4. IdsApart'
  BY <1>3 DEF IInv, IdsApart, At, Transactional
<1>5. \A v \in Users : SessionOK(v)'
  BY DEF IInv, SessionOK
<1>6. InTransaction' = InTransaction
  BY <1>3 DEF InTransaction, Transactional
<1>7. ASSUME NEW v \in InTransaction', v \notin overlaps' PROVE AloneOK(v)'
  <2>1. v \in InTransaction /\ v \in Users /\ AloneOK(v) /\ session'[v] = session[v]
    BY <1>3, <1>6, <1>7 DEF IInv, InTransaction, Transactional
  <2> QED BY <2>1, <1>6 DEF AloneOK, At, ClearedBalance, UpTo, Selected, ListReconcileCandidates
<1>8. ASSUME NEW k \in Active', rec'[k].alone PROVE BalancedFor(k)'
  <2>1. k \in Active /\ BalancedFor(k)
    BY <1>8 DEF IInv, Active
  <2> QED BY <2>1, <1>3 DEF BalancedFor, Counted, At, Transactional
<1> QED BY <1>1, <1>2, <1>4, <1>5, <1>7, <1>8 DEF IInv

(* Lines that are posted are neither counted nor selected by anyone.       *)
LEMMA Posting ==
  ASSUME IInv, NEW S \in SUBSET Lines, PostLines(S),
         UNCHANGED <<recOf, rec, lastId, sugg, draft, session, buttons, overlaps>>
  PROVE  IInv'
<1>1. TypeOK' /\ StoredOK'
  BY DEF IInv, TypeOK, StoredOK, PostLines
<1>2. IdsApart'
  BY DEF IInv, IdsApart, At
<1>3. (\A s \in Suggs : SuggestionOK(s)') /\ (\A v \in Users : SessionOK(v)')
  BY DEF IInv, SuggestionOK, SessionOK, PostLines
<1>4. ASSUME NEW d PROVE ClearedBalance(d)' = ClearedBalance(d)
  <2>1. {l \in UpTo(d) : recOf[l] # 0}' = {l \in UpTo(d) : recOf[l] # 0}
    BY DEF IInv, StoredOK, TypeOK, UpTo, PostLines
  <2> QED BY <2>1 DEF ClearedBalance
<1>5. ASSUME NEW v \in Users PROVE Selected(v)' = Selected(v)
  BY DEF IInv, SessionOK, Selected, ListReconcileCandidates, UpTo, PostLines
<1>6. ASSUME NEW v \in InTransaction', v \notin overlaps' PROVE AloneOK(v)'
  <2>1. InTransaction' = InTransaction /\ v \in Users /\ AloneOK(v)
    BY <1>6 DEF IInv, InTransaction
  <2> QED BY <2>1, <1>4, <1>5 DEF AloneOK, At
<1>7. ASSUME NEW k \in Active', rec'[k].alone PROVE BalancedFor(k)'
  BY <1>7 DEF IInv, Active, BalancedFor, Counted, At
<1> QED BY <1>1, <1>2, <1>3, <1>6, <1>7 DEF IInv

(* A transaction that begins overlaps all those under way.                 *)
LEMMA Beginning ==
  ASSUME IInv, NEW u \in Users, session[u].at \notin Transactional, Begin(u), UNCHANGED tables,
         NEW s \in Sessions, Become(u, s), SessionOK(u)', s.at \in {"difference", "newer"},
         s.at = "difference" => s.prev = ClearedBalance(s.date)
  PROVE  IInv'
<1> USE DEF tables
<1>1. session'[u] = s /\ \A v \in Users \ {u} : session'[v] = session[v]
  BY DEF Become, IInv, TypeOK
<1>2. TypeOK' /\ StoredOK'
  <2>1. session' \in [Users -> Sessions] /\ overlaps' \subseteq Users
    BY DEF IInv, TypeOK, Become, Begin, InTransaction, Sessions
  <2> QED BY <2>1 DEF IInv, TypeOK, StoredOK, Sessions
<1>3. IdsApart'
  BY <1>1 DEF IInv, IdsApart, At
<1>4. (\A t \in Suggs : SuggestionOK(t)') /\ (\A v \in Users : SessionOK(v)')
  BY <1>1 DEF IInv, SuggestionOK, SessionOK
<1>5. InTransaction' = InTransaction \cup {u}
  BY <1>1 DEF InTransaction, Transactional
<1>6. ASSUME NEW v \in InTransaction', v \notin overlaps' PROVE AloneOK(v)'
  <2>1. InTransaction = {} /\ v = u
    BY <1>5, <1>6 DEF Begin
  <2> QED BY <1>1, <1>5, <2>1 DEF AloneOK, At, ClearedBalance, UpTo
<1>7. ASSUME NEW k \in Active', rec'[k].alone PROVE BalancedFor(k)'
  <2>1. k \in Active /\ BalancedFor(k)
    BY <1>7 DEF IInv, Active
  <2> QED BY <2>1, <1>1 DEF BalancedFor, Counted, At
<1> QED BY <1>2, <1>3, <1>4, <1>6, <1>7 DEF IInv

(* A transaction that ends without a trace.                                *)
LEMMA Ending ==
  ASSUME IInv, NEW u \in Users, Redirect(u), End(u), UNCHANGED tables
  PROVE  IInv'
<1> USE DEF tables
<1>1. session'[u] = Away /\ \A v \in Users \ {u} : session'[v] = session[v]
  BY DEF Become, Redirect, IInv, TypeOK
<1>2. TypeOK' /\ StoredOK'
  <2>1. session' \in [Users -> Sessions] /\ overlaps' \subseteq Users
    BY AwayTyped DEF IInv, TypeOK, Become, Redirect, End, Sessions
  <2> QED BY <2>1 DEF IInv, TypeOK, StoredOK, Sessions
<1>3. IdsApart'
  BY <1>1 DEF IInv, IdsApart, At, Away
<1>4. (\A t \in Suggs : SuggestionOK(t)') /\ (\A v \in Users : SessionOK(v)')
  BY <1>1 DEF IInv, SuggestionOK, SessionOK, Away
<1>5. InTransaction' = InTransaction \ {u}
  BY <1>1 DEF InTransaction, Away
<1>6. ASSUME NEW v \in InTransaction', v \notin overlaps' PROVE AloneOK(v)'
  <2>1. v # u /\ v \in Users /\ v \in InTransaction /\ v \notin overlaps
    BY <1>5, <1>6 DEF End, InTransaction
  <2>2. AloneOK(v) /\ InTransaction' = {v}
    BY <1>5, <2>1 DEF IInv, AloneOK
  <2> QED BY <1>1, <2>1, <2>2
          DEF AloneOK, At, ClearedBalance, UpTo, Selected, ListReconcileCandidates
<1>7. ASSUME NEW k \in Active', rec'[k].alone PROVE BalancedFor(k)'
  <2>1. k \in Active /\ BalancedFor(k)
    BY <1>7 DEF IInv, Active
  <2> QED BY <2>1, <1>1 DEF BalancedFor, Counted, At, Away
<1> QED BY <1>2, <1>3, <1>4, <1>6, <1>7 DEF IInv

-----------------------------------------------------------------------------
(* Finish Now.                                                             *)
LEMMA ClearedTyped ==
  ASSUME TypeOK
  PROVE  /\ \A d : ClearedBalance(d) \in Int
         /\ \A u : Net[Selected(u)] \in Int
<1>1. \A d : UpTo(d) \subseteq Lines
  BY DEF TypeOK, UpTo
<1>2. ASSUME NEW d PROVE {l \in UpTo(d) : recOf[l] # 0} \in SUBSET Lines
  BY <1>1
<1>3. ASSUME NEW u PROVE Selected(u) \in SUBSET Lines
  BY <1>1 DEF Selected, ListReconcileCandidates
<1> QED BY <1>2, <1>3, NetTyped DEF ClearedBalance

LEMMA FinishInv == ASSUME IInv, NEW u \in Users, Finish(u) PROVE IInv'
<1> DEFINE s == [session[u] EXCEPT !.at = "difference", !.id = 0,
                                   !.prev = ClearedBalance(session[u].date)]
<1>1. session[u] \in Sessions /\ session[u].at = "saved" /\ session \in [Users -> Sessions]
  BY DEF Finish, Clicks, At, IInv, TypeOK, Sessions
<1>2. s \in Sessions
  <2>1. "difference" \in Places /\ 0 \in 0..MaxRecs /\ ClearedBalance(session[u].date) \in Int
    BY ClearedTyped, ReconcileAssumption DEF IInv, Places
  <2> QED BY <1>1, <2>1, SessionIdPrev
<1>3. Become(u, s)
  BY <1>1 DEF Finish, Become, Sessions
<1>4. s.at = "difference" /\ s.prev = ClearedBalance(s.date) /\ s.lines = session[u].lines
  BY <1>1 DEF Sessions
<1>5. session'[u] = s
  BY <1>1, <1>3 DEF Become
<1>6. SessionOK(u)'
  <2>1. session[u].lines \subseteq posted' /\ tables' = tables
    BY DEF IInv, SessionOK, Finish, tables
  <2> HIDE DEF s
  <2> QED BY <1>4, <1>5, <2>1 DEF SessionOK
<1> HIDE DEF s
<1>7. session[u].at \notin Transactional
  BY <1>1 DEF Transactional
<1>8. Begin(u) /\ UNCHANGED tables
  BY DEF Finish
<1> QED BY <1>2, <1>3, <1>4, <1>6, <1>7, <1>8, Beginning

(* Another step of a transaction under way, that only its user sees.       *)
LEMMA Going ==
  ASSUME IInv, NEW u \in Users, u \in InTransaction,
         UNCHANGED <<posted, recOf, rec, sugg, draft, buttons, overlaps>>,
         lastId' \in 0..MaxRecs, lastId' >= lastId,
         NEW s \in Sessions, Become(u, s), s.at \in Transactional, SessionOK(u)',
         u \notin overlaps => AloneOK(u)',
         s.at = "link" => s.id > lastId,
         s.at = "free" => NewerActive(s.id) = {}
  PROVE  IInv'
<1>1. session'[u] = s /\ \A v \in Users \ {u} : session'[v] = session[v]
  BY DEF Become, IInv, TypeOK
<1>2. TypeOK' /\ StoredOK'
  <2>1. session' \in [Users -> Sessions]
    BY DEF IInv, TypeOK, Become, Sessions
  <2>2. StoredOK'
    BY DEF IInv, TypeOK, StoredOK, Ids
  <2> QED BY <2>1, <2>2 DEF IInv, TypeOK, Sessions
<1>3. IdsApart'
  <2> SUFFICES ASSUME NEW v \in Users, NEW w \in Users, v # w, At(v, "link")', At(w, "link")',
                      v # u
               PROVE  session'[v].id # session'[w].id
    BY DEF IdsApart
  <2>1. session'[v] = session[v] /\ session[v].id <= lastId /\ session[v].id \in Int
    BY <1>1 DEF At, IInv, SessionOK, TypeOK
  <2>2. CASE w = u
    BY <1>1, <2>1, <2>2, ReconcileAssumption DEF At, IInv, TypeOK, Sessions
  <2>3. CASE w # u
    BY <1>1, <2>3 DEF IInv, IdsApart, At
  <2> QED BY <2>2, <2>3
<1>4. (\A t \in Suggs : SuggestionOK(t)') /\ (\A v \in Users : SessionOK(v)')
  <2> SUFFICES ASSUME NEW v \in Users, v # u PROVE SessionOK(v)'
    BY DEF IInv, SuggestionOK
  <2> QED BY <1>1 DEF IInv, SessionOK, TypeOK
<1>5. InTransaction' = InTransaction
  BY <1>1 DEF InTransaction, Transactional
<1>6. ASSUME NEW v \in InTransaction', v \notin overlaps' PROVE AloneOK(v)'
  <2>1. v = u
    BY <1>5, <1>6 DEF IInv, AloneOK
  <2> QED BY <1>6, <2>1
<1>7. ASSUME NEW k \in Active', rec'[k].alone PROVE BalancedFor(k)'
  <2>1. k \in Active /\ BalancedFor(k) /\ k <= lastId /\ k \in Int
    BY <1>7 DEF IInv, Active, StoredOK, Ids
  <2>2. s.at = "link" => k < s.id
    BY <2>1, ReconcileAssumption DEF IInv, TypeOK, Sessions
  <2>3. s.at = "free" => k <= s.id
    BY <2>1, ReconcileAssumption DEF NewerActive, Sessions
  <2> QED BY <1>1, <2>1, <2>2, <2>3 DEF BalancedFor, Counted, At
<1> QED BY <1>2, <1>3, <1>4, <1>6, <1>7 DEF IInv

LEMMA CheckDifferenceInv == ASSUME IInv, NEW u \in Users, CheckDifference(u) PROVE IInv'
<1>1. CASE session[u].prev + Net[Selected(u)] # session[u].ending
  BY <1>1, Ending DEF CheckDifference
<1>2. CASE session[u].prev + Net[Selected(u)] = session[u].ending
  <2> DEFINE s == [session[u] EXCEPT !.at = "insert", !.prev = 0]
  <2>1. session[u] \in Sessions /\ session[u].at = "difference" /\ session \in [Users -> Sessions]
    BY DEF CheckDifference, At, IInv, TypeOK, Sessions
  <2>2. s \in Sessions
    <3>1. "insert" \in Places /\ 0 \in Int /\ 0 \in 0..MaxRecs
      BY ReconcileAssumption DEF Places
    <3> QED BY <2>1, <3>1, SessionPrev
  <2>10. /\ s.at = "insert" /\ s.lines = session[u].lines
        /\ s.ending = session[u].ending /\ s.date = session[u].date
    BY <2>1 DEF Sessions
  <2>3. Become(u, s) /\ session'[u] = s
    BY <1>2, <2>1 DEF CheckDifference, Become, Sessions
  <2>4. UNCHANGED <<posted, recOf, rec, lastId, sugg, draft, buttons, overlaps>>
    BY <1>2 DEF CheckDifference, tables, history
  <2> HIDE DEF s
  <2>5. SessionOK(u)'
    BY <2>2, <2>10, <2>3, <2>4 DEF IInv, SessionOK
  <2>6. u \in InTransaction
    BY <2>1 DEF InTransaction
  <2>7. InTransaction' = InTransaction
    BY <2>1, <2>10, <2>3 DEF InTransaction, Become
  <2>8. ASSUME u \notin overlaps PROVE AloneOK(u)'
    <3>1. AloneOK(u)
      BY <2>6, <2>8 DEF IInv
    <3>2. session[u].prev = ClearedBalance(session[u].date)
      BY <2>1, <3>1 DEF AloneOK, At
    <3>3. /\ ClearedBalance(session[u].date)' = ClearedBalance(session[u].date)
          /\ Selected(u)' = Selected(u)
      BY <2>10, <2>3, <2>4 DEF ClearedBalance, Selected, ListReconcileCandidates, UpTo
    <3> QED BY <1>2, <2>10, <2>3, <2>7, <3>1, <3>2, <3>3 DEF AloneOK, At
  <2>9. lastId \in 0..MaxRecs /\ s.at \in Transactional
    BY <2>10 DEF IInv, TypeOK, Transactional
  <2> QED BY <2>2, <2>10, <2>3, <2>4, <2>5, <2>6, <2>8, <2>9, ReconcileAssumption, Going
<1> QED BY <1>1, <1>2

LEMMA InsertInv == ASSUME IInv, NEW u \in Users, InsertReconciliation(u) PROVE IInv'
<1> DEFINE s == [session[u] EXCEPT !.at = "link", !.id = lastId + 1]
<1>1. session[u] \in Sessions /\ session[u].at = "insert" /\ session \in [Users -> Sessions]
  BY DEF InsertReconciliation, At, IInv, TypeOK, Sessions
<1>2. lastId \in 0..MaxRecs /\ lastId' = lastId + 1 /\ lastId' \in 0..MaxRecs
  BY ReconcileAssumption DEF InsertReconciliation, IInv, TypeOK
<1>3. s \in Sessions
  <2>1. "link" \in Places /\ lastId + 1 \in 0..MaxRecs
    BY <1>2 DEF Places
  <2> QED BY <1>1, <2>1, SessionId
<1>4. /\ s.at = "link" /\ s.id = lastId + 1 /\ s.lines = session[u].lines
      /\ s.ending = session[u].ending /\ s.date = session[u].date
  BY <1>1 DEF Sessions
<1>5. Become(u, s) /\ session'[u] = s
  BY <1>1 DEF InsertReconciliation, Become, Sessions
<1>6. UNCHANGED <<posted, recOf, rec, sugg, draft, buttons, overlaps>>
  BY DEF InsertReconciliation, history
<1> HIDE DEF s
<1>7. SessionOK(u)'
  <2>1. rec[lastId + 1].status = "none"
    <3>1. lastId + 1 \in Ids /\ ~(lastId + 1 <= lastId)
      BY <1>2, ReconcileAssumption DEF Ids
    <3> QED BY <3>1 DEF IInv, StoredOK
  <2>2. lastId + 1 # 0
    BY <1>2
  <2> QED BY <1>2, <1>4, <1>5, <1>6, <2>1, <2>2 DEF IInv, SessionOK
<1>8. u \in InTransaction /\ InTransaction' = InTransaction
  BY <1>1, <1>4, <1>5 DEF InTransaction, Become
<1>9. ASSUME u \notin overlaps PROVE AloneOK(u)'
  <2>1. AloneOK(u)
    BY <1>8, <1>9 DEF IInv
  <2>2. ClearedBalance(session[u].date)' = ClearedBalance(session[u].date) /\ Selected(u)' = Selected(u)
    BY <1>4, <1>5, <1>6 DEF ClearedBalance, Selected, ListReconcileCandidates, UpTo
  <2>3. ASSUME NEW l \in Lines PROVE recOf'[l] < s.id
    <3>1. recOf[l] \in 0..MaxRecs /\ (recOf[l] # 0 => recOf[l] <= lastId)
      BY DEF IInv, TypeOK, StoredOK, Ids
    <3> QED BY <1>2, <1>4, <1>6, <3>1, ReconcileAssumption
  <2> QED BY <1>1, <1>4, <1>5, <1>8, <2>1, <2>2, <2>3 DEF AloneOK, At
<1>10. lastId' >= lastId /\ s.at \in Transactional /\ s.id > lastId /\ s.at # "free"
  BY <1>2, <1>4 DEF Transactional
<1> QED BY <1>2, <1>3, <1>5, <1>6, <1>7, <1>8, <1>9, <1>10, Going

(* The statement of a transaction that overlapped no other one balances    *)
(* when it commits.                                                        *)
LEMMA CommitBalances ==
  ASSUME IInv, NEW u \in Users, LinkAndCommit(u), u \notin overlaps,
         NEW n, n = session[u].id, NEW d, d = session[u].date
  PROVE  BalancedFor(n)'
<1> DEFINE before == {l \in UpTo(d) : recOf[l] # 0}
<1>1. session[u].at = "link" /\ session[u] \in Sessions /\ u \in InTransaction
  BY DEF LinkAndCommit, At, IInv, TypeOK, Sessions, InTransaction
<1>2. AloneOK(u) /\ n \in Ids /\ n \in Nat
  BY <1>1, ReconcileAssumption DEF IInv, SessionOK, Sessions, Ids
<1>3. rec'[n].date = d /\ rec'[n].ending = session[u].ending
  BY <1>2 DEF LinkAndCommit, IInv, TypeOK
<1>4. before \in SUBSET Lines /\ Selected(u) \in SUBSET Lines /\ before \cap Selected(u) = {}
  BY DEF IInv, TypeOK, UpTo, Selected, ListReconcileCandidates
<1>5. Counted(n)' = before \cup Selected(u)
  <2>1. Counted(n)' = {l \in Lines : recOf'[l] \in 1..n /\ Day[l] <= d}
    BY <1>3 DEF Counted
  <2>2. ASSUME NEW l \in Lines
        PROVE  recOf'[l] \in 1..n <=> recOf[l] # 0 \/ l \in Linkable(session[u].lines)
    <3>1. recOf'[l] = IF l \in Linkable(session[u].lines) THEN n ELSE recOf[l]
      BY DEF LinkAndCommit
    <3>2. recOf[l] \in 0..MaxRecs /\ recOf[l] < n
      BY <1>1, <1>2 DEF IInv, TypeOK, AloneOK, At
    <3>3. n \in 1..n
      BY <1>2 DEF Ids
    <3> QED BY <1>2, <3>1, <3>2, <3>3, ReconcileAssumption
  <2>3. \A l \in Lines : recOf[l] # 0 => l \in posted
    BY DEF IInv, StoredOK
  <2> QED BY <2>1, <2>2, <2>3
          DEF Linkable, Selected, ListReconcileCandidates, UpTo, IInv, TypeOK
<1>6. session[u].ending = Net[before] + Net[Selected(u)]
  BY <1>1, <1>2 DEF AloneOK, ClearedBalance
<1>7. rec'[n].ending = Net[Counted(n)']
  BY <1>3, <1>4, <1>5, <1>6, NetAssumption
<1>8. ASSUME NEW v \in Users PROVE session'[v].at \notin {"link", "free"}
  <2>1. CASE v = u
    BY <2>1 DEF LinkAndCommit, Become, IInv, TypeOK
  <2>2. CASE v # u
    <3>1. session'[v] = session[v] /\ v \notin InTransaction
      BY <1>2, <2>2 DEF LinkAndCommit, Become, AloneOK, IInv, TypeOK
    <3> QED BY <3>1 DEF InTransaction
  <2> QED BY <2>1, <2>2
<1> QED BY <1>7, <1>8 DEF BalancedFor, At

LEMMA LinkInv == ASSUME IInv, NEW u \in Users, LinkAndCommit(u) PROVE IInv'
<1> DEFINE s == [Away EXCEPT !.at = "linkSuggestions", !.id = session[u].id]
<1>1. PICK n \in Ids : n = session[u].id /\ n <= lastId /\ rec[n].status = "none"
  BY DEF LinkAndCommit, At, IInv, SessionOK, TypeOK, Ids
<1>2. session[u].at = "link" /\ session[u] \in Sessions /\ session \in [Users -> Sessions]
  BY DEF LinkAndCommit, At, IInv, TypeOK, Sessions
<1>3. s \in Sessions /\ s.at = "linkSuggestions" /\ s.id = n /\ s.lines = {}
  <2>1. "linkSuggestions" \in Places /\ n \in 0..MaxRecs
    BY <1>1 DEF Places, Ids
  <2>2. s \in Sessions
    BY <1>1, <2>1, SessionId, AwayTyped
  <2> QED BY <1>1, <2>2 DEF Away
<1>4. session'[u] = s /\ \A v \in Users \ {u} : session'[v] = session[v]
  BY <1>2 DEF LinkAndCommit, Become
<1> HIDE DEF s
<1>5. UNCHANGED <<posted, lastId, sugg, draft, buttons>> /\ overlaps' = overlaps \ {u}
  BY DEF LinkAndCommit, End
<1>6. /\ rec'[n].status = "active" /\ (rec'[n].alone <=> u \notin overlaps)
      /\ \A k \in Ids \ {n} : rec'[k] = rec[k]
  BY <1>1 DEF LinkAndCommit, IInv, TypeOK
<1>7. \A l \in Lines : recOf'[l] = IF l \in Linkable(session[u].lines) THEN n ELSE recOf[l]
  BY <1>1 DEF LinkAndCommit
<1>8. TypeOK'
  <2>1. session' \in [Users -> Sessions]
    BY <1>2, <1>3, <1>4 DEF LinkAndCommit, Become
  <2>2. recOf' \in [Lines -> 0..MaxRecs]
    BY <1>1, <1>7 DEF LinkAndCommit, IInv, TypeOK, Ids
  <2>3. rec' \in [Ids -> Records]
    <3>1. [status |-> "active", date |-> session[u].date,
           ending |-> session[u].ending, alone |-> u \notin overlaps] \in Records
      BY <1>2 DEF Sessions, Records
    <3> QED BY <1>1, <3>1 DEF LinkAndCommit, IInv, TypeOK, Records
  <2> QED BY <1>5, <2>1, <2>2, <2>3 DEF IInv, TypeOK, Sessions, Records
<1>9. StoredOK'
  <2>1. ASSUME NEW l \in Lines, recOf'[l] # 0
        PROVE  l \in posted' /\ rec'[recOf'[l]].status = "active"
    <3>1. recOf[l] # 0 => l \in posted /\ rec[recOf[l]].status = "active" /\ recOf[l] \in Ids
      BY ReconcileAssumption DEF IInv, StoredOK, TypeOK, Ids
    <3> QED BY <1>1, <1>5, <1>6, <1>7, <2>1, <3>1 DEF Linkable
  <2>2. \A k \in Ids : rec'[k].status # "none" => k <= lastId'
    BY <1>1, <1>5, <1>6 DEF IInv, StoredOK
  <2> QED BY <1>5, <2>1, <2>2 DEF IInv, StoredOK
<1>10. IdsApart'
  BY <1>3, <1>4 DEF IInv, IdsApart, At
<1>11. \A t \in Suggs : SuggestionOK(t)'
  <2> SUFFICES ASSUME NEW t \in Suggs, sugg[t].status = "archived"
               PROVE  rec'[sugg[t].rec].status = "voided"
    BY <1>5 DEF IInv, SuggestionOK
  <2>1. sugg[t].rec \in Ids /\ rec[sugg[t].rec].status = "voided"
    BY ReconcileAssumption DEF IInv, SuggestionOK, TypeOK, Ids
  <2> QED BY <1>1, <1>6, <2>1
<1>12. \A v \in Users : SessionOK(v)'
  <2>1. SessionOK(u)'
    BY <1>1, <1>3, <1>4, <1>6 DEF SessionOK, Ids
  <2>2. ASSUME NEW v \in Users, v # u PROVE SessionOK(v)'
    <3>1. session'[v] = session[v] /\ session[v].id \in 0..MaxRecs /\ SessionOK(v)
      BY <1>4, <2>2 DEF IInv, TypeOK
    <3>2. session[v].at = "link" => session[v].id # n
      BY <1>1, <1>2, <2>2 DEF IInv, IdsApart, At
    <3>3. session[v].id # 0 => session[v].id \in Ids
      BY <3>1, ReconcileAssumption DEF Ids
    <3>4. session[v].id # 0 /\ session[v].id # n => rec'[session[v].id] = rec[session[v].id]
      BY <1>6, <3>3
    <3> QED BY <1>1, <1>5, <1>6, <3>1, <3>2, <3>4 DEF SessionOK
  <2> QED BY <2>1, <2>2
<1>13. ASSUME NEW v \in InTransaction', v \notin overlaps' PROVE FALSE
  <2>1. v # u /\ v \in InTransaction /\ u \in InTransaction /\ v \notin overlaps
    BY <1>2, <1>3, <1>4, <1>5, <1>13 DEF InTransaction
  <2> QED BY <2>1 DEF IInv, AloneOK
<1>14. ASSUME NEW k \in Active', rec'[k].alone PROVE BalancedFor(k)'
  <2>1. CASE k = n
    BY <1>1, <1>6, <1>14, <2>1, CommitBalances
  <2>2. CASE k # n
    <3>1. k \in Active /\ k \in Nat /\ BalancedFor(k) /\ rec'[k] = rec[k] /\ k < n
      BY <1>1, <1>2, <1>6, <1>14, <2>2, ReconcileAssumption DEF IInv, Active, BalancedFor, At, Ids
    <3>2. ASSUME NEW l \in Lines PROVE recOf'[l] \in 1..k <=> recOf[l] \in 1..k
      BY <1>1, <1>7, <3>1 DEF Linkable, Ids
    <3>3. Counted(k)' = Counted(k)
      BY <3>1, <3>2 DEF Counted
    <3> QED BY <1>3, <1>4, <3>1, <3>3 DEF BalancedFor, At
  <2> QED BY <2>1, <2>2
<1> QED BY <1>8, <1>9, <1>10, <1>11, <1>12, <1>13, <1>14 DEF IInv

-----------------------------------------------------------------------------
(* Void.                                                                   *)
LEMMA CountNewerInv == ASSUME IInv, NEW u \in Users, CountNewer(u) PROVE IInv'
<1>1. CASE NewerActive(session[u].id) # {}
  BY <1>1, Ending DEF CountNewer
<1>2. CASE NewerActive(session[u].id) = {}
  <2> DEFINE s == [session[u] EXCEPT !.at = "free"]
  <2>1. session[u] \in Sessions /\ session[u].at = "newer" /\ session \in [Users -> Sessions]
    BY DEF CountNewer, At, IInv, TypeOK, Sessions
  <2>2. s \in Sessions /\ s.at = "free" /\ s.lines = session[u].lines /\ s.id = session[u].id
    <3>1. "free" \in Places
      BY DEF Places
    <3>2. s \in Sessions
      BY <2>1, <3>1, SessionAt
    <3> QED BY <2>1, <3>2 DEF Sessions
  <2>3. Become(u, s) /\ session'[u] = s
    BY <1>2, <2>1 DEF CountNewer, Goto, Become, Sessions
  <2>4. UNCHANGED <<posted, recOf, rec, lastId, sugg, draft, buttons, overlaps>>
    BY <1>2 DEF CountNewer, tables, history
  <2> HIDE DEF s
  <2>5. SessionOK(u)'
    BY <2>1, <2>2, <2>3, <2>4 DEF IInv, SessionOK
  <2>6. u \in InTransaction /\ InTransaction' = InTransaction
    BY <2>1, <2>2, <2>3 DEF InTransaction, Become
  <2>7. ASSUME u \notin overlaps PROVE AloneOK(u)'
    BY <2>2, <2>3, <2>6, <2>7 DEF IInv, AloneOK, At
  <2>8. lastId \in 0..MaxRecs /\ s.at \in Transactional /\ s.at # "link" /\ NewerActive(s.id) = {}
    BY <1>2, <2>2 DEF IInv, TypeOK, Transactional
  <2> QED BY <2>2, <2>3, <2>4, <2>5, <2>6, <2>7, <2>8, ReconcileAssumption, Going
<1> QED BY <1>1, <1>2

LEMMA FreeInv == ASSUME IInv, NEW u \in Users, FreeAndCommit(u) PROVE IInv'
<1> DEFINE s == [session[u] EXCEPT !.at = "archive"]
<1>1. PICK n \in Ids : n = session[u].id /\ rec[n].status # "none"
  BY ReconcileAssumption DEF FreeAndCommit, At, IInv, SessionOK, TypeOK, Ids
<1>2. session[u].at = "free" /\ session[u] \in Sessions /\ session \in [Users -> Sessions]
  BY DEF FreeAndCommit, At, IInv, TypeOK, Sessions
<1>3. s \in Sessions /\ s.at = "archive" /\ s.id = n /\ s.lines = session[u].lines
  <2>1. "archive" \in Places
    BY DEF Places
  <2>2. s \in Sessions
    BY <1>2, <2>1, SessionAt
  <2> QED BY <1>1, <1>2, <2>2 DEF Sessions
<1>4. session'[u] = s /\ \A v \in Users \ {u} : session'[v] = session[v]
  BY <1>2 DEF FreeAndCommit, Goto
<1> HIDE DEF s
<1>5. UNCHANGED <<posted, lastId, sugg, draft, buttons>> /\ overlaps' = overlaps \ {u}
  BY DEF FreeAndCommit, End
<1>6. /\ rec'[n] = [rec[n] EXCEPT !.status = "voided"] /\ rec'[n].status = "voided"
      /\ \A k \in Ids \ {n} : rec'[k] = rec[k]
  BY <1>1 DEF FreeAndCommit, IInv, TypeOK
<1>7. \A l \in Lines : recOf'[l] = IF recOf[l] = n THEN 0 ELSE recOf[l]
  BY <1>1 DEF FreeAndCommit, FreedBy
<1>8. TypeOK'
  <2>1. session' \in [Users -> Sessions]
    BY <1>2, <1>3, <1>4 DEF FreeAndCommit, Goto
  <2>2. recOf' \in [Lines -> 0..MaxRecs]
    BY <1>1, <1>7, ReconcileAssumption DEF FreeAndCommit, IInv, TypeOK, Ids
  <2>3. rec' \in [Ids -> Records]
    BY <1>1 DEF FreeAndCommit, IInv, TypeOK, Records
  <2> QED BY <1>5, <2>1, <2>2, <2>3 DEF IInv, TypeOK, Sessions, Records
<1>9. StoredOK'
  <2>1. ASSUME NEW l \in Lines, recOf'[l] # 0
        PROVE  l \in posted' /\ rec'[recOf'[l]].status = "active"
    <3>1. recOf[l] # 0 => l \in posted /\ rec[recOf[l]].status = "active" /\ recOf[l] \in Ids
      BY ReconcileAssumption DEF IInv, StoredOK, TypeOK, Ids
    <3> QED BY <1>5, <1>6, <1>7, <2>1, <3>1
  <2>2. \A k \in Ids : rec'[k].status # "none" => k <= lastId'
    BY <1>1, <1>5, <1>6 DEF IInv, StoredOK
  <2> QED BY <1>5, <2>1, <2>2 DEF IInv, StoredOK
<1>10. IdsApart'
  BY <1>3, <1>4 DEF IInv, IdsApart, At
<1>11. \A t \in Suggs : SuggestionOK(t)'
  <2> SUFFICES ASSUME NEW t \in Suggs, sugg[t].status = "archived"
               PROVE  rec'[sugg[t].rec].status = "voided"
    BY <1>5 DEF IInv, SuggestionOK
  <2>1. sugg[t].rec \in Ids /\ rec[sugg[t].rec].status = "voided"
    BY ReconcileAssumption DEF IInv, SuggestionOK, TypeOK, Ids
  <2> QED BY <1>6, <2>1
<1>12. \A v \in Users : SessionOK(v)'
  <2>1. SessionOK(u)'
    <3>1. SessionOK(u) /\ session'[u].lines \subseteq posted' /\ n # 0
      BY <1>1, <1>3, <1>4, <1>5 DEF IInv, SessionOK, Ids
    <3> QED BY <1>3, <1>4, <1>6, <3>1 DEF SessionOK
  <2>2. ASSUME NEW v \in Users, v # u PROVE SessionOK(v)'
    <3>1. session'[v] = session[v] /\ session[v].id \in 0..MaxRecs /\ SessionOK(v)
      BY <1>4, <2>2 DEF IInv, TypeOK
    <3>2. session[v].id # 0 => session[v].id \in Ids
      BY <3>1, ReconcileAssumption DEF Ids
    <3>3. session[v].id # 0 /\ session[v].id # n => rec'[session[v].id] = rec[session[v].id]
      BY <1>6, <3>2
    <3> QED BY <1>1, <1>5, <1>6, <3>1, <3>3 DEF SessionOK
  <2> QED BY <2>1, <2>2
<1>13. ASSUME NEW v \in InTransaction', v \notin overlaps' PROVE FALSE
  <2>1. v # u /\ v \in InTransaction /\ u \in InTransaction /\ v \notin overlaps
    BY <1>2, <1>3, <1>4, <1>5, <1>13 DEF InTransaction
  <2> QED BY <2>1 DEF IInv, AloneOK
<1>14. ASSUME NEW k \in Active', rec'[k].alone PROVE BalancedFor(k)'
  <2>1. k \in Ids /\ k \in Nat /\ n \in Nat /\ k # n /\ rec'[k] = rec[k]
    <3>1. k \in Ids /\ rec'[k].status = "active"
      BY <1>14 DEF Active
    <3>2. k # n
      BY <1>6, <3>1
    <3> QED BY <1>1, <1>6, <3>1, <3>2 DEF Ids
  <2>2. k \in Active /\ BalancedFor(k)
    BY <1>14, <2>1 DEF IInv, Active
  <2>3. k < n
    BY <1>1, <1>2, <2>1, <2>2 DEF BalancedFor, At
  <2>4. ASSUME NEW l \in Lines PROVE recOf'[l] \in 1..k <=> recOf[l] \in 1..k
    BY <1>7, <2>1, <2>3
  <2>5. Counted(k)' = Counted(k)
    BY <2>1, <2>4 DEF Counted
  <2> QED BY <1>3, <1>4, <2>1, <2>2, <2>5 DEF BalancedFor, At
<1> QED BY <1>8, <1>9, <1>10, <1>11, <1>12, <1>13, <1>14 DEF IInv

LEMMA LoadInv == ASSUME IInv, NEW u \in Users, LoadReconciliation(u) PROVE IInv'
<1>1. session[u] \in Sessions /\ session \in [Users -> Sessions] /\ session[u].at \notin Transactional
  BY DEF LoadReconciliation, InPage, IInv, TypeOK, Sessions, Transactional
<1>2. CASE session[u].id \in Active
  <2> DEFINE s == [Away EXCEPT !.at = "newer", !.id = session[u].id]
  <2>1. "newer" \in Places /\ session[u].id \in 0..MaxRecs
    BY <1>1 DEF Places, Sessions
  <2>2. s \in Sessions
    BY <2>1, SessionId, AwayTyped
  <2>3. s.at = "newer" /\ s.id = session[u].id /\ s.lines = {}
    BY DEF Away
  <2>4. Become(u, s) /\ session'[u] = s /\ Begin(u) /\ UNCHANGED tables
    BY <1>1, <1>2 DEF LoadReconciliation, Become
  <2> HIDE DEF s
  <2>5. SessionOK(u)'
    BY <1>2, <2>3, <2>4 DEF SessionOK, Active, Ids, tables
  <2> QED BY <1>1, <2>2, <2>3, <2>4, <2>5, Beginning
<1>3. CASE session[u].id \notin Active
  <2>1. Redirect(u) /\ UNCHANGED <<tables, history>>
    BY <1>3 DEF LoadReconciliation
  <2>2. session' \in [Users -> Sessions] /\ session'[u] = Away
        /\ \A v \in Users \ {u} : session'[v] = session[v]
    BY <1>1, <2>1, AwayTyped DEF Redirect, Become
  <2>3. SessionOK(u)' /\ session'[u].at \notin Transactional
    BY <2>2 DEF SessionOK, Away, Transactional
  <2>4. sugg' \in [Suggs -> Rows] /\ (\A t \in Suggs : SuggestionOK(t)') /\ draft' \subseteq posted
    BY <2>1 DEF tables, IInv, TypeOK, Rows, SuggestionOK, StoredOK
  <2>5. UNCHANGED <<posted, recOf, rec, lastId, buttons, overlaps>>
    BY <2>1 DEF tables, history
  <2> QED BY <1>1, <2>2, <2>3, <2>4, <2>5, Quiet
<1> QED BY <1>2, <1>3

-----------------------------------------------------------------------------
(* The way to the page, the draft and the suggestions.                     *)
LEMMA QuietUser ==
  ASSUME IInv, NEW u \in Users, NEW s \in Sessions, Become(u, s),
         session[u].at \notin Transactional,
         s.at \notin Transactional \cup {"linkSuggestions", "archive"}, s.lines \subseteq posted,
         UNCHANGED <<posted, recOf, rec, lastId, buttons, overlaps>>,
         sugg' \in [Suggs -> Rows], \A t \in Suggs : SuggestionOK(t)', draft' \subseteq posted
  PROVE  IInv'
<1>1. session \in [Users -> Sessions]
  BY DEF IInv, TypeOK, Sessions
<1>2. session' \in [Users -> Sessions] /\ session'[u] = s
      /\ \A v \in Users \ {u} : session'[v] = session[v]
  BY <1>1 DEF Become
<1>3. SessionOK(u)'
  BY <1>2 DEF SessionOK, Transactional
<1> QED BY <1>2, <1>3, Quiet

LEMMA SameSuggestions ==
  ASSUME IInv, UNCHANGED <<posted, rec, sugg>>
  PROVE  sugg' \in [Suggs -> Rows] /\ \A t \in Suggs : SuggestionOK(t)'
  BY DEF IInv, TypeOK, Rows, SuggestionOK

LEMMA MovedSuggestions ==
  ASSUME IInv, UNCHANGED <<posted, rec>>,
         NEW S \in SUBSET Suggs, NEW after \in {"accepted", "rejected", "expired"},
         sugg' = Moved(S, "pending", after)
  PROVE  sugg' \in [Suggs -> Rows] /\ \A t \in Suggs : SuggestionOK(t)'
<1>1. sugg \in [Suggs -> Rows]
  BY DEF IInv, TypeOK, Rows
<1>2. \A t \in Suggs : [sugg[t] EXCEPT !.status = after] \in Rows
  BY <1>1 DEF Rows
<1>3. sugg' \in [Suggs -> Rows]
  BY <1>1, <1>2 DEF Moved
<1>4. ASSUME NEW t \in Suggs PROVE SuggestionOK(t)'
  <2>1. \/ sugg'[t] = sugg[t]
        \/ sugg'[t].status = after /\ sugg'[t].lines = sugg[t].lines
    BY <1>1 DEF Moved, Rows
  <2>2. SuggestionOK(t)
    BY DEF IInv
  <2> QED BY <2>1, <2>2 DEF SuggestionOK
<1> QED BY <1>3, <1>4

LEMMA BrowseInv == ASSUME IInv, NEW u \in Users, Browse(u) PROVE IInv'
<1>1. session \in [Users -> Sessions] /\ session[u] \in Sessions /\ draft \subseteq posted
  BY DEF IInv, TypeOK, Sessions, StoredOK
<1>2. CASE DiscardDraft(u)
  <2>1. sugg' \in [Suggs -> Rows] /\ \A t \in Suggs : SuggestionOK(t)'
    BY <1>2, SameSuggestions DEF DiscardDraft
  <2> QED BY <1>1, <1>2, <2>1, Quiet DEF DiscardDraft, history
<1>3. CASE Leave(u)
  <2>1. sugg' \in [Suggs -> Rows] /\ \A t \in Suggs : SuggestionOK(t)'
    BY <1>3, SameSuggestions DEF Leave, tables
  <2>2. Become(u, Away) /\ session[u].at \notin Transactional
    BY <1>3 DEF Leave, Redirect, InPage, Transactional
  <2>3. Away.at \notin Transactional \cup {"linkSuggestions", "archive"} /\ Away.lines \subseteq posted
    BY DEF Away, Transactional
  <2>4. UNCHANGED <<posted, recOf, rec, lastId, buttons, overlaps>> /\ draft' \subseteq posted
    BY <1>1, <1>3 DEF Leave, tables, history
  <2> QED BY <2>1, <2>2, <2>3, <2>4, AwayTyped, QuietUser
<1>4. CASE SaveDraft(u)
  <2> DEFINE s == [session[u] EXCEPT !.at = "saved"]
  <2>1. sugg' \in [Suggs -> Rows] /\ \A t \in Suggs : SuggestionOK(t)'
    BY <1>4, SameSuggestions DEF SaveDraft
  <2>2. "saved" \in Places
    BY DEF Places
  <2>3. s \in Sessions
    BY <1>1, <2>2, SessionAt
  <2>4. Become(u, s) /\ session[u].at \notin Transactional
    BY <1>1, <1>4 DEF SaveDraft, Goto, Become, InPage, At, Transactional, Sessions
  <2>5. s.at \notin Transactional \cup {"linkSuggestions", "archive"} /\ s.lines \subseteq posted
    BY <1>1 DEF Sessions, Transactional, IInv, SessionOK
  <2>6. UNCHANGED <<posted, recOf, rec, lastId, buttons, overlaps>> /\ draft' \subseteq posted
    BY <1>4 DEF SaveDraft, history, ListReconcileCandidates, UpTo
  <2> HIDE DEF s
  <2> QED BY <2>1, <2>3, <2>4, <2>5, <2>6, QuietUser
<1>5. CASE \E entries \in SUBSET Lines : CreateReconcileSetupEntries(u, entries)
  BY <1>5, Posting DEF CreateReconcileSetupEntries, history
<1>6. ASSUME NEW d \in Dates, NEW ticked \in SUBSET Lines, Show(u, d, ticked) PROVE IInv'
  <2> DEFINE s == [Away EXCEPT !.at = "work", !.date = d,
                               !.lines = ticked \cup (Preselected \ ListReconcileCandidates(d)),
                               !.ending = ClearedBalance(d) + Net[ticked],
                               !.id = LatestActive]
  <2>1. sugg' \in [Suggs -> Rows] /\ \A t \in Suggs : SuggestionOK(t)'
    BY <1>6, SameSuggestions DEF Show, tables
  <2>2. Preselected \subseteq posted /\ posted \subseteq Lines
    BY <1>1 DEF Preselected, AcceptedLines, IInv, TypeOK, SuggestionOK
  <2>3. ticked \subseteq posted
    BY <1>6 DEF Show, ListReconcileCandidates, UpTo
  <2>4. ClearedBalance(d) + Net[ticked] \in Int /\ d \in Nat
    BY ClearedTyped, NetTyped, ReconcileAssumption DEF IInv
  <2>5. s \in Sessions
    BY <2>2, <2>3, <2>4, LatestTyped, AwayTyped, "work" \in Places DEF Away, Sessions, Places
  <2>6. Become(u, s) /\ session[u].at \notin Transactional
    BY <1>6 DEF Show, At, Transactional
  <2>7. s.at \notin Transactional \cup {"linkSuggestions", "archive"} /\ s.lines \subseteq posted
    BY <2>2, <2>3 DEF Away, Transactional
  <2>8. UNCHANGED <<posted, recOf, rec, lastId, buttons, overlaps>> /\ draft' \subseteq posted
    BY <1>1, <1>6 DEF Show, tables, history
  <2> HIDE DEF s
  <2> QED BY <2>1, <2>5, <2>6, <2>7, <2>8, QuietUser
<1> QED BY <1>2, <1>3, <1>4, <1>5, <1>6 DEF Browse

LEMMA MatchInv == ASSUME IInv, NEW u \in Users, Match(u) PROVE IInv'
<1>1. session \in [Users -> Sessions] /\ session[u] \in Sessions /\ draft \subseteq posted
      /\ posted \subseteq Lines
  BY DEF IInv, TypeOK, Sessions, StoredOK
<1>2. Away.at \notin Transactional \cup {"linkSuggestions", "archive"} /\ Away.lines \subseteq posted
  BY DEF Away, Transactional
<1>3. CASE AutoMatch(u)
  <2> DEFINE s == [Away EXCEPT !.at = "match",
                               !.lines = ListReconcileCandidates(session[u].date)]
  <2>1. sugg' \in [Suggs -> Rows] /\ \A t \in Suggs : SuggestionOK(t)'
    BY <1>3, MovedSuggestions DEF AutoMatch
  <2>2. ListReconcileCandidates(session[u].date) \subseteq posted
    BY DEF ListReconcileCandidates, UpTo
  <2>3. s \in Sessions
    BY <1>1, <2>2, AwayTyped, "match" \in Places DEF Away, Sessions, Places
  <2>4. s.at \notin Transactional \cup {"linkSuggestions", "archive"} /\ s.lines \subseteq posted
    BY <2>2 DEF Away, Transactional
  <2>5. Become(u, s) /\ session[u].at \notin Transactional
    BY <1>3 DEF AutoMatch, Clicks, At, Transactional
  <2>6. UNCHANGED <<posted, recOf, rec, lastId, buttons, overlaps>> /\ draft' \subseteq posted
    BY <1>1, <1>3 DEF AutoMatch, history
  <2> HIDE DEF s
  <2> QED BY <2>1, <2>3, <2>4, <2>5, <2>6, QuietUser
<1>4. CASE EndAutoMatch(u)
  <2>1. sugg' \in [Suggs -> Rows] /\ \A t \in Suggs : SuggestionOK(t)'
    BY <1>4, SameSuggestions DEF EndAutoMatch, tables
  <2>2. Become(u, Away) /\ session[u].at \notin Transactional
    BY <1>4 DEF EndAutoMatch, Redirect, At, Transactional
  <2>3. UNCHANGED <<posted, recOf, rec, lastId, buttons, overlaps>> /\ draft' \subseteq posted
    BY <1>1, <1>4 DEF EndAutoMatch, tables, history
  <2> QED BY <1>2, <2>1, <2>2, <2>3, AwayTyped, QuietUser
<1>5. CASE MergeIntoDraft(u)
  <2>1. sugg' \in [Suggs -> Rows] /\ \A t \in Suggs : SuggestionOK(t)'
    BY <1>5, SameSuggestions DEF MergeIntoDraft
  <2>2. Become(u, Away) /\ session[u].at \notin Transactional
    BY <1>5 DEF MergeIntoDraft, Redirect, At, Transactional
  <2>3. UNCHANGED <<posted, recOf, rec, lastId, buttons, overlaps>> /\ draft' \subseteq posted
    BY <1>1, <1>5 DEF MergeIntoDraft, history, IInv, SessionOK
  <2> QED BY <1>2, <2>1, <2>2, <2>3, AwayTyped, QuietUser
<1>6. ASSUME NEW t \in Suggs, AcceptSuggestion(u, t) PROVE IInv'
  <2> DEFINE s == [Away EXCEPT !.at = "merge", !.lines = sugg[t].lines]
  <2>1. sugg' \in [Suggs -> Rows] /\ \A q \in Suggs : SuggestionOK(q)'
    BY <1>6, MovedSuggestions DEF AcceptSuggestion
  <2>2. sugg[t].lines \subseteq posted
    BY DEF IInv, SuggestionOK
  <2>3. s \in Sessions
    BY <1>1, <2>2, AwayTyped, "merge" \in Places DEF Away, Sessions, Places
  <2>4. s.at \notin Transactional \cup {"linkSuggestions", "archive"} /\ s.lines \subseteq posted
    BY <2>2 DEF Away, Transactional
  <2>5. session[u].at \notin Transactional /\ (Become(u, s) \/ Become(u, Away))
    BY <1>6 DEF AcceptSuggestion, Clicks, At, Transactional, Redirect
  <2>6. UNCHANGED <<posted, recOf, rec, lastId, buttons, overlaps>> /\ draft' \subseteq posted
    BY <1>1, <1>6 DEF AcceptSuggestion, history
  <2> HIDE DEF s
  <2>7. CASE Become(u, s)
    BY <2>1, <2>3, <2>4, <2>5, <2>6, <2>7, QuietUser
  <2>8. CASE Become(u, Away)
    BY <1>2, <2>1, <2>5, <2>6, <2>8, AwayTyped, QuietUser
  <2> QED BY <2>5, <2>7, <2>8
<1>7. ASSUME NEW t \in Suggs, RejectSuggestion(u, t) PROVE IInv'
  <2>1. sugg' \in [Suggs -> Rows] /\ \A q \in Suggs : SuggestionOK(q)'
    BY <1>7, MovedSuggestions DEF RejectSuggestion
  <2>2. Become(u, Away) /\ session[u].at \notin Transactional
    BY <1>7 DEF RejectSuggestion, Redirect, Clicks, At, Transactional
  <2>3. UNCHANGED <<posted, recOf, rec, lastId, buttons, overlaps>> /\ draft' \subseteq posted
    BY <1>1, <1>7 DEF RejectSuggestion, history
  <2> QED BY <1>2, <2>1, <2>2, <2>3, AwayTyped, QuietUser
<1>8. ASSUME NEW t \in Suggs, NEW found \in Matches, NEW lines \in SUBSET Lines,
             Suggest(u, t, found, lines)
      PROVE  IInv'
  <2> DEFINE row == [status |-> "pending", lines |-> lines, rec |-> 0]
  <2>1. row \in Rows /\ lines \subseteq posted
    BY <1>8, ReconcileAssumption DEF Suggest, Rows, IInv, SessionOK
  <2>2. sugg \in [Suggs -> Rows] /\ sugg' = [sugg EXCEPT ![t] = row]
    BY <1>8 DEF Suggest, IInv, TypeOK, Rows
  <2>3. row.status = "pending" /\ row.lines = lines
    OBVIOUS
  <2> HIDE DEF row
  <2>4. sugg' \in [Suggs -> Rows]
    BY <2>1, <2>2
  <2>5. UNCHANGED <<posted, recOf, rec, lastId, draft, session, buttons, overlaps>>
    BY <1>8 DEF Suggest, history
  <2>6. ASSUME NEW q \in Suggs PROVE SuggestionOK(q)'
    BY <2>1, <2>2, <2>3, <2>5 DEF IInv, SuggestionOK
  <2> QED BY <1>1, <2>4, <2>5, <2>6, Quiet
<1> QED BY <1>3, <1>4, <1>5, <1>6, <1>7, <1>8 DEF Match

-----------------------------------------------------------------------------
(* What follows a commit.                                                  *)
LEMMA LinkSuggestionsInv ==
  ASSUME IInv, NEW u \in Users, LinkSuggestionsToReconciliation(u) PROVE IInv'
<1> DEFINE s == [Away EXCEPT !.at = "deleteDraft"]
<1>1. sugg \in [Suggs -> Rows] /\ session[u].id \in 0..MaxRecs /\ session[u].id # 0
  BY DEF LinkSuggestionsToReconciliation, At, IInv, TypeOK, Rows, SessionOK
<1>2. ASSUME NEW t \in Suggs
      PROVE  /\ sugg'[t] \in Rows /\ sugg'[t].lines = sugg[t].lines
             /\ sugg'[t].status = sugg[t].status
             /\ sugg'[t].status # "accepted" => sugg'[t].rec = sugg[t].rec
  BY <1>1 DEF LinkSuggestionsToReconciliation, Rows
<1>3. sugg' \in [Suggs -> Rows]
  BY <1>2 DEF LinkSuggestionsToReconciliation
<1>4. UNCHANGED <<posted, recOf, rec, lastId, draft, buttons, overlaps>> /\ draft' \subseteq posted
  BY DEF LinkSuggestionsToReconciliation, history, IInv, StoredOK
<1>5. \A t \in Suggs : SuggestionOK(t)'
  BY <1>2, <1>4 DEF IInv, SuggestionOK
<1>6. "deleteDraft" \in Places
  BY DEF Places
<1>7. s \in Sessions
  BY <1>6, AwayTyped, SessionAt
<1>8. s.at \notin Transactional \cup {"linkSuggestions", "archive"} /\ s.lines \subseteq posted
  BY DEF Away, Transactional
<1>9. Become(u, s) /\ session[u].at \notin Transactional
  BY DEF LinkSuggestionsToReconciliation, At, Transactional
<1> HIDE DEF s
<1> QED BY <1>3, <1>4, <1>5, <1>7, <1>8, <1>9, QuietUser

LEMMA DeleteDraftInv == ASSUME IInv, NEW u \in Users, DeleteReconcileDraft(u) PROVE IInv'
<1>1. sugg' \in [Suggs -> Rows] /\ \A t \in Suggs : SuggestionOK(t)'
  BY SameSuggestions DEF DeleteReconcileDraft
<1>2. Become(u, Away) /\ session[u].at \notin Transactional
  BY DEF DeleteReconcileDraft, Redirect, At, Transactional
<1>3. Away.at \notin Transactional \cup {"linkSuggestions", "archive"} /\ Away.lines \subseteq posted
  BY DEF Away, Transactional
<1>4. UNCHANGED <<posted, recOf, rec, lastId, buttons, overlaps>> /\ draft' \subseteq posted
  BY DEF DeleteReconcileDraft, history
<1> QED BY <1>1, <1>2, <1>3, <1>4, AwayTyped, QuietUser

LEMMA ArchiveInv == ASSUME IInv, NEW u \in Users, ArchiveSuggestions(u) PROVE IInv'
<1>1. sugg \in [Suggs -> Rows] /\ session[u].id # 0 /\ rec[session[u].id].status = "voided"
  BY DEF ArchiveSuggestions, At, IInv, TypeOK, Rows, SessionOK
<1>2. UNCHANGED <<posted, recOf, rec, lastId, draft, buttons, overlaps>> /\ draft' \subseteq posted
  BY DEF ArchiveSuggestions, history, IInv, StoredOK
<1>3. \A t \in Suggs : [sugg[t] EXCEPT !.status = "archived"] \in Rows
  BY <1>1 DEF Rows
<1>4. sugg' \in [Suggs -> Rows]
  BY <1>1, <1>3 DEF ArchiveSuggestions, Moved
<1>5. ASSUME NEW t \in Suggs PROVE SuggestionOK(t)'
  <2>1. \/ sugg'[t] = sugg[t]
        \/ /\ sugg[t].rec = session[u].id
           /\ sugg'[t] = [sugg[t] EXCEPT !.status = "archived"]
    BY DEF ArchiveSuggestions, Moved
  <2>2. SuggestionOK(t)
    BY DEF IInv
  <2>3. CASE sugg'[t] = sugg[t]
    BY <1>2, <2>2, <2>3 DEF SuggestionOK
  <2>4. CASE /\ sugg[t].rec = session[u].id
             /\ sugg'[t] = [sugg[t] EXCEPT !.status = "archived"]
    BY <1>1, <1>2, <2>2, <2>4 DEF SuggestionOK, Rows
  <2> QED BY <2>1, <2>3, <2>4
<1>6. Become(u, Away) /\ session[u].at \notin Transactional
  BY DEF ArchiveSuggestions, Redirect, At, Transactional
<1>7. Away.at \notin Transactional \cup {"linkSuggestions", "archive"} /\ Away.lines \subseteq posted
  BY DEF Away, Transactional
<1> QED BY <1>2, <1>4, <1>5, <1>6, <1>7, AwayTyped, QuietUser

LEMMA CrashInv == ASSUME IInv, NEW u \in Users, Crash(u) PROVE IInv'
  BY Ending DEF Crash

-----------------------------------------------------------------------------
LEMMA StepInv == ASSUME IInv, [Next]_vars PROVE IInv'
<1>1. CASE UNCHANGED vars
  <2>1. sugg' \in [Suggs -> Rows] /\ \A t \in Suggs : SuggestionOK(t)'
    BY <1>1, SameSuggestions DEF vars
  <2>2. UNCHANGED <<posted, recOf, rec, lastId, draft, session, buttons, overlaps>>
    BY <1>1 DEF vars
  <2>3. session \in [Users -> Sessions] /\ draft \subseteq posted
    BY DEF IInv, TypeOK, Sessions, StoredOK
  <2> QED BY <2>1, <2>2, <2>3, Quiet
<1>2. ASSUME NEW l \in Lines, Post(l) PROVE IInv'
  BY <1>2, Posting DEF Post, history
<1>3. ASSUME NEW u \in Users, Submit(u) PROVE IInv'
  BY <1>3, FinishInv, CheckDifferenceInv, InsertInv, LinkInv, LinkSuggestionsInv, DeleteDraftInv
     DEF Submit
<1>4. ASSUME NEW u \in Users, VoidReconciliation(u) PROVE IInv'
  BY <1>4, LoadInv, CountNewerInv, FreeInv, ArchiveInv DEF VoidReconciliation
<1> QED BY <1>1, <1>2, <1>3, <1>4, BrowseInv, MatchInv, CrashInv DEF Next

(* The invariant of the page, the transactions and the tables.             *)
THEOREM Invariance == Spec => []IInv
  BY InitInv, StepInv, PTL DEF Spec

(* Every value is of its kind, and every request at a place of its handler. *)
THEOREM ReconcileTypeCorrect == Spec => []TypeOK
<1>1. IInv => TypeOK
  BY DEF IInv
<1> QED BY <1>1, Invariance, PTL

(* "Reconciliation may only complete when difference == 0": the statement  *)
(* of an active reconciliation, written by a transaction that overlapped   *)
(* no other one, agrees with its lines for as long as it is active.        *)
THEOREM StatementsStayBalanced == Spec => []StatementsBalance
<1>1. IInv => StatementsBalance
  BY DEF IInv, BalancedFor, Counted, StatementsBalance
<1> QED BY <1>1, Invariance, PTL

-----------------------------------------------------------------------------
\* One step of the two action properties.
LineFollows(l) ==
  recOf[l] # 0 =>
    recOf'[l] = IF rec[recOf[l]].status = "active" /\ rec'[recOf[l]].status = "voided"
                THEN 0 ELSE recOf[l]

SuggestionKept(s) ==
  /\ sugg'[s].status # sugg[s].status => <<sugg[s].status, sugg'[s].status>> \in Lifecycle
  /\ sugg[s].rec # 0 => sugg'[s].rec = sugg[s].rec
  /\ sugg'[s].status = "archived" => rec[sugg[s].rec].status = "voided"

LEMMA StepFollows == ASSUME IInv, [Next]_vars, NEW l \in Lines PROVE LineFollows(l)
<1> SUFFICES ASSUME recOf[l] # 0
             PROVE  recOf'[l] = IF rec[recOf[l]].status = "active" /\ rec'[recOf[l]].status = "voided"
                                THEN 0 ELSE recOf[l]
  BY DEF LineFollows
<1>1. recOf[l] \in Ids /\ rec[recOf[l]].status = "active"
  BY ReconcileAssumption DEF IInv, StoredOK, TypeOK, Ids
<1>2. CASE UNCHANGED <<recOf, rec>>
  BY <1>1, <1>2
<1>3. ASSUME NEW u \in Users, LinkAndCommit(u)
      PROVE  recOf'[l] = recOf[l] /\ rec'[recOf[l]] = rec[recOf[l]]
  <2>1. session[u].id \in Ids /\ rec[session[u].id].status = "none"
    BY <1>3, ReconcileAssumption DEF LinkAndCommit, At, IInv, SessionOK, TypeOK, Ids
  <2> QED BY <1>1, <1>3, <2>1 DEF LinkAndCommit, Linkable, IInv, TypeOK
<1>4. ASSUME NEW u \in Users, FreeAndCommit(u)
      PROVE  IF recOf[l] = session[u].id
             THEN recOf'[l] = 0 /\ rec'[recOf[l]].status = "voided"
             ELSE recOf'[l] = recOf[l] /\ rec'[recOf[l]] = rec[recOf[l]]
  <2>1. rec \in [Ids -> Records]
    BY DEF IInv, TypeOK, Records
  <2>2. recOf'[l] = IF recOf[l] = session[u].id THEN 0 ELSE recOf[l]
    BY <1>4 DEF FreeAndCommit, FreedBy
  <2>3. rec' = [rec EXCEPT ![session[u].id].status = "voided"]
    BY <1>4 DEF FreeAndCommit
  <2>4. CASE recOf[l] = session[u].id
    BY <1>1, <2>1, <2>2, <2>3, <2>4 DEF Records
  <2>5. CASE recOf[l] # session[u].id
    BY <1>1, <2>1, <2>2, <2>3, <2>5
  <2> QED BY <2>4, <2>5
<1>5. \/ UNCHANGED <<recOf, rec>>
      \/ \E u \in Users : LinkAndCommit(u) \/ FreeAndCommit(u)
  <2>1. ASSUME NEW u \in Users, Browse(u) PROVE UNCHANGED <<recOf, rec>>
    BY <2>1 DEF Browse, tables, DiscardDraft, Leave, SaveDraft, CreateReconcileSetupEntries, Show
  <2>2. ASSUME NEW u \in Users, Match(u) PROVE UNCHANGED <<recOf, rec>>
    BY <2>2 DEF Match, tables, AutoMatch, EndAutoMatch, MergeIntoDraft, AcceptSuggestion,
                RejectSuggestion, Suggest
  <2>3. ASSUME NEW u \in Users, Submit(u) PROVE LinkAndCommit(u) \/ UNCHANGED <<recOf, rec>>
    BY <2>3 DEF Submit, tables, Finish, CheckDifference, InsertReconciliation,
                LinkSuggestionsToReconciliation, DeleteReconcileDraft
  <2>4. ASSUME NEW u \in Users, VoidReconciliation(u)
        PROVE  FreeAndCommit(u) \/ UNCHANGED <<recOf, rec>>
    BY <2>4 DEF VoidReconciliation, tables, LoadReconciliation, CountNewer, ArchiveSuggestions
  <2> QED BY <2>1, <2>2, <2>3, <2>4 DEF Next, vars, tables, Post, Crash
<1> QED BY <1>1, <1>2, <1>3, <1>4, <1>5

LEMMA MovedIsKept ==
  ASSUME IInv, NEW S \in SUBSET Suggs, NEW before, NEW after, <<before, after>> \in Lifecycle,
         sugg' = Moved(S, before, after),
         after = "archived" => \A s \in S : rec[sugg[s].rec].status = "voided",
         NEW t \in Suggs
  PROVE  SuggestionKept(t)
<1>1. sugg \in [Suggs -> Rows] /\ SuggestionOK(t)
  BY DEF IInv, TypeOK, Rows
<1>2. CASE t \in S /\ sugg[t].status = before
  <2>1. sugg'[t] = [sugg[t] EXCEPT !.status = after]
    BY <1>2 DEF Moved
  <2>2. sugg'[t].status = after /\ sugg'[t].rec = sugg[t].rec
    BY <1>1, <2>1 DEF Rows
  <2> QED BY <1>2, <2>2 DEF SuggestionKept
<1>3. CASE ~(t \in S /\ sugg[t].status = before)
  <2>1. sugg'[t] = sugg[t]
    BY <1>3 DEF Moved
  <2> QED BY <1>1, <2>1 DEF SuggestionKept, SuggestionOK
<1> QED BY <1>2, <1>3

LEMMA StepKeeps == ASSUME IInv, [Next]_vars, NEW t \in Suggs PROVE SuggestionKept(t)
<1>1. sugg \in [Suggs -> Rows] /\ SuggestionOK(t)
  BY DEF IInv, TypeOK, Rows
<1>2. CASE UNCHANGED sugg
  BY <1>1, <1>2 DEF SuggestionKept, SuggestionOK
<1>3. ASSUME NEW u \in Users, AutoMatch(u) PROVE SuggestionKept(t)
  BY <1>3, MovedIsKept, <<"pending", "expired">> \in Lifecycle DEF AutoMatch, Lifecycle
<1>4. ASSUME NEW u \in Users, NEW s \in Suggs, AcceptSuggestion(u, s) PROVE SuggestionKept(t)
  BY <1>4, MovedIsKept, <<"pending", "accepted">> \in Lifecycle DEF AcceptSuggestion, Lifecycle
<1>5. ASSUME NEW u \in Users, NEW s \in Suggs, RejectSuggestion(u, s) PROVE SuggestionKept(t)
  BY <1>5, MovedIsKept, <<"pending", "rejected">> \in Lifecycle DEF RejectSuggestion, Lifecycle
<1>6. ASSUME NEW u \in Users, ArchiveSuggestions(u) PROVE SuggestionKept(t)
  <2> DEFINE S == {s \in Suggs : sugg[s].rec = session[u].id}
  <2>1. \A s \in S : rec[sugg[s].rec].status = "voided"
    BY <1>6 DEF ArchiveSuggestions, At, IInv, SessionOK
  <2>2. sugg' = Moved(S, "accepted", "archived") /\ S \in SUBSET Suggs
    BY <1>6 DEF ArchiveSuggestions
  <2>3. <<"accepted", "archived">> \in Lifecycle
    BY DEF Lifecycle
  <2> HIDE DEF S
  <2> QED BY <2>1, <2>2, <2>3, MovedIsKept
<1>7. ASSUME NEW u \in Users, LinkSuggestionsToReconciliation(u) PROVE SuggestionKept(t)
  <2>1. IF sugg[t].status = "accepted" /\ sugg[t].rec = 0
        THEN sugg'[t] = [sugg[t] EXCEPT !.rec = session[u].id] ELSE sugg'[t] = sugg[t]
    BY <1>7 DEF LinkSuggestionsToReconciliation
  <2>2. sugg'[t].status = sugg[t].status /\ (sugg[t].rec # 0 => sugg'[t].rec = sugg[t].rec)
    BY <1>1, <2>1 DEF Rows
  <2> QED BY <1>1, <2>2 DEF SuggestionKept, SuggestionOK
<1>8. ASSUME NEW u \in Users, NEW s \in Suggs, NEW found \in Matches, NEW lines \in SUBSET Lines,
             Suggest(u, s, found, lines)
      PROVE  SuggestionKept(t)
  <2>1. CASE t = s
    <3>1. sugg[t].status = "none" /\ sugg'[t].status = "pending" /\ sugg[t].rec = 0
      BY <1>1, <1>8, <2>1 DEF Suggest, SuggestionOK
    <3> QED BY <3>1 DEF SuggestionKept, Lifecycle
  <2>2. CASE t # s
    BY <1>1, <1>8, <2>2 DEF Suggest, SuggestionKept, SuggestionOK
  <2> QED BY <2>1, <2>2
<1>9. \/ UNCHANGED sugg
      \/ \E u \in Users :
           \/ AutoMatch(u) \/ ArchiveSuggestions(u) \/ LinkSuggestionsToReconciliation(u)
           \/ \E s \in Suggs : AcceptSuggestion(u, s) \/ RejectSuggestion(u, s)
           \/ \E s \in Suggs, found \in Matches, lines \in SUBSET Lines : Suggest(u, s, found, lines)
  BY DEF Next, vars, tables, Post, Browse, Match, Submit, VoidReconciliation, Crash,
         DiscardDraft, Leave, SaveDraft, CreateReconcileSetupEntries, Show,
         EndAutoMatch, MergeIntoDraft, Finish, CheckDifference, InsertReconciliation,
         LinkAndCommit, DeleteReconcileDraft, LoadReconciliation, CountNewer, FreeAndCommit
<1> QED BY <1>2, <1>3, <1>4, <1>5, <1>6, <1>7, <1>8, <1>9

(* A line that is reconciled stays with its reconciliation until this one  *)
(* is voided, and is free then (the UPDATEs of banking_handlers.go:781 and *)
(* banking.go:284).                                                        *)
THEOREM LinesStay == Spec => LinesFollowTheirReconciliation
<1>1. IInv /\ [Next]_vars => [\A l \in Lines : LineFollows(l)]_vars
  BY StepFollows
<1>2. [\A l \in Lines : LineFollows(l)]_vars =>
        [\A l \in Lines : recOf[l] # 0 =>
           recOf'[l] = IF rec[recOf[l]].status = "active" /\ rec'[recOf[l]].status = "voided"
                       THEN 0 ELSE recOf[l]]_vars
  BY DEF LineFollows
<1> QED BY <1>1, <1>2, Invariance, PTL DEF Spec, LinesFollowTheirReconciliation

(* "Suggestion status lifecycle": what one user answers is not overwritten *)
(* by another's answer, a run of the engine or a late request.             *)
THEOREM AnswersStay == Spec => SuggestionsKeepTheirAnswer
<1>1. IInv /\ [Next]_vars => [\A s \in Suggs : SuggestionKept(s)]_vars
  BY StepKeeps
<1>2. [\A s \in Suggs : SuggestionKept(s)]_vars =>
        [\A s \in Suggs :
           /\ sugg'[s].status # sugg[s].status => <<sugg[s].status, sugg'[s].status>> \in Lifecycle
           /\ sugg[s].rec # 0 => sugg'[s].rec = sugg[s].rec
           /\ sugg'[s].status = "archived" => rec[sugg[s].rec].status = "voided"]_vars
  BY DEF SuggestionKept
<1> QED BY <1>1, <1>2, Invariance, PTL DEF Spec, SuggestionsKeepTheirAnswer
=============================================================================
