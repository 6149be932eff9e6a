-------------------------- MODULE ReportCacheProofs --------------------------
(***************************************************************************)
(* How old a report may be, for any number of readers, reports and         *)
(* postings, whatever handlers flush and whatever the cache evicts.        *)
(*                                                                         *)
(* NotOlder(report, k, t): the report counts every posting made before t.  *)
(* An entry carries that for the moment TTL + MaxFill before it expires,   *)
(* and a reader takes it over part by part.                                *)
(*                                                                         *)
(* The list is in the order of the expiries because the clock does not run *)
(* back: what is stored now expires last.  What stays of it when entries   *)
(* go is shown to keep its order by embedding it into the list it was.     *)
(***************************************************************************)
EXTENDS ReportCache, SumLemmas

Reports == [Parts -> SUBSET Postings]
Entries == [report : Reports, expires : Int]
Stages  == {"idle", "check", "copy", "compute", "set", "shown"}
Positions == [at : Stages, key : Keys \cup {None}, held : Entries,
              report : Reports, left : SUBSET Parts, time : Nat]

Typed ==
  /\ now \in Nat
  /\ posted \in [Postings -> Nat \cup {None}]
  /\ flushed \in [Postings -> Nat \cup {None}]
  /\ entry \in [Keys -> Entries]
  /\ reader \in [Readers -> Positions]

Ordered ==
  \A j \in Postings :
    /\ posted[j] # None => posted[j] <= now
    /\ flushed[j] # None => flushed[j] <= now

NotOlder(report, k, t) ==
  \A j \in Postings : Misses(report, k, j) => t <= posted[j]

Oldest(e) == e.expires - TTL - MaxFill

EntryOK(k) ==
  /\ entry[k].expires <= now + TTL
  /\ NotOlder(entry[k].report, k, Oldest(entry[k]))
  /\ entry[k] # NoEntry =>
       \A j \in Postings : Books[j] = Company[k] /\ flushed[j] # None =>
                             flushed[j] + TTL <= entry[k].expires

\* What the reader has copied so far.
CopiedOK(r) ==
  \A j \in Postings, p \in Parts \ reader[r].left :
    /\ Books[j] = Company[reader[r].key]
    /\ posted[j] # None /\ j \notin reader[r].report[p]
    => reader[r].time <= posted[j] + MaxFill + TTL

ReaderOK(r) ==
  /\ reader[r].time <= now
  /\ reader[r].at # "idle" => reader[r].key \in Keys
  /\ reader[r].held.expires <= now + TTL
  /\ reader[r].at \in {"check", "copy"} =>
       NotOlder(reader[r].held.report, reader[r].key, Oldest(reader[r].held))
  /\ reader[r].at = "copy" =>
       reader[r].time <= Found(r).expires /\ CopiedOK(r)
  /\ reader[r].at = "set" =>
       /\ now <= reader[r].time + MaxFill
       /\ NotOlder(reader[r].report, reader[r].key, reader[r].time)
  /\ reader[r].at = "shown" =>
       NotOlder(reader[r].report, reader[r].key, reader[r].time - TTL - MaxFill)

IInv ==
  /\ Typed
  /\ Ordered
  /\ \A k \in Keys : EntryOK(k)
  /\ \A r \in Readers : ReaderOK(r)

----------------------------------------------------------------------------
LEMMA NoEntryTyped == NoEntry \in Entries /\ NoEntry.expires = -1 /\ Idle \in Positions
<1>1. NoEntry \in Entries
  BY DEF NoEntry, Entries, Reports, NoReport
<1>2. NoReport \in Reports
  BY DEF NoReport, Reports
<1> QED
  BY <1>1, <1>2 DEF Idle, Positions, Stages, NoEntry

\* Before anything is posted the empty cache is up to date.
LEMMA InitIInv == Init => IInv
<1> SUFFICES ASSUME Init PROVE IInv
  OBVIOUS
<1>1. NoEntry \in Entries /\ Idle \in Positions
  BY NoEntryTyped
<1>2. Typed
  BY <1>1, CacheAssumption DEF Init, Typed
<1>3. Ordered
  BY CacheAssumption DEF Init, Ordered
<1>4. ASSUME NEW k \in Keys PROVE EntryOK(k)
  BY CacheAssumption DEF Init, EntryOK, NotOlder, Misses, NoEntry
<1>5. ASSUME NEW r \in Readers PROVE ReaderOK(r)
  BY CacheAssumption DEF Init, ReaderOK, Idle, NoEntry
<1> QED
  BY <1>2, <1>3, <1>4, <1>5 DEF IInv

\* A step of one reader that leaves clock, ledger and cache alone.
LEMMA OneReader ==
  ASSUME IInv, NEW r \in Readers, NEW d \in Positions,
         reader' = [reader EXCEPT ![r] = d],
         UNCHANGED <<now, posted, flushed, entry>>,
         ReaderOK(r)'
  PROVE  IInv'
<1>1. Typed'
  BY DEF IInv, Typed
<1>2. Ordered' /\ \A k \in Keys : EntryOK(k)'
  BY DEF IInv, Ordered, EntryOK, NotOlder, Misses
<1>3. ASSUME NEW s \in Readers PROVE ReaderOK(s)'
  <2>1. CASE s = r
    BY <2>1
  <2>2. CASE s # r
    <3>1. reader'[s] = reader[s]
      BY <2>2 DEF IInv, Typed
    <3> QED
      BY <3>1 DEF IInv, ReaderOK, NotOlder, Misses, Found, CopiedOK
  <2> QED
    BY <2>1, <2>2
<1> QED
  BY <1>1, <1>2, <1>3 DEF IInv

\* An entry that leaves the map stays with the readers that found it.
LEMMA DetachedTyped ==
  ASSUME Typed, NEW gone \in SUBSET Keys
  PROVE  /\ Detached(gone) \in [Readers -> Positions]
         /\ \A r \in Readers :
              /\ Detached(gone)[r].at = reader[r].at
              /\ Detached(gone)[r].key = reader[r].key
              /\ Detached(gone)[r].report = reader[r].report
              /\ Detached(gone)[r].left = reader[r].left
              /\ Detached(gone)[r].time = reader[r].time
BY DEF Typed, Detached, Positions

LEMMA DetachedOK ==
  ASSUME IInv, NEW gone \in SUBSET Keys, NEW r \in Readers,
         reader'[r] = Detached(gone)[r],
         UNCHANGED <<now, posted>>, entry' \in [Keys -> Entries],
         \A k \in Keys \ gone :
           entry[k] # NoEntry => entry'[k].expires >= entry[k].expires
  PROVE  ReaderOK(r)'
<1> DEFINE d == reader[r]
<1>1. /\ d \in Positions /\ ReaderOK(r) /\ Typed
      /\ now \in Nat /\ TTL \in Nat /\ MaxFill \in Nat
  BY CacheAssumption DEF IInv, Typed
<1>2. CASE d.at \in {"check", "copy"} /\ d.key \in gone /\ d.held = NoEntry
  <2>1. reader'[r] = [d EXCEPT !.held = entry[d.key]]
    BY <1>2 DEF Detached
  <2>2. d.key \in Keys /\ EntryOK(d.key) /\ entry[d.key] \in Entries
    BY <1>2 DEF IInv, Typed
  <2>3. /\ reader'[r].held = entry[d.key] /\ reader'[r].at = d.at
        /\ reader'[r].key = d.key /\ reader'[r].time = d.time
        /\ reader'[r].report = d.report /\ reader'[r].left = d.left
    BY <2>1, <1>1 DEF Positions
  <2>4. d.at = "copy" => Found(r)'.expires = Found(r).expires
    <3>1. Found(r) = entry[d.key]
      BY <1>2 DEF Found
    <3>2. SUFFICES ASSUME d.at = "copy" PROVE entry[d.key] # NoEntry
      BY <3>1, <2>3 DEF Found
    <3> QED
      BY <3>1, <3>2, <1>1 DEF ReaderOK, NoEntry, Positions
  <2>5. d.at = "copy" => CopiedOK(r)'
    BY <2>3, <1>1 DEF ReaderOK, CopiedOK
  <2>6. \A j \in Postings :
          /\ Books[j] = Company[d.key] /\ posted'[j] # None
          /\ \E p \in Parts : j \notin reader'[r].held.report[p]
          => reader'[r].held.expires - TTL - MaxFill <= posted'[j]
    BY <2>2, <2>3 DEF EntryOK, NotOlder, Misses, Oldest
  <2>7. NotOlder(reader[r].held.report, reader[r].key, Oldest(reader[r].held))'
    BY <2>3, <2>6 DEF NotOlder, Misses, Oldest
  <2> QED
    BY <1>1, <1>2, <2>2, <2>3, <2>4, <2>5, <2>7
    DEF ReaderOK, EntryOK, NotOlder, Misses, Oldest
<1>3. CASE ~(d.at \in {"check", "copy"} /\ d.key \in gone /\ d.held = NoEntry)
  <2>1. reader'[r] = reader[r]
    BY <1>3 DEF Detached
  <2>2. d.at = "copy" => d.time <= Found(r)'.expires
    <3> SUFFICES ASSUME d.at = "copy" PROVE d.time <= Found(r)'.expires
      OBVIOUS
    <3>1. d.time <= Found(r).expires /\ d.key \in Keys /\ d.time \in Nat
      BY <1>1 DEF ReaderOK, Positions
    <3>2. CASE d.held # NoEntry
      BY <3>1, <3>2, <2>1 DEF Found
    <3>3. CASE d.held = NoEntry
      <4>1. Found(r) = entry[d.key] /\ Found(r)' = entry'[d.key]
        BY <3>3, <2>1 DEF Found
      <4>2. entry[d.key] # NoEntry
        BY <4>1, <3>1 DEF NoEntry
      <4>3. entry'[d.key].expires >= entry[d.key].expires
        BY <4>2, <3>1, <3>3, <1>3
      <4>4. entry[d.key].expires \in Int /\ entry'[d.key].expires \in Int
        BY <3>1, <1>1 DEF Typed, Entries
      <4>5. entry[d.key].expires >= d.time
        BY <4>1, <3>1
      <4> QED
        BY <4>1, <4>3, <4>5, <4>4, <3>1
    <3> QED
      BY <3>2, <3>3
  <2> QED
    BY <2>1, <2>2, <1>1 DEF ReaderOK, CopiedOK, NotOlder, Misses
<1> QED
  BY <1>2, <1>3

----------------------------------------------------------------------------
\* The steps of a reader that touch nothing but its own state.
LEMMA GetStep ==
  ASSUME IInv, NEW r \in Readers, NEW k \in Keys, Get(r, k)
  PROVE  IInv'
<1> DEFINE d == [Idle EXCEPT !.at = IF entry[k] = NoEntry THEN "compute" ELSE "check",
                             !.key = k]
<1>1. d \in Positions
  BY NoEntryTyped DEF Positions, Stages
<1>2. /\ reader' = [reader EXCEPT ![r] = d] /\ reader'[r] = d
      /\ UNCHANGED <<now, posted, flushed, entry>>
  BY DEF Get, cache, IInv, Typed
<1>3. /\ d.at \in {"check", "compute"} /\ d.key = k /\ d.time = 0
      /\ d.held = NoEntry
  BY DEF Idle
<1>4. ReaderOK(r)'
  BY <1>2, <1>3, CacheAssumption
  DEF IInv, Typed, ReaderOK, NotOlder, Misses, Oldest, NoEntry
<1> QED
  BY <1>1, <1>2, <1>4, OneReader

LEMMA CheckExpiryStep ==
  ASSUME IInv, NEW r \in Readers, CheckExpiry(r)
  PROVE  IInv'
<1>1. /\ reader[r] \in Positions /\ ReaderOK(r) /\ now \in Nat
      /\ reader[r].at = "check" /\ reader[r].key \in Keys
      /\ entry[reader[r].key] \in Entries
  BY DEF IInv, Typed, CheckExpiry, ReaderOK
<1>2. UNCHANGED <<now, posted, flushed, entry>>
  BY DEF CheckExpiry, cache
<1>3. CASE Expired(Found(r), now)
  <2> DEFINE d == [reader[r] EXCEPT !.at = "compute", !.held = NoEntry]
  <2>1. d \in Positions
    BY <1>1, NoEntryTyped DEF Positions, Stages
  <2>2. reader' = [reader EXCEPT ![r] = d] /\ reader'[r] = d
    BY <1>3 DEF CheckExpiry, IInv, Typed
  <2>3. /\ d.at = "compute" /\ d.held = NoEntry
        /\ d.key = reader[r].key /\ d.time = reader[r].time
    BY <1>1 DEF Positions
  <2> HIDE DEF d
  <2>4. ReaderOK(r)'
    BY <1>1, <1>2, <2>2, <2>3, NoEntryTyped, CacheAssumption DEF ReaderOK
  <2> QED
    BY <1>2, <2>1, <2>2, <2>4, OneReader
<1>4. CASE ~Expired(Found(r), now)
  <2> DEFINE d == [reader[r] EXCEPT !.at = "copy", !.left = Parts, !.time = now]
  <2>1. d \in Positions
    BY <1>1 DEF Positions, Stages
  <2>2. reader' = [reader EXCEPT ![r] = d] /\ reader'[r] = d
    BY <1>4 DEF CheckExpiry, IInv, Typed
  <2>3. /\ d.at = "copy" /\ d.held = reader[r].held /\ d.key = reader[r].key
        /\ d.left = Parts /\ d.time = now
    BY <1>1 DEF Positions
  <2>4. Found(r)' = Found(r) /\ Found(r).expires \in Int
    BY <1>1, <1>2, <2>2, <2>3 DEF Found, Positions, Entries
  <2>5. now <= Found(r).expires
    BY <1>1, <1>4, <2>4 DEF Expired
  <2>6. CopiedOK(r)'
    BY <2>2, <2>3 DEF CopiedOK
  <2>7. ReaderOK(r)'
    BY <1>1, <1>2, <2>2, <2>3, <2>4, <2>5, <2>6
    DEF ReaderOK, NotOlder, Misses, Oldest
  <2> QED
    BY <1>2, <2>1, <2>2, <2>7, OneReader
<1> QED
  BY <1>3, <1>4

LEMMA CopyPartStep ==
  ASSUME IInv, NEW r \in Readers, NEW p \in Parts, CopyPart(r, p)
  PROVE  IInv'
<1> DEFINE b == reader[r]
           last == b.left = {p}
           d == [b EXCEPT !.report[p] = Found(r).report[p], !.left = @ \ {p},
                          !.at = IF last THEN "shown" ELSE "copy",
                          !.held = IF last THEN NoEntry ELSE @]
<1>1. /\ b \in Positions /\ ReaderOK(r) /\ now \in Nat
      /\ b.at = "copy" /\ b.key \in Keys /\ p \in b.left
      /\ entry[b.key] \in Entries /\ EntryOK(b.key)
      /\ b.time \in Nat /\ TTL \in Nat /\ MaxFill \in Nat
  BY CacheAssumption DEF IInv, Typed, CopyPart, ReaderOK, Positions
<1>2. UNCHANGED <<now, posted, flushed, entry>>
  BY DEF CopyPart, cache
<1>3. Found(r) \in Entries
  BY <1>1 DEF Found, Positions
<1>4. d \in Positions
  BY <1>1, <1>3, NoEntryTyped DEF Positions, Entries, Reports, Stages
<1>5. reader' = [reader EXCEPT ![r] = d] /\ reader'[r] = d
  BY <1>1 DEF CopyPart, IInv, Typed
<1>6. /\ d.at = (IF last THEN "shown" ELSE "copy")
      /\ d.held = (IF last THEN NoEntry ELSE b.held)
      /\ d.key = b.key /\ d.time = b.time /\ d.left = b.left \ {p}
      /\ d.report = [b.report EXCEPT ![p] = Found(r).report[p]]
  BY <1>1 DEF Positions
<1>7. ASSUME NEW j \in Postings, NEW q \in Parts \ d.left,
             Books[j] = Company[b.key], posted[j] # None, j \notin d.report[q]
      PROVE  b.time <= posted[j] + MaxFill + TTL
  <2>1. posted[j] \in Nat
    BY <1>7 DEF IInv, Typed
  <2>2. CASE q = p
    <3>1. j \notin Found(r).report[p]
      BY <1>6, <1>7, <1>1, <2>2 DEF Positions, Reports
    <3>2. NotOlder(Found(r).report, b.key, Oldest(Found(r)))
      BY <1>1 DEF Found, ReaderOK, EntryOK
    <3>3. Oldest(Found(r)) <= posted[j]
      BY <3>1, <3>2, <1>7 DEF NotOlder, Misses
    <3>4. b.time <= Found(r).expires /\ Found(r).expires \in Int
      BY <1>1, <1>3 DEF ReaderOK, Entries
    <3> QED
      BY <3>3, <3>4, <2>1, <1>1 DEF Oldest
  <2>3. CASE q # p
    <3>1. q \in Parts \ b.left /\ j \notin b.report[q]
      BY <1>6, <1>7, <1>1, <2>3 DEF Positions, Reports
    <3> QED
      BY <3>1, <1>1, <1>7 DEF ReaderOK, CopiedOK
  <2> QED
    BY <2>2, <2>3
<1> HIDE DEF d
<1>8. CASE last
  <2>1. d.at = "shown" /\ d.held = NoEntry /\ d.left = {}
    BY <1>6, <1>8
  <2>2. NotOlder(d.report, b.key, b.time - TTL - MaxFill)
    <3> SUFFICES ASSUME NEW j \in Postings, Misses(d.report, b.key, j)
                 PROVE  b.time - TTL - MaxFill <= posted[j]
      BY DEF NotOlder
    <3>1. b.time <= posted[j] + MaxFill + TTL /\ posted[j] \in Nat
      BY <1>7, <2>1 DEF Misses, IInv, Typed
    <3> QED
      BY <3>1, <1>1
  <2>3. NotOlder(reader[r].report, reader[r].key, reader[r].time - TTL - MaxFill)'
    BY <1>2, <1>5, <1>6, <2>2 DEF NotOlder, Misses
  <2>4. ReaderOK(r)'
    <3>1. /\ reader'[r].at = "shown" /\ reader'[r].key = b.key
          /\ reader'[r].time = b.time /\ reader'[r].held.expires = -1
      BY <1>5, <1>6, <2>1, NoEntryTyped
    <3>2. b.time <= now
      BY <1>1 DEF ReaderOK
    <3> QED
      BY <1>1, <1>2, <2>3, <3>1, <3>2 DEF ReaderOK
  <2> QED
    BY <1>2, <1>4, <1>5, <2>4, OneReader
<1>9. CASE ~last
  <2>1. d.at = "copy" /\ d.held = b.held
    BY <1>6, <1>9
  <2>2. Found(r)' = Found(r)
    BY <1>2, <1>5, <1>6, <2>1 DEF Found
  <2>3. CopiedOK(r)'
    BY <1>2, <1>5, <1>6, <1>7 DEF CopiedOK
  <2>4. ReaderOK(r)'
    BY <1>1, <1>2, <1>5, <1>6, <2>1, <2>2, <2>3 DEF ReaderOK, NotOlder, Misses, Oldest
  <2> QED
    BY <1>2, <1>4, <1>5, <2>4, OneReader
<1> QED
  BY <1>8, <1>9

LEMMA ComputeStep ==
  ASSUME IInv, NEW r \in Readers, Compute(r)
  PROVE  IInv'
<1> DEFINE b == reader[r]
           d == [b EXCEPT !.at = "set", !.time = now,
                          !.report = [p \in Parts |-> Posted(Company[b.key])]]
<1>1. /\ b \in Positions /\ ReaderOK(r) /\ now \in Nat
      /\ b.at = "compute" /\ b.key \in Keys /\ MaxFill \in Nat
  BY CacheAssumption DEF IInv, Typed, Compute, ReaderOK
<1>2. UNCHANGED <<now, posted, flushed, entry>>
  BY DEF Compute, cache
<1>3. d \in Positions
  BY <1>1 DEF Positions, Reports, Stages, Posted
<1>4. reader' = [reader EXCEPT ![r] = d] /\ reader'[r] = d
  BY DEF Compute, IInv, Typed
<1>5. /\ d.at = "set" /\ d.time = now /\ d.key = b.key /\ d.held = b.held
      /\ \A p \in Parts : d.report[p] = Posted(Company[b.key])
  BY <1>1 DEF Positions
<1> HIDE DEF d
<1>6. \A j \in Postings : ~Misses(d.report, b.key, j)
  BY <1>5 DEF Misses, Posted
<1>7. ReaderOK(r)'
  BY <1>1, <1>2, <1>4, <1>5, <1>6 DEF ReaderOK, NotOlder, Misses
<1> QED
  BY <1>2, <1>3, <1>4, <1>7, OneReader

LEMMA IdleStep ==
  ASSUME IInv, NEW r \in Readers, ComputeFails(r) \/ Finish(r)
  PROVE  IInv'
<1>1. UNCHANGED <<now, posted, flushed, entry>>
  BY DEF ComputeFails, Finish, cache
<1>2. reader' = [reader EXCEPT ![r] = Idle] /\ reader'[r] = Idle
  BY DEF ComputeFails, Finish, IInv, Typed
<1>3. ReaderOK(r)'
  BY <1>1, <1>2, NoEntryTyped, CacheAssumption DEF ReaderOK, Idle, IInv, Typed, NoEntry
<1> QED
  BY <1>1, <1>2, <1>3, NoEntryTyped, OneReader

----------------------------------------------------------------------------
\* The steps that change the cache, the ledger or the clock.
LEMMA FillOK ==
  ASSUME IInv, NEW r \in Readers, reader[r].at = "set"
  PROVE  LET e == [report |-> reader[r].report, expires |-> now + TTL] IN
         /\ e \in Entries /\ e # NoEntry /\ e.expires = now + TTL
         /\ reader[r].key \in Keys
         /\ NotOlder(e.report, reader[r].key, Oldest(e))
         /\ \A j \in Postings : flushed[j] # None => flushed[j] + TTL <= e.expires
<1> DEFINE b == reader[r]
           e == [report |-> b.report, expires |-> now + TTL]
<1>1. /\ b \in Positions /\ ReaderOK(r) /\ b.at = "set" /\ now \in Nat
      /\ TTL \in Nat /\ MaxFill \in Nat /\ b.time \in Nat
  BY CacheAssumption DEF IInv, Typed, Positions
<1>2. e \in Entries /\ e # NoEntry /\ e.expires = now + TTL /\ b.key \in Keys
  BY <1>1, NoEntryTyped DEF Positions, Entries, ReaderOK
<1>3. NotOlder(b.report, b.key, b.time) /\ now <= b.time + MaxFill
  BY <1>1 DEF ReaderOK
<1>4. NotOlder(e.report, b.key, Oldest(e))
  <2>1. e.report = b.report /\ Oldest(e) = now - MaxFill
    BY <1>1, <1>2 DEF Oldest
  <2> SUFFICES ASSUME NEW j \in Postings, Misses(b.report, b.key, j)
               PROVE  now - MaxFill <= posted[j]
    BY <2>1 DEF NotOlder
  <2>2. posted[j] \in Nat /\ b.time <= posted[j]
    BY <1>3 DEF NotOlder, Misses, IInv, Typed
  <2> QED
    BY <2>2, <1>1, <1>3
<1>5. \A j \in Postings : flushed[j] # None => flushed[j] + TTL <= e.expires
  BY <1>1 DEF IInv, Typed, Ordered
<1> QED
  BY <1>2, <1>4, <1>5

LEMMA SetIsRecent ==
  ASSUME IInv, NEW r \in Readers, reader[r].at = "set"
  PROVE  NotOlder(reader[r].report, reader[r].key, reader[r].time - TTL - MaxFill)
<1> SUFFICES ASSUME NEW j \in Postings, Misses(reader[r].report, reader[r].key, j)
             PROVE  reader[r].time - TTL - MaxFill <= posted[j]
  BY DEF NotOlder
<1>1. reader[r].time <= posted[j] /\ posted[j] \in Nat /\ reader[r].time \in Nat
  BY DEF ReaderOK, NotOlder, Misses, IInv, Typed, Positions
<1> QED
  BY <1>1, CacheAssumption

LEMMA GoneOK ==
  ASSUME IInv, NEW k \in Keys, entry'[k] = NoEntry, UNCHANGED now,
         posted' \in [Postings -> Nat \cup {None}]
  PROVE  EntryOK(k)'
<1>1. now \in Nat /\ TTL \in Nat /\ MaxFill \in Nat /\ entry'[k].expires = -1
  BY CacheAssumption, NoEntryTyped DEF IInv, Typed
<1>2. \A j \in Postings : posted'[j] # None => -1 - TTL - MaxFill <= posted'[j]
  BY <1>1
<1> QED
  BY <1>1, <1>2 DEF EntryOK, NotOlder, Misses, Oldest

LEMMA SetNewStep ==
  ASSUME IInv, NEW r \in Readers, SetNew(r)
  PROVE  IInv'
<1> DEFINE b == reader[r]
           out == Overflow(<<b.key>> \o lru) \cap Keys
           e == [report |-> b.report, expires |-> now + TTL]
<1>1. b \in Positions /\ ReaderOK(r) /\ b.at = "set" /\ now \in Nat /\ TTL \in Nat
  BY CacheAssumption DEF IInv, Typed, SetNew
<1>2. /\ e \in Entries /\ e # NoEntry /\ e.expires = now + TTL /\ b.key \in Keys
      /\ NotOlder(e.report, b.key, Oldest(e))
      /\ \A j \in Postings : flushed[j] # None => flushed[j] + TTL <= e.expires
  BY <1>1, FillOK
<1>3. UNCHANGED <<now, posted, flushed>> /\ entry[b.key] = NoEntry
  BY DEF SetNew
<1> HIDE DEF e
<1>4. \A k \in Keys : entry'[k] = (IF k \in out THEN NoEntry
                                   ELSE IF k = b.key THEN e ELSE entry[k])
  BY DEF SetNew, e
<1>5. entry' \in [Keys -> Entries]
  <2>1. entry' = [k \in Keys |-> entry'[k]]
    BY DEF SetNew
  <2> QED
    BY <1>2, <1>4, <2>1, NoEntryTyped DEF IInv, Typed
<1>6. /\ Detached(out) \in [Readers -> Positions]
      /\ reader' = [Detached(out) EXCEPT ![r].at = "shown"]
      /\ Detached(out)[r] = b
  <2> DEFINE o == Overflow(<<b.key>> \o lru)
  <2> HIDE DEF o
  <2>1. Detached(o) = Detached(o \cap Keys)
    BY DEF Detached, IInv, ReaderOK
  <2> QED
    BY <1>1, <2>1, DetachedTyped DEF SetNew, Detached, IInv, o
<1>7. Typed'
  BY <1>3, <1>5, <1>6 DEF IInv, Typed, Positions, Stages
<1>8. Ordered'
  BY <1>3 DEF IInv, Ordered
<1>9. ASSUME NEW k \in Keys PROVE EntryOK(k)'
  <2>1. CASE k \in out
    BY <1>3, <1>4, <2>1, GoneOK DEF IInv, Typed
  <2>2. CASE k \notin out /\ k = b.key
    BY <1>1, <1>2, <1>3, <1>4, <2>2 DEF EntryOK, NotOlder, Misses, Oldest
  <2>3. CASE k \notin out /\ k # b.key
    BY <1>3, <1>4, <2>3 DEF IInv, EntryOK, NotOlder, Misses, Oldest
  <2> QED
    BY <2>1, <2>2, <2>3
<1>10. ASSUME NEW s \in Readers PROVE ReaderOK(s)'
  <2>1. CASE s # r
    <3>1. reader'[s] = Detached(out)[s]
      BY <1>6, <2>1
    <3>2. \A k \in Keys \ out : entry[k] # NoEntry => entry'[k].expires >= entry[k].expires
      BY <1>3, <1>4 DEF IInv, Typed, Entries
    <3> QED
      BY <1>3, <1>5, <3>1, <3>2, DetachedOK
  <2>2. CASE s = r
    <3>1. /\ reader'[r].at = "shown" /\ reader'[r].key = b.key
          /\ reader'[r].report = b.report /\ reader'[r].time = b.time
          /\ reader'[r].held = b.held
      BY <1>1, <1>6 DEF Positions
    <3>2. NotOlder(b.report, b.key, b.time - TTL - MaxFill)
      BY <1>1, SetIsRecent
    <3>3. NotOlder(reader[r].report, reader[r].key, reader[r].time - TTL - MaxFill)'
      BY <1>3, <3>1, <3>2 DEF NotOlder, Misses
    <3> QED
      BY <1>1, <1>2, <1>3, <3>1, <3>3, <2>2 DEF ReaderOK
  <2> QED
    BY <2>1, <2>2
<1> QED
  BY <1>7, <1>8, <1>9, <1>10 DEF IInv

LEMMA SetOldStep ==
  ASSUME IInv, NEW r \in Readers, SetOld(r)
  PROVE  IInv'
<1> DEFINE b == reader[r]
           e == [report |-> b.report, expires |-> now + TTL]
<1>1. b \in Positions /\ ReaderOK(r) /\ b.at = "set" /\ now \in Nat /\ TTL \in Nat
  BY CacheAssumption DEF IInv, Typed, SetOld
<1>2. /\ e \in Entries /\ e # NoEntry /\ e.expires = now + TTL /\ b.key \in Keys
      /\ NotOlder(e.report, b.key, Oldest(e))
      /\ \A j \in Postings : flushed[j] # None => flushed[j] + TTL <= e.expires
  BY <1>1, FillOK
<1>3. /\ UNCHANGED <<now, posted, flushed>>
      /\ entry' = [entry EXCEPT ![b.key] = e]
      /\ reader' = [reader EXCEPT ![r].at = "shown"]
  BY DEF SetOld
<1> HIDE DEF e
<1>4. entry' \in [Keys -> Entries]
  BY <1>2, <1>3 DEF IInv, Typed
<1>5. \A k \in Keys : entry'[k] = IF k = b.key THEN e ELSE entry[k]
  BY <1>3 DEF IInv, Typed
<1>6. Typed' /\ Ordered'
  BY <1>3, <1>4 DEF IInv, Typed, Ordered, Positions, Stages
<1>7. ASSUME NEW k \in Keys PROVE EntryOK(k)'
  <2>1. CASE k = b.key
    BY <1>1, <1>2, <1>3, <1>5, <2>1 DEF EntryOK, NotOlder, Misses, Oldest
  <2>2. CASE k # b.key
    BY <1>3, <1>5, <2>2 DEF IInv, EntryOK, NotOlder, Misses, Oldest
  <2> QED
    BY <2>1, <2>2
<1>8. ASSUME NEW s \in Readers PROVE ReaderOK(s)'
  <2>1. CASE s # r
    <3>1. reader'[s] = Detached({})[s]
      BY <1>3, <2>1 DEF Detached, IInv, Typed
    <3>2. \A k \in Keys : entry'[k].expires >= entry[k].expires
      BY <1>1, <1>2, <1>5 DEF IInv, Typed, Entries, EntryOK
    <3> QED
      BY <1>3, <1>4, <3>1, <3>2, DetachedOK
  <2>2. CASE s = r
    <3>1. /\ reader'[r].at = "shown" /\ reader'[r].key = b.key
          /\ reader'[r].report = b.report /\ reader'[r].time = b.time
          /\ reader'[r].held = b.held
      BY <1>1, <1>3 DEF Positions, IInv, Typed
    <3>2. NotOlder(b.report, b.key, b.time - TTL - MaxFill)
      BY <1>1, SetIsRecent
    <3>3. NotOlder(reader[r].report, reader[r].key, reader[r].time - TTL - MaxFill)'
      BY <1>3, <3>1, <3>2 DEF NotOlder, Misses
    <3> QED
      BY <1>1, <1>2, <1>3, <3>1, <3>3, <2>2 DEF ReaderOK
  <2> QED
    BY <2>1, <2>2
<1> QED
  BY <1>6, <1>7, <1>8 DEF IInv

\* Entries leave the map; a posting that is flushed now takes all of its company.
LEMMA RemoveStep ==
  ASSUME IInv, NEW gone \in SUBSET Keys, Remove(gone), UNCHANGED <<now, posted>>,
         flushed' \in [Postings -> Nat \cup {None}],
         \A j \in Postings :
           \/ flushed'[j] = flushed[j]
           \/ /\ flushed'[j] = now
              /\ \A k \in Keys : Company[k] = Books[j] => k \in gone
  PROVE  IInv'
<1>1. /\ entry' \in [Keys -> Entries]
      /\ \A k \in Keys : entry'[k] = IF k \in gone THEN NoEntry ELSE entry[k]
  BY NoEntryTyped DEF Remove, IInv, Typed
<1>2. reader' = Detached(gone) /\ reader' \in [Readers -> Positions]
  BY DetachedTyped DEF Remove, IInv
<1>3. Typed' /\ Ordered'
  BY <1>1, <1>2 DEF IInv, Typed, Ordered
<1>4. ASSUME NEW k \in Keys PROVE EntryOK(k)'
  <2>1. CASE k \in gone
    BY <1>1, <1>3, <2>1, GoneOK DEF Typed
  <2>2. CASE k \notin gone
    <3>1. entry'[k] = entry[k] /\ EntryOK(k)
      BY <1>1, <2>2 DEF IInv
    <3>2. \A j \in Postings : Books[j] = Company[k] => flushed'[j] = flushed[j]
      BY <2>2
    <3> QED
      BY <3>1, <3>2 DEF EntryOK, NotOlder, Misses, Oldest
  <2> QED
    BY <2>1, <2>2
<1>5. ASSUME NEW r \in Readers PROVE ReaderOK(r)'
  <2>1. \A k \in Keys \ gone : entry[k] # NoEntry => entry'[k].expires >= entry[k].expires
    BY <1>1 DEF IInv, Typed, Entries
  <2> QED
    BY <1>1, <1>2, <2>1, DetachedOK
<1> QED
  BY <1>3, <1>4, <1>5 DEF IInv

LEMMA InvalidateCompanyStep ==
  ASSUME IInv, NEW j \in Postings, InvalidateCompany(j)
  PROVE  IInv'
<1>1. /\ Prefixed(Books[j]) \in SUBSET Keys /\ Remove(Prefixed(Books[j]))
      /\ UNCHANGED <<now, posted>> /\ flushed' = [flushed EXCEPT ![j] = now]
  BY DEF InvalidateCompany, Prefixed
<1>2. /\ flushed' \in [Postings -> Nat \cup {None}]
      /\ \A i \in Postings : flushed'[i] = IF i = j THEN now ELSE flushed[i]
  BY <1>1 DEF IInv, Typed
<1>3. \A k \in Keys : Company[k] = Books[j] => k \in Prefixed(Books[j])
  BY DEF Prefixed
<1> QED
  BY <1>1, <1>2, <1>3, RemoveStep

LEMMA EvictExpiredStep ==
  ASSUME IInv, EvictExpired
  PROVE  IInv'
<1>1. PICK t \in 0..now :
        Remove({k \in Keys : entry[k] # NoEntry /\ Expired(entry[k], t)})
  BY DEF EvictExpired
<1>2. UNCHANGED <<now, posted, flushed>> /\ flushed \in [Postings -> Nat \cup {None}]
  BY DEF EvictExpired, IInv, Typed
<1> QED
  BY <1>1, <1>2, RemoveStep

\* What is posted now is as new as anything: no bound is lost.
LEMMA PostStep ==
  ASSUME IInv, NEW j \in Postings, Post(j)
  PROVE  IInv'
<1>1. /\ now \in Nat /\ TTL \in Nat /\ MaxFill \in Nat
      /\ posted' = [posted EXCEPT ![j] = now]
      /\ UNCHANGED <<now, flushed, entry, reader>>
  BY CacheAssumption DEF Post, cache, IInv, Typed
<1>2. /\ posted' \in [Postings -> Nat \cup {None}]
      /\ \A i \in Postings : posted'[i] = IF i = j THEN now ELSE posted[i]
  BY <1>1 DEF IInv, Typed
<1>3. Typed' /\ Ordered'
  BY <1>1, <1>2 DEF IInv, Typed, Ordered
<1>4. ASSUME NEW report, NEW k \in Keys, NEW t \in Int, t <= now, NotOlder(report, k, t)
      PROVE  \A i \in Postings :
               Books[i] = Company[k] /\ posted'[i] # None /\ (\E p \in Parts : i \notin report[p])
                 => t <= posted'[i]
  BY <1>2, <1>4 DEF NotOlder, Misses
<1>5. ASSUME NEW k \in Keys PROVE EntryOK(k)'
  <2>1. EntryOK(k) /\ Oldest(entry[k]) \in Int /\ Oldest(entry[k]) <= now
    BY <1>1 DEF IInv, Typed, Entries, EntryOK, Oldest
  <2>2. NotOlder(entry[k].report, k, Oldest(entry[k]))'
    BY <1>1, <1>4, <2>1 DEF EntryOK, NotOlder, Misses, Oldest
  <2> QED
    BY <1>1, <2>1, <2>2 DEF EntryOK
<1>6. ASSUME NEW r \in Readers PROVE ReaderOK(r)'
  <2> DEFINE b == reader[r]
  <2>1. b \in Positions /\ ReaderOK(r)
    BY DEF IInv, Typed
  <2>2. /\ b.time \in Nat /\ b.time <= now /\ b.held.expires \in Int
        /\ b.held.expires <= now + TTL
    BY <2>1 DEF Positions, Entries, ReaderOK
  <2>3. b.at \in {"check", "copy"} =>
          NotOlder(reader[r].held.report, reader[r].key, Oldest(reader[r].held))'
    <3>1. Oldest(b.held) \in Int /\ Oldest(b.held) <= now
      BY <1>1, <2>2 DEF Oldest
    <3> QED
      BY <1>1, <1>4, <2>1, <3>1 DEF ReaderOK, NotOlder, Misses, Oldest
  <2>4. b.at = "copy" => reader[r].time <= Found(r)'.expires /\ CopiedOK(r)'
    BY <1>1, <1>2, <2>1, <2>2 DEF ReaderOK, CopiedOK, Found
  <2>5. b.at = "set" => NotOlder(reader[r].report, reader[r].key, reader[r].time)'
    BY <1>1, <1>4, <2>1, <2>2 DEF ReaderOK, NotOlder, Misses
  <2>6. b.at = "shown" =>
          NotOlder(reader[r].report, reader[r].key, reader[r].time - TTL - MaxFill)'
    <3>1. b.time - TTL - MaxFill \in Int /\ b.time - TTL - MaxFill <= now
      BY <1>1, <2>2
    <3> QED
      BY <1>1, <1>4, <2>1, <3>1 DEF ReaderOK, NotOlder, Misses
  <2> QED
    BY <1>1, <2>1, <2>3, <2>4, <2>5, <2>6 DEF ReaderOK
<1> QED
  BY <1>3, <1>5, <1>6 DEF IInv

LEMMA TickStep ==
  ASSUME IInv, Tick
  PROVE  IInv'
<1>1. /\ now \in Nat /\ now' = now + 1 /\ TTL \in Nat /\ MaxFill \in Nat
      /\ UNCHANGED <<posted, flushed, entry, reader>>
      /\ \A r \in Readers : reader[r].at = "set" => now < reader[r].time + MaxFill
  BY CacheAssumption DEF Tick, cache, IInv, Typed
<1>2. Typed' /\ Ordered'
  BY <1>1 DEF IInv, Typed, Ordered
<1>3. ASSUME NEW k \in Keys PROVE EntryOK(k)'
  BY <1>1 DEF IInv, Typed, Entries, EntryOK, NotOlder, Misses, Oldest
<1>4. ASSUME NEW r \in Readers PROVE ReaderOK(r)'
  <2>1. reader[r] \in Positions /\ ReaderOK(r)
    BY DEF IInv, Typed
  <2>2. /\ reader[r].time \in Nat /\ reader[r].held.expires \in Int
    BY <2>1 DEF Positions, Entries
  <2> QED
    BY <1>1, <2>1, <2>2 DEF ReaderOK, NotOlder, Misses, CopiedOK, Found, Oldest
<1> QED
  BY <1>2, <1>3, <1>4 DEF IInv

----------------------------------------------------------------------------
LEMMA NextIInv == IInv /\ [Next]_vars => IInv'
<1> SUFFICES ASSUME IInv, [Next]_vars PROVE IInv'
  OBVIOUS
<1>1. ASSUME NEW r \in Readers, Read(r) PROVE IInv'
  BY <1>1, GetStep, CheckExpiryStep, CopyPartStep, ComputeStep, IdleStep,
     SetNewStep, SetOldStep DEF Read
<1>2. CASE UNCHANGED vars
  BY <1>2 DEF vars, IInv, Typed, Ordered, EntryOK, ReaderOK, CopiedOK, Found,
              NotOlder, Misses, Oldest
<1> QED
  BY <1>1, <1>2, PostStep, InvalidateCompanyStep, EvictExpiredStep, TickStep DEF Next

\* The inductive invariant of the cache: an entry, and what a reader took of
\* it, counts every posting older than TTL + MaxFill before it expires.
THEOREM Invariance == Spec => []IInv
BY InitIInv, NextIInv, PTL DEF Spec

\* ReportAcceleration: whichever handlers forget to invalidate, and however a
\* read outside the lock is torn, no report misses a posting older than
\* TTL + MaxFill.
THEOREM ReportsAreRecent == Spec => []ShownIsRecent
<1>1. IInv => ShownIsRecent
  <2> SUFFICES ASSUME IInv, NEW r \in Readers, NEW j \in Postings,
                      reader[r].at = "shown",
                      Misses(reader[r].report, reader[r].key, j)
               PROVE  reader[r].time <= posted[j] + MaxFill + TTL
    BY DEF ShownIsRecent
  <2>1. /\ posted[j] \in Nat /\ reader[r].time \in Nat
        /\ TTL \in Nat /\ MaxFill \in Nat
    BY CacheAssumption DEF Misses, IInv, Typed, Positions
  <2>2. reader[r].time - TTL - MaxFill <= posted[j]
    BY DEF IInv, ReaderOK, NotOlder
  <2> QED
    BY <2>1, <2>2
<1> QED
  BY <1>1, Invariance, PTL

\* TTLCache and InvalidateCompany: a cached report that misses a posting was
\* stored within MaxFill of it and after its flush.
THEOREM StaleFillsOvertookTheFlush == Spec => []MissesOnlyOvertaken
<1>1. IInv => MissesOnlyOvertaken
  <2> SUFFICES ASSUME IInv, NEW k \in Keys, NEW j \in Postings,
                      entry[k] # NoEntry, Misses(entry[k].report, k, j)
               PROVE  /\ entry[k].expires - TTL <= posted[j] + MaxFill
                      /\ flushed[j] # None => flushed[j] <= entry[k].expires - TTL
    BY DEF MissesOnlyOvertaken
  <2>1. /\ posted[j] \in Nat /\ entry[k].expires \in Int
        /\ flushed[j] # None => flushed[j] \in Nat
        /\ TTL \in Nat /\ MaxFill \in Nat
    BY CacheAssumption DEF Misses, IInv, Typed, Entries
  <2>2. entry[k].expires - TTL - MaxFill <= posted[j]
    BY DEF IInv, EntryOK, NotOlder, Oldest
  <2>3. flushed[j] # None => flushed[j] + TTL <= entry[k].expires
    BY DEF IInv, EntryOK, Misses
  <2> QED
    BY <2>1, <2>2, <2>3
<1> QED
  BY <1>1, Invariance, PTL

----------------------------------------------------------------------------
(* The list: what stays when keys go is what was there, in its order.      *)
KeepsTo(kept, s, ks, n) ==
  kept = [i \in 0..n |->
            IF i = 0 THEN <<>>
            ELSE IF s[i] \in ks THEN kept[i - 1] ELSE Append(kept[i - 1], s[i])]

LEMMA KeptIsChosen ==
  ASSUME NEW s, NEW ks
  PROVE  Without(s, ks) = (CHOOSE kept : KeepsTo(kept, s, ks, Len(s)))[Len(s)]
BY DEF Without, KeepsTo

LEMMA KeepsExtend ==
  ASSUME NEW s, NEW ks, NEW n \in Nat, NEW g, KeepsTo(g, s, ks, n)
  PROVE  \E h : KeepsTo(h, s, ks, n + 1)
<1> DEFINE h == [i \in 0..(n + 1) |->
                   IF i = 0 THEN <<>>
                   ELSE IF s[i] \in ks THEN g[i - 1] ELSE Append(g[i - 1], s[i])]
<1>1. \A i \in 0..n : h[i] = g[i]
  <2> SUFFICES ASSUME NEW i \in 0..n PROVE h[i] = g[i]
    OBVIOUS
  <2>1. h[i] = IF i = 0 THEN <<>>
               ELSE IF s[i] \in ks THEN g[i - 1] ELSE Append(g[i - 1], s[i])
    OBVIOUS
  <2>2. g[i] = IF i = 0 THEN <<>>
               ELSE IF s[i] \in ks THEN g[i - 1] ELSE Append(g[i - 1], s[i])
    BY DEF KeepsTo
  <2> HIDE DEF h
  <2> QED BY <2>1, <2>2
<1>2. \A i \in 0..(n + 1) : i # 0 => h[i - 1] = g[i - 1]
  <2> HIDE DEF h
  <2> QED BY <1>1
<1>3. KeepsTo(h, s, ks, n + 1)
  BY <1>2 DEF KeepsTo
<1> QED BY <1>3

LEMMA KeepsExist ==
  ASSUME NEW s, NEW ks, NEW n \in Nat
  PROVE  \E g : KeepsTo(g, s, ks, n)
<1> DEFINE G == {i \in Nat : \E g : KeepsTo(g, s, ks, i)}
<1>1. 0 \in G
  <2>1. KeepsTo([i \in 0..0 |-> <<>>], s, ks, 0)
    BY DEF KeepsTo
  <2> QED BY <2>1
<1>2. \A i \in Nat : i \in G => i + 1 \in G
  BY KeepsExtend
<1>3. n \in G
  <2> HIDE DEF G
  <2> QED BY <1>1, <1>2, NatInductive
<1> QED BY <1>3

(* t is what stays of the first n elements of s.                           *)
At(e, s, ks, t, n) ==
  /\ e \in [1..Len(t) -> 1..n]
  /\ \A i \in 1..Len(t) : t[i] = s[e[i]] /\ t[i] \notin ks
  /\ \A i, j \in 1..Len(t) : i < j => e[i] < e[j]
  /\ \A j \in 1..n : s[j] \notin ks => \E i \in 1..Len(t) : e[i] = j

Stays(s, ks, t, n) ==
  /\ Len(t) <= n
  /\ \A j \in 1..n : s[j] \in ks => Len(t) < n
  /\ \E e : At(e, s, ks, t, n)

LEMMA StaysNext ==
  ASSUME NEW K, NEW s \in Seq(K), NEW ks, NEW n \in Nat, n + 1 <= Len(s),
         NEW t \in Seq(K), Stays(s, ks, t, n),
         NEW u, u = IF s[n + 1] \in ks THEN t ELSE Append(t, s[n + 1])
  PROVE  u \in Seq(K) /\ Stays(s, ks, u, n + 1)
<1>1. PICK e : At(e, s, ks, t, n)
  BY DEF Stays
<1>2. Len(t) \in Nat /\ Len(t) <= n /\ n + 1 \in 1..Len(s)
  BY DEF Stays
<1>3. CASE s[n + 1] \in ks
  <2>1. u = t /\ At(e, s, ks, u, n + 1)
    BY <1>1, <1>2, <1>3 DEF At
  <2> QED BY <1>2, <2>1 DEF Stays
<1>4. CASE s[n + 1] \notin ks
  <2> DEFINE m == Len(t)
             f == [i \in 1..(m + 1) |-> IF i = m + 1 THEN n + 1 ELSE e[i]]
  <2>1. u = Append(t, s[n + 1]) /\ s[n + 1] \in K
    BY <1>2, <1>4
  <2>2. u \in Seq(K) /\ Len(u) = m + 1
    BY <2>1
  <2>3. \A i \in 1..(m + 1) : u[i] = IF i = m + 1 THEN s[n + 1] ELSE t[i]
    BY <2>1
  <2>4. f \in [1..(m + 1) -> 1..(n + 1)]
    BY <1>1, <1>2 DEF At
  <2>5. \A i \in 1..(m + 1) : u[i] = s[f[i]] /\ u[i] \notin ks
    BY <1>1, <1>2, <1>4, <2>3 DEF At
  <2>6. \A i, j \in 1..(m + 1) : i < j => f[i] < f[j]
    <3> SUFFICES ASSUME NEW i \in 1..(m + 1), NEW j \in 1..(m + 1), i < j
                 PROVE  f[i] < f[j]
      OBVIOUS
    <3>1. i \in 1..m /\ e[i] \in 1..n /\ f[i] = e[i]
      BY <1>1, <1>2 DEF At
    <3>2. j \in 1..m => e[j] \in 1..n /\ e[i] < e[j]
      BY <1>1, <3>1 DEF At
    <3>3. f[j] = IF j = m + 1 THEN n + 1 ELSE e[j]
      OBVIOUS
    <3> HIDE DEF f
    <3> QED BY <1>2, <3>1, <3>2, <3>3
  <2>7. \A j \in 1..(n + 1) : s[j] \notin ks => \E i \in 1..(m + 1) : f[i] = j
    <3> SUFFICES ASSUME NEW j \in 1..(n + 1), s[j] \notin ks
                 PROVE  \E i \in 1..(m + 1) : f[i] = j
      OBVIOUS
    <3>1. CASE j = n + 1
      <4>1. f[m + 1] = j
        BY <1>2, <3>1
      <4> QED BY <4>1, <1>2
    <3>2. CASE j # n + 1
      <4>1. PICK i \in 1..m : e[i] = j
        BY <1>1, <1>2, <3>2 DEF At
      <4>2. i \in 1..(m + 1) /\ f[i] = j
        BY <1>2, <4>1
      <4> QED BY <4>2
    <3> QED BY <3>1, <3>2
  <2>8. At(f, s, ks, u, n + 1)
    <3> HIDE DEF f, m
    <3> QED BY <2>2, <2>4, <2>5, <2>6, <2>7 DEF At
  <2>9. \A j \in 1..(n + 1) : s[j] \in ks => m + 1 < n + 1
    BY <1>2, <1>4 DEF Stays
  <2>10. m + 1 <= n + 1
    BY <1>2
  <2> HIDE DEF f, m
  <2> QED BY <2>2, <2>8, <2>9, <2>10 DEF Stays
<1> QED BY <1>3, <1>4

LEMMA Remains ==
  ASSUME NEW K, NEW s \in Seq(K), NEW ks
  PROVE  Without(s, ks) \in Seq(K) /\ Stays(s, ks, Without(s, ks), Len(s))
<1> DEFINE g == CHOOSE kept : KeepsTo(kept, s, ks, Len(s))
           G == {i \in Nat : i <= Len(s) => g[i] \in Seq(K) /\ Stays(s, ks, g[i], i)}
<1>1. KeepsTo(g, s, ks, Len(s)) /\ Len(s) \in Nat
  BY KeepsExist
<1> HIDE DEF g
<1>2. 0 \in G
  <2>1. g[0] = <<>>
    BY <1>1 DEF KeepsTo
  <2>2. At([i \in 1..0 |-> 0], s, ks, <<>>, 0)
    BY DEF At
  <2>3. Stays(s, ks, <<>>, 0)
    BY <2>2 DEF Stays
  <2>4. <<>> \in Seq(K)
    OBVIOUS
  <2> QED BY <2>1, <2>3, <2>4
<1>3. ASSUME NEW n \in Nat, n \in G PROVE n + 1 \in G
  <2>1. SUFFICES ASSUME n + 1 <= Len(s)
                 PROVE  g[n + 1] \in Seq(K) /\ Stays(s, ks, g[n + 1], n + 1)
    OBVIOUS
  <2>2. g[n] \in Seq(K) /\ Stays(s, ks, g[n], n)
    BY <1>1, <1>3, <2>1
  <2>3. g[n + 1] = IF s[n + 1] \in ks THEN g[n] ELSE Append(g[n], s[n + 1])
    <3>1. n + 1 \in 0..Len(s) /\ n + 1 # 0 /\ (n + 1) - 1 = n
      BY <1>1, <2>1
    <3>2. \A i \in 0..Len(s) : i # 0 =>
            g[i] = IF s[i] \in ks THEN g[i - 1] ELSE Append(g[i - 1], s[i])
      BY <1>1 DEF KeepsTo
    <3> QED BY <3>1, <3>2
  <2> HIDE DEF G
  <2> QED BY <2>1, <2>2, <2>3, StaysNext
<1>4. Len(s) \in G
  <2> HIDE DEF G
  <2> QED BY <1>1, <1>2, <1>3, NatInductive
<1>5. Without(s, ks) = g[Len(s)]
  BY KeptIsChosen DEF g
<1> QED BY <1>1, <1>4, <1>5

(* The list of a cache with the given entries: its keys, each once, in the *)
(* order of their expiry, which is the order of the last writes.           *)
Listed(s, rows) ==
  /\ s \in Seq(Keys)
  /\ \A k \in Keys : rows[k] # NoEntry <=> \E i \in 1..Len(s) : s[i] = k
  /\ \A i, j \in 1..Len(s) : i < j =>
       s[i] # s[j] /\ rows[s[i]].expires >= rows[s[j]].expires

Shorter(t, s, ks) ==
  /\ Len(t) <= Len(s)
  /\ \A j \in 1..Len(s) : s[j] \in ks => Len(t) < Len(s)

Loses(rest, rows, ks) == \A k \in Keys : rest[k] = IF k \in ks THEN NoEntry ELSE rows[k]

Gains(more, rows, k, e) == \A x \in Keys : more[x] = IF x = k THEN e ELSE rows[x]

LEMMA ListedWithout ==
  ASSUME NEW s, NEW rows, Listed(s, rows), NEW ks, NEW rest,
         Loses(rest, rows, ks)
  PROVE  Listed(Without(s, ks), rest) /\ Shorter(Without(s, ks), s, ks)
<1>1. PICK t : t = Without(s, ks)
  OBVIOUS
<1>2. s \in Seq(Keys) /\ t \in Seq(Keys) /\ Stays(s, ks, t, Len(s))
  BY <1>1, Remains DEF Listed
<1>3. PICK e : At(e, s, ks, t, Len(s))
  BY <1>2 DEF Stays
<1>4. \A i \in 1..Len(t) : /\ e[i] \in 1..Len(s) /\ t[i] = s[e[i]] /\ t[i] \notin ks
                           /\ t[i] \in Keys /\ rest[t[i]] = rows[t[i]]
  BY <1>2, <1>3 DEF At, Loses
<1>5. \A i, j \in 1..Len(t) : i < j => t[i] # t[j] /\ rest[t[i]].expires >= rest[t[j]].expires
  <2> SUFFICES ASSUME NEW i \in 1..Len(t), NEW j \in 1..Len(t), i < j
               PROVE  t[i] # t[j] /\ rest[t[i]].expires >= rest[t[j]].expires
    OBVIOUS
  <2>1. e[i] < e[j]
    BY <1>3 DEF At
  <2>2. /\ e[i] \in 1..Len(s) /\ t[i] = s[e[i]] /\ rest[t[i]] = rows[t[i]]
        /\ e[j] \in 1..Len(s) /\ t[j] = s[e[j]] /\ rest[t[j]] = rows[t[j]]
    BY <1>4
  <2>3. s[e[i]] # s[e[j]] /\ rows[s[e[i]]].expires >= rows[s[e[j]]].expires
    BY <2>1, <2>2 DEF Listed
  <2> QED BY <2>2, <2>3
<1>6. ASSUME NEW k \in Keys PROVE rest[k] # NoEntry <=> \E i \in 1..Len(t) : t[i] = k
  <2>1. ASSUME rest[k] # NoEntry PROVE \E i \in 1..Len(t) : t[i] = k
    <3>1. k \notin ks /\ rows[k] # NoEntry
      BY <2>1 DEF Loses
    <3>2. PICK j \in 1..Len(s) : s[j] = k
      BY <3>1 DEF Listed
    <3>3. PICK i \in 1..Len(t) : e[i] = j
      BY <1>3, <3>1, <3>2 DEF At
    <3> QED BY <1>4, <3>2, <3>3
  <2>2. ASSUME NEW i \in 1..Len(t), t[i] = k PROVE rest[k] # NoEntry
    <3>1. s[e[i]] = k /\ e[i] \in 1..Len(s) /\ rest[k] = rows[k]
      BY <1>4, <2>2
    <3> QED BY <3>1 DEF Listed
  <2> QED BY <2>1, <2>2
<1>7. Listed(t, rest)
  BY <1>2, <1>5, <1>6 DEF Listed
<1> QED BY <1>1, <1>2, <1>7 DEF Stays, Shorter

LEMMA ListedFront ==
  ASSUME NEW s, NEW rows, Listed(s, rows), NEW k \in Keys, rows[k] = NoEntry,
         NEW e, e # NoEntry, e.expires \in Int,
         \A x \in Keys : rows[x].expires \in Int /\ rows[x].expires <= e.expires,
         NEW more, Gains(more, rows, k, e)
  PROVE  Listed(<<k>> \o s, more) /\ Len(<<k>> \o s) = Len(s) + 1
<1>1. PICK t : t = <<k>> \o s
  OBVIOUS
<1>2. s \in Seq(Keys) /\ Len(s) \in Nat
  BY DEF Listed
<1>3. t \in Seq(Keys) /\ Len(t) = Len(s) + 1
  BY <1>1, <1>2
<1>4. \A i \in 1..Len(t) : t[i] = IF i = 1 THEN k ELSE s[i - 1]
  BY <1>1, <1>2
<1>5. \A i \in 1..Len(t) : i # 1 => i - 1 \in 1..Len(s) /\ t[i] = s[i - 1] /\ t[i] \in Keys
                                    /\ t[i] # k /\ more[t[i]] = rows[t[i]]
  <2> SUFFICES ASSUME NEW i \in 1..Len(t), i # 1
               PROVE  i - 1 \in 1..Len(s) /\ t[i] = s[i - 1] /\ t[i] \in Keys
                      /\ t[i] # k /\ more[t[i]] = rows[t[i]]
    OBVIOUS
  <2>1. i - 1 \in 1..Len(s) /\ t[i] = s[i - 1]
    BY <1>2, <1>3, <1>4
  <2>2. s[i - 1] # k /\ s[i - 1] \in Keys
    BY <1>2, <2>1 DEF Listed
  <2> QED BY <2>1, <2>2 DEF Gains
<1>6. ASSUME NEW i \in 1..Len(t), NEW j \in 1..Len(t), i < j
      PROVE  t[i] # t[j] /\ more[t[i]].expires >= more[t[j]].expires
  <2>1. j # 1 /\ j - 1 \in 1..Len(s) /\ t[j] = s[j - 1] /\ t[j] \in Keys
        /\ t[j] # k /\ more[t[j]] = rows[t[j]]
    BY <1>3, <1>5, <1>6
  <2>2. CASE i = 1
    BY <1>4, <2>1, <2>2 DEF Gains
  <2>3. CASE i # 1
    <3>1. i - 1 \in 1..Len(s) /\ t[i] = s[i - 1] /\ more[t[i]] = rows[t[i]]
      BY <1>5, <2>3
    <3>2. i - 1 < j - 1
      BY <1>3, <1>6
    <3> QED BY <2>1, <3>1, <3>2 DEF Listed
  <2> QED BY <2>2, <2>3
<1>7. ASSUME NEW x \in Keys PROVE more[x] # NoEntry <=> \E i \in 1..Len(t) : t[i] = x
  <2>1. CASE x = k
    <3>1. 1 \in 1..Len(t) /\ t[1] = k
      BY <1>2, <1>3, <1>4
    <3> QED BY <2>1, <3>1 DEF Gains
  <2>2. CASE x # k
    <3>1. ASSUME more[x] # NoEntry PROVE \E i \in 1..Len(t) : t[i] = x
      <4>1. PICK j \in 1..Len(s) : s[j] = x
        BY <2>2, <3>1 DEF Listed, Gains
      <4>2. j + 1 \in 1..Len(t) /\ t[j + 1] = x
        BY <1>2, <1>3, <1>4, <4>1
      <4> QED BY <4>2
    <3>2. ASSUME NEW i \in 1..Len(t), t[i] = x PROVE more[x] # NoEntry
      <4>1. i # 1
        BY <1>4, <2>2, <3>2
      <4>2. i - 1 \in 1..Len(s) /\ s[i - 1] = x /\ more[x] = rows[x]
        BY <1>5, <2>2, <3>2, <4>1 DEF Gains
      <4> QED BY <4>2 DEF Listed
    <3> QED BY <3>1, <3>2
  <2> QED BY <2>1, <2>2
<1>8. Listed(t, more)
  BY <1>3, <1>6, <1>7 DEF Listed
<1> QED BY <1>1, <1>3, <1>8

ListOK ==
  /\ Listed(lru, entry)
  /\ MaxEntries > 0 => Len(lru) <= MaxEntries

LEMMA ListInit == Init => ListOK
<1> SUFFICES ASSUME Init PROVE ListOK
  OBVIOUS
<1>1. lru = <<>> /\ \A k \in Keys : entry[k] = NoEntry
  BY DEF Init
<1>2. Len(lru) = 0 /\ lru \in Seq(Keys)
  BY <1>1
<1> QED BY <1>1, <1>2, CacheAssumption DEF ListOK, Listed

\* What a reader stores expires last of all.
LEMMA Latest ==
  ASSUME IInv, NEW r \in Readers, reader[r].at = "set",
         NEW e, e = [report |-> reader[r].report, expires |-> now + TTL]
  PROVE  /\ e # NoEntry /\ e.expires \in Int /\ reader[r].key \in Keys
         /\ \A x \in Keys : entry[x].expires \in Int /\ entry[x].expires <= e.expires
<1>1. reader[r] \in Positions /\ ReaderOK(r) /\ now \in Nat /\ TTL \in Nat
  BY CacheAssumption DEF IInv, Typed
<1>2. e.expires = now + TTL /\ reader[r].key \in Keys
  BY <1>1 DEF ReaderOK
<1>3. e # NoEntry
  BY <1>1, <1>2, NoEntryTyped
<1> QED BY <1>1, <1>2, <1>3 DEF IInv, Typed, EntryOK, Entries

LEMMA ListSetNew ==
  ASSUME IInv, ListOK, NEW r \in Readers, SetNew(r)
  PROVE  ListOK'
<1>1. PICK k : k = reader[r].key
  OBVIOUS
<1>2. PICK e : e = [report |-> reader[r].report, expires |-> now + TTL]
  OBVIOUS
<1>3. PICK list : list = <<k>> \o lru
  OBVIOUS
<1>4. PICK out : out = Overflow(list)
  OBVIOUS
<1>5. PICK rows : rows = [x \in Keys |-> IF x = k THEN e ELSE entry[x]]
  OBVIOUS
<1>6. /\ reader[r].at = "set" /\ entry[k] = NoEntry
      /\ lru' = Without(list, out)
      /\ Loses(entry', rows, out)
  BY <1>1, <1>2, <1>3, <1>4, <1>5 DEF SetNew, Loses
<1>7. /\ e # NoEntry /\ e.expires \in Int /\ k \in Keys
      /\ \A x \in Keys : entry[x].expires \in Int /\ entry[x].expires <= e.expires
  BY <1>1, <1>2, <1>6, Latest
<1>8. Gains(rows, entry, k, e)
  BY <1>5 DEF Gains
<1>9. Listed(list, rows) /\ Len(list) = Len(lru) + 1
  BY <1>3, <1>6, <1>7, <1>8, ListedFront DEF ListOK
<1>10. Listed(lru', entry') /\ Shorter(lru', list, out)
  BY <1>6, <1>9, ListedWithout
<1>11. ASSUME MaxEntries > 0 PROVE Len(lru') <= MaxEntries
  <2>1. Len(lru) \in Nat /\ Len(lru) <= MaxEntries /\ Len(lru') \in Nat
    BY <1>10, <1>11 DEF ListOK, Listed
  <2>2. CASE Len(list) > MaxEntries
    <3>1. list[Len(list)] \in out /\ Len(list) \in 1..Len(list)
      BY <1>4, <1>9, <1>11, <2>1, <2>2 DEF Overflow
    <3>2. Len(lru') < Len(list)
      BY <1>10, <3>1 DEF Shorter
    <3> QED BY <1>9, <2>1, <3>2, CacheAssumption
  <2>3. CASE ~(Len(list) > MaxEntries)
    <3>1. Len(lru') <= Len(list)
      BY <1>10 DEF Shorter
    <3> QED BY <1>9, <2>1, <2>3, <3>1, CacheAssumption
  <2> QED BY <2>2, <2>3
<1> QED BY <1>10, <1>11 DEF ListOK

LEMMA ListSetOld ==
  ASSUME IInv, ListOK, NEW r \in Readers, SetOld(r)
  PROVE  ListOK'
<1>1. PICK k : k = reader[r].key
  OBVIOUS
<1>2. PICK e : e = [report |-> reader[r].report, expires |-> now + TTL]
  OBVIOUS
<1>3. PICK rest : rest = [x \in Keys |-> IF x \in {k} THEN NoEntry ELSE entry[x]]
  OBVIOUS
<1>4. PICK s : s = Without(lru, {k})
  OBVIOUS
<1>5. /\ reader[r].at = "set" /\ entry[k] # NoEntry /\ lru' = <<k>> \o s
      /\ entry' = [entry EXCEPT ![k] = e]
  BY <1>1, <1>2, <1>4 DEF SetOld, MovedToFront
<1>6. /\ e # NoEntry /\ e.expires \in Int /\ k \in Keys
      /\ \A x \in Keys : entry[x].expires \in Int /\ entry[x].expires <= e.expires
  BY <1>1, <1>2, <1>5, Latest
<1>7. Loses(rest, entry, {k})
  BY <1>3 DEF Loses
<1>8. Listed(s, rest) /\ Shorter(s, lru, {k})
  BY <1>4, <1>7, ListedWithout DEF ListOK
<1>9. rest[k] = NoEntry /\ NoEntry.expires = -1
  BY <1>6, <1>7, NoEntryTyped DEF Loses
<1>10. \A x \in Keys : rest[x].expires \in Int /\ rest[x].expires <= e.expires
  <2>1. e.expires >= 0
    BY <1>2, CacheAssumption DEF IInv, Typed
  <2> QED BY <1>6, <1>7, <1>9, <2>1 DEF Loses
<1>11. Gains(entry', rest, k, e)
  BY <1>5, <1>7 DEF IInv, Typed, Loses, Gains
<1>12. Listed(lru', entry') /\ Len(lru') = Len(s) + 1
  BY <1>5, <1>6, <1>8, <1>9, <1>10, <1>11, ListedFront
<1>13. Len(lru') <= Len(lru)
  <2>1. PICK j \in 1..Len(lru) : lru[j] = k
    BY <1>5, <1>6 DEF ListOK, Listed
  <2>2. Len(s) < Len(lru) /\ Len(s) \in Nat /\ Len(lru) \in Nat
    BY <1>8, <2>1 DEF ListOK, Listed, Shorter
  <2> QED BY <1>12, <2>2
<1>14. Len(lru) \in Nat /\ Len(lru') \in Nat
  BY <1>12 DEF ListOK, Listed
<1> QED BY <1>12, <1>13, <1>14, CacheAssumption DEF ListOK

LEMMA ListRemove ==
  ASSUME ListOK, NEW gone, Remove(gone)
  PROVE  ListOK'
<1>1. /\ lru' = Without(lru, gone)
      /\ Loses(entry', entry, gone)
  BY DEF Remove, Loses
<1>2. Listed(lru', entry') /\ Len(lru') <= Len(lru)
  BY <1>1, ListedWithout DEF ListOK, Shorter
<1>3. Len(lru) \in Nat /\ Len(lru') \in Nat
  BY <1>2 DEF ListOK, Listed
<1> QED BY <1>2, <1>3, CacheAssumption DEF ListOK

LEMMA ListNext == IInv /\ ListOK /\ [Next]_vars => ListOK'
<1> SUFFICES ASSUME IInv, ListOK, [Next]_vars PROVE ListOK'
  OBVIOUS
<1>1. ASSUME UNCHANGED cache PROVE ListOK'
  BY <1>1 DEF cache, ListOK, Listed
<1>2. ASSUME NEW r \in Readers, Read(r) PROVE ListOK'
  <2>1. CASE SetNew(r)
    BY <2>1, ListSetNew
  <2>2. CASE SetOld(r)
    BY <2>2, ListSetOld
  <2>3. CASE ~SetNew(r) /\ ~SetOld(r)
    BY <1>1, <1>2, <2>3 DEF Read, Get, CheckExpiry, CopyPart, Compute, ComputeFails, Finish
  <2> QED BY <2>1, <2>2, <2>3
<1>3. ASSUME NEW j \in Postings, InvalidateCompany(j) PROVE ListOK'
  BY <1>3, ListRemove DEF InvalidateCompany
<1>4. ASSUME EvictExpired PROVE ListOK'
  <2>1. PICK t \in 0..now :
          Remove({k \in Keys : entry[k] # NoEntry /\ Expired(entry[k], t)})
    BY <1>4 DEF EvictExpired
  <2> QED BY <2>1, ListRemove
<1>5. ASSUME \/ UNCHANGED vars \/ Tick \/ \E j \in Postings : Post(j) PROVE ListOK'
  BY <1>1, <1>5 DEF vars, cache, Tick, Post
<1> QED BY <1>2, <1>3, <1>4, <1>5 DEF Next

\* TTLCache: map and list hold the same keys, no more than the cache may keep,
\* and what Set evicts is the entry that was written longest ago.
THEOREM CacheStaysCoherent == Spec => []CacheCoherent
<1>1. ListOK => CacheCoherent
  <2> SUFFICES ASSUME ListOK PROVE CacheCoherent
    OBVIOUS
  <2>1. DOMAIN lru = 1..Len(lru) /\ lru \in Seq(Keys)
    BY DEF ListOK, Listed
  <2>2. {lru[i] : i \in DOMAIN lru} = {k \in Keys : entry[k] # NoEntry}
    BY <2>1 DEF ListOK, Listed
  <2> QED BY <2>1, <2>2 DEF CacheCoherent, ListOK, Listed
<1> QED BY <1>1, ListInit, ListNext, Invariance, PTL DEF Spec
=============================================================================
