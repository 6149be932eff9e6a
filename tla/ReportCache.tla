----------------------------- MODULE ReportCache -----------------------------
(***************************************************************************)
(* A report cache: a TTLCache (internal/cache/cache.go) in front of the    *)
(* ledger (internal/web/report_acceleration.go).  There are two that share *)
(* nothing, for income statements and for receivables agings; this is      *)
(* either.  A reader looks its key up, and on a miss runs the report and   *)
(* stores it; a handler that changes the ledger flushes the company's      *)
(* reports afterwards, if it remembers to.                                 *)
(*                                                                         *)
(* What happens under the write lock is one step.  Get leaves the read     *)
(* lock before it looks at the entry, which Set may update in place        *)
(* meanwhile: the check of the expiry and the copy of each part are steps  *)
(* of their own, in any order of the parts, so that a copy can mix an old  *)
(* and a new report.  An entry that leaves the map lives on with the       *)
(* readers that found it before.  A report is abstracted to the postings   *)
(* each part counts.                                                       *)
(***************************************************************************)
EXTENDS Integers, Sequences

CONSTANTS
  Readers, Keys, Postings,
  Company,     \* the company of each key
  Books,       \* the company each posting is made in
  Parts,       \* what a report is copied by: header fields, lines, totals
  TTL, MaxEntries,
  MaxFill,     \* how long a report may take from its query into the cache
  MaxTime,     \* bound on the clock, for TLC
  None

ASSUME CacheAssumption ==
  /\ TTL \in Nat /\ MaxEntries \in Nat /\ MaxFill \in Nat /\ MaxTime \in Nat
  /\ Parts # {}
  /\ None \notin Nat \cup Keys

VARIABLES
  now,      \* the clock
  posted,   \* when each posting was committed, or None
  flushed,  \* when its handler flushed the cache, or None
  entry,    \* the map: the cacheEntry of each key, or NoEntry
  lru,      \* the list of keys, most recently written first
  reader    \* where each reader is and what it has in hand

cache == <<entry, lru>>
vars  == <<now, posted, flushed, entry, lru, reader>>

NoReport == [p \in Parts |-> {}]
NoEntry  == [report |-> NoReport, expires |-> -1]

Idle == [at |-> "idle", key |-> None, held |-> NoEntry, report |-> NoReport,
         left |-> {}, time |-> 0]

Init ==
  /\ now = 0
  /\ posted = [j \in Postings |-> None]
  /\ flushed = [j \in Postings |-> None]
  /\ entry = [k \in Keys |-> NoEntry]
  /\ lru = <<>>
  /\ reader = [r \in Readers |-> Idle]

----------------------------------------------------------------------------
(* The list.                                                               *)

Without(s, ks) ==
  LET kept[i \in 0..Len(s)] ==
        IF i = 0 THEN <<>>
        ELSE IF s[i] \in ks THEN kept[i - 1] ELSE Append(kept[i - 1], s[i])
  IN  kept[Len(s)]

LeftInPlace(s, k) == s   \* MUTANT: the list keeps the order of the first writes
MovedToFront(s, k) == <<k>> \o Without(s, {k})

\* One element more than MaxEntries: the back of the list goes.
Overflow(s) == IF MaxEntries > 0 /\ Len(s) > MaxEntries THEN {s[Len(s)]} ELSE {}

----------------------------------------------------------------------------
(* Get: the map under the read lock, the entry after it.                   *)

Get(r, k) ==
  /\ reader[r].at = "idle"
  /\ reader' = [reader EXCEPT ![r] =
       [Idle EXCEPT !.at = IF entry[k] = NoEntry THEN "compute" ELSE "check",
                    !.key = k]]
  /\ UNCHANGED <<now, posted, flushed, cache>>

\* The entry a reader found: the map's, unless that was removed meanwhile.
Found(r) == IF reader[r].held = NoEntry THEN entry[reader[r].key] ELSE reader[r].held

\* What readers hold when the entries of some keys leave the map.
Detached(gone) ==
  [r \in Readers |->
     IF /\ reader[r].at \in {"check", "copy"} /\ reader[r].key \in gone
        /\ reader[r].held = NoEntry
     THEN [reader[r] EXCEPT !.held = entry[reader[r].key]]
     ELSE reader[r]]

NeverExpired(e, t) == FALSE   \* MUTANT: the expiry is left to the sweep
Expired(e, t) == t > e.expires

CheckExpiry(r) ==
  /\ reader[r].at = "check"
  /\ reader' = [reader EXCEPT ![r] =
       IF Expired(Found(r), now)
       THEN [@ EXCEPT !.at = "compute", !.held = NoEntry]
       ELSE [@ EXCEPT !.at = "copy", !.left = Parts, !.time = now]]
  /\ UNCHANGED <<now, posted, flushed, cache>>

CopyPart(r, p) ==
  /\ reader[r].at = "copy" /\ p \in reader[r].left
  /\ LET last == reader[r].left = {p} IN
     reader' = [reader EXCEPT
       ![r].report[p] = Found(r).report[p],
       ![r].left = @ \ {p},
       ![r].at = IF last THEN "shown" ELSE "copy",
       ![r].held = IF last THEN NoEntry ELSE @]
  /\ UNCHANGED <<now, posted, flushed, cache>>

----------------------------------------------------------------------------
(* A miss: compute() is one query of the ledger, then Set.                 *)

Posted(co) == {j \in Postings : Books[j] = co /\ posted[j] # None}

Compute(r) ==
  /\ reader[r].at = "compute"
  /\ reader' = [reader EXCEPT
       ![r].at = "set", ![r].time = now,
       ![r].report = [p \in Parts |-> Posted(Company[reader[r].key])]]
  /\ UNCHANGED <<now, posted, flushed, cache>>

\* The report fails: nothing is cached.
ComputeFails(r) ==
  /\ reader[r].at = "compute"
  /\ reader' = [reader EXCEPT ![r] = Idle]
  /\ UNCHANGED <<now, posted, flushed, cache>>

\* The key has no entry: one is pushed to the front, the oldest may be evicted.
SetNew(r) ==
  LET k    == reader[r].key
      list == <<k>> \o lru
      out  == Overflow(list)
  IN
  /\ reader[r].at = "set"
  /\ entry[k] = NoEntry
  /\ lru' = Without(list, out)
  /\ entry' = [x \in Keys |->
       IF x \in out THEN NoEntry
       ELSE IF x = k THEN [report |-> reader[r].report, expires |-> now + TTL]
       ELSE entry[x]]
  /\ reader' = [Detached(out) EXCEPT ![r].at = "shown"]
  /\ UNCHANGED <<now, posted, flushed>>

\* The key has an entry: it is updated in place and moves to the front.
SetOld(r) ==
  LET k == reader[r].key IN
  /\ reader[r].at = "set"
  /\ entry[k] # NoEntry
  /\ entry' = [entry EXCEPT ![k] =
                 [report |-> reader[r].report, expires |-> now + TTL]]
  /\ lru' = MovedToFront(lru, k)
  /\ reader' = [reader EXCEPT ![r].at = "shown"]
  /\ UNCHANGED <<now, posted, flushed>>

\* The reader has its report; another request may come.
Finish(r) ==
  /\ reader[r].at = "shown"
  /\ reader' = [reader EXCEPT ![r] = Idle]
  /\ UNCHANGED <<now, posted, flushed, cache>>

----------------------------------------------------------------------------
(* Handlers, the sweeper, the clock.                                       *)

Remove(gone) ==
  /\ lru' = Without(lru, gone)
  /\ entry' = [k \in Keys |-> IF k \in gone THEN NoEntry ELSE entry[k]]
  /\ reader' = Detached(gone)

Post(j) ==
  /\ posted[j] = None
  /\ posted' = [posted EXCEPT ![j] = now]
  /\ UNCHANGED <<now, flushed, cache, reader>>

OthersPrefixed(co) == {k \in Keys : Company[k] # co}   \* MUTANT: match inverted
\* The keys that carry the company's prefix.
Prefixed(co) == {k \in Keys : Company[k] = co}

\* FlushWhere, by way of InvalidateCompany.  A handler that never calls it is
\* one that does not get here.
InvalidateCompany(j) ==
  /\ posted[j] # None /\ flushed[j] = None
  /\ Remove(Prefixed(Books[j]))
  /\ flushed' = [flushed EXCEPT ![j] = now]
  /\ UNCHANGED <<now, posted>>

\* evictExpired reads the clock before it waits for the lock.
EvictExpired ==
  /\ \E t \in 0..now :
       LET gone == {k \in Keys : entry[k] # NoEntry /\ Expired(entry[k], t)}
       IN gone # {} /\ Remove(gone)
  /\ UNCHANGED <<now, posted, flushed>>

\* Time passes, but no report takes longer than MaxFill into the cache.
Tick ==
  /\ now < MaxTime
  /\ \A r \in Readers : reader[r].at = "set" => now < reader[r].time + MaxFill
  /\ now' = now + 1
  /\ UNCHANGED <<posted, flushed, cache, reader>>

Read(r) ==
  \/ \E k \in Keys : Get(r, k)
  \/ CheckExpiry(r)
  \/ \E p \in Parts : CopyPart(r, p)
  \/ Compute(r)
  \/ ComputeFails(r)
  \/ SetNew(r)
  \/ SetOld(r)
  \/ Finish(r)

Next ==
  \/ \E r \in Readers : Read(r)
  \/ \E j \in Postings : Post(j)
  \/ \E j \in Postings : InvalidateCompany(j)
  \/ EvictExpired
  \/ Tick

Spec == Init /\ [][Next]_vars

----------------------------------------------------------------------------
(* Properties                                                              *)

\* Posting j is in the books but missing from a part of the report.
Misses(report, k, j) ==
  /\ Books[j] = Company[k] /\ posted[j] # None
  /\ \E p \in Parts : j \notin report[p]

\* Map and list hold the same keys, at most MaxEntries of them, and the list
\* is in the order of the last writes: what Set evicts is the entry that was
\* written longest ago (cache.go:29 "least-recently-WRITTEN").
CacheCoherent ==
  /\ {lru[i] : i \in DOMAIN lru} = {k \in Keys : entry[k] # NoEntry}
  /\ MaxEntries > 0 => Len(lru) <= MaxEntries
  /\ \A i, j \in DOMAIN lru : i < j =>
       /\ lru[i] # lru[j]
       /\ entry[lru[i]].expires >= entry[lru[j]].expires

\* "TTL provides a safety net even if a call site is missed": whatever handlers
\* forget to invalidate, whichever fill overtakes a flush and however a copy
\* is torn, a report never misses a posting older than TTL + MaxFill.
ShownIsRecent ==
  \A r \in Readers, j \in Postings :
    reader[r].at = "shown" /\ Misses(reader[r].report, reader[r].key, j)
      => reader[r].time <= posted[j] + MaxFill + TTL

\* A cached report that misses a posting was stored within MaxFill of it, and
\* after its flush: it was computed before the posting and overtook the flush.
MissesOnlyOvertaken ==
  \A k \in Keys, j \in Postings :
    entry[k] # NoEntry /\ Misses(entry[k].report, k, j) =>
      LET stored == entry[k].expires - TTL IN
      /\ stored <= posted[j] + MaxFill
      /\ flushed[j] # None => flushed[j] <= stored
=============================================================================
