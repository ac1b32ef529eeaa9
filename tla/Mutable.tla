------------------------------- MODULE Mutable -------------------------------
(***************************************************************************)
(* The mutable memtable (inmem/mutable.rs): an ordered map from            *)
(* timestamped keys to optional records, fed by concurrent writers, each   *)
(* of which logs its entry to the WAL under the WAL mutex and then, after  *)
(* releasing it, inserts the entry into the lock-free map; and the read    *)
(* operations get, scan and check_conflict as range lookups on that map.   *)
(*                                                                         *)
(* An entry is [key |-> k, ts |-> t, val |-> v]; v is the number of the    *)
(* write that produced it, or Tomb for a remove (value None).              *)
(***************************************************************************)
EXTENDS Integers, Sequences, SequencesExt, FiniteSets

CONSTANTS
    Keys,        \* primary keys (integers, ordered)
    Writers,     \* concurrent writer tasks
    Stamps,      \* timestamps the callers pass to insert/remove
    TsMax,       \* u32::MAX, the greatest Timestamp
    MaxWrites,   \* bound on the number of appends
    UseWal,      \* DbOption.use_wal
    FreshStamps, \* callers never reuse a timestamp (increase_ts per write)
    Tomb         \* model value: the value None of a remove

ASSUME Keys \subseteq Int /\ Stamps \subseteq 0..TsMax /\ MaxWrites \in Nat
ASSUME UseWal \in BOOLEAN /\ FreshStamps \in BOOLEAN

EPOCH == 0

NoEntry == [key |-> 0, ts |-> -1, val |-> Tomb]

VARIABLES
    data,      \* Mutable.data: entries, unique per (key, ts)
    wal,       \* the WAL file: entries in log order
    pc,        \* writer -> "idle" | "logged" (between WAL write and insert)
    pending,   \* writer -> the Log record it is appending
    count,     \* appends started so far
    used       \* history: timestamps passed to append so far

vars == <<data, wal, pc, pending, count, used>>

-----------------------------------------------------------------------------
(* Order and range lookups on TimestampedRef                               *)

\* (key asc, ts desc): p strictly precedes q.
Precedes(p, q) == p.key < q.key \/ (p.key = q.key /\ p.ts > q.ts)

\* std::ops::Bound over timestamped keys.
Included(k, t) == [kind |-> "inc", key |-> k, ts |-> t]
Excluded(k, t) == [kind |-> "exc", key |-> k, ts |-> t]
Unbounded == [kind |-> "unb", key |-> 0, ts |-> 0]

AboveLower(e, b) ==
    CASE b.kind = "inc" -> ~Precedes(e, b)
      [] b.kind = "exc" -> Precedes(b, e)
      [] OTHER -> TRUE

BelowUpper(e, b) ==
    CASE b.kind = "inc" -> ~Precedes(b, e)
      [] b.kind = "exc" -> Precedes(e, b)
      [] OTHER -> TRUE

\* SkipMap::range((lower, upper)): the entries within the bounds, in order.
MapRange(lower, upper) ==
    SetToSortSeq({e \in data : AboveLower(e, lower) /\ BelowUpper(e, upper)}, Precedes)

\* Mutant: the range stops short of (key, EPOCH).
GetExcludingEpoch(k, t) ==
    LET r == MapRange(Included(k, t), Excluded(k, EPOCH))
    IN  IF r = <<>> THEN NoEntry ELSE r[1]

\* Mutable::get: first entry of [(key, ts) ..= (key, EPOCH)].
Get(k, t) ==
    LET r == MapRange(Included(k, t), Included(k, EPOCH))
    IN  IF r = <<>> THEN NoEntry ELSE r[1]

\* Mutant: an inclusive low bound translated to (key, EPOCH).
ScanLowerAtEpoch(b, t) ==
    CASE b.kind = "inc" -> Included(b.key, EPOCH)
      [] b.kind = "exc" -> Excluded(b.key, EPOCH)
      [] OTHER -> Unbounded

\* Mutable::scan: the key bounds translated to timestamped bounds.
\* A key bound is a Bound whose ts field is unused.
ScanLower(b, t) ==
    CASE b.kind = "inc" -> Included(b.key, t)
      [] b.kind = "exc" -> Excluded(b.key, EPOCH)
      [] OTHER -> Unbounded

\* Mutant: an inclusive high bound translated to (key, ts).
ScanUpperAtTs(b, t) ==
    CASE b.kind = "inc" -> Included(b.key, t)
      [] b.kind = "exc" -> Excluded(b.key, t)
      [] OTHER -> Unbounded

ScanUpper(b, t) ==
    CASE b.kind = "inc" -> Included(b.key, EPOCH)
      [] b.kind = "exc" -> Excluded(b.key, t)
      [] OTHER -> Unbounded

Scan(lo, hi, t) == MapRange(ScanLower(lo, t), ScanUpper(hi, t))

\* Mutant: the upper end included.
CheckConflictIncludingTs(k, t) == MapRange(Excluded(k, TsMax), Included(k, t)) # <<>>

\* Mutable::check_conflict: is there an entry in
\* ((key, u32::MAX), (key, ts)), both ends excluded?
CheckConflict(k, t) == MapRange(Excluded(k, TsMax), Excluded(k, t)) # <<>>

-----------------------------------------------------------------------------
(* Mutable::append, called by insert (Some record) and remove (None)       *)

\* Mutant: the insert keeps an entry with the same (key, ts).
MapInsertKeepsOld(d, e) == d \cup {e}

\* SkipMap::insert: an entry with the same (key, ts) is replaced.
MapInsert(d, e) == {x \in d : x.key # e.key \/ x.ts # e.ts} \cup {e}

Init ==
    /\ data = {}
    /\ wal = <<>>
    /\ pc = [w \in Writers |-> "idle"]
    /\ pending = [w \in Writers |-> NoEntry]
    /\ count = 0
    /\ used = {}

\* `if let (Some(_log_ty), Some(wal))`: the WAL is written when enabled.
Logs(e) == UseWal

\* First half of append: build the Log record and, holding the WAL mutex,
\* write it to the WAL.
AppendLog(w, k, t, isRemove) ==
    /\ pc[w] = "idle"
    /\ count < MaxWrites
    /\ FreshStamps => t \notin used
    /\ LET e == [key |-> k, ts |-> t, val |-> IF isRemove THEN Tomb ELSE count + 1]
       IN  /\ wal' = IF Logs(e) THEN Append(wal, e) ELSE wal
           /\ pending' = [pending EXCEPT ![w] = e]
    /\ pc' = [pc EXCEPT ![w] = "logged"]
    /\ count' = count + 1
    /\ used' = used \cup {t}
    /\ UNCHANGED data

\* The WAL write fails: append returns DbError::WalWrite before the
\* entry reaches the map.
AppendLogFails(w) ==
    /\ UseWal
    /\ pc[w] = "idle"
    /\ count < MaxWrites
    /\ count' = count + 1
    /\ UNCHANGED <<data, wal, pc, pending, used>>

\* Second half of append, after the WAL mutex is released: the trigger
\* check and the insert into the map.
AppendInsert(w) ==
    /\ pc[w] = "logged"
    /\ data' = MapInsert(data, pending[w])
    /\ pc' = [pc EXCEPT ![w] = "idle"]
    /\ pending' = [pending EXCEPT ![w] = NoEntry]
    /\ UNCHANGED <<wal, count, used>>

Next ==
    \/ \E w \in Writers, k \in Keys, t \in Stamps, r \in BOOLEAN : AppendLog(w, k, t, r)
    \/ \E w \in Writers : AppendLogFails(w)
    \/ \E w \in Writers : AppendInsert(w)

Spec == Init /\ [][Next]_vars

-----------------------------------------------------------------------------
(* Properties                                                              *)

Entries == [key : Keys, ts : Stamps, val : Nat \cup {Tomb}]

TypeOK ==
    /\ data \subseteq Entries
    /\ \A x, y \in data : x.key = y.key /\ x.ts = y.ts => x = y
    /\ wal \in Seq(Entries)
    /\ pc \in [Writers -> {"idle", "logged"}]
    /\ \A w \in Writers : pc[w] = "logged" => pending[w] \in Entries
    /\ count \in 0..MaxWrites

\* Key bounds a caller of scan may pass, and the read timestamps.
KeyBounds == {Included(k, 0) : k \in Keys} \cup {Excluded(k, 0) : k \in Keys} \cup {Unbounded}
ReadStamps == 0..TsMax

InKeyBounds(k, lo, hi) ==
    /\ lo.kind = "inc" => lo.key <= k
    /\ lo.kind = "exc" => lo.key < k
    /\ hi.kind = "inc" => k <= hi.key
    /\ hi.kind = "exc" => k < hi.key

\* The entry of key k with the largest ts <= t (spec 8.1), or NoEntry.
NewestVisible(k, t) ==
    LET vis == {e \in data : e.key = k /\ e.ts <= t}
    IN  IF vis = {} THEN NoEntry
        ELSE CHOOSE e \in vis : \A f \in vis : f.ts <= e.ts

(***************************************************************************)
(* Point reads: whatever entries concurrent inserts and removes left in   *)
(* the map, get(key, ts) returns the entry of key with the largest        *)
(* timestamp not above ts, a tombstone included, or nothing.              *)
(***************************************************************************)
GetNewestVisible ==
    \A k \in Keys, t \in ReadStamps : Get(k, t) = NewestVisible(k, t)

(***************************************************************************)
(* Scan completeness: for every pair of key bounds and read timestamp,    *)
(* scan yields the newest visible entry of every key within the bounds,   *)
(* so the merge above it can resolve that key at the read timestamp.      *)
(***************************************************************************)
ScanComplete ==
    \A lo, hi \in KeyBounds, t \in ReadStamps :
        \A k \in Keys :
            InKeyBounds(k, lo, hi) /\ NewestVisible(k, t) # NoEntry
                => \E i \in 1..Len(Scan(lo, hi, t)) : Scan(lo, hi, t)[i] = NewestVisible(k, t)

(***************************************************************************)
(* Conflict detection (spec 4.1, used by the optimistic commit):          *)
(* check_conflict(key, ts) holds exactly when the map has an entry of key *)
(* with a timestamp greater than ts.                                       *)
(***************************************************************************)
ConflictDetected ==
    \A k \in Keys, t \in ReadStamps :
        CheckConflict(k, t) <=> \E e \in data : e.key = k /\ e.ts > t

=============================================================================
