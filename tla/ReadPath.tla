------------------------------ MODULE ReadPath ------------------------------
(***************************************************************************)
(* The memtable and the table it is frozen into: concurrent writers fill   *)
(* the mutable (Mutable), and check_then_compaction freezes it into an     *)
(* immutable that minor compaction writes out as a level-0 table, which    *)
(* readers then query through SsTable::get and SsTable::scan (SsTable).   *)
(***************************************************************************)
EXTENDS Mutable, SsTable

VARIABLE
    sst        \* rows of the table the last freeze wrote, in file order

rvars == <<vars, sst>>

\* Mutant: the frozen rows ordered by ts ascending within a key.
ImmutableRowsTsAsc(d) ==
    SetToSortSeq(d, LAMBDA p, q : p.key < q.key \/ (p.key = q.key /\ p.ts < q.ts))

\* Immutable::new over the frozen map, as minor compaction writes it: the
\* entries in map order, (key asc, ts desc).
ImmutableRows(d) == SetToSortSeq(d, Precedes)

RInit == Init /\ sst = <<>>

\* check_then_compaction with a non-empty mutable, under the write guard
\* that appends hold shared (so none is half done): mem::replace installs
\* a fresh mutable with a fresh WAL, into_immutable hands over the map,
\* and minor compaction writes the single batch as a table.
Freeze ==
    /\ \A w \in Writers : pc[w] = "idle"
    /\ data # {}
    /\ sst' = ImmutableRows(data)
    /\ data' = {}
    /\ wal' = <<>>
    /\ UNCHANGED <<pc, pending, count, used>>

RNext == (Next /\ UNCHANGED sst) \/ Freeze

RSpec == RInit /\ [][RNext]_rvars

-----------------------------------------------------------------------------
(* Properties                                                              *)

AsOption(e) == IF e = NoEntry THEN <<>> ELSE <<e>>

(***************************************************************************)
(* Freezing keeps point reads: for every key and read timestamp, get on   *)
(* the table a freeze writes returns what Mutable::get returned on the    *)
(* map just before it.  SsTable::get takes the first row of [key, key]    *)
(* not newer than the read timestamp, so it relies on the file holding    *)
(* each key's versions newest first.                                      *)
(***************************************************************************)
FreezePreservesGet ==
    [][Freeze => \A k \in Keys, t \in ReadStamps :
                    SsTableGet(sst', k, t) = AsOption(Get(k, t))]_rvars

Orders == {"asc", "desc"}
Limits == {1, 2}

\* Mutable::scan as MemTableStream yields it: the versions not newer than
\* the read timestamp.
VisibleScan(lo, hi, t) == SelectSeq(Scan(lo, hi, t), LAMBDA e : e.ts <= t)

(***************************************************************************)
(* Freezing keeps range reads: for every key range and read timestamp,   *)
(* scan on the table a freeze writes yields, in Asc order, the versions  *)
(* the memtable's scan yielded just before it that are visible at that   *)
(* timestamp, and in Desc order exactly those reversed.  The memtable    *)
(* bounds timestamped keys and leaves the ts filter to its stream, while *)
(* the table filters rows by key and ts; the two must select the same.   *)
(***************************************************************************)
FreezePreservesScan ==
    [][Freeze => \A lo, hi \in KeyBounds, t \in ReadStamps :
                    /\ SsTableScan(sst', lo, hi, t, NoLimit, "asc") = VisibleScan(lo, hi, t)
                    /\ SsTableScan(sst', lo, hi, t, NoLimit, "desc")
                           = Reverse(VisibleScan(lo, hi, t))]_rvars

\* The keys a scan emits, in emission order.
EmittedKeys(s) == [i \in 1..Len(s) |-> s[i].key]

(***************************************************************************)
(* Scan limit (spec 4.3: "limit caps emitted rows after the filter"): a   *)
(* scan with limit n emits the keys of the first n rows of the same scan  *)
(* without a limit, in either order; a Desc scan with a limit thus starts *)
(* from the greatest key of the range.  Keys, not rows, are compared, so  *)
(* which versions of one key a limit keeps is left open, as spec 4.3      *)
(* leaves it.                                                              *)
(***************************************************************************)
ScanLimitCapsEmitted ==
    \A lo, hi \in KeyBounds, t \in ReadStamps, n \in Limits, o \in Orders :
        LET full == SsTableScan(sst, lo, hi, t, NoLimit, o)
        IN  EmittedKeys(SsTableScan(sst, lo, hi, t, n, o))
                = EmittedKeys(SubSeq(full, 1, IF n < Len(full) THEN n ELSE Len(full)))

=============================================================================
