------------------------------- MODULE SsTable -------------------------------
(***************************************************************************)
(* Reads of one on-disk table (ondisk/sstable.rs).  A table is the         *)
(* sequence of its rows [key, ts, val] in file order, which is the order   *)
(* of the batch written into it: key ascending, ts descending.             *)
(*                                                                         *)
(* SsTable::scan builds a parquet stream of the file with a row filter     *)
(* from the key range and read timestamp (ondisk/arrows.rs, modelled from  *)
(* spec 4.3) and the row limit, and wraps it in an SsTableScan that yields *)
(* it in the requested order (ondisk/scan.rs, spec 4.3).  Projection is    *)
(* left out: a row's val stands for all of its columns.                    *)
(*                                                                         *)
(* A key bound is a record with fields kind ("inc", "exc" or "unb") and    *)
(* key.                                                                    *)
(***************************************************************************)
EXTENDS Integers, Sequences, SequencesExt

\* limit: None.
NoLimit == -1

KeyAtLeast(k, b) ==
    CASE b.kind = "inc" -> b.key <= k
      [] b.kind = "exc" -> b.key < k
      [] OTHER -> TRUE

KeyAtMost(k, b) ==
    CASE b.kind = "inc" -> k <= b.key
      [] b.kind = "exc" -> k < b.key
      [] OTHER -> TRUE

\* get_range_filter: a row passes when its key lies within the range and
\* it is not newer than the read timestamp.
RangeFilter(r, lo, hi, ts) ==
    KeyAtLeast(r.key, lo) /\ KeyAtMost(r.key, hi) /\ r.ts <= ts

\* into_parquet_builder with the row filter, then build(): the rows that
\* pass the filter in file order, of which with_limit(limit) keeps the
\* first limit.
ParquetStream(table, lo, hi, ts, limit) ==
    LET kept == SelectSeq(table, LAMBDA r : RangeFilter(r, lo, hi, ts))
    IN  IF limit = NoLimit THEN kept
        ELSE SubSeq(kept, 1, IF limit < Len(kept) THEN limit ELSE Len(kept))

\* Mutant: the order ignored.
OrderedStreamIgnoresOrder(s, order) == s

\* SsTableScan over the built stream: Asc (or no order) yields it as it
\* comes, Desc yields it back to front.
OrderedStream(s, order) == IF order = "desc" THEN Reverse(s) ELSE s

\* SsTable::scan(range, ts, limit, projection, order).
SsTableScan(table, lo, hi, ts, limit, order) ==
    OrderedStream(ParquetStream(table, lo, hi, ts, limit), order)

\* SsTable::get(key@ts): the first entry of scan([key, key], ts, Some(1)),
\* as a sequence of at most one row.
SsTableGet(table, k, ts) ==
    SsTableScan(table, [kind |-> "inc", key |-> k], [kind |-> "inc", key |-> k],
                ts, 1, "asc")

=============================================================================
