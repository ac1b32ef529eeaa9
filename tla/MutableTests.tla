---------------------------- MODULE MutableTests ----------------------------
(***************************************************************************)
(* The unit tests of inmem/mutable.rs replayed on the operators of        *)
(* Mutable: the entries each test inserts, and what it asserts of get and  *)
(* scan.  Test keys ("key_1", "1".."4", the Int8 1) are integers ordered   *)
(* as the strings are; an entry's val is the record's vu32, or 0 where the *)
(* test never reads it.                                                    *)
(***************************************************************************)
EXTENDS Integers, Sequences

\* A memtable holding entries d, with no writer inside append.
Mem(d) == INSTANCE Mutable WITH
    Keys <- 1..4, Writers <- {}, Stamps <- 0..1, TsMax <- 2^32 - 1,
    MaxWrites <- 0, UseWal <- TRUE, FreshStamps <- FALSE, Tomb <- -1,
    data <- d, wal <- <<>>, pc <- <<>>, pending <- <<>>, count <- 0, used <- {}

Entry(k, t, v) == [key |-> k, ts |-> t, val |-> v]

\* Mutable::insert of each entry in turn into Mutable::new.
RECURSIVE InsertAll(_, _)
InsertAll(d, s) ==
    IF s = <<>> THEN d ELSE InsertAll(Mem(d)!MapInsert(d, Head(s)), Tail(s))

\* The (key, ts) pairs a scan yields, in order.
KeysTs(s) == [i \in 1..Len(s) |-> <<s[i].key, s[i].ts>>]

\* insert_and_get: key_1 (vu32 1) at ts 0 and key_2 (vu32 2) at ts 1.
InsertAndGetData == InsertAll({}, <<Entry(1, 0, 1), Entry(2, 1, 2)>>)

InsertAndGetAsserts ==
    /\ Mem(InsertAndGetData)!Get(1, 0).val = 1
    /\ Mem(InsertAndGetData)!Get(2, 0) = Mem(InsertAndGetData)!NoEntry
    /\ Mem(InsertAndGetData)!Get(2, 1) # Mem(InsertAndGetData)!NoEntry

\* range: "1"@0, "2"@0, "2"@1, "3"@1, "4"@0; an unbounded scan at ts 0 and
\* a scan of ["1", "4"] at ts 1 both yield every entry, newest first
\* within a key (the memtable leaves the ts filter to MemTableStream).
RangeData == InsertAll({}, <<Entry(1, 0, 0), Entry(2, 0, 0), Entry(2, 1, 0),
                             Entry(3, 1, 0), Entry(4, 0, 0)>>)

RangeExpected == <<<<1, 0>>, <<2, 1>>, <<2, 0>>, <<3, 1>>, <<4, 0>>>>

RangeAsserts ==
    /\ KeysTs(Mem(RangeData)!Scan(Mem(RangeData)!Unbounded, Mem(RangeData)!Unbounded, 0))
           = RangeExpected
    /\ KeysTs(Mem(RangeData)!Scan(Mem(RangeData)!Included(1, 0), Mem(RangeData)!Included(4, 0), 1))
           = RangeExpected

\* test_dyn_read: one DynRecord, primary key age = 1, at ts 0; the first
\* entry of an unbounded scan is (1, 0).
DynReadData == InsertAll({}, <<Entry(1, 0, 0)>>)

DynReadAsserts ==
    KeysTs(Mem(DynReadData)!Scan(Mem(DynReadData)!Unbounded, Mem(DynReadData)!Unbounded, 0))[1]
        = <<1, 0>>

(***************************************************************************)
(* The model agrees with insert_and_get, range and test_dyn_read: get    *)
(* sees an entry only at or after its timestamp, and a scan, bounded or   *)
(* not, yields every version of the keys in range, keys ascending and     *)
(* versions newest first, including the last version of an inclusive     *)
(* upper key.                                                              *)
(***************************************************************************)
MutableTests == InsertAndGetAsserts /\ RangeAsserts /\ DynReadAsserts

=============================================================================
