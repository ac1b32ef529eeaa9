--------------------------- MODULE CompactorTests ---------------------------
(***************************************************************************)
(* The unit tests of compaction/mod.rs replayed on the operators of        *)
(* Compactor: each test's fixture, the call it makes and what it asserts.  *)
(* The tests' keys are the strings "0".."9" (ordered as the digits) or     *)
(* Int32 values, both modelled as integers; a row is [key, ts, val] with   *)
(* val the record's vu32.  Options a test leaves at DbOption::new's        *)
(* defaults (option.rs) range over several values, so that an outcome     *)
(* does not hang on a default.                                             *)
(***************************************************************************)
EXTENDS Integers, Sequences, FiniteSets, TLC

\* MAX_LEVEL.
TestMaxLevel == 7

\* The Compactor's operators under the options of a test.  Every level
\* path of these tests is a local directory, so all levels share one
\* file system; the state variables not read by the operators are given
\* their initial values.
Db(thr, mag, sm, dn, fs) == INSTANCE Compactor WITH
    Keys <- 0..39, MaxWrites <- 0, MaxTasks <- 1, TriggerLength <- 1,
    ImmutableChunkNum <- 1, ImmutableChunkMaxNum <- 1,
    SelectionMax <- sm, DefaultOldestNum <- dn, MaxSstRows <- 100,
    IoFailures <- {}, MaxFailures <- 0, CommitTimestamps <- TRUE,
    WalBuffered <- FALSE, MaxCrashes <- 0,
    LevelFs <- [l \in 0..(TestMaxLevel - 1) |-> "local"],
    MaxLevel <- TestMaxLevel, MajorThreshold <- thr, LevelMagnification <- mag,
    mutable <- {}, mutableWal <- 0, immutables <- <<>>, recoverWalIds <- {},
    trigger <- 0, tasks <- <<>>,
    cstate <- [phase |-> "idle", manual |-> FALSE, recover |-> {}, snap |-> {}],
    levels <- [l \in 0..(TestMaxLevel - 1) |-> <<>>], clock <- 0, manifestTs <- 0,
    files <- fs, walFiles <- {}, nextId <- 0, written <- <<>>, writeWal <- <<>>,
    durable <- {}, failures <- 0, synced <- {}, flushUpTo <- 0, crashes <- 0

\* Option values the tests leave at their defaults range over these.
SelectionMaxes == 1..3
OldestNums == 1..3
Magnifications == {1, 10}

Row(k, t, v) == [key |-> k, ts |-> t, val |-> v]

\* build_immutable: a fresh mutable, the records inserted with their
\* timestamps, then into_immutable (WAL file wal).
BuildImmutable(rows, wal) == Db(1, 1, 1, 1, <<>>)!IntoImmutable(rows, wal)

\* build_parquet_table: the immutable's record batch written as table gen.
BuildParquetTable(fs, gen, rows) == fs @@ (gen :> BuildImmutable(rows, 0).rows)

Scope(min, max, gen) == [gen |-> gen, min |-> min, max |-> max, wals |-> {}]

-----------------------------------------------------------------------------
(* minor_compaction and dyn_minor_compaction                               *)

\* minor_compaction: batches (3, 5, 6) and (4, 2, 1), all at ts 0, with no
\* recovered WAL ids; the scope returned.
MinorCompactionTestScope ==
    Db(1, 1, 1, 1, <<>>)!MinorScope(<<BuildImmutable({Row(3, 0, 0), Row(5, 0, 0), Row(6, 0, 0)}, 1),
                     BuildImmutable({Row(4, 0, 0), Row(2, 0, 0), Row(1, 0, 0)}, 2)>>,
                   2, {}, 3)

\* dyn_minor_compaction: Int32 ids 0..39 but multiples of 4, split into a
\* batch of ids below 35 that are even or multiples of 5, and a batch of
\* the other ids from 7 on.
DynMinorBatch1 == {i \in 0..39 : i % 4 # 0 /\ i < 35 /\ (i % 2 = 0 \/ i % 5 = 0)}
DynMinorBatch2 == {i \in 0..39 : i % 4 # 0 /\ ~(i < 35 /\ (i % 2 = 0 \/ i % 5 = 0)) /\ i >= 7}

DynMinorCompactionTestScope ==
    Db(1, 1, 1, 1, <<>>)!MinorScope(<<BuildImmutable({Row(i, 0, i) : i \in DynMinorBatch1}, 1),
                     BuildImmutable({Row(i, 0, i) : i \in DynMinorBatch2}, 2)>>,
                   2, {}, 3)

-----------------------------------------------------------------------------
(* build_version, major_compaction and major_panic                          *)

\* build_version, level 0: table 1 holds 1@1, 2@1, 3@0 and table 2 holds
\* 4@1, 5@1, 6@0.
BuildVersionLevel0Files ==
    BuildParquetTable(BuildParquetTable(<<>>, 1, {Row(1, 1, 0), Row(2, 1, 0), Row(3, 0, 0)}),
                      2, {Row(4, 1, 0), Row(5, 1, 0), Row(6, 0, 0)})

\* build_version, level 1: tables 3, 4, 5 hold 1..3, 4..6, 7..9, all at ts 0.
BuildVersionFiles ==
    LET fs3 == BuildParquetTable(BuildVersionLevel0Files, 3, {Row(k, 0, 0) : k \in 1..3})
        fs4 == BuildParquetTable(fs3, 4, {Row(k, 0, 0) : k \in 4..6})
    IN  BuildParquetTable(fs4, 5, {Row(k, 0, 0) : k \in 7..9})

\* build_version: the version listing those tables by level.
BuildVersionLevels ==
    [l \in 0..(TestMaxLevel - 1) |->
        CASE l = 0 -> <<Scope(1, 3, 1), Scope(4, 6, 2)>>
          [] l = 1 -> <<Scope(1, 3, 3), Scope(4, 6, 4), Scope(7, 9, 5)>>
          [] OTHER -> <<>>]

\* major_compaction: major_threshold_with_sst_size = 2, the window
\* [2, 5], new tables numbered from 6; every outcome of the call.
MajorCompactionTestOutcomes(mag, sm, dn) ==
    Db(2, mag, sm, dn, BuildVersionFiles)!MajorCompaction(BuildVersionLevels, 2, 5, 6)

\* What major_compaction asserts: the call succeeds, its first edit adds
\* [1, 6] to level 1, and the next four remove tables 1, 2 (level 0) and
\* 3, 4 (level 1).
MajorCompactionTestAsserts(o) ==
    /\ o.err = "none"
    /\ Len(o.edits) >= 5
    /\ o.edits[1].kind = "add" => o.edits[1].level = 1 /\ o.edits[1].scope.min = 1
                                  /\ o.edits[1].scope.max = 6
    /\ SubSeq(o.edits, 2, 5) = <<Db(1, 1, 1, 1, <<>>)!RemoveEdit(0, 1), Db(1, 1, 1, 1, <<>>)!RemoveEdit(0, 2),
                                 Db(1, 1, 1, 1, <<>>)!RemoveEdit(1, 3), Db(1, 1, 1, 1, <<>>)!RemoveEdit(1, 4)>>

\* major_panic (issue 152): threshold 1 and magnification 1, table 1 on
\* level 0 holding 0..4 and table 2 on level 1 holding 5..9, the window
\* [6, 9]; every outcome of the call, which the test unwraps.
MajorPanicTestOutcomes(sm, dn) ==
    LET fs == BuildParquetTable(BuildParquetTable(<<>>, 1, {Row(k, 0, k) : k \in 0..4}),
                                2, {Row(k, 0, k) : k \in 5..9})
        lv == [l \in 0..(TestMaxLevel - 1) |->
                 CASE l = 0 -> <<Scope(0, 4, 1)>>
                   [] l = 1 -> <<Scope(5, 9, 2)>>
                   [] OTHER -> <<>>]
    IN  Db(1, 1, sm, dn, fs)!MajorCompaction(lv, 6, 9, 3)

-----------------------------------------------------------------------------
(* Properties                                                              *)

(***************************************************************************)
(* The model agrees with the compaction tests.  minor_compaction and     *)
(* dyn_minor_compaction: the scope of a level-0 table written from       *)
(* several batches spans the least and the greatest key of all of them   *)
(* ([1, 6] and [2, 39]), although the batches are written one after the  *)
(* other, unsorted.  major_compaction and major_panic: whatever the      *)
(* default selection options and magnification, every outcome the model *)
(* allows for their fixtures is the one the tests assert (the merged     *)
(* [1, 6] table on level 1 and the removal of the four tables it         *)
(* replaces), and the issue-152 fixture compacts without a panic.        *)
(***************************************************************************)
CompactionTests ==
    /\ MinorCompactionTestScope.min = 1 /\ MinorCompactionTestScope.max = 6
    /\ DynMinorCompactionTestScope.min = 2 /\ DynMinorCompactionTestScope.max = 39
    /\ \A sm \in SelectionMaxes, dn \in OldestNums :
           /\ \A mag \in Magnifications :
                  \A o \in MajorCompactionTestOutcomes(mag, sm, dn) : MajorCompactionTestAsserts(o)
           /\ \A o \in MajorPanicTestOutcomes(sm, dn) : o.err = "none"

=============================================================================
