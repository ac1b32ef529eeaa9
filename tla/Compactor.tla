----------------------------- MODULE Compactor ------------------------------
(***************************************************************************)
(* The write path and the compactor of the LSM engine:                     *)
(*   - writers appending to the mutable table (inmem/mutable.rs),          *)
(*   - the compaction task running check_then_compaction for each Freeze   *)
(*     or Flush task (compaction/mod.rs): freeze under the write guard,    *)
(*     minor compaction of the oldest immutables into one level-0 table,   *)
(*     major compaction of overlapping tables into the next level, and     *)
(*     the version edit that publishes the result (VersionSet).            *)
(*                                                                         *)
(* Data is abstracted to rows [key, ts, val]: val is the index of the      *)
(* write in the history, so every stored entry names the write it came     *)
(* from.  Tables are sequences of rows in file order.                      *)
(***************************************************************************)
EXTENDS Integers, Sequences, SequencesExt, FiniteSets, TLC,
        MergeStream, VersionSet

CONSTANTS
    Keys,                  \* primary keys (integers, ordered)
    MaxWrites,             \* bound on the number of writes
    MaxTasks,              \* bound on the compaction task channel
    TriggerLength,         \* TriggerType::Length(n)
    ImmutableChunkNum,     \* immutable_chunk_num
    ImmutableChunkMaxNum,  \* immutable_chunk_max_num
    SelectionMax,          \* major_l_selection_table_max_num
    DefaultOldestNum,      \* major_default_oldest_table_num
    MaxSstRows,            \* max_sst_file_size, counted in rows
    IoFailures,            \* steps whose I/O may fail: "freeze", "minor", "manifest"
    MaxFailures,           \* bound on the number of I/O failures
    CommitTimestamps,      \* writes stamped by increase_ts (TRUE) or load_ts
    WalBuffered,           \* WAL records wait in a buffer until it is flushed
    MaxCrashes,            \* bound on the number of crashes and restarts
    LevelFs                \* level -> the store of level_fs_path(level)

ASSUME Keys \subseteq Int /\ Keys # {}
ASSUME MaxWrites \in Nat /\ MaxTasks \in Nat \ {0}
ASSUME TriggerLength \in Nat \ {0}
ASSUME ImmutableChunkNum \in Nat \ {0} /\ ImmutableChunkMaxNum \in Nat
ASSUME SelectionMax \in Nat /\ DefaultOldestNum \in Nat \ {0}
ASSUME MaxSstRows \in Nat \ {0}
ASSUME MaxFailures \in Nat /\ CommitTimestamps \in BOOLEAN
ASSUME IoFailures \subseteq {"freeze", "minor", "manifest"}
ASSUME WalBuffered \in BOOLEAN /\ MaxCrashes \in Nat /\ DOMAIN LevelFs = Levels

VARIABLES
    mutable,        \* entries of DbStorage.mutable: rows, unique per (key, ts)
    mutableWal,     \* file id of the mutable's WAL
    immutables,     \* DbStorage.immutables: <<[wal, rows]>>, oldest first
    recoverWalIds,  \* DbStorage.recover_wal_ids
    trigger,        \* appends counted by the Length trigger since its reset
    tasks,          \* CompactTask channel: <<"Freeze" | "Flush">>
    cstate,         \* compaction task: [phase, manual, recover, snap]
    levels,         \* level slices of the current Version
    clock,          \* the Version's timestamp counter
    manifestTs,     \* the timestamp of the last LatestTimeStamp edit logged
    files,          \* gen -> rows of every table file written
    walFiles,       \* WAL files present
    nextId,         \* generate_file_id: next fresh (ULID-ordered) id
    written,        \* history: every write, in append order
    writeWal,       \* history: WAL file each write was logged to
    durable,        \* history: writes a completed flush promised durable
    failures,       \* history: I/O failures so far
    synced,         \* history: writes whose WAL record reached the file
    flushUpTo,      \* history: writes 1..flushUpTo preceded a Flush request
    crashes         \* history: crashes so far

storage == <<mutable, mutableWal, immutables, recoverWalIds, trigger>>
version == <<levels, clock, manifestTs, files, walFiles, nextId>>
history == <<written, writeWal, durable, failures, synced, flushUpTo, crashes>>
vars == <<storage, tasks, cstate, version, history>>

Idle == [phase |-> "idle", manual |-> FALSE, recover |-> {}, snap |-> {}]

\* The task after a panic: it never serves its channel again.
Dead == [Idle EXCEPT !.phase = "dead"]

-----------------------------------------------------------------------------
(* Helpers                                                                 *)

\* The rows of a SkipMap in iteration order (Immutable::new): the first
\* row under RowBefore, then the others (selection, so that TLC need not
\* enumerate orderings of a large set).
RECURSIVE SortRows(_)
SortRows(S) ==
    IF S = {} THEN <<>>
    ELSE LET first == CHOOSE r \in S : \A q \in S \ {r} : RowBefore(r, q)
         IN  <<first>> \o SortRows(S \ {first})

RowsOf(s) == {s[i] : i \in 1..Len(s)}
KeysOf(s) == {s[i].key : i \in 1..Len(s)}

Tables == [gen : Nat, min : Keys, max : Keys, wals : SUBSET Nat]

AddEdit(l, scope) == [kind |-> "add", level |-> l, scope |-> scope]
RemoveEdit(l, g) == [kind |-> "remove", level |-> l, gen |-> g]
TsEdit(t) == [kind |-> "ts", ts |-> t]

\* Writes whose entry some table of the current Version holds.
VersionVals ==
    UNION {{r.val : r \in RowsOf(files[g])} : g \in LiveGens(levels)}

\* Writes whose entry the engine holds anywhere: mutable, immutables or
\* a table of the current Version.
StoredRows ==
    mutable
    \cup UNION {RowsOf(immutables[i].rows) : i \in 1..Len(immutables)}
    \cup UNION {RowsOf(files[g]) : g \in LiveGens(levels)}

StoredVals == {r.val : r \in StoredRows}

\* Write i, or a later write of the same key, is in the set V.
KeptIn(i, V) == \E j \in i..Len(written) : written[j].key = written[i].key /\ j \in V

-----------------------------------------------------------------------------
(* Major compaction (compaction/mod.rs)                                    *)

\* Mutant: the fallback selection keeps end_l at the search result.
ThisLevelScopesStaleEnd(s, min, max, start) ==
    LET Meets(i) == ScopeContains(s[i], min) \/ ScopeContains(s[i], max)
        run == CHOOSE n \in 0..(Len(s) - start) :
                  /\ n <= SelectionMax + 1
                  /\ \A j \in 1..n : Meets(start + j)
                  /\ n < Len(s) - start /\ n <= SelectionMax => ~Meets(start + n + 1)
        oldest == Min({DefaultOldestNum, Len(s)})
    IN  IF run > 0
        THEN [meet |-> SubSeq(s, start + 1, start + run),
              start |-> start, end |-> start + run - 1]
        ELSE [meet |-> SubSeq(s, 1, Min({oldest, SelectionMax + 1})),
              start |-> 0, end |-> start - 1]

\* Compactor::this_level_scopes for a search result start; end = -1 is the
\* usize underflow of `end_l - 1`.
ThisLevelScopes(s, min, max, start) ==
    LET Meets(i) == ScopeContains(s[i], min) \/ ScopeContains(s[i], max)
        run == CHOOSE n \in 0..(Len(s) - start) :
                  /\ n <= SelectionMax + 1
                  /\ \A j \in 1..n : Meets(start + j)
                  /\ n < Len(s) - start /\ n <= SelectionMax => ~Meets(start + n + 1)
        oldest == Min({DefaultOldestNum, Len(s)})
    IN  IF run > 0
        THEN [meet |-> SubSeq(s, start + 1, start + run),
              start |-> start, end |-> start + run - 1]
        ELSE [meet |-> SubSeq(s, 1, Min({oldest, SelectionMax + 1})),
              start |-> 0, end |-> oldest - 1]

\* Mutant: the slice of level l + 1 stops at the search result for max.
NextLevelScopesNoClamp(next, min, max, meet) ==
    IF next = <<>>
    THEN {[meet |-> <<>>, start |-> 0, end |-> 0, min |-> min, max |-> max,
           panic |-> FALSE]}
    ELSE LET mn == Min({meet[i].min : i \in 1..Len(meet)})
             mx == Max({meet[i].max : i \in 1..Len(meet)})
         IN  {LET hi == Min({b, Len(next)})
              IN [meet |-> SelectSeq(SubSeq(next, a + 1, hi),
                                     LAMBDA sc : ScopeContains(sc, mn) \/ ScopeContains(sc, mx)),
                  start |-> a, end |-> b, min |-> mn, max |-> mx,
                  panic |-> a > hi]
              : a \in ScopeSearch(mn, next), b \in ScopeSearch(mx, next)}

\* Compactor::next_level_scopes: the possible selections on level l + 1,
\* with the window tightened to the selected scopes of level l.
NextLevelScopes(next, min, max, meet) ==
    IF next = <<>>
    THEN {[meet |-> <<>>, start |-> 0, end |-> 0, min |-> min, max |-> max,
           panic |-> FALSE]}
    ELSE LET mn == Min({meet[i].min : i \in 1..Len(meet)})
             mx == Max({meet[i].max : i \in 1..Len(meet)})
         IN  {LET hi == Min({b + 1, Len(next)})
              IN [meet |-> SelectSeq(SubSeq(next, a + 1, hi),
                                     LAMBDA sc : ScopeContains(sc, mn) \/ ScopeContains(sc, mx)),
                  start |-> a, end |-> b, min |-> mn, max |-> mx,
                  panic |-> a > hi]
              : a \in ScopeSearch(mn, next), b \in ScopeSearch(mx, next)}

\* Compactor::full_scope
FullScope(meet) == <<meet[1].min, meet[Len(meet)].max>>

\* LevelStream over tables start..=end of a level, rows within [lo, hi].
LevelStream(s, start, end, lo, hi) ==
    FlattenSeq([i \in 1..(Min({end, Len(s) - 1}) - start + 1) |->
                   SelectSeq(files[s[start + i].gen],
                             LAMBDA r : lo <= r.key /\ r.key <= hi)])

\* Compactor::build_tables with build_table: the merged rows cut into
\* tables of MaxSstRows rows, each scoped by its first and last key.
BuildTables(merged, l, gen0) ==
    LET n == (Len(merged) + MaxSstRows - 1) \div MaxSstRows
        Piece(i) == SubSeq(merged, (i - 1) * MaxSstRows + 1,
                           Min({i * MaxSstRows, Len(merged)}))
    IN  [edits |-> [i \in 1..n |->
                      AddEdit(l, [gen |-> gen0 + i - 1, min |-> Piece(i)[1].key,
                                  max |-> Piece(i)[Len(Piece(i))].key, wals |-> {}])],
         files |-> [g \in gen0..(gen0 + n - 1) |-> Piece(g - gen0 + 1)],
         next |-> gen0 + n]

\* One round of the loop of Compactor::major_compaction on level l, for
\* each outcome of the binary searches.  Both level streams are given
\* level l's store (level_fs), so when level l + 1 lives on another store
\* the first poll of its stream in build_tables fails with an I/O error.
MajorRound(lv, l, st) ==
    UNION {
      LET this == ThisLevelScopes(lv[l], st.min, st.max, sl) IN
      {LET srcL == IF l = 0
                   THEN [i \in 1..Len(this.meet) |-> files[this.meet[i].gen]]
                   ELSE <<LevelStream(lv[l], this.start, this.end,
                                      FullScope(this.meet)[1], FullScope(this.meet)[2])>>
           srcLL == IF nxt.meet = <<>> THEN <<>>
                    ELSE <<LevelStream(lv[l + 1], nxt.start, nxt.end,
                                       FullScope(nxt.meet)[1], FullScope(nxt.meet)[2])>>
           built == BuildTables(MergeRows(srcL \o srcLL), l + 1, st.next)
       IN  IF this.end < 0 \/ nxt.panic
           THEN [st EXCEPT !.err = "panic"]
           ELSE IF nxt.meet # <<>> /\ nxt.start >= Len(lv[l + 1])
           THEN [st EXCEPT !.err = "EmptyLevel"]
           ELSE IF nxt.meet # <<>> /\ LevelFs[l] # LevelFs[l + 1]
           THEN [st EXCEPT !.err = "io"]
           ELSE [edits |-> st.edits \o built.edits
                             \o [i \in 1..Len(this.meet) |-> RemoveEdit(l, this.meet[i].gen)]
                             \o [i \in 1..Len(nxt.meet) |-> RemoveEdit(l + 1, nxt.meet[i].gen)],
                 files |-> st.files @@ built.files,
                 next |-> built.next, min |-> nxt.min, max |-> nxt.max, err |-> "none"]
       : nxt \in NextLevelScopes(lv[l + 1], st.min, st.max, this.meet)}
      : sl \in ScopeSearch(st.min, lv[l])}

\* Compactor::major_compaction: every outcome of the loop from level l.
RECURSIVE MajorLoop(_, _, _)
MajorLoop(lv, l, st) ==
    IF st.err # "none" \/ l >= MaxLevel - 2 \/ ~IsThresholdExceededMajor(lv, l)
    THEN {st}
    ELSE UNION {MajorLoop(lv, l + 1, s2) : s2 \in MajorRound(lv, l, st)}

MajorCompaction(lv, min, max, gen0) ==
    MajorLoop(lv, 0, [edits |-> <<>>, files |-> <<>>, next |-> gen0,
                      min |-> min, max |-> max, err |-> "none"])

-----------------------------------------------------------------------------
(* Minor compaction and the compaction task (compaction/mod.rs)           *)

\* Mutant: into_immutable leaving its file id unset (no file has id -1).
IntoImmutableLosesWalId(data, wal) == [wal |-> -1, rows |-> SortRows(data)]

\* Mutable::into_immutable: the WAL file id and the map's rows in order.
IntoImmutable(data, wal) == [wal |-> wal, rows |-> SortRows(data)]

\* check_then_compaction: how many of the oldest immutables a minor
\* compaction takes.
\* Mutant: a Flush compacting only immutable_chunk_num batches.
ChunkNumIgnoresManual(manual, imms) == ImmutableChunkNum

ChunkNum(manual, imms) == IF manual THEN Len(imms) ELSE ImmutableChunkNum

\* Compactor::minor_compaction of excess = imms[0..chunk]: one level-0
\* file holding the batches one after the other, scoped by the least and
\* greatest key of the batches, recording their WAL ids and the WAL ids
\* recovered at open.
MinorFile(imms, chunk) == FlattenSeq([i \in 1..chunk |-> imms[i].rows])

\* Mutant: the scope taken from the first and last key written.
MinorScopeFirstLast(imms, chunk, recover, gen) ==
    [gen |-> gen,
     min |-> MinorFile(imms, chunk)[1].key,
     max |-> MinorFile(imms, chunk)[Len(MinorFile(imms, chunk))].key,
     wals |-> recover \cup {imms[i].wal : i \in 1..chunk}]

\* Mutant: the scope records the WAL ids of the whole queue.
MinorScopeAllWals(imms, chunk, recover, gen) ==
    [gen |-> gen,
     min |-> Min(KeysOf(MinorFile(imms, chunk))),
     max |-> Max(KeysOf(MinorFile(imms, chunk))),
     wals |-> recover \cup {imms[i].wal : i \in 1..Len(imms)}]

\* Mutant: the scope leaves out the WAL ids recovered at open.
MinorScopeNoRecover(imms, chunk, recover, gen) ==
    [gen |-> gen,
     min |-> Min(KeysOf(MinorFile(imms, chunk))),
     max |-> Max(KeysOf(MinorFile(imms, chunk))),
     wals |-> {imms[i].wal : i \in 1..chunk}]

MinorScope(imms, chunk, recover, gen) ==
    [gen |-> gen,
     min |-> Min(KeysOf(MinorFile(imms, chunk))),
     max |-> Max(KeysOf(MinorFile(imms, chunk))),
     wals |-> recover \cup {imms[i].wal : i \in 1..chunk}]

\* After the upgrade: immutables.split_off(chunk_num) kept as the queue.
\* Mutant: split_off one past the chunk.
SpliceOffByOne(imms, chunk) == SubSeq(imms, chunk + 2, Len(imms))

Splice(imms, chunk) == SubSeq(imms, chunk + 1, Len(imms))

-----------------------------------------------------------------------------
(* Actions                                                                 *)

Init ==
    /\ mutable = {}
    /\ mutableWal = 0
    /\ immutables = <<>>
    /\ recoverWalIds = {}
    /\ trigger = 0
    /\ tasks = <<>>
    /\ cstate = Idle
    /\ levels = [l \in Levels |-> <<>>]
    /\ clock = 0
    /\ manifestTs = 0
    /\ files = <<>>
    /\ walFiles = {0}
    /\ nextId = 1
    /\ written = <<>>
    /\ writeWal = <<>>
    /\ durable = {}
    /\ failures = 0
    /\ synced = {}
    /\ flushUpTo = 0
    /\ crashes = 0

\* Writes logged to WAL file w.
WalWrites(w) == {i \in 1..Len(written) : writeWal[i] = w}

\* DB write -> Mutable::insert -> Mutable::append: WAL write, then the
\* entry replaces any entry with the same (key, ts); when the Length
\* trigger reports the table full the writer sends a Freeze task.  The
\* write is stamped with the Version's timestamp counter: its current
\* value (load_ts), or a value of its own taken by increase_ts as an
\* optimistic transaction's commit does.  The WAL record goes to the
\* file's buffer (wal_buffer_size), which is written out, this record
\* included, whenever it fills up.
Write(k) ==
    /\ Len(written) < MaxWrites
    /\ LET ts == IF CommitTimestamps THEN clock + 1 ELSE clock
           row == [key |-> k, ts |-> ts, val |-> Len(written) + 1]
       IN  /\ mutable' = {r \in mutable : ~SameKeyTs(r, row)} \cup {row}
           /\ written' = Append(written, row)
           /\ clock' = ts
    /\ writeWal' = Append(writeWal, mutableWal)
    /\ \E spill \in BOOLEAN :
          synced' = IF spill \/ ~WalBuffered
                    THEN synced \cup WalWrites(mutableWal) \cup {Len(written) + 1}
                    ELSE synced
    /\ trigger' = trigger + 1
    /\ tasks' = IF trigger + 1 >= TriggerLength /\ Len(tasks) < MaxTasks
                THEN Append(tasks, "Freeze") ELSE tasks
    /\ UNCHANGED <<mutableWal, immutables, recoverWalIds, cstate, durable,
                   failures, flushUpTo, crashes, levels, manifestTs, files,
                   walFiles, nextId>>

\* Mutable::flush_wal: write the buffered records of the mutable's WAL.
FlushWal ==
    /\ WalBuffered
    /\ synced' = synced \cup WalWrites(mutableWal)
    /\ UNCHANGED <<storage, tasks, cstate, version, written, writeWal, durable,
                   failures, flushUpTo, crashes>>

\* DB::flush sends a Flush task.
RequestFlush ==
    /\ Len(tasks) < MaxTasks
    /\ tasks' = Append(tasks, "Flush")
    /\ flushUpTo' = Len(written)
    /\ UNCHANGED <<storage, cstate, version, written, writeWal, durable,
                   failures, synced, crashes>>

\* check_then_compaction, under the write guard: reset the trigger, turn a
\* non-empty mutable into an immutable behind a fresh mutable (new WAL),
\* flushing its WAL, then decide whether a minor compaction follows; if
\* so, take the recovered WAL ids and continue under the upgradable guard,
\* otherwise a Flush goes on to the manifest rewrite.
CheckThenCompaction ==
    /\ cstate.phase = "idle"
    /\ tasks # <<>>
    /\ LET manual == Head(tasks) = "Flush"
           frozen == mutable # {}
           imms == IF frozen
                   THEN Append(immutables, IntoImmutable(mutable, mutableWal))
                   ELSE immutables
           minor == (frozen \/ manual)
                    /\ ((manual /\ imms # <<>>) \/ Len(imms) > ImmutableChunkMaxNum)
           snap == IF manual THEN {i \in 1..Len(written) : KeptIn(i, StoredVals)} ELSE {}
       IN  /\ tasks' = Tail(tasks)
           /\ trigger' = 0
           /\ immutables' = imms
           /\ IF frozen
              THEN /\ mutable' = {}
                   /\ mutableWal' = nextId
                   /\ walFiles' = walFiles \cup {nextId}
                   /\ nextId' = nextId + 1
                   /\ synced' = synced \cup WalWrites(mutableWal)
              ELSE UNCHANGED <<mutable, mutableWal, walFiles, nextId, synced>>
           /\ IF minor
              THEN /\ cstate' = [phase |-> "minor", manual |-> manual,
                                 recover |-> recoverWalIds, snap |-> snap]
                   /\ recoverWalIds' = {}
                   /\ UNCHANGED durable
              ELSE /\ cstate' = IF manual THEN [Idle EXCEPT !.phase = "rewrite", !.snap = snap]
                                 ELSE Idle
                   /\ UNCHANGED recoverWalIds
    /\ UNCHANGED <<levels, clock, manifestTs, files, written, writeWal, durable, failures,
                   flushUpTo, crashes>>

\* check_then_compaction when Mutable::into_immutable fails to flush the
\* WAL: the mutable was already replaced, so its entries are dropped and
\* the task ends with the error.
FreezeFails ==
    /\ "freeze" \in IoFailures /\ failures < MaxFailures
    /\ cstate.phase = "idle"
    /\ tasks # <<>>
    /\ mutable # {}
    /\ tasks' = Tail(tasks)
    /\ trigger' = 0
    /\ mutable' = {}
    /\ mutableWal' = nextId
    /\ walFiles' = walFiles \cup {nextId}
    /\ nextId' = nextId + 1
    /\ failures' = failures + 1
    /\ UNCHANGED <<immutables, recoverWalIds, cstate, levels, clock, manifestTs,
                   files, written, writeWal, durable, synced, flushUpTo, crashes>>

\* check_then_compaction under the upgradable guard: excess is the slice
\* immutables[0..chunk_num], which panics past the end of the queue;
\* minor compaction of the chunk, major compaction if level 0 is over its
\* threshold, apply_edits of Add(0) ++ major edits ++ LatestTimeStamp,
\* and, after the upgrade, the splice that drops the compacted
\* immutables; a Flush then goes on to the manifest rewrite.  A major
\* compaction that panics ends the compaction task; one that fails
\* returns the error before the edits.
MinorCompaction ==
    /\ cstate.phase = "minor"
    /\ LET chunk == ChunkNum(cstate.manual, immutables)
           scope == MinorScope(immutables, chunk, cstate.recover, nextId)
           files1 == files @@ (nextId :> MinorFile(immutables, chunk))
           majors == IF IsThresholdExceededMajor(levels, 0)
                     THEN MajorCompaction(levels, scope.min, scope.max, nextId + 1)
                     ELSE {[edits |-> <<>>, files |-> <<>>, next |-> nextId + 1,
                            err |-> "none"]}
       IN  IF chunk > Len(immutables)
           THEN /\ cstate' = Dead
                /\ UNCHANGED <<levels, clock, manifestTs, files, walFiles, nextId,
                               immutables>>
           ELSE \E o \in majors :
             /\ files' = files1 @@ o.files
             /\ nextId' = o.next
             /\ IF o.err = "none"
                THEN LET edits == <<AddEdit(0, scope)>> \o o.edits \o <<TsEdit(clock + 1)>>
                     IN  /\ levels' = ApplyEdits(levels, edits)
                         /\ clock' = clock + 1
                         /\ manifestTs' = clock + 1
                         /\ walFiles' = walFiles \ RetiredWals(edits)
                         /\ immutables' = Splice(immutables, chunk)
                         /\ cstate' = IF cstate.manual THEN [cstate EXCEPT !.phase = "rewrite"]
                                       ELSE Idle
                ELSE /\ cstate' = IF o.err = "panic" THEN Dead ELSE Idle
                     /\ UNCHANGED <<levels, clock, manifestTs, walFiles, immutables>>
    /\ UNCHANGED <<mutable, mutableWal, recoverWalIds, trigger, tasks, written, writeWal,
                   durable, failures, synced, flushUpTo, crashes>>

\* An I/O error while writing the level-0 file: the task ends with the
\* error; the recovered WAL ids it took are not put back.
MinorFails ==
    /\ "minor" \in IoFailures /\ failures < MaxFailures
    /\ cstate.phase = "minor"
    /\ cstate' = Idle
    /\ nextId' = nextId + 1
    /\ failures' = failures + 1
    /\ UNCHANGED <<storage, tasks, levels, clock, manifestTs, files, walFiles,
                   written, writeWal, durable, synced, flushUpTo, crashes>>

\* A Flush ends with version_set.rewrite(): the manifest is rewritten as a
\* snapshot of the current version, and the flush is then answered.
Rewrite ==
    /\ cstate.phase = "rewrite"
    /\ cstate' = Idle
    /\ durable' = durable \cup cstate.snap
    /\ UNCHANGED <<storage, tasks, version, written, writeWal, failures, synced,
                   flushUpTo, crashes>>

\* rewrite().await.unwrap() on a manifest I/O error: the compaction task
\* panics.
RewriteFails ==
    /\ "manifest" \in IoFailures /\ failures < MaxFailures
    /\ cstate.phase = "rewrite"
    /\ cstate' = Dead
    /\ failures' = failures + 1
    /\ UNCHANGED <<storage, tasks, version, written, writeWal, durable, synced,
                   flushUpTo, crashes>>

\* Writes replayed at open: those whose record reached one of the WAL
\* files still present, in file id order and log order within a file.
ReplayOrder ==
    SetToSortSeq({i \in synced : writeWal[i] \in walFiles},
                 LAMBDA i, j : writeWal[i] < writeWal[j] \/ (writeWal[i] = writeWal[j] /\ i < j))

\* A crash at any point, then DB::open: memory, the task channel and the
\* WAL buffers are lost; the manifest gives back the version and its
\* timestamp; every WAL file left is replayed into a fresh mutable
\* (append without logging) and its id stashed in recover_wal_ids; the
\* fresh mutable gets a WAL file of its own.
Restart ==
    /\ crashes < MaxCrashes
    /\ mutable' = FoldLeft(LAMBDA d, i : {r \in d : ~SameKeyTs(r, written[i])} \cup {written[i]},
                           {}, ReplayOrder)
    /\ recoverWalIds' = walFiles
    /\ mutableWal' = nextId
    /\ walFiles' = walFiles \cup {nextId}
    /\ nextId' = nextId + 1
    /\ immutables' = <<>>
    /\ trigger' = 0
    /\ tasks' = <<>>
    /\ cstate' = Idle
    /\ clock' = manifestTs
    /\ crashes' = crashes + 1
    /\ UNCHANGED <<levels, manifestTs, files, written, writeWal, durable, failures,
                   synced, flushUpTo>>

Next ==
    \/ \E k \in Keys : Write(k)
    \/ FlushWal
    \/ RequestFlush
    \/ CheckThenCompaction
    \/ FreezeFails
    \/ MinorCompaction
    \/ MinorFails
    \/ Rewrite
    \/ RewriteFails
    \/ Restart

Spec == Init /\ [][Next]_vars

\* The compaction task loops over its channel and runs each task to the
\* end; the writers and flush callers owe nothing.  MinorCompaction is
\* enabled exactly in the minor phase (MajorCompaction always yields an
\* outcome), so its weak fairness is stated over that condition.
Fairness ==
    /\ WF_vars(CheckThenCompaction)
    /\ WF_vars(Rewrite)
    /\ <>[](cstate.phase = "minor") => []<><<MinorCompaction>>_vars

FairSpec == Spec /\ Fairness

-----------------------------------------------------------------------------
(* Properties                                                              *)

Rows == [key : Keys, ts : Nat, val : Nat]

TypeOK ==
    /\ mutable \subseteq Rows
    /\ immutables \in Seq([wal : Nat, rows : Seq(Rows)])
    /\ recoverWalIds \subseteq Nat
    /\ tasks \in Seq({"Freeze", "Flush"})
    /\ cstate.phase \in {"idle", "minor", "rewrite", "dead"}
    /\ levels \in [Levels -> Seq(Tables)]
    /\ clock \in Nat /\ nextId \in Nat
    /\ \A g \in DOMAIN files : files[g] \in Seq(Rows)
    /\ written \in Seq(Rows) /\ writeWal \in Seq(Nat)
    /\ durable \subseteq 1..Len(written)
    /\ synced \subseteq 1..Len(written) /\ flushUpTo \in 0..Len(written)
    /\ manifestTs \in Nat /\ crashes \in 0..MaxCrashes

\* The last write of each key.
IsLatest(i) == \A j \in (i + 1)..Len(written) : written[j].key # written[i].key

(***************************************************************************)
(* No lost write: the latest write of every key is still held by the      *)
(* mutable, an immutable or a table of the current Version, whatever      *)
(* interleaving of writes, freezes, minor and major compactions and       *)
(* splices of the immutable queue happened (check_then_compaction).       *)
(***************************************************************************)
NoLostWrite ==
    \A i \in 1..Len(written) : IsLatest(i) => i \in StoredVals

(***************************************************************************)
(* Flush durability (spec 8.2): once a manual flush completes, every      *)
(* write made before it (or a later write of its key) is held by a table  *)
(* of the current Version, through all later compactions.                 *)
(***************************************************************************)
FlushDurable ==
    \A i \in durable : KeptIn(i, VersionVals)

(***************************************************************************)
(* WAL retirement: a WAL file is deleted only when the version records it *)
(* in a level-0 scope, so every write whose record reached a WAL file now *)
(* gone (or a later write of its key) is held by a table of the current  *)
(* Version.  (A record still in the buffer at a crash never reached it.) *)
(***************************************************************************)
WalRetiredOnlyWhenPersisted ==
    \A i \in synced : writeWal[i] \notin walFiles => KeptIn(i, VersionVals)

(***************************************************************************)
(* The compaction task survives: no sequence of writes, freezes, flushes  *)
(* and compactions makes check_then_compaction panic (the usize underflow *)
(* of end_l - 1 in this_level_scopes, an inverted slice range in          *)
(* next_level_scopes, or immutables[0..chunk_num] past the queue's end), *)
(* after which no Freeze or Flush task would ever be served.              *)
(***************************************************************************)
CompactionTaskAlive == cstate.phase # "dead"

(***************************************************************************)
(* Level order (spec 3 and 8.3, and the assertion of the                  *)
(* test_flush_major_level_sort test): on every level >= 1 the tables are  *)
(* disjoint and sorted by key range.                                       *)
(***************************************************************************)
LevelsSortedDisjoint ==
    \A l \in Levels \ {0} :
        \A i \in 1..(Len(levels[l]) - 1) : levels[l][i].max < levels[l][i + 1].min

(***************************************************************************)
(* Scope soundness: every entry of a table of the current Version lies in *)
(* the table's scope [min, max], which reads use to skip tables.          *)
(***************************************************************************)
ScopesCoverRows ==
    \A l \in Levels : \A i \in 1..Len(levels[l]) :
        \A r \in RowsOf(files[levels[l][i].gen]) : ScopeContains(levels[l][i], r.key)

(***************************************************************************)
(* Crash safety: a write whose WAL record reached the file, or a later    *)
(* write of its key, is still held in memory or in the version after any  *)
(* crash and restart (the WAL replay at open, recover_wal_ids, and the    *)
(* minor compaction that later retires the replayed files).               *)
(***************************************************************************)
SyncedWritesSurvive ==
    \A i \in synced : KeptIn(i, StoredVals)

(***************************************************************************)
(* WAL accounting: every WAL file present belongs to the mutable, to an   *)
(* immutable of the queue, to recover_wal_ids, or to the minor compaction *)
(* under way, so some later minor compaction will record it in a level-0  *)
(* scope and retire it.  A file outside all of these is never deleted.    *)
(***************************************************************************)
WalAccounted ==
    \A f \in walFiles :
        \/ f = mutableWal
        \/ \E i \in 1..Len(immutables) : immutables[i].wal = f
        \/ f \in recoverWalIds \cup cstate.recover

(***************************************************************************)
(* Flush progress: once DB::flush has been called after write n, write n  *)
(* (or a later write of its key) eventually sits in a table of the        *)
(* version, as long as the compaction task keeps running its tasks.       *)
(***************************************************************************)
FlushCompletes ==
    \A n \in 1..MaxWrites : flushUpTo >= n ~> KeptIn(n, VersionVals)

\* The newest entry of key k held anywhere, as a read at the greatest
\* timestamp sees it; NoValue (0) when there is none.
ReadLatest(k) ==
    LET rs == {r \in StoredRows : r.key = k}
    IN  IF rs = {} THEN 0 ELSE (CHOOSE r \in rs : \A q \in rs : q.ts <= r.ts).val

(***************************************************************************)
(* Refinement: reading every key at the greatest timestamp behaves as the *)
(* abstract store: each write makes its value the one read for its key,   *)
(* and freezes, flushes, minor and major compactions (and restarts) change *)
(* nothing a reader sees.                                                   *)
(***************************************************************************)
KV == INSTANCE KVStore WITH store <- [k \in Keys |-> ReadLatest(k)],
                            count <- Len(written), NoValue <- 0

Refines == KV!Spec

=============================================================================
