----------------------------- MODULE VersionSet -----------------------------
(***************************************************************************)
(* Versions and version edits (version/mod.rs, version/set.rs and          *)
(* scope.rs are not among the sources under src/; this module follows      *)
(* spec sections 3, 4.5.2 and 4.6).                                        *)
(*                                                                         *)
(* A version is the function  levels : 0..MaxLevel-1 -> Seq(Scope)  where  *)
(* a scope is  [min |-> k, max |-> k, gen |-> g, wals |-> W]  : the key    *)
(* interval of a table, its file id, and the WAL files whose data it       *)
(* subsumes (empty for tables written by major compaction).                *)
(***************************************************************************)
EXTENDS Integers, Sequences, SequencesExt, FiniteSets

CONSTANTS
    MaxLevel,              \* MAX_LEVEL: number of levels
    MajorThreshold,        \* major_threshold_with_sst_size
    LevelMagnification     \* level_sst_magnification

ASSUME MaxLevel \in Nat /\ MaxLevel >= 3
ASSUME MajorThreshold \in Nat /\ LevelMagnification \in Nat \ {0}

Levels == 0..(MaxLevel - 1)

\* Scope::contains: the closed interval [min, max] holds key.
ScopeContains(scope, key) == scope.min <= key /\ key <= scope.max

(***************************************************************************)
(* Version::scope_search: a lower-bound binary search by scope.max,        *)
(* returning a 0-based index.  Level 0 is in arrival order, not sorted by  *)
(* max, and a binary search over unsorted input returns an index that      *)
(* depends on the probe sequence of the std build.  The set below holds    *)
(* every index such a search can return: a boundary i with                 *)
(* s[i].max < key <= s[i+1].max, or any index whose max equals key.  On a  *)
(* level sorted by max it is exactly the lower bound.                      *)
(***************************************************************************)
ScopeSearch(key, s) ==
    {i \in 0..Len(s) : /\ i = Len(s) \/ s[i + 1].max >= key
                       /\ i = 0 \/ s[i].max < key}
    \cup {i \in 0..(Len(s) - 1) : s[i + 1].max = key}

\* Mutant: the strict comparison spec 4.5 writes.
IsThresholdExceededMajorStrict(levels, level) ==
    Len(levels[level]) > MajorThreshold * LevelMagnification ^ level

\* DbOption::is_threshold_exceeded_major: the level holds at least
\* major_threshold_with_sst_size * level_sst_magnification^level tables.
\* Spec 4.5 writes ">"; the major_compaction test of compaction/mod.rs
\* expects a compaction of a level 0 holding exactly the threshold.
IsThresholdExceededMajor(levels, level) ==
    Len(levels[level]) >= MajorThreshold * LevelMagnification ^ level

(***************************************************************************)
(* VersionSet::apply_edits, applied to the level slices one edit at a      *)
(* time: Add appends at level 0 (arrival order) and inserts by min on      *)
(* the sorted levels; Remove drops the scope with that gen if present;     *)
(* LatestTimeStamp does not touch the levels.                              *)
(***************************************************************************)
InsertByMin(s, scope) ==
    InsertAt(s, Cardinality({i \in 1..Len(s) : s[i].min < scope.min}) + 1, scope)

ApplyEdit(levels, e) ==
    CASE e.kind = "add" ->
            [levels EXCEPT ![e.level] =
                IF e.level = 0 THEN Append(@, e.scope) ELSE InsertByMin(@, e.scope)]
      [] e.kind = "remove" ->
            [levels EXCEPT ![e.level] = SelectSeq(@, LAMBDA sc : sc.gen # e.gen)]
      [] OTHER -> levels

ApplyEdits(levels, edits) == FoldLeft(ApplyEdit, levels, edits)

\* WAL files an edit batch retires: the wal ids recorded in added scopes.
RetiredWals(edits) ==
    UNION {edits[i].scope.wals : i \in {j \in 1..Len(edits) : edits[j].kind = "add"}}

\* Gens of all tables of a version.
LiveGens(levels) ==
    UNION {{levels[l][i].gen : i \in 1..Len(levels[l])} : l \in Levels}

=============================================================================
