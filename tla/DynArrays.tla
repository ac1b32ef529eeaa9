------------------------------ MODULE DynArrays ------------------------------
(***************************************************************************)
(* The columnar builder and arrays of dynamic records                      *)
(* (record/runtime/array.rs): DynRecordBuilder takes (timestamped key,     *)
(* optional record) rows into a null bitmap, a timestamp column and one    *)
(* column builder per user column; finish turns them into the immutable    *)
(* arrays and the record batch; get reads one row back under a projection *)
(* mask.                                                                   *)
(*                                                                         *)
(* Column data is abstracted: a value is a natural number, the default     *)
(* value of every type is 0, and a String or Bytes value v stands for v    *)
(* bytes.  The slot of a null is the model value Null.                     *)
(***************************************************************************)
EXTENDS Integers, Sequences, SequencesExt, FiniteSets, Functions

CONSTANTS
    Cols,            \* number of user columns
    PK,              \* primary_key_index (among the user columns)
    ColType,         \* column -> DataType of its schema field
    SchemaNullable,  \* column -> is_nullable() of its schema field
    RecordNullable,  \* column -> is_nullable() of the record values pushed
    Vals,            \* column values (and keys) callers push
    Stamps,          \* timestamps callers push
    MaxRows,         \* bound on the rows pushed into one batch
    Null,            \* model value: a null slot
    NoneV            \* model value: a record value that is None

UserCols == 0..(Cols - 1)
Types == {"UInt8", "UInt16", "UInt32", "UInt64", "Int8", "Int16", "Int32",
          "Int64", "String", "Boolean", "Bytes"}

ASSUME PK \in UserCols /\ ColType \in [UserCols -> Types]
ASSUME SchemaNullable \in [UserCols -> BOOLEAN] /\ RecordNullable \in [UserCols -> BOOLEAN]
ASSUME Vals \subseteq Nat /\ Stamps \subseteq Nat /\ MaxRows \in Nat

\* USER_COLUMN_OFFSET: _null and _ts come before the user columns.
USER_COLUMN_OFFSET == 2

VARIABLES
    nulls,     \* DynRecordBuilder._null: one bit per row, TRUE for a tombstone
    tss,       \* DynRecordBuilder._ts
    builders,  \* DynRecordBuilder.builders: column -> slots appended so far
    arrays,    \* the DynRecordImmutableArrays of the last finish
    panicked,  \* finish hit `expect("create record batch must be successful")`
    pushed,    \* history: rows pushed since the last finish
    batch      \* history: rows of the batch the last finish produced

vars == <<nulls, tss, builders, arrays, panicked, pushed, batch>>

NoArrays == [null |-> <<>>, ts |-> <<>>, cols |-> [c \in UserCols |-> <<>>],
             nullable |-> [c \in UserCols |-> FALSE]]

-----------------------------------------------------------------------------
(* Builder operations                                                      *)

\* ArrowArrays::builder: an empty column builder per user column (the
\* schema's fields after _null and _ts), an empty bitmap and ts column.
Init ==
    /\ nulls = <<>>
    /\ tss = <<>>
    /\ builders = [c \in UserCols |-> <<>>]
    /\ arrays = NoArrays
    /\ panicked = FALSE
    /\ pushed = <<>>
    /\ batch = <<>>

\* The Default::default() of every DataType (0, "", false, empty bytes).
Default(t) == 0

\* push, for one non-key column of a record: the value, a null when the
\* record's value is nullable, the type's default otherwise.
\* Mutant: the Option appended as it is.
AppendColumnValueRaw(s, c, v) == Append(s, v)

AppendColumnValue(s, c, v) ==
    Append(s, CASE v # NoneV -> v
                [] RecordNullable[c] -> Null
                [] OTHER -> Default(ColType[c]))

\* push of a row without a record (a remove): every non-key column gets
\* its type's default.
\* Mutant: a tombstone row leaves nulls in the nullable columns.
AppendDefaultNullable(s, c) ==
    Append(s, IF SchemaNullable[c] THEN Null ELSE Default(ColType[c]))

AppendDefault(s, c) == Append(s, Default(ColType[c]))

\* push_primary_key: the key's value goes to the primary key column.
\* Mutant: the key written to the first user column.
PushPrimaryKeyFirst(bs, key) == [bs EXCEPT ![0] = Append(@, key)]

PushPrimaryKey(bs, key) == [bs EXCEPT ![PK] = Append(@, key)]

\* Builder::push(key, row): the null bit, the timestamp, the key column,
\* then every other column from the record (zipped with its columns) or
\* the defaults.  A row is NoneV (a remove) or column -> value.
Push(key, ts, row) ==
    /\ ~panicked
    /\ Len(nulls) < MaxRows
    /\ nulls' = Append(nulls, row = NoneV)
    /\ tss' = Append(tss, ts)
    /\ LET bs == PushPrimaryKey(builders, key)
       IN  builders' = [c \in UserCols |->
                          IF c = PK THEN bs[c]
                          ELSE IF row = NoneV THEN AppendDefault(bs[c], c)
                          ELSE AppendColumnValue(bs[c], c, row[c])]
    /\ pushed' = Append(pushed, [key |-> key, ts |-> ts, row |-> row])
    /\ UNCHANGED <<arrays, panicked, batch>>

\* written_size: the bitmap's bytes, 4 bytes per timestamp, and the value
\* buffer of every column builder: the fixed width per slot (nulls
\* included), one bit per slot for Boolean, the bytes of the values for
\* String and Bytes.
Width(t) ==
    CASE t \in {"UInt8", "Int8"} -> 1
      [] t \in {"UInt16", "Int16"} -> 2
      [] t \in {"UInt32", "Int32"} -> 4
      [] t \in {"UInt64", "Int64"} -> 8
      [] OTHER -> 0

Bytes(n) == (n + 7) \div 8

ColumnSize(t, s) ==
    CASE t \in {"String", "Bytes"} ->
           FoldSeq(LAMBDA v, acc : acc + (IF v = Null THEN 0 ELSE v), 0, s)
      [] t = "Boolean" -> Bytes(Len(s))
      [] OTHER -> Width(t) * Len(s)

WrittenSize(ns, ts, bs) ==
    FoldSet(LAMBDA c, acc : acc + ColumnSize(ColType[c], bs[c]),
            Bytes(Len(ns)) + 4 * Len(ts), UserCols)

\* finish, for one column: the finished array (the builder is reset) and
\* the Value describing it, whose nullability is the schema field's.
FinishColumn(c) == [values |-> builders[c], nullable |-> SchemaNullable[c]]

\* RecordBatch::try_new(schema, arrays) refuses a null in a field the
\* schema declares non-nullable.
BatchValid == \A c \in UserCols : ~SchemaNullable[c] => Null \notin ToSet(builders[c])

\* Builder::finish(None): the arrays and record batch of every row pushed
\* since the last finish, the builders left empty; the expect panics
\* when try_new fails.
Finish ==
    /\ ~panicked
    /\ IF BatchValid
       THEN /\ arrays' = [null |-> nulls, ts |-> tss,
                          cols |-> [c \in UserCols |-> FinishColumn(c).values],
                          nullable |-> [c \in UserCols |-> FinishColumn(c).nullable]]
            /\ nulls' = <<>>
            /\ tss' = <<>>
            /\ builders' = [c \in UserCols |-> <<>>]
            /\ batch' = pushed
            /\ pushed' = <<>>
            /\ UNCHANGED panicked
       ELSE /\ panicked' = TRUE
            /\ UNCHANGED <<nulls, tss, builders, arrays, pushed, batch>>

Rows == {NoneV} \cup [UserCols \ {PK} -> Vals \cup {NoneV}]

Next ==
    \/ \E k \in Vals, t \in Stamps, r \in Rows : Push(k, t, r)
    \/ Finish

Spec == Init /\ [][Next]_vars

-----------------------------------------------------------------------------
(* ArrowArrays::get                                                       *)

\* A projection mask over the leaves: _null, _ts, then the user columns.
Masks == SUBSET (0..(Cols + USER_COLUMN_OFFSET - 1))

\* get(offset, mask): None past the end, Some(None) for a tombstone,
\* otherwise a record whose columns are, for each user column, the
\* scalar at offset when the column is projected and not nullable,
\* followed by the Value of the whole column.
Get(offset, mask) ==
    IF offset >= Len(arrays.null) THEN [kind |-> "none"]
    ELSE IF arrays.null[offset + 1] THEN [kind |-> "tomb"]
    ELSE [kind |-> "row", pk |-> 2,
          cols |-> FlattenSeq(
             [i \in 1..Cols |->
                LET c == i - 1
                    whole == [col |-> c, kind |-> "array", v |-> -1]
                IN  IF c + USER_COLUMN_OFFSET \in mask /\ ~arrays.nullable[c]
                    THEN <<[col |-> c, kind |-> "scalar", v |-> arrays.cols[c][offset + 1]], whole>>
                    ELSE <<whole>>])]

-----------------------------------------------------------------------------
(* Properties                                                              *)

Slots == Vals \cup {0, Null}

TypeOK ==
    /\ nulls \in Seq(BOOLEAN) /\ tss \in Seq(Stamps)
    /\ builders \in [UserCols -> Seq(Slots)]
    /\ arrays.null \in Seq(BOOLEAN)
    /\ arrays.cols \in [UserCols -> Seq(Slots)]
    /\ panicked \in BOOLEAN

\* What the schema says row p stores in column c (spec 4.2): the key in
\* the primary key column, the type's default for a tombstone, the value,
\* or for a None value a null exactly when the schema field is nullable.
Stored(p, c) ==
    CASE c = PK -> p.key
      [] p.row = NoneV -> Default(ColType[c])
      [] p.row[c] # NoneV -> p.row[c]
      [] SchemaNullable[c] -> Null
      [] OTHER -> Default(ColType[c])

(***************************************************************************)
(* Column round trip: the arrays of the last finish hold, for every row   *)
(* pushed before it, in push order, its tombstone bit, its timestamp and  *)
(* in every user column what the schema says the row stores there, and   *)
(* all columns have one slot per row (push, push_primary_key, finish).    *)
(***************************************************************************)
ColumnsRoundTrip ==
    /\ Len(arrays.null) = Len(batch) /\ Len(arrays.ts) = Len(batch)
    /\ \A c \in UserCols : Len(arrays.cols[c]) = Len(batch)
    /\ \A i \in 1..Len(batch) :
          /\ arrays.null[i] = (batch[i].row = NoneV)
          /\ arrays.ts[i] = batch[i].ts
          /\ \A c \in UserCols : arrays.cols[c][i] = Stored(batch[i], c)

\* The bytes the value buffer of column c holds for the rows of history
\* h, by the column's type: the value of each String or Bytes slot (a null
\* or an empty default takes none), one bit per slot of a Boolean column,
\* the type's width per slot otherwise.
ValueBytes(v) == IF v = Null THEN 0 ELSE v

PushedColumnBytes(h, c) ==
    CASE ColType[c] \in {"String", "Bytes"} ->
           FoldSeq(LAMBDA p, acc : acc + ValueBytes(Stored(p, c)), 0, h)
      [] ColType[c] = "Boolean" -> Bytes(Len(h))
      [] OTHER -> Width(ColType[c]) * Len(h)

ProjectedRow(offset, mask) ==
    [i \in 1..Cols |->
        [col |-> i - 1, kind |-> "scalar",
         v |-> IF (i - 1) + USER_COLUMN_OFFSET \in mask
               THEN Stored(batch[offset + 1], i - 1) ELSE Null]]

(***************************************************************************)
(* Projected get: for a live row, get returns each user column once: the  *)
(* row's value for a projected column and nothing for an excluded one.    *)
(***************************************************************************)
GetProjectsRow ==
    \A i \in 0..(Len(batch) - 1), m \in Masks :
        Get(i, m).kind = "row" => Get(i, m).cols = ProjectedRow(i, m)

====
