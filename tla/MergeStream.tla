---------------------------- MODULE MergeStream ----------------------------
(***************************************************************************)
(* The k-way merge of scan sources (stream/merge.rs, not part of the       *)
(* sources under src/, so modelled from spec section 4.4) and the order    *)
(* it merges under.  A row is one entry of a table:                        *)
(*   [key |-> k, ts |-> t, val |-> v]                                      *)
(* where val identifies the write that produced the entry.                 *)
(*                                                                         *)
(* The merge is a heap over the heads of the sources: it repeatedly emits  *)
(* the smallest head under (key asc, ts desc), the earliest source winning *)
(* a tie, and it drops an entry equal in (key, ts) to the one it emitted   *)
(* last.  Sources are NOT assumed sorted: the heap emits whatever head is  *)
(* smallest, so an unsorted source yields an unsorted merge.               *)
(***************************************************************************)
EXTENDS Integers, Sequences

\* Timestamped key order: key ascending, timestamp descending.
RowBefore(a, b) == a.key < b.key \/ (a.key = b.key /\ a.ts > b.ts)

SameKeyTs(a, b) == a.key = b.key /\ a.ts = b.ts

\* Index of the source whose head the heap pops next.
HeapWinner(srcs) ==
    LET live == {i \in 1..Len(srcs) : srcs[i] # <<>>}
    IN  CHOOSE i \in live :
            \A j \in live \ {i} :
                \/ RowBefore(Head(srcs[i]), Head(srcs[j]))
                \/ SameKeyTs(Head(srcs[i]), Head(srcs[j])) /\ i < j

\* Heap order of all entries of all sources, duplicates included.
RECURSIVE HeapOrder(_)
HeapOrder(srcs) ==
    IF \A i \in 1..Len(srcs) : srcs[i] = <<>>
    THEN <<>>
    ELSE LET w == HeapWinner(srcs)
         IN  <<Head(srcs[w])>> \o
               HeapOrder([srcs EXCEPT ![w] = Tail(srcs[w])])

\* Drop an entry whose (key, ts) equals that of the entry emitted before it.
RECURSIVE DedupAdjacent(_, _)
DedupAdjacent(s, last) ==
    IF s = <<>> THEN <<>>
    ELSE IF last # <<>> /\ SameKeyTs(Head(s), last[1])
         THEN DedupAdjacent(Tail(s), last)
         ELSE <<Head(s)>> \o DedupAdjacent(Tail(s), <<Head(s)>>)

\* MergeStream::from_vec(streams, ts) followed by draining the stream.
MergeRows(srcs) == DedupAdjacent(HeapOrder(srcs), <<>>)

=============================================================================
