------------------------------- MODULE KVStore -------------------------------
(***************************************************************************)
(* What the engine promises its readers (spec 1 and 8.1): a map from keys *)
(* to the value of the most recent write of each key.  Values are the     *)
(* numbers of the writes, NoValue for a key never written.                *)
(***************************************************************************)
EXTENDS Naturals

CONSTANTS Keys, MaxWrites, NoValue

VARIABLES store, count

Init ==
    /\ store = [k \in Keys |-> NoValue]
    /\ count = 0

\* Write number count + 1 puts a value under key k.
Put(k) ==
    /\ count < MaxWrites
    /\ count' = count + 1
    /\ store' = [store EXCEPT ![k] = count + 1]

Next == \E k \in Keys : Put(k)

Spec == Init /\ [][Next]_<<store, count>>

=============================================================================
