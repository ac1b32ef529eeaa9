---------------------------- MODULE MCCompactor -----------------------------
(***************************************************************************)
(* Model-checking instance of Compactor: three ordered keys and four      *)
(* levels (so levels 0 and 1 can be the source of a major compaction).    *)
(* The write bound, the major threshold (2 under the at-least comparison, *)
(* magnification 1: a level compacts once it holds two tables) and the    *)
(* other options are given by each .cfg.                                  *)
(***************************************************************************)
EXTENDS Compactor

MCKeys == {1, 2, 3}

\* Every level under base_path (no level_path option set).
MCOneStore == [l \in Levels |-> "base"]

\* level_path set for the levels >= 1: they live on a second store.
MCSplitStores == [l \in Levels |-> IF l = 0 THEN "base" ELSE "remote"]

=============================================================================
