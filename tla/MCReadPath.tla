----------------------------- MODULE MCReadPath -----------------------------
(* ReadPath instantiated for TLC: integer keys and two writer tasks; with  *)
(* the replays of the compaction and memtable unit tests.                 *)
EXTENDS ReadPath, CompactorTests, MutableTests

CONSTANTS w1, w2

MCKeys == {1, 2}
MCWriters == {w1, w2}
=============================================================================
