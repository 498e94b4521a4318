---------------------------- MODULE MCMemoryJobs ----------------------------
(* Small instances of MemoryJobs for TLC. *)
EXTENDS MemoryJobs, TLC

OneUpdate == [updates |-> 1, changes |-> 1, stalls |-> 0]
TwoChanges == [updates |-> 0, changes |-> 2, stalls |-> 0]
OneStall == [updates |-> 0, changes |-> 0, stalls |-> 1]
EveryBudget == {OneUpdate, TwoChanges, OneStall}

\* Threads, and starts of codex, are interchangeable.
Symmetry == Permutations(Threads) \cup Permutations(Workers)
=============================================================================
