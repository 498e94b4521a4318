--------------------------- MODULE MCRolloutReplay ---------------------------
(* Small instances of RolloutReplay for TLC: threads with everything but a    *)
(* goal, longer ones that are only rolled back, and ones with a goal.         *)
EXTENDS RolloutReplay

SmallThreads ==
  [mixed  |-> [turns |-> 2, windows |-> 1, rollbacks |-> 1, messages |-> 2,
               steers |-> TRUE, reviews |-> TRUE, goals |-> FALSE],
   undone |-> [turns |-> 3, windows |-> 0, rollbacks |-> 2, messages |-> 1,
               steers |-> FALSE, reviews |-> FALSE, goals |-> FALSE],
   goal   |-> [turns |-> 2, windows |-> 1, rollbacks |-> 1, messages |-> 1,
               steers |-> TRUE, reviews |-> FALSE, goals |-> TRUE]]
==============================================================================
