----------------------------- MODULE MCCompress -----------------------------
(* Small instances of Compress for TLC. *)
EXTENDS Compress, TLC

CallSymmetry == Permutations(Calls)

(* Small texts stay below the size gate; a tight one grows by its pointer.  *)
P(size, error, fails, pre, lossy, lines3, claims, new) ==
  [size |-> size, error |-> error, fails |-> fails, pre_size |-> pre, pre_lossy |-> lossy,
   lines3 |-> lines3, claims |-> claims, new_size |-> new]

MCTexts == {"small", "grepped", "failing", "progress", "huge", "tight"}
MCProfile ==
  [small    |-> P(1, FALSE, FALSE, 1, FALSE, FALSE, {}, 1),
   grepped  |-> P(6, FALSE, FALSE, 5, FALSE, TRUE, {"json", "search", "truncate"}, 3),
   failing  |-> P(4, FALSE, TRUE, 3, FALSE, TRUE, {}, 1),
   progress |-> P(6, FALSE, FALSE, 4, TRUE, TRUE, {}, 4),
   huge     |-> P(20, TRUE, FALSE, 20, FALSE, TRUE, {"truncate"}, 3),
   tight    |-> P(4, FALSE, FALSE, 4, FALSE, FALSE, {"diff"}, 3)]
=============================================================================
