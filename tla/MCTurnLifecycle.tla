-------------------------- MODULE MCTurnLifecycle --------------------------
(* Small instances of TurnLifecycle for TLC. *)
EXTENDS TurnLifecycle

\* Turn contexts and inputs of one kind are interchangeable.
Symmetry == Permutations(Turns) \cup Permutations(UserInputs)

=============================================================================
