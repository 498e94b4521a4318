--------------------------- MODULE MCExecSession ---------------------------
(* ExecSession with processes that print, and one that is written to. *)
EXTENDS ExecSession

CONSTANT Out

Both == {[outputs |-> 2, writes |-> 0], [outputs |-> 0, writes |-> 1]}
Silent == {[outputs |-> 0, writes |-> 0]}
=============================================================================
