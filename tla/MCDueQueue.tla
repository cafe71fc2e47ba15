----------------------------- MODULE MCDueQueue -----------------------------
(* Finite instances of DueQueue for TLC. *)
EXTENDS DueQueue

CONSTANTS r1, r2, r3
=============================================================================
