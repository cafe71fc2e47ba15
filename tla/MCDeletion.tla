---------------------------- MODULE MCDeletion ----------------------------
(* Finite instances of Deletion for TLC. *)
EXTENDS Deletion, TLC

CONSTANTS u1, r1, r2, s1, s2, a1, a2, h1, h2, w1, w2

OneStep == <<1>>

HandlerSymmetry == Permutations(Handlers)
WorkerSymmetry == Permutations(Workers)
=============================================================================
