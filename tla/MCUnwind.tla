------------------------------ MODULE MCUnwind ------------------------------
(***************************************************************************)
(* Unwind with a few environments and functions, which are interchangeable *)
(* but for the global environment.                                         *)
(***************************************************************************)
EXTENDS Unwind, TLC

Symmetry == Permutations(Envs \ {G}) \cup Permutations(Funcs)
=============================================================================
