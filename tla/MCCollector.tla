---------------------------- MODULE MCCollector ----------------------------
(***************************************************************************)
(* Collector on a few objects and environments, interchangeable but for    *)
(* the global environment.                                                 *)
(***************************************************************************)
EXTENDS Collector, TLC

Symmetry == Permutations(Objs) \cup Permutations(Envs \ {G})
=============================================================================
