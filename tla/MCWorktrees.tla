---------------------------- MODULE MCWorktrees ----------------------------
(* A small repository for TLC. *)
EXTENDS Worktrees, TLC

Symmetry == Permutations(Requests)
=============================================================================
