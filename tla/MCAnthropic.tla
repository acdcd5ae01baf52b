---------------------------- MODULE MCAnthropic ----------------------------
(***************************************************************************)
(* Anthropic.tla on small instances.                                       *)
(***************************************************************************)
EXTENDS Anthropic, TLC

Symmetry == Permutations(Callers)
=============================================================================
