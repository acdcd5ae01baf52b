--------------------------- MODULE MCClaudeSession ---------------------------
(***************************************************************************)
(* ClaudeSession.tla on small instances.                                   *)
(***************************************************************************)
EXTENDS ClaudeSession, TLC

Symmetry == Permutations(Callers)
=============================================================================
