---------------------------- MODULE MCTransport ----------------------------
(***************************************************************************)
(* Transport.tla on small instances.                                       *)
(***************************************************************************)
EXTENDS Transport, TLC
=============================================================================
