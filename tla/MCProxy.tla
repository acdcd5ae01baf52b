------------------------------ MODULE MCProxy ------------------------------
(* The message proxy on a small instance for TLC. *)
EXTENDS Proxy

(* A bound: of the reminder, the expiry and the fault that a run allows at *)
(* most two come together.                                                 *)
TwoAtMost == notes + expiries + faults <= 2
============================================================================
