----------------------------- MODULE MCCourier -----------------------------
(* Small instances of Courier for TLC. *)
EXTENDS Courier

CONSTANTS a, b
=============================================================================
