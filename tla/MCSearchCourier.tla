-------------------------- MODULE MCSearchCourier --------------------------
(* Small instances of SearchCourier for TLC. *)
EXTENDS SearchCourier

CONSTANTS a, b
=============================================================================
