-------------------------- MODULE MCClusterManager --------------------------
(* The cluster manager for TLC: the optimizer does not watch, the server does. *)
EXTENDS ClusterManager

TwoWorkers == {"optimizer", "server"}
OnlyServer == {"server"}
=============================================================================
