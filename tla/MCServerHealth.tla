--------------------------- MODULE MCServerHealth ---------------------------
(* The health check and the migrations plugin, for TLC. *)
EXTENDS ServerHealth

Supported == {"down", "refused", "incompatible", "tribe", "initializing", "no_index", "missing", "ready"}
=============================================================================
