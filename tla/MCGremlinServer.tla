--------------------------- MODULE MCGremlinServer ---------------------------
\* GremlinServer with three starts in two lives of the server.
EXTENDS GremlinServer

MCOutcomes == {"spawn", "refused", "complaint", "unread"}
=============================================================================
