---------------------------- MODULE MCQueryEngine ----------------------------
\* QueryEngine with three requests beside the init of the plugin; the second clears.
EXTENDS QueryEngine

MCKinds == [r \in Requests |->
    CASE r = 0 -> {"init"} [] r = 1 -> {"data"} [] r = 2 -> {"clear"}
      [] OTHER -> {"data"}]
=============================================================================
