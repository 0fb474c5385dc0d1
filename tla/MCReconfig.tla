---------------------------- MODULE MCReconfig ----------------------------
(* Instance of Reconfig for TLC: two configurations, three draft texts     *)
(* (one for each configuration and one that does not deserialize).        *)
EXTENDS ReconfigRefinement, TLC

CONSTANTS c1, c2, d1, d2, dBad, ParseErr

MCConfigs == {c1, c2}
MCDrafts == {d1, d2, dBad}
MCParse == (d1 :> c1) @@ (d2 :> c2) @@ (dBad :> ParseErr)

=============================================================================
