------------------------ MODULE MC_BulkVsIncremental ------------------------
(***************************************************************************)
(* A chain 0 -> 1 -> 2 -> 3 whose target comparison 12 is in BB 2, and a   *)
(* second path 0 -> 3 so that BB 0 has two out-edges.                      *)
(***************************************************************************)
EXTENDS BulkVsIncremental, TLC

MCBbId == {0, 1, 2, 3}
MCCmpId == {10, 12}
MCIdMapping == (1 :> {10}) @@ (2 :> {12})
MCInitTargets == {12}
MCEdges == {<<0, 1>>, <<1, 2>>, <<2, 3>>, <<0, 3>>}

=============================================================================
