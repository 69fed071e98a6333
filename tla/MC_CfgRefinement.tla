-------------------------- MODULE MC_CfgRefinement --------------------------
(***************************************************************************)
(* The instance of MC_ControlFlowGraph with a 4-bit score and no bound on  *)
(* the explored scores: scores on a cycle grow up to the wrap of the       *)
(* u32 addition (at 15 here), and every state is explored.                 *)
(***************************************************************************)
EXTENDS CfgRefinement, TLC

MCBbId == {0, 1, 2, 3, 4}
MCCmpId == {10, 11, 12, 13, 14, 15}
MCIdMapping == (1 :> {10, 11}) @@ (2 :> {12}) @@ (3 :> {13}) @@ (4 :> {14})
MCInitTargets == {12, 13, 15}
MCInitEdges == {<<0, 1>>, <<1, 3>>, <<3, 2>>}
MCNewEdges == {<<0, 3>>, <<1, 2>>, <<2, 1>>, <<1, 4>>}

=============================================================================
