-------------------------- MODULE MC_DuplicateCmp --------------------------
(***************************************************************************)
(* A CfgFile in which target comparison 10 is listed in two BBs, 1 and 2,  *)
(* with predecessors 0 and 3.  reverse_id_mapping keeps one of the two     *)
(* BBs; init_prop_targets and remove_target propagate only from that one.  *)
(***************************************************************************)
EXTENDS ControlFlowGraph, TLC

MCBbId == {0, 1, 2, 3}
MCCmpId == {10, 11}
MCIdMapping == (1 :> {10}) @@ (2 :> {10, 11})
MCInitTargets == {10}
MCInitEdges == {<<0, 1>>, <<3, 2>>}
MCNewEdges == {<<0, 3>>}

=============================================================================
