------------------------ MODULE MC_ControlFlowGraph ------------------------
(***************************************************************************)
(* A small instance: five BBs, a target BB (3) with an outgoing edge, a    *)
(* second target BB (2), a BB with two comparisons (1), a dead-end BB with *)
(* a comparison (4), and reported edges that close a diamond (0-1-3, 0-3), *)
(* a cycle (1-3-2-1) and a dead branch (1-4); target 15 has no BB.      *)
(***************************************************************************)
EXTENDS ControlFlowGraph, TLC

MCBbId == {0, 1, 2, 3, 4}
MCCmpId == {10, 11, 12, 13, 14, 15}
MCIdMapping == (1 :> {10, 11}) @@ (2 :> {12}) @@ (3 :> {13}) @@ (4 :> {14})
MCInitTargets == {12, 13, 15}
MCInitEdges == {<<0, 1>>, <<1, 3>>, <<3, 2>>}
\* The same CfgFile with one more edge, from target BB 3 to the dead end 4.
MCInitEdgesDeadEnd == MCInitEdges \cup {<<3, 4>>}
MCNewEdges == {<<0, 3>>, <<1, 2>>, <<2, 1>>, <<1, 4>>}

\* Stale finite weights that circulate on a cycle with no target left grow
\* by the comparison count at every propagation; the runs explore the
\* states in which no call is running with scores up to ScoreCap (a call
\* that has started always runs to its end).
ScoreCap == 16
ScoreBound ==
    pc = "idle" => \A e \in graph : weight[e] <= ScoreCap \/ weight[e] = UNDEF_SCORE
=============================================================================
