---------------------------- MODULE CfgRefinement ----------------------------
(***************************************************************************)
(* ControlFlowGraph implements CfgInterface.  A caller sees the CFG only   *)
(* between calls, so the refinement mapping reads a snapshot `snap` of the *)
(* observable state, a history variable taken whenever a call returns      *)
(* (a step into pc = "idle").  The internal steps of a call leave the      *)
(* snapshot alone and map to stuttering steps; the step that returns maps  *)
(* to the abstract call.                                                   *)
(***************************************************************************)
EXTENDS ControlFlowGraph

VARIABLE snap

hvars == <<vars, snap>>

\* What a caller can observe when no call is running.
Observed ==
    [ready |-> TRUE, graph |-> graph, open |-> targets,
     solved |-> solved_targets, scored |-> {b \in BbId : has_score(b)}]

HInit ==
    /\ Init
    /\ snap = [ready |-> FALSE, graph |-> InitEdges, open |-> InitTargets,
               solved |-> {}, scored |-> {}]

HNext ==
    /\ Next
    /\ snap' = IF pc' = "idle" THEN Observed' ELSE snap

HSpec == HInit /\ [][HNext]_hvars

Abs == INSTANCE CfgInterface
           WITH ready <- snap.ready, graph <- snap.graph, open <- snap.open,
                solved <- snap.solved, scored <- snap.scored

\* Spec I6 and P4 as an interface: after `new` and after every add_edge
\* and remove_target call returns, the graph and targets have changed as
\* the call says and the BBs with a score are exactly bounded by
\* reachability, whatever BFS and HashSet orders the calls took inside.
CfgInterfaceSpec == Abs!ASpec

=============================================================================
