------------------------- MODULE BulkVsIncremental -------------------------
(***************************************************************************)
(* Two ControlFlowGraph objects over the same CfgFile data: Bulk is built  *)
(* by `new` with every edge (init_add_edge, then init_prop_targets), Incr  *)
(* by `new` with no edge, then add_edge of each edge, in any order.  The   *)
(* two objects share nothing, so their steps interleave freely.            *)
(***************************************************************************)
EXTENDS Naturals

CONSTANTS BbId, CmpId, IdMapping, InitTargets, Edges, ScoreBits

VARIABLES graphA, weightA, targetsA, solvedA, pcA, pendingA, queueA,
          discoveredA, callerA, removingA, insertedA,
          graphB, weightB, targetsB, solvedB, pcB, pendingB, queueB,
          discoveredB, callerB, removingB, insertedB

varsA == <<graphA, weightA, targetsA, solvedA, pcA, pendingA, queueA,
           discoveredA, callerA, removingA, insertedA>>
varsB == <<graphB, weightB, targetsB, solvedB, pcB, pendingB, queueB,
           discoveredB, callerB, removingB, insertedB>>

Bulk == INSTANCE ControlFlowGraph
            WITH InitEdges <- Edges, NewEdges <- {},
                 graph <- graphA, weight <- weightA, targets <- targetsA,
                 solved_targets <- solvedA, pc <- pcA, pending <- pendingA,
                 queue <- queueA, discovered <- discoveredA,
                 caller <- callerA, removing <- removingA,
                 inserted <- insertedA

Incr == INSTANCE ControlFlowGraph
            WITH InitEdges <- {}, NewEdges <- Edges,
                 graph <- graphB, weight <- weightB, targets <- targetsB,
                 solved_targets <- solvedB, pc <- pcB, pending <- pendingB,
                 queue <- queueB, discovered <- discoveredB,
                 caller <- callerB, removing <- removingB,
                 inserted <- insertedB

Init == Bulk!Init /\ Incr!Init

\* Construction of Bulk, or construction and edge insertions of Incr.
Next ==
    \/ Bulk!Internal /\ UNCHANGED varsB
    \/ (Incr!Internal \/ \E e \in Edges : Incr!AddEdge(e)) /\ UNCHANGED varsA

Spec == Init /\ [][Next]_<<varsA, varsB>>

(***************************************************************************)
(* Spec P5 (scenario S5): once both objects are idle and Incr holds every  *)
(* edge, every cached edge weight agrees, up to the +-1 the spec allows    *)
(* for the truncated floating-point harmonic mean.                         *)
(***************************************************************************)
BulkEqualsIncremental ==
    (pcA = "idle" /\ pcB = "idle" /\ graphB = Edges) =>
        \A e \in Edges : weightA[e] <= weightB[e] + 1 /\ weightB[e] <= weightA[e] + 1

=============================================================================
