------------------------------ MODULE DynCfg ------------------------------
(***************************************************************************)
(* The whole ControlFlowGraph of src/fuzzer/src/dyncfg/cfg.rs: the scoring *)
(* core (module ControlFlowGraph) together with the indirect-call tables   *)
(* (module IndirectCalls), and the input-dependent score                   *)
(* score_for_bb_inp that reads both.                                       *)
(*                                                                         *)
(* The fuzzer calls set_edge_indirect and set_magic_bytes between its      *)
(* other calls, so a step of the tables happens only when no call of the  *)
(* core is running, and leaves the core's variables alone; a step of the  *)
(* core leaves the tables alone.                                           *)
(***************************************************************************)
EXTENDS ControlFlowGraph

CONSTANTS CallSiteId, CallSiteDominators, Byte, MaxInputLen, TagSegs,
          IndirectCandidates

VARIABLES indirect_edges, callsite_edges, magic_bytes

ASSUME IndirectAssumption ==
    /\ MaxInputLen \in Nat
    /\ TagSegs \subseteq [begin : Nat, end : Nat]
    /\ IndirectCandidates \subseteq Edge

IC == INSTANCE IndirectCalls

ivars == <<indirect_edges, callsite_edges, magic_bytes>>

dvars == <<vars, ivars>>

\* Mutant: the input mask is not applied; every successor counts.
score_for_bb_inp_unmasked(bb, inp) ==
    ScoreOver(weight, targets, bb, Successors(graph, bb))

\* score_for_bb_inp(bb, inp): the successors whose edge
\* _should_count_edge keeps for inp are aggregated.
score_for_bb_inp(bb, inp) ==
    ScoreOver(weight, targets, bb,
              {n \in Successors(graph, bb) : IC!should_count_edge(<<bb, n>>, inp)})

DynInit == Init /\ IC!IInit

DynNext ==
    \/ Next /\ UNCHANGED ivars
    \/ pc = "idle" /\ IC!INext /\ UNCHANGED vars

DynSpec == DynInit /\ [][DynNext]_dvars

-----------------------------------------------------------------------------

\* Every variable of the core and of the tables has its type.
DTypeOK == TypeOK /\ IC!ITypeOK

\* Spec 4.6: score_for_bb, which the caches are built from, is the input
\* score of the empty input.  This is what lets the propagation of
\* scores ignore indirect edges and magic bytes: no constraint can mask
\* an edge for the empty input, whatever set_magic_bytes stored.
EmptyInputScoresCached ==
    pc = "idle" =>
        \A b \in BbId : score_for_bb_inp(b, <<>>) = score_for_bb(b)

\* Spec 4.4 and scenario S4: when no call is running, a finite input score
\* of a BB means the BB holds an open target, or the input can take one
\* of its out-edges (it is direct, or its magic bytes agree with the
\* input) to a BB that reaches a target.  An indirect edge that the input
\* contradicts never lends its score to the BB.  The one exception is a
\* BB of a target of the CfgFile: init_add_edge gave its out-edges the
\* TARGET weight, whatever their destination, and propagation never
\* rewrites the out-edges of the BB it starts from.
MaskedScoreNeedsTakenEdge ==
    pc = "idle" =>
        \A b \in BbId, inp \in IC!Input :
            score_for_bb_inp(b, inp) # UNDEF_SCORE =>
                \/ HasOpenTarget(targets, b)
                \/ \E n \in Successors(graph, b) :
                       /\ IC!should_count_edge(<<b, n>>, inp)
                       /\ \/ Reaches(n, graph, TargetBbs(InitTargets))
                          \/ b \in TargetBbs(InitTargets)

=============================================================================
