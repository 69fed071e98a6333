-------------------------- MODULE ControlFlowGraph --------------------------
(***************************************************************************)
(* The scoring core of the directed fuzzer's control-flow graph            *)
(* (src/fuzzer/src/dyncfg/cfg.rs, struct ControlFlowGraph): the graph of  *)
(* basic blocks with a cached score on every edge, the open and solved     *)
(* targets, the construction from a CfgFile (init_add_edge followed by     *)
(* init_prop_targets), add_edge, remove_target and the reverse-BFS         *)
(* propagate_score.                                                        *)
(*                                                                         *)
(* A public call is synchronous and never interleaves with another one,    *)
(* but the propagation loop (`while let Some(visited) = visitor.next()`)   *)
(* reads scores that earlier iterations of the same loop wrote.  Each      *)
(* iteration is therefore one step, and pc says where the call is:         *)
(*   "init_prop"  inside ControlFlowGraph::new, between two propagations   *)
(*                of init_prop_targets;                                    *)
(*   "propagate"  inside propagate_score, called by `caller`;              *)
(*   "idle"       no call in progress: the state a caller can observe.     *)
(* While pc # "idle" only the steps of the running call are enabled.       *)
(*                                                                         *)
(* Cached scores are always computed with the empty input (_score_for_bb   *)
(* passes vec![]), for which _should_count_edge holds of every edge: an    *)
(* offset of a magic byte is never inside an empty input.  The indirect    *)
(* edges and magic bytes therefore do not enter this module.               *)
(***************************************************************************)
EXTENDS Integers, FiniteSets, Sequences, SequencesExt

CONSTANTS
    BbId,         \* the basic-block ids of the model
    CmpId,        \* the comparison ids of the model
    IdMapping,    \* CfgFile.id_mapping : BbId -> set of CmpId
    InitTargets,  \* CfgFile.targets
    InitEdges,    \* the edges of CfgFile.edges (a Vec, listed in any order)
    NewEdges,     \* the edges the fuzzer may report through add_edge
    ScoreBits     \* width of Score (u32 in the code)

Edge == BbId \X BbId
MappedBb == DOMAIN IdMapping

\* Score is an unsigned integer of ScoreBits bits; UNDEF_SCORE is its maximum.
TARGET_SCORE == 0
UNDEF_SCORE == 2^ScoreBits - 1
Score == 0..UNDEF_SCORE

ASSUME ConstantsAssumption ==
    /\ IsFiniteSet(BbId)
    /\ ScoreBits \in Nat \ {0}
    /\ UNDEF_SCORE \in Nat \ {0}
    /\ MappedBb \subseteq BbId
    /\ \A b \in MappedBb : IdMapping[b] \subseteq CmpId /\ IsFiniteSet(IdMapping[b])
    /\ InitTargets \subseteq CmpId
    /\ InitEdges \subseteq Edge
    /\ NewEdges \subseteq Edge

\* Each CmpId belongs to exactly one BB (spec, section 3).  The code does
\* not check it; the proof of PathImpliesScore assumes it, and the run
\* duplicate_cmp shows that it is needed.
UniqueCmp ==
    \A b1, b2 \in MappedBb : b1 # b2 => IdMapping[b1] \cap IdMapping[b2] = {}

MappedCmp == UNION {IdMapping[b] : b \in MappedBb}

\* reverse_id_mapping(id_mapping): the BB inserted last, in HashMap order,
\* among those holding c.  That order is fixed for a run but unspecified;
\* CHOOSE fixes one.  With UniqueCmp there is only one candidate.
reverse_id_mapping ==
    [c \in MappedCmp |-> CHOOSE b \in MappedBb : c \in IdMapping[b]]

VARIABLES
    graph,           \* the edges of the DiGraphMap
    weight,          \* weight[e]: the cached score of edge e (read for e \in graph)
    targets,         \* open targets
    solved_targets,  \* targets removed by remove_target
    pc,              \* "init_prop", "propagate" or "idle"
    pending,         \* targets init_prop_targets has still to propagate
    queue,           \* the Bfs queue of propagate_score
    discovered,      \* the Bfs discovered set of propagate_score
    caller,          \* who called propagate_score: "new", "add_edge", "remove_target"
    removing,        \* {cmp} while remove_target(cmp) propagates, else {}
    inserted         \* the edges of graph in the order of their first insertion

vars == <<graph, weight, targets, solved_targets, pc, pending, queue,
          discovered, caller, removing, inserted>>

-----------------------------------------------------------------------------
(***************************************************************************)
(* Score aggregation.                                                      *)
(***************************************************************************)

\* mean::harmonic over f64 of the finite scores: k / (1/x1 + ... + 1/xk),
\* computed exactly and truncated.  A zero score makes 1/x infinite and
\* the mean 0.
HarmonicMean(vals) ==
    IF \E n \in DOMAIN vals : vals[n] = 0 THEN 0
    ELSE LET prod == FoldFunction(LAMBDA x, y : x * y, 1, vals)
             recip == FoldFunction(+, 0, [n \in DOMAIN vals |-> prod \div vals[n]])
         IN  (Cardinality(DOMAIN vals) * prod) \div recip

\* `as u32`: Rust's float-to-int cast saturates at u32::MAX.
AsU32(x) == IF x \in Score THEN x ELSE UNDEF_SCORE

\* score_harmonic_mean: UNDEF when no successor score is finite.
score_harmonic_mean(ovals) ==
    LET fin == {n \in DOMAIN ovals : ovals[n] # UNDEF_SCORE}
    IN  IF fin = {} THEN UNDEF_SCORE
        ELSE AsU32(HarmonicMean([n \in fin |-> ovals[n]]))

\* The successors of bb in g (neighbors_directed(bb, Outgoing)).
Successors(g, bb) == {m \in BbId : <<bb, m>> \in g}

\* The cached weights of the edges from bb to the successors in `counted`.
OutScores(w, bb, counted) == [n \in counted |-> w[<<bb, n>>]]

HasOpenTarget(t, bb) == bb \in MappedBb /\ IdMapping[bb] \cap t # {}

\* Mutant: the comparison count is added without checking that the
\* aggregate is finite.
ScoreOverNoUndefCheck(w, t, bb, counted) ==
    IF HasOpenTarget(t, bb) THEN TARGET_SCORE
    ELSE LET aggregate == score_harmonic_mean(OutScores(w, bb, counted))
         IN  IF bb \in MappedBb
             THEN (aggregate + Cardinality(IdMapping[bb])) % (UNDEF_SCORE + 1)
             ELSE aggregate

\* _score_for_bb_inp(bb, inp) with weights w and open targets t, where
\* `counted` are the successors whose edge _should_count_edge keeps for
\* inp.  The addition of the comparison count is a u32 addition, which
\* wraps in a release build.
ScoreOver(w, t, bb, counted) ==
    IF HasOpenTarget(t, bb) THEN TARGET_SCORE
    ELSE LET aggregate == score_harmonic_mean(OutScores(w, bb, counted))
         IN  IF bb \in MappedBb /\ aggregate # UNDEF_SCORE
             THEN (aggregate + Cardinality(IdMapping[bb])) % (UNDEF_SCORE + 1)
             ELSE aggregate

\* _score_for_bb_inp(bb, vec![]) on the graph g: with the empty input
\* every edge is counted.
ScoreFor(w, g, t, bb) == ScoreOver(w, t, bb, Successors(g, bb))

\* _score_for_bb(bb) in the current state.
LocalScore(bb) == ScoreFor(weight, graph, targets, bb)

\* The public queries.  score_for_bb only adds logging to _score_for_bb.
score_for_bb(bb) == LocalScore(bb)

has_score(bb) == LocalScore(bb) # UNDEF_SCORE

has_path_to_target_bb(bb) == score_for_bb(bb) # UNDEF_SCORE

has_path_to_target(cmp) ==
    cmp \in MappedCmp /\ has_path_to_target_bb(reverse_id_mapping[cmp])

is_target(cmp) == cmp \in targets \/ cmp \in solved_targets

-----------------------------------------------------------------------------
(***************************************************************************)
(* Operations.                                                             *)
(***************************************************************************)

\* DiGraphMap::add_edge(a, b, w): a new edge is pushed onto the adjacency
\* lists of a (Outgoing) and b (Incoming); an existing one only has its
\* weight replaced and keeps its place.
InsertEdge(ins, edge) == IF edge \in Range(ins) THEN ins ELSE Append(ins, edge)

\* Edge e was inserted before edge f.
InsertedBefore(e, f) ==
    \E k, l \in DOMAIN inserted : k < l /\ inserted[k] = e /\ inserted[l] = f

\* The BBs of ps, as predecessors of v, are in the order of v's incoming
\* adjacency list.
InsertionOrdered(ps, v) ==
    \A i, j \in DOMAIN ps : i < j => InsertedBefore(<<ps[i], v>>, <<ps[j], v>>)

\* Bfs::new(Reversed(graph_copy), bb): bb is discovered and queued.
StartBfs(bb) ==
    /\ queue' = <<bb>>
    /\ discovered' = {bb}
    /\ pc' = "propagate"

\* init_add_edge(edge): the weight is UNDEF, overwritten by TARGET when the
\* *source* BB holds a target of the CfgFile.
init_add_edge_weight(e) ==
    IF HasOpenTarget(InitTargets, e[1]) THEN TARGET_SCORE ELSE UNDEF_SCORE

\* ControlFlowGraph::new(data): id_mapping and targets from the CfgFile,
\* every edge through init_add_edge (UNDEF, or TARGET when the source BB
\* holds an open target), then init_prop_targets.
Init ==
    /\ graph = InitEdges
    /\ inserted \in SetToSeqs(InitEdges)
    /\ weight = [e \in Edge |->
                   IF e \in InitEdges THEN init_add_edge_weight(e)
                   ELSE UNDEF_SCORE]
    /\ targets = InitTargets
    /\ solved_targets = {}
    /\ pc = "init_prop"
    /\ pending = InitTargets
    /\ queue = <<>>
    /\ discovered = {}
    /\ caller = "new"
    /\ removing = {}

\* Mutant: the CmpId itself is passed to propagate_score in place of its BB.
InitPropTargetCmpAsBb ==
    /\ pc = "init_prop"
    /\ \E t \in pending :
         /\ pending' = pending \ {t}
         /\ IF t \in MappedCmp
            THEN StartBfs(t) /\ caller' = "new"
            ELSE UNCHANGED <<pc, queue, discovered, caller>>
    /\ UNCHANGED <<graph, weight, targets, solved_targets, removing, inserted>>

\* Mutant: the loop does not advance past the target it propagated.
InitPropTargetNoAdvance ==
    /\ pc = "init_prop"
    /\ \E t \in pending :
         /\ UNCHANGED pending
         /\ IF t \in MappedCmp
            THEN StartBfs(reverse_id_mapping[t]) /\ caller' = "new"
            ELSE UNCHANGED <<pc, queue, discovered, caller>>
    /\ UNCHANGED <<graph, weight, targets, solved_targets, removing, inserted>>

\* One iteration of init_prop_targets: the next target of the cloned set,
\* in HashSet order, is propagated from its BB; one without a BB is skipped.
InitPropTarget ==
    /\ pc = "init_prop"
    /\ \E t \in pending :
         /\ pending' = pending \ {t}
         /\ IF t \in MappedCmp
            THEN StartBfs(reverse_id_mapping[t]) /\ caller' = "new"
            ELSE UNCHANGED <<pc, queue, discovered, caller>>
    /\ UNCHANGED <<graph, weight, targets, solved_targets, removing, inserted>>

\* init_prop_targets has run over every target: `new` returns.
InitPropDone ==
    /\ pc = "init_prop"
    /\ pending = {}
    /\ pc' = "idle"
    /\ UNCHANGED <<graph, weight, targets, solved_targets, pending, queue,
                   discovered, caller, removing, inserted>>

\* Mutant: the Bfs walks the graph forwards (no Reversed), queueing the
\* successors of the visited BB.
PropVisitForward ==
    /\ pc = "propagate"
    /\ queue # <<>>
    /\ LET visited == Head(queue)
           fresh == {s \in BbId : <<visited, s>> \in graph} \ discovered
           new_score == LocalScore(visited)
       IN  /\ \E order \in SetToSeqs(fresh) : queue' = Tail(queue) \o order
           /\ discovered' = discovered \cup fresh
           /\ weight' = [e \in Edge |->
                           IF e \in graph /\ e[2] = visited
                           THEN new_score ELSE weight[e]]
    /\ UNCHANGED <<graph, targets, solved_targets, pc, pending, caller, removing,
                   inserted>>

\* One iteration of the loop of propagate_score: the Bfs pops `visited`
\* and queues its undiscovered predecessors in the order of the incoming
\* adjacency list of `visited` (neighbors_directed(visited, Incoming) of
\* Reversed), which is the order in which the edges were first inserted;
\* the loop body writes the score of `visited` into every incoming edge.
PropVisit ==
    /\ pc = "propagate"
    /\ queue # <<>>
    /\ LET visited == Head(queue)
           fresh == {p \in BbId : <<p, visited>> \in graph} \ discovered
           new_score == LocalScore(visited)
       IN  /\ \E order \in SetToSeqs(fresh) :
                 /\ InsertionOrdered(order, visited)
                 /\ queue' = Tail(queue) \o order
           /\ discovered' = discovered \cup fresh
           /\ weight' = [e \in Edge |->
                           IF e \in graph /\ e[2] = visited
                           THEN new_score ELSE weight[e]]
    /\ UNCHANGED <<graph, targets, solved_targets, pc, pending, caller, removing,
                   inserted>>

\* The Bfs is exhausted: propagate_score returns to its caller, and
\* remove_target then records the target as solved.
PropReturn ==
    /\ pc = "propagate"
    /\ queue = <<>>
    /\ pc' = IF caller = "new" THEN "init_prop" ELSE "idle"
    /\ solved_targets' = solved_targets \cup removing
    /\ removing' = {}
    /\ UNCHANGED <<graph, weight, targets, pending, queue, discovered, caller,
                   inserted>>

\* Mutant: the propagation after a changed source score starts from the
\* destination instead of the source.
AddEdgePropagateDst(edge) ==
    /\ pc = "idle"
    /\ LET w1 == [weight EXCEPT ![edge] = LocalScore(edge[2])]
       IN  /\ graph' = graph \cup {edge}
           /\ inserted' = InsertEdge(inserted, edge)
           /\ weight' = w1
           /\ IF LocalScore(edge[1]) = ScoreFor(w1, graph \cup {edge}, targets, edge[1])
              THEN UNCHANGED <<pc, queue, discovered, caller>>
              ELSE StartBfs(edge[2]) /\ caller' = "add_edge"
    /\ UNCHANGED <<targets, solved_targets, pending, removing>>

\* add_edge(edge) and handle_new_edge: the edge gets the destination's
\* score; propagation from the source runs only if the source's score
\* changed.
AddEdge(edge) ==
    /\ pc = "idle"
    /\ LET src == edge[1]
           dst == edge[2]
           dst_score == LocalScore(dst)
           old_src_score == LocalScore(src)
           w1 == [weight EXCEPT ![edge] = dst_score]
           new_src_score == ScoreFor(w1, graph \cup {edge}, targets, src)
       IN  /\ graph' = graph \cup {edge}
           /\ inserted' = InsertEdge(inserted, edge)
           /\ weight' = w1
           /\ IF old_src_score = new_src_score
              THEN UNCHANGED <<pc, queue, discovered, caller>>
              ELSE StartBfs(src) /\ caller' = "add_edge"
    /\ UNCHANGED <<targets, solved_targets, pending, removing>>

\* Mutant: `targets.contains(&cmp)` in place of `targets.remove(&cmp)`;
\* the target stays open.
RemoveTargetKeepsOpen(cmp) ==
    /\ pc = "idle"
    /\ cmp \in targets
    /\ IF cmp \in MappedCmp
       THEN /\ StartBfs(reverse_id_mapping[cmp])
            /\ caller' = "remove_target"
            /\ removing' = {cmp}
            /\ UNCHANGED solved_targets
       ELSE /\ solved_targets' = solved_targets \cup {cmp}
            /\ UNCHANGED <<pc, queue, discovered, caller, removing>>
    /\ UNCHANGED <<graph, weight, pending, targets, inserted>>

\* remove_target(cmp) of an open target: it leaves `targets`, its BB (when
\* known) is propagated, and it is then inserted into solved_targets.
\* Removing a cmp that is not an open target changes nothing.
RemoveTarget(cmp) ==
    /\ pc = "idle"
    /\ cmp \in targets
    /\ targets' = targets \ {cmp}
    /\ IF cmp \in MappedCmp
       THEN /\ StartBfs(reverse_id_mapping[cmp])
            /\ caller' = "remove_target"
            /\ removing' = {cmp}
            /\ UNCHANGED solved_targets
       ELSE /\ solved_targets' = solved_targets \cup {cmp}
            /\ UNCHANGED <<pc, queue, discovered, caller, removing>>
    /\ UNCHANGED <<graph, weight, pending, inserted>>

Next ==
    \/ InitPropTarget
    \/ InitPropDone
    \/ PropVisit
    \/ PropReturn
    \/ \E e \in NewEdges : AddEdge(e)
    \/ \E c \in CmpId : RemoveTarget(c)

\* The internal steps of a call are weakly fair: a synchronous call that
\* has started keeps running until it returns.
Internal == InitPropTarget \/ InitPropDone \/ PropVisit \/ PropReturn

Spec == Init /\ [][Next]_vars

FairSpec == Spec /\ WF_vars(Internal)

-----------------------------------------------------------------------------
(***************************************************************************)
(* Derived notions used by the properties.                                 *)
(***************************************************************************)

\* The BBs holding one of the comparisons in cs.
TargetBbs(cs) == {b \in MappedBb : IdMapping[b] \cap cs # {}}

\* bb reaches a BB of T along edges of g: bb lies in every set that
\* contains T and is closed under predecessors in g.
Reaches(bb, g, T) ==
    \A S \in SUBSET BbId :
        (T \subseteq S /\ \A e \in g : e[2] \in S => e[1] \in S) => bb \in S

\* bb has what a finite score is computed from: an open target of its
\* own, or an outgoing edge whose cached weight is finite.
Supported(bb) ==
    \/ HasOpenTarget(targets, bb)
    \/ \E n \in Successors(graph, bb) : weight[<<bb, n>>] # UNDEF_SCORE

\* No score computation lands on UNDEF although it had a finite input:
\* the u32 addition of the comparison count never wraps onto u32::MAX.
NoUndefWrap == \A b \in BbId : Supported(b) => LocalScore(b) # UNDEF_SCORE

\* The BBs whose score is finite (under NoUndefWrap) but which have an
\* incoming edge whose cached weight still says UNDEF: the work a
\* propagation has still to do.
StaleBbs ==
    {v \in BbId : /\ Supported(v)
                 /\ \E u \in BbId : <<u, v>> \in graph /\ weight[<<u, v>>] = UNDEF_SCORE}

\* The BBs of the targets init_prop_targets has still to propagate.
PendingBbs == {reverse_id_mapping[t] : t \in pending \cap MappedCmp}

-----------------------------------------------------------------------------
(***************************************************************************)
(* Properties.                                                             *)
(***************************************************************************)

\* Every variable has its type.
TypeOK ==
    /\ graph \subseteq Edge
    /\ weight \in [Edge -> Score]
    /\ targets \subseteq CmpId
    /\ solved_targets \subseteq CmpId
    /\ pc \in {"init_prop", "propagate", "idle"}
    /\ pending \subseteq CmpId
    /\ queue \in Seq(BbId)
    /\ discovered \subseteq BbId
    /\ caller \in {"new", "add_edge", "remove_target"}
    /\ removing \subseteq CmpId
    /\ inserted \in Seq(Edge)

\* Spec P4: when no call is running, a BB for which has_score answers
\* true reaches, in the graph, a BB holding a comparison for which
\* is_target answers true (an open or a solved target).  The cached scores are written by many
\* propagations from different targets and by add_edge in any order;
\* none of them may invent a path.
ScoreImpliesPath ==
    pc = "idle" =>
        \A b \in BbId :
            has_score(b) =>
                Reaches(b, graph, TargetBbs({c \in CmpId : is_target(c)}))

\* Spec I6: when no call is running, a BB that reaches a BB holding an
\* open target has a score (has_path_to_target_bb answers true), after
\* construction, after any add_edge and after the removal of another
\* target.
PathImpliesScore ==
    pc = "idle" =>
        \A b \in BbId :
            Reaches(b, graph, TargetBbs(targets)) => has_path_to_target_bb(b)

\* The frontier of the propagations (an inductive strengthening of
\* PathImpliesScore).  No BB is stale between calls; during
\* init_prop_targets every stale BB is the BB of a target still to be
\* propagated; during propagate_score every stale BB is in the Bfs queue
\* or still to be propagated, and while some BB is stale every BB the Bfs
\* discovered has a finite score, so that a write into an edge never
\* makes an already visited BB stale.  It holds while NoUndefWrap does.
PropagationFrontier ==
    /\ pc = "idle" => StaleBbs = {}
    /\ pc = "init_prop" => StaleBbs \subseteq PendingBbs /\ queue = <<>>
    /\ pc = "propagate" =>
          /\ StaleBbs \subseteq Range(queue) \cup PendingBbs
          /\ Range(queue) \subseteq discovered
          /\ StaleBbs # {} => \A b \in discovered : Supported(b)
    /\ (pc = "idle" \/ caller # "new") => pending = {}
    /\ pending \subseteq targets

\* Every public call returns: the reverse BFS of propagate_score and the
\* loop of init_prop_targets terminate.
CallsReturn == (pc # "idle") ~> (pc = "idle")

\* Spec I1/P1: when no call is running, the cached weight of every edge
\* (u, v) equals the score the local score function gives v.
CacheConsistent ==
    pc = "idle" =>
        \A e \in graph : weight[e] = LocalScore(e[2])

\* Spec P6 and scenario S3: once no open target is left in any BB, every
\* BB's score is UNDEF.
TargetRemovalConvergence ==
    (pc = "idle" /\ TargetBbs(targets) = {}) =>
        \A b \in BbId : LocalScore(b) = UNDEF_SCORE

=============================================================================
