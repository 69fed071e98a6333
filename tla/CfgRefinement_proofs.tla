------------------------- MODULE CfgRefinement_proofs -------------------------
(***************************************************************************)
(* ControlFlowGraph implements CfgInterface under the snapshot mapping of  *)
(* CfgRefinement: every step of HSpec is an atomic call of the interface   *)
(* or leaves the caller's view unchanged.                                  *)
(*                                                                         *)
(* The argument: RInv says what the snapshot is while a call runs (the     *)
(* state before the call, and which edge or target the call is about);    *)
(* ObsSound, from the invariant IInv of ControlFlowGraph_proofs, says the  *)
(* scores seen at a return are sound, which gives the sound half of the    *)
(* interface for every instance (Refinement).  ObsAllowed, from the        *)
(* frontier invariant of PathImpliesScore_proofs, says they are also       *)
(* complete, which gives the whole interface under the hypotheses of       *)
(* PathImpliesScoreTheorem (FullRefinement).                               *)
(***************************************************************************)
EXTENDS CfgRefinement, PathImpliesScore_proofs, TLAPS

USE ConstantsAssumption

InitSnap == [ready |-> FALSE, graph |-> InitEdges, open |-> InitTargets,
             solved |-> {}, scored |-> {}]

\* `new` is running: init_prop_targets or one of its propagations.
Constructing == pc = "init_prop" \/ (pc = "propagate" /\ caller = "new")

\* add_edge(e) is propagating: the snapshot is the state before the call.
AddEdgeRunning ==
    /\ snap.ready = TRUE
    /\ snap.open = targets
    /\ snap.solved = solved_targets
    /\ removing = {}
    /\ \E e \in NewEdges : graph = snap.graph \cup {e}

\* remove_target(c) is propagating: c has left `targets` and waits in
\* `removing`.
RemoveRunning ==
    /\ snap.ready = TRUE
    /\ snap.graph = graph
    /\ snap.solved = solved_targets
    /\ \E c \in CmpId : removing = {c} /\ c \notin targets /\ snap.open = targets \cup {c}

RInv ==
    /\ Constructing => /\ snap = InitSnap
                       /\ graph = InitEdges
                       /\ targets = InitTargets
                       /\ solved_targets = {}
                       /\ removing = {}
    /\ pc = "idle" => snap = Observed
    /\ pc = "propagate" /\ caller = "add_edge" => AddEdgeRunning
    /\ pc = "propagate" /\ caller = "remove_target" => RemoveRunning

\* The scores seen when no call runs are sound.
ObsSound ==
    pc = "idle" => Observed.scored \in Abs!Sound(graph, targets, solved_targets)

LEMMA ObservedSound == IInv => ObsSound
<1> SUFFICES ASSUME IInv, pc = "idle", NEW b \in BbId, has_score(b)
             PROVE  b \in Abs!ReachSet(graph, Abs!BbsOf(targets \cup solved_targets))
  BY DEF ObsSound, Observed, Abs!Sound
<1>1. Reaches(b, graph, TargetBbs({c \in CmpId : is_target(c)}))
  BY IInvImpliesScoreImpliesPath DEF ScoreImpliesPath
<1>2. {c \in CmpId : is_target(c)} = targets \cup solved_targets
  BY DEF IInv, TypeOK, is_target
<1>3. TargetBbs(targets \cup solved_targets) = Abs!BbsOf(targets \cup solved_targets)
  BY DEF TargetBbs, Abs!BbsOf, MappedBb
<1>. QED  BY <1>1, <1>2, <1>3 DEF Reaches, Abs!ReachSet

LEMMA InitRInv == HInit => RInv
BY DEF HInit, Init, RInv, Constructing, InitSnap

LEMMA NextRInv == IInv /\ RInv /\ [HNext]_hvars => RInv'
<1> SUFFICES ASSUME IInv, RInv, [HNext]_hvars PROVE RInv'
  OBVIOUS
<1>1. CASE HNext /\ InitPropTarget
  <2>1. Constructing' /\ pc' # "idle"
    BY <1>1 DEF InitPropTarget, StartBfs, Constructing
  <2>2. Constructing
    BY <1>1 DEF InitPropTarget, Constructing
  <2>. QED  BY <1>1, <2>1, <2>2 DEF HNext, InitPropTarget, RInv
<1>2. CASE HNext /\ InitPropDone
  BY <1>2 DEF HNext, InitPropDone, RInv, Constructing
<1>3. CASE HNext /\ PropVisit
  BY <1>3 DEF HNext, PropVisit, RInv, Constructing, AddEdgeRunning, RemoveRunning
<1>4. CASE HNext /\ PropReturn
  <2>1. CASE caller = "new"
    <3>1. Constructing /\ Constructing' /\ pc' # "idle"
      BY <1>4, <2>1 DEF PropReturn, Constructing
    <3>. QED  BY <1>4, <3>1 DEF HNext, PropReturn, RInv
  <2>2. CASE caller # "new"
    BY <1>4, <2>2 DEF HNext, PropReturn, RInv, Constructing
  <2>. QED  BY <2>1, <2>2
<1>5. CASE HNext /\ \E e \in NewEdges : AddEdge(e)
  <2>1. PICK e \in NewEdges : AddEdge(e)
    BY <1>5
  <2>2. snap = Observed /\ removing = {}
    BY <2>1 DEF AddEdge, RInv, IInv, RemovingOnlyInPropagation
  <2>3. CASE pc' = "idle"
    BY <1>5, <2>1, <2>3 DEF HNext, AddEdge, RInv, Constructing
  <2>4. CASE pc' # "idle"
    <3>1. pc' = "propagate" /\ caller' = "add_edge" /\ snap' = snap
      BY <1>5, <2>1, <2>4 DEF HNext, AddEdge, StartBfs
    <3>2. AddEdgeRunning'
      BY <2>1, <2>2, <3>1 DEF AddEdge, AddEdgeRunning, Observed
    <3>. QED  BY <3>1, <3>2 DEF RInv, Constructing
  <2>. QED  BY <2>3, <2>4
<1>6. CASE HNext /\ \E c \in CmpId : RemoveTarget(c)
  <2>1. PICK c \in CmpId : RemoveTarget(c)
    BY <1>6
  <2>2. snap = Observed
    BY <2>1 DEF RemoveTarget, RInv
  <2>3. CASE c \in MappedCmp
    <3>1. pc' = "propagate" /\ caller' = "remove_target" /\ snap' = snap
      BY <1>6, <2>1, <2>3 DEF HNext, RemoveTarget, StartBfs
    <3>2. RemoveRunning'
      BY <2>1, <2>2, <2>3, <3>1 DEF RemoveTarget, RemoveRunning, Observed
    <3>. QED  BY <3>1, <3>2 DEF RInv, Constructing
  <2>4. CASE c \notin MappedCmp
    BY <1>6, <2>1, <2>4 DEF HNext, RemoveTarget, RInv, Constructing
  <2>. QED  BY <2>3, <2>4
<1>7. CASE UNCHANGED hvars
  BY <1>7 DEF hvars, vars, RInv, Constructing, AddEdgeRunning, RemoveRunning,
              Observed, has_score, LocalScore, ScoreFor, ScoreOver, OutScores,
              Successors, HasOpenTarget
<1>. QED  BY <1>1, <1>2, <1>3, <1>4, <1>5, <1>6, <1>7 DEF HNext, Next

\* Under the invariants, every step of HSpec is a call of the sound
\* interface returning, or leaves the caller's view unchanged.
LEMMA StepRefines ==
    ASSUME IInv, RInv, ObsSound', [HNext]_hvars
    PROVE  [Abs!ANext(Abs!Sound)]_Abs!avars
<1> USE DEF Abs!avars
<1>1. CASE pc' # "idle" \/ UNCHANGED hvars
  <2>1. snap' = snap
    BY <1>1 DEF HNext, hvars
  <2>. QED  BY <2>1
<1>2. CASE pc' = "idle" /\ HNext
  <2>0. snap' = Observed' /\ Next
    BY <1>2 DEF HNext
  <2>1. Observed'.scored \in Abs!Sound(graph', targets', solved_targets')
    BY <1>2 DEF ObsSound
  <2>2. CASE InitPropDone
    <3>1. snap = InitSnap /\ graph = InitEdges /\ targets = InitTargets
          /\ solved_targets = {}
      BY <2>2 DEF InitPropDone, RInv, Constructing
    <3>2. Abs!Construct(Abs!Sound)
      BY <2>0, <2>1, <2>2, <3>1 DEF InitPropDone, Abs!Construct, Observed, InitSnap
    <3>. QED  BY <3>2 DEF Abs!ANext
  <2>3. CASE PropReturn /\ caller = "add_edge"
    <3>1. AddEdgeRunning
      BY <2>3 DEF PropReturn, RInv
    <3>2. PICK e \in NewEdges : graph = snap.graph \cup {e}
      BY <3>1 DEF AddEdgeRunning
    <3>3. Abs!AddEdge(e, Abs!Sound)
      BY <2>0, <2>1, <2>3, <3>1, <3>2 DEF PropReturn, AddEdgeRunning,
                                         Abs!AddEdge, Observed
    <3>. QED  BY <3>3 DEF Abs!ANext
  <2>4. CASE PropReturn /\ caller = "remove_target"
    <3>1. RemoveRunning
      BY <2>4 DEF PropReturn, RInv
    <3>2. PICK c \in CmpId : removing = {c} /\ c \notin targets
                             /\ snap.open = targets \cup {c}
      BY <3>1 DEF RemoveRunning
    <3>3. Abs!Solve(c, Abs!Sound)
      BY <2>0, <2>1, <2>4, <3>1, <3>2 DEF PropReturn, RemoveRunning,
                                         Abs!Solve, Observed
    <3>. QED  BY <3>3 DEF Abs!ANext
  <2>5. CASE PropReturn /\ caller \notin {"add_edge", "remove_target"}
    BY <1>2, <2>5 DEF PropReturn, IInv, TypeOK
  <2>6. CASE \E e \in NewEdges : AddEdge(e)
    <3>1. PICK e \in NewEdges : AddEdge(e)
      BY <2>6
    <3>2. snap = Observed
      BY <3>1 DEF AddEdge, RInv
    <3>3. Abs!AddEdge(e, Abs!Sound)
      BY <2>0, <2>1, <3>1, <3>2 DEF AddEdge, Abs!AddEdge, Observed
    <3>. QED  BY <3>3 DEF Abs!ANext
  <2>7. CASE \E c \in CmpId : RemoveTarget(c)
    <3>1. PICK c \in CmpId : RemoveTarget(c)
      BY <2>7
    <3>2. snap = Observed
      BY <3>1 DEF RemoveTarget, RInv
    <3>3. c \notin MappedCmp
      BY <1>2, <3>1 DEF RemoveTarget, StartBfs
    <3>4. Abs!Solve(c, Abs!Sound)
      BY <2>0, <2>1, <3>1, <3>2, <3>3 DEF RemoveTarget, Abs!Solve, Observed
    <3>. QED  BY <3>4 DEF Abs!ANext
  <2>8. CASE InitPropTarget \/ PropVisit
    <3>1. pc' # "idle"
      BY <2>8 DEF InitPropTarget, PropVisit, StartBfs
    <3>. QED  BY <1>2, <3>1
  <2>. QED  BY <2>0, <2>2, <2>3, <2>4, <2>5, <2>6, <2>7, <2>8 DEF Next
<1>. QED  BY <1>1, <1>2

\* ControlFlowGraph implements the sound interface: from `new` on, every
\* add_edge and remove_target call, whatever the BFS and HashSet orders
\* inside it, returns with the graph and targets changed as the call says
\* and with a score only where a path to an open or solved target exists.
THEOREM Refinement == HSpec => Abs!SoundSpec
<1>1. HInit => IInv /\ RInv
  BY InitIInv, InitRInv DEF HInit
<1>2. IInv /\ RInv /\ [HNext]_hvars => IInv' /\ RInv'
  <2>1. [HNext]_hvars => [Next]_vars
    BY DEF HNext, hvars
  <2>. QED  BY <2>1, NextIInv, NextRInv
<1>3. HSpec => [](IInv /\ RInv)
  BY <1>1, <1>2, PTL DEF HSpec
<1>4. HInit => Abs!AInit
  BY DEF HInit, Abs!AInit
<1>5. IInv /\ RInv /\ ObsSound' /\ [HNext]_hvars => [Abs!ANext(Abs!Sound)]_Abs!avars
  BY StepRefines
<1>6. HSpec => []ObsSound
  BY <1>3, ObservedSound, PTL
<1>. QED  BY <1>3, <1>4, <1>5, <1>6, PTL DEF HSpec, Abs!SoundSpec

-----------------------------------------------------------------------------
(***************************************************************************)
(* The whole interface.  With PathImpliesScore the scores seen at a        *)
(* return are also complete, so each returning call is a call of ASpec.    *)
(* The hypotheses are those of PathImpliesScoreTheorem.                    *)
(***************************************************************************)

\* The scores seen when no call runs are sound and complete.
ObsAllowed ==
    pc = "idle" => Observed.scored \in Abs!Allowed(graph, targets, solved_targets)

LEMMA ObservedAllowed ==
    IInv /\ PropagationFrontier /\ NoUndefWrap => ObsAllowed
<1> SUFFICES ASSUME IInv, PropagationFrontier, NoUndefWrap, pc = "idle"
             PROVE  Observed.scored \in Abs!Allowed(graph, targets, solved_targets)
  BY DEF ObsAllowed
<1>1. Observed.scored \in Abs!Sound(graph, targets, solved_targets)
  BY ObservedSound DEF ObsSound
<1>2. ASSUME NEW b \in Abs!ReachSet(graph, Abs!BbsOf(targets)) PROVE has_score(b)
  <2>1. b \in BbId /\ Reaches(b, graph, TargetBbs(targets))
    BY DEF Abs!ReachSet, Abs!BbsOf, TargetBbs, Reaches, MappedBb
  <2>2. PathImpliesScore
    BY FrontierImpliesPathImpliesScore DEF IInv
  <2>. QED  BY <2>1, <2>2 DEF PathImpliesScore, has_path_to_target_bb,
                             score_for_bb, has_score
<1>3. Abs!ReachSet(graph, Abs!BbsOf(targets)) \subseteq Observed.scored
  BY <1>2 DEF Observed, Abs!ReachSet
<1>. QED  BY <1>1, <1>3 DEF Abs!Allowed

\* A call of the sound interface whose answer is also complete is a call
\* of the whole interface.
LEMMA SoundStepAllowed ==
    ASSUME Abs!ANext(Abs!Sound),
           snap'.scored \in Abs!Allowed(snap'.graph, snap'.open, snap'.solved)
    PROVE  Abs!ANext(Abs!Allowed)
<1>1. CASE Abs!Construct(Abs!Sound)
  BY <1>1 DEF Abs!Construct, Abs!ANext
<1>2. CASE \E e \in NewEdges : Abs!AddEdge(e, Abs!Sound)
  BY <1>2 DEF Abs!AddEdge, Abs!ANext
<1>3. CASE \E c \in CmpId : Abs!Solve(c, Abs!Sound)
  BY <1>3 DEF Abs!Solve, Abs!ANext
<1>. QED  BY <1>1, <1>2, <1>3 DEF Abs!ANext

LEMMA StepRefinesAllowed ==
    ASSUME IInv, RInv, ObsSound', ObsAllowed', [HNext]_hvars
    PROVE  [Abs!ANext(Abs!Allowed)]_Abs!avars
<1>1. [Abs!ANext(Abs!Sound)]_Abs!avars
  BY StepRefines
<1>2. CASE pc' # "idle" \/ UNCHANGED hvars
  <2>1. snap' = snap
    BY <1>2 DEF HNext, hvars
  <2>. QED  BY <2>1 DEF Abs!avars
<1>3. CASE pc' = "idle" /\ HNext
  <2>1. snap' = Observed'
    BY <1>3 DEF HNext
  <2>2. snap'.scored \in Abs!Allowed(snap'.graph, snap'.open, snap'.solved)
    BY <1>3, <2>1 DEF ObsAllowed, Observed
  <2>. QED  BY <1>1, <2>2, SoundStepAllowed
<1>. QED  BY <1>2, <1>3 DEF HNext, hvars

\* With unique CmpIds, and in every run whose scores never wrap onto
\* UNDEF, ControlFlowGraph implements the whole interface: after `new`
\* and after every add_edge and remove_target call, the BBs with a score
\* contain every BB with a path to an open target and only BBs with a path
\* to an open or solved target (the property CfgInterfaceSpec that the
\* run interface_refinement checks).
THEOREM FullRefinement ==
    ASSUME UniqueCmp
    PROVE  HSpec /\ []NoUndefWrap => CfgInterfaceSpec
<1>1. HSpec => [](IInv /\ RInv)
  <2>1. HInit => IInv /\ RInv
    BY InitIInv, InitRInv DEF HInit
  <2>2. IInv /\ RInv /\ [HNext]_hvars => IInv' /\ RInv'
    <3>1. [HNext]_hvars => [Next]_vars
      BY DEF HNext, hvars
    <3>. QED  BY <3>1, NextIInv, NextRInv
  <2>. QED  BY <2>1, <2>2, PTL DEF HSpec
<1>2. HSpec => Spec
  <2>1. HInit => Init
    BY DEF HInit
  <2>2. [HNext]_hvars => [Next]_vars
    BY DEF HNext, hvars
  <2>. QED  BY <2>1, <2>2, PTL DEF HSpec, Spec
<1>3. HSpec /\ []NoUndefWrap => []PropagationFrontier
  BY <1>2, FrontierTheorem
<1>4. HSpec /\ []NoUndefWrap => [](ObsSound /\ ObsAllowed)
  BY <1>1, <1>3, ObservedSound, ObservedAllowed, PTL
<1>5. HInit => Abs!AInit
  BY DEF HInit, Abs!AInit
<1>6. IInv /\ RInv /\ ObsSound' /\ ObsAllowed' /\ [HNext]_hvars
         => [Abs!ANext(Abs!Allowed)]_Abs!avars
  BY StepRefinesAllowed
<1>. QED  BY <1>1, <1>4, <1>5, <1>6, PTL DEF HSpec, CfgInterfaceSpec, Abs!ASpec

=============================================================================
