----------------------- MODULE ControlFlowGraph_proofs -----------------------
(***************************************************************************)
(* Proofs about the scoring core of ControlFlowGraph, for every value of   *)
(* the constants that satisfies the module's assumptions.                  *)
(*                                                                         *)
(* The value of the harmonic mean is never needed: a score is in range     *)
(* because the `as u32` cast and the u32 addition keep it there, and a     *)
(* score other than UNDEF needs an open target or a finite outgoing        *)
(* weight, which is all the reachability argument uses.                    *)
(***************************************************************************)
EXTENDS ControlFlowGraph, FiniteSetTheorems, TLAPS

USE ConstantsAssumption

-----------------------------------------------------------------------------
(***************************************************************************)
(* Lemmas on the score function.                                           *)
(***************************************************************************)

\* The aggregate of any weights is a Score.
LEMMA AggregateType ==
    ASSUME NEW ovals
    PROVE  score_harmonic_mean(ovals) \in Score
BY DEF score_harmonic_mean, AsU32, Score

\* A local score is a Score, whatever the weights, targets and counted
\* successors.
LEMMA ScoreOverType ==
    ASSUME NEW w, NEW t, NEW bb, NEW counted
    PROVE  ScoreOver(w, t, bb, counted) \in Score
<1> DEFINE agg == score_harmonic_mean(OutScores(w, bb, counted))
<1>1. agg \in Score
  BY AggregateType
<1>2. CASE HasOpenTarget(t, bb)
  BY <1>2 DEF ScoreOver, TARGET_SCORE, Score
<1>3. CASE ~HasOpenTarget(t, bb) /\ bb \in MappedBb /\ agg # UNDEF_SCORE
  <2>1. Cardinality(IdMapping[bb]) \in Nat
    BY <1>3, FS_CardinalityType
  <2>2. (agg + Cardinality(IdMapping[bb])) % (UNDEF_SCORE + 1) \in Score
    BY <1>1, <2>1 DEF Score
  <2>. QED  BY <1>3, <2>2 DEF ScoreOver
<1>4. CASE ~HasOpenTarget(t, bb) /\ ~(bb \in MappedBb /\ agg # UNDEF_SCORE)
  BY <1>1, <1>4 DEF ScoreOver
<1>. QED  BY <1>2, <1>3, <1>4

LEMMA ScoreForType ==
    ASSUME NEW w, NEW g, NEW t, NEW bb
    PROVE  ScoreFor(w, g, t, bb) \in Score
BY ScoreOverType DEF ScoreFor

\* A score other than UNDEF comes from an open target of the BB or from
\* a counted successor whose cached weight is not UNDEF.
LEMMA ScoreOverDefined ==
    ASSUME NEW w, NEW t, NEW bb, NEW counted,
           ScoreOver(w, t, bb, counted) # UNDEF_SCORE
    PROVE  \/ HasOpenTarget(t, bb)
           \/ \E n \in counted : w[<<bb, n>>] # UNDEF_SCORE
<1> SUFFICES ASSUME ~HasOpenTarget(t, bb),
                    \A n \in counted : w[<<bb, n>>] = UNDEF_SCORE
             PROVE  FALSE
  OBVIOUS
<1>1. {n \in DOMAIN OutScores(w, bb, counted) :
          OutScores(w, bb, counted)[n] # UNDEF_SCORE} = {}
  BY DEF OutScores
<1>2. score_harmonic_mean(OutScores(w, bb, counted)) = UNDEF_SCORE
  BY <1>1 DEF score_harmonic_mean
<1>. QED  BY <1>2 DEF ScoreOver

LEMMA ScoreDefined ==
    ASSUME NEW w, NEW g, NEW t, NEW bb,
           ScoreFor(w, g, t, bb) # UNDEF_SCORE
    PROVE  \/ HasOpenTarget(t, bb)
           \/ \E n \in BbId : <<bb, n>> \in g /\ w[<<bb, n>>] # UNDEF_SCORE
BY ScoreOverDefined DEF ScoreFor, Successors

-----------------------------------------------------------------------------
(***************************************************************************)
(* Type correctness.                                                       *)
(***************************************************************************)

\* A permutation of a finite subset of T is a sequence over T.
LEMMA SetToSeqsSeq ==
    ASSUME NEW T, NEW S \in SUBSET T, IsFiniteSet(S)
    PROVE  SetToSeqs(S) \subseteq Seq(T)
<1>1. Cardinality(S) \in Nat
  BY FS_CardinalityType
<1>. QED  BY <1>1 DEF SetToSeqs

\* A permutation of a set of BBs is a sequence of BBs.
LEMMA SetToSeqsType ==
    ASSUME NEW S \in SUBSET BbId
    PROVE  SetToSeqs(S) \subseteq Seq(BbId)
BY FS_Subset, SetToSeqsSeq

LEMMA InitTypeOK == Init => TypeOK
<1> SUFFICES ASSUME Init PROVE TypeOK
  OBVIOUS
<1>1. IsFiniteSet(InitEdges)
  BY FS_Product, FS_Subset DEF Edge
<1>2. inserted \in Seq(Edge)
  BY <1>1, SetToSeqsSeq DEF Init
<1>. QED  BY <1>2 DEF Init, init_add_edge_weight, TypeOK, Edge, TARGET_SCORE, Score

LEMMA NextTypeOK == TypeOK /\ [Next]_vars => TypeOK'
<1> SUFFICES ASSUME TypeOK, [Next]_vars PROVE TypeOK'
  OBVIOUS
<1>1. CASE InitPropTarget
  <2>1. PICK t \in pending : /\ pending' = pending \ {t}
                             /\ IF t \in MappedCmp
                                THEN StartBfs(reverse_id_mapping[t]) /\ caller' = "new"
                                ELSE UNCHANGED <<pc, queue, discovered, caller>>
    BY <1>1 DEF InitPropTarget
  <2>2. UNCHANGED <<graph, weight, targets, solved_targets, removing, inserted>>
    BY <1>1 DEF InitPropTarget
  <2>3. CASE t \in MappedCmp
    <3>1. reverse_id_mapping[t] \in BbId
      BY <2>3 DEF reverse_id_mapping, MappedCmp
    <3>2. <<reverse_id_mapping[t]>> \in Seq(BbId)
      BY <3>1
    <3>. QED  BY <2>1, <2>2, <2>3, <3>1, <3>2 DEF StartBfs, TypeOK
  <2>4. CASE t \notin MappedCmp
    BY <2>1, <2>2, <2>4 DEF TypeOK
  <2>. QED  BY <2>3, <2>4
<1>2. CASE InitPropDone
  BY <1>2 DEF InitPropDone, TypeOK
<1>3. CASE PropVisit
  <2> DEFINE visited == Head(queue)
             fresh == {p \in BbId : <<p, visited>> \in graph} \ discovered
  <2>1. PICK order \in SetToSeqs(fresh) : queue' = Tail(queue) \o order
    BY <1>3 DEF PropVisit
  <2>2. order \in Seq(BbId)
    BY SetToSeqsType
  <2>3. Tail(queue) \in Seq(BbId)
    BY <1>3 DEF PropVisit, TypeOK
  <2>4. queue' \in Seq(BbId)
    BY <2>1, <2>2, <2>3
  <2>5. LocalScore(visited) \in Score
    BY ScoreForType DEF LocalScore
  <2>6. weight' \in [Edge -> Score]
    BY <1>3, <2>5 DEF PropVisit, TypeOK
  <2>7. discovered' \subseteq BbId
    BY <1>3 DEF PropVisit, TypeOK
  <2>. QED  BY <1>3, <2>4, <2>6, <2>7 DEF PropVisit, TypeOK
<1>4. CASE PropReturn
  BY <1>4 DEF PropReturn, TypeOK
<1>5. CASE \E e \in NewEdges : AddEdge(e)
  <2>1. PICK e \in NewEdges : AddEdge(e)
    BY <1>5
  <2>2. LocalScore(e[2]) \in Score
    BY ScoreForType DEF LocalScore
  <2>3. e \in Edge
    OBVIOUS
  <2>4. /\ graph' \subseteq Edge
        /\ weight' \in [Edge -> Score]
        /\ UNCHANGED <<targets, solved_targets, pending, removing>>
    BY <2>1, <2>2, <2>3 DEF AddEdge, LocalScore, TypeOK
  <2>7. inserted' \in Seq(Edge)
    BY <2>1, <2>3 DEF AddEdge, InsertEdge, TypeOK
  <2>5. <<e[1]>> \in Seq(BbId)
    BY <2>3 DEF Edge
  <2>6. /\ pc' \in {"init_prop", "propagate", "idle"}
        /\ queue' \in Seq(BbId)
        /\ discovered' \subseteq BbId
        /\ caller' \in {"new", "add_edge", "remove_target"}
    <3> DEFINE w1 == [weight EXCEPT ![e] = LocalScore(e[2])]
               unchanged == LocalScore(e[1]) = ScoreFor(w1, graph \cup {e}, targets, e[1])
    <3>1. CASE unchanged
      BY <2>1, <3>1 DEF AddEdge, TypeOK, unchanged, w1
    <3>2. CASE ~unchanged
      <4>1. /\ queue' = <<e[1]>>
            /\ discovered' = {e[1]}
            /\ pc' = "propagate"
            /\ caller' = "add_edge"
        BY <2>1, <3>2 DEF AddEdge, StartBfs, unchanged, w1
      <4>2. e[1] \in BbId
        BY <2>3 DEF Edge
      <4>. QED  BY <4>1, <4>2, <2>5
    <3>. QED  BY <3>1, <3>2
  <2>. QED  BY <2>4, <2>6, <2>7 DEF TypeOK
<1>6. CASE \E c \in CmpId : RemoveTarget(c)
  <2>1. PICK c \in CmpId : RemoveTarget(c)
    BY <1>6
  <2>2. CASE c \in MappedCmp
    <3>1. reverse_id_mapping[c] \in BbId
      BY <2>2 DEF reverse_id_mapping, MappedCmp
    <3>2. <<reverse_id_mapping[c]>> \in Seq(BbId)
      BY <3>1
    <3>. QED  BY <2>1, <2>2, <3>1, <3>2 DEF RemoveTarget, StartBfs, TypeOK
  <2>3. CASE c \notin MappedCmp
    BY <2>1, <2>3 DEF RemoveTarget, TypeOK
  <2>. QED  BY <2>2, <2>3
<1>7. CASE UNCHANGED vars
  BY <1>7 DEF vars, TypeOK
<1>. QED  BY <1>1, <1>2, <1>3, <1>4, <1>5, <1>6, <1>7 DEF Next

\* Every variable keeps its type in every reachable state.
THEOREM TypeCorrect == Spec => []TypeOK
BY InitTypeOK, NextTypeOK, PTL DEF Spec

-----------------------------------------------------------------------------
(***************************************************************************)
(* ScoreImpliesPath.                                                       *)
(*                                                                         *)
(* It is not inductive as it stands: a score is computed from cached       *)
(* weights, so the argument is about the weights.  Every finite weight on  *)
(* an edge (u, v) was written while v had a finite score, or by            *)
(* init_add_edge while u held an open target; either way u reaches a BB   *)
(* of a target the CfgFile named.  Targets only move from `targets` to     *)
(* `removing` to `solved_targets`, so the BBs of InitTargets are the BBs   *)
(* of open and solved targets whenever no removal is under way.            *)
(***************************************************************************)

TargetBbsEver == TargetBbs(InitTargets)

\* Every target named by the CfgFile is open, being removed, or solved.
TargetsConserved == targets \cup solved_targets \cup removing = InitTargets

\* A removal is under way only while remove_target propagates.
RemovingOnlyInPropagation == pc # "propagate" => removing = {}

\* A finite cached weight on (u, v) means u reaches a target BB.
WeightSound ==
    \A e \in graph :
        weight[e] # UNDEF_SCORE => Reaches(e[1], graph, TargetBbsEver)

IInv ==
    /\ TypeOK
    /\ TargetsConserved
    /\ RemovingOnlyInPropagation
    /\ WeightSound

\* A BB of the target set reaches it.
LEMMA ReachesBase ==
    ASSUME NEW b, NEW g, NEW T, b \in T
    PROVE  Reaches(b, g, T)
BY DEF Reaches

\* A predecessor of a BB that reaches T reaches T.
LEMMA ReachesPred ==
    ASSUME NEW p, NEW v, NEW g, NEW T, <<p, v>> \in g, Reaches(v, g, T)
    PROVE  Reaches(p, g, T)
BY DEF Reaches

\* Adding edges keeps every path.
LEMMA ReachesMono ==
    ASSUME NEW b, NEW g, NEW g2, NEW T, g \subseteq g2, Reaches(b, g, T)
    PROVE  Reaches(b, g2, T)
BY DEF Reaches

\* With sound weights, a finite local score means a path to a target BB.
LEMMA ScoreSound ==
    ASSUME NEW w, NEW g, NEW t \in SUBSET InitTargets, NEW bb,
           \A e \in g : w[e] # UNDEF_SCORE => Reaches(e[1], g, TargetBbsEver),
           ScoreFor(w, g, t, bb) # UNDEF_SCORE
    PROVE  Reaches(bb, g, TargetBbsEver)
<1>1. CASE HasOpenTarget(t, bb)
  <2>1. bb \in TargetBbsEver
    BY <1>1 DEF HasOpenTarget, TargetBbsEver, TargetBbs
  <2>. QED  BY <2>1, ReachesBase
<1>2. CASE \E n \in BbId : <<bb, n>> \in g /\ w[<<bb, n>>] # UNDEF_SCORE
  <2>1. PICK n \in BbId : <<bb, n>> \in g /\ w[<<bb, n>>] # UNDEF_SCORE
    BY <1>2
  <2>. QED  BY <2>1
<1>. QED  BY <1>1, <1>2, ScoreDefined

LEMMA InitIInv == Init => IInv
<1> SUFFICES ASSUME Init PROVE IInv
  OBVIOUS
<1>1. TypeOK
  BY InitTypeOK
<1>2. WeightSound
  <2> SUFFICES ASSUME NEW e \in graph, weight[e] # UNDEF_SCORE
               PROVE  Reaches(e[1], graph, TargetBbsEver)
    BY DEF WeightSound
  <2>1. HasOpenTarget(InitTargets, e[1])
    BY DEF Init, init_add_edge_weight, Edge
  <2>2. e[1] \in TargetBbsEver
    BY <2>1 DEF HasOpenTarget, TargetBbsEver, TargetBbs
  <2>. QED  BY <2>2, ReachesBase
<1>. QED  BY <1>1, <1>2 DEF Init, IInv, TargetsConserved, RemovingOnlyInPropagation

LEMMA NextIInv == IInv /\ [Next]_vars => IInv'
<1> SUFFICES ASSUME IInv, [Next]_vars PROVE IInv'
  OBVIOUS
<1>0. TypeOK'
  BY NextTypeOK DEF IInv
<1>a. targets \subseteq InitTargets
  BY DEF IInv, TargetsConserved
<1>1. CASE InitPropTarget
  BY <1>0, <1>1 DEF InitPropTarget, StartBfs, IInv, TargetsConserved,
                    RemovingOnlyInPropagation, WeightSound
<1>2. CASE InitPropDone
  BY <1>0, <1>2 DEF InitPropDone, IInv, TargetsConserved,
                    RemovingOnlyInPropagation, WeightSound
<1>3. CASE PropVisit
  <2> DEFINE visited == Head(queue)
  <2>1. WeightSound'
    <3> SUFFICES ASSUME NEW e \in graph', weight'[e] # UNDEF_SCORE
                 PROVE  Reaches(e[1], graph', TargetBbsEver)
      BY DEF WeightSound
    <3>1. graph' = graph
      BY <1>3 DEF PropVisit
    <3>2. CASE e[2] = visited
      <4>1. weight'[e] = LocalScore(visited)
        BY <1>3, <3>1, <3>2 DEF PropVisit, IInv, TypeOK
      <4>2. Reaches(visited, graph, TargetBbsEver)
        BY <1>a, <4>1, ScoreSound DEF LocalScore, IInv, WeightSound
      <4>3. e = <<e[1], visited>>
        BY <3>1, <3>2 DEF IInv, TypeOK, Edge
      <4>. QED  BY <3>1, <4>2, <4>3, ReachesPred
    <3>3. CASE e[2] # visited
      <4>1. weight'[e] = weight[e]
        BY <1>3, <3>1, <3>3 DEF PropVisit, IInv, TypeOK
      <4>. QED  BY <3>1, <4>1 DEF IInv, WeightSound
    <3>. QED  BY <3>2, <3>3
  <2>. QED  BY <1>0, <1>3, <2>1 DEF PropVisit, IInv, TargetsConserved,
                                    RemovingOnlyInPropagation
<1>4. CASE PropReturn
  <2>1. pc' # "propagate" => removing' = {}
    BY <1>4 DEF PropReturn
  <2>. QED  BY <1>0, <1>4, <2>1 DEF PropReturn, IInv, TargetsConserved,
                                    RemovingOnlyInPropagation, WeightSound
<1>5. CASE \E e0 \in NewEdges : AddEdge(e0)
  <2>1. PICK e0 \in NewEdges : AddEdge(e0)
    BY <1>5
  <2>2. /\ graph' = graph \cup {e0}
        /\ weight' = [weight EXCEPT ![e0] = LocalScore(e0[2])]
        /\ UNCHANGED <<targets, solved_targets, removing>>
        /\ pc = "idle"
        /\ pc' \in {"idle", "propagate"}
    BY <2>1 DEF AddEdge, StartBfs
  <2>3. WeightSound'
    <3> SUFFICES ASSUME NEW e \in graph', weight'[e] # UNDEF_SCORE
                 PROVE  Reaches(e[1], graph', TargetBbsEver)
      BY DEF WeightSound
    <3>0. e0 \in Edge
      OBVIOUS
    <3>1. CASE e = e0
      <4>1. LocalScore(e0[2]) # UNDEF_SCORE
        BY <2>2, <3>0, <3>1 DEF IInv, TypeOK
      <4>2. Reaches(e0[2], graph, TargetBbsEver)
        BY <1>a, <4>1, ScoreSound DEF LocalScore, IInv, WeightSound
      <4>3. Reaches(e0[2], graph', TargetBbsEver)
        BY <2>2, <4>2, ReachesMono
      <4>4. e0 = <<e0[1], e0[2]>> /\ e0 \in graph'
        BY <2>2, <3>0 DEF Edge
      <4>. QED  BY <3>1, <4>3, <4>4, ReachesPred
    <3>2. CASE e # e0
      <4>1. e \in graph /\ weight'[e] = weight[e]
        BY <2>2, <3>2 DEF IInv, TypeOK
      <4>2. Reaches(e[1], graph, TargetBbsEver)
        BY <4>1 DEF IInv, WeightSound
      <4>. QED  BY <2>2, <4>2, ReachesMono
    <3>. QED  BY <3>1, <3>2
  <2>. QED  BY <1>0, <2>2, <2>3 DEF IInv, TargetsConserved, RemovingOnlyInPropagation
<1>6. CASE \E c \in CmpId : RemoveTarget(c)
  <2>1. PICK c \in CmpId : RemoveTarget(c)
    BY <1>6
  <2>2. removing = {}
    BY <2>1 DEF RemoveTarget, IInv, RemovingOnlyInPropagation
  <2>3. CASE c \in MappedCmp
    <3>1. /\ targets' = targets \ {c}
          /\ removing' = {c}
          /\ solved_targets' = solved_targets
          /\ c \in targets
          /\ pc' = "propagate"
          /\ UNCHANGED <<graph, weight>>
      BY <2>1, <2>3 DEF RemoveTarget, StartBfs
    <3>. QED  BY <1>0, <2>2, <3>1 DEF IInv, TargetsConserved,
                                      RemovingOnlyInPropagation, WeightSound
  <2>4. CASE c \notin MappedCmp
    <3>1. /\ targets' = targets \ {c}
          /\ solved_targets' = solved_targets \cup {c}
          /\ c \in targets
          /\ UNCHANGED <<graph, weight, pc, removing>>
      BY <2>1, <2>4 DEF RemoveTarget
    <3>. QED  BY <1>0, <2>2, <3>1 DEF IInv, TargetsConserved,
                                      RemovingOnlyInPropagation, WeightSound
  <2>. QED  BY <2>3, <2>4
<1>7. CASE UNCHANGED vars
  BY <1>0, <1>7 DEF vars, IInv, TargetsConserved, RemovingOnlyInPropagation,
                    WeightSound
<1>. QED  BY <1>1, <1>2, <1>3, <1>4, <1>5, <1>6, <1>7 DEF Next

LEMMA IInvImpliesScoreImpliesPath == IInv => ScoreImpliesPath
<1> SUFFICES ASSUME IInv, pc = "idle", NEW b \in BbId,
                    LocalScore(b) # UNDEF_SCORE
             PROVE  Reaches(b, graph, TargetBbs({c \in CmpId : is_target(c)}))
  BY DEF ScoreImpliesPath, has_score
<1>1. {c \in CmpId : is_target(c)} = InitTargets
  BY DEF IInv, TargetsConserved, RemovingOnlyInPropagation, TypeOK, is_target
<1>2. targets \subseteq InitTargets
  BY DEF IInv, TargetsConserved
<1>. QED  BY <1>1, <1>2, ScoreSound DEF LocalScore, IInv, WeightSound, TargetBbsEver

\* ScoreImpliesPath holds in every reachable state: after any sequence of
\* construction, add_edge and remove_target calls, a BB with a score
\* reaches a BB of an open or solved target.
THEOREM ScoreImpliesPathTheorem == Spec => []ScoreImpliesPath
<1>1. Spec => []IInv
  BY InitIInv, NextIInv, PTL DEF Spec
<1>. QED  BY <1>1, IInvImpliesScoreImpliesPath, PTL

=============================================================================
