---------------------------- MODULE DynCfg_proofs ----------------------------
(***************************************************************************)
(* Proofs about the composition of the scoring core with the indirect-call *)
(* tables.  A step of the tables leaves the core's variables alone, so     *)
(* every step of DynSpec is a step or a stutter of the core, and the       *)
(* core's inductive invariant IInv carries over unchanged.                 *)
(***************************************************************************)
EXTENDS DynCfg, ControlFlowGraph_proofs, TLAPS

USE ConstantsAssumption, IndirectAssumption

\* Every step of the composition is a step of the core or leaves the
\* core's variables unchanged.
LEMMA DynNextIsCoreStep ==
    ASSUME [DynNext]_dvars
    PROVE  [Next]_vars
BY DEF DynNext, dvars

LEMMA DynIInv == DynSpec => []IInv
<1>1. DynInit => IInv
  BY InitIInv DEF DynInit
<1>2. IInv /\ [DynNext]_dvars => IInv'
  BY DynNextIsCoreStep, NextIInv
<1>. QED  BY <1>1, <1>2, PTL DEF DynSpec

-----------------------------------------------------------------------------
(***************************************************************************)
(* The types of the tables.                                                *)
(***************************************************************************)

LEMMA ITypeInit == IC!IInit => IC!ITypeOK
BY DEF IC!IInit, IC!ITypeOK

\* set_magic_bytes stores pairs of an offset and a byte of the buffer.
LEMMA MagicBytesType ==
    ASSUME IC!ITypeOK, NEW e \in IndirectCandidates, NEW buf \in IC!Input,
           NEW offsets \in SUBSET TagSegs,
           IC!set_magic_bytes(e, buf, offsets)
    PROVE  IC!ITypeOK'
<1>1. PICK n \in 0..MaxInputLen : buf \in [1..n -> Byte]
  BY DEF IC!Input
<1>2. Len(buf) = n
  BY <1>1
<1>3. IC!CoveredOffsets(offsets) \subseteq Nat
  BY DEF IC!CoveredOffsets
<1>4. \A i \in IC!CoveredOffsets(offsets) :
         i < Len(buf) => buf[i + 1] \in Byte
  BY <1>1, <1>2, <1>3
<1>5. {<<i, buf[i + 1]>> : i \in IC!CoveredOffsets(offsets)} \subseteq Nat \X Byte
  BY <1>3, <1>4, IC!set_magic_bytes(e, buf, offsets) DEF IC!set_magic_bytes
<1>. QED  BY <1>5 DEF IC!set_magic_bytes, IC!ITypeOK, IC!Edge, Edge

LEMMA ITypeNext == IC!ITypeOK /\ [DynNext]_dvars => IC!ITypeOK'
<1> SUFFICES ASSUME IC!ITypeOK, [DynNext]_dvars PROVE IC!ITypeOK'
  OBVIOUS
<1>1. CASE Next /\ UNCHANGED ivars
  BY <1>1 DEF ivars, IC!ITypeOK
<1>2. CASE \E e \in IndirectCandidates, cs \in CallSiteId :
               IC!set_edge_indirect(e, cs)
  BY <1>2 DEF IC!set_edge_indirect, IC!ITypeOK, IC!Edge, Edge
<1>3. CASE \E e \in IndirectCandidates, buf \in IC!Input,
               offsets \in SUBSET TagSegs : IC!set_magic_bytes(e, buf, offsets)
  BY <1>3, MagicBytesType
<1>4. CASE UNCHANGED dvars
  BY <1>4 DEF dvars, ivars, IC!ITypeOK
<1>. QED  BY <1>1, <1>2, <1>3, <1>4 DEF DynNext, IC!INext

\* Every variable of the core and of the tables keeps its type.
THEOREM DTypeCorrect == DynSpec => []DTypeOK
<1>1. DynSpec => []IInv
  BY DynIInv
<1>2. DynSpec => []IC!ITypeOK
  BY ITypeInit, ITypeNext, PTL DEF DynSpec, DynInit
<1>. QED  BY <1>1, <1>2, PTL DEF DTypeOK, IInv

-----------------------------------------------------------------------------
(***************************************************************************)
(* The input-dependent score.                                              *)
(***************************************************************************)

\* With the empty input, every edge counts.
LEMMA EmptyInputCountsAll ==
    ASSUME IC!ITypeOK, NEW e \in Edge
    PROVE  IC!should_count_edge(e, <<>>)
BY DEF IC!should_count_edge, IC!ITypeOK, IC!Edge, Edge

LEMMA DTypeEmptyInput == IC!ITypeOK => EmptyInputScoresCached
<1> SUFFICES ASSUME IC!ITypeOK, NEW b \in BbId
             PROVE  score_for_bb_inp(b, <<>>) = score_for_bb(b)
  BY DEF EmptyInputScoresCached
<1>1. {n \in Successors(graph, b) : IC!should_count_edge(<<b, n>>, <<>>)}
        = Successors(graph, b)
  BY EmptyInputCountsAll DEF Successors, Edge
<1>. QED  BY <1>1 DEF score_for_bb_inp, score_for_bb, LocalScore, ScoreFor

\* Cached scores are input scores of the empty input in every reachable
\* state, for every instance: the magic bytes set_magic_bytes stores never
\* mask an edge for an input without bytes.
THEOREM EmptyInputTheorem == DynSpec => []EmptyInputScoresCached
BY DTypeCorrect, DTypeEmptyInput, PTL DEF DTypeOK

(***************************************************************************)
(* MaskedScoreNeedsTakenEdge.  WeightSound speaks of the source of an edge *)
(* with a finite weight; the input score needs its destination.  A finite  *)
(* weight on (u, v) was written with the finite score of v, which reaches  *)
(* a target BB by ScoreSound, or by init_add_edge because u is a BB of a   *)
(* target: DstSound, inductive together with IInv.                         *)
(***************************************************************************)

DstSound ==
    \A e \in graph :
        weight[e] # UNDEF_SCORE =>
            Reaches(e[2], graph, TargetBbsEver) \/ e[1] \in TargetBbsEver

LEMMA InitDstSound == Init => DstSound
<1> SUFFICES ASSUME Init, NEW e \in graph, weight[e] # UNDEF_SCORE
             PROVE  e[1] \in TargetBbsEver
  BY DEF DstSound
<1>1. HasOpenTarget(InitTargets, e[1])
  BY DEF Init, init_add_edge_weight, Edge
<1>. QED  BY <1>1 DEF HasOpenTarget, TargetBbsEver, TargetBbs

\* A step that writes no weight and adds no edge keeps DstSound.
LEMMA DstSoundFrame ==
    ASSUME DstSound, graph' = graph, weight' = weight
    PROVE  DstSound'
BY DEF DstSound

LEMMA NextDstSound == IInv /\ DstSound /\ [Next]_vars => DstSound'
<1> SUFFICES ASSUME IInv, DstSound, [Next]_vars PROVE DstSound'
  OBVIOUS
<1>a. targets \subseteq InitTargets
  BY DEF IInv, TargetsConserved
<1>1. CASE PropVisit
  <2> DEFINE visited == Head(queue)
  <2> SUFFICES ASSUME NEW e \in graph', weight'[e] # UNDEF_SCORE
               PROVE  Reaches(e[2], graph', TargetBbsEver) \/ e[1] \in TargetBbsEver
    BY DEF DstSound
  <2>1. graph' = graph
    BY <1>1 DEF PropVisit
  <2>2. CASE e[2] = visited
    <3>1. weight'[e] = LocalScore(visited)
      BY <1>1, <2>1, <2>2 DEF PropVisit, IInv, TypeOK
    <3>. QED  BY <1>a, <2>1, <2>2, <3>1, ScoreSound DEF LocalScore, IInv, WeightSound
  <2>3. CASE e[2] # visited
    <3>1. weight'[e] = weight[e]
      BY <1>1, <2>1, <2>3 DEF PropVisit, IInv, TypeOK
    <3>. QED  BY <2>1, <3>1 DEF DstSound
  <2>. QED  BY <2>2, <2>3
<1>2. CASE \E e0 \in NewEdges : AddEdge(e0)
  <2>1. PICK e0 \in NewEdges : AddEdge(e0)
    BY <1>2
  <2>2. /\ graph' = graph \cup {e0}
        /\ weight' = [weight EXCEPT ![e0] = LocalScore(e0[2])]
    BY <2>1 DEF AddEdge
  <2> SUFFICES ASSUME NEW e \in graph', weight'[e] # UNDEF_SCORE
               PROVE  Reaches(e[2], graph', TargetBbsEver) \/ e[1] \in TargetBbsEver
    BY DEF DstSound
  <2>3. CASE e = e0
    <3>1. LocalScore(e0[2]) # UNDEF_SCORE
      BY <2>2, <2>3 DEF IInv, TypeOK
    <3>2. Reaches(e0[2], graph, TargetBbsEver)
      BY <1>a, <3>1, ScoreSound DEF LocalScore, IInv, WeightSound
    <3>. QED  BY <2>2, <2>3, <3>2, ReachesMono
  <2>4. CASE e # e0
    <3>1. e \in graph /\ weight'[e] = weight[e]
      BY <2>2, <2>4 DEF IInv, TypeOK
    <3>2. Reaches(e[2], graph, TargetBbsEver) \/ e[1] \in TargetBbsEver
      BY <3>1 DEF DstSound
    <3>. QED  BY <2>2, <3>2, ReachesMono
  <2>. QED  BY <2>3, <2>4
<1>3. CASE ~PropVisit /\ ~\E e0 \in NewEdges : AddEdge(e0)
  <2>1. graph' = graph /\ weight' = weight
    BY <1>3 DEF Next, vars, InitPropTarget, InitPropDone, PropReturn, RemoveTarget
  <2>. QED  BY <2>1, DstSoundFrame
<1>. QED  BY <1>1, <1>2, <1>3

LEMMA DynDstSound == DynSpec => [](IInv /\ DstSound)
<1>1. DynInit => IInv /\ DstSound
  BY InitIInv, InitDstSound DEF DynInit
<1>2. IInv /\ DstSound /\ [DynNext]_dvars => (IInv /\ DstSound)'
  BY DynNextIsCoreStep, NextIInv, NextDstSound
<1>. QED  BY <1>1, <1>2, PTL DEF DynSpec

LEMMA DstSoundImpliesMasked == IInv /\ DstSound => MaskedScoreNeedsTakenEdge
<1> SUFFICES ASSUME IInv, DstSound, pc = "idle", NEW b \in BbId, NEW inp,
                    score_for_bb_inp(b, inp) # UNDEF_SCORE,
                    ~HasOpenTarget(targets, b)
             PROVE  \E n \in Successors(graph, b) :
                       /\ IC!should_count_edge(<<b, n>>, inp)
                       /\ \/ Reaches(n, graph, TargetBbs(InitTargets))
                          \/ b \in TargetBbs(InitTargets)
  BY DEF MaskedScoreNeedsTakenEdge
<1> DEFINE counted == {n \in Successors(graph, b) :
                         IC!should_count_edge(<<b, n>>, inp)}
<1>1. PICK n \in counted : weight[<<b, n>>] # UNDEF_SCORE
  BY ScoreOverDefined DEF score_for_bb_inp
<1>2. <<b, n>> \in graph
  BY <1>1 DEF Successors
<1>3. Reaches(n, graph, TargetBbsEver) \/ b \in TargetBbsEver
  BY <1>1, <1>2 DEF DstSound
<1>. QED  BY <1>1, <1>3 DEF TargetBbsEver

\* MaskedScoreNeedsTakenEdge holds in every reachable state, for every
\* instance: after any interleaving of construction, add_edge,
\* remove_target, set_edge_indirect and set_magic_bytes, a BB with a
\* finite input score has an out-edge the input can take towards a target
\* (or is a BB of a target of the CfgFile).
THEOREM MaskedScoreTheorem == DynSpec => []MaskedScoreNeedsTakenEdge
BY DynDstSound, DstSoundImpliesMasked, PTL

=============================================================================
