---------------------- MODULE PathImpliesScore_proofs ----------------------
(***************************************************************************)
(* Proof of PathImpliesScore (spec I6): between calls, every BB with a     *)
(* path to a BB of an open target has a score.                             *)
(*                                                                         *)
(* Two hypotheses are needed, and the runs show that neither can be        *)
(* dropped:                                                                *)
(*   UniqueCmp    every CmpId lies in one BB (spec, section 3).  Without   *)
(*                it init_prop_targets and remove_target propagate from    *)
(*                the BB reverse_id_mapping keeps, and the other BB's      *)
(*                predecessors stay unscored (run duplicate_cmp);          *)
(*   NoUndefWrap  in every state, no BB whose score has a finite input     *)
(*                computes UNDEF: the u32 addition at cfg.rs:359 never     *)
(*                lands on u32::MAX.  Scores on target-free cycles grow    *)
(*                at every propagation, so this is a property of the run,  *)
(*                not of the code: with 4-bit scores TLC finds it broken   *)
(*                on a cycle, and with 2-bit scores it finds the addition  *)
(*                landing on UNDEF on a path to a target, which breaks     *)
(*                PathImpliesScore.                                        *)
(*                                                                         *)
(* Under NoUndefWrap a BB has a score exactly when it is Supported.  The   *)
(* argument is about the edges whose cached weight is UNDEF although their *)
(* destination is Supported (the StaleBbs): PropagationFrontier says where *)
(* each of them is in the work still to do.  Between calls there is none,  *)
(* so the Supported BBs contain the target BBs and are closed under        *)
(* predecessors, which is all that Reaches asks.                           *)
(***************************************************************************)
EXTENDS ControlFlowGraph_proofs

USE ConstantsAssumption

-----------------------------------------------------------------------------
(***************************************************************************)
(* Lemmas on reverse_id_mapping and on the Bfs queue.                      *)
(***************************************************************************)

\* reverse_id_mapping maps a mapped CmpId to a BB that holds it.
LEMMA ReverseMappingHolds ==
    ASSUME NEW t \in MappedCmp
    PROVE  /\ reverse_id_mapping[t] \in MappedBb
           /\ t \in IdMapping[reverse_id_mapping[t]]
BY DEF reverse_id_mapping, MappedCmp

\* With unique CmpIds, it maps the CmpId of a BB back to that BB.
LEMMA ReverseMappingUnique ==
    ASSUME UniqueCmp, NEW b \in MappedBb, NEW t \in IdMapping[b]
    PROVE  /\ t \in MappedCmp
           /\ reverse_id_mapping[t] = b
<1>1. t \in MappedCmp
  BY DEF MappedCmp
<1>2. reverse_id_mapping[t] \in MappedBb /\ t \in IdMapping[reverse_id_mapping[t]]
  BY <1>1, ReverseMappingHolds
<1>. QED  BY <1>1, <1>2 DEF UniqueCmp

\* A permutation of a finite set lists exactly its elements.
LEMMA SetToSeqsRange ==
    ASSUME NEW S, IsFiniteSet(S), NEW order \in SetToSeqs(S)
    PROVE  /\ order \in Seq(S)
           /\ Range(order) = S
<1> DEFINE n == Cardinality(S)
<1>1. n \in Nat
  BY FS_CardinalityType
<1>2. order \in [1..n -> S] /\ order \in Injection(1..n, S)
  BY DEF SetToSeqs, Injection, IsInjective
<1>3. IsFiniteSet(1..n) /\ Cardinality(1..n) = n
  BY <1>1, FS_Interval
<1>4. order \in Surjection(1..n, S)
  BY <1>2, <1>3, FS_Injection
<1>. QED  BY <1>1, <1>2, <1>4 DEF Surjection, Range

\* One Bfs step: the head leaves the queue and `order` joins it.
LEMMA RangeStep ==
    ASSUME NEW q \in Seq(BbId), q # <<>>, NEW order \in Seq(BbId)
    PROVE  /\ Range(Tail(q) \o order) = Range(Tail(q)) \cup Range(order)
           /\ Range(q) = {Head(q)} \cup Range(Tail(q))
<1>1. Tail(q) \in Seq(BbId) /\ Len(Tail(q)) = Len(q) - 1
  OBVIOUS
<1>2. \A i \in 1..Len(q) - 1 : Tail(q)[i] = q[i + 1]
  OBVIOUS
<1>3. Range(Tail(q) \o order) = Range(Tail(q)) \cup Range(order)
  <2> DEFINE t == Tail(q)
  <2>1. /\ DOMAIN (t \o order) = 1..(Len(t) + Len(order))
        /\ DOMAIN t = 1..Len(t) /\ DOMAIN order = 1..Len(order)
        /\ Len(t) \in Nat /\ Len(order) \in Nat
    BY <1>1
  <2>2. \A i \in 1..(Len(t) + Len(order)) :
          (t \o order)[i] = IF i <= Len(t) THEN t[i] ELSE order[i - Len(t)]
    BY <1>1
  <2>3. ASSUME NEW x \in Range(t \o order) PROVE x \in Range(t) \cup Range(order)
    <3>1. PICK i \in 1..(Len(t) + Len(order)) : x = (t \o order)[i]
      BY <2>1 DEF Range
    <3>2. CASE i <= Len(t)
      BY <2>1, <2>2, <3>1, <3>2 DEF Range
    <3>3. CASE ~(i <= Len(t))
      <4>1. i - Len(t) \in 1..Len(order)
        BY <2>1, <3>3
      <4>. QED  BY <2>1, <2>2, <3>1, <3>3, <4>1 DEF Range
    <3>. QED  BY <3>2, <3>3
  <2>4. ASSUME NEW x \in Range(t) PROVE x \in Range(t \o order)
    <3>1. PICK i \in 1..Len(t) : x = t[i]
      BY <2>1 DEF Range
    <3>. QED  BY <2>1, <2>2, <3>1 DEF Range
  <2>5. ASSUME NEW x \in Range(order) PROVE x \in Range(t \o order)
    <3>1. PICK i \in 1..Len(order) : x = order[i]
      BY <2>1 DEF Range
    <3>2. i + Len(t) \in 1..(Len(t) + Len(order)) /\ ~(i + Len(t) <= Len(t))
      BY <2>1
    <3>3. (t \o order)[i + Len(t)] = x
      BY <2>1, <2>2, <3>1, <3>2
    <3>. QED  BY <2>1, <3>2, <3>3 DEF Range
  <2>. QED  BY <2>3, <2>4, <2>5
<1>4. Range(q) = {Head(q)} \cup Range(Tail(q))
  <2>1. /\ Len(q) \in Nat \ {0} /\ Head(q) = q[1] /\ DOMAIN q = 1..Len(q)
        /\ DOMAIN Tail(q) = 1..(Len(q) - 1)
    BY <1>1
  <2>2. ASSUME NEW x \in Range(q) PROVE x \in {Head(q)} \cup Range(Tail(q))
    <3>1. PICK i \in 1..Len(q) : x = q[i]
      BY <2>1 DEF Range
    <3>2. CASE i = 1
      BY <2>1, <3>1, <3>2
    <3>3. CASE i # 1
      <4>1. i - 1 \in 1..(Len(q) - 1) /\ Tail(q)[i - 1] = x
        BY <1>2, <2>1, <3>1, <3>3
      <4>. QED  BY <2>1, <4>1 DEF Range
    <3>. QED  BY <3>2, <3>3
  <2>3. Head(q) \in Range(q)
    BY <2>1 DEF Range
  <2>4. ASSUME NEW x \in Range(Tail(q)) PROVE x \in Range(q)
    <3>1. PICK i \in 1..(Len(q) - 1) : x = Tail(q)[i]
      BY <2>1 DEF Range
    <3>2. i + 1 \in 1..Len(q) /\ q[i + 1] = x
      BY <1>2, <2>1, <3>1
    <3>. QED  BY <2>1, <3>2 DEF Range
  <2>. QED  BY <2>2, <2>3, <2>4
<1>. QED  BY <1>3, <1>4

-----------------------------------------------------------------------------
(***************************************************************************)
(* The frontier invariant between calls gives PathImpliesScore.           *)
(***************************************************************************)

\* A finite score needs support, whatever the weights.
LEMMA ScoreNeedsSupport ==
    ASSUME NEW b, LocalScore(b) # UNDEF_SCORE
    PROVE  Supported(b)
BY ScoreDefined DEF LocalScore, Supported, Successors

\* With no stale BB, the Supported BBs contain the target BBs and are
\* closed under predecessors, so every BB that reaches a target BB is
\* Supported.
LEMMA NoStaleReachesSupported ==
    ASSUME TypeOK, StaleBbs = {},
           NEW b \in BbId, Reaches(b, graph, TargetBbs(targets))
    PROVE  Supported(b)
<1> DEFINE S == {x \in BbId : Supported(x)}
<1>1. TargetBbs(targets) \subseteq S
  BY DEF TargetBbs, Supported, HasOpenTarget
<1>2. ASSUME NEW e \in graph, e[2] \in S PROVE e[1] \in S
  <2>1. e = <<e[1], e[2]>> /\ e[1] \in BbId /\ e[2] \in BbId
    BY DEF TypeOK, Edge
  <2>2. weight[e] # UNDEF_SCORE
    BY <1>2, <2>1 DEF StaleBbs
  <2>. QED  BY <1>2, <2>1, <2>2 DEF Supported, Successors
<1>. QED  BY <1>1, <1>2 DEF Reaches

LEMMA FrontierImpliesPathImpliesScore ==
    TypeOK /\ PropagationFrontier /\ NoUndefWrap => PathImpliesScore
<1> SUFFICES ASSUME TypeOK, PropagationFrontier, NoUndefWrap, pc = "idle",
                    NEW b \in BbId, Reaches(b, graph, TargetBbs(targets))
             PROVE  LocalScore(b) # UNDEF_SCORE
  BY DEF PathImpliesScore, has_path_to_target_bb, score_for_bb
<1>1. StaleBbs = {}
  BY DEF PropagationFrontier
<1>. QED  BY <1>1, NoStaleReachesSupported DEF NoUndefWrap

-----------------------------------------------------------------------------
(***************************************************************************)
(* The frontier holds initially: the BBs with a finite weight after        *)
(* init_add_edge are the BBs of the CfgFile's targets, which are all still *)
(* to be propagated.  This is where unique CmpIds are needed: the BB       *)
(* init_prop_targets propagates a target from is the BB that holds it.     *)
(***************************************************************************)

LEMMA InitFrontier ==
    ASSUME UniqueCmp
    PROVE  Init => PropagationFrontier
<1> SUFFICES ASSUME Init PROVE PropagationFrontier
  OBVIOUS
<1>1. ASSUME NEW v \in BbId, Supported(v) PROVE HasOpenTarget(InitTargets, v)
  <2>1. CASE HasOpenTarget(targets, v)
    BY <2>1 DEF Init
  <2>2. CASE \E n \in Successors(graph, v) : weight[<<v, n>>] # UNDEF_SCORE
    <3>1. PICK n \in Successors(graph, v) : weight[<<v, n>>] # UNDEF_SCORE
      BY <2>2
    <3>2. <<v, n>> \in InitEdges /\ <<v, n>> \in Edge
      BY <3>1 DEF Init, Successors, Edge
    <3>3. init_add_edge_weight(<<v, n>>) # UNDEF_SCORE
      BY <3>1, <3>2 DEF Init
    <3>. QED  BY <3>3 DEF init_add_edge_weight
  <2>. QED  BY <1>1, <2>1, <2>2 DEF Supported
<1>2. StaleBbs \subseteq PendingBbs
  <2> SUFFICES ASSUME NEW v \in StaleBbs PROVE v \in PendingBbs
    OBVIOUS
  <2>1. PICK t \in IdMapping[v] : t \in InitTargets /\ v \in MappedBb
    BY <1>1 DEF StaleBbs, HasOpenTarget
  <2>2. t \in MappedCmp /\ reverse_id_mapping[t] = v
    BY <2>1, ReverseMappingUnique
  <2>. QED  BY <2>1, <2>2 DEF PendingBbs, Init
<1>. QED  BY <1>2 DEF PropagationFrontier, Init

-----------------------------------------------------------------------------
(***************************************************************************)
(* Every step keeps the frontier.                                          *)
(***************************************************************************)

\* A step that leaves the graph, the weights and the targets alone leaves
\* the support of every BB and the stale BBs alone.
LEMMA SupportFrame ==
    ASSUME UNCHANGED <<graph, weight, targets>>
    PROVE  /\ \A b : Supported(b)' = Supported(b)
           /\ StaleBbs' = StaleBbs
BY DEF Supported, StaleBbs, HasOpenTarget, Successors

\* One iteration of init_prop_targets starts a Bfs from the BB of the
\* target it takes, and that BB has a finite score.
LEMMA InitPropTargetFrontier ==
    ASSUME TypeOK, PropagationFrontier, InitPropTarget
    PROVE  PropagationFrontier'
<1>1. PICK t \in pending :
           /\ pending' = pending \ {t}
           /\ IF t \in MappedCmp
              THEN StartBfs(reverse_id_mapping[t]) /\ caller' = "new"
              ELSE UNCHANGED <<pc, queue, discovered, caller>>
  BY DEF InitPropTarget
<1>2. /\ UNCHANGED <<graph, weight, targets, solved_targets, removing>>
      /\ pc = "init_prop"
  BY DEF InitPropTarget
<1>3. StaleBbs' = StaleBbs /\ \A b : Supported(b)' = Supported(b)
  BY <1>2, SupportFrame
<1>4. /\ StaleBbs \subseteq PendingBbs
      /\ queue = <<>>
      /\ pending \subseteq targets
  BY <1>2 DEF PropagationFrontier
<1>5. pending' \subseteq targets'
  BY <1>1, <1>2, <1>4
<1>6. CASE t \in MappedCmp
  <2> DEFINE b0 == reverse_id_mapping[t]
  <2>1. pc' = "propagate" /\ queue' = <<b0>> /\ discovered' = {b0} /\ caller' = "new"
    BY <1>1, <1>6 DEF StartBfs
  <2>2. PendingBbs \subseteq PendingBbs' \cup {b0}
    BY <1>1 DEF PendingBbs
  <2>3. Range(queue') = {b0}
    BY <2>1 DEF Range
  <2>4. Supported(b0)'
    <3>1. b0 \in MappedBb /\ t \in IdMapping[b0]
      BY <1>6, ReverseMappingHolds
    <3>2. HasOpenTarget(targets, b0)
      BY <1>4, <3>1 DEF HasOpenTarget
    <3>. QED  BY <1>2, <1>3, <3>2 DEF Supported
  <2>. QED  BY <1>3, <1>4, <1>5, <2>1, <2>2, <2>3, <2>4 DEF PropagationFrontier
<1>7. CASE t \notin MappedCmp
  <2>1. PendingBbs' = PendingBbs
    BY <1>1, <1>7 DEF PendingBbs
  <2>. QED  BY <1>1, <1>2, <1>3, <1>4, <1>5, <1>7, <2>1 DEF PropagationFrontier
<1>. QED  BY <1>6, <1>7

\* init_prop_targets returns once every target is propagated, and then
\* no BB is stale.
LEMMA InitPropDoneFrontier ==
    ASSUME TypeOK, PropagationFrontier, InitPropDone
    PROVE  PropagationFrontier'
<1>1. /\ pc = "init_prop" /\ pending = {} /\ pc' = "idle"
      /\ UNCHANGED <<graph, weight, targets, pending>>
  BY DEF InitPropDone
<1>2. PendingBbs = {}
  BY <1>1 DEF PendingBbs
<1>3. StaleBbs = {}
  BY <1>1, <1>2 DEF PropagationFrontier
<1>. QED  BY <1>1, <1>3, SupportFrame DEF PropagationFrontier

\* propagate_score returns when the queue is empty: a stale BB can then
\* only be the BB of a target init_prop_targets has still to propagate,
\* and there is none when add_edge or remove_target called it.
LEMMA PropReturnFrontier ==
    ASSUME TypeOK, PropagationFrontier, PropReturn
    PROVE  PropagationFrontier'
<1>1. /\ pc = "propagate" /\ queue = <<>>
      /\ pc' = IF caller = "new" THEN "init_prop" ELSE "idle"
      /\ UNCHANGED <<graph, weight, targets, pending, queue, discovered, caller>>
  BY DEF PropReturn
<1>2. StaleBbs' = StaleBbs
  BY <1>1, SupportFrame
<1>3. StaleBbs \subseteq PendingBbs
  <2>1. Range(queue) = {}
    BY <1>1 DEF Range
  <2>. QED  BY <1>1, <2>1 DEF PropagationFrontier
<1>4. PendingBbs' = PendingBbs
  BY <1>1 DEF PendingBbs
<1>5. CASE caller = "new"
  BY <1>1, <1>2, <1>3, <1>4, <1>5 DEF PropagationFrontier
<1>6. CASE caller # "new"
  <2>1. pending = {}
    BY <1>6 DEF PropagationFrontier
  <2>2. PendingBbs = {}
    BY <2>1 DEF PendingBbs
  <2>. QED  BY <1>1, <1>2, <1>3, <1>6, <2>1, <2>2 DEF PropagationFrontier
<1>. QED  BY <1>5, <1>6

\* remove_target only takes support away, so it makes no BB stale.
LEMMA RemoveTargetFrontier ==
    ASSUME TypeOK, PropagationFrontier, NEW c \in CmpId, RemoveTarget(c)
    PROVE  PropagationFrontier'
<1>1. /\ pc = "idle" /\ targets' = targets \ {c}
      /\ UNCHANGED <<graph, weight, pending>>
  BY DEF RemoveTarget
<1>2. StaleBbs = {} /\ pending = {}
  BY <1>1 DEF PropagationFrontier
<1>3. StaleBbs' = {}
  <2>1. \A b : Supported(b)' => Supported(b)
    BY <1>1 DEF Supported, HasOpenTarget, Successors
  <2>. QED  BY <1>1, <1>2, <2>1 DEF StaleBbs
<1>4. CASE c \in MappedCmp
  <2>1. pc' = "propagate" /\ queue' = <<reverse_id_mapping[c]>>
        /\ discovered' = {reverse_id_mapping[c]}
    BY <1>4 DEF RemoveTarget, StartBfs
  <2>2. Range(queue') \subseteq discovered'
    BY <2>1 DEF Range
  <2>. QED  BY <1>1, <1>2, <1>3, <2>1, <2>2 DEF PropagationFrontier
<1>5. CASE c \notin MappedCmp
  <2>1. UNCHANGED <<pc, queue, discovered, caller>>
    BY <1>5 DEF RemoveTarget
  <2>. QED  BY <1>1, <1>2, <1>3, <2>1 DEF PropagationFrontier
<1>. QED  BY <1>4, <1>5

\* One iteration of the reverse Bfs.  When the visited BB is Supported,
\* its finite score goes into every incoming edge: it stops being stale,
\* and a predecessor that gains support through it is either already
\* Supported (when something is stale every discovered BB is) or fresh,
\* and so queued.  When it is not Supported nothing is stale, and writing
\* UNDEF only takes support away.
LEMMA PropVisitFrontier ==
    ASSUME TypeOK, PropagationFrontier, NoUndefWrap, PropVisit
    PROVE  PropagationFrontier'
<1> DEFINE visited == Head(queue)
           fresh == {p \in BbId : <<p, visited>> \in graph} \ discovered
           new_score == LocalScore(visited)
<1>1. /\ pc = "propagate" /\ queue # <<>>
      /\ discovered' = discovered \cup fresh
      /\ weight' = [e \in Edge |-> IF e \in graph /\ e[2] = visited
                                   THEN new_score ELSE weight[e]]
      /\ UNCHANGED <<graph, targets, solved_targets, pc, pending, caller, removing>>
  BY DEF PropVisit
<1>2. PICK order \in SetToSeqs(fresh) : queue' = Tail(queue) \o order
  BY DEF PropVisit
<1>3. IsFiniteSet(fresh) /\ fresh \subseteq BbId
  BY FS_Subset
<1>4. order \in Seq(BbId) /\ Range(order) = fresh
  BY <1>2, <1>3, SetToSeqsRange, SetToSeqsType
<1>5. /\ Range(queue') = Range(Tail(queue)) \cup fresh
      /\ Range(queue) = {visited} \cup Range(Tail(queue))
  BY <1>1, <1>2, <1>4, RangeStep DEF TypeOK
<1>6. /\ StaleBbs \subseteq Range(queue) \cup PendingBbs
      /\ Range(queue) \subseteq discovered
      /\ StaleBbs # {} => \A b \in discovered : Supported(b)
      /\ (pc = "idle" \/ caller # "new") => pending = {}
      /\ pending \subseteq targets
  BY <1>1 DEF PropagationFrontier
<1>7. visited \in discovered /\ visited \in BbId
  BY <1>5, <1>6 DEF TypeOK
<1>8. PendingBbs' = PendingBbs
  BY <1>1 DEF PendingBbs
<1>9. \A u, v \in BbId :
         weight'[<<u, v>>] = IF <<u, v>> \in graph /\ v = visited
                             THEN new_score ELSE weight[<<u, v>>]
  BY <1>1 DEF Edge
<1>10. ASSUME NEW v \in StaleBbs'
       PROVE  /\ v # visited
              /\ \/ v \in StaleBbs
                 \/ StaleBbs # {} /\ v \in fresh
  <2>1. PICK u \in BbId : <<u, v>> \in graph /\ weight'[<<u, v>>] = UNDEF_SCORE
    BY <1>1 DEF StaleBbs
  <2>2. v \in BbId /\ Supported(v)'
    BY DEF StaleBbs
  <2>3. CASE Supported(visited)
    <3>1. new_score # UNDEF_SCORE
      BY <1>7, <2>3 DEF NoUndefWrap
    <3>2. v # visited
      BY <1>9, <2>1, <2>2, <3>1
    <3>3. weight[<<u, v>>] = UNDEF_SCORE
      BY <1>9, <2>1, <2>2, <3>2
    <3>4. CASE Supported(v)
      BY <2>1, <2>2, <3>2, <3>3, <3>4 DEF StaleBbs
    <3>5. CASE ~Supported(v)
      <4>1. PICK n \in Successors(graph, v) : weight'[<<v, n>>] # UNDEF_SCORE
        BY <1>1, <2>2, <3>5 DEF Supported, HasOpenTarget, Successors
      <4>2. n = visited /\ <<v, visited>> \in graph
        BY <1>9, <2>2, <3>5, <4>1 DEF Supported, Successors
      <4>3. weight[<<v, visited>>] = UNDEF_SCORE
        BY <2>2, <3>5, <4>2 DEF Supported, Successors
      <4>4. visited \in StaleBbs
        BY <1>7, <2>2, <2>3, <4>2, <4>3 DEF StaleBbs
      <4>5. v \notin discovered
        BY <1>6, <3>5, <4>4
      <4>. QED  BY <2>2, <3>2, <4>2, <4>4, <4>5
    <3>. QED  BY <3>2, <3>4, <3>5
  <2>4. CASE ~Supported(visited)
    <3>1. new_score = UNDEF_SCORE
      BY <2>4, ScoreNeedsSupport
    <3>2. Supported(v)
      <4>1. CASE HasOpenTarget(targets, v)
        BY <4>1 DEF Supported
      <4>2. CASE ~HasOpenTarget(targets, v)
        <5>1. PICK n \in Successors(graph, v) : weight'[<<v, n>>] # UNDEF_SCORE
          BY <1>1, <2>2, <4>2 DEF Supported, HasOpenTarget, Successors
        <5>2. weight'[<<v, n>>] = weight[<<v, n>>]
          BY <1>9, <2>2, <3>1, <5>1 DEF Successors
        <5>. QED  BY <5>1, <5>2 DEF Supported
      <4>. QED  BY <4>1, <4>2
    <3>3. v # visited
      BY <2>4, <3>2
    <3>4. weight[<<u, v>>] = UNDEF_SCORE
      BY <1>9, <2>1, <2>2, <3>3
    <3>. QED  BY <2>1, <2>2, <3>2, <3>3, <3>4 DEF StaleBbs
  <2>. QED  BY <2>3, <2>4
<1>11. StaleBbs' # {} => \A b \in discovered' : Supported(b)'
  <2> SUFFICES ASSUME StaleBbs' # {}, NEW b \in discovered'
               PROVE  Supported(b)'
    OBVIOUS
  <2>1. StaleBbs # {}
    BY <1>10
  <2>2. new_score # UNDEF_SCORE
    BY <1>6, <1>7, <2>1 DEF NoUndefWrap
  <2>3. b \in BbId
    BY <1>1 DEF TypeOK
  <2>4. CASE b \in discovered
    <3>1. Supported(b)
      BY <1>6, <2>1, <2>4
    <3>2. CASE HasOpenTarget(targets, b)
      BY <1>1, <3>2 DEF Supported, HasOpenTarget
    <3>3. CASE \E n \in Successors(graph, b) : weight[<<b, n>>] # UNDEF_SCORE
      <4>1. PICK n \in Successors(graph, b) : weight[<<b, n>>] # UNDEF_SCORE
        BY <3>3
      <4>2. weight'[<<b, n>>] # UNDEF_SCORE
        BY <1>9, <2>2, <2>3, <4>1 DEF Successors
      <4>. QED  BY <1>1, <4>1, <4>2 DEF Supported, Successors
    <3>. QED  BY <3>1, <3>2, <3>3 DEF Supported
  <2>5. CASE b \in fresh
    <3>1. <<b, visited>> \in graph /\ weight'[<<b, visited>>] # UNDEF_SCORE
      BY <1>7, <1>9, <2>2, <2>5
    <3>. QED  BY <1>1, <1>7, <3>1 DEF Supported, Successors
  <2>. QED  BY <1>1, <2>4, <2>5
<1>12. StaleBbs' \subseteq Range(queue') \cup PendingBbs'
  BY <1>5, <1>6, <1>8, <1>10
<1>13. Range(queue') \subseteq discovered'
  BY <1>1, <1>5, <1>6
<1>. QED  BY <1>1, <1>6, <1>11, <1>12, <1>13 DEF PropagationFrontier

\* add_edge changes the support of its source only, and the new edge is
\* stale only when its destination is not Supported.  So at most the
\* source is stale afterwards: handle_new_edge propagates from it when
\* its score changed, and when its score did not change, a stale source
\* would have been stale before the call.  This is the step that needs
\* NoUndefWrap after the step.
LEMMA AddEdgeFrontier ==
    ASSUME TypeOK, PropagationFrontier, NoUndefWrap, NoUndefWrap',
           NEW edge \in NewEdges, AddEdge(edge)
    PROVE  PropagationFrontier'
<1> DEFINE src == edge[1]
           dst == edge[2]
           w1 == [weight EXCEPT ![edge] = LocalScore(dst)]
           new_src_score == ScoreFor(w1, graph \cup {edge}, targets, src)
<1>1. /\ pc = "idle"
      /\ graph' = graph \cup {edge}
      /\ weight' = w1
      /\ UNCHANGED <<targets, pending>>
      /\ IF LocalScore(src) = new_src_score
         THEN UNCHANGED <<pc, queue, discovered, caller>>
         ELSE StartBfs(src) /\ caller' = "add_edge"
  BY DEF AddEdge
<1>2. StaleBbs = {} /\ pending = {}
  BY <1>1 DEF PropagationFrontier
<1>3. edge \in Edge /\ edge = <<src, dst>> /\ src \in BbId /\ dst \in BbId
  BY DEF Edge
<1>4. \A u, v \in BbId :
         weight'[<<u, v>>] = IF <<u, v>> = edge THEN LocalScore(dst)
                                              ELSE weight[<<u, v>>]
  BY <1>1, <1>3 DEF TypeOK, Edge
<1>5. ASSUME NEW b \in BbId, b # src PROVE Supported(b)' = Supported(b)
  <2>1. \A n \in BbId : (<<b, n>> \in graph' <=> <<b, n>> \in graph)
                       /\ weight'[<<b, n>>] = weight[<<b, n>>]
    BY <1>1, <1>3, <1>4, <1>5
  <2>. QED  BY <1>1, <2>1 DEF Supported, HasOpenTarget, Successors
<1>6. weight'[edge] = UNDEF_SCORE => ~Supported(dst)'
  <2> SUFFICES ASSUME weight'[edge] = UNDEF_SCORE PROVE ~Supported(dst)'
    OBVIOUS
  <2>1. ~Supported(dst)
    BY <1>3, <1>4 DEF NoUndefWrap
  <2>2. CASE dst # src
    BY <1>3, <1>5, <2>1, <2>2
  <2>3. CASE dst = src
    <3>1. ~HasOpenTarget(targets', dst)
      BY <1>1, <2>1 DEF Supported
    <3>2. ASSUME NEW n \in Successors(graph', dst), weight'[<<dst, n>>] # UNDEF_SCORE
          PROVE  FALSE
      <4>1. <<dst, n>> # edge
        BY <3>2, <1>3, <2>3
      <4>2. <<dst, n>> \in graph /\ weight[<<dst, n>>] # UNDEF_SCORE
        BY <1>1, <1>3, <1>4, <3>2, <4>1 DEF Successors
      <4>. QED  BY <2>1, <4>2 DEF Supported, Successors
    <3>. QED  BY <3>1, <3>2 DEF Supported
  <2>. QED  BY <2>2, <2>3
<1>7. ASSUME NEW v \in StaleBbs' PROVE v = src
  <2>1. PICK u \in BbId : <<u, v>> \in graph' /\ weight'[<<u, v>>] = UNDEF_SCORE
    BY DEF StaleBbs
  <2>2. v \in BbId /\ Supported(v)'
    BY DEF StaleBbs
  <2>3. SUFFICES ASSUME v # src PROVE FALSE
    OBVIOUS
  <2>4. CASE <<u, v>> = edge
    BY <1>3, <1>6, <2>1, <2>2, <2>4
  <2>5. CASE <<u, v>> # edge
    <3>1. <<u, v>> \in graph /\ weight[<<u, v>>] = UNDEF_SCORE
      BY <1>1, <1>4, <2>1, <2>2, <2>5
    <3>2. Supported(v)
      BY <1>5, <2>2, <2>3
    <3>. QED  BY <1>2, <2>2, <3>1, <3>2 DEF StaleBbs
  <2>. QED  BY <2>4, <2>5
<1>8. CASE LocalScore(src) = new_src_score
  <2>1. UNCHANGED <<pc, queue, discovered, caller>>
    BY <1>1, <1>8
  <2>2. StaleBbs' = {}
    <3> SUFFICES ASSUME src \in StaleBbs' PROVE FALSE
      BY <1>7
    <3>1. LocalScore(src)' # UNDEF_SCORE
      BY <1>3 DEF StaleBbs, NoUndefWrap
    <3>2. LocalScore(src)' = new_src_score
      BY <1>1 DEF LocalScore
    <3>3. Supported(src)
      BY <1>8, <3>1, <3>2, ScoreNeedsSupport
    <3>4. PICK u \in BbId : <<u, src>> \in graph' /\ weight'[<<u, src>>] = UNDEF_SCORE
      BY DEF StaleBbs
    <3>5. CASE <<u, src>> = edge
      <4>1. dst = src
        BY <1>3, <3>5
      <4>2. weight'[edge] = LocalScore(src)
        BY <1>3, <1>4, <4>1
      <4>. QED  BY <1>8, <3>1, <3>2, <3>4, <3>5, <4>2
    <3>6. CASE <<u, src>> # edge
      <4>1. <<u, src>> \in graph /\ weight[<<u, src>>] = UNDEF_SCORE
        BY <1>1, <1>3, <1>4, <3>4, <3>6
      <4>. QED  BY <1>2, <1>3, <3>3, <4>1 DEF StaleBbs
    <3>. QED  BY <3>5, <3>6
  <2>. QED  BY <1>1, <1>2, <2>1, <2>2 DEF PropagationFrontier
<1>9. CASE LocalScore(src) # new_src_score
  <2>1. pc' = "propagate" /\ queue' = <<src>> /\ discovered' = {src}
        /\ caller' = "add_edge"
    BY <1>1, <1>9 DEF StartBfs
  <2>2. Range(queue') = {src}
    BY <2>1 DEF Range
  <2>3. StaleBbs' # {} => Supported(src)'
    BY <1>7 DEF StaleBbs
  <2>. QED  BY <1>1, <1>2, <1>7, <2>1, <2>2, <2>3 DEF PropagationFrontier
<1>. QED  BY <1>8, <1>9

LEMMA NextFrontier ==
    TypeOK /\ PropagationFrontier /\ NoUndefWrap /\ NoUndefWrap' /\ [Next]_vars
        => PropagationFrontier'
<1> SUFFICES ASSUME TypeOK, PropagationFrontier, NoUndefWrap, NoUndefWrap',
                    [Next]_vars
             PROVE  PropagationFrontier'
  OBVIOUS
<1>1. CASE InitPropTarget
  BY <1>1, InitPropTargetFrontier
<1>2. CASE InitPropDone
  BY <1>2, InitPropDoneFrontier
<1>3. CASE PropVisit
  BY <1>3, PropVisitFrontier
<1>4. CASE PropReturn
  BY <1>4, PropReturnFrontier
<1>5. CASE \E e \in NewEdges : AddEdge(e)
  BY <1>5, AddEdgeFrontier
<1>6. CASE \E c \in CmpId : RemoveTarget(c)
  BY <1>6, RemoveTargetFrontier
<1>7. CASE UNCHANGED vars
  <2>1. StaleBbs' = StaleBbs /\ PendingBbs' = PendingBbs
    BY <1>7, SupportFrame DEF vars, PendingBbs
  <2>2. Range(queue') = Range(queue)
    BY <1>7 DEF vars
  <2>3. \A b : Supported(b)' = Supported(b)
    BY <1>7, SupportFrame DEF vars
  <2>. QED  BY <1>7, <2>1, <2>2, <2>3 DEF vars, PropagationFrontier
<1>. QED  BY <1>1, <1>2, <1>3, <1>4, <1>5, <1>6, <1>7 DEF Next

-----------------------------------------------------------------------------
(***************************************************************************)
(* The theorem.                                                            *)
(***************************************************************************)

\* The frontier holds in every reachable state of a run whose scores never
\* wrap onto UNDEF (the run core_safety checks it as an invariant).
THEOREM FrontierTheorem ==
    ASSUME UniqueCmp
    PROVE  Spec /\ []NoUndefWrap => []PropagationFrontier
<1>1. Spec => []TypeOK
  BY TypeCorrect
<1>. QED  BY <1>1, InitFrontier, NextFrontier, PTL DEF Spec

\* Spec I6 for every instance with unique CmpIds: in every reachable
\* state in which no call is running, a BB with a path to a BB of an open
\* target has a score (has_path_to_target_bb answers true), after
\* construction, add_edge and remove_target in any order, provided no
\* score computation has wrapped onto UNDEF.
THEOREM PathImpliesScoreTheorem ==
    ASSUME UniqueCmp
    PROVE  Spec /\ []NoUndefWrap => []PathImpliesScore
<1>1. Spec => []TypeOK
  BY TypeCorrect
<1>2. Spec /\ []NoUndefWrap => []PropagationFrontier
  BY FrontierTheorem
<1>. QED  BY <1>1, <1>2, FrontierImpliesPathImpliesScore, PTL

=============================================================================
