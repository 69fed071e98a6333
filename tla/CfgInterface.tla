---------------------------- MODULE CfgInterface ----------------------------
(***************************************************************************)
(* What ControlFlowGraph promises its caller, with every public call       *)
(* atomic.  `new` makes the graph ready; add_edge adds an edge; remove_    *)
(* target moves an open target to the solved ones.  After each call the    *)
(* set of BBs with a score lies between two reachability bounds: every BB  *)
(* that reaches a BB of an open target has a score (spec I6), and a BB     *)
(* with a score reaches a BB of an open or solved target (spec P4).        *)
(* Which BBs in between have a score is left open: the cached scores may   *)
(* remember solved targets.                                                *)
(***************************************************************************)
EXTENDS FiniteSets

CONSTANTS BbId, CmpId, IdMapping, InitEdges, InitTargets, NewEdges

VARIABLES
    ready,   \* `new` has returned
    graph,   \* the edges
    open,    \* the open targets
    solved,  \* the solved targets
    scored   \* the BBs for which has_score answers true

avars == <<ready, graph, open, solved, scored>>

\* The BBs holding one of the comparisons in cs.
BbsOf(cs) == {b \in DOMAIN IdMapping : IdMapping[b] \cap cs # {}}

\* The BBs from which a path along g leads into T: the least set that
\* contains T and is closed under predecessors.
ReachSet(g, T) ==
    {b \in BbId : \A S \in SUBSET BbId :
                     (T \subseteq S /\ \A e \in g : e[2] \in S => e[1] \in S)
                        => b \in S}

\* Sound answers: a score only where a path to some target exists.
Sound(g, o, s) == SUBSET ReachSet(g, BbsOf(o \cup s))

\* Sound and complete answers: also a score wherever an open target is
\* reachable.
Allowed(g, o, s) == {S \in Sound(g, o, s) : ReachSet(g, BbsOf(o)) \subseteq S}

AInit ==
    /\ ready = FALSE
    /\ graph = InitEdges
    /\ open = InitTargets
    /\ solved = {}
    /\ scored = {}

\* `new` returns.
Construct(Answers(_, _, _)) ==
    /\ ~ready
    /\ ready' = TRUE
    /\ scored' \in Answers(graph, open, solved)
    /\ UNCHANGED <<graph, open, solved>>

\* add_edge(e) returns.
AddEdge(e, Answers(_, _, _)) ==
    /\ ready
    /\ graph' = graph \cup {e}
    /\ scored' \in Answers(graph', open, solved)
    /\ UNCHANGED <<ready, open, solved>>

\* remove_target(c) of an open target returns.
Solve(c, Answers(_, _, _)) ==
    /\ ready
    /\ c \in open
    /\ open' = open \ {c}
    /\ solved' = solved \cup {c}
    /\ scored' \in Answers(graph, open', solved')
    /\ UNCHANGED <<ready, graph>>

ANext(Answers(_, _, _)) ==
    \/ Construct(Answers)
    \/ \E e \in NewEdges : AddEdge(e, Answers)
    \/ \E c \in CmpId : Solve(c, Answers)

\* The interface: sound and complete scores after every call.
ASpec == AInit /\ [][ANext(Allowed)]_avars

\* Its sound half: no call leaves a score without a path to a target.
SoundSpec == AInit /\ [][ANext(Sound)]_avars

=============================================================================
