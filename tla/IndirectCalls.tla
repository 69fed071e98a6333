--------------------------- MODULE IndirectCalls ---------------------------
(***************************************************************************)
(* The indirect-call tables of ControlFlowGraph                            *)
(* (src/fuzzer/src/dyncfg/cfg.rs): the indirect edges, the edges of each   *)
(* call site, the magic bytes recorded for an edge, the call-site          *)
(* dominators, and _should_count_edge, which masks an indirect edge out of *)
(* a score when the input contradicts the edge's magic bytes.             *)
(*                                                                         *)
(* An input and a buffer are sequences of bytes; offset i of the code is  *)
(* position i + 1 of a sequence.                                           *)
(***************************************************************************)
EXTENDS Integers, Sequences

CONSTANTS
    BbId,                \* the basic-block ids of the model
    CallSiteId,          \* the call-site ids of the model
    CallSiteDominators,  \* CfgFile.callsite_dominators : CallSiteId -> set of CmpId
    Byte,                \* the byte values of the model
    MaxInputLen,         \* the longest input or buffer of the model
    TagSegs,             \* the TagSeg ranges the tracer may report
    IndirectCandidates   \* the edges that may be marked indirect or get magic bytes

Edge == BbId \X BbId
Input == UNION {[1..n -> Byte] : n \in 0..MaxInputLen}

VARIABLES
    indirect_edges,  \* the edges marked indirect
    callsite_edges,  \* callsite_edges[cs]: the indirect edges of call site cs
    magic_bytes      \* magic_bytes[e]: the set of (offset, byte) pairs of e

ivars == <<indirect_edges, callsite_edges, magic_bytes>>

\* The union of all dominator sets, flattened by `new`.
dominator_cmps == UNION {CallSiteDominators[cs] : cs \in DOMAIN CallSiteDominators}

\* An absent HashMap entry and an empty one answer alike (empty set, empty
\* list), so both are {} here.
IInit ==
    /\ indirect_edges = {}
    /\ callsite_edges = [cs \in CallSiteId |-> {}]
    /\ magic_bytes = [e \in Edge |-> {}]

\* set_edge_indirect(edge, callsite)
set_edge_indirect(edge, callsite) ==
    /\ indirect_edges' = indirect_edges \cup {edge}
    /\ callsite_edges' = [callsite_edges EXCEPT ![callsite] = @ \cup {edge}]
    /\ UNCHANGED magic_bytes

\* The offsets covered by the half-open TagSeg ranges.
CoveredOffsets(offsets) == UNION {tag.begin .. (tag.end - 1) : tag \in offsets}

\* set_magic_bytes(edge, buf, offsets): every covered offset with the byte
\* of buf there, replacing what the edge had.  buf[i] panics when an
\* offset is past the end of buf; the tracer's tags lie inside the input.
set_magic_bytes(edge, buf, offsets) ==
    LET indices == CoveredOffsets(offsets)
    IN  /\ \A i \in indices : i < Len(buf)
        /\ magic_bytes' = [magic_bytes EXCEPT ![edge] =
                             {<<i, buf[i + 1]>> : i \in indices}]
        /\ UNCHANGED <<indirect_edges, callsite_edges>>

INext ==
    \/ \E e \in IndirectCandidates, cs \in CallSiteId : set_edge_indirect(e, cs)
    \/ \E e \in IndirectCandidates, buf \in Input, offsets \in SUBSET TagSegs :
           set_magic_bytes(e, buf, offsets)

-----------------------------------------------------------------------------
(***************************************************************************)
(* Queries.                                                                *)
(***************************************************************************)

get_magic_bytes(edge) == magic_bytes[edge]

dominates_indirect_call(cmp) == cmp \in dominator_cmps

get_callsite_dominators(cs) ==
    IF cs \in DOMAIN CallSiteDominators THEN CallSiteDominators[cs] ELSE {}

\* Mutant: an offset past the end of the input counts as a mismatch.
should_count_edge_strict(edge, inp) ==
    \/ edge \notin indirect_edges
    \/ \A f \in magic_bytes[edge] : f[1] < Len(inp) /\ inp[f[1] + 1] = f[2]

\* _should_count_edge(edge, inp): a direct edge always counts; an indirect
\* one unless the input holds, at one of its magic offsets, another byte.
\* An offset past the end of the input is satisfied.
should_count_edge(edge, inp) ==
    \/ edge \notin indirect_edges
    \/ \A f \in magic_bytes[edge] : f[1] < Len(inp) => inp[f[1] + 1] = f[2]

\* Every variable has its type.
ITypeOK ==
    /\ indirect_edges \subseteq Edge
    /\ callsite_edges \in [CallSiteId -> SUBSET Edge]
    /\ magic_bytes \in [Edge -> SUBSET (Nat \X Byte)]

=============================================================================
