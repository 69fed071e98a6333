----------------------------- MODULE MC_DynCfg -----------------------------
(***************************************************************************)
(* Scenario S4 of the spec, grown: BB 1 reaches the target BB 2 directly  *)
(* and, once add_edge reports them, through BB 3.  Both out-edges of BB 1 *)
(* may be marked indirect for call site 7 and get a magic byte at offset  *)
(* 0 (0xAA or 0xBB), from a tag covering offset 0 or from an empty tag.   *)
(* Inputs have at most one byte, so the empty input exercises the         *)
(* permissive case of an offset past the end.                              *)
(***************************************************************************)
EXTENDS DynCfg, TLC

MCBbId == {0, 1, 2, 3, 4}
MCCmpId == {10, 11, 12}
MCIdMapping == (1 :> {10}) @@ (2 :> {11}) @@ (3 :> {12})
MCInitTargets == {11}
MCInitEdges == {<<0, 1>>, <<1, 2>>, <<2, 4>>}
MCNewEdges == {<<1, 3>>, <<3, 2>>}
MCCallSiteId == {7}
MCCallSiteDominators == 7 :> {10}
MCByte == {170, 187}
MCTagSegs == {[begin |-> 0, end |-> 1], [begin |-> 1, end |-> 1]}
MCIndirectCandidates == {<<1, 2>>, <<1, 3>>}

=============================================================================
