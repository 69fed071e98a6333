--------------------------- MODULE MC_SarifParser ---------------------------
(***************************************************************************)
(* A directory with two good reports (a: two runs, locations and code      *)
(* flows; b: one run), a .txt file, an entry without extension and a      *)
(* .sarif file that does not deserialize.  The output_file argument ends   *)
(* in .sarif, the case in which the output would be read back as a report  *)
(* were its extension not replaced.  Three invocations.                    *)
(***************************************************************************)
EXTENDS SarifParser, TLC

\* L1, L2, L3 stand for three distinct <<uri, startLine>> pairs.
CONSTANTS a, b, c, d, e, L1, L2, L3

MCLoc == {L1, L2, L3}
MCInputs == {a, b, c, d, e}
MCExt == (a :> "sarif") @@ (b :> "sarif") @@ (c :> "txt") @@ (d :> "none") @@ (e :> "sarif")
MCParses == (a :> TRUE) @@ (b :> TRUE) @@ (c :> FALSE) @@ (d :> FALSE) @@ (e :> FALSE)

ReportA ==
    << << [locations |-> <<L1>>, codeFlows |-> <<>>] >>,
       << [locations |-> <<L2>>, codeFlows |-> << << <<L1, L3>> >> >>] >> >>
ReportB ==
    << << [locations |-> <<L3>>, codeFlows |-> << << <<L2>>, <<>> >> >>] >> >>

MCReport == (a :> ReportA) @@ (b :> ReportB) @@ (c :> <<>>) @@ (d :> <<>>) @@ (e :> <<>>)

=============================================================================
