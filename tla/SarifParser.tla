---------------------------- MODULE SarifParser ----------------------------
(***************************************************************************)
(* The SARIF-to-target converter, src/parser/src/main.rs.                  *)
(*                                                                         *)
(* One invocation reads either one file or every entry of a directory (in  *)
(* read_dir order, which is unspecified), and for every entry whose        *)
(* extension is "sarif" appends one "URI:line" line per location, or per   *)
(* code-flow location under -f, to <dir>/<output_file> with its extension  *)
(* replaced by "custom_targets.txt".  The output file is opened in append  *)
(* mode, so it persists across invocations, and it lives in the directory  *)
(* that is read.  The model covers repeated invocations on one directory   *)
(* with one output_file argument; the process may panic part way.          *)
(*                                                                         *)
(* Data is abstracted: a file name is a model value with an extension, a   *)
(* written line is a member of Loc standing for its <<uri, startLine>>     *)
(* pair (the "{}:{}" formatting is injective on such pairs because the    *)
(* line is a number and comes last), and a report's JSON is either well   *)
(* formed or not.  A line of the file that is not the text of one whole    *)
(* location (a fragment left by a failed writeln with the next line glued  *)
(* on) is GARBLED.                                                         *)
(***************************************************************************)
EXTENDS Naturals, Sequences, SequencesExt

CONSTANTS
    Inputs,      \* the entries of the input directory, other than the output
    OUT,         \* the output file, once it exists
    Ext,         \* Ext[f]: the extension of entry f, or "none"
    Parses,      \* Parses[f]: the content of f deserializes into a Report
    Loc,         \* the <<uri, startLine>> pairs the reports mention
    Report,      \* Report[f]: the runs of f, when Parses[f]
    OutputArgExt,\* the extension of the output_file argument, or "none"
    MaxRuns,     \* bound on the number of invocations explored
    GARBLED      \* a line of the output that is no location's text

Exts == {"sarif", "txt", "json", "none"}

\* Report, Run, Results, ThreadFlows: the serde structs, fields kept only
\* where write_to_file reads them.
ResultType == [locations : Seq(Loc), codeFlows : Seq(Seq(Seq(Loc)))]
ReportType == Seq(Seq(ResultType))

ASSUME ParserAssumption ==
    /\ OUT \notin Inputs
    /\ Ext \in [Inputs -> Exts]
    /\ Parses \in [Inputs -> BOOLEAN]
    /\ Report \in [Inputs -> ReportType]
    /\ OutputArgExt \in Exts
    /\ MaxRuns \in Nat
    /\ GARBLED \notin Loc

\* What a line of the output file can be.
Line == Loc \cup {GARBLED}

VARIABLES
    out,        \* the complete (newline-terminated) lines of the output file
    frag,       \* the output file ends in part of a line, with no newline
    outExists,  \* the output file has been created
    pc,         \* "init", "running", "ok", "panicked" or "readdir_err"
    todo,       \* entries the current invocation has still to handle
    listed,     \* every entry the current invocation has been given
    codeFlow,   \* the -f flag of the current invocation
    isDir,      \* the current invocation was given the directory
    ioFailed,   \* the current invocation panicked on an I/O error
    runs,       \* invocations so far
    fragAtStart \* history: frag held when the current invocation started

vars == <<out, frag, outExists, pc, todo, listed, codeFlow, isDir, ioFailed,
          runs, fragAtStart>>

(***************************************************************************)
(* The output path: set_file_name(output_file) then                        *)
(* set_extension("custom_targets.txt").  Path::extension of the result is  *)
(* the text after the last dot, "txt", whatever output_file was.           *)
(***************************************************************************)
\* Mutant: the output file keeps the name given, set_extension dropped.
OutputExtKeepArg == OutputArgExt

OutputExt == "txt"

ExtOf(f) == IF f = OUT THEN OutputExt ELSE Ext[f]

\* The output file holds "URI:line" text, never a SARIF report.
ParsesOf(f) == f # OUT /\ Parses[f]

(***************************************************************************)
(* The lines write_to_file emits for one report: one per location of every *)
(* result of every run, or, under -f, one per location of every thread     *)
(* flow of every code flow of every result.                                *)
(***************************************************************************)
\* Mutant: one loop level missing under -f (thread flows, not locations).
ResultLinesThreadFlows(res, cf) ==
    IF cf THEN FlattenSeq(res.codeFlows) ELSE res.locations

ResultLines(res, cf) ==
    IF cf THEN FlattenSeq(FlattenSeq(res.codeFlows)) ELSE res.locations

\* Mutant: only the first run of a report is written.
write_to_file_first_run(rep, cf) ==
    IF rep = <<>> THEN <<>>
    ELSE FlattenSeq([j \in DOMAIN rep[1] |-> ResultLines(rep[1][j], cf)])

write_to_file(rep, cf) ==
    FlattenSeq([i \in DOMAIN rep |->
                   FlattenSeq([j \in DOMAIN rep[i] |-> ResultLines(rep[i][j], cf)])])

(***************************************************************************)
(* write_to_file opens the output with create(true).append(true): every    *)
(* writeln goes after what the file already holds.  When the file ends in  *)
(* a fragment of a line, the first line written completes that fragment    *)
(* into one GARBLED line.                                                  *)
(***************************************************************************)
AppendLines(o, fr, w) ==
    IF fr /\ w # <<>> THEN (o \o <<GARBLED>>) \o Tail(w) ELSE o \o w

\* The entries read_dir lists when it is opened.
DirEntries == Inputs \cup (IF outExists THEN {OUT} ELSE {})

Init ==
    /\ out = <<>>
    /\ frag = FALSE
    /\ outExists = FALSE
    /\ pc = "init"
    /\ todo = {}
    /\ listed = {}
    /\ codeFlow = FALSE
    /\ isDir = FALSE
    /\ ioFailed = FALSE
    /\ runs = 0
    /\ fragAtStart = FALSE

(***************************************************************************)
(* main with a directory argument: read_dir succeeds and lists the entries *)
(* present now.                                                            *)
(***************************************************************************)
MainDir(cf) ==
    /\ pc # "running"
    /\ runs < MaxRuns
    /\ pc' = "running"
    /\ todo' = DirEntries
    /\ listed' = DirEntries
    /\ codeFlow' = cf
    /\ isDir' = TRUE
    /\ ioFailed' = FALSE
    /\ runs' = runs + 1
    /\ fragAtStart' = frag
    /\ UNCHANGED <<out, frag, outExists>>

\* read_dir fails: main prints the error kind and returns.
MainDirError(cf) ==
    /\ pc # "running"
    /\ runs < MaxRuns
    /\ pc' = "readdir_err"
    /\ codeFlow' = cf
    /\ isDir' = TRUE
    /\ ioFailed' = FALSE
    /\ runs' = runs + 1
    /\ todo' = {}
    /\ listed' = {}
    /\ fragAtStart' = frag
    /\ UNCHANGED <<out, frag, outExists>>

\* main with a file argument (the path exists, by the assert).
MainFile(f, cf) ==
    /\ pc # "running"
    /\ runs < MaxRuns
    /\ f \in DirEntries
    /\ pc' = "running"
    /\ todo' = {f}
    /\ listed' = {f}
    /\ codeFlow' = cf
    /\ isDir' = FALSE
    /\ ioFailed' = FALSE
    /\ runs' = runs + 1
    /\ fragAtStart' = frag
    /\ UNCHANGED <<out, frag, outExists>>

(***************************************************************************)
(* handle_file on the next entry, in any order.  extension().unwrap()      *)
(* panics on a name without one; a non-sarif entry is skipped; a report    *)
(* that does not deserialize panics at read_from_file(..).unwrap();        *)
(* otherwise write_to_file creates the output if needed and appends.       *)
(* An entry created after read_dir was opened may or may not be listed     *)
(* later (POSIX leaves it open), so the first creation of the output file  *)
(* during a directory run may add it to the entries still to come.         *)
(***************************************************************************)
\* Mutant: a skipped entry is not consumed by the loop.
handle_file_skip_stays(f) ==
    /\ pc = "running"
    /\ f \in todo
    /\ \/ /\ ExtOf(f) = "none"
          /\ pc' = "panicked"
          /\ UNCHANGED <<out, frag, outExists, todo, listed>>
       \/ /\ ExtOf(f) \notin {"none", "sarif"}
          /\ UNCHANGED <<out, frag, outExists, pc, todo, listed>>
       \/ /\ ExtOf(f) = "sarif"
          /\ ~ParsesOf(f)
          /\ pc' = "panicked"
          /\ UNCHANGED <<out, frag, outExists, todo, listed>>
       \/ /\ ExtOf(f) = "sarif"
          /\ ParsesOf(f)
          /\ LET lines == write_to_file(Report[f], codeFlow)
             IN  /\ out' = AppendLines(out, frag, lines)
                 /\ frag' = (frag /\ lines = <<>>)
          /\ outExists' = TRUE
          /\ \E seen \in IF outExists \/ ~isDir THEN {{}} ELSE {{}, {OUT}} :
                /\ todo' = (todo \ {f}) \cup seen
                /\ listed' = listed \cup seen
          /\ UNCHANGED pc
    /\ UNCHANGED <<codeFlow, isDir, ioFailed, runs, fragAtStart>>

handle_file(f) ==
    /\ pc = "running"
    /\ f \in todo
    /\ \/ /\ ExtOf(f) = "none"
          /\ pc' = "panicked"
          /\ UNCHANGED <<out, frag, outExists, todo, listed>>
       \/ /\ ExtOf(f) \notin {"none", "sarif"}
          /\ todo' = todo \ {f}
          /\ UNCHANGED <<out, frag, outExists, pc, listed>>
       \/ /\ ExtOf(f) = "sarif"
          /\ ~ParsesOf(f)
          /\ pc' = "panicked"
          /\ UNCHANGED <<out, frag, outExists, todo, listed>>
       \/ /\ ExtOf(f) = "sarif"
          /\ ParsesOf(f)
          /\ LET lines == write_to_file(Report[f], codeFlow)
             IN  /\ out' = AppendLines(out, frag, lines)
                 /\ frag' = (frag /\ lines = <<>>)
          /\ outExists' = TRUE
          /\ \E seen \in IF outExists \/ ~isDir THEN {{}} ELSE {{}, {OUT}} :
                /\ todo' = (todo \ {f}) \cup seen
                /\ listed' = listed \cup seen
          /\ UNCHANGED pc
    /\ UNCHANGED <<codeFlow, isDir, ioFailed, runs, fragAtStart>>

(***************************************************************************)
(* handle_file on a .sarif entry whose I/O fails: File::open of the input, *)
(* the read of read_from_file, the open of the output (which may create    *)
(* it first), or the writeln of line k+1.  Each is unwrapped, so the       *)
(* process panics having appended the k lines before.  writeln on a File   *)
(* issues one write_all per piece of "{}:{}\n", so a failing one may      *)
(* leave part of its line, with no newline, at the end of the file (cut).  *)
(***************************************************************************)
handle_file_io_error(f) ==
    /\ pc = "running"
    /\ f \in todo
    /\ ExtOf(f) = "sarif"
    /\ LET lines == IF ParsesOf(f) THEN write_to_file(Report[f], codeFlow) ELSE <<>>
       IN  \E k \in 0..Len(lines), cut \in BOOLEAN, created \in BOOLEAN :
              /\ k < Len(lines) \/ (k = 0 /\ ~cut)
              /\ out' = AppendLines(out, frag, SubSeq(lines, 1, k))
              /\ frag' = (cut \/ (frag /\ k = 0))
              /\ outExists' = (outExists \/ created \/ k > 0 \/ cut)
    /\ pc' = "panicked"
    /\ ioFailed' = TRUE
    /\ UNCHANGED <<todo, listed, codeFlow, isDir, runs, fragAtStart>>

\* The read_dir iterator yields an I/O error for the next entry, and
\* path.unwrap() panics.
NextEntryError ==
    /\ pc = "running"
    /\ isDir
    /\ todo # {}
    /\ pc' = "panicked"
    /\ ioFailed' = TRUE
    /\ UNCHANGED <<out, frag, outExists, todo, listed, codeFlow, isDir, runs,
                   fragAtStart>>

\* The loop over the entries ends and main returns.
MainDone ==
    /\ pc = "running"
    /\ todo = {}
    /\ pc' = "ok"
    /\ UNCHANGED <<out, frag, outExists, todo, listed, codeFlow, isDir, ioFailed,
                   runs, fragAtStart>>

Next ==
    \/ \E cf \in BOOLEAN : MainDir(cf) \/ MainDirError(cf)
    \/ \E f \in Inputs \cup {OUT}, cf \in BOOLEAN : MainFile(f, cf)
    \/ \E f \in Inputs \cup {OUT} : handle_file(f) \/ handle_file_io_error(f)
    \/ NextEntryError
    \/ MainDone

Spec == Init /\ [][Next]_vars

\* The process runs one thread: a started invocation keeps taking steps.
Running == (\E f \in Inputs \cup {OUT} : handle_file(f)) \/ MainDone

FairSpec == Spec /\ WF_vars(Running)

-----------------------------------------------------------------------------
(***************************************************************************)
(* Properties.                                                             *)
(***************************************************************************)

\* Every variable has its type.
TypeOK ==
    /\ out \in Seq(Line)
    /\ frag \in BOOLEAN
    /\ outExists \in BOOLEAN
    /\ pc \in {"init", "running", "ok", "panicked", "readdir_err"}
    /\ todo \subseteq listed
    /\ listed \subseteq Inputs \cup {OUT}
    /\ codeFlow \in BOOLEAN
    /\ isDir \in BOOLEAN
    /\ ioFailed \in BOOLEAN
    /\ runs \in 0..MaxRuns
    /\ fragAtStart \in BOOLEAN

\* An input entry handle_file can get through: it has an extension, and
\* a .sarif one deserializes.
WellFormed(f) == Ext[f] # "none" /\ (Ext[f] = "sarif" => Parses[f])

(***************************************************************************)
(* A panic of handle_file that is not an I/O error is always caused by a   *)
(* malformed input entry that the invocation had still to handle, never by *)
(* the output file that an earlier write of this or of a previous          *)
(* invocation put in the directory: set_extension gives it the extension   *)
(* txt, so it is skipped.                                                  *)
(***************************************************************************)
PanicNeedsBadInput ==
    pc = "panicked" /\ ~ioFailed => \E f \in todo \cap Inputs : ~WellFormed(f)

\* Reference definition: the set of locations a report names, under -f the
\* thread-flow locations of its code flows, independent of write order.
ReportTargets(rep, cf) ==
    UNION {UNION {IF cf
                  THEN UNION {UNION {Range(tf) : tf \in Range(fl)} : fl \in Range(res.codeFlows)}
                  ELSE Range(res.locations)
                  : res \in Range(run)}
           : run \in Range(rep)}

(***************************************************************************)
(* When main returns normally, the output file holds every location of     *)
(* every .sarif entry it was given, under the -f flag of that invocation,  *)
(* whatever order read_dir listed the entries in (the comment of           *)
(* write_to_file: "Output version in format: URI Line").                   *)
(***************************************************************************)
EveryReportWritten ==
    pc = "ok" =>
        \A f \in listed \cap Inputs :
            Ext[f] = "sarif" => ReportTargets(Report[f], codeFlow) \subseteq Range(out)

(***************************************************************************)
(* The same for an invocation that found the output file ending in a       *)
(* complete line: every location of every .sarif entry it was given is a   *)
(* line of the output when main returns normally, in every read_dir order, *)
(* whether or not the output file itself is listed, after any number of    *)
(* earlier invocations, complete or panicked.                              *)
(***************************************************************************)
EveryReportWrittenOnCleanFile ==
    pc = "ok" /\ ~fragAtStart =>
        \A f \in listed \cap Inputs :
            Ext[f] = "sarif" => ReportTargets(Report[f], codeFlow) \subseteq Range(out)

\* Every invocation ends: it returns or panics.
InvocationEnds == pc = "running" ~> pc # "running"

=============================================================================
