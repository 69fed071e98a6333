------------------------- MODULE SarifParser_proofs -------------------------
(***************************************************************************)
(* Proof that the SARIF converter panics outside an I/O error only on a    *)
(* malformed input entry, for every directory, every read_dir order,       *)
(* every number of invocations and every output_file argument.             *)
(*                                                                         *)
(* The argument is about which entries an invocation can be handling: the  *)
(* entries it was given are input entries or the output file, and the      *)
(* output file's name ends in .txt whatever the argument was, so neither   *)
(* of the two panics of handle_file can be on it.  No fact about the       *)
(* written lines is needed; what write_to_file appends is left alone.      *)
(***************************************************************************)
EXTENDS SarifParser, FlattenSeqLemmas, TLAPS

USE ParserAssumption

\* The entries an invocation still has to handle are among those it was
\* given, and it is given only input entries and the output file.
EntriesKnown ==
    /\ todo \subseteq listed
    /\ listed \subseteq Inputs \cup {OUT}

PInv == EntriesKnown /\ PanicNeedsBadInput

\* The locations ReportTargets collects from one result.
ResultTargets(res, cf) ==
    IF cf THEN UNION {UNION {Range(tf) : tf \in Range(fl)} : fl \in Range(res.codeFlows)}
          ELSE Range(res.locations)

\* The lines write_to_file emits for one result are locations, and they
\* are the result's locations, or under -f its thread-flow locations.
LEMMA ResultLinesType ==
    ASSUME NEW res \in ResultType, NEW cf \in BOOLEAN
    PROVE  /\ ResultLines(res, cf) \in Seq(Loc)
           /\ Range(ResultLines(res, cf)) = ResultTargets(res, cf)
<1>1. CASE cf
  <2>1. res.codeFlows \in Seq(Seq(Seq(Loc)))
    BY DEF ResultType
  <2>2. /\ FlattenSeq(res.codeFlows) \in Seq(Seq(Loc))
        /\ Range(FlattenSeq(res.codeFlows))
             = UNION {Range(fl) : fl \in Range(res.codeFlows)}
    BY <2>1, FlattenSeqType
  <2>3. /\ FlattenSeq(FlattenSeq(res.codeFlows)) \in Seq(Loc)
        /\ Range(FlattenSeq(FlattenSeq(res.codeFlows)))
             = UNION {Range(tf) : tf \in Range(FlattenSeq(res.codeFlows))}
    BY <2>2, FlattenSeqType
  <2>4. UNION {Range(tf) : tf \in UNION {Range(fl) : fl \in Range(res.codeFlows)}}
          = UNION {UNION {Range(tf) : tf \in Range(fl)} : fl \in Range(res.codeFlows)}
    <3>1. ASSUME NEW x \in UNION {Range(tf) : tf \in UNION {Range(fl) : fl \in Range(res.codeFlows)}}
          PROVE  x \in UNION {UNION {Range(tf) : tf \in Range(fl)} : fl \in Range(res.codeFlows)}
      <4>1. PICK tf \in UNION {Range(fl) : fl \in Range(res.codeFlows)} : x \in Range(tf)
        BY <3>1
      <4>2. PICK fl \in Range(res.codeFlows) : tf \in Range(fl)
        BY <4>1
      <4>. QED  BY <4>1, <4>2
    <3>2. ASSUME NEW x \in UNION {UNION {Range(tf) : tf \in Range(fl)} : fl \in Range(res.codeFlows)}
          PROVE  x \in UNION {Range(tf) : tf \in UNION {Range(fl) : fl \in Range(res.codeFlows)}}
      <4>1. PICK fl \in Range(res.codeFlows) : x \in UNION {Range(tf) : tf \in Range(fl)}
        BY <3>2
      <4>2. PICK tf \in Range(fl) : x \in Range(tf)
        BY <4>1
      <4>. QED  BY <4>1, <4>2
    <3>. QED  BY <3>1, <3>2
  <2>. QED  BY <1>1, <2>2, <2>3, <2>4 DEF ResultLines, ResultTargets
<1>2. CASE ~cf
  BY <1>2 DEF ResultLines, ResultTargets, ResultType
<1>. QED  BY <1>1, <1>2

\* write_to_file emits a sequence of locations, and the locations in it
\* are exactly those the report names, whatever their order.
LEMMA WriteToFileType ==
    ASSUME NEW rep \in ReportType, NEW cf \in BOOLEAN
    PROVE  /\ write_to_file(rep, cf) \in Seq(Loc)
           /\ Range(write_to_file(rep, cf)) = ReportTargets(rep, cf)
<1>. DEFINE Inner(i) == [j \in DOMAIN rep[i] |-> ResultLines(rep[i][j], cf)]
            Outer == [i \in DOMAIN rep |-> FlattenSeq(Inner(i))]
<1>1. ASSUME NEW i \in DOMAIN rep
      PROVE  /\ FlattenSeq(Inner(i)) \in Seq(Loc)
             /\ Range(FlattenSeq(Inner(i)))
                  = UNION {ResultTargets(res, cf) : res \in Range(rep[i])}
  <2>1. rep[i] \in Seq(ResultType)
    BY DEF ReportType
  <2>2. \A j \in DOMAIN rep[i] : /\ ResultLines(rep[i][j], cf) \in Seq(Loc)
                                /\ Range(ResultLines(rep[i][j], cf))
                                     = ResultTargets(rep[i][j], cf)
    BY <2>1, ResultLinesType
  <2>3. Inner(i) \in Seq(Seq(Loc))
    BY <2>1, <2>2
  <2>4. Range(Inner(i)) = {ResultLines(rep[i][j], cf) : j \in DOMAIN rep[i]}
    BY DEF Range
  <2>5. Range(rep[i]) = {rep[i][j] : j \in DOMAIN rep[i]}
    BY DEF Range
  <2>6. /\ FlattenSeq(Inner(i)) \in Seq(Loc)
        /\ Range(FlattenSeq(Inner(i))) = UNION {Range(s) : s \in Range(Inner(i))}
    BY <2>3, FlattenSeqType
  <2>7. {Range(t) : t \in Range(Inner(i))}
          = {ResultTargets(rep[i][j], cf) : j \in DOMAIN rep[i]}
    <3>1. ASSUME NEW t \in Range(Inner(i))
          PROVE  Range(t) \in {ResultTargets(rep[i][j], cf) : j \in DOMAIN rep[i]}
      <4>1. PICK j \in DOMAIN rep[i] : t = ResultLines(rep[i][j], cf)
        BY <2>4
      <4>. QED  BY <2>2, <4>1
    <3>2. ASSUME NEW j \in DOMAIN rep[i]
          PROVE  ResultTargets(rep[i][j], cf) \in {Range(t) : t \in Range(Inner(i))}
      <4>1. ResultLines(rep[i][j], cf) \in Range(Inner(i))
        BY <2>4
      <4>. QED  BY <2>2, <4>1
    <3>. QED  BY <3>1, <3>2
  <2>8. {ResultTargets(res, cf) : res \in Range(rep[i])}
          = {ResultTargets(rep[i][j], cf) : j \in DOMAIN rep[i]}
    BY <2>5
  <2>. QED  BY <2>6, <2>7, <2>8
<1>2. Outer \in Seq(Seq(Loc))
  <2>1. DOMAIN rep = 1..Len(rep)
    BY DEF ReportType
  <2>. QED  BY <1>1, <2>1
<1>3. /\ write_to_file(rep, cf) \in Seq(Loc)
      /\ Range(write_to_file(rep, cf)) = UNION {Range(s) : s \in Range(Outer)}
  BY <1>2, FlattenSeqType DEF write_to_file
<1>4. Range(Outer) = {FlattenSeq(Inner(i)) : i \in DOMAIN rep}
  BY DEF Range
<1>5. Range(rep) = {rep[i] : i \in DOMAIN rep}
  BY DEF Range
<1>6. UNION {Range(s) : s \in Range(Outer)}
        = UNION {UNION {ResultTargets(res, cf) : res \in Range(run)} : run \in Range(rep)}
  <2>1. {Range(t) : t \in Range(Outer)}
          = {UNION {ResultTargets(res, cf) : res \in Range(rep[i])} : i \in DOMAIN rep}
    <3>1. \A i \in DOMAIN rep :
            Range(FlattenSeq(Inner(i))) = UNION {ResultTargets(res, cf) : res \in Range(rep[i])}
      BY <1>1
    <3>. HIDE DEF Inner, Outer
    <3>2. ASSUME NEW x \in {Range(t) : t \in Range(Outer)}
          PROVE  x \in {UNION {ResultTargets(res, cf) : res \in Range(rep[i])} : i \in DOMAIN rep}
      <4>1. PICK t \in Range(Outer) : x = Range(t)
        BY <3>2
      <4>2. PICK i \in DOMAIN rep : t = FlattenSeq(Inner(i))
        BY <4>1, <1>4
      <4>. QED  BY <3>1, <4>1, <4>2
    <3>3. ASSUME NEW i \in DOMAIN rep
          PROVE  UNION {ResultTargets(res, cf) : res \in Range(rep[i])}
                   \in {Range(t) : t \in Range(Outer)}
      <4>1. FlattenSeq(Inner(i)) \in Range(Outer)
        BY <1>4
      <4>. QED  BY <3>1, <4>1
    <3>. QED  BY <3>2, <3>3
  <2>2. {UNION {ResultTargets(res, cf) : res \in Range(run)} : run \in Range(rep)}
          = {UNION {ResultTargets(res, cf) : res \in Range(rep[i])} : i \in DOMAIN rep}
    BY <1>5
  <2>. QED  BY <2>1, <2>2
<1>. QED  BY <1>3, <1>6 DEF ReportTargets, ResultTargets

\* An invocation that started on a file ending in a whole line keeps it
\* so while it runs (a fragment is only left by a writeln that panics),
\* every .sarif input entry it is done with has all its lines in the
\* output, and an invocation that returned is done with all of them.
WrittenSoFar ==
    /\ pc = "ok" => todo = {}
    /\ ~fragAtStart /\ pc = "running" => ~frag
    /\ ~fragAtStart =>
          \A f \in (listed \ todo) \cap Inputs :
             Ext[f] = "sarif" => ReportTargets(Report[f], codeFlow) \subseteq Range(out)

WInv == TypeOK /\ WrittenSoFar

\* An entry that handle_file panics on, other than by an I/O error, is a
\* malformed input entry: the output file has the extension txt.
LEMMA PanicEntry ==
    ASSUME NEW f \in Inputs \cup {OUT},
           \/ ExtOf(f) = "none"
           \/ ExtOf(f) = "sarif" /\ ~ParsesOf(f)
    PROVE  f \in Inputs /\ ~WellFormed(f)
<1>1. f # OUT
  BY DEF ExtOf, OutputExt
<1>. QED  BY <1>1 DEF ExtOf, ParsesOf, WellFormed

LEMMA InitPInv == Init => PInv
BY DEF Init, PInv, EntriesKnown, PanicNeedsBadInput

LEMMA NextPInv == PInv /\ [Next]_vars => PInv'
<1> SUFFICES ASSUME PInv, [Next]_vars PROVE PInv'
  OBVIOUS
<1>1. CASE \E cf \in BOOLEAN : MainDir(cf) \/ MainDirError(cf)
  BY <1>1 DEF MainDir, MainDirError, DirEntries, PInv, EntriesKnown,
              PanicNeedsBadInput
<1>2. CASE \E f \in Inputs \cup {OUT}, cf \in BOOLEAN : MainFile(f, cf)
  BY <1>2 DEF MainFile, DirEntries, PInv, EntriesKnown, PanicNeedsBadInput
<1>3. CASE \E f \in Inputs \cup {OUT} : handle_file(f)
  <2>1. PICK f \in Inputs \cup {OUT} : handle_file(f)
    BY <1>3
  <2>2. /\ pc = "running" /\ f \in todo
        /\ UNCHANGED <<codeFlow, isDir, ioFailed, runs>>
    BY <2>1 DEF handle_file
  <2>3. CASE ExtOf(f) = "none" /\ pc' = "panicked"
                /\ UNCHANGED <<out, outExists, todo, listed>>
    <3>1. f \in Inputs /\ ~WellFormed(f)
      BY <2>3, PanicEntry
    <3>. QED  BY <2>2, <2>3, <3>1 DEF PInv, EntriesKnown, PanicNeedsBadInput
  <2>4. CASE ExtOf(f) \notin {"none", "sarif"} /\ todo' = todo \ {f}
                /\ UNCHANGED <<out, outExists, pc, listed>>
    BY <2>2, <2>4 DEF PInv, EntriesKnown, PanicNeedsBadInput
  <2>5. CASE ExtOf(f) = "sarif" /\ ~ParsesOf(f) /\ pc' = "panicked"
                /\ UNCHANGED <<out, outExists, todo, listed>>
    <3>1. f \in Inputs /\ ~WellFormed(f)
      BY <2>5, PanicEntry
    <3>. QED  BY <2>2, <2>5, <3>1 DEF PInv, EntriesKnown, PanicNeedsBadInput
  <2>6. CASE /\ ExtOf(f) = "sarif" /\ ParsesOf(f)
             /\ \E seen \in IF outExists \/ ~isDir THEN {{}} ELSE {{}, {OUT}} :
                   /\ todo' = (todo \ {f}) \cup seen
                   /\ listed' = listed \cup seen
             /\ UNCHANGED pc
    <3>1. PICK seen \in IF outExists \/ ~isDir THEN {{}} ELSE {{}, {OUT}} :
                   /\ todo' = (todo \ {f}) \cup seen
                   /\ listed' = listed \cup seen
      BY <2>6
    <3>2. seen \subseteq {OUT}
      BY <3>1
    <3>. QED  BY <2>2, <2>6, <3>1, <3>2 DEF PInv, EntriesKnown, PanicNeedsBadInput
  <2>. QED  BY <2>1, <2>3, <2>4, <2>5, <2>6 DEF handle_file
<1>4. CASE \E f \in Inputs \cup {OUT} : handle_file_io_error(f)
  BY <1>4 DEF handle_file_io_error, PInv, EntriesKnown, PanicNeedsBadInput
<1>5. CASE MainDone
  BY <1>5 DEF MainDone, PInv, EntriesKnown, PanicNeedsBadInput
<1>6. CASE UNCHANGED vars
  BY <1>6 DEF vars, PInv, EntriesKnown, PanicNeedsBadInput
<1>7. CASE NextEntryError
  BY <1>7 DEF NextEntryError, PInv, EntriesKnown, PanicNeedsBadInput
<1>. QED  BY <1>1, <1>2, <1>3, <1>4, <1>5, <1>6, <1>7 DEF Next

\* PanicNeedsBadInput holds in every reachable state, for every instance:
\* a panic of the converter that is not an I/O error is caused by an input
\* entry without an extension or a .sarif entry that does not deserialize,
\* never by the output file an earlier write put into the directory.
THEOREM PanicNeedsBadInputTheorem == Spec => []PanicNeedsBadInput
<1>1. Spec => []PInv
  BY InitPInv, NextPInv, PTL DEF Spec
<1>. QED  BY <1>1, PTL DEF PInv

-----------------------------------------------------------------------------
(***************************************************************************)
(* The output file's type, and that an invocation that starts on a file    *)
(* ending in a whole line writes every report it is given.  WrittenSoFar   *)
(* is the strengthening: such an invocation keeps the file ending in a     *)
(* whole line while it runs, so each of its appends adds whole lines after *)
(* the old ones; the entries it is done with have been written; and        *)
(* MainDone only fires with nothing left to do.  An invocation that starts *)
(* on a fragment glues the fragment onto its first line, and the run       *)
(* sarif_fragment shows that its reports can then miss a location.         *)
(***************************************************************************)
LEMMA InitWInv == Init => WInv
<1>. SUFFICES ASSUME Init PROVE WInv
  OBVIOUS
<1>1. TypeOK
  <2>1. out \in Seq(Line)
    BY DEF Init
  <2>2. runs \in 0..MaxRuns
    BY DEF Init
  <2>. QED  BY <2>1, <2>2 DEF Init, TypeOK
<1>2. WrittenSoFar
  BY DEF Init, WrittenSoFar
<1>. QED  BY <1>1, <1>2 DEF WInv

\* An append of locations to a file that ends in a whole line adds them
\* after the old lines; after a fragment, the first of them is GARBLED.
\* Either way the output stays a sequence of lines and keeps its lines.
LEMMA AppendKeeps ==
    ASSUME NEW o \in Seq(Line), NEW fr \in BOOLEAN, NEW w \in Seq(Loc)
    PROVE  /\ AppendLines(o, fr, w) \in Seq(Line)
           /\ Range(o) \subseteq Range(AppendLines(o, fr, w))
           /\ ~fr => Range(w) \subseteq Range(AppendLines(o, fr, w))
<1>1. CASE fr /\ w # <<>>
  <2>0. <<GARBLED>> \in Seq(Line)
    BY DEF Line
  <2>1. /\ (o \o <<GARBLED>>) \in Seq(Line)
        /\ Tail(w) \in Seq(Line)
    BY <1>1, <2>0 DEF Line
  <2>2. Range(o) \subseteq Range(o \o <<GARBLED>>)
    BY <2>0 DEF Range
  <2>3. Range(o \o <<GARBLED>>) \subseteq Range((o \o <<GARBLED>>) \o Tail(w))
    BY <2>1 DEF Range
  <2>. QED  BY <1>1, <2>1, <2>2, <2>3 DEF AppendLines
<1>2. CASE ~(fr /\ w # <<>>)
  <2>1. w \in Seq(Line)
    BY DEF Line
  <2>. QED  BY <1>2, <2>1, RangeConcat DEF AppendLines
<1>. QED  BY <1>1, <1>2

\* The main steps start an invocation with nothing done.
LEMMA MainWInv ==
    ASSUME WInv,
           \/ \E cf \in BOOLEAN : MainDir(cf) \/ MainDirError(cf)
           \/ \E f \in Inputs \cup {OUT}, cf \in BOOLEAN : MainFile(f, cf)
    PROVE  WInv'
<1>1. /\ listed' \ todo' = {} /\ pc' # "ok"
      /\ UNCHANGED <<out, frag>> /\ runs' = runs + 1 /\ fragAtStart' = frag
      /\ listed' \subseteq Inputs \cup {OUT} /\ todo' \subseteq listed'
      /\ runs < MaxRuns /\ codeFlow' \in BOOLEAN /\ isDir' \in BOOLEAN
      /\ ioFailed' \in BOOLEAN /\ outExists' = outExists
      /\ pc' \in {"init", "running", "ok", "panicked", "readdir_err"}
  BY DEF MainDir, MainDirError, MainFile, DirEntries
<1>. QED  BY <1>1 DEF WInv, TypeOK, WrittenSoFar

\* handle_file on an entry: a skip, a panic or an append.
LEMMA HandleFileWInv ==
    ASSUME WInv, NEW f \in Inputs \cup {OUT}, handle_file(f)
    PROVE  WInv'
<1>. USE DEF WInv
<1>1. /\ pc = "running" /\ f \in todo
      /\ UNCHANGED <<codeFlow, isDir, ioFailed, runs, fragAtStart>>
  BY DEF handle_file
<1>2. CASE /\ \/ ExtOf(f) = "none"
              \/ ExtOf(f) = "sarif" /\ ~ParsesOf(f)
           /\ pc' = "panicked" /\ UNCHANGED <<out, frag, outExists, todo, listed>>
  BY <1>1, <1>2 DEF TypeOK, WrittenSoFar
<1>3. CASE ExtOf(f) \notin {"none", "sarif"} /\ todo' = todo \ {f}
             /\ UNCHANGED <<out, frag, outExists, pc, listed>>
  <2>1. f \in Inputs => Ext[f] # "sarif"
    BY <1>3 DEF ExtOf
  <2>2. (listed' \ todo') \cap Inputs \subseteq ((listed \ todo) \cap Inputs) \cup {f}
    BY <1>3
  <2>3. TypeOK'
    BY <1>1, <1>3 DEF TypeOK
  <2>. QED  BY <1>1, <1>3, <2>1, <2>2, <2>3 DEF WrittenSoFar
<1>4. CASE /\ ExtOf(f) = "sarif" /\ ParsesOf(f)
           /\ out' = AppendLines(out, frag, write_to_file(Report[f], codeFlow))
           /\ frag' = (frag /\ write_to_file(Report[f], codeFlow) = <<>>)
           /\ outExists' = TRUE
           /\ \E seen \in IF outExists \/ ~isDir THEN {{}} ELSE {{}, {OUT}} :
                 /\ todo' = (todo \ {f}) \cup seen
                 /\ listed' = listed \cup seen
           /\ UNCHANGED pc
  <2>1. PICK seen \in IF outExists \/ ~isDir THEN {{}} ELSE {{}, {OUT}} :
                 /\ todo' = (todo \ {f}) \cup seen
                 /\ listed' = listed \cup seen
    BY <1>4
  <2>2. f \in Inputs /\ seen \subseteq {OUT}
    BY <1>4, <2>1 DEF ParsesOf
  <2>3. /\ write_to_file(Report[f], codeFlow) \in Seq(Loc)
        /\ Range(write_to_file(Report[f], codeFlow)) = ReportTargets(Report[f], codeFlow)
    BY <1>1, <2>2, WriteToFileType DEF TypeOK
  <2>4. /\ out' \in Seq(Line)
        /\ Range(out) \subseteq Range(out')
        /\ ~frag => ReportTargets(Report[f], codeFlow) \subseteq Range(out')
    BY <1>4, <2>3, AppendKeeps DEF TypeOK
  <2>5. TypeOK'
    BY <1>1, <1>4, <2>1, <2>2, <2>4 DEF TypeOK
  <2>6. (listed' \ todo') \cap Inputs \subseteq ((listed \ todo) \cap Inputs) \cup {f}
    BY <2>1, <2>2
  <2>7. ~fragAtStart => ~frag /\ ~frag'
    BY <1>1, <1>4 DEF WrittenSoFar
  <2>. QED  BY <1>1, <1>4, <2>4, <2>5, <2>6, <2>7 DEF WrittenSoFar
<1>. QED  BY <1>1, <1>2, <1>3, <1>4 DEF handle_file

\* An I/O failure in handle_file appends a prefix of the entry's lines,
\* perhaps followed by a fragment of the next one, and panics.
LEMMA IoErrorWInv ==
    ASSUME WInv, NEW f \in Inputs \cup {OUT}, handle_file_io_error(f)
    PROVE  WInv'
<1>. USE DEF WInv
<1>. DEFINE lines == IF ParsesOf(f) THEN write_to_file(Report[f], codeFlow) ELSE <<>>
<1>1. lines \in Seq(Loc)
  <2>1. CASE ParsesOf(f)
    <3>1. f \in Inputs
      BY <2>1 DEF ParsesOf
    <3>. QED  BY <2>1, <3>1, WriteToFileType DEF TypeOK
  <2>. QED  BY <2>1
<1>2. PICK k \in 0..Len(lines), cut \in BOOLEAN :
         /\ out' = AppendLines(out, frag, SubSeq(lines, 1, k))
         /\ frag' = (cut \/ (frag /\ k = 0))
  BY DEF handle_file_io_error
<1>3. SubSeq(lines, 1, k) \in Seq(Loc)
  BY <1>1
<1>4. out' \in Seq(Line) /\ Range(out) \subseteq Range(out') /\ frag' \in BOOLEAN
  BY <1>2, <1>3, AppendKeeps DEF TypeOK
<1>5. /\ pc' = "panicked" /\ ioFailed' = TRUE /\ outExists' \in BOOLEAN
      /\ UNCHANGED <<todo, listed, codeFlow, isDir, runs, fragAtStart>>
  BY DEF handle_file_io_error
<1>. QED  BY <1>4, <1>5 DEF TypeOK, WrittenSoFar

LEMMA NextWInv == WInv /\ [Next]_vars => WInv'
<1> SUFFICES ASSUME WInv, [Next]_vars PROVE WInv'
  OBVIOUS
<1>1. CASE \E cf \in BOOLEAN : MainDir(cf) \/ MainDirError(cf)
  BY <1>1, MainWInv
<1>2. CASE \E f \in Inputs \cup {OUT}, cf \in BOOLEAN : MainFile(f, cf)
  BY <1>2, MainWInv
<1>3. CASE \E f \in Inputs \cup {OUT} : handle_file(f)
  BY <1>3, HandleFileWInv
<1>4. CASE \E f \in Inputs \cup {OUT} : handle_file_io_error(f)
  BY <1>4, IoErrorWInv
<1>5. CASE NextEntryError
  BY <1>5 DEF NextEntryError, WInv, TypeOK, WrittenSoFar
<1>6. CASE MainDone
  BY <1>6 DEF MainDone, WInv, TypeOK, WrittenSoFar
<1>7. CASE UNCHANGED vars
  BY <1>7 DEF vars, WInv, TypeOK, WrittenSoFar
<1>. QED  BY <1>1, <1>2, <1>3, <1>4, <1>5, <1>6, <1>7 DEF Next

\* TypeOK holds in every reachable state, for every instance: every
\* complete line of the output file is a location or a GARBLED line (a
\* fragment a failing writeln left, completed by the next write), however
\* write_to_file nests its loops and wherever an I/O failure cuts it off.
THEOREM ParserTypeCorrect == Spec => []TypeOK
<1>1. Spec => []WInv
  BY InitWInv, NextWInv, PTL DEF Spec
<1>. QED  BY <1>1, PTL DEF WInv

\* EveryReportWrittenOnCleanFile holds in every reachable state, for every
\* instance: when an invocation that found the output file ending in a
\* whole line returns normally, every location of every .sarif input entry
\* it was given is a line of the output file, whatever order read_dir
\* listed the entries in and whether or not the output file was listed.
THEOREM EveryReportWrittenOnCleanFileTheorem == Spec => []EveryReportWrittenOnCleanFile
<1>1. WInv => EveryReportWrittenOnCleanFile
  BY DEF WInv, WrittenSoFar, EveryReportWrittenOnCleanFile
<1>2. Spec => []WInv
  BY InitWInv, NextWInv, PTL DEF Spec
<1>. QED  BY <1>1, <1>2, PTL

=============================================================================
