# TLA+ verification of the StaticFuzz control-flow graph

This directory models `src/fuzzer/src/dyncfg/cfg.rs` (`struct ControlFlowGraph`) and the SARIF
converter `src/parser/src/main.rs`. The CFG is the part of
the directed fuzzer that keeps a growing graph of basic blocks (BBs), marks some comparisons
(CmpIds) as targets, and gives every BB a distance score to the nearest target. The fuzzer uses
the scores to rank seeds. It reports new edges (`add_edge`), solved targets (`remove_target`),
indirect-call edges (`set_edge_indirect`) and the input bytes that unlock them
(`set_magic_bytes`) back to the graph. The converter turns a static analyser's SARIF reports into
the list of target source lines ("URI:line") from which the targets are chosen.

## The system and its parts

| Part | Source | Module | Status |
|---|---|---|---|
| Scoring core: graph, cached edge weights, open and solved targets, `new` (`init_add_edge`, `init_prop_targets`), `add_edge`/`handle_new_edge`, `remove_target`, `propagate_score`, the score queries | cfg.rs 14-116, 159-360 | `ControlFlowGraph` | modelled |
| Indirect-call and magic-byte tables: `set_edge_indirect`, `set_magic_bytes`, `get_magic_bytes`, `dominates_indirect_call`, `get_callsite_dominators`, `_should_count_edge` | cfg.rs 40-55, 118-157, 362-381 | `IndirectCalls` | modelled |
| Input-dependent score `score_for_bb_inp`, combining the two | cfg.rs 317-360 | `DynCfg` | modelled |
| `score_greedy`, `score_coverage` (dead code), `empty_new` (tests only) | cfg.rs 70-85, 273-291 | - | not modelled |
| What the core promises between calls | spec I6, P4 | `CfgInterface`, `CfgRefinement` | abstract interface, refined by the core |
| Bulk against incremental construction (spec P5) | cfg.rs 39-116, 88-93 | `BulkVsIncremental` | two cores composed |
| SARIF-to-target converter: `main`, `handle_file`, `read_from_file`, `write_to_file` | src/parser/src/main.rs | `SarifParser` | modelled |
| CfgFile loader, fuzzer main loop, reader of the target list | not in this repository | - | modelled only as the environment that calls the CFG |

How the parts interact:
- The scores live on the edges. The weight of edge (u, v) caches the score of v.
- The score of a BB is computed by `_score_for_bb_inp`:
  - it is `TARGET_SCORE` (0) if the BB holds an open target;
  - otherwise it is the harmonic mean of the finite weights of its counted out-edges, plus the BB's number of CmpIds;
  - it is `UNDEF_SCORE` (u32::MAX) if no counted out-edge has a finite weight.
- `_should_count_edge` decides which edges are counted. It drops an indirect edge whose magic bytes the input contradicts.
- Cached scores always use the empty input, which masks nothing (theorem `EmptyInputTheorem`). So the core can be modelled without the tables, and `DynCfg` joins them only for `score_for_bb_inp`.
- After a score changes, `propagate_score(bb)` walks a clone of the graph in reverse BFS from `bb`. It recomputes each visited BB's score and writes it into that BB's incoming edges.

## Modules

- `ControlFlowGraph.tla`: the core.
  - State:
    - `graph` (the edges) and `weight` (the cached weight of each edge);
    - `targets` and `solved_targets`;
    - `pc` ("init_prop", "propagate", "idle"), which says where the running call is;
    - `pending` (the targets `init_prop_targets` has not yet propagated);
    - `queue` and `discovered` (the BFS of `propagate_score`);
    - `caller` (who called `propagate_score`);
    - `removing` (the target `remove_target` will mark solved once propagation returns);
    - `inserted`, the edges in the order petgraph first inserted them. `neighbors_directed(Incoming)` iterates a node's adjacency list, which `add_edge` appends to only for a new edge, so this order is the order in which `Bfs::next` queues predecessors.
  - Every call is synchronous, but the propagation loop reads weights written by its own earlier iterations. So each loop iteration is one step:
    - `InitPropTarget` is one iteration of `init_prop_targets`, in any HashSet order;
    - `PropVisit` is one BFS iteration: it pops the front of the queue, and appends the undiscovered predecessors in their edges' insertion order (`InsertionOrdered`);
    - `PropReturn` and `InitPropDone` are the returns.
  - `Init` is `new`; `inserted` starts as the CfgFile's edges in any order, since `CfgFile.edges` is a Vec whose order the loader decides. `AddEdge` is `add_edge` and `handle_new_edge`, including the early return when the source score did not change. `RemoveTarget` is `remove_target`.
  - The public calls (`AddEdge`, `RemoveTarget`) are enabled only when `pc = "idle"`.
  - Scores are `0..2^ScoreBits-1`, and `UNDEF_SCORE` is the maximum. The u32 addition at cfg.rs:359 wraps, and the `as u32` cast saturates.
  - The harmonic mean is computed exactly, then truncated.
- `IndirectCalls.tla`: the tables.
  - Actions: `set_edge_indirect` and `set_magic_bytes`. The panic of `buf[i]` becomes a guard.
  - Operators: the queries and `should_count_edge`.
  - An input is a sequence of at most `MaxInputLen` bytes. Offset i of the code is position i+1.
- `DynCfg.tla`: the composition.
  - A table step happens only when `pc = "idle"` and leaves the core unchanged. A core step leaves the tables unchanged.
  - Defines `score_for_bb_inp`.
- `CfgInterface.tla`: the abstract interface.
  - State: `ready`, `graph`, `open`, `solved`, and `scored` (the BBs for which `has_score` is true).
  - Every public call is one atomic step: `Construct` (`new`), `AddEdge`, `Solve` (`remove_target` of an open target).
  - After each call, `scored` lies between two bounds: every BB that reaches a BB of an open target is scored (spec I6), and every scored BB reaches a BB of an open or solved target (spec P4). `ASpec` uses both bounds; `SoundSpec` uses only the upper one.
- `CfgRefinement.tla`: the refinement mapping.
  - A caller sees the core only between calls. The history variable `snap` takes the observable state at every step into `pc = "idle"` and keeps it otherwise.
  - The interface's variables are the fields of `snap` (`INSTANCE CfgInterface WITH ready <- snap.ready, ...`). An internal step of a call is a stutter; the returning step is the abstract call.
- `BulkVsIncremental.tla`: two instances of `ControlFlowGraph` over the same data. `Bulk` gets every edge in `new`; `Incr` gets none and receives them through `add_edge`, in any order. Their steps interleave.
- `SarifParser.tla`: the converter.
  - State:
    - `out`, the output file's lines, and `outExists`; they persist across invocations, because the file is opened in append mode;
    - `frag`: the file ends in a fragment of a line, which a failing `writeln!` left (it issues one `write_all` per piece of `"{}:{}\n"` on an unbuffered `File`);
    - `fragAtStart`, a history variable: `frag` when the running invocation started;
    - `pc`, `todo` (entries still to handle), `listed`, `codeFlow` (the `-f` flag), `isDir`, `ioFailed`, `runs`.
  - Actions:
    - `MainDir`, `MainDirError` and `MainFile` are the three ways `main` starts;
    - `handle_file` handles one entry, in any `read_dir` order. It panics on a missing extension, skips a non-.sarif entry, panics on a report that does not deserialize, and otherwise appends the report's lines;
    - `handle_file_io_error` is a failing open, read or `writeln`: the process panics after a prefix of the lines, possibly followed by a fragment of the next one;
    - `NextEntryError` is an `Err` item of the `read_dir` iterator, which `path.unwrap()` turns into a panic;
    - both write through `AppendLines`, the `create(true).append(true)` open of `write_to_file`: lines go after what the file holds, and when the file ends in a fragment the first new line is glued onto it and becomes the model value `GARBLED`, a line that is no location;
    - `MainDone` is the return.
  - The output path is `<dir>/<output_file>` with its extension set to `custom_targets.txt`, so it lies in the directory being read. A later `read_dir`, or the running one, lists it.
  - Data: a written line is a model value standing for a `<<uri, startLine>>` pair. The `{}:{}` formatting is injective on such pairs. JSON text is abstracted to "deserializes or not", and a parsed report keeps the nesting of runs, results, code flows and thread flows.
- `MC_*.tla` and `.cfg`: the instances.
- `ControlFlowGraph_proofs.tla`, `PathImpliesScore_proofs.tla`, `DynCfg_proofs.tla`, `CfgRefinement_proofs.tla`, `SarifParser_proofs.tla`: the TLAPS proofs.
- `FlattenSeqLemmas.tla`: lemmas on `FlattenSeq` of the community module SequencesExt, which the converter's proofs rest on.

## Runs

| Run | cfg | Expect | What it shows |
|---|---|---|---|
| core_safety | MC_ControlFlowGraph.cfg | pass | `TypeOK`; `ScoreImpliesPath` (spec P4: a BB with a score reaches an open or solved target BB); `PathImpliesScore` (spec I6: a BB that reaches an open target BB has a score); `PropagationFrontier` (the inductive invariant of the I6 proof: a BB whose incoming weights lag behind its score is in the BFS queue or still to be propagated by `init_prop_targets`, and there is none between calls); `CallsReturn` (every call returns) |
| cache_consistency | MC_CacheConsistent.cfg | violation | `CacheConsistent` (spec I1/P1) fails |
| removal_convergence | MC_TargetRemovalConvergence.cfg | violation | `TargetRemovalConvergence` (spec P6, S3) fails; the instance adds the CfgFile edge 3→4 out of target BB 3, whose TARGET weight no propagation rewrites |
| interface_refinement | MC_CfgRefinement.cfg | pass | `CfgInterfaceSpec`: the core, seen between calls, implements `CfgInterface`'s `ASpec`. Every reachable behaviour satisfies both reachability bounds at every return |
| duplicate_cmp | MC_DuplicateCmp.cfg | violation | `PathImpliesScore` (I6) fails when a target CmpId is listed under two BBs |
| bulk_vs_incremental | MC_BulkVsIncremental.cfg | violation | `BulkEqualsIncremental` (spec P5, S5) fails |
| sarif_converter | MC_SarifParser.cfg | pass | `TypeOK`; `PanicNeedsBadInput` (a panic that is not an I/O error comes from a malformed input, never from the output file the converter wrote into the directory); `EveryReportWrittenOnCleanFile` (an invocation that found the output file ending in a whole line and returns normally has written every location of every report as a line, whatever the `read_dir` order and whether the output file was listed); `InvocationEnds` (every invocation returns or panics) |
| sarif_fragment | MC_SarifFragment.cfg | violation | `EveryReportWritten`, the same without the clean-file condition, fails: a rerun after a `writeln` failure glues its first location onto the fragment |
| indirect_masking | MC_DynCfg.cfg | pass | `EmptyInputScoresCached` (cached scores are the empty input's scores); `MaskedScoreNeedsTakenEdge` (spec 4.4/S4: an indirect edge the input contradicts never lends its score) |

### Bounds and why they are enough

**`MC_ControlFlowGraph`** has BBs 0..4 and CmpIds 10..15:
- BB 1 holds two CmpIds, so `num_cmps = 2`.
- The targets are 12 (BB 2), 13 (BB 3) and 15, which has no BB. 15 exercises the skip in `init_prop_targets` and the `else` branch of `remove_target`.
- The initial edges are 0→1→3→2.
- `add_edge` may add 0→3, 1→2, 2→1 and 1→4:
  - 0→3 adds a second path (two out-edges make a real mean);
  - 2→1 closes a cycle through a target;
  - 4 is a mapped dead end, so that a BB without a path exists.
- About 59000 distinct states; every action fires.
- Scores on a cycle that no longer holds a target grow at every propagation (hazard at cfg.rs:359). The constraint `ScoreBound` therefore stops exploring from idle states in which a finite weight exceeds 16. It applies only to idle states, so a call that has started always finishes.
- The score width is 16 bits: TLC's integers are 32-bit, and no explored score comes near the limit.

**`MC_CfgRefinement`** uses the same graph as `MC_ControlFlowGraph` with 4-bit scores (UNDEF = 15) and **no** weight bound.
- Scores on target-free cycles grow until the addition at cfg.rs:359 wraps. So the interface is checked through the wrap (4550 distinct states).
- TLC found the same four core properties true with 3-, 4- and 5-bit scores without the bound. The 4-bit run reaches weight 13.

**`MC_DuplicateCmp`**: BBs 1 and 2 both list target 10, with predecessors 0 and 3. TLC's six-step trace completes `new`, propagating from BB 1 only. BB 3 reaches BB 2 but has no score.

**`MC_BulkVsIncremental`**: the chain 0→1→2→3 with target BB 2, plus 0→3. After both objects are idle with all edges, the edge 2→3 caches TARGET in `Bulk` and UNDEF in `Incr`.

**`MC_SarifParser`**: a directory with five entries, and three invocations:
- report `a` has two runs, locations and a code flow with two locations;
- report `b` has one run, whose code flow has an empty thread flow;
- a `.txt` file, an entry without an extension, and a `.sarif` file that does not deserialize.
The `output_file` argument ends in `.sarif`, the one case in which the output would be read back were its extension not replaced. Each invocation may be a directory run, a file run (any entry, including the output file) or a failed `read_dir`, with or without `-f`. Three invocations cover a run after a run that created the output, and a rerun after a panic, including one after a `writeln` that failed part way through a line. 64169 distinct states.

**`MC_DynCfg`** is scenario S4, grown:
- BB 1 reaches the target BB 2 directly and, after `add_edge`, through BB 3.
- The target BB 2 has an out-edge to a dead end, BB 4. This makes the `init_add_edge` TARGET-weight quirk reachable. Without that edge the first version of `MaskedScoreNeedsTakenEdge` passed, though it was false.
- Both out-edges of BB 1 can be marked indirect and given magic byte 0xAA or 0xBB at offset 0. An empty tag is also possible.
- Inputs have at most one byte, which covers an offset both inside and past the end of the input.
- 1662 distinct states.

Every property of a passing run has a mutant: an operator next to the mapped definition that makes a plausible bug, and that TLC must find breaks the property. The mutants are:
- `ScoreOverNoUndefCheck`: adds `num_cmps` to UNDEF;
- `PropVisitForward`: the BFS walks forwards;
- `AddEdgePropagateDst`: `handle_new_edge` propagates from the destination instead of the source;
- `InitPropTargetCmpAsBb` and `InitPropTargetNoAdvance`;
- `should_count_edge_strict`: an offset past the end masks the edge;
- `score_for_bb_inp_unmasked`;
- `RemoveTargetKeepsOpen`: `remove_target` forgets to take the CmpId out of `targets`;
- `OutputExtKeepArg`: `set_extension` dropped;
- `write_to_file_first_run`: only the first run of a report is written;
- `ResultLinesThreadFlows`: one loop level missing under `-f`;
- `handle_file_skip_stays`: a skipped entry is not consumed.

### Fairness

`FairSpec` assumes weak fairness of the internal steps of a running call only (`Internal`). This is justified because a call is synchronous: once started, its loop keeps running until it returns. Nothing is assumed about the environment's calls.

`SarifParser`'s `FairSpec` assumes weak fairness of `Running` (handling an entry, or returning). The converter is one thread that runs until it returns or panics. Nothing is assumed about I/O failures or about the user starting another invocation. The run sets `CHECK_DEADLOCK FALSE`: after the last invocation the program has exited, and nothing more happens.

## Findings

1. **Stale BFS weights (cfg.rs:216), run `cache_consistency`.**
   - `propagate_score` computes a BB's score when the reverse BFS first reaches it.
   - A successor at the same BFS level may be recomputed later in the same loop, so the weight the BB used is stale.
   - TLC's trace, in the code's BFS order: `new`, `remove_target(13)`, `add_edge(2→1)`, `remove_target(12)`. The BFS from BB 2 writes 4 into 3→2 and then raises 2→1 to 7, so BB 2's own score is 8 while 3→2 caches 4.
   - Spec I1/P1 says the caches are exact after every call. They are not.
2. **TARGET weights on a target's out-edges (cfg.rs:103), together with (1), run `removal_convergence`.**
   - `init_add_edge` gives the out-edges of a BB holding a target the weight TARGET, whatever their destination.
   - Propagation rewrites only incoming edges, so these weights stay after the target is removed.
   - TLC's trace, with the CfgFile edge 3→4 to a dead end: after `remove_target(12)` and `remove_target(13)`, 3→4 still weighs 0, so BB 3 scores 1 and BBs 1 and 0 score 3.
   - Spec P6 and S3 say every score becomes UNDEF once no target is left. Some do not.

3. **Duplicate CmpIds (cfg.rs:249), run `duplicate_cmp`.**
   - `reverse_id_mapping` keeps one BB of a CmpId listed under several BBs, and propagation starts only from that BB.
   - The spec (4.1 and section 10) allows this last-writer semantics as a documented choice. But it states I6 without that condition, and I6 then fails.
4. **Bulk and incremental construction disagree (cfg.rs:103), run `bulk_vs_incremental`.**
   - `init_add_edge` writes TARGET on every out-edge of a target BB. `add_edge` writes the destination's score.
   - Spec P5 and S5 say the two constructions give the same weights up to float rounding. They differ by the whole range.

5. **A partial line breaks the next run's output (main.rs:177), run `sarif_fragment`.**
   - `writeln!` on the unbuffered output `File` writes each piece of `"{}:{}\n"` with its own `write_all`, and `.unwrap()` panics when one fails, possibly after part of the line is on disk.
   - The file is opened in append mode and never checked (165-170), so the next invocation's first line is glued onto the fragment. That invocation returns normally, and its first location is not a line of the output.
   - The comment at line 172 says the output is one "URI Line" per location. `EveryReportWrittenOnCleanFile` holds, and is proved: only the first invocation after such a failure is affected.

What does hold is weaker but still useful, and it is checked and proved. A finite score never appears without a path to an open or solved target. A path to an open target always yields a score.

## Proofs (TLAPS)

Proved for every value of the constants that satisfies `ConstantsAssumption` (finite BbId, ScoreBits > 0, the CfgFile data well-typed) or, for the converter, `ParserAssumption`. Only `PathImpliesScoreTheorem`, `FrontierTheorem` and `FullRefinement` add hypotheses, stated in the theorems and discussed below.

- `TypeCorrect`: `Spec => []TypeOK`.
- `ScoreImpliesPathTheorem`: `Spec => []ScoreImpliesPath`.
  - The property is not inductive: a score is computed from cached weights. The inductive invariant `IInv` is `TypeOK` plus three conjuncts:
    - `TargetsConserved`: open ∪ removing ∪ solved = the CfgFile's targets;
    - `RemovingOnlyInPropagation`;
    - `WeightSound`: a finite weight on (u, v) means u reaches a BB of a CfgFile target.
  - Every weight is written as a finite score of its destination, which needs an open target or a finite out-weight (lemma `ScoreSound`), or as TARGET by `init_add_edge` at a target BB.
  - Reachability is the impredicative "in every predecessor-closed superset of T". This needs no induction, and the graph only grows (`ReachesMono`).
  - TLC checked `IInv` as an invariant before it was proved.
- `DTypeCorrect`: `DynSpec => []DTypeOK`.
- `EmptyInputTheorem`: `DynSpec => []EmptyInputScoresCached`. Every stored magic offset is a natural number, so it is never inside the empty input.
- `MaskedScoreTheorem`: `DynSpec => []MaskedScoreNeedsTakenEdge`.
  - It needs a second invariant, `DstSound`: a finite weight on (u, v) means v reaches a target BB, or u is a target BB of the CfgFile (the `init_add_edge` case).
  - The core's invariants carry over to the composition, because every `DynNext` step is a `Next` step or a core stutter (`DynNextIsCoreStep`).

- `Refinement` (`CfgRefinement_proofs`): `HSpec => Abs!SoundSpec`. The core implements the sound half of the interface.
  - `RInv` says what `snap` holds while a call runs:
    - during `new`, the initial snapshot;
    - during an `add_edge` propagation, the state before the call, with the graph one edge smaller;
    - during a `remove_target` propagation, the state before the call, with the target removed and waiting in `removing`;
    - at idle, the observed state.
  - `StepRefines` then maps each returning step to `Construct`, `AddEdge` or `Solve`, and every other step to a stutter.
  - The scored set is sound at a return because `IInv` implies `ScoreImpliesPath` (`ObsSound`). This is used primed through `[]ObsSound` and PTL.

- `PathImpliesScoreTheorem` (`PathImpliesScore_proofs`): `ASSUME UniqueCmp PROVE Spec /\ []NoUndefWrap => []PathImpliesScore` (spec I6).
  - The hypotheses:
    - `UniqueCmp`: each CmpId lies in one BB (spec, section 3). The run `duplicate_cmp` shows I6 fails without it, so it cannot be dropped.
    - `[]NoUndefWrap`: no BB that has an open target or a finite out-weight (`Supported`) computes UNDEF. The only way it could is the u32 addition at cfg.rs:359 landing exactly on u32::MAX. The mean cannot saturate, because a harmonic mean is at most its largest finite input. With 2-bit scores TLC finds the addition landing on UNDEF on a path to a target, and I6 then fails. With 4-bit scores TLC finds the hypothesis broken on a target-free cycle whose scores keep growing, while I6 still holds on that instance. So the theorem covers the runs without the wrap and says nothing about the others. In `core_safety` (16 bits, `ScoreBound`) it holds in every state, because `PropagationFrontier`, checked there, is what it yields.
  - Under `NoUndefWrap`, a BB has a score exactly when it is `Supported`. The argument is about the stale BBs (`StaleBbs`): `Supported` BBs with an incoming edge whose weight still says UNDEF.
  - The inductive invariant `PropagationFrontier` says where every stale BB is:
    - at idle, there is none;
    - during `init_prop_targets`, each is the BB of a target still pending;
    - during `propagate_score`, each is in the BFS queue or pending;
    - while any BB is stale, every BB the BFS discovered is `Supported`, so writing a finite score into an edge never makes an already visited BB stale.
  - Each step keeps it, with one lemma per action:
    - a visited `Supported` BB stops being stale, and a predecessor that gains support through it is fresh and gets queued;
    - a visited unsupported BB writes UNDEF, which only takes support away;
    - `add_edge` changes the support of its source only, and the early return at cfg.rs:193 is safe because a stale source with an unchanged score was stale before the call. This step uses `NoUndefWrap` after the step.
  - Initially the stale BBs are target BBs, and `UniqueCmp` makes each of them the BB `reverse_id_mapping` gives its target.
  - At idle the `Supported` BBs contain the target BBs and are closed under predecessors, and that is all the impredicative `Reaches` asks. No induction over paths is needed.
  - TLC checked `PropagationFrontier` in the run `core_safety` before it was proved.
- `FullRefinement` (`CfgRefinement_proofs`): `ASSUME UniqueCmp PROVE HSpec /\ []NoUndefWrap => CfgInterfaceSpec`. Under the same hypotheses the core implements the whole interface `ASpec`. `ObsAllowed` adds completeness to `ObsSound`, from `PropagationFrontier`. A step of the sound interface whose answer is also complete is then a step of `ASpec` (`SoundStepAllowed`). The run `interface_refinement` checks `CfgInterfaceSpec` at 4 bits through the wrap, which the theorem does not cover.
- `PanicNeedsBadInputTheorem` (`SarifParser_proofs`): `Spec => []PanicNeedsBadInput` for every directory, `read_dir` order, `output_file` argument and number of invocations. The strengthening `EntriesKnown` says an invocation only handles entries it was given, and those are input entries or the output file. The output file's extension is `txt` whatever the argument was, so neither panic of `handle_file` can be on it. The written lines play no part.

- `ParserTypeCorrect` and `EveryReportWrittenOnCleanFileTheorem` (`SarifParser_proofs`): `Spec => []TypeOK` (every line of the output is a location or `GARBLED`, whatever I/O failures cut) and `Spec => []EveryReportWrittenOnCleanFile`, for every instance.
  - The inductive invariant is `TypeOK /\ WrittenSoFar`. `WrittenSoFar` says three things:
    - `pc = "ok"` only with nothing left to do;
    - an invocation that started on a clean file keeps it clean while it runs: only `handle_file_io_error` makes a fragment, and it panics;
    - in such an invocation, every .sarif input entry it is done with (given, and no longer to do) has all its locations in the output.
  - `EveryReportWrittenOnCleanFile` alone is not inductive, because it says nothing while the loop runs. TLC checked `WInv` on the `sarif_converter` instance before it was proved.
  - A step either appends to the output or leaves it alone. An append keeps every line, and on a clean file adds the new lines as they are (`AppendKeeps`), so what was written stays written. An entry leaves `todo` only when it is skipped (not .sarif) or its lines are appended. The lines appended are exactly `ReportTargets` (`WriteToFileType`).
  - These rest on `FlattenSeqType` (`FlattenSeqLemmas`): `FlattenSeq` of a sequence of sequences over T is a sequence over T, and its elements are those of its parts. `FlattenSeq` is a recursive function defined by a LET. Its defining equation only holds once some function satisfies it, and its values need induction over the index. The library's induction theorems take the predicate as an operator parameter, which no installed prover instantiates. So both steps take a least counterexample instead. The least element comes from `WFMin` applied to `NatLessThanWellFounded`, which is a statement about sets and relations only (`LeastNat`). `FlatExists` builds the table of prefixes one index further than the least failing length. `FlatPrefixes` shows that the least index whose prefix is wrong cannot exist.

Only model-checked:
- `CallsReturn` and `InvocationEnds`. These are liveness properties, and TLAPS does not check liveness here.
- `PathImpliesScore` and `CfgInterfaceSpec` in runs where a score wraps onto UNDEF (see above).
- The four violations.

Nothing is proved about the value of the harmonic mean. The proofs use only that a score is in range and whether it is UNDEF.

## Hazards and what covers them

They are listed with their lines in `PROJECT.json`:
- BFS order staleness (216);
- the TARGET-weight quirk (103);
- the early return of `handle_new_edge` (193);
- the HashSet order of `init_prop_targets` (111);
- termination of propagation (215);
- the u32 wrap and unbounded growth of cycle scores (359);
- the `buf[i]` panic (133);
- the last-writer reverse mapping (249);
- permissive masking past the input's end (370);
- in the converter:
  - `read_dir` order, and the output file appearing in the listed directory (main.rs:139);
  - a panic part way through a directory (206);
  - append-mode reruns (169);
  - a `writeln` failing mid-report or mid-line (181, 177), and an `Err` from the `read_dir` iterator (140).

## Not modelled

- `score_greedy` and `score_coverage`: dead code.
- `empty_new`: used by tests only.
- The f64 rounding of the harmonic mean. It is computed exactly and truncated.
- The converter's string handling: `into_string().unwrap()` on non-UTF-8 arguments, and the exact output file name.
- The loader of the CfgFile, the fuzzer loop and the reader of the target list. They are not in this repository.

## Plan for later work

- A reference definition of the BFS (the levels of the reversed graph), checked against `PropVisit` on bounded graphs.
- Prove `NoUndefWrap` for graphs whose cycles all lead to an open target, and a bound on the scores in terms of the comparison counts.
