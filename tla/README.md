# A verification of TraceFix

TraceFix (`src/`) repairs one failing Python test suite per run.  The command
line (`app/cli.py`) creates private workspaces, runs a linear graph of eleven
nodes (`app/agent/graph.py`), projects the terminal state to an artifact
(`app/artifacts.py`), removes the workspaces, publishes the artifact and returns
an exit code.  The nodes call boundaries: the repository preparer, three runners
that each put a Docker container to work, a model provider, the patch policy,
the static checks and the candidate verification.  A second command runs the
repair for each case of a benchmark split and publishes a report.

This directory holds TLA+ modules of that system, the TLC configurations that
check them on small instances, and TLAPS proofs.  Paths below are relative to
`src/`; `agent/`, `sandbox/` and `evaluation/` are directories of `app/`.

Contents: [1 Inventory](#1-inventory), [2 Modules](#2-modules-and-their-code),
[3 Runs](#3-runs), [4 Bounds](#4-bounds), [5 Fairness](#5-fairness),
[6 Proofs](#6-proofs), [7 Findings](#7-findings),
[8 Observations](#8-observations-without-a-run),
[9 Not modelled](#9-what-is-not-modelled), [10 Plan](#10-plan).

## 1 Inventory

Everything runs in one process and one thread per command.  Concurrency comes
from outside: a container runs while its runner waits for the Docker client,
other processes may change files under a component's feet, and a
`KeyboardInterrupt` may arrive between any two steps, also in a `finally`
clause.  Nothing is resumed after a crash; what can survive a run is files and
containers, so what a run leaves behind is part of what has to be right.

| component | state | operations | interacts with | what is hard | what makes it correct |
|---|---|---|---|---|---|
| repair graph (`agent/graph.py`) | the immutable `OrchestrationState` in the transport | eleven nodes, `_finish`, `_failure`, `_attempt_failure`, the edges | every boundary below | failure paths that fail; a clock that fails or goes back; interrupts | success is earned; evidence is final; whatever fails is recorded |
| terminal routing (`agent/routing.py`) | none | `RoutingEvidence`, `route_terminal` | graph, artifacts | three validators restate the same rules | the first stage that did not pass decides; every state can be routed |
| plan and patch generation (`agent/planning.py`, `agent/model.py`) | the legacy state | `plan_repair`, `generate_patch`, `record_*` | model provider | a call that was paid for and failed | one call per stage, always accounted for |
| deterministic evaluation (`evaluation/deterministic/candidate.py`) | none | `evaluate_candidate` | verification's result | agreement with a recomputation | functional status follows the verification |
| live provider (`evaluation/live_model.py`) | counters of its life | `complete`, `snapshot_usage` | graph, benchmark | shared counters | a case is billed for its own calls |
| repair command (`cli.py`) | workspaces, state, projection | `execute_trusted_case`, workspace `create` / `cleanup`, `main` | graph, artifacts | interrupts; cleanup that fails after the decision | exit code, artifact and disk tell one story |
| artifacts (`artifacts.py`) | a temporary and a final file | `project_artifact`, `LocalArtifactWriter.write` | repair command | publication that fails half-way | published once, whole, or not at all |
| benchmark command (`cli.py`, `evaluation/benchmark.py`) | results so far, a provider per case | preflight, the loop, the report, its validator | repair command, report writer | a case that fails; interrupts; sums of floats | stops at the first failure; counts only what happened |
| report publication (`evaluation/reporting.py`) | a directory, two files, two temporaries | `write`, `discard`, `_cleanup` | benchmark command | two files that must appear as one | the pair, or nothing, or a failure that says so |
| sandbox runner (`sandbox/runner.py`) | one container | `execute` | Docker daemon, baseline | deadline against end of tests; removal that fails | the verdict is the container's own; nothing is left behind |
| verification runner (`sandbox/verification_runner.py`) | one container | `execute` | Docker daemon, verification | as above, with primary errors to preserve | as above |
| static runner (`sandbox/static_runner.py`) | one container, one deadline | `execute` | Docker daemon, static checks | a deadline shared by all calls | as above, and a spent deadline is a timeout |
| candidate verification (`agent/verification.py`) | stages, the hidden bundle | `verify` | verification runner, the candidate on disk | a candidate that changes; a bundle that stays | a verdict is on the checked candidate; hidden tests never linger |
| static checks service (`agent/static_checks.py`) | a private copy of the repository | `validate`, `LocalStaticFilesystem` | static runner, prepared repository | the copy or the repository changes; removal and rename that half happen | the published candidate is the checked one |
| static checks in the container (`docker/static-checks/runner.py`) | none kept | five tools, one JSON answer | static runner | tools that are missing, crash, are cut off or disagree with their exit code; limits of findings and of the report | what is reported clean is clean |
| repository preparation (`agent/preparation.py`) | the prepared copy | `prepare` and its rollback | source repository | the source, or the copy, changes while it is read file by file; a rollback that fails | what is prepared was the repository at one moment; only the own directory is removed |
| baseline (`agent/baseline.py`) | none | `BaselineExecutor.run` | sandbox runner | evidence of a cut-off run | only a failing test suite is a reproduced failure |
| classification, schemas (`agent/classification.py`, `agent/schemas.py`) | legacy state | `apply_failure_analysis` | graph | guards on a shared record | status moves one way |
| context selection (`agent/context.py`) | none | `select` | graph | definitions that mention one another in cycles; a budget whose omissions take space | what is reachable is collected, or it is told why not; the best that fits is kept, and what is dropped is told |
| patch policy, patches (`agent/policy.py`, `agent/patches.py`) | none | `validate_patch_policy`, `parse_unified_diff` | graph, static checks | hunk arithmetic; a policy that judges the patch and not the file | what becomes a candidate is the edit as written, of the planned files, within the limits |
| case loader (`benchmarks/loader.py`), fake model (`evaluation/deterministic/fake_model.py`) | none | load, canned answers | commands, graph | - | a failure to load is an exit code |
| development checks (`scripts/`), sample cases (`benchmarks/`) | - | - | - | - | not part of the program's logic |

The hazards, each at its line with the properties that would catch it going
wrong, are in `PROJECT.json`.

## 2 Modules and their code

`PROJECT.json` ("map") names the lines behind every definition.  The general
conventions are these.

- An action is a whole handler, or, where something can happen in between (a
  Docker call, a file system call, a return from a boundary), one step of it up
  to the next such place.  A `try` statement shows as the action's alternatives.
- A boundary's answer is a choice over the kinds of answer the code tells apart;
  a payload is the fact that it exists, or the attribute the code looks at.
- `KeyboardInterrupt` and `SystemExit` are actions of their own, because they
  pass the `except Exception` clauses, and are followed through every handler
  that catches them.
- A model value "raised" (graph, `verify`, `validate`) is an exception that leaves
  the component.
- A definition whose comment begins with "Mutant of" is a plausible mistake in
  the definition it is named for.  No specification uses it: it is there to show
  that a property would notice.

**The repair.**  `RepairGraph` is the graph.  Its variable `st` is the
`OrchestrationState` in the transport, `node` the node that runs next, `graph`
how the graph stands, `billed` the provider's own counter.  `Node` is the shape
of every node: the received state is validated (`_transport`), the `try` body
ends in an update that has to pass `Valid` (the 150 lines of
`validate_invariants`), an exception ends in the failure update, which has to
pass as well, and an exception in that one leaves the graph.  `After` is the
conditional edges.  `RepairVerdict` is the abstract specification: ten stages
pass one after the other, and a verdict is one that the first stage that did not
pass is entitled to give.  `RepairGraph` implements it (`ImplementsVerdict`),
with `passed` refined to `Passing(st)`.

`RepairRun` EXTENDS `RepairGraph` with the command line: `phase` is the place in
`execute_trusted_case`, `workspace` what is on disk, `projected` the artifact's
outcome in memory, `exit` the exit code.  A graph node is a step of the run
(`GraphStep`); after the graph come the projection, with the artifact's own
validators (`project_artifact`), the cleanup that may replace the verdict
(`Replaced`), the publication and the report.  `ArtifactWriter` is
`LocalArtifactWriter.write`, file operation by file operation, with its two ways
of undoing a failed publication; `RepairRun` drives it.

`Benchmark` EXTENDS `RepairRun` and `ReportWriter`: every case is a whole repair
with the variables of `RepairRun` started afresh (`NewCase`) but for the
provider's counter, whose value before the case is `opening`; the provider is the live
one, as the command makes no other.  `results` and
`paid` compare what the report says with what was billed.  A report's latency is computed
twice, by the `sum()` of `build_benchmark_report`, which compensates for rounding
(`Summed`), and by its validator's additions (`Accumulated`), over floats for which
the constant `Rounded` stands.  `ReportWriter` is the
publication of the report's two files, link by link.

**The containers.**  `DockerDaemon` is external: one container as the runners'
`docker` commands see it.  A call is answered, or fails with or without having
had its effect; what the container went through (`ran`, `killed`, `oom`, `code`)
outlives its removal, so that a result can be compared with what happened.
`SandboxRunner`, `VerificationRunner` and `StaticRunner` each EXTEND it and have
an action per Docker call of the runner's `execute`, in the code's order; `pc` is
the call the runner waits for.  `Attached` is `docker start --attach` under the
deadline, `RacedInspect` the inspection after a deadline passed, which finds the
tests still running, or not.  Each runner handles errors in its own way
(`SandboxRunner` raises a cleanup error over everything, `VerificationRunner`
keeps interrupts, `StaticRunner` has one deadline for all calls), and the modules
keep these differences.

**What runs in them.**  `VerificationService` is `verify`: three stages, five
inspections of the candidate of three readings each (`first`, content, second),
the hidden bundle's life, and the validators of its results, with a stage's run as
a single answer.  `Verification` composes it with `VerificationRunner`, one
container per stage, and implements it (`ImplementsService`): the runner gives
only answers that `verify` is prepared for.  `StaticChecks` EXTENDS
`StaticRunner` with `validate`: the looks at the prepared repository (`check`
tells which), the private copy (`place` is where it is, `target` where `validate`
believes it to be), the patch, the checks, the publication by rename and the
removal.  Others may change the repository (`source`, `altered`) and the copy
(`candidate`) at any moment.

`StaticReport` is the program in the container, an operator without state: `Main`
takes what the changed files and the tools are like (`Input`) to the one report,
with the limits of findings and of the report's size.  In `StaticChecks` a report
exists when the container ends by itself with code zero under an attached client, and
`validate` reads it only if the runner returned it (`Collected`).

**Before and for the candidate.**  `Preparation` is `prepare`: `Following` is the
order of its snapshots, fingerprints, the copy and the graph's own look at the end;
each of them is read file by file (`Walk`, `ReadFile`), while `ChangeFile` is anybody
else who writes or removes a file of the repository or the copy, or makes a
directory of the destination's name.  `past` has the repository's contents at every
moment, for the property only.  `ContextSelection` is `select`: `Select` chooses frames,
files and mentions; `NextFrame` goes to the next frame and makes the first call of
`_collect_static_items`, whose calls are in `calls`, those that wait behind the one that
runs; `Enter` begins a call, `TakeName` is one turn of its loop over the pending
names, `Gather` its items and the calls for the imports that it follows, in any
order; `Drop` is one round of the budget's loop.  What was taken is remembered by file
and name (`KeyOf`), and a frame may lie in a method or nested function (`InnerOf`)
whose name is that of a top-level definition: one key for two definitions.  `PatchText` is the patch from its text to the patched files:
an action for each kind of line of `parse_unified_diff`, `TextEnds` the comparison with
the plan, `Policy` the policy, `ApplyHunk` a hunk with its cursors.
`CandidatePipeline` composes the three with `StaticChecks` in the graph's order:
a node is entered when the one before it succeeded, and what the patch was found to
be decides the first two checks of `validate` (`AsThePatchDoes`).

How they fit: the answer kinds of the nodes in `RepairGraph` are the results of
`SandboxRunner` (through `BaselineVerdict`), of `CandidatePipeline`'s nodes, and of
`Verification`; that those modules yield no other result is their type invariants and
`AlwaysAnswers`, `RaisesOnlyWhenCutShort`.  An exception from them is a choice of the
graph's node.

**Proofs.**  `RepairGraphProofs` has the invariants of the graph's nodes and
`RepairRunProofs` the theorems about the process that runs them.
`BenchmarkProofs`, `SandboxRunnerProofs`, `VerificationProofs` (with
`VerificationService`), `StaticChecksProofs` (with `StaticRunner`) and `PatchTextProofs` are about the module of
their name.  `CandidatePipelineProofs` has those about `Preparation` and
`ContextSelection`, and, with all of the pipeline's parts at hand, those about the
pipeline.  The `MC*` modules give constants
their values and define nothing else.

## 3 Runs

Five runs pass; seven end in a violation on purpose and belong to section 7.  Each
property of a passing run has a mutant of the code that breaks it.

| run | specification | distinct states | what it shows |
|---|---|---|---|
| `repair_run` | `RepairRun!RunSpec` | 8 056 | the graph, for every provider and every answer of every boundary: success is earned (`SuccessIsEarned`); the failure paths always build a valid state (`OnlyRoutingRaises`) that can be routed (`AlwaysRoutable`); calls are accounted for (`UsageAccounted`); recorded evidence stays (`EvidenceIsFinal`); the verdict is the one that `RepairVerdict` permits, and comes (`ImplementsVerdict`).  The process around it: what is decided can be published (`DecidedIsPublishable`); an exit code that names an outcome goes with that very artifact and with removed workspaces (`ExitIsEarned`); an artifact that claims an outcome is honest even if the process then fails (`ArtifactIsHonest`); an interrupt stays one (`InterruptIsFinal`) |
| `sandbox_runner` | `SandboxRunner!Spec` | 207 | the baseline's verdict is its container's own whichever way the race with the deadline went (`VerdictIsTheContainers`); no container stays unreported (`NothingLeftBehind`); only tests that never end can hang the runner (`HangsOnlyWithTheTests`) |
| `verification` | `Verification!VerifySpec` | 12 271 | the three stages with their containers: the verdict is on the unchanged candidate (`VerdictIsForTheCandidate`); hidden tests are guarded (`HiddenTestsAreGuarded`, `RemovalIsAttempted`); results are accepted by their validators (`RaisesOnlyWhenCutShort`); stage verdicts are the containers' (`StageIsTheContainers`); interrupts are kept (`InterruptIsKept`), known containers removed (`KnownContainerIsRemoved`); the runner answers what `verify` expects (`ImplementsService`), and only endless tests hang it (`HangsOnlyWithTheTests`) |
| `candidate_pipeline` | `CandidatePipeline!PipelineSpec` | 969 824 | the way to a candidate.  Preparation: no mixture of two repositories (`PreparedIsASnapshot`), nobody else's directory (`OwnsItsDirectory`).  Context: what can be reached from each frame, but for the namesake of the definition around it (`CollectsTheReachable`), the best package within the limit (`KeepsTheBest`).  Patch: a hunk's cursors do what an edit from the last hunk to the first does (`AppliedAsWritten`), and what fits is what the policy approved (`ChangesAreApproved`).  Static checks: what passes is a published copy that nobody touched since its first snapshot and that the container passed (`VerdictIsOnTheCopy`), whose report is of clean files and working tools (`PassesOnlyTheClean`); every ending is one its validator accepts (`AlwaysAnswers`); no other copy stays unless the result says so, and no container (`OnlyTheCandidateStays`); an interrupt in the runner ends `validate` (`InterruptEndsValidate`), which returns even if the tools never do (`Validates`) |
| `benchmark` | `Benchmark!BenchmarkSpec` | 433 413 | a benchmark of three cases: it stops at the first case that could not be executed (`FailsFast`); a case's usage is what that case paid (`UsageIsItsOwn`); the report's validator refuses what the loop built for a rounding only (`OnlyRoundingIsRefused`); exit code and files agree (`ExitIsHonest`); an interrupt ends it (`InterruptEndsBenchmark`) |

`CHECK_DEADLOCK FALSE` stands in every configuration because every one of these
programs stops: an exited process, a runner that is done, a node whose successor is
not entered.  That they do not stop earlier is what the liveness properties say.

## 4 Bounds

| bound | value | why it is enough |
|---|---|---|
| `Providers` | `None`, `"fake"`, `"live"` (`"live"` in the benchmark) | these are the three kinds there are: absent, without a usage reader, with one; the benchmark only makes live ones |
| `ExitCodes` | `{0, 1}`, or `{0, 2}` for the static checks | the runners compare with 0 only; a second code is a failing test suite, or a crash of the container's program |
| `MaxChanges` (verification) | 2 (0 in `verification_cleanup`) | one change of the candidate and one to put it back, at any two moments; proved for every number.  The violation needs none |
| `Cases` | 3 (2 in `benchmark_usage`; five in the code) | a case before, at and after the first failure |
| `Latencies`, `Rounded` | 1 and 4; floats of two binary digits, ties to the even one | 4 + 1 + 1 is 4 when each addition is rounded and 6 when what was lost is added in the end, as 0.1, 0.2 and 0.3 differ with 53 digits; proved for every rounding |
| usage | at most 2 calls | not a bound of the model but of the program: one call per stage (`BillingBound` in the proofs) |

The graph, the process and the runners have no other counter: their state spaces are
complete for these constants.  `candidate_pipeline` has these:

| bound | value | why it is enough |
|---|---|---|
| `Files`, `Texts`, `MaxChanges` | 2, two contents, 2 | a mixture needs two files that change between their readings, or one that changes and changes back; proved for every number |
| `PyFiles`, `Definitions`, `MaxFrames`, `MaxMentions` | 2, 2, 2, 3 (1, 2, 2, 1 in `context_budget`) | mentions within a file and across two, a cycle of two with a way into it, and two frames of one file or of two |
| `Namesakes` | one of the definitions | a frame in the inner definition of that name, which mentions the top-level one, or is led back to it from the other file; proved for any set of them |
| `Limits` | 3, 9, 13, 20, 40 | below the instructions alone, three sizes at which a part of the items is dropped, and one at which nothing is |
| `Path`, `Protected`, `Planned`, `Trees` | `p`, `q`; `q`; one of them or both; `p` missing, empty, of one line and of two, with and without a final newline, and of three that begin with the empty one | a file allowed and one not; every case of the arithmetic of empty sides and of the newline; a file that can be cut down to one empty line without a newline, which is written as none (the `+ 1` of `ChangesAreApproved`) |
| `Line`, `Assertions`, `Empty` | `a`, `b`, `e`; `b`; `e` | an ordinary line, one that must not go, and the one that the parser reads by another branch |
| `Headers`, `MaxText` | twelve headers, 6 lines | two hunks in one file, or one file of one hunk with three lines; sides of zero to three lines, the zero starts that are allowed and one that is not |
| `MaxChanged`, `MaxFiles` | 2, 1 (200 and 3 in the code) | patches at the limit and above it |
| `SyntaxChecks`, `ToolChecks` | 2, 1 (2 and 3 in the code) | the two syntax checks differ, the three tools go through the same rules; proved for any number |
| `MaxFindings`, `MaxPayload` | 2, 2 (1000 findings, 64 KiB in the code) | each limit is met and exceeded, the second one by checks that each stay within the first |
| `MaxEdits` | 2 | one change of the repository and one of the copy, or two of either; proved for every number |
| `EarlyTimeouts` | `TRUE` (`FALSE` in `static_runner_deadline`) | `TRUE` adds a client that is cut off before the runner's own clock has run out, as the unit tests' fakes do; it allows more behaviours, so what passes with it passes without it.  The violation is one without it |

A node's local variables are forgotten when it returns (`PrepGone`, `PatchGone`):
nothing that comes later depends on them, and without it the run would be a product
of parts that have nothing to say to each other.

## 5 Fairness

| specification | weakly fair | why |
|---|---|---|
| `RepairRun`, `Benchmark` | the process's steps, the graph's nodes among them | a sequential program goes on; boundaries answer or raise.  That the containers behind them end is the runners' own liveness |
| `SandboxRunner`, `VerificationRunner`, `Verification` | Docker calls that are answered (`Step(FALSE)`), and `verify`'s own steps | the daemon answers what it can answer, and `subprocess` enforces the deadline of the attached client.  Failures, interrupts and changes need never happen.  The tests need never end: hence `HangsOnlyWithTheTests` is about runs in which they do not go on for ever |
| `StaticRunner`, `StaticChecks` | the runner's steps, answered or cut off, and `validate`'s | every call of the static runner has the remaining time as its limit, so that `Validates` holds even if the tools never end |
| `CandidatePipeline` | those of `StaticChecks` (`Validating`) | the same; nothing is asked of the nodes before it, whose properties are about safety |
| `RepairVerdict` | its steps | the liveness that `ImplementsVerdict` asks of the graph: a verdict, or an end without one |

Nothing is strongly fair, and no property assumes that an interrupt, a failure or
a change of a file comes, or does not.

## 6 Proofs

What the runs show for small constants, TLAPS proves for all of them, where it can.
Each theorem rests on an inductive invariant: the property itself seldom says enough
about the steps in between to be preserved.  Most of
them were tried with TLC on small instances first.  The assumptions are those on the constants, each in the
module that declares them, and TLC evaluates them in the runs: `ProvidersAssumption` (any
subset of the three kinds of providers), `ExitCodesAssumption` (bytes),
`EarlyTimeoutsAssumption` (both), `MaxChangesAssumption`, `StaticChecksAssumption` (any
number of changes), `StaticReportAssumption` (any number of checks, at least one of
each sort, and any limits), `PreparationAssumption` (any number of files, any contents
and changes; a missing file is no content), `CasesAssumption` (any number of cases),
`PatchAssumption` (any files, lines, headers and limits; a file that is not there has no
lines, and the empty line is no assertion), `ContextAssumption` (any number of Python
files and of definitions in each, any of them with an inner namesake, and any limits).
`LatencyAssumption` (a latency is a float) is checked by the runs and used by no proof.

| module | invariant | theorems |
|---|---|---|
| `RepairGraphProofs` | `IInv`, `Open` | (lemmas, for the next module) |
| `RepairRunProofs` | `RunInv`, `Interrupting`, `EvidenceInv`, `LedgerInv`, `VerdictInv` | `RunInvariant`, `RunTypeCorrect`, `SuccessAlwaysEarned`, `ExitAlwaysEarned`, `ArtifactAlwaysHonest`, `InterruptAlwaysFinal`, `EvidenceInvariant`, `AlwaysRoutableHolds`, `UsageAlwaysAccounted`, `DecidedAlwaysPublishable`, `OnlyRoutingEverRaises`, `EvidenceAlwaysFinal`, `VerdictInvariant`, `DecidesAsPromised` |
| `BenchmarkProofs` | `BenchmarkInv` | `BenchmarkInvariant`, `AlwaysFailsFast`, `UsageAlwaysItsOwn`, `OnlyRoundingIsEverRefused`, `ExitAlwaysHonest`, `InterruptAlwaysEnds` |
| `SandboxRunnerProofs` | `Inv` | `Invariant`, `TypeCorrect`, `VerdictAlwaysTheContainers`, `NothingIsLeftBehind` |
| `VerificationProofs` | `Inv`, `RunnerInv` | `Invariant`, `VerdictAlwaysForTheCandidate`, `HiddenTestsAlwaysGuarded`, `RaisesOnlyThen`, `RemovalAlwaysAttempted`, `Implements`, `StageAlwaysTheContainers`, `InterruptAlwaysKept`, `KnownContainerAlwaysRemoved`, `VerifyKeepsItsPromises` |
| `StaticChecksProofs` | `Inv`, `ChecksInv` | `Invariant`, `NothingIsLeftBehind`, `ChecksInvariant`, `ValidateAnswers`, `CleanPasses`, `CandidateStays`, `ValidateIsInterrupted`, `Verdicts` |
| `PatchTextProofs` | `PatchInv`, `Counted` | `PatchInvariant`, `ChangesAlwaysApproved`, `HunksAlwaysCounted`, `AppliedAlwaysAsWritten` |
| `CandidatePipelineProofs` | `PrepInv`, `ContextInv`, `PipelineInv` | `PrepInvariant`, `PreparedAlwaysASnapshot`, `OwnsItsDirectoryAlways`, `ContextInvariant`, `CollectsAllReachable`, `AlwaysKeepsTheBest`, `PipelineInvariant`, `PipelinePreparesASnapshot`, `PipelineCollectsReachable`, `PipelineChangesApproved`, `PipelineValidates`, `PipelineVerdicts`, `PipelineOwnsDirectory`, `PipelineKeepsTheBest`, `PipelineAppliesAsWritten` |

**The graph.**  `IInv` is `TypeOK /\ Valid(st) /\ Position /\ BillingBound /\ AttemptInv
/\ SuccessIsEarned`.  `SuccessIsEarned` alone is not inductive: that a success route has
passing evidence of all ten nodes follows from the validator (`Valid`: evidence
only of executed nodes, and of all of them but a failed last one) once it is known
that the completed nodes are the first `k` and the graph stands at the next one, or
at `route_result` (`Position`).  That the type bound of `billed` is inductive needs
`BillingBound` (no call before the fifth node, one before the sixth), and that a
suitable plan was recorded needs the attempt to be spent (`AttemptInv`).  The argument
has a lemma per node: eight share `QuietNode`, `plan_repair` and `generate_patch` share
`ModelNode`, and `route_result` is the only node that sets the route (`RoutedSuccess`).

**What the evidence rests on.**  The validator does not know everything: that a
failure was only classified after a reproduced baseline, that the static checks ran on
an approved patch, that an evaluation agrees with its verification, that a candidate's
failure belongs to a spent attempt.  `Founded` says this, and `Open` adds that a running
graph has decided nothing and that a failed node is followed by `route_result`.
`NodeStep` gathers what the ten nodes have in common: the good update gives the node's own
evidence and nothing else (`Gives`), the bad one only records a failure (`Fails`), and
both account for the calls (`Accounts`).  From there, each lemma is proved once for all
nodes.  `FailureValid` is the one behind `OnlyRoutingRaises`: every conjunct of the
validator holds of a state with a failure recorded, so that the handler of a failing node
cannot fail itself.  `EvidenceRoutable` and `DecidedProjects` are about three sets of rules
written in different words, the state's, `RoutingEvidence`'s and the artifact's: what
the first accepts, the other two do.

**The process.**  `RunInv` adds what each phase of `execute_trusted_case` may rely on
(`BeforeCleanup`, `Tells`, `AfterCleaning`, `Storing`): the projection is the state's own
outcome, an outcome other than an infrastructure failure is published only with the
workspaces gone, and what is stored is what was projected.  `Interrupting` says where an
interrupt on its way out can be.

**The verdict.**  `DecidesAsPromised` is `ImplementsVerdict` without its fairness: every
state and step of the process is one of `RepairVerdict`.  Two things have to be known.
Each stage's evidence is there only if that of the stages before it passes
(`PassedBefore`), so that `Passing(st)` is an initial segment of the ten, and a node adds
at most its own stage; what replaces the state after the graph loses the evidence as a whole
or not at all (`Vanished`).  And the verdict must be one that the first stage that did not
pass is entitled to (`Entitled`): when all ten passed and the verdict is an
infrastructure failure nevertheless, the workspaces could not be removed (`Overruled`).

**The benchmark.**  A case is a repair whose provider has been used before, and every
invariant of the repair must hold of it again; `LedgerInv` adds to `EvidenceInv` what the
accounting needs: the recorded usage never exceeds the counter (`Counts`), and a state that
the graph has not returned has no usage, nor any evidence (`Vanished`).
`BenchmarkInv` says in addition how results and payments go together one by one, that
nothing of the case before is left when one starts, and what is on disk at each step of the
writer.  `OnlyRoundingIsRefused` then compares two ways of saying the same rules, the loop's
and the validator's: its counts add up to the cases because every result is counted once
(`CountedOnce`), and at most one is a case that could not be executed (`CountedBroken`).
Of the two ways of adding latencies nothing is known but that the report has the one and
the validator the other: whether they agree is exactly what is left.

**The runners.**  A verdict is about the container as it was when `docker wait` or the kill
was answered, so the invariants say at each call what has been learnt of the container
(`Founded`) and what has not (`Control`), also after calls that failed and had their
effect.

**Verification.**  The invariant of `verify` says where the bundle can be at each step, that
the stages before the current one passed, and that a candidate whose identity is still
the one of the current inspection has the content that was read (`Unchanged`).  Over the
real runner, every new container starts `RunnerInv` afresh; with it each step is a step of
`VerificationService` or leaves its variables alone (`Implements`), and what was proved of
the service holds of the composition (`VerifyKeepsItsPromises`).

**Static checks.**  `ChecksInv` has a part for each question: the looks in their order, what
was decided, where the copy is, the statuses at each step, the report, the runner.
That a result is always one its validator accepts (`ValidateAnswers`) is a lemma about the
shape of the statuses when the diagnostic is put on one of them (`Marked`, `Blamed`), for
any number of checks, with the least check that has not run found by well-foundedness.
`CleanPasses` rests on `CleanReport`: a report without a failure, within every limit, is
one of clean files and working tools.

**Preparation.**  A repository that is read file by file while it changes was still, for what
was read, at one moment: the one between the first walk and the first reading.
`Witnessed` follows this moment: a file that still has the identity the first walk found
has its content of that moment, and one that has not is found out by the second walk,
because no identity comes back.

**The patch.**  `ChangesAreApproved` is about counts: a hunk that fits takes as many lines
out of the file as it removes and puts in those it adds, so that at each turn of the loop what
is written and what is read differ by the changed lines so far, with every assertion kept
(`Fair`); `Carried` has it for the files that are done.  The last
line of a file is written in its own way, and the proof found what the property had
not foreseen: of a file cut down to one empty line without a newline nothing is left, one
line more than the patch removes.

`AppliedAsWritten` compares the loop, which goes over the hunks from the first to the
last with a cursor, with an edit from the last to the first that has none.  What the edit
has made of the file before the `i`-th hunk begins with the lines that the loop has not
changed, and goes on with the very rest that the loop is still going to write (`Alike`,
`SameRest`, down to the first hunk in `SameAhead`).  This needs hunks whose sides are as long
as their headers say, which the parser's countdown ensures: `Counted`, an invariant of its own, says
what the open hunk lacks, and `HunksAlwaysCounted` that no hunk is applied that lacks
something.

The folds over hunks and lines are resolved without induction over data: a fold's intermediate
results are a function whose every value follows from the one before, and what must hold of each
is shown from the least index where it would not.

**The context.**  That what is collected is what can be reached is said of the moment
between two frames, and for it every moment within a call counts.  `Follows` is about the
frame whose call runs or waits.  A key that was visited stands for one definition while the
frame is followed, the frame's own or the top-level one (`Own`); that definition was
collected, or is in the running call's hands, and what it mentions was visited, is pending
or waits for a call (`Known`), unless the running call has it still to hand on to
another file; and nothing is known that cannot be reached.  Of the frames before it,
all that can be reached is there (`Finished`), and of no others is anything there (`LedTo`).  When
no call runs or waits, what was taken for the frame is closed under mentioning, but for the
namesake of its own definition, and so, as the least such set, all that can be reached
from it (`CollectionIsReachable`).  It does not matter in which order names and files
are taken, nor that the collection ends.

`KeepsTheBest` is about sums: the size of a package is that of its items, whatever the
order in which they are added (`SumAdds`, from the definition of the fold, by the
least number of items for which it would matter).  `Keeping` follows the loop: what was dropped
comes after all that is kept, is told once for each, and would not fit with the
others (`DropKept`); the item that a round drops exists because the items are
finite and in a strict order (`LastExists`, `Ordered`).

**The pipeline.**  What is proved of a node alone is not yet true of the graph: a node's
variables change when the next one is entered, and the repository that `validate` is
given may have changed since it was prepared.  `PipelineInv` has each node's invariant for
as long as the node is not left, `validate`'s for the whole time, because it must hold
when its turn comes, and of what is forgotten the promises only.  What has to be shown of
the steps between the nodes: forgetting the prepared files and the patch falsifies
nothing that was promised of them (`ApprovedKeepsApproval`), the invariant of `validate`
does not depend on what the repository is like when it begins (`ApprovedKeepsChecks`), and
for the action properties, that these steps are not ones of which they speak: the
directory that is handed on is never somebody else's (`PipelineOwnsDirectory`), no
verdict is reached between two nodes (`PipelineVerdicts`), and no file of the patch is
taken off (`PipelineAppliesAsWritten`).

What is only model-checked is liveness under fairness, which is out of the prover's
reach: `Validates`, `HangsOnlyWithTheTests`, and that a verdict comes, which is what
`ImplementsVerdict` says beyond `DecidesAsPromised`.

## 7 Findings

Seven places where the code does something else than its documents or tests say.
Each has a run with the one property that quotes the sentence, which TLC violates;
`PROJECT.json` ("findings") has both quotations.

| run | property | at | what happens |
|---|---|---|---|
| `repair_run_root` | `RemovedOnEveryExit` | `cli.py:195` | an interrupt while the workspaces are created leaves the root directory behind |
| `sandbox_runner_interrupt` | `InterruptIsKept` | `sandbox/runner.py:452` | an interrupt followed by a failing removal comes out as an ordinary sandbox error, and the run goes on |
| `verification_runner_start` | `VerdictNeedsARun` | `sandbox/verification_runner.py:405` | the exit code of a container that could not be started is read as the tests' verdict |
| `static_runner_deadline` | `SpentDeadlineIsTimeout` | `sandbox/static_runner.py:444` | tools that exceed the deadline are reported as a failure of Docker, and the kill is never sent |
| `verification_cleanup` | `CleanupFailureIsVisible` | `agent/verification.py:951` | after a hidden stage that was cut short, a bundle that cannot be removed makes `verify` raise instead of reporting it |
| `benchmark_usage` | `EveryCallIsReported` | `evaluation/benchmark.py:315` | the calls of a case that paid and then raised are missing from the report's aggregate |
| `context_budget` | `FailuresAreTyped` | `agent/context.py:1165` | two omissions for the same reason in one file are equal, which the package's own validator refuses: a selection that only had to drop two definitions raises an untyped error |

The passing runs are written around them: `NothingLeftBehind` of the sandbox runner
allows the cleanup error, `RaisesOnlyWhenCutShort` allows the exception, and
`StageIsTheContainers` speaks of the container's code, whether it ran or not.

## 8 Observations without a run

Met while modelling; the models have the behaviour, and the properties leave room
for it.

- `verification_runner.py:445` removes the container only if `docker create`
  returned: one that the daemon made while the client failed, or was interrupted, is
  left (`KnownContainerIsRemoved` says "known").  `docs/specs/0.1-003a:247` asks for an
  attempted removal; the sandbox runner makes one.
- `docker wait` has no time limit in `runner.py:397` and its twin in the
  verification runner: when the attached client is lost while the tests go on, the
  runner waits as long as they do.
- `reporting.py:352`: a failure or an interrupt between a file's link to its final
  name and the update of `owned` leaves half a pair, which the cleanup does not own
  (`docs/specs/0.1-011a:308` would have partial output cleaned).
- An interrupt after the report is published and before the summary is printed
  leaves the pair, with exit code 130.
- A wall clock that is set back during a benchmark costs its report: the report's
  validator refuses the times, and the exit code is 6.  In a repair, the same takes
  `route_result` down.
- `static_checks.py:585-605`: when `make_directory` fails after `os.mkdir`, the empty
  staging directory stays (the last disjunct of `OnlyTheCandidateStays`).
- The tools run on a path.  What is compared afterwards is the copy with its first
  snapshot; whether that snapshot is the repository plus the patch is decided from
  the changed paths only, not from their content (`_changed_python_paths`).
- When the publication of the candidate fails, the diagnostic is put on
  `patch_apply`: every check has passed, and the first of all is taken
  (`Marked`).
- `artifacts.py:599-614`: an interrupt during the clean-up after an
  `ArtifactWriteError` is suppressed, and the process exits with 6
  (`docs/specs/0.1-010a:200` would have 130).  `InterruptIsFinal` is about interrupts
  that are on their way out.
- `cli.py:169-196`: when the metadata of the root that `mkdtemp` just made cannot be read,
  its identity is not known and the rollback does not try to remove it
  ("unidentified" in `RepairRun`, which `RemovedOnEveryExit` excuses).
- `context.py:884`, `898`: what was taken is remembered by file and name.  A frame in a
  method `load` that calls the module's function `load` leaves the function out of
  the package (`899`), without an omission, where `docs/specs/0.1-005:135` asks for a typed
  failure or omission reason for ambiguous definitions.  `ReachableFrom` has this one exception,
  and `CollectsTheReachable`, an equality, says that the code has it and no other.
- `benchmark.py:346`: the report's latency is a `sum()`, which compensates for rounding in
  the Python that is required (`pyproject.toml:10`); its validator adds with `+=`
  (`202`) and compares the two for equality (`238`).  Latencies of 0.1, 0.2 and 0.3 seconds
  are 0.6 for the one and 0.6000000000000001 for the other: the report is refused, nothing
  is published, and the exit code is 6, although `docs/specs/0.1-011a:442` has the
  usage "arithmetically consistent".  `OnlyRoundingIsRefused`, an equivalence, says that
  this, and nothing else that the loop records, is refused.
- `preparation.py:670`: when the copy's identity cannot be read after it was made,
  the rollback does nothing (`docs/specs/0.1-004:235`).
- A changed Python file that does not parse is a candidate's failure for the program's own
  two checks, but the tools say nothing of their own: mypy ends with exit code 2, ruff's
  finding has no rule, bandit lists an error.  Each is an infrastructure error
  (`docker/static-checks/runner.py:333`), which `static_checks.py:1347` puts before the
  failure, so that the run is an infrastructure failure and not a failed candidate
  (`docs/specs/0.1-008-static-checks.md:370`).  The model has both statuses; which of
  them the tools cause is their behaviour and no property's.
- `compile` may write a `SyntaxWarning` to stderr; a valid report with anything on stderr
  is refused (`noisy` in `StaticReport`; `static_runner.py:380`).
- A patch that writes content without a final newline into an existing empty file never
  applies (`EndFits`).

## 9 What is not modelled

- Text: prompts, rendering, file names, path validation, patterns that classify a
  failure, redaction and bounds of output.  A parser or validator of text is a choice
  between acceptance and refusal.
- Times and money: a clock reading is on time, early or an error; tokens and
  prices are the number of calls, and a case's latency is one float.  Partial usage
  snapshots are raised ones.
- Collisions of random identifiers, a monotonic clock that runs backwards, other
  processes that write to the output directories.
- Docker effects that arrive after the client gave up and the runner moved on.
- Changes of a file that leave its identity (its modification time) alone: a change shows in
  every later snapshot.  A file that is absent has no identity, so that one which appears
  and disappears between two walks is seen by neither; `PreparedIsASnapshot` is about the
  files that are there.
- The verification runner's error codes for a timeout and for want of memory
  (`agent/verification.py:801`), which it never raises: both are evidence.
- Of the policy, the rules on the content of Python and dependency files, which match
  patterns: in `PatchText` they may refuse any patch (`ViolationsOfAdditions`).  Of the context, excerpts,
  redaction and what `ast` makes of a text: a file is of one of a few kinds, and which
  definition mentions which is chosen.  A frame lies in one definition (two innermost ones
  need two on one line, and one in none only adds the file's source), a name has one
  inner definition, and inner ones whose name is no top-level one's are like
  top-level ones that nobody mentions.  Paths that differ in case only, which
  `visited` does not tell apart either, are different files.
- Of the program in the container, the fields of a finding and the tools' own parsing:
  an output is parsed to a number of findings, or not.
- The checks of paths, names and arguments before a component's first step: one step
  that passes or fails.  The case loader's manifests, the fake model's answers,
  development scripts and the sample repositories.

The whole system is not one specification.  `RepairRun` has the boundaries as choices and
`CandidatePipeline`, `Verification` and `SandboxRunner` stand behind them one by one:
they share nothing with the graph but their answer, and a product would multiply
independent state without an interaction to show.

## 10 Plan

What was planned is there.  What would add most from here:

1. That only bounded time passes, and not merely finitely many steps: the remaining time of
   the static runner as a number.
2. `ChecksSpec` under the pipeline as a refinement of an abstract `validate`, as
   `VerificationService` is one of `verify`.
