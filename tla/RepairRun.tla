----------------------------- MODULE RepairRun -----------------------------
(***************************************************************************)
(* One `tracefix repair` process: app/cli.py around the graph of            *)
(* RepairGraph.  The process checks its input, creates the run's workspaces,*)
(* runs the graph, projects the terminal state to an artifact               *)
(* (app/artifacts.py), removes the workspaces, publishes the artifact and   *)
(* prints a summary; each of these can fail, and a KeyboardInterrupt can    *)
(* arrive during each.                                                      *)
(***************************************************************************)
EXTENDS RepairGraph, ArtifactWriter

Codes == [ SUCCESS |-> 0, CANDIDATE_FAILURE |-> 1, POLICY_VIOLATION |-> 3,
           STATIC_CHECK_FAILURE |-> 4, BASELINE_NOT_REPRODUCIBLE |-> 5,
           INFRASTRUCTURE_FAILURE |-> 6, MALFORMED_MODEL_OUTPUT |-> 7 ]
NoExit == -1
Phase == { "load", "create", "initialize", "graph", "project", "cleanup", "publish",
           "report", "exited" }

VARIABLES
    phase,          \* where execute_trusted_case, repair and main are
    workspace,      \* the run's root directory: "absent", "owned" by the manager,
                    \* "abandoned" on disk, "undeletable" (removal failed), or
                    \* "unidentified" (its metadata could not be read)
    projected,      \* the outcome of the projected artifact, or None
    interrupted,    \* a KeyboardInterrupt is on its way out
    exit            \* the exit code of the process, or NoExit

runVars == << phase, workspace, projected, interrupted, exit, storeVars >>
vars == << graphVars, runVars >>

-----------------------------------------------------------------------------
(* Artifacts and terminal states (app/artifacts.py, end of graph.py).       *)

\* RunArtifact._validate_terminal_shape over the projection of s.
TerminalShape(s) ==
    LET classified == /\ s.attempt_number = 1 /\ s.baseline = "REPRODUCED_FAILURE"
                      /\ s.failure_analysis /\ s.model_configuration
        approved == s.policy_result = "approved" /\ s.static_result = "PASSED"
        unchecked == /\ s.static_result = None /\ s.verification_result = None
                     /\ s.evaluation_result = None
    IN  CASE s.terminal_route = "SUCCESS" ->
               /\ classified /\ approved
               /\ s.verification_result = "PASSED" /\ s.evaluation_result = "PASSED"
          [] s.terminal_route = "CANDIDATE_FAILURE" ->
               /\ classified
               /\ \/ /\ s.policy_result = None /\ s.static_result = None
                     /\ s.verification_result = None
                  \/ /\ approved /\ s.verification_result = "CANDIDATE_FAILED"
                     /\ s.evaluation_result = "FAILED"
          [] s.terminal_route = "POLICY_VIOLATION" ->
               classified /\ s.policy_result = "rejected" /\ unchecked
          [] s.terminal_route = "STATIC_CHECK_FAILURE" ->
               /\ classified /\ s.policy_result = "approved"
               /\ s.static_result = "CANDIDATE_FAILED"
               /\ s.verification_result = None /\ s.evaluation_result = None
          [] s.terminal_route = "BASELINE_NOT_REPRODUCIBLE" ->
               s.attempt_number = 0 /\ s.baseline = "NOT_REPRODUCIBLE"
          [] s.terminal_route = "MALFORMED_MODEL_OUTPUT" ->
               classified /\ s.policy_result = None /\ unchecked
          [] OTHER -> TRUE

\* RunArtifact.validate_artifact over the projection of s.
ArtifactValid(s) ==
    LET candidate == { s.static_result, s.verification_result, s.evaluation_result } \ {None}
    IN  /\ s.completed_at = "ontime"
        /\ s.evaluation_result # None => s.verification_result # None
        /\ s.static_result # None => s.policy_result # None
        /\ s.failure_analysis \/ s.policy_result # None \/ candidate # {} =>
               s.baseline = "REPRODUCED_FAILURE"
        /\ s.policy_result = "rejected" => candidate = {}
        /\ s.static_result \notin {None, "PASSED"} =>
               s.verification_result = None /\ s.evaluation_result = None
        /\ s.evaluation_result # None =>
               s.evaluation_result = FunctionalStatusOf(s.verification_result)
        /\ TerminalShape(s)

\* project_artifact: None when it raises.
project_artifact(s) ==
    IF Valid(s) /\ s.terminal_route # None /\ ArtifactValid(s) THEN s.terminal_route ELSE None

\* terminalize_infrastructure_failure, from the initial state of the run.
Terminalized(s, clock) ==
    Completing([s EXCEPT !.failure_override = Infra, !.terminal_route = Infra,
                         !.completed_at = clock], "route_result")

\* Mutant of Replaced: the route is left as it was decided.
ReplacedInTime(s, clock) == [s EXCEPT !.completed_at = clock]

\* replace_with_infrastructure_failure, of a state that is terminal.
Replaced(s, clock) ==
    [s EXCEPT !.failure_override = Infra, !.terminal_route = Infra, !.completed_at = clock]

-----------------------------------------------------------------------------
(* The process.                                                             *)

Leave(code) == phase' = "exited" /\ exit' = code

\* repair: an invalid or unknown case is an input error; a case that does not
\* load, a bad run id or clock is an initialisation failure.
LoadCase ==
    /\ phase = "load"
    /\ \/ phase' = "create" /\ UNCHANGED exit
       \/ \E code \in {2, 6} : Leave(code)
    /\ UNCHANGED << graphVars, workspace, projected, interrupted, storeVars >>

\* LocalWorkspaceManager.create, when it is not interrupted.  A failure rolls
\* the root back, but an error of the rollback is suppressed.  If the first reading
\* of the new root's metadata fails, its identity is not known and it is left alone.
CreateWorkspace ==
    /\ phase = "create"
    /\ \/ workspace' = "owned" /\ phase' = "initialize" /\ UNCHANGED exit
       \/ workspace' \in { "absent", "undeletable", "unidentified" } /\ Leave(6)
    /\ UNCHANGED << graphVars, projected, interrupted, storeVars >>

\* new_orchestration_state fails on a naive start time; the run then has no
\* state and goes to its cleanup.
InitializeState ==
    /\ phase = "initialize"
    /\ phase' \in {"graph", "cleanup"}
    /\ UNCHANGED << graphVars, workspace, projected, interrupted, storeVars, exit >>

\* A step of the graph, a part of the process.
GraphStep ==
    /\ phase = "graph"
    /\ Step
    /\ UNCHANGED runVars

\* invoke_repair_graph returned, or raised and the initial state is made an
\* infrastructure failure, for which the clock is read again.  If that raises
\* too, the run has no terminal state and nothing is projected.
LeaveGraph ==
    /\ phase = "graph" /\ graph \in {"returned", "raised"}
    /\ \/ graph = "returned" /\ phase' = "project" /\ UNCHANGED st
       \/ /\ graph = "raised"
          /\ \E clock \in ClockReading :
                 LET initial == InitialState(st.model_configuration)
                     s == Terminalized(initial, clock)
                 IN  IF clock # "fails" /\ Valid(s)
                     THEN st' = s /\ phase' = "project"
                     ELSE st' = initial /\ phase' = "cleanup"
    /\ UNCHANGED << node, graph, provider, billed, workspace, projected, interrupted,
                    storeVars, exit >>

Project ==
    /\ phase = "project"
    /\ projected' = project_artifact(st)
    /\ phase' = "cleanup"
    /\ UNCHANGED << graphVars, workspace, interrupted, storeVars, exit >>

\* Mutant of AfterCleanup: the finally clause swallows the interrupt.
AfterCleanupSwallowing ==
    IF st'.terminal_route = None \/ projected' = None THEN Leave(6)
    ELSE phase' = "publish" /\ UNCHANGED exit

\* The finally clause and the check after it.  When the removal fails, a
\* terminal state is replaced by an infrastructure failure and projected anew,
\* or, if that fails too, not published at all.
AfterCleanup ==
    IF interrupted THEN Leave(130)
    ELSE IF st'.terminal_route = None \/ projected' = None THEN Leave(6)
    ELSE phase' = "publish" /\ UNCHANGED exit

CleanupRemoves ==
    /\ phase = "cleanup"
    /\ workspace' = "absent"
    /\ UNCHANGED << graphVars, projected, interrupted, storeVars >>
    /\ AfterCleanup

\* Mutant of CleanupFails: the failure of the removal is only logged.
CleanupFailsQuietly ==
    /\ phase = "cleanup"
    /\ workspace' = "undeletable"
    /\ UNCHANGED << graphVars, projected, interrupted, storeVars >>
    /\ AfterCleanup

CleanupFails ==
    /\ phase = "cleanup"
    /\ workspace' = "undeletable"
    /\ IF st.terminal_route # None
       THEN \E clock \in ClockReading :
                LET s == Replaced(st, clock)
                IN  IF clock # "fails" /\ Valid(s)
                    THEN st' = s /\ projected' = project_artifact(s)
                    ELSE projected' = None /\ UNCHANGED st
       ELSE UNCHANGED << st, projected >>
    /\ AfterCleanup
    /\ UNCHANGED << node, graph, provider, billed, interrupted, storeVars >>

\* LocalArtifactWriter.write, step by step.
Publish ==
    /\ phase = "publish"
    /\ Store(projected) \/ StoreFails \/ Undo
    /\ UNCHANGED << graphVars, phase, workspace, projected, interrupted, exit >>

Published ==
    /\ phase = "publish"
    /\ \/ storing = "stored" /\ phase' = "report" /\ UNCHANGED exit
       \/ storing = "failed" /\ Leave(6)
       \/ storing = "interrupted" /\ Leave(130)
    /\ UNCHANGED << graphVars, workspace, projected, interrupted, storeVars >>

\* repair prints the summary and returns the exit code of the route.
Report ==
    /\ phase = "report"
    /\ Leave(Codes[st.terminal_route]) \/ Leave(6)
    /\ UNCHANGED << graphVars, workspace, projected, interrupted, storeVars >>

\* A KeyboardInterrupt before the workspaces are known to execute_trusted_case
\* leaves the process at once; create's rollback does not run for it, so a root
\* directory that is already made stays.
InterruptEarly ==
    /\ phase \in {"load", "create"}
    /\ interrupted' = TRUE
    /\ workspace' \in IF phase = "create" THEN {"absent", "abandoned"} ELSE {"absent"}
    /\ Leave(130)
    /\ UNCHANGED << graphVars, projected, storeVars >>

\* A KeyboardInterrupt inside the try statement: the finally clause runs.  While
\* the graph has not returned, execute_trusted_case still holds the initial state.
InterruptRun ==
    /\ phase \in {"initialize", "graph", "project"}
    /\ interrupted' = TRUE
    /\ phase' = "cleanup"
    /\ IF phase = "graph"
       THEN st' = InitialState(st.model_configuration) /\ graph' = "interrupted"
       ELSE UNCHANGED << st, graph >>
    /\ UNCHANGED << node, provider, billed, workspace, projected, storeVars, exit >>

\* A KeyboardInterrupt inside cleanup, before or after the tree is gone or
\* has refused to go.
InterruptCleanup ==
    /\ phase = "cleanup"
    /\ interrupted' = TRUE
    /\ workspace' \in {"absent", "abandoned", "undeletable"}
    /\ Leave(130)
    /\ UNCHANGED << graphVars, projected, storeVars >>

\* A KeyboardInterrupt while publishing makes the writer remove its files, with
\* errors suppressed; one while printing leaves the published artifact.
InterruptPublication ==
    /\ phase = "publish"
    /\ StoreInterrupted(projected) \/ UndoInterrupted
    /\ interrupted' = TRUE
    /\ UNCHANGED << graphVars, phase, workspace, projected, exit >>

InterruptReport ==
    /\ phase = "report" \/ (phase = "publish" /\ storing \in StoreEnd)
    /\ interrupted' = TRUE
    /\ Leave(130)
    /\ UNCHANGED << graphVars, workspace, projected, storeVars >>

-----------------------------------------------------------------------------
RunInit ==
    /\ Init
    /\ phase = "load"
    /\ workspace = "absent"
    /\ projected = None
    /\ interrupted = FALSE
    /\ StoreInit
    /\ exit = NoExit

RunStep ==
    \/ LoadCase \/ CreateWorkspace \/ InitializeState \/ GraphStep \/ LeaveGraph \/ Project
    \/ CleanupRemoves \/ CleanupFails \/ Publish \/ Published \/ Report

RunNext ==
    \/ RunStep
    \/ InterruptEarly \/ InterruptRun \/ InterruptCleanup \/ InterruptPublication
    \/ InterruptReport

\* The process runs until it exits; an interrupt need never arrive.
RunSpec == RunInit /\ [][RunNext]_vars /\ WF_vars(RunStep)

-----------------------------------------------------------------------------
(* Properties.                                                              *)

RunTypeOK ==
    /\ TypeOK
    /\ phase \in Phase
    /\ workspace \in { "absent", "owned", "abandoned", "undeletable", "unidentified" }
    /\ projected \in TerminalOutcome \cup {None}
    /\ interrupted \in BOOLEAN
    /\ storing \in StoreStep \cup StoreEnd \cup { "undo", "undo_quietly", "undo_interrupted" }
    /\ temporary \in { "absent", "partial", "complete" } /\ published \in BOOLEAN
    /\ artifact \in TerminalOutcome \cup {None}
    /\ exit \in { NoExit, 0, 1, 2, 3, 4, 5, 6, 7, 130 }

\* Every terminal state the graph or the command line produces passes the
\* artifact's own validators, which restate the run's rules: no run that was
\* decided is lost because its evidence cannot be projected.
DecidedIsPublishable ==
    phase # "load" /\ st.terminal_route # None => project_artifact(st) = st.terminal_route

\* An exit code that names a repair outcome (0, 1, 3, 4, 5, 7) is returned only
\* with an artifact of that very outcome on disk and the workspaces gone.
ExitIsEarned ==
    exit \in {0, 1, 3, 4, 5, 7} =>
        /\ artifact # None /\ Codes[artifact] = exit
        /\ st.terminal_route = artifact
        /\ workspace = "absent" /\ temporary = "absent"

\* Nothing is published before the workspaces have been dealt with.
\* An artifact that reports anything but an infrastructure failure belongs to a
\* run whose workspaces were removed, and one that reports success to a run that
\* earned it; also when the process then fails to report it.
ArtifactIsHonest ==
    /\ artifact # None => workspace \notin { "owned", "abandoned" }
    /\ artifact \notin {None, Infra} =>
           /\ workspace = "absent"
           /\ artifact = "SUCCESS" => \A k \in 1..10 : Passing(st)[k]

\* From the interrupt on, nothing becomes an outcome: the exit code is 130
\* whatever else fails, and no artifact is created.
InterruptIsFinal ==
    [][interrupted =>
         /\ artifact' \in { artifact, None }
         /\ exit' \in {NoExit, 130}]_vars

\* The whole process, with its failures and interrupts, decides as RepairVerdict
\* promises: what it publishes and says by its exit code is what the first stage
\* that did not pass entitles it to, and the process always ends.
Verdict == INSTANCE RepairVerdict WITH
    passed <- [k \in 1..11 |->
                  IF k <= 10 THEN Passing(st)[k]
                  ELSE /\ \A j \in 1..10 : Passing(st)[j]
                       /\ phase \in { "publish", "report", "exited" } /\ workspace = "absent"],
    lost <- phase # "graph" /\ graph \in { "raised", "interrupted" },
    verdict <- IF artifact # None /\ exit = Codes[artifact] THEN artifact ELSE None,
    ended <- exit # NoExit
ImplementsVerdict == Verdict!VerdictSpec

\* README.md:241: the root "is removed on success, every terminal failure, and
\* interruption".  A root that the file system refuses to remove or to describe is
\* excused.
RemovedOnEveryExit == exit # NoExit => workspace \in { "absent", "undeletable", "unidentified" }
=============================================================================
