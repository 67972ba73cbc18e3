------------------------- MODULE VerificationRunner -------------------------
(***************************************************************************)
(* VerificationSandboxRunner._execute_prevalidated                          *)
(* (app/sandbox/verification_runner.py): one container per verification     *)
(* stage.  It makes the calls of SandboxRunner, but removes the container   *)
(* only once create has been answered, reports every failure as one typed   *)
(* error, and keeps an interrupt when the removal fails.                    *)
(***************************************************************************)
EXTENDS DockerDaemon

VARIABLES
    pc,             \* the Docker call the runner makes next, or "done"
    created,        \* docker create was answered
    exit_code,      \* what docker wait reported, or NoCode
    completion,     \* the completion of the evidence, or None
    primary,        \* the error on its way out, or None
    process_control,
    outcome         \* "evidence", an error code, "interrupted", or None

vars == << container, pc, created, exit_code, completion, primary, process_control, outcome >>

Call == { "info", "create", "start", "attached", "raced_inspect", "kill", "wait", "inspect", "rm" }
ErrorCode == { "DOCKER_FAILED", "MALFORMED_RESULT", "DAEMON_SECURITY", "CLEANUP_FAILED" }

-----------------------------------------------------------------------------
Proceed(next) ==
    pc' = next /\ UNCHANGED << created, exit_code, completion, primary, process_control, outcome >>

\* A Docker failure, or an answer to wait or inspect that cannot be read.
Fail(call) ==
    /\ pc' = "rm"
    /\ \/ primary' = "DOCKER_FAILED" /\ Unanswered(call)
       \/ call \in { "wait", "inspect" } /\ primary' = "MALFORMED_RESULT" /\ Answered(call)
    /\ UNCHANGED << created, exit_code, completion, process_control, outcome >>

Finish(how) == pc' = "done" /\ outcome' = how

Info(fails) ==
    /\ pc = "info"
    /\ IF fails THEN Finish("DAEMON_SECURITY") ELSE pc' = "create" /\ UNCHANGED outcome
    /\ UNCHANGED << container, created, exit_code, completion, primary, process_control >>

Create(fails) ==
    /\ pc = "create"
    /\ IF fails THEN Fail("create")
       ELSE /\ Answered("create") /\ pc' = "start" /\ created' = TRUE
            /\ UNCHANGED << exit_code, completion, primary, process_control, outcome >>

Deadline == Proceed("raced_inspect")

\* As in SandboxRunner: a client that exits with an error leads to wait.
Start(fails) ==
    /\ pc = "start"
    /\ \/ ~fails /\ Answered("start") /\ Proceed("attached")
       \/ fails /\ StartRefused /\ Proceed("wait")
       \/ fails /\ Fail("start")
       \/ fails /\ Unanswered("start") /\ Deadline

Attached(fails) ==
    /\ pc = "attached"
    /\ UNCHANGED container
    /\ \/ ~fails /\ container.state = "exited" /\ Proceed("wait")
       \/ ~fails /\ Deadline
       \/ fails /\ Proceed("wait")

\* Mutant of RacedInspect: a container that ended in time is not waited for.
RacedInspectOneSided(fails) ==
    /\ pc = "raced_inspect"
    /\ IF fails THEN Fail("inspect")
       ELSE /\ Answered("inspect") /\ container.state = "running" /\ Proceed("kill")

RacedInspect(fails) ==
    /\ pc = "raced_inspect"
    /\ IF fails THEN Fail("inspect")
       ELSE /\ Answered("inspect")
            /\ Proceed(IF container.state = "running" THEN "kill" ELSE "wait")

\* The tests may end before the kill, which then fails.
Kill(fails) ==
    /\ pc = "kill"
    /\ IF fails \/ ~Possible("kill") THEN Fail("kill")
       ELSE /\ Answered("kill") /\ pc' = "inspect" /\ completion' = "TIMED_OUT"
            /\ UNCHANGED << created, exit_code, primary, process_control, outcome >>

Wait(fails) ==
    /\ pc = "wait"
    /\ IF fails THEN Fail("wait")
       ELSE /\ Answered("wait") /\ pc' = "inspect" /\ exit_code' = container.code
            /\ UNCHANGED << created, completion, primary, process_control, outcome >>

\* Mutant of Inspect: memory is not looked at.
InspectBlind(fails) ==
    /\ pc = "inspect"
    /\ IF fails THEN Fail("inspect")
       ELSE /\ Answered("inspect") /\ pc' = "rm"
            /\ completion' = IF completion = "TIMED_OUT" THEN completion ELSE "NORMAL"
            /\ UNCHANGED << created, exit_code, primary, process_control, outcome >>

Inspect(fails) ==
    /\ pc = "inspect"
    /\ IF fails THEN Fail("inspect")
       ELSE /\ Answered("inspect") /\ pc' = "rm"
            /\ completion' = IF completion = "TIMED_OUT" THEN completion
                             ELSE IF container.oom THEN "MEMORY_LIMIT" ELSE "NORMAL"
            /\ UNCHANGED << created, exit_code, primary, process_control, outcome >>

\* How the statement after the finally clause, or the exception, leaves.
Ending == IF process_control THEN "interrupted" ELSE IF primary # None THEN primary ELSE "evidence"

\* Mutants of Rm: a failing removal replaces an interrupt too, as in
\* SandboxRunner; and it is reported only if nothing else went wrong.
RmReplacing(fails) ==
    /\ pc = "rm"
    /\ IF ~created THEN UNCHANGED container /\ Finish(Ending)
       ELSE IF fails THEN Unanswered("rm") /\ Finish("CLEANUP_FAILED")
       ELSE Answered("rm") /\ Finish(Ending)
    /\ UNCHANGED << created, exit_code, completion, primary, process_control >>

RmSecondary(fails) ==
    /\ pc = "rm"
    /\ IF ~created THEN UNCHANGED container /\ Finish(Ending)
       ELSE IF fails THEN Unanswered("rm") /\ Finish(IF primary # None THEN primary
                          ELSE IF process_control THEN "interrupted" ELSE "CLEANUP_FAILED")
       ELSE Answered("rm") /\ Finish(Ending)
    /\ UNCHANGED << created, exit_code, completion, primary, process_control >>

\* The finally clause: only a container known to be created is removed, and a
\* failing removal replaces everything but an interrupt.
Rm(fails) ==
    /\ pc = "rm"
    /\ IF ~created THEN UNCHANGED container /\ Finish(Ending)
       ELSE IF fails
            THEN Unanswered("rm")
                 /\ Finish(IF process_control THEN "interrupted" ELSE "CLEANUP_FAILED")
       ELSE Answered("rm") /\ Finish(Ending)
    /\ UNCHANGED << created, exit_code, completion, primary, process_control >>

CallOf(step) ==
    IF step = "raced_inspect" THEN "inspect" ELSE IF step = "attached" THEN "wait" ELSE step

Interrupt ==
    /\ pc # "done"
    /\ process_control' = TRUE
    /\ Unanswered(CallOf(pc))
    /\ IF pc \in { "info", "rm" } THEN Finish("interrupted")
       ELSE pc' = "rm" /\ UNCHANGED outcome
    /\ UNCHANGED << created, exit_code, completion, primary >>

ContainerEnds ==
    /\ Ends
    /\ UNCHANGED << pc, created, exit_code, completion, primary, process_control, outcome >>

Init ==
    /\ container = NoContainer
    /\ pc = "info" /\ created = FALSE
    /\ exit_code = NoCode /\ completion = None /\ primary = None
    /\ process_control = FALSE
    /\ outcome = None

Step(fails) ==
    \/ Info(fails) \/ Create(fails) \/ Start(fails) \/ Attached(fails) \/ RacedInspect(fails)
    \/ Kill(fails) \/ Wait(fails) \/ Inspect(fails) \/ Rm(fails)

Next == Step(FALSE) \/ Step(TRUE) \/ Interrupt \/ ContainerEnds

\* As in SandboxRunner.
Spec == Init /\ [][Next]_vars /\ WF_vars(Step(FALSE))

-----------------------------------------------------------------------------
\* _stage_from_evidence (app/agent/verification.py), for this run's outcome.
StageStatus ==
    IF outcome # "evidence" \/ completion # "NORMAL" THEN "INFRASTRUCTURE_ERROR"
    ELSE IF exit_code = 0 THEN "PASSED" ELSE "FAILED"

-----------------------------------------------------------------------------
(* Properties.                                                              *)

TypeOK ==
    /\ container \in Container
    /\ pc \in Call \cup { "done" }
    /\ created \in BOOLEAN
    /\ exit_code \in ExitCodes \cup { NoCode, 0, StartFailure, KillCode }
    /\ completion \in { None, "NORMAL", "TIMED_OUT", "MEMORY_LIMIT" }
    /\ primary \in ErrorCode \cup { None }
    /\ process_control \in BOOLEAN
    /\ outcome \in ErrorCode \cup { None, "evidence", "interrupted" }

\* A stage passes or fails by the exit code of a container that was not killed
\* and did not run out of memory, and that is gone when the verdict is given.
StageIsTheContainers ==
    StageStatus # "INFRASTRUCTURE_ERROR" =>
        /\ ~container.killed /\ ~container.oom /\ container.state = "absent"
        /\ exit_code = container.code

\* An interrupt is never turned into evidence or an error, whatever else fails.
InterruptIsKept == process_control /\ pc = "done" => outcome = "interrupted"

\* A container that the runner knows it created is removed, or its removal is
\* reported as failed, or an interrupt is on its way; no earlier error hides it.
KnownContainerIsRemoved ==
    created /\ outcome \notin { None, "interrupted", "CLEANUP_FAILED" } => container.state = "absent"

\* docs/specs/0.1-009-verify-and-evaluate.md:435: "All three stages pass only on
\* normal exit `0`", and "sandbox/Docker/protocol" failures "map distinctly to
\* infrastructure diagnostics"; so a stage passes or fails only if its tests were started.
VerdictNeedsARun == StageStatus # "INFRASTRUCTURE_ERROR" => container.ran
=============================================================================
