--------------------------- MODULE SandboxRunner ---------------------------
(***************************************************************************)
(* SandboxRunner.execute (app/sandbox/runner.py), which runs the baseline's *)
(* tests in one container, and the verdict BaselineExecutor.run makes of it *)
(* (app/agent/baseline.py).  One action per Docker call; each may be        *)
(* answered, fail, or be interrupted.                                       *)
(***************************************************************************)
EXTENDS DockerDaemon

VARIABLES
    pc,             \* the Docker call the runner makes next, or "done"
    exit_code,      \* what docker wait reported, or NoCode
    completion,     \* "NORMAL", "TIMED_OUT", "MEMORY_LIMIT": there is a result; or None
    interrupted,    \* a KeyboardInterrupt is on its way out
    outcome         \* how execute ended, or None

vars == << container, pc, exit_code, completion, interrupted, outcome >>

Call == { "info", "create", "start", "attached", "raced_inspect", "kill", "wait", "inspect", "rm" }

-----------------------------------------------------------------------------
Proceed(next) == pc' = next /\ UNCHANGED << exit_code, completion, interrupted, outcome >>

\* Past the daemon's check every failure leads to the finally clause.
Fail(call) == Unanswered(call) /\ Proceed("rm")

Finish(how) == pc' = "done" /\ outcome' = how

\* Mutant of Info: an error of Docker's client is not caught.
InfoUncaught(fails) ==
    /\ pc = "info"
    /\ UNCHANGED << container, exit_code, completion, interrupted >>
    /\ IF fails THEN Finish("DockerCommandError") ELSE pc' = "create" /\ UNCHANGED outcome

\* _validate_daemon_security, before the try statement.
Info(fails) ==
    /\ pc = "info"
    /\ UNCHANGED << container, exit_code, completion, interrupted >>
    /\ IF fails THEN Finish("validation_error") ELSE pc' = "create" /\ UNCHANGED outcome

Create(fails) ==
    /\ pc = "create"
    /\ IF fails THEN Fail("create") ELSE Answered("create") /\ Proceed("start")

\* The deadline of the attached start expired: an inspect decides the race
\* between the deadline and the end of the tests.
Deadline == Proceed("raced_inspect")

\* start --attach, until the container runs.  A client that cannot be invoked is
\* a failure; one that exits with an error is not (check=False), and leads to wait.
Start(fails) ==
    /\ pc = "start"
    /\ \/ ~fails /\ Answered("start") /\ Proceed("attached")
       \/ fails /\ StartRefused /\ Proceed("wait")
       \/ fails /\ Fail("start")
       \/ fails /\ Unanswered("start") /\ Deadline

\* start --attach, while the client is attached.  It may lose its connection.
Attached(fails) ==
    /\ pc = "attached"
    /\ UNCHANGED container
    /\ \/ ~fails /\ container.state = "exited" /\ Proceed("wait")
       \/ ~fails /\ Deadline
       \/ fails /\ Proceed("wait")

\* Mutant of RacedInspect: a container that ended in time is not waited for.
RacedInspectOneSided(fails) ==
    /\ pc = "raced_inspect"
    /\ IF fails THEN Fail("inspect")
       ELSE /\ Answered("inspect") /\ container.state = "running" /\ Proceed("kill")

RacedInspect(fails) ==
    /\ pc = "raced_inspect"
    /\ IF fails THEN Fail("inspect")
       ELSE /\ Answered("inspect")
            /\ Proceed(IF container.state = "running" THEN "kill" ELSE "wait")

\* The tests may end before the kill, which then fails.  timed_out, kept in
\* completion, is only a result if the last inspect succeeds.
Kill(fails) ==
    /\ pc = "kill"
    /\ IF fails \/ ~Possible("kill") THEN Fail("kill")
       ELSE /\ Answered("kill") /\ pc' = "inspect" /\ completion' = "TIMED_OUT"
            /\ UNCHANGED << exit_code, interrupted, outcome >>

Wait(fails) ==
    /\ pc = "wait"
    /\ IF fails THEN Fail("wait")
       ELSE /\ Answered("wait") /\ pc' = "inspect" /\ exit_code' = container.code
            /\ UNCHANGED << completion, interrupted, outcome >>

\* Mutant of Inspect: the result is kept although the inspect failed.
InspectLenient(fails) ==
    /\ pc = "inspect" /\ pc' = "rm"
    /\ Unanswered("inspect")
    /\ UNCHANGED << exit_code, interrupted, outcome >>
    /\ completion' = IF completion = "TIMED_OUT" THEN "TIMED_OUT"
                     ELSE IF ~fails /\ container.oom THEN "MEMORY_LIMIT" ELSE "NORMAL"

\* The last inspect and the result made of it.  SandboxResult also refuses output
\* that only looks truncated, which is up to the tests.
Inspect(fails) ==
    /\ pc = "inspect" /\ pc' = "rm"
    /\ UNCHANGED << exit_code, interrupted, outcome >>
    /\ IF fails THEN Unanswered("inspect") /\ completion' = None
       ELSE /\ Answered("inspect")
            /\ completion' = IF completion = "TIMED_OUT" THEN "TIMED_OUT"
                             ELSE IF container.oom THEN "MEMORY_LIMIT" ELSE "NORMAL"

\* Mutant of Rm: a failed removal is not reported when there is a result.
RmLenient(fails) ==
    /\ pc = "rm"
    /\ IF fails THEN Unanswered("rm") ELSE Answered("rm")
    /\ Finish(IF interrupted THEN "interrupted"
              ELSE IF completion # None THEN "returned"
              ELSE IF fails THEN "cleanup_error" ELSE "execution_error")
    /\ UNCHANGED << exit_code, completion, interrupted >>

\* The finally clause.  A failing removal replaces whatever was on its way.
Rm(fails) ==
    /\ pc = "rm"
    /\ IF fails THEN Unanswered("rm") ELSE Answered("rm")
    /\ Finish(IF fails THEN "cleanup_error"
              ELSE IF interrupted THEN "interrupted"
              ELSE IF completion = None THEN "execution_error" ELSE "returned")
    /\ UNCHANGED << exit_code, completion, interrupted >>

\* A KeyboardInterrupt during a call, which the daemon may still carry out.
CallOf(step) ==
    IF step = "raced_inspect" THEN "inspect" ELSE IF step = "attached" THEN "wait" ELSE step

Interrupt ==
    /\ pc # "done"
    /\ interrupted' = TRUE
    /\ Unanswered(CallOf(pc))
    /\ IF pc \in { "info", "rm" } THEN Finish("interrupted")
       ELSE pc' = "rm" /\ UNCHANGED outcome
    /\ UNCHANGED << exit_code, completion >>

\* The container lives its own life.
ContainerEnds == Ends /\ UNCHANGED << pc, exit_code, completion, interrupted, outcome >>

Init ==
    /\ container = NoContainer
    /\ pc = "info"
    /\ exit_code = NoCode /\ completion = None
    /\ interrupted = FALSE
    /\ outcome = None

Step(fails) ==
    \/ Info(fails) \/ Create(fails) \/ Start(fails) \/ Attached(fails) \/ RacedInspect(fails)
    \/ Kill(fails) \/ Wait(fails) \/ Inspect(fails) \/ Rm(fails)

Next == Step(FALSE) \/ Step(TRUE) \/ Interrupt \/ ContainerEnds

\* The daemon answers what it can answer, and the deadline of an attached start
\* expires; the tests need never end, and nothing need ever fail.
Spec == Init /\ [][Next]_vars /\ WF_vars(Step(FALSE))

-----------------------------------------------------------------------------
(* BaselineExecutor.run, for the evidence the runner returned.              *)

BaselineVerdict ==
    IF outcome # "returned" \/ completion # "NORMAL" THEN "INFRASTRUCTURE_DIAGNOSTIC"
    ELSE IF exit_code = 0 THEN "NOT_REPRODUCIBLE" ELSE "REPRODUCED_FAILURE"

-----------------------------------------------------------------------------
(* Properties.                                                              *)

TypeOK ==
    /\ container \in Container
    /\ pc \in Call \cup { "done" }
    /\ exit_code \in ExitCodes \cup { NoCode, 0, StartFailure, KillCode }
    /\ completion \in { None, "NORMAL", "TIMED_OUT", "MEMORY_LIMIT" }
    /\ interrupted \in BOOLEAN
    /\ outcome \in { None, "returned", "validation_error", "execution_error", "cleanup_error",
                     "interrupted" }

\* A baseline verdict is the container's own: it ended by itself, with that exit
\* code, without running out of memory, whichever way the race between the
\* deadline and the end of the tests went.  A timeout is reported only for tests
\* that the runner itself stopped.
VerdictIsTheContainers ==
    /\ BaselineVerdict # "INFRASTRUCTURE_DIAGNOSTIC" =>
           /\ ~container.killed /\ ~container.oom
           /\ exit_code = container.code
    /\ outcome = "returned" /\ completion = "TIMED_OUT" =>
           container.killed /\ exit_code = NoCode

\* Whatever execute returns or raises, the container is gone, unless the caller
\* is told that it could not be removed, or the removal itself was interrupted: no
\* failure and no earlier interrupt, not even one during create, skips it.
NothingLeftBehind ==
    [][outcome = None /\ outcome' # None /\ container'.state # "absent" =>
         pc = "rm" /\ outcome' \in { "cleanup_error", "interrupted" }]_vars

\* The runner can only hang on tests that never end.
HangsOnlyWithTheTests == <>[](container.state # "running") => <>(pc = "done")

\* docs/specs/0.1-010a-routing-and-cli.md:200: "Preserve KeyboardInterrupt
\* semantics as exit 130 without converting it into an ordinary repair outcome".
InterruptIsKept == interrupted /\ pc = "done" => outcome = "interrupted"
=============================================================================
