---------------------------- MODULE StaticRunner ----------------------------
(***************************************************************************)
(* DockerStaticRunner.execute (app/sandbox/static_runner.py), past the      *)
(* validation of its arguments: the static checks in one container.  All    *)
(* Docker calls but the removal share one deadline, so every call returns:  *)
(* it is answered, fails, is cut off at its time limit, finds no time left, *)
(* or is interrupted.                                                       *)
(***************************************************************************)
EXTENDS DockerDaemon

CONSTANT EarlyTimeouts  \* a call may be cut off before the runner's own clock says so

ASSUME EarlyTimeoutsAssumption == EarlyTimeouts \in BOOLEAN

VARIABLES
    pc,             \* the Docker call the runner makes next, or "done"
    expired,        \* the limit has elapsed since the clock was started
    attached_code,  \* the exit code of the attached client, or NoCode
    exit_code,      \* what docker wait reported, or NoCode
    primary,        \* the error on its way out, or None
    process_control,
    outcome         \* "result", an error code, "interrupted", or None

codes == << attached_code, exit_code >>
vars == << container, pc, expired, codes, primary, process_control, outcome >>

Call == { "info", "create", "start", "attached", "raced_inspect", "kill", "wait", "inspect", "rm" }
ErrorCode == { "TIMED_OUT", "DOCKER_FAILED", "DAEMON_SECURITY", "MEMORY_LIMIT",
               "UNEXPECTED_EXIT", "MALFORMED_RESULT", "CLEANUP_FAILED" }

-----------------------------------------------------------------------------
(* A call that is given the time that remains: the four ways it ends.       *)

Answers(call) == ~expired /\ Answered(call) /\ UNCHANGED expired
Fails(call) == ~expired /\ Unanswered(call) /\ UNCHANGED expired
CutOff(call) == ~expired /\ Unanswered(call) /\ expired' \in { TRUE, ~EarlyTimeouts }
NoTime == expired /\ UNCHANGED << container, expired >>

\* Where the runner goes from there.
Proceed(next) == pc' = next /\ UNCHANGED << codes, primary, process_control, outcome >>
Raise(code) == pc' = "rm" /\ primary' = code /\ UNCHANGED << codes, process_control, outcome >>
Finish(how) == pc' = "done" /\ outcome' = how

\* The except clauses of execute.
Fail(call) ==
    \/ Fails(call) /\ Raise("DOCKER_FAILED")
    \/ (CutOff(call) \/ NoTime) /\ Raise("TIMED_OUT")

-----------------------------------------------------------------------------
\* _validate_daemon_security, before the try statement.
Info ==
    /\ pc = "info"
    /\ UNCHANGED << codes, primary, process_control >>
    /\ \/ Answers("info") /\ pc' = "create" /\ UNCHANGED outcome
       \/ Fails("info") /\ Finish("DAEMON_SECURITY")
       \/ (CutOff("info") \/ NoTime) /\ Finish("TIMED_OUT")

Create ==
    /\ pc = "create"
    /\ (Answers("create") /\ Proceed("start")) \/ Fail("create")

\* start --attach, until the container runs.  A client that cannot be invoked is
\* a failure; one that exits with an error is not (check=False), and leads to wait.
Start ==
    /\ pc = "start"
    /\ \/ Answers("start") /\ Proceed("attached")
       \/ CutOff("start") /\ Proceed("raced_inspect")
       \/ Fails("start") /\ Raise("DOCKER_FAILED")
       \/ NoTime /\ Raise("TIMED_OUT")
       \/ /\ ~expired /\ StartRefused /\ attached_code' = 1 /\ pc' = "wait"
          /\ UNCHANGED << expired, exit_code, primary, process_control, outcome >>

\* start --attach, while the client is attached; it was given the time that was
\* left when it was started.
AttachedEnds ==
    /\ \/ container.state = "exited" /\ attached_code' = container.code
       \/ attached_code' = 1            \* the client lost its connection
    /\ pc' = "wait"
    /\ UNCHANGED << expired, exit_code, primary, process_control, outcome >>

\* Mutant of Attached: the attached client is given no time limit.
AttachedUnlimited ==
    /\ pc = "attached" /\ UNCHANGED container
    /\ container.state = "exited" /\ AttachedEnds

Attached ==
    /\ pc = "attached" /\ UNCHANGED container
    /\ \/ AttachedEnds
       \/ /\ expired' \in { TRUE, ~EarlyTimeouts } /\ (expired => expired')
          /\ Proceed("raced_inspect")

\* After a cut-off; _inspect turns the error of a spent deadline into another.
RacedInspect ==
    /\ pc = "raced_inspect"
    /\ \/ /\ Answers("inspect")
          /\ IF container.state = "running" THEN Proceed("kill") ELSE Raise("TIMED_OUT")
       \/ (Fails("inspect") \/ NoTime) /\ Raise("DOCKER_FAILED")
       \/ CutOff("inspect") /\ Raise("TIMED_OUT")

\* The checks may end before the kill, which then fails.
Kill ==
    /\ pc = "kill"
    /\ (Answers("kill") /\ Raise("TIMED_OUT")) \/ Fail("kill")

\* _parse_exit_code takes an answer that is no number for a failure of Docker.
Wait ==
    /\ pc = "wait"
    /\ \/ /\ Answers("wait") /\ pc' = "inspect" /\ exit_code' = container.code
          /\ UNCHANGED << attached_code, primary, process_control, outcome >>
       \/ Answers("wait") /\ Raise("DOCKER_FAILED")
       \/ Fail("wait")

\* The last inspect, the checks of what was collected, in their order, and a last
\* look at the clock.  The output can be malformed in any run.
Inspect ==
    /\ pc = "inspect"
    /\ \/ /\ Answers("inspect")
          /\ \/ container.oom /\ Raise("MEMORY_LIMIT")
             \/ ~container.oom /\ (attached_code # 0 \/ exit_code # 0) /\ Raise("UNEXPECTED_EXIT")
             \/ /\ ~container.oom /\ attached_code = 0 /\ exit_code = 0
                /\ Raise("MALFORMED_RESULT") \/ Proceed("rm")
       \/ ~expired /\ Answered("inspect") /\ expired' = TRUE
          /\ ~container.oom /\ attached_code = 0 /\ exit_code = 0 /\ Raise("TIMED_OUT")
       \/ (Fails("inspect") \/ NoTime) /\ Raise("DOCKER_FAILED")
       \/ CutOff("inspect") /\ Raise("TIMED_OUT")

\* The finally clause, with a time limit of its own.  A removal that fails, or is
\* cut off, replaces everything but an interrupt.
Rm ==
    /\ pc = "rm"
    /\ \/ Answered("rm") /\ Finish(IF process_control THEN "interrupted"
                                   ELSE IF primary # None THEN primary ELSE "result")
       \/ Unanswered("rm") /\ Finish(IF process_control THEN "interrupted" ELSE "CLEANUP_FAILED")
    /\ UNCHANGED << expired, codes, primary, process_control >>

\* A KeyboardInterrupt during a call, which the daemon may still carry out.
CallOf(step) ==
    IF step = "raced_inspect" THEN "inspect" ELSE IF step = "attached" THEN "wait" ELSE step

Interrupt ==
    /\ pc # "done"
    /\ process_control' = TRUE
    /\ Unanswered(CallOf(pc))
    /\ IF pc \in { "info", "rm" } THEN Finish("interrupted")
       ELSE pc' = "rm" /\ UNCHANGED outcome
    /\ UNCHANGED << expired, codes, primary >>

ContainerEnds ==
    Ends /\ UNCHANGED << pc, expired, codes, primary, process_control, outcome >>

\* The limit elapses.
Elapse ==
    /\ ~expired /\ pc # "done" /\ expired' = TRUE
    /\ UNCHANGED << container, pc, codes, primary, process_control, outcome >>

Init ==
    /\ container = NoContainer
    /\ pc = "info" /\ expired = FALSE
    /\ attached_code = NoCode /\ exit_code = NoCode /\ primary = None
    /\ process_control = FALSE
    /\ outcome = None

Step ==
    \/ Info \/ Create \/ Start \/ Attached \/ RacedInspect \/ Kill \/ Wait \/ Inspect \/ Rm

Next == Step \/ Interrupt \/ ContainerEnds \/ Elapse

\* Every call ends, if only because the client is killed at its time limit; the
\* checks need never end.
Spec == Init /\ [][Next]_vars /\ WF_vars(Step)

-----------------------------------------------------------------------------
(* Properties.                                                              *)

TypeOK ==
    /\ container \in Container
    /\ pc \in Call \cup { "done" }
    /\ expired \in BOOLEAN /\ process_control \in BOOLEAN
    /\ attached_code \in ExitCodes \cup { NoCode, 0, 1, StartFailure, KillCode }
    /\ exit_code \in ExitCodes \cup { NoCode, 0, StartFailure, KillCode }
    /\ primary \in ErrorCode \cup { None }
    /\ outcome \in ErrorCode \cup { None, "result", "interrupted" }

\* Whatever execute returns or raises, the container is gone, unless the caller is
\* told that it could not be removed (or the run was interrupted).
NothingLeftBehind ==
    outcome \notin { None, "CLEANUP_FAILED", "interrupted" } => container.state = "absent"

\* tests/unit/test_static_runner.py:334: an attach that exceeds the deadline is
\* TIMED_OUT (StaticRunnerErrorCode.TIMED_OUT); a spent deadline is not a failure
\* of Docker.
SpentDeadlineIsTimeout == [][expired /\ primary = None => primary' # "DOCKER_FAILED"]_vars
=============================================================================
