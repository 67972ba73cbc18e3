---------------------------- MODULE Verification ----------------------------
(***************************************************************************)
(* VerificationService.verify with its sandbox boundary in place: every     *)
(* stage is a run of VerificationSandboxRunner.  The composition implements *)
(* VerificationService, whose Execute allows any answer of a runner.        *)
(***************************************************************************)
EXTENDS VerificationService

CONSTANT ExitCodes

VARIABLES container, step, created, exit_code, completion, primary, process_control, ended

service == << changes, edited, bundle, pc, inspection, run, cleanup, result >>
runner == << container, step, created, exit_code, completion, primary, process_control, ended >>

Runner == INSTANCE VerificationRunner WITH pc <- step, outcome <- ended

-----------------------------------------------------------------------------
\* verify waits for the runner, or is at work itself.
RunnerStep(fails) == pc = "run" /\ Runner!Step(fails) /\ UNCHANGED service
RunnerInterrupt == pc = "run" /\ Runner!Interrupt /\ UNCHANGED service
TestsEnd == Runner!ContainerEnds /\ UNCHANGED service

ServiceStep == pc # "run" /\ Step /\ UNCHANGED runner
ServiceInterrupt == pc # "run" /\ Interrupt /\ UNCHANGED runner
Changed == Change /\ UNCHANGED runner

\* Mutant of Diagnosed: the runner's code is passed on.
DiagnosedRaw == ended

\* _runner_diagnostic.
Diagnosed ==
    IF ended = "DAEMON_SECURITY" THEN "SANDBOX_VALIDATION_FAILED"
    ELSE IF ended = "MALFORMED_RESULT" THEN "MALFORMED_SANDBOX_RESULT"
    ELSE IF ended = "CLEANUP_FAILED" THEN "SANDBOX_CLEANUP_FAILED"
    ELSE "SANDBOX_EXECUTION_FAILED"

\* The evidence, as verify tells it apart.
Observed ==
    IF completion # "NORMAL" THEN completion ELSE IF exit_code = 0 THEN "ZERO" ELSE "NONZERO"

\* The next stage has a container of its own.
Fresh ==
    /\ container' = Runner!NoContainer
    /\ step' = "info" /\ created' = FALSE
    /\ exit_code' = Runner!NoCode /\ completion' = None /\ primary' = None
    /\ process_control' = FALSE /\ ended' = None

\* _execute_stage gets the runner's evidence, its error, or an interrupt.
RunnerReturns ==
    /\ pc = "run" /\ step = "done" /\ Fresh
    /\ \/ ended = "interrupted" /\ Interrupt
       \/ ended = "evidence" /\ Executed(Observed, None)
       \/ ended \notin { "interrupted", "evidence" } /\ Executed(None, Diagnosed)

VerifyInit == Init /\ Runner!Init

Progress == RunnerStep(FALSE) \/ ServiceStep \/ RunnerReturns

VerifyNext ==
    \/ Progress \/ RunnerStep(TRUE) \/ RunnerInterrupt \/ TestsEnd
    \/ ServiceInterrupt \/ Changed

\* As in VerificationRunner and VerificationService.
VerifySpec == VerifyInit /\ [][VerifyNext]_<< service, runner >> /\ WF_<< service, runner >>(Progress)

-----------------------------------------------------------------------------
(* Properties.                                                              *)

\* The runner answers only what verify expects of it.
ImplementsService == Spec

\* A stage passes or fails by the exit code of a container that was not killed,
\* did not run out of memory, and is gone.
StageIsTheContainers == Runner!StageIsTheContainers

\* An interrupt in a runner is never turned into evidence or an error, whatever
\* else fails, and so is none in verify.
InterruptIsKept == Runner!InterruptIsKept

\* A container that the runner knows it created is removed, or its removal is
\* reported as failed, or an interrupt is on its way; no earlier error hides it.
KnownContainerIsRemoved == Runner!KnownContainerIsRemoved

\* verify can only hang on tests that never end.
HangsOnlyWithTheTests == <>[](container.state # "running") => <>(pc = "done")
=============================================================================
