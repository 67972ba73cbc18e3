---------------------------- MODULE StaticChecks ----------------------------
(***************************************************************************)
(* StaticValidationService.validate (app/agent/static_checks.py) around the *)
(* runner of StaticRunner: the approved patch is applied to a private copy  *)
(* of the prepared repository, the checks run on the copy in a container,   *)
(* and only a copy that passed all of them is published as the candidate.   *)
(*                                                                         *)
(* Others may change the repository and the copy at any time.  A change     *)
(* shows in every later snapshot, which has the files' modification times;  *)
(* it shows in a fingerprint only if the content is another.                *)
(***************************************************************************)
EXTENDS StaticRunner, StaticReport

CONSTANT MaxEdits       \* bound: the changes by others

ASSUME StaticChecksAssumption == MaxEdits \in Nat

VARIABLES
    step,           \* where validate is
    check,          \* which look at the prepared repository is going on
    source,         \* the changes of the prepared repository so far
    altered,        \* its content is not the fingerprinted one
    pristine,       \* its first snapshot: the value of source then
    candidate,      \* the changes of the copy by others
    place,          \* where the copy is: "none", "staging", "published"
    target,         \* the directory that validate would remove, or None
    taken,          \* the first snapshot of the copy: the value of candidate then
    reread,         \* the snapshot of the published copy
    python,         \* the patch leaves changed Python files
    report,         \* of the program in the container, or NoReport
    checks,         \* the status of each check
    result          \* what validate is about to return

others == << source, altered, candidate >>
copy == << place, target >>
seen == << pristine, taken, reread, python >>
service == << step, check, others, copy, seen, checks, result >>
runner == << container, pc, expired, codes, primary, process_control, outcome >>
allVars == << service, runner, report >>

PatchApply == 1
ChangedFiles == 2
Language == 3..(2 + SyntaxChecks + ToolChecks)
Check == 1..2 \cup Language
CheckStatus == { "PASSED", "FAILED", "NOT_APPLICABLE", "NOT_RUN", "INFRASTRUCTURE_ERROR" }
DiagnosticCode == { "INVALID_INPUT", "PREPARATION_INVALID", "WORKSPACE_INVALID",
                    "FILESYSTEM_FAILED", "STATIC_RUNNER_FAILED", "INTEGRITY_FAILED",
                    "CLEANUP_FAILED" }

-----------------------------------------------------------------------------
(* The results and their validator.                                         *)

StatusesOf(cs) == { cs[i] : i \in DOMAIN cs }

\* StaticValidationResult.validate_outcome.
ResultValid(cs, how) ==
    LET language == { cs[i] : i \in Language }
    IN  /\ "NOT_APPLICABLE" \notin { cs[PatchApply], cs[ChangedFiles] }
        /\ "NOT_APPLICABLE" \in language => language = { "NOT_APPLICABLE" }
        /\ how = "PASSED" =>
               /\ StatusesOf(cs) \subseteq { "PASSED", "NOT_APPLICABLE" }
               /\ Cardinality(language) = 1
        /\ how = "CANDIDATE_FAILED" =>
               "FAILED" \in StatusesOf(cs) /\ "INFRASTRUCTURE_ERROR" \notin StatusesOf(cs)
        /\ how = "INFRASTRUCTURE_DIAGNOSTIC" => "INFRASTRUCTURE_ERROR" \in StatusesOf(cs)

\* The first check that has one of these statuses takes the blame, or the first
\* of all.
Marked(cs, statuses) ==
    LET has == { i \in Check : cs[i] \in statuses }
        first == IF has = {} THEN 1 ELSE CHOOSE i \in has : \A j \in has : i <= j
    IN  [cs EXCEPT ![first] = "INFRASTRUCTURE_ERROR"]

\* Mutant of Blamed: the last check takes the blame.
BlamedLast(cs) ==
    IF "INFRASTRUCTURE_ERROR" \in StatusesOf(cs) THEN cs
    ELSE [cs EXCEPT ![2 + SyntaxChecks + ToolChecks] = "INFRASTRUCTURE_ERROR"]

\* _infrastructure_result.
Blamed(cs) ==
    IF "INFRASTRUCTURE_ERROR" \in StatusesOf(cs) THEN cs ELSE Marked(cs, { "NOT_RUN" })

Answer(how, code) == [ outcome |-> how, code |-> code ]

\* A result that its validator accepts is returned once the copy is removed.
SettleBy(remove, cs, how, code) ==
    /\ step' = IF target = None THEN "done" ELSE remove
    /\ checks' = cs /\ result' = Answer(how, code)

\* The last except clause of validate; nothing catches what it raises.
Handle(cs) ==
    IF ResultValid(Blamed(cs), "INFRASTRUCTURE_DIAGNOSTIC")
    THEN SettleBy("remove_late", Blamed(cs), "INFRASTRUCTURE_DIAGNOSTIC", "FILESYSTEM_FAILED")
    ELSE step' = "done" /\ UNCHANGED checks /\ result' = Answer("raised", None)

\* _cleanup_or_result.
Settle(cs, how, code) ==
    IF ResultValid(cs, how) THEN SettleBy("remove", cs, how, code) ELSE Handle(cs)

Diagnose(cs, code) == Settle(Blamed(cs), "INFRASTRUCTURE_DIAGNOSTIC", code)
Reject(cs) == Settle(cs, "CANDIDATE_FAILED", None)
With(i, status) == [checks EXCEPT ![i] = status]
Go(next) == step' = next /\ UNCHANGED << checks, result >>

-----------------------------------------------------------------------------
(* LocalStaticFilesystem.                                                   *)

MakeDirectory(ok) == place' \in (IF ok THEN { "staging" } ELSE { "none", "staging" })

Rename(ok) == place' \in (IF ok THEN { "published" } ELSE { place, "published" })

\* The directory that is removed must be where validate takes it to be.
RemoveTree(ok) == IF ok THEN place = target /\ place' = "none" ELSE UNCHANGED place

-----------------------------------------------------------------------------
(* validate.                                                                *)

Request ==
    /\ step = "request" /\ UNCHANGED << others, copy, seen >>
    /\ \/ Go("snapshot") /\ check' = "preparation"
       \/ Diagnose(checks, "INVALID_INPUT") /\ UNCHANGED check

\* What a look at the prepared repository leads to: the first one's two
\* readings, one after the copying, one after the checks, one after publication.
Failing ==
    \/ check = "preparation" /\ Diagnose(checks, "PREPARATION_INVALID")
    \/ check = "copied" /\ Diagnose(checks, "WORKSPACE_INVALID")
    \/ check = "integrity" /\ Diagnose(With(ChangedFiles, "INFRASTRUCTURE_ERROR"), "INTEGRITY_FAILED")
    \/ check = "last" /\ Diagnose(checks, "INTEGRITY_FAILED")

Judge ==
    IF "INFRASTRUCTURE_ERROR" \in StatusesOf(checks)
    THEN Diagnose(checks, "STATIC_RUNNER_FAILED")
    ELSE IF "FAILED" \in StatusesOf(checks) THEN Reject(checks)
    ELSE Go("publish")

Passing ==
    \/ check = "preparation" /\ Go("mkdir") /\ UNCHANGED target
    \/ check = "copied" /\ Go("apply") /\ UNCHANGED target
    \/ check = "integrity" /\ Judge /\ UNCHANGED target
    \/ /\ check = "last"
       /\ target' = None /\ step' = "done"
       /\ IF ResultValid(checks, "PASSED")
          THEN result' = Answer("PASSED", None) /\ UNCHANGED checks
          ELSE /\ result' = Answer("INFRASTRUCTURE_DIAGNOSTIC", "FILESYSTEM_FAILED")
               /\ checks' = Blamed(checks)

\* A snapshot of the prepared repository, which may fail; the first one is the
\* one that is copied.
Snapshot ==
    /\ step = "snapshot" /\ UNCHANGED << check, others, copy, taken, reread, python >>
    /\ pristine' = IF check = "preparation" THEN source ELSE pristine
    /\ \/ Failing
       \/ (IF check = "preparation" THEN ~altered ELSE source = pristine) /\ Go("fingerprint")

Fingerprint ==
    /\ step = "fingerprint" /\ UNCHANGED << check, others, place, seen >>
    /\ \/ Failing /\ UNCHANGED target
       \/ ~altered /\ Passing

Mkdir ==
    /\ step = "mkdir" /\ UNCHANGED << check, others, seen >>
    /\ \/ MakeDirectory(TRUE) /\ target' = "staging" /\ Go("copy")
       \/ MakeDirectory(FALSE) /\ UNCHANGED target /\ Diagnose(checks, "WORKSPACE_INVALID")

Copy ==
    /\ step = "copy" /\ UNCHANGED << others, copy, seen >>
    /\ \/ Go("snapshot") /\ check' = "copied"
       \/ Diagnose(checks, "WORKSPACE_INVALID") /\ UNCHANGED check

\* _apply_patch: every hunk fits the pristine snapshot, or one does not and
\* nothing more is written; writing may fail.
Apply ==
    /\ step = "apply" /\ UNCHANGED << check, others, copy, seen >>
    /\ \/ step' = "changed" /\ checks' = With(PatchApply, "PASSED") /\ UNCHANGED result
       \/ Reject(With(PatchApply, "FAILED"))
       \/ Diagnose(With(PatchApply, "INFRASTRUCTURE_ERROR"), "FILESYSTEM_FAILED")

\* The first snapshot of the copy.  It differs from the pristine one in the patch's
\* paths, some of them Python files or none, or in other paths.
Changed ==
    /\ step = "changed" /\ UNCHANGED << check, others, copy, pristine, reread >>
    /\ taken' = candidate
    /\ \/ /\ python' = TRUE /\ step' = "run" /\ UNCHANGED result
          /\ checks' = With(ChangedFiles, "PASSED")
       \/ /\ python' = FALSE /\ step' = "candidate" /\ UNCHANGED result
          /\ checks' = [i \in Check |-> IF i \in Language THEN "NOT_APPLICABLE" ELSE "PASSED"]
       \/ python' = FALSE /\ Reject(With(ChangedFiles, "FAILED"))
       \/ UNCHANGED python
          /\ Diagnose(With(ChangedFiles, "INFRASTRUCTURE_ERROR"), "FILESYSTEM_FAILED")

\* What the attached client has of the report; it is lost with its connection, and
\* when the runner fails.
Collected == IF primary' = None /\ attached_code' \in { NoCode, 0 } THEN report ELSE NoReport

\* While the runner is at work.  It accepts a report if nothing else was written.
RunnerStep ==
    /\ step = "run" /\ Step /\ UNCHANGED service
    /\ report' = Collected
    /\ pc = "inspect" /\ pc' = "rm" /\ primary' = None => report.written /\ ~report.noisy

\* The program ends, with its report if it ended by itself.
ChecksEnd ==
    /\ ContainerEnds /\ UNCHANGED service
    /\ report' \in IF pc = "attached" /\ container'.code = 0 THEN Reports ELSE { report }

RunnerInterrupt == step = "run" /\ Interrupt /\ UNCHANGED service /\ report' = NoReport
TimeElapses == step = "run" /\ Elapse /\ UNCHANGED << service, report >>

RunnerFailed ==
    Diagnose([i \in Check |-> IF i \in Language THEN "INFRASTRUCTURE_ERROR" ELSE checks[i]],
             "STATIC_RUNNER_FAILED")

\* execute refuses the copy, the paths or its container's name.
RunnerRefuses ==
    /\ step = "run" /\ pc \in { "info", "create" } /\ RunnerFailed
    /\ UNCHANGED << check, others, copy, seen, runner, report >>

\* _map_tool_result; of the report only whether it was clean is remembered.
RunnerReturns ==
    /\ step = "run" /\ pc = "done" /\ outcome # "interrupted"
    /\ UNCHANGED << check, others, copy, seen, runner >>
    /\ report' = [NoReport EXCEPT !.clean = report.clean]
    /\ IF outcome = "result"
       THEN /\ step' = "candidate" /\ UNCHANGED result
            /\ checks' = [i \in Check |-> IF i \in Language THEN report.statuses[i - 2] ELSE checks[i]]
       ELSE RunnerFailed

\* The copy is still the one of the first snapshot.
Integrity ==
    /\ step = "candidate" /\ UNCHANGED << others, copy, seen >>
    /\ check' = "integrity"
    /\ \/ candidate = taken /\ Go("snapshot")
       \/ Diagnose(With(ChangedFiles, "INFRASTRUCTURE_ERROR"), "INTEGRITY_FAILED")

\* A publish that fails may have renamed the directory.
Publish ==
    /\ step = "publish" /\ UNCHANGED << check, others, seen >>
    /\ \/ Rename(TRUE) /\ target' = "published" /\ Go("reread")
       \/ Rename(FALSE) /\ UNCHANGED target /\ Diagnose(checks, "INTEGRITY_FAILED")

\* Mutant of Reread: the published copy is taken to be the checked one.
RereadBlind ==
    /\ step = "reread" /\ UNCHANGED << others, copy, pristine, taken, python >>
    /\ check' = "last" /\ reread' = candidate
    /\ Go("snapshot")

Reread ==
    /\ step = "reread" /\ UNCHANGED << others, copy, pristine, taken, python >>
    /\ check' = "last" /\ reread' = candidate
    /\ \/ candidate = taken /\ Go("snapshot")
       \/ Diagnose(checks, "INTEGRITY_FAILED")

\* Mutant of RemoveCopy: a removal that failed is not told.
RemoveCopyQuietly ==
    /\ step \in { "remove", "remove_late" } /\ UNCHANGED << check, others, target, seen >>
    /\ \E ok \in BOOLEAN : RemoveTree(ok)
    /\ Go("done")

\* A removal that fails replaces the result.
RemoveCopy ==
    /\ step \in { "remove", "remove_late" } /\ UNCHANGED << check, others, target, seen >>
    /\ \/ RemoveTree(TRUE) /\ Go("done")
       \/ /\ RemoveTree(FALSE) /\ step' = "done"
          /\ checks' = Marked(checks, { "NOT_RUN", "PASSED" })
          /\ result' = Answer("INFRASTRUCTURE_DIAGNOSTIC", "CLEANUP_FAILED")

\* The handler of an interrupt.
RemoveInterrupted ==
    /\ step = "remove_interrupted" /\ step' = "done"
    /\ \E ok \in BOOLEAN : RemoveTree(ok)
    /\ result' = Answer("interrupted", None)
    /\ UNCHANGED << check, others, target, seen, checks >>

\* Anything else that is raised in the try statement.
Breaks ==
    /\ step \in { "request", "snapshot", "fingerprint", "mkdir", "copy", "apply", "changed",
                  "candidate", "publish", "reread" }
    /\ Handle(checks)
    /\ UNCHANGED << check, others, copy, seen >>

\* Mutant of InterruptValidate: an interrupted runner is a failed one.
InterruptValidateAsFailure ==
    /\ step = "run" => pc = "done" /\ outcome = "interrupted"
    /\ step # "done"
    /\ IF step = "run" THEN RunnerFailed
       ELSE step' = "done" /\ result' = Answer("interrupted", None) /\ UNCHANGED checks
    /\ UNCHANGED << check, others, copy, seen >>

\* A KeyboardInterrupt or SystemExit, perhaps when the call has taken effect; in
\* the runner, it comes from there.
InterruptValidate ==
    /\ step # "done" /\ (step = "run" => pc = "done" /\ outcome = "interrupted")
    /\ IF target = None \/ step \in { "remove_late", "remove_interrupted" }
       THEN step' = "done" /\ result' = Answer("interrupted", None)
       ELSE step' = "remove_interrupted" /\ UNCHANGED result
    /\ \/ step = "mkdir" /\ MakeDirectory(FALSE)
       \/ step = "publish" /\ Rename(FALSE)
       \/ step \notin { "mkdir", "publish" } /\ UNCHANGED place
    /\ UNCHANGED << check, others, target, seen, checks >>

\* Somebody changes the repository, or the copy.
Edit ==
    /\ step # "done" /\ source + candidate < MaxEdits
    /\ \/ source' = source + 1 /\ altered' \in BOOLEAN /\ UNCHANGED candidate
       \/ place # "none" /\ candidate' = candidate + 1 /\ UNCHANGED << source, altered >>
    /\ UNCHANGED << step, check, copy, seen, checks, result >>

ChecksInit ==
    /\ Init
    /\ step = "request" /\ check = "preparation"
    /\ source = 0 /\ altered \in BOOLEAN /\ pristine = 0
    /\ candidate = 0 /\ taken = 0 /\ reread = 0
    /\ place = "none" /\ target = None
    /\ python = FALSE /\ report = NoReport
    /\ checks = [i \in Check |-> "NOT_RUN"]
    /\ result = Answer(None, None)

ServiceStep ==
    \/ Request \/ Snapshot \/ Fingerprint \/ Mkdir \/ Copy \/ Apply \/ Changed \/ Integrity
    \/ Publish \/ Reread \/ RemoveCopy \/ RemoveInterrupted

Progress == (ServiceStep /\ UNCHANGED << runner, report >>) \/ RunnerStep \/ RunnerReturns
                \/ (step = "run" /\ InterruptValidate /\ UNCHANGED << runner, report >>)

ChecksNext ==
    \/ Progress \/ RunnerInterrupt \/ TimeElapses \/ ChecksEnd \/ RunnerRefuses
    \/ (InterruptValidate \/ Breaks \/ Edit) /\ UNCHANGED << runner, report >>

\* validate goes on, and so does the runner; see StaticRunner.
ChecksSpec == ChecksInit /\ [][ChecksNext]_allVars /\ WF_allVars(Progress)

-----------------------------------------------------------------------------
(* Properties.                                                              *)

\* A verdict that rests on the checks is one on the fingerprinted repository and on
\* what ran to its end by itself in a container, if Python files changed; and what
\* validate passes is, besides, a published copy that nobody touched from its first
\* snapshot to the one after publication.
VerdictIsOnTheCopy ==
    [][/\ result.outcome = None /\ result'.outcome \in { "PASSED", "CANDIDATE_FAILED" }
       /\ checks'[ChangedFiles] = "PASSED"
       => /\ ~altered
          /\ IF python THEN /\ container.ran /\ ~container.killed /\ ~container.oom
                            /\ container.code = 0
             ELSE ~container.ran
          /\ result'.outcome = "PASSED" =>
                reread = taken /\ place = "published" /\ checks = checks']_allVars

\* What passes with changed Python files has a report of a program and tools with
\* which nothing was wrong, and that found nothing: whatever is cut off, missing,
\* too long or unreadable on the way is never taken for a pass.
PassesOnlyTheClean == result.outcome = "PASSED" /\ python => report.clean

\* validate answers with one of its results, whatever its boundaries do: the blame
\* is never put where its own validator refuses it.
AlwaysAnswers == result.outcome # "raised"

\* Of the copy nothing stays but a published candidate, unless a removal failed
\* and the result says so, validate was interrupted, or the directory could not
\* even be made; and of the container nothing either.
OnlyTheCandidateStays ==
    /\ NothingLeftBehind
    /\ step = "done" /\ place # "none" =>
           \/ result.outcome = "PASSED" /\ place = "published"
           \/ result.outcome = "interrupted"
           \/ result.code = "CLEANUP_FAILED"
           \/ target = None /\ check = "preparation"

\* An interrupt in the runner ends validate as one, whatever else fails.
InterruptEndsValidate == process_control /\ step = "done" => result.outcome = "interrupted"

\* validate returns, whether or not the checks ever end.
Validates == step # "request" ~> step = "done"
=============================================================================
