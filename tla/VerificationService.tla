------------------------ MODULE VerificationService ------------------------
(***************************************************************************)
(* VerificationService.verify (app/agent/verification.py): three test       *)
(* stages over one candidate, which others may change under its feet; the   *)
(* candidate is inspected again after every stage, and the hidden tests     *)
(* are on disk only while the last stage needs them.                        *)
(*                                                                         *)
(* Every change of the candidate is taken to show in the identity that     *)
(* inspect_candidate computes (from the modification times of its files);  *)
(* its content may be put back, and a change may leave it alone.           *)
(***************************************************************************)
EXTENDS Naturals, FiniteSets

None == "None"

CONSTANT MaxChanges     \* bound: the changes of the candidate that are followed

ASSUME MaxChangesAssumption == MaxChanges \in Nat

VARIABLES
    changes,        \* the changes of the candidate so far, which are its identity
    edited,         \* its content is not the one the static checks passed
    bundle,         \* the hidden tests are on disk
    pc,
    check,          \* which inspection of the candidate is going on
    first,          \* the identity that inspection began with
    initial,        \* the identity of the first inspection
    stage,          \* the stage that is run, or was run last
    evidence,       \* of that stage: see Evidence
    error,          \* its error code, or None
    cleanup,        \* of the bundle: "none" so far, "done", "failed"
    status,         \* of the three stages
    diagnostic,     \* of the stage that blocks, or None
    outcome         \* "PASSED", ..., "raised", "interrupted", or None

candidate == << changes, edited >>
inspection == << check, first, initial >>
run == << stage, evidence, error >>
result == << status, diagnostic, outcome >>
vars == << candidate, bundle, pc, inspection, run, cleanup, result >>

Stage == 1..3           \* targeted tests, visible suite, hidden suite
Status == { "NOT_RUN", "PASSED", "FAILED", "INFRASTRUCTURE_ERROR" }
Check == { "initial", "after_stage", "no_bundle", "before_hidden", "final" }

\* Normal completion with exit code zero or not, or cut short.
Evidence == { "ZERO", "NONZERO", "TIMED_OUT", "MEMORY_LIMIT" }
SandboxCode == { "SANDBOX_VALIDATION_FAILED", "SANDBOX_EXECUTION_FAILED",
                 "SANDBOX_CLEANUP_FAILED", "MALFORMED_SANDBOX_RESULT" }
RequestCode == { "INVALID_INPUT", "STATIC_PREREQUISITE_FAILED", "CASE_LOAD_FAILED",
                 "CASE_MISMATCH", "WORKSPACE_INVALID", "VISIBLE_TEST_INVALID" }
BundleCode == { "EVALUATOR_INVALID", "BUNDLE_FAILED", "CLEANUP_FAILED" }
Code == SandboxCode \cup RequestCode \cup BundleCode
            \cup { "CANDIDATE_INVALID", "INTEGRITY_FAILED", "SANDBOX_TIMED_OUT",
                   "SANDBOX_MEMORY_LIMIT" }

-----------------------------------------------------------------------------
(* The results and their validators.                                        *)

\* VerificationStageResult, for the results that verify builds.
StageResultValid(how, found, code) ==
    IF how = "PASSED" THEN found = "ZERO"
    ELSE IF how = "FAILED" THEN found = "NONZERO"
    ELSE IF code = "SANDBOX_TIMED_OUT" THEN found \in { None, "TIMED_OUT" }
    ELSE IF code = "SANDBOX_MEMORY_LIMIT" THEN found \in { None, "MEMORY_LIMIT" }
    ELSE found \notin { "TIMED_OUT", "MEMORY_LIMIT" }

\* CandidateVerificationResult: the one earliest stage that blocks.
At(stages, how) == { i \in Stage : stages[i] = how }
Blocking(stages) ==
    IF At(stages, "INFRASTRUCTURE_ERROR") # {} THEN At(stages, "INFRASTRUCTURE_ERROR")
    ELSE At(stages, "FAILED")

TopologyValid(stages) ==
    \/ \A i \in Stage : stages[i] = "PASSED"
    \/ \E b \in Stage :
           /\ Blocking(stages) = { b }
           /\ \A i \in Stage : /\ i < b => stages[i] = "PASSED"
                               /\ i > b => stages[i] = "NOT_RUN"

Derived(stages) ==
    IF At(stages, "INFRASTRUCTURE_ERROR") # {} THEN "INFRASTRUCTURE_DIAGNOSTIC"
    ELSE IF At(stages, "FAILED") # {} THEN "CANDIDATE_FAILED"
    ELSE "PASSED"

\* The statuses are final: verify returns, or a validator makes it raise.
Return(stages, code) ==
    /\ pc' = "done"
    /\ status' = stages /\ diagnostic' = code
    /\ outcome' = IF TopologyValid(stages) THEN Derived(stages) ELSE "raised"

\* _infrastructure_result.
Infrastructure(at, code, found) ==
    IF StageResultValid("INFRASTRUCTURE_ERROR", found, code)
    THEN Return([i \in Stage |-> IF i < at THEN status[i]
                                 ELSE IF i = at THEN "INFRASTRUCTURE_ERROR" ELSE "NOT_RUN"], code)
    ELSE pc' = "done" /\ outcome' = "raised" /\ UNCHANGED << status, diagnostic >>

\* _stage_from_evidence, and what verify does with it.
StatusOf(found) ==
    IF found = "ZERO" THEN "PASSED" ELSE IF found = "NONZERO" THEN "FAILED"
    ELSE "INFRASTRUCTURE_ERROR"

CodeOf(found) ==
    IF found = "TIMED_OUT" THEN "SANDBOX_TIMED_OUT"
    ELSE IF found = "MEMORY_LIMIT" THEN "SANDBOX_MEMORY_LIMIT" ELSE None

WithStage == [status EXCEPT ![stage] = StatusOf(evidence)]

-----------------------------------------------------------------------------
(* verify.                                                                  *)

Inspecting(which) == pc' = "first" /\ check' = which /\ UNCHANGED << first, initial >>

\* The request, the case, the workspace and the declared tests are validated.
Validate ==
    /\ pc = "validate"
    /\ UNCHANGED << candidate, bundle, run, cleanup >>
    /\ \/ Inspecting("initial") /\ UNCHANGED result
       \/ \E code \in RequestCode : Infrastructure(1, code, None) /\ UNCHANGED inspection

\* _execute_stage: what the verification runner answered, or raised.
Executed(found, code) ==
    /\ pc = "run"
    /\ evidence' = found /\ error' = code
    /\ IF stage < 3 THEN Inspecting("after_stage") ELSE pc' = "remove" /\ UNCHANGED inspection
    /\ UNCHANGED << candidate, bundle, stage, cleanup, result >>

Execute ==
    \/ \E found \in Evidence : Executed(found, None)
    \/ \E code \in SandboxCode : Executed(None, code)

\* create_bundle: it answers, or rolls the bundle back, or cannot.
CreateBundle ==
    /\ pc = "bundle"
    /\ \/ bundle' = TRUE /\ error' = None /\ Inspecting("before_hidden")
       \/ bundle' = FALSE /\ error' \in BundleCode \ { "CLEANUP_FAILED" } /\ Inspecting("no_bundle")
       \/ bundle' \in BOOLEAN /\ error' = "CLEANUP_FAILED" /\ Inspecting("no_bundle")
    /\ UNCHANGED << candidate, stage, evidence, cleanup, result >>

\* Mutant of RemoveBundle: the bundle is kept for the next run.
RemoveBundleForgotten ==
    /\ pc = "remove"
    /\ UNCHANGED bundle /\ cleanup' = "done"
    /\ Inspecting("final")
    /\ UNCHANGED << candidate, run, result >>

\* The finally clause.
RemoveBundle ==
    /\ pc = "remove"
    /\ \/ bundle' = FALSE /\ cleanup' = "done"
       \/ bundle' \in BOOLEAN /\ cleanup' = "failed"
    /\ Inspecting("final")
    /\ UNCHANGED << candidate, run, result >>

\* The handler of an interrupt while the bundle exists: best effort.
RemoveInterrupted ==
    /\ pc = "remove_interrupted" /\ pc' = "done"
    /\ bundle' \in BOOLEAN
    /\ cleanup' = IF bundle' THEN "failed" ELSE "done"
    /\ outcome' = "interrupted"
    /\ UNCHANGED << candidate, inspection, run, status, diagnostic >>

-----------------------------------------------------------------------------
(* _candidate_state: the identity is read, the content, the identity again. *)

Run(which) == pc' = "run" /\ stage' = which /\ UNCHANGED << evidence, error >>

AfterInitial(ok) ==
    IF ok THEN Run(1) /\ initial' = first /\ UNCHANGED << check, first, result >>
    ELSE Infrastructure(1, "CANDIDATE_INVALID", None) /\ UNCHANGED << inspection, run >>

\* Mutant of AfterStage: a failed stage does not end the verification.
AfterStageContinuing(ok) ==
    /\ UNCHANGED inspection
    /\ \/ ~ok /\ Infrastructure(stage, "INTEGRITY_FAILED", evidence) /\ UNCHANGED run
       \/ ok /\ error # None /\ Infrastructure(stage, error, None) /\ UNCHANGED run
       \/ /\ ok /\ evidence \in { "TIMED_OUT", "MEMORY_LIMIT" }
          /\ Return(WithStage, CodeOf(evidence)) /\ UNCHANGED run
       \/ /\ ok /\ evidence \in { "ZERO", "NONZERO" }
          /\ status' = WithStage /\ UNCHANGED << diagnostic, outcome >>
          /\ IF stage = 1 THEN Run(2)
             ELSE pc' = "bundle" /\ stage' = 3 /\ evidence' = None /\ UNCHANGED error

\* A stage that passed is followed by the next, the second one by the bundle.
AfterStage(ok) ==
    /\ UNCHANGED inspection
    /\ \/ ~ok /\ Infrastructure(stage, "INTEGRITY_FAILED", evidence) /\ UNCHANGED run
       \/ ok /\ error # None /\ Infrastructure(stage, error, None) /\ UNCHANGED run
       \/ /\ ok /\ evidence \in Evidence \ { "ZERO" }
          /\ Return(WithStage, CodeOf(evidence)) /\ UNCHANGED run
       \/ /\ ok /\ evidence = "ZERO"
          /\ status' = WithStage /\ UNCHANGED << diagnostic, outcome >>
          /\ IF stage = 1 THEN Run(2)
             ELSE pc' = "bundle" /\ stage' = 3 /\ evidence' = None /\ UNCHANGED error

\* No bundle: a candidate that changed explains more than evaluator input that
\* did, but not more than a bundle that could not be removed.
AfterNoBundle(ok) ==
    /\ Infrastructure(3, IF ok \/ error = "CLEANUP_FAILED" THEN error ELSE "INTEGRITY_FAILED", None)
    /\ UNCHANGED << inspection, run >>

AfterBundle(ok) ==
    /\ UNCHANGED << inspection, result, stage, evidence >>
    /\ IF ok THEN pc' = "run" /\ UNCHANGED error
       ELSE pc' = "remove" /\ error' = "INTEGRITY_FAILED"

AfterHidden(ok) ==
    /\ UNCHANGED << inspection, run >>
    /\ IF cleanup = "failed" THEN Infrastructure(3, "CLEANUP_FAILED", evidence)
       ELSE IF ~ok THEN Infrastructure(3, "INTEGRITY_FAILED", evidence)
       ELSE IF error # None THEN Infrastructure(3, error, evidence)
       ELSE Return(WithStage, CodeOf(evidence))

Conclude(ok) ==
    \/ check = "initial" /\ AfterInitial(ok)
    \/ check = "after_stage" /\ AfterStage(ok)
    \/ check = "no_bundle" /\ AfterNoBundle(ok)
    \/ check = "before_hidden" /\ AfterBundle(ok)
    \/ check = "final" /\ AfterHidden(ok)

\* Each of the three readings may fail.
CheckFails == pc \in { "first", "content", "second" } /\ Conclude(FALSE)
                 /\ UNCHANGED << candidate, bundle, cleanup >>

ReadFirst ==
    /\ pc = "first" /\ pc' = "content"
    /\ first' = changes
    /\ UNCHANGED << candidate, bundle, check, initial, run, cleanup, result >>

\* The comparison, made after the last reading in the code, is made here: a
\* candidate whose content is another fails the check whatever that reading is.
ReadContent ==
    /\ pc = "content"
    /\ IF edited THEN Conclude(FALSE) /\ UNCHANGED << candidate, bundle, cleanup >>
       ELSE pc' = "second" /\ UNCHANGED << candidate, bundle, inspection, run, cleanup, result >>

\* Mutant of ReadSecond: nobody looks again.
ReadSecondBlind ==
    /\ pc = "second"
    /\ Conclude(check = "initial" \/ first = initial)
    /\ UNCHANGED << candidate, bundle, cleanup >>

ReadSecond ==
    /\ pc = "second"
    /\ Conclude(first = changes /\ (check = "initial" \/ first = initial))
    /\ UNCHANGED << candidate, bundle, cleanup >>

-----------------------------------------------------------------------------
\* A KeyboardInterrupt or SystemExit, in whatever verify is waiting for.  Past
\* create_bundle's answer, and before the removal, it is followed by a removal.
Holding ==
    \/ pc \in { "first", "content", "second" } /\ check = "before_hidden"
    \/ pc = "run" /\ stage = 3

\* Mutant of Interrupt: the handler is missing.
InterruptUnhandled ==
    /\ pc # "done" /\ pc' = "done" /\ outcome' = "interrupted"
    /\ bundle' \in (IF pc \in { "bundle", "remove" } THEN BOOLEAN ELSE { bundle })
    /\ UNCHANGED << candidate, inspection, run, cleanup, status, diagnostic >>

Interrupt ==
    /\ pc # "done"
    /\ IF Holding THEN pc' = "remove_interrupted" /\ UNCHANGED outcome
       ELSE pc' = "done" /\ outcome' = "interrupted"
    /\ bundle' \in (IF pc \in { "bundle", "remove", "remove_interrupted" } THEN BOOLEAN
                    ELSE { bundle })
    /\ UNCHANGED << candidate, inspection, run, cleanup, status, diagnostic >>

\* Somebody changes the candidate.
Change ==
    /\ pc # "done" /\ changes < MaxChanges
    /\ changes' = changes + 1 /\ edited' \in BOOLEAN
    /\ UNCHANGED << bundle, pc, inspection, run, cleanup, result >>

Init ==
    /\ changes = 0 /\ edited \in BOOLEAN
    /\ bundle = FALSE
    /\ pc = "validate"
    /\ check = "initial" /\ first = 0 /\ initial = 0
    /\ stage = 1 /\ evidence = None /\ error = None
    /\ cleanup = "none"
    /\ status = [i \in Stage |-> "NOT_RUN"]
    /\ diagnostic = None /\ outcome = None

Step ==
    \/ Validate \/ Execute \/ CreateBundle \/ RemoveBundle \/ RemoveInterrupted
    \/ ReadFirst \/ ReadContent \/ ReadSecond \/ CheckFails

Next == Step \/ Interrupt \/ Change

Spec == Init /\ [][Next]_vars

-----------------------------------------------------------------------------
(* Properties.                                                              *)

TypeOK ==
    /\ changes \in 0..MaxChanges /\ edited \in BOOLEAN /\ bundle \in BOOLEAN
    /\ pc \in { "validate", "run", "bundle", "remove", "remove_interrupted",
                "first", "content", "second", "done" }
    /\ check \in Check /\ first \in 0..MaxChanges /\ initial \in 0..MaxChanges
    /\ stage \in Stage /\ evidence \in Evidence \cup { None } /\ error \in Code \cup { None }
    /\ cleanup \in { "none", "done", "failed" }
    /\ status \in [Stage -> Status]
    /\ diagnostic \in Code \cup { None }
    /\ outcome \in { None, "PASSED", "CANDIDATE_FAILED", "INFRASTRUCTURE_DIAGNOSTIC",
                     "raised", "interrupted" }

\* A verdict on the candidate is given only on the candidate that passed the
\* static checks, unchanged from the first inspection to this moment: so every
\* stage ran on it, however often others changed it or changed it back.
VerdictIsForTheCandidate ==
    [][outcome = None /\ outcome' \in { "PASSED", "CANDIDATE_FAILED" } =>
         changes' = initial /\ ~edited']_vars

\* The hidden tests are on disk only when the visible stages passed, and never
\* once verify returned a verdict; when they are left there, the result says so.
HiddenTestsAreGuarded ==
    bundle => /\ status[1] = "PASSED" /\ status[2] = "PASSED"
              /\ outcome \notin { "PASSED", "CANDIDATE_FAILED" }
              /\ outcome = "INFRASTRUCTURE_DIAGNOSTIC" => diagnostic = "CLEANUP_FAILED"

\* Once it has the bundle, verify ends, even when interrupted, only by way of an
\* attempt to remove it.
RemovalIsAttempted ==
    [][pc # "done" /\ pc' = "done" /\ bundle' =>
         \/ cleanup' # "none" \/ check = "no_bundle"
         \/ pc \in { "bundle", "remove", "remove_interrupted" }]_vars

\* verify answers with a result that its own validators accept, whatever its
\* boundaries did; the one exception is a run cut short whose candidate changed
\* or whose bundle stayed.
RaisesOnlyWhenCutShort ==
    outcome = "raised" => evidence \in { "TIMED_OUT", "MEMORY_LIMIT" }

\* docs/specs/0.1-009-verify-and-evaluate.md:378: "Hidden bundle cleanup is
\* mandatory.  Cleanup failure is a visible infrastructure diagnostic and cannot be
\* downgraded because tests passed or failed."
CleanupFailureIsVisible ==
    cleanup = "failed" /\ outcome \notin { None, "interrupted" } => diagnostic = "CLEANUP_FAILED"
=============================================================================
