--------------------------- MODULE RepairVerdict ---------------------------
(***************************************************************************)
(* What one repair process promises about its verdict, whatever the stages  *)
(* do internally: its stages pass one after the other, the evidence may get *)
(* lost, and the process ends either without a verdict or with a verdict    *)
(* that the first stage that did not pass is entitled to give.  Success     *)
(* belongs to a run of which no stage failed and that left nothing behind.  *)
(***************************************************************************)
EXTENDS Integers

\* The verdicts by the first stage that did not pass; 12 stands for "none".  The
\* stages are the graph nodes before route_result, in their order, and the removal
\* of the workspaces.
Permitted ==
    << {"INFRASTRUCTURE_FAILURE"},                                  \* prepare_repository
       {"INFRASTRUCTURE_FAILURE", "BASELINE_NOT_REPRODUCIBLE"},     \* run_baseline
       {"INFRASTRUCTURE_FAILURE"},                                  \* classify_failure
       {"INFRASTRUCTURE_FAILURE"},                                  \* select_relevant_context
       {"INFRASTRUCTURE_FAILURE", "MALFORMED_MODEL_OUTPUT",
        "CANDIDATE_FAILURE"},                                       \* plan_repair
       {"INFRASTRUCTURE_FAILURE", "MALFORMED_MODEL_OUTPUT"},        \* generate_patch
       {"INFRASTRUCTURE_FAILURE", "POLICY_VIOLATION"},              \* validate_patch_policy
       {"INFRASTRUCTURE_FAILURE", "STATIC_CHECK_FAILURE"},          \* run_static_checks
       {"INFRASTRUCTURE_FAILURE", "CANDIDATE_FAILURE"},             \* verify_in_sandbox
       {"INFRASTRUCTURE_FAILURE"},                                  \* evaluate_candidate
       {"INFRASTRUCTURE_FAILURE"},                                  \* the workspaces' removal
       {"SUCCESS"} >>

VARIABLES
    passed,     \* which of the stages have passed
    lost,       \* the evidence of the run is lost
    verdict,    \* "None" until the process ends, or for good
    ended

verdictVars == << passed, lost, verdict, ended >>

Nothing == [k \in 1..11 |-> FALSE]

VerdictInit ==
    /\ passed = Nothing
    /\ lost = FALSE
    /\ verdict = "None"
    /\ ended = FALSE

FirstNotPassed(k) == (\A j \in 1..(k - 1) : passed[j]) /\ (k <= 11 => ~passed[k])

Passes == \E k \in 1..11 : FirstNotPassed(k) /\ passed' = [passed EXCEPT ![k] = TRUE]

Pass ==
    /\ ~ended /\ ~lost
    /\ Passes
    /\ UNCHANGED << lost, verdict, ended >>

Lose ==
    /\ ~ended /\ ~lost
    /\ lost' = TRUE /\ passed' = Nothing
    /\ UNCHANGED << verdict, ended >>

Decide ==
    /\ ~ended
    /\ \E k \in 1..12 : FirstNotPassed(k) /\ verdict' \in Permitted[k]
    /\ ended' = TRUE
    /\ UNCHANGED << passed, lost >>

\* A process may be brought down by the step that passes a stage.
Abort ==
    /\ ~ended
    /\ ended' = TRUE
    /\ UNCHANGED passed \/ Passes
    /\ UNCHANGED << lost, verdict >>

VerdictNext == Pass \/ Lose \/ Decide \/ Abort

VerdictSpec == VerdictInit /\ [][VerdictNext]_verdictVars /\ WF_verdictVars(VerdictNext)
=============================================================================
