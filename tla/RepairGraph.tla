---------------------------- MODULE RepairGraph ----------------------------
(***************************************************************************)
(* The single-attempt repair graph of app/agent/graph.py with the terminal  *)
(* routing of app/agent/routing.py.  One action per graph node: an action   *)
(* is the whole node, its try body, its except clauses and the conditional  *)
(* edge taken after it.  The immutable OrchestrationState that the graph    *)
(* transports is the record st; what a node obtains from a boundary (the    *)
(* preparer, a sandbox service, the model provider, the clock) is a choice  *)
(* over the kinds of answer that boundary can give.  The process around the *)
(* graph, with its interrupts, is RepairRun.                                *)
(***************************************************************************)
EXTENDS Integers, Sequences

None == "None"

CONSTANT Providers      \* the providers a run may be given: None, "fake", "live"

ASSUME ProvidersAssumption == Providers \subseteq {None, "fake", "live"}

NodeNames == << "prepare_repository", "run_baseline", "classify_failure",
                "select_relevant_context", "plan_repair", "generate_patch",
                "validate_patch_policy", "run_static_checks", "verify_in_sandbox",
                "evaluate_candidate", "route_result" >>
NodeName == { NodeNames[i] : i \in 1..11 }

TerminalOutcome == { "SUCCESS", "CANDIDATE_FAILURE", "POLICY_VIOLATION",
                     "STATIC_CHECK_FAILURE", "BASELINE_NOT_REPRODUCIBLE",
                     "INFRASTRUCTURE_FAILURE", "MALFORMED_MODEL_OUTPUT" }
Infra == "INFRASTRUCTURE_FAILURE"

\* A clock reading is a UTC instant not before started_at, an earlier one (the
\* wall clock was set back), or an error.
ClockReading == { "ontime", "early", "fails" }
BaselineOutcome == { "REPRODUCED_FAILURE", "NOT_REPRODUCIBLE", "INFRASTRUCTURE_DIAGNOSTIC" }
StageOutcome == { "PASSED", "CANDIDATE_FAILED", "INFRASTRUCTURE_DIAGNOSTIC" }
FunctionalStatus == { "PASSED", "FAILED", "NOT_EVALUATED" }
Plan == { "suitable", "unsuitable" }
RepairStatus == { "pending", "baseline_complete", "analysis_complete",
                  "plan_complete", "patch_proposed" }
\* A usage snapshot is the number of provider calls it accounts for.
NoUsage == -1
UsageValue == NoUsage..2

LegacyState ==
    [ status : RepairStatus, attempt_number : 0..1,
      baseline_result : BaselineOutcome \cup {None}, failure_analysis : BOOLEAN,
      repair_plan : Plan \cup {None}, candidate_patch : BOOLEAN ]

OrchestrationState ==
    [ completed_nodes : Seq(NodeName), attempt_number : 0..1,
      completed_at : {None, "ontime", "early"}, model_configuration : BOOLEAN,
      model_usage : UsageValue, legacy_state : LegacyState, preparation : BOOLEAN,
      baseline : BaselineOutcome \cup {None}, failure_analysis : BOOLEAN, context : BOOLEAN,
      repair_plan : Plan \cup {None}, proposal : BOOLEAN,
      policy_result : {None, "approved", "rejected"}, static_result : StageOutcome \cup {None},
      verification_result : StageOutcome \cup {None},
      evaluation_result : FunctionalStatus \cup {None}, evaluation_usage : UsageValue,
      failure_override : TerminalOutcome \cup {None}, terminal_route : TerminalOutcome \cup {None} ]

VARIABLES
    st,         \* the OrchestrationState in the transport
    node,       \* the node the graph runs next, or "END"
    graph,      \* "running", "returned", "raised" or "interrupted"
    provider,   \* the run's model provider
    billed      \* the calls a live provider has counted

graphVars == << st, node, graph, provider, billed >>

-----------------------------------------------------------------------------
(* Terminal routing (app/agent/routing.py).                                 *)

\* RoutingEvidence.validate_override: evidence of a stage needs passing
\* evidence of the stages before it.
RoutingEvidenceValid(s) ==
    LET candidate == { s.static_result, s.verification_result, s.evaluation_result } \ {None}
        later == candidate \cup ({s.policy_result} \ {None})
    IN  /\ s.failure_override \notin { "SUCCESS", "POLICY_VIOLATION", "STATIC_CHECK_FAILURE",
                                       "BASELINE_NOT_REPRODUCIBLE" }
        /\ later # {} => s.baseline = "REPRODUCED_FAILURE"
        /\ candidate # {} => s.policy_result = "approved"
        /\ s.verification_result # None \/ s.evaluation_result # None => s.static_result = "PASSED"
        /\ s.evaluation_result # None => s.verification_result # None
        /\ s.failure_override \in { "CANDIDATE_FAILURE", "MALFORMED_MODEL_OUTPUT" } => later = {}

\* Mutants of EvidenceOutcome: what is not known to have failed has passed; and
\* the static checks are reported as a failure of the candidate.
EvidenceOutcomeUnlessFailed(s) ==
    IF s.static_result = "PASSED" /\ s.verification_result # "CANDIDATE_FAILED"
    THEN "SUCCESS" ELSE Infra

EvidenceOutcomeMerged(s) ==
    IF s.static_result = "CANDIDATE_FAILED" THEN "CANDIDATE_FAILURE" ELSE Infra

\* The outcome without an override: the first evidence that is missing or not
\* passing decides it.
EvidenceOutcome(s) ==
    LET reproduced == s.baseline = "REPRODUCED_FAILURE"
        approved == reproduced /\ s.policy_result = "approved"
        static_passed == approved /\ s.static_result = "PASSED"
    IN  CASE s.baseline = "NOT_REPRODUCIBLE" -> "BASELINE_NOT_REPRODUCIBLE"
          [] reproduced /\ s.policy_result = "rejected" -> "POLICY_VIOLATION"
          [] approved /\ s.static_result = "CANDIDATE_FAILED" -> "STATIC_CHECK_FAILURE"
          [] static_passed /\ s.verification_result = "PASSED"
               /\ s.evaluation_result = "PASSED" -> "SUCCESS"
          [] static_passed /\ s.verification_result = "CANDIDATE_FAILED"
               /\ s.evaluation_result = "FAILED" -> "CANDIDATE_FAILURE"
          [] OTHER -> Infra

route_terminal(s) == IF s.failure_override # None THEN s.failure_override ELSE EvidenceOutcome(s)

-----------------------------------------------------------------------------
(* OrchestrationState.validate_invariants, by the parts it checks.          *)

Routed(s) == \E i \in 1..Len(s.completed_nodes) : s.completed_nodes[i] = "route_result"

\* Mutant of Executed: route_result counts as a node that has evidence.
ExecutedWithRoute(s) == Len(s.completed_nodes)

\* The length of before_route.
Executed(s) == IF Routed(s) THEN Len(s.completed_nodes) - 1 ELSE Len(s.completed_nodes)

\* The nodes are a prefix of NodeNames, with route_result only at the end.
ValidExecution(s) ==
    \A i \in 1..Len(s.completed_nodes) :
        \/ i <= 10 /\ s.completed_nodes[i] = NodeNames[i]
        \/ i = Len(s.completed_nodes) /\ s.completed_nodes[i] = "route_result"

\* evidence_nodes: which evidence exists, in the order of the nodes that produce it.
Evidence(s) ==
    << s.preparation, s.baseline # None, s.failure_analysis, s.context, s.repair_plan # None,
       s.proposal, s.policy_result # None, s.static_result # None,
       s.verification_result # None, s.evaluation_result # None >>

\* Evidence only from executed nodes, and from all of them but a failed last one.
ValidEvidence(s) ==
    /\ \A i \in 1..10 :
           /\ Evidence(s)[i] => i <= Executed(s)
           /\ ~Evidence(s)[i] /\ i <= Executed(s) =>
                  s.failure_override # None /\ i = Executed(s)
    /\ s.model_usage # NoUsage => 5 <= Executed(s)

ValidDependencies(s) ==
    /\ s.legacy_state.attempt_number = s.attempt_number
    /\ s.baseline # None => s.preparation /\ s.legacy_state.baseline_result = s.baseline
    /\ s.failure_analysis => s.baseline # None /\ s.legacy_state.failure_analysis
    /\ s.context => s.failure_analysis
    /\ s.repair_plan # None => s.legacy_state.repair_plan = s.repair_plan
    /\ ~s.proposal => s.policy_result = None
    /\ s.proposal => s.legacy_state.candidate_patch
    /\ s.static_result # None => s.policy_result # None
    /\ s.verification_result # None => s.static_result = "PASSED"
    /\ s.evaluation_result # None =>
           s.proposal /\ s.verification_result # None /\ s.evaluation_usage = s.model_usage

ValidOverride(s) ==
    /\ s.failure_override \notin { "SUCCESS", "POLICY_VIOLATION", "STATIC_CHECK_FAILURE",
                                   "BASELINE_NOT_REPRODUCIBLE" }
    /\ s.failure_override \in { "CANDIDATE_FAILURE", "MALFORMED_MODEL_OUTPUT" } =>
           /\ s.policy_result = None /\ s.static_result = None
           /\ s.verification_result = None /\ s.evaluation_result = None

\* route_state builds a RoutingEvidence, so an invalid one fails validation too.
ValidTerminal(s) ==
    /\ s.completed_at # "early"
    /\ s.terminal_route = None => s.completed_at = None /\ ~Routed(s)
    /\ s.terminal_route # None =>
           /\ s.completed_at # None /\ Routed(s)
           /\ RoutingEvidenceValid(s) /\ s.terminal_route = route_terminal(s)

Valid(s) ==
    ValidExecution(s) /\ ValidEvidence(s) /\ ValidDependencies(s)
      /\ ValidOverride(s) /\ ValidTerminal(s)

-----------------------------------------------------------------------------
(* The graph: edges, completion of a node, failure of a node.               *)

\* The conditional edges _after_*: the next node once s is in the transport.
After(n, s) ==
    LET proceed ==
          /\ s.failure_override = None
          /\ n = "run_baseline" => s.baseline = "REPRODUCED_FAILURE"
          /\ n = "validate_patch_policy" => s.policy_result = "approved"
          /\ n = "run_static_checks" => s.static_result = "PASSED"
    IN  CASE n = "route_result" -> "END"
          [] n = "evaluate_candidate" -> "route_result"
          [] OTHER -> IF proceed THEN NodeNames[Len(s.completed_nodes) + 1] ELSE "route_result"

\* _finish: s with node n completed.
Completing(s, n) == [s EXCEPT !.completed_nodes = Append(@, n)]

\* _finish and _replace accept the update s of the transported state.
Finishes(n, s) ==
    /\ \A i \in 1..Len(st.completed_nodes) : st.completed_nodes[i] # n
    /\ st.terminal_route = None
    /\ Valid(s)

Commit(n, s) ==
    /\ st' = s
    /\ node' = After(n, s)
    /\ graph' = IF n = "route_result" THEN "returned" ELSE "running"

\* An exception leaves the node, and with it the graph.
Raise == graph' = "raised" /\ node' = "END" /\ UNCHANGED st

\* A node: _transport checks the state it receives; the try body ends in the
\* update good, if it gets there; an exception ends in the update bad; an
\* exception in that one leaves the graph.
Runs(n) == graph = "running" /\ node = n

Node(n, succeeds, good, bad) ==
    IF Valid(st) /\ succeeds /\ Finishes(n, Completing(good, n)) THEN Commit(n, Completing(good, n))
    ELSE IF Valid(st) /\ Finishes(n, Completing(bad, n)) THEN Commit(n, Completing(bad, n))
    ELSE Raise

Overridden(s, outcome) == [s EXCEPT !.failure_override = outcome]
Failed == Overridden(st, Infra)

-----------------------------------------------------------------------------
(* The nodes.                                                               *)

\* preparer.prepare, its re-validation and the fingerprint check of
\* LocalWorkspaceIntegrityBoundary either all succeed or raise.
prepare_repository ==
    /\ Runs("prepare_repository")
    /\ \E prepared \in BOOLEAN :
           Node("prepare_repository", prepared, [st EXCEPT !.preparation = TRUE], Failed)
    /\ UNCHANGED << provider, billed >>

\* Every diagnostic of the baseline executor is a result; only an exception, or
\* a clock that fails, is an override.
run_baseline ==
    /\ Runs("run_baseline")
    /\ \E outcome \in BaselineOutcome, runs \in BOOLEAN, clock \in ClockReading :
           Node("run_baseline", st.preparation /\ runs /\ clock # "fails",
                [st EXCEPT !.baseline = outcome,
                           !.legacy_state = [@ EXCEPT !.baseline_result = outcome,
                                                      !.status = "baseline_complete"]],
                Failed)
    /\ UNCHANGED << provider, billed >>

\* classify_failure raises on any baseline but a reproduced one, and
\* apply_failure_analysis on a legacy state that is not freshly baselined.
classify_failure ==
    /\ Runs("classify_failure")
    /\ \E clock \in ClockReading, classified \in BOOLEAN :
           LET legacy == st.legacy_state IN
           Node("classify_failure",
                /\ st.baseline = "REPRODUCED_FAILURE" /\ classified
                /\ legacy.status = "baseline_complete"
                /\ legacy.baseline_result = "REPRODUCED_FAILURE"
                /\ ~legacy.failure_analysis /\ legacy.repair_plan = None /\ ~legacy.candidate_patch
                /\ clock # "fails",
                [st EXCEPT !.failure_analysis = TRUE,
                           !.legacy_state = [@ EXCEPT !.failure_analysis = TRUE,
                                                      !.status = "analysis_complete"]],
                Failed)
    /\ UNCHANGED << provider, billed >>

select_relevant_context ==
    /\ Runs("select_relevant_context")
    /\ \E selected \in BOOLEAN :
           Node("select_relevant_context", st.baseline # None /\ st.failure_analysis /\ selected,
                [st EXCEPT !.context = TRUE], Failed)
    /\ UNCHANGED << provider, billed >>

\* What one model call comes to: an answer the caller can use, an answer that is
\* oversized or malformed, or a diagnostic of any other kind (the provider
\* raised, perhaps after it had counted the call).
ModelFault == { "malformed", "provider_exception", "provider_exception_counted" }

\* Mutant of Counted: the provider retries on its own.
CountedRetry(answer) ==
    IF provider = "live" /\ answer # "provider_exception" THEN billed + 2 ELSE billed

\* The calls the provider has counted once it has answered.
Counted(answer) ==
    IF provider = "live" /\ answer # "provider_exception" THEN billed + 1 ELSE billed

\* _model_failure: the outcome a ModelDiagnosticError stands for.
ModelFailure(answer) ==
    CASE answer = "refused_as_unsuitable" -> "CANDIDATE_FAILURE"
      [] answer = "malformed" -> "MALFORMED_MODEL_OUTPUT"
      [] OTHER -> Infra

\* _snapshot_usage: a provider that is no reader reports nothing; a live one
\* reports all it has counted, or raises.
SnapshotRaises == IF provider = "live" THEN BOOLEAN ELSE {FALSE}
WithUsage(s, calls) == IF provider = "live" THEN [s EXCEPT !.model_usage = calls] ELSE s

\* Mutants of SpentAttempt: the usage is dropped; the attempt is only counted in
\* the outer state; it is not counted at all.
SpentAttemptUnbilled(outcome, clock, raises, calls) ==
    Overridden([st EXCEPT !.attempt_number = 1, !.legacy_state.attempt_number = 1],
               IF clock = "fails" \/ raises THEN Infra ELSE outcome)

SpentAttemptHalf(outcome, clock, raises, calls) ==
    Overridden([st EXCEPT !.attempt_number = 1],
               IF clock = "fails" \/ raises THEN Infra ELSE outcome)

SpentAttemptUncounted(outcome, clock, raises, calls) ==
    Overridden(IF raises THEN st ELSE WithUsage(st, calls),
               IF clock = "fails" \/ raises THEN Infra ELSE outcome)

\* _attempt_failure: the attempt is spent even though there is no plan.
SpentAttempt(outcome, clock, raises, calls) ==
    LET s == [st EXCEPT !.attempt_number = 1, !.legacy_state.attempt_number = 1]
        why == IF clock = "fails" \/ raises THEN Infra ELSE outcome
    IN  Overridden(IF raises THEN s ELSE WithUsage(s, calls), why)

\* record_repair_plan accepts the legacy state.
AcceptsPlan(legacy) ==
    /\ legacy.status = "analysis_complete" /\ legacy.attempt_number = 0
    /\ legacy.baseline_result = "REPRODUCED_FAILURE" /\ legacy.failure_analysis
    /\ legacy.repair_plan = None /\ ~legacy.candidate_patch

plan_repair ==
    /\ Runs("plan_repair")
    /\ LET callable == st.context /\ st.model_configuration /\ provider # None IN
       \E answer \in IF callable THEN Plan \cup ModelFault ELSE {None},
          clock, clockAfter \in ClockReading, raises, raisesAfter \in SnapshotRaises :
           LET calls == IF callable THEN Counted(answer) ELSE billed
               recorded == answer \in Plan /\ AcceptsPlan(st.legacy_state)
               legacy == [st.legacy_state EXCEPT !.repair_plan = answer, !.attempt_number = 1,
                                                 !.status = "plan_complete"]
           IN  /\ billed' = calls
               /\ Node("plan_repair", recorded /\ clock # "fails" /\ ~raises,
                       WithUsage([st EXCEPT !.repair_plan = answer, !.legacy_state = legacy,
                                            !.attempt_number = 1], calls),
                       SpentAttempt(IF answer \in Plan THEN Infra ELSE ModelFailure(answer),
                                    clockAfter, raisesAfter, calls))
    /\ UNCHANGED provider

\* record_patch_proposal accepts the legacy state.
AcceptsProposal(legacy) ==
    /\ legacy.status = "plan_complete" /\ legacy.attempt_number = 1
    /\ legacy.baseline_result = "REPRODUCED_FAILURE" /\ legacy.failure_analysis
    /\ legacy.repair_plan = st.repair_plan /\ legacy.repair_plan = "suitable"
    /\ ~legacy.candidate_patch

\* What generate_patch of planning.py comes to: a plan that is not suitable is
\* refused before the provider is called.
PatchAnswer(plan) ==
    IF plan = "suitable" THEN {"proposal"} \cup ModelFault ELSE {"refused_as_unsuitable"}

generate_patch ==
    /\ Runs("generate_patch")
    /\ LET callable == st.context /\ st.repair_plan # None /\ st.model_configuration
                         /\ provider # None
           called == callable /\ st.repair_plan = "suitable" IN
       \E answer \in IF callable THEN PatchAnswer(st.repair_plan) ELSE {None},
          clock \in ClockReading, raises, raisesAfter \in SnapshotRaises :
           LET calls == IF called THEN Counted(answer) ELSE billed
               recorded == answer = "proposal" /\ AcceptsProposal(st.legacy_state)
               why == IF answer = "proposal" \/ raisesAfter THEN Infra ELSE ModelFailure(answer)
           IN  /\ billed' = calls
               /\ Node("generate_patch", recorded /\ clock # "fails" /\ ~raises,
                       WithUsage([st EXCEPT !.proposal = TRUE,
                                            !.legacy_state = [@ EXCEPT !.candidate_patch = TRUE,
                                                                       !.status = "patch_proposed"]],
                                 calls),
                       Overridden(IF raisesAfter THEN st ELSE WithUsage(st, calls), why))
    /\ UNCHANGED provider

\* The injected validator's result is compared with a recomputation.
validate_patch_policy ==
    /\ Runs("validate_patch_policy")
    /\ \E result \in {"approved", "rejected"}, validated \in BOOLEAN :
           Node("validate_patch_policy", st.proposal /\ st.context /\ validated,
                [st EXCEPT !.policy_result = result], Failed)
    /\ UNCHANGED << provider, billed >>

\* A passing result also has to keep its candidate's fingerprint (validate_candidate).
run_static_checks ==
    /\ Runs("run_static_checks")
    /\ \E outcome \in StageOutcome, checked, intact \in BOOLEAN :
           Node("run_static_checks",
                /\ st.preparation /\ st.proposal /\ st.policy_result = "approved"
                /\ checked /\ (outcome = "PASSED" => intact),
                [st EXCEPT !.static_result = outcome], Failed)
    /\ UNCHANGED << provider, billed >>

verify_in_sandbox ==
    /\ Runs("verify_in_sandbox")
    /\ \E outcome \in StageOutcome, verified \in BOOLEAN :
           Node("verify_in_sandbox", st.static_result = "PASSED" /\ verified,
                [st EXCEPT !.verification_result = outcome], Failed)
    /\ UNCHANGED << provider, billed >>

\* evaluate_candidate (deterministic/candidate.py) maps the verification outcome
\* and copies the usage; the injected evaluator has to agree with it.
FunctionalStatusOf(verification) ==
    CASE verification = "PASSED" -> "PASSED"
      [] verification = "CANDIDATE_FAILED" -> "FAILED"
      [] OTHER -> "NOT_EVALUATED"

\* Mutant of evaluate_candidate: a verification without a verdict is settled as failed.
evaluate_candidate_settling ==
    /\ Runs("evaluate_candidate")
    /\ Node("evaluate_candidate", st.verification_result # None,
            [st EXCEPT !.verification_result = IF @ = "PASSED" THEN @ ELSE "CANDIDATE_FAILED",
                       !.evaluation_result = FunctionalStatusOf(st.verification_result),
                       !.evaluation_usage = st.model_usage],
            Failed)
    /\ UNCHANGED << provider, billed >>

evaluate_candidate ==
    /\ Runs("evaluate_candidate")
    /\ \E evaluated \in BOOLEAN :
           Node("evaluate_candidate", st.proposal /\ st.verification_result # None /\ evaluated,
                [st EXCEPT !.evaluation_result = FunctionalStatusOf(st.verification_result),
                           !.evaluation_usage = st.model_usage],
                Failed)
    /\ UNCHANGED << provider, billed >>

\* route_result has no try: a clock that fails, or that reads before the start of
\* the run, takes the whole graph down.
route_result ==
    /\ Runs("route_result")
    /\ \E clock \in ClockReading :
           LET s == Completing([st EXCEPT !.terminal_route = route_terminal(st),
                                          !.completed_at = clock], "route_result")
           IN  IF Valid(st) /\ RoutingEvidenceValid(st) /\ clock # "fails"
                     /\ Finishes("route_result", s)
               THEN Commit("route_result", s)
               ELSE Raise
    /\ UNCHANGED << provider, billed >>

-----------------------------------------------------------------------------
\* new_orchestration_state.
InitialState(configured) ==
    [ completed_nodes |-> << >>, attempt_number |-> 0, completed_at |-> None,
      model_configuration |-> configured, model_usage |-> NoUsage,
      legacy_state |-> [ status |-> "pending", attempt_number |-> 0, baseline_result |-> None,
                         failure_analysis |-> FALSE, repair_plan |-> None,
                         candidate_patch |-> FALSE ],
      preparation |-> FALSE, baseline |-> None, failure_analysis |-> FALSE, context |-> FALSE,
      repair_plan |-> None, proposal |-> FALSE, policy_result |-> None, static_result |-> None,
      verification_result |-> None, evaluation_result |-> None, evaluation_usage |-> NoUsage,
      failure_override |-> None, terminal_route |-> None ]

\* A provider is only resolved from a configuration (ProviderRegistry.resolve).
Init ==
    /\ provider \in Providers
    /\ \E configured \in BOOLEAN :
           (provider # None => configured) /\ st = InitialState(configured)
    /\ node = "prepare_repository"
    /\ graph = "running"
    /\ billed = 0

Step ==
    \/ prepare_repository \/ run_baseline \/ classify_failure \/ select_relevant_context
    \/ plan_repair \/ generate_patch \/ validate_patch_policy \/ run_static_checks
    \/ verify_in_sandbox \/ evaluate_candidate \/ route_result

-----------------------------------------------------------------------------
(* Properties.                                                              *)

TypeOK ==
    /\ st \in OrchestrationState
    /\ node \in NodeName \cup {"END"}
    /\ graph \in { "running", "returned", "raised", "interrupted" }
    /\ provider \in {None, "fake", "live"}
    /\ billed \in 0..2

\* Which nodes did what the repair needs of them, in the order of the nodes.
Passing(s) ==
    << s.preparation, s.baseline = "REPRODUCED_FAILURE", s.failure_analysis, s.context,
       s.repair_plan = "suitable", s.proposal, s.policy_result = "approved",
       s.static_result = "PASSED", s.verification_result = "PASSED",
       s.evaluation_result = "PASSED" >>

\* A run is reported as a success only if all ten nodes ran, in order, each with
\* passing evidence, in the one attempt there is: no edge, override or failure
\* path of the graph reaches the success route around a check.
SuccessIsEarned ==
    st.terminal_route = "SUCCESS" =>
        /\ \A k \in 1..10 : Passing(st)[k] /\ st.completed_nodes[k] = NodeNames[k]
        /\ st.attempt_number = 1 /\ st.failure_override = None

\* The failure paths of the nodes always build a state the validator accepts, so
\* the only node that can bring the graph down is route_result (by its clock):
\* whatever else fails is recorded as evidence of this run.
OnlyRoutingRaises ==
    [][graph = "running" /\ graph' = "raised" => node = "route_result"]_graphVars

\* When the graph reaches route_result, the evidence it collected is routable
\* and completing the run with a sound clock is valid: routing cannot fail for
\* a contradiction between the state's validator and RoutingEvidence's.
AlwaysRoutable ==
    graph = "running" /\ node = "route_result" =>
        /\ RoutingEvidenceValid(st)
        /\ Valid(Completing([st EXCEPT !.terminal_route = route_terminal(st),
                                       !.completed_at = "ontime"], "route_result"))

\* Every provider call that was counted is in the usage it reports, on success
\* and on every failure the model or the candidate is to blame for; only an
\* infrastructure failure may lose count.  At most one call is made per stage.
UsageAccounted ==
    graph \in { "running", "returned" } =>
        /\ provider = "live" /\ 5 <= Executed(st) /\ st.failure_override # Infra =>
               st.model_usage = billed
        /\ st.repair_plan # "suitable" => billed <= 1

\* Evidence is written once: as long as the run keeps its evidence, no later
\* node, no failure path of any node and no step of the process after the graph
\* changes what an earlier node recorded, and what is decided is at most turned
\* into an infrastructure failure.
EvidenceIsFinal ==
    [][graph' \in { "running", "returned" } =>
       /\ \A f \in {"preparation", "failure_analysis", "context", "proposal"} : st[f] => st'[f]
       /\ \A f \in {"baseline", "repair_plan", "policy_result", "static_result",
                    "verification_result", "evaluation_result"} :
              st[f] # None => st'[f] = st[f]
       /\ \A f \in {"failure_override", "terminal_route"} :
              st[f] # None => st'[f] \in { st[f], Infra }]_graphVars
=============================================================================
