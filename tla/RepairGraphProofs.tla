------------------------- MODULE RepairGraphProofs -------------------------
(* The inductive invariant of the graph, for every set of providers: it     *)
(* holds initially and every node preserves it.  RepairRunProofs draws the  *)
(* theorems from it.                                                        *)
EXTENDS RepairGraph, SequenceTheorems, TLAPS

(***************************************************************************)
(* A node that completes puts a state the validator accepts into the        *)
(* transport, and moves the graph one node on.                              *)
(***************************************************************************)
Completes(n, s) ==
    /\ st' = Completing(s, n)
    /\ Valid(st')
    /\ node' = After(n, st')
    /\ graph' = IF n = "route_result" THEN "returned" ELSE "running"
    /\ st.terminal_route = None

LEMMA NodeOutcome ==
    ASSUME NEW n, NEW succeeds, NEW good, NEW bad, Node(n, succeeds, good, bad)
    PROVE  (Completes(n, good) /\ succeeds) \/ Completes(n, bad) \/ Raise
BY DEF Node, Commit, Finishes, Completes

LEMMA CompletingTyped ==
    ASSUME NEW n \in NodeName, NEW s \in OrchestrationState
    PROVE  /\ Completing(s, n) \in OrchestrationState
           /\ Len(Completing(s, n).completed_nodes) = Len(s.completed_nodes) + 1
BY DEF Completing, OrchestrationState

LEMMA FailedTyped ==
    ASSUME st \in OrchestrationState
    PROVE  Failed \in OrchestrationState
BY DEF Failed, Overridden, OrchestrationState, TerminalOutcome, Infra

(***************************************************************************)
(* The inductive invariant.  TypeOK needs the position of the graph: how    *)
(* many provider calls can have been counted depends on how many nodes have *)
(* completed, and the node that runs is the one after those.                *)
(***************************************************************************)
Position ==
    graph = "running" =>
        \/ node = "route_result"
        \/ /\ Len(st.completed_nodes) <= 9
           /\ node = NodeNames[Len(st.completed_nodes) + 1]

BillingBound ==
    graph = "running" =>
        /\ Len(st.completed_nodes) <= 4 => billed = 0
        /\ Len(st.completed_nodes) = 5 => billed <= 1

\* What the nodes keep of the attempt, beyond what the validator checks.
AttemptInv ==
    /\ st.proposal => st.repair_plan = "suitable"
    /\ st.repair_plan # None => st.attempt_number = 1

IInv == TypeOK /\ Valid(st) /\ Position /\ BillingBound /\ AttemptInv /\ SuccessIsEarned

LEMMA NodeNamesTyped == \A i \in 1..11 : NodeNames[i] \in NodeName
BY DEF NodeName

LEMMA NodeNameCases ==
    /\ NodeNames[1] = "prepare_repository" /\ NodeNames[2] = "run_baseline"
    /\ NodeNames[3] = "classify_failure" /\ NodeNames[4] = "select_relevant_context"
    /\ NodeNames[5] = "plan_repair" /\ NodeNames[6] = "generate_patch"
    /\ NodeNames[7] = "validate_patch_policy" /\ NodeNames[8] = "run_static_checks"
    /\ NodeNames[9] = "verify_in_sandbox" /\ NodeNames[10] = "evaluate_candidate"
    /\ NodeNames[11] = "route_result"
BY DEF NodeNames

LEMMA LenTyped ==
    ASSUME NEW s \in OrchestrationState
    PROVE  \E k \in Nat : k = Len(s.completed_nodes)
<1>1. s.completed_nodes \in Seq(NodeName)
  BY DEF OrchestrationState
<1>2. QED
  BY <1>1, LenProperties

LEMMA RunningNodes ==
    ASSUME Position, graph = "running", node # "route_result", st \in OrchestrationState
    PROVE  \E k \in 0..9 :
               /\ k = Len(st.completed_nodes)
               /\ node = "plan_repair" => k = 4
               /\ node = "generate_patch" => k = 5
<1>1. PICK k \in Nat : k = Len(st.completed_nodes)
  BY LenTyped
<1>2. Len(st.completed_nodes) <= 9 /\ node = NodeNames[Len(st.completed_nodes) + 1]
  BY DEF Position
<1>3. k <= 9
  BY <1>1, <1>2
<1>4. node = NodeNames[k + 1]
  BY <1>1, <1>2
<1>5. k \in 0..9
  BY <1>3
<1>6. NodeNames[k + 1] = "plan_repair" => k = 4
  BY <1>5 DEF NodeNames
<1>7. NodeNames[k + 1] = "generate_patch" => k = 5
  BY <1>5 DEF NodeNames
<1>8. QED
  BY <1>1, <1>4, <1>5, <1>6, <1>7

LEMMA Successors ==
    ASSUME NEW k \in 0..9
    PROVE  /\ k + 2 \in 1..11
           /\ k # 9 => k + 1 <= 9
           /\ k = 9 => NodeNames[k + 2] = "route_result"
<1>1. k + 2 \in 1..11
  OBVIOUS
<1>2. k # 9 => k + 1 <= 9
  OBVIOUS
<1>3. k = 9 => NodeNames[k + 2] = "route_result"
  BY DEF NodeNames
<1>4. QED
  BY <1>1, <1>2, <1>3

\* A node that completes is followed by the node after it or by routing.
LEMMA CompletesPosition ==
    ASSUME NEW n \in NodeName, n # "route_result", NEW s \in OrchestrationState,
           NEW k \in 0..9, k = Len(s.completed_nodes), Completes(n, s)
    PROVE  /\ Position' /\ node' \in NodeName /\ graph' = "running"
           /\ Len(st'.completed_nodes) = k + 1
<1>1. Len(st'.completed_nodes) = k + 1
  BY CompletingTyped DEF Completes
<1>2. \/ node' = "route_result"
      \/ node' = NodeNames[Len(st'.completed_nodes) + 1]
  BY DEF Completes, After
<1>3. node' = "route_result" \/ node' = NodeNames[k + 2]
  BY <1>1, <1>2
<1>4. k + 2 \in 1..11
  BY Successors
<1>5. k = 9 => NodeNames[k + 2] = "route_result"
  BY Successors
<1>6. node' \in NodeName
  BY SMTT(60), <1>3, <1>4, NodeNameCases, NodeNamesTyped
<1>7. graph' = "running"
  BY DEF Completes
<1>8. ASSUME node' # "route_result"
      PROVE  Len(st'.completed_nodes) <= 9 /\ node' = NodeNames[Len(st'.completed_nodes) + 1]
  <2>1. k # 9
    BY <1>3, <1>5, <1>8
  <2>2. k + 1 <= 9
    BY <2>1, Successors
  <2>3. QED
    BY <1>1, <1>2, <1>8, <2>2
<1>9. QED
  BY <1>1, <1>6, <1>7, <1>8 DEF Position

(***************************************************************************)
(* One node, whatever its boundary answers: if both of its updates are      *)
(* typed and leave the executed nodes alone, the graph moves on by one node *)
(* or raises.                                                               *)
(***************************************************************************)
Update(s) ==
    s \in OrchestrationState /\ s.completed_nodes = st.completed_nodes

Advances ==
    /\ st' \in OrchestrationState /\ Valid(st') /\ Position'
    /\ node' \in NodeName \cup {"END"}
    /\ graph' \in {"running", "raised"}
    /\ st' = st \/ st'.terminal_route = None

\* No node but route_result routes: the validator wants route_result among the
\* completed nodes of a routed state.
LEMMA NotRouted ==
    ASSUME Valid(st), st \in OrchestrationState,
           NEW n \in NodeName, n # "route_result",
           NEW s, Update(s), Completes(n, s)
    PROVE  st'.terminal_route = None
<1>1. SUFFICES ASSUME st'.terminal_route # None
               PROVE  FALSE
  OBVIOUS
<1>2. Routed(st') /\ ~Routed(st)
  BY <1>1 DEF Completes, Valid, ValidTerminal
<1>3. st'.completed_nodes = Append(st.completed_nodes, n)
  BY DEF Completes, Completing, Update, OrchestrationState
<1>4. st.completed_nodes \in Seq(NodeName)
  BY DEF OrchestrationState
<1>5. PICK i \in 1..Len(st'.completed_nodes) : st'.completed_nodes[i] = "route_result"
  BY <1>2 DEF Routed
<1>6. i \in 1..(Len(st.completed_nodes) + 1)
  BY <1>3, <1>4, <1>5, AppendProperties
<1>7. i = Len(st.completed_nodes) + 1 \/ i \in 1..Len(st.completed_nodes)
  BY <1>4, <1>6, LenProperties
<1>8. CASE i = Len(st.completed_nodes) + 1
  BY <1>3, <1>4, <1>5, <1>8, AppendProperties
<1>9. CASE i \in 1..Len(st.completed_nodes)
  <2>1. st.completed_nodes[i] = "route_result"
    BY <1>3, <1>4, <1>5, <1>9, AppendProperties
  <2>2. QED
    BY <1>2, <1>9, <2>1 DEF Routed
<1>10. QED
  BY <1>7, <1>8, <1>9

LEMMA NodeAdvances ==
    ASSUME TypeOK, Valid(st), Position,
           NEW n \in NodeName, n # "route_result", Runs(n),
           NEW succeeds, NEW good, NEW bad, succeeds => Update(good), Update(bad),
           Node(n, succeeds, good, bad)
    PROVE  /\ Advances
           /\ graph' = "running" => Len(st'.completed_nodes) = Len(st.completed_nodes) + 1
<1>1. ASSUME NEW s, Update(s), Completes(n, s)
      PROVE  /\ Advances
             /\ Len(st'.completed_nodes) = Len(st.completed_nodes) + 1
  <2>1. s \in OrchestrationState /\ Len(s.completed_nodes) = Len(st.completed_nodes)
    BY <1>1 DEF Update
  <2>2. st \in OrchestrationState /\ graph = "running" /\ node # "route_result"
    BY DEF TypeOK, Runs
  <2>3. PICK k \in 0..9 : k = Len(st.completed_nodes)
    BY <2>2, RunningNodes
  <2>4. k = Len(s.completed_nodes)
    BY <2>1, <2>3
  <2>5. /\ Position' /\ node' \in NodeName /\ graph' = "running"
        /\ Len(st'.completed_nodes) = k + 1
    BY <1>1, <2>1, <2>4, CompletesPosition
  <2>6. st' \in OrchestrationState /\ Valid(st')
    BY <1>1, <2>1, CompletingTyped DEF Completes
  <2>7. st'.terminal_route = None
    BY <1>1, <2>2, NotRouted
  <2>8. QED
    BY <2>3, <2>5, <2>6, <2>7 DEF Advances
<1>2. ASSUME Raise
      PROVE  Advances /\ graph' = "raised"
  BY <1>2 DEF Raise, Advances, Position, TypeOK
<1>3. CASE Completes(n, good) /\ succeeds
  <2>1. Update(good)
    BY <1>3
  <2>2. QED
    BY <1>1, <1>3, <2>1
<1>4. CASE Completes(n, bad)
  BY <1>1, <1>4
<1>5. CASE Raise
  BY <1>2, <1>5
<1>6. QED
  BY <1>3, <1>4, <1>5, NodeOutcome

(***************************************************************************)
(* The eight nodes that call no provider.                                   *)
(***************************************************************************)
KeepsAttempt(s) ==
    /\ s.proposal = st.proposal
    /\ s.repair_plan = st.repair_plan
    /\ s.attempt_number = st.attempt_number

LEMMA LaterBilling ==
    ASSUME NEW k \in Nat, NEW b, k <= 4 => b = 0, k = 5 => b <= 1
    PROVE  /\ k + 1 <= 4 => b = 0
           /\ k + 1 = 5 => b <= 1
<1>1. k + 1 <= 4 => k <= 4
  OBVIOUS
<1>2. k + 1 = 5 => k <= 4
  OBVIOUS
<1>3. 0 <= 1
  OBVIOUS
<1>4. k + 1 = 5 => b = 0
  BY <1>2
<1>5. QED
  BY <1>1, <1>3, <1>4

\* What is not routed is not reported as a success.
LEMMA UnroutedEarned ==
    ASSUME SuccessIsEarned, st' = st \/ st'.terminal_route = None
    PROVE  SuccessIsEarned'
<1>1. CASE st' = st
  BY <1>1 DEF SuccessIsEarned
<1>2. CASE st'.terminal_route = None
  BY <1>2 DEF SuccessIsEarned, None
<1>3. QED
  BY <1>1, <1>2

LEMMA QuietNode ==
    ASSUME IInv,
           NEW n \in NodeName, n # "route_result", Runs(n), NEW succeeds,
           NEW good, Update(good), KeepsAttempt(good),
           NEW bad, Update(bad), KeepsAttempt(bad),
           Node(n, succeeds, good, bad), UNCHANGED << provider, billed >>
    PROVE  IInv'
<1>1. /\ Advances
      /\ graph' = "running" => Len(st'.completed_nodes) = Len(st.completed_nodes) + 1
  BY NodeAdvances DEF IInv
<1>2. TypeOK' /\ Valid(st)' /\ Position'
  BY <1>1 DEF IInv, TypeOK, Advances
<1>3. BillingBound'
  <2>1. SUFFICES ASSUME graph' = "running"
                 PROVE  /\ Len(st'.completed_nodes) <= 4 => billed = 0
                        /\ Len(st'.completed_nodes) = 5 => billed <= 1
    BY DEF BillingBound
  <2>2. PICK k \in Nat : k = Len(st.completed_nodes)
    BY LenTyped DEF IInv, TypeOK
  <2>3. /\ k <= 4 => billed = 0
        /\ k = 5 => billed <= 1
    BY <2>2 DEF IInv, BillingBound, Runs
  <2>4. /\ k + 1 <= 4 => billed = 0
        /\ k + 1 = 5 => billed <= 1
    BY <2>3, LaterBilling
  <2>5. QED
    BY <1>1, <2>1, <2>2, <2>4
<1>4. AttemptInv'
  <2>1. /\ st'.proposal = st.proposal
        /\ st'.repair_plan = st.repair_plan
        /\ st'.attempt_number = st.attempt_number
    <3>1. ASSUME NEW s, Update(s), KeepsAttempt(s), st' = Completing(s, n)
          PROVE  /\ st'.proposal = st.proposal
                 /\ st'.repair_plan = st.repair_plan
                 /\ st'.attempt_number = st.attempt_number
      BY <3>1 DEF Completing, Update, KeepsAttempt, OrchestrationState
    <3>2. QED
      BY <3>1, NodeOutcome DEF Completes, Raise
  <2>2. QED
    BY <2>1 DEF IInv, AttemptInv
<1>5. SuccessIsEarned'
  BY <1>1, UnroutedEarned DEF Advances, IInv
<1>6. QED
  BY <1>2, <1>3, <1>4, <1>5 DEF IInv

LEMMA FailedQuiet ==
    ASSUME TypeOK
    PROVE  Update(Failed) /\ KeepsAttempt(Failed)
BY DEF TypeOK, Failed, Overridden, Update, KeepsAttempt, OrchestrationState, TerminalOutcome, Infra

LEMMA prepare_repository_IInv ==
    ASSUME IInv, prepare_repository
    PROVE  IInv'
<1>1. PICK prepared \in BOOLEAN :
        Node("prepare_repository",
             prepared,
             [st EXCEPT !.preparation = TRUE],
             Failed)
  BY DEF prepare_repository
<1> DEFINE good == [st EXCEPT !.preparation = TRUE]
<1>2. Update(good) /\ KeepsAttempt(good)
  BY ZenonT(60) DEF IInv, TypeOK, Update, KeepsAttempt, OrchestrationState
<1>3. "prepare_repository" \in NodeName
  BY NodeNameCases DEF NodeName
<1>4. Runs("prepare_repository") /\ UNCHANGED << provider, billed >>
  BY DEF prepare_repository
<1>5. \E succeeds : Node("prepare_repository", succeeds, good, Failed)
  BY <1>1
<1> HIDE DEF good
<1>6. QED
  BY <1>2, <1>3, <1>4, <1>5, FailedQuiet, QuietNode DEF IInv

LEMMA run_baseline_IInv ==
    ASSUME IInv, run_baseline
    PROVE  IInv'
<1>1. PICK outcome \in BaselineOutcome, runs \in BOOLEAN, clock \in ClockReading :
        Node("run_baseline",
             st.preparation /\ runs /\ clock # "fails",
             [st EXCEPT !.baseline = outcome,
                     !.legacy_state = [@ EXCEPT !.baseline_result = outcome,
                                                !.status = "baseline_complete"]],
             Failed)
  BY DEF run_baseline
<1> DEFINE good == [st EXCEPT !.baseline = outcome,
                     !.legacy_state = [@ EXCEPT !.baseline_result = outcome,
                                                !.status = "baseline_complete"]]
<1>2. Update(good) /\ KeepsAttempt(good)
  <2> DEFINE legacy == [st.legacy_state EXCEPT !.baseline_result = outcome,
                                               !.status = "baseline_complete"]
  <2>1. legacy \in LegacyState
    BY DEF IInv, TypeOK, OrchestrationState, LegacyState, RepairStatus
  <2> HIDE DEF legacy
  <2>2. Update([st EXCEPT !.baseline = outcome, !.legacy_state = legacy])
    BY <2>1 DEF IInv, TypeOK, Update, OrchestrationState
  <2>3. KeepsAttempt([st EXCEPT !.baseline = outcome, !.legacy_state = legacy])
    BY DEF IInv, TypeOK, KeepsAttempt, OrchestrationState
  <2>4. QED
    BY <2>2, <2>3 DEF legacy
<1>3. "run_baseline" \in NodeName
  BY NodeNameCases DEF NodeName
<1>4. Runs("run_baseline") /\ UNCHANGED << provider, billed >>
  BY DEF run_baseline
<1>5. \E succeeds : Node("run_baseline", succeeds, good, Failed)
  BY <1>1
<1> HIDE DEF good
<1>6. QED
  BY <1>2, <1>3, <1>4, <1>5, FailedQuiet, QuietNode DEF IInv

LEMMA classify_failure_IInv ==
    ASSUME IInv, classify_failure
    PROVE  IInv'
<1> DEFINE good == [st EXCEPT !.failure_analysis = TRUE,
                             !.legacy_state = [@ EXCEPT !.failure_analysis = TRUE,
                                                        !.status = "analysis_complete"]]
<1>1. \E succeeds : Node("classify_failure", succeeds, good, Failed)
  BY DEF classify_failure
<1>2. Update(good) /\ KeepsAttempt(good)
  <2> DEFINE legacy == [st.legacy_state EXCEPT !.failure_analysis = TRUE,
                                               !.status = "analysis_complete"]
  <2>1. legacy \in LegacyState
    BY DEF IInv, TypeOK, OrchestrationState, LegacyState, RepairStatus
  <2> HIDE DEF legacy
  <2>2. Update([st EXCEPT !.failure_analysis = TRUE, !.legacy_state = legacy])
    BY ZenonT(60), <2>1 DEF IInv, TypeOK, Update, OrchestrationState
  <2>3. KeepsAttempt([st EXCEPT !.failure_analysis = TRUE, !.legacy_state = legacy])
    BY DEF IInv, TypeOK, KeepsAttempt, OrchestrationState
  <2>4. QED
    BY <2>2, <2>3 DEF legacy
<1>3. "classify_failure" \in NodeName
  BY NodeNameCases DEF NodeName
<1>4. Runs("classify_failure") /\ UNCHANGED << provider, billed >>
  BY DEF classify_failure
<1> HIDE DEF good
<1>5. QED
  BY <1>1, <1>2, <1>3, <1>4, FailedQuiet, QuietNode DEF IInv

LEMMA select_relevant_context_IInv ==
    ASSUME IInv, select_relevant_context
    PROVE  IInv'
<1>1. PICK selected \in BOOLEAN :
        Node("select_relevant_context",
             st.baseline # None /\ st.failure_analysis /\ selected,
             [st EXCEPT !.context = TRUE],
             Failed)
  BY DEF select_relevant_context
<1> DEFINE good == [st EXCEPT !.context = TRUE]
<1>2. Update(good) /\ KeepsAttempt(good)
  BY ZenonT(60) DEF IInv, TypeOK, Update, KeepsAttempt, OrchestrationState
<1>3. "select_relevant_context" \in NodeName
  BY NodeNameCases DEF NodeName
<1>4. Runs("select_relevant_context") /\ UNCHANGED << provider, billed >>
  BY DEF select_relevant_context
<1>5. \E succeeds : Node("select_relevant_context", succeeds, good, Failed)
  BY <1>1
<1> HIDE DEF good
<1>6. QED
  BY <1>2, <1>3, <1>4, <1>5, FailedQuiet, QuietNode DEF IInv

LEMMA validate_patch_policy_IInv ==
    ASSUME IInv, validate_patch_policy
    PROVE  IInv'
<1>1. PICK result \in {"approved", "rejected"}, validated \in BOOLEAN :
        Node("validate_patch_policy",
             st.proposal /\ st.context /\ validated,
             [st EXCEPT !.policy_result = result],
             Failed)
  BY DEF validate_patch_policy
<1> DEFINE good == [st EXCEPT !.policy_result = result]
<1>2. Update(good) /\ KeepsAttempt(good)
  BY DEF IInv, TypeOK, Update, KeepsAttempt, OrchestrationState
<1>3. "validate_patch_policy" \in NodeName
  BY NodeNameCases DEF NodeName
<1>4. Runs("validate_patch_policy") /\ UNCHANGED << provider, billed >>
  BY DEF validate_patch_policy
<1>5. \E succeeds : Node("validate_patch_policy", succeeds, good, Failed)
  BY <1>1
<1> HIDE DEF good
<1>6. QED
  BY <1>2, <1>3, <1>4, <1>5, FailedQuiet, QuietNode DEF IInv

LEMMA run_static_checks_IInv ==
    ASSUME IInv, run_static_checks
    PROVE  IInv'
<1>1. PICK outcome \in StageOutcome, checked \in BOOLEAN, intact \in BOOLEAN :
        Node("run_static_checks",
             /\ st.preparation /\ st.proposal /\ st.policy_result = "approved"
               /\ checked /\ (outcome = "PASSED" => intact),
             [st EXCEPT !.static_result = outcome],
             Failed)
  BY DEF run_static_checks
<1> DEFINE good == [st EXCEPT !.static_result = outcome]
<1>2. Update(good) /\ KeepsAttempt(good)
  BY DEF IInv, TypeOK, Update, KeepsAttempt, OrchestrationState, StageOutcome
<1>3. "run_static_checks" \in NodeName
  BY NodeNameCases DEF NodeName
<1>4. Runs("run_static_checks") /\ UNCHANGED << provider, billed >>
  BY DEF run_static_checks
<1>5. \E succeeds : Node("run_static_checks", succeeds, good, Failed)
  BY <1>1
<1> HIDE DEF good
<1>6. QED
  BY <1>2, <1>3, <1>4, <1>5, FailedQuiet, QuietNode DEF IInv

LEMMA verify_in_sandbox_IInv ==
    ASSUME IInv, verify_in_sandbox
    PROVE  IInv'
<1>1. PICK outcome \in StageOutcome, verified \in BOOLEAN :
        Node("verify_in_sandbox",
             st.static_result = "PASSED" /\ verified,
             [st EXCEPT !.verification_result = outcome],
             Failed)
  BY DEF verify_in_sandbox
<1> DEFINE good == [st EXCEPT !.verification_result = outcome]
<1>2. Update(good) /\ KeepsAttempt(good)
  BY DEF IInv, TypeOK, Update, KeepsAttempt, OrchestrationState, StageOutcome
<1>3. "verify_in_sandbox" \in NodeName
  BY NodeNameCases DEF NodeName
<1>4. Runs("verify_in_sandbox") /\ UNCHANGED << provider, billed >>
  BY DEF verify_in_sandbox
<1>5. \E succeeds : Node("verify_in_sandbox", succeeds, good, Failed)
  BY <1>1
<1> HIDE DEF good
<1>6. QED
  BY <1>2, <1>3, <1>4, <1>5, FailedQuiet, QuietNode DEF IInv

LEMMA evaluate_candidate_IInv ==
    ASSUME IInv, evaluate_candidate
    PROVE  IInv'
<1>1. PICK evaluated \in BOOLEAN :
        Node("evaluate_candidate",
             st.proposal /\ st.verification_result # None /\ evaluated,
             [st EXCEPT !.evaluation_result = FunctionalStatusOf(st.verification_result),
                     !.evaluation_usage = st.model_usage],
             Failed)
  BY DEF evaluate_candidate
<1> DEFINE good == [st EXCEPT !.evaluation_result = FunctionalStatusOf(st.verification_result),
                     !.evaluation_usage = st.model_usage]
<1>2. Update(good) /\ KeepsAttempt(good)
  BY DEF IInv, TypeOK, Update, KeepsAttempt, OrchestrationState, FunctionalStatusOf, FunctionalStatus
<1>3. "evaluate_candidate" \in NodeName
  BY NodeNameCases DEF NodeName
<1>4. Runs("evaluate_candidate") /\ UNCHANGED << provider, billed >>
  BY DEF evaluate_candidate
<1>5. \E succeeds : Node("evaluate_candidate", succeeds, good, Failed)
  BY <1>1
<1> HIDE DEF good
<1>6. QED
  BY <1>2, <1>3, <1>4, <1>5, FailedQuiet, QuietNode DEF IInv


(***************************************************************************)
(* The two nodes that call the provider.                                    *)
(***************************************************************************)
LEMMA WithUsageTyped ==
    ASSUME NEW s \in OrchestrationState, NEW calls \in 0..2
    PROVE  /\ WithUsage(s, calls) \in OrchestrationState
           /\ WithUsage(s, calls).completed_nodes = s.completed_nodes
           /\ WithUsage(s, calls).proposal = s.proposal
           /\ WithUsage(s, calls).repair_plan = s.repair_plan
           /\ WithUsage(s, calls).attempt_number = s.attempt_number
<1>1. calls \in UsageValue
  BY DEF UsageValue, NoUsage
<1>2. QED
  BY <1>1 DEF WithUsage, OrchestrationState

LEMMA SpentAttemptTyped ==
    ASSUME TypeOK, NEW outcome \in TerminalOutcome, NEW clock, NEW raises \in BOOLEAN,
           NEW calls \in 0..2
    PROVE  LET s == SpentAttempt(outcome, clock, raises, calls)
           IN  /\ Update(s) /\ s.attempt_number = 1
               /\ s.proposal = st.proposal /\ s.repair_plan = st.repair_plan
<1> DEFINE legacy == [st.legacy_state EXCEPT !.attempt_number = 1]
           spent == [st EXCEPT !.attempt_number = 1, !.legacy_state = legacy]
<1>1. legacy \in LegacyState
  BY DEF TypeOK, OrchestrationState, LegacyState
<1> HIDE DEF legacy
<1>2. /\ spent \in OrchestrationState /\ spent.attempt_number = 1
      /\ spent.completed_nodes = st.completed_nodes
      /\ spent.proposal = st.proposal /\ spent.repair_plan = st.repair_plan
  <2>1. 1 \in 0..1
    OBVIOUS
  <2>2. spent \in OrchestrationState
    BY <1>1, <2>1 DEF TypeOK, OrchestrationState
  <2>3. spent.attempt_number = 1
    BY DEF TypeOK, OrchestrationState
  <2>4. QED
    BY <2>2, <2>3 DEF TypeOK, OrchestrationState
<1>3. spent = [st EXCEPT !.attempt_number = 1, !.legacy_state.attempt_number = 1]
  BY DEF legacy, TypeOK, OrchestrationState, LegacyState
<1> HIDE DEF spent
<1>4. PICK why \in TerminalOutcome :
        SpentAttempt(outcome, clock, raises, calls)
          = Overridden(IF raises THEN spent ELSE WithUsage(spent, calls), why)
  BY <1>3 DEF SpentAttempt, TerminalOutcome, Infra
<1>5. ASSUME NEW s \in OrchestrationState
      PROVE  /\ Overridden(s, why) \in OrchestrationState
             /\ Overridden(s, why).completed_nodes = s.completed_nodes
             /\ Overridden(s, why).proposal = s.proposal
             /\ Overridden(s, why).repair_plan = s.repair_plan
             /\ Overridden(s, why).attempt_number = s.attempt_number
  BY DEF Overridden, OrchestrationState
<1>6. CASE raises
  BY <1>2, <1>4, <1>5, <1>6 DEF Update
<1>7. CASE ~raises
  BY <1>2, <1>4, <1>5, <1>7, WithUsageTyped DEF Update
<1>8. QED
  BY <1>6, <1>7

LEMMA CountedBound ==
    ASSUME NEW answer, NEW b \in 0..1, billed = b
    PROVE  Counted(answer) \in 0..2 /\ (b = 0 => Counted(answer) <= 1)
BY DEF Counted

AttemptRecorded(s) ==
    /\ s.proposal => s.repair_plan = "suitable"
    /\ s.repair_plan # None => s.attempt_number = 1

LEMMA ModelNode ==
    ASSUME IInv,
           NEW n \in NodeName, n = "plan_repair" \/ n = "generate_patch", Runs(n),
           NEW succeeds, NEW good, succeeds => Update(good) /\ AttemptRecorded(good),
           NEW bad, Update(bad), AttemptRecorded(bad),
           Node(n, succeeds, good, bad), provider' = provider,
           billed' \in 0..2, n = "plan_repair" => billed' <= 1
    PROVE  IInv'
<1>1. /\ Advances
      /\ graph' = "running" => Len(st'.completed_nodes) = Len(st.completed_nodes) + 1
  <2>1. succeeds => Update(good)
    OBVIOUS
  <2>2. n # "route_result"
    OBVIOUS
  <2>3. QED
    BY <2>1, <2>2, NodeAdvances DEF IInv
<1>2. TypeOK' /\ Valid(st)' /\ Position'
  BY <1>1 DEF IInv, TypeOK, Advances
<1>3. BillingBound'
  <2>1. SUFFICES ASSUME graph' = "running"
                 PROVE  /\ Len(st'.completed_nodes) <= 4 => billed' = 0
                        /\ Len(st'.completed_nodes) = 5 => billed' <= 1
    BY DEF BillingBound
  <2>2. PICK k \in 0..9 : /\ k = Len(st.completed_nodes)
                          /\ n = "plan_repair" => k = 4
                          /\ n = "generate_patch" => k = 5
    BY RunningNodes DEF IInv, TypeOK, Runs
  <2>3. CASE n = "plan_repair"
    <3>1. Len(st'.completed_nodes) = 5
      <4>1. Len(st.completed_nodes) = 4
        BY <2>2, <2>3
      <4>2. Len(st'.completed_nodes) = 4 + 1
        BY <1>1, <2>1, <4>1
      <4>3. QED
        BY <4>2
    <3>2. ~(5 <= 4)
      OBVIOUS
    <3>3. QED
      BY <2>3, <3>1, <3>2
  <2>4. CASE n = "generate_patch"
    <3>1. Len(st'.completed_nodes) = 6
      <4>1. Len(st.completed_nodes) = 5
        BY <2>2, <2>4
      <4>2. Len(st'.completed_nodes) = 5 + 1
        BY <1>1, <2>1, <4>1
      <4>3. QED
        BY <4>2
    <3>2. ~(6 <= 4) /\ 6 # 5
      OBVIOUS
    <3>3. QED
      BY <3>1, <3>2
  <2>5. QED
    BY <2>3, <2>4
<1>4. AttemptInv'
  <2>1. ASSUME NEW s, Update(s), AttemptRecorded(s), st' = Completing(s, n)
        PROVE  AttemptInv'
    BY <2>1 DEF Completing, Update, AttemptRecorded, AttemptInv, OrchestrationState
  <2>2. CASE Raise
    BY <2>2 DEF Raise, IInv, AttemptInv
  <2>3. CASE Completes(n, good) /\ succeeds
    <3>1. Update(good) /\ AttemptRecorded(good)
      BY <2>3
    <3>2. QED
      BY <2>1, <2>3, <3>1 DEF Completes
  <2>4. CASE Completes(n, bad)
    BY <2>1, <2>4 DEF Completes
  <2>5. QED
    BY <2>2, <2>3, <2>4, NodeOutcome
<1>5. SuccessIsEarned'
  BY <1>1, UnroutedEarned DEF Advances, IInv
<1>6. QED
  BY <1>2, <1>3, <1>4, <1>5 DEF IInv

LEMMA plan_repair_IInv ==
    ASSUME IInv, plan_repair
    PROVE  IInv'
<1> DEFINE legacy(answer) == [st.legacy_state EXCEPT !.repair_plan = answer, !.attempt_number = 1,
                                                     !.status = "plan_complete"]
           planned(answer) == [st EXCEPT !.repair_plan = answer, !.legacy_state = legacy(answer),
                                         !.attempt_number = 1]
<1>1. PICK answer \in (IF st.context /\ st.model_configuration /\ provider # None
                       THEN Plan \cup ModelFault ELSE {None}),
           clock \in ClockReading, clockAfter \in ClockReading,
           raises \in SnapshotRaises, raisesAfter \in SnapshotRaises :
        LET calls == IF st.context /\ st.model_configuration /\ provider # None
                     THEN Counted(answer) ELSE billed
        IN  /\ billed' = calls
            /\ Node("plan_repair",
                    (answer \in Plan /\ AcceptsPlan(st.legacy_state)) /\ clock # "fails" /\ ~raises,
                    WithUsage(planned(answer), calls),
                    SpentAttempt(IF answer \in Plan THEN Infra ELSE ModelFailure(answer),
                                 clockAfter, raisesAfter, calls))
  BY DEF plan_repair
<1>2. PICK calls \in {billed, Counted(answer)}, outcome \in TerminalOutcome :
        /\ billed' = calls
        /\ Node("plan_repair",
                (answer \in Plan /\ AcceptsPlan(st.legacy_state)) /\ clock # "fails" /\ ~raises,
                WithUsage(planned(answer), calls),
                SpentAttempt(outcome, clockAfter, raisesAfter, calls))
  <2>1. (IF answer \in Plan THEN Infra ELSE ModelFailure(answer)) \in TerminalOutcome
    BY DEF ModelFailure, TerminalOutcome, Infra
  <2> HIDE DEF planned
  <2>2. QED
    BY <1>1, <2>1
<1>3. raisesAfter \in BOOLEAN
  BY DEF SnapshotRaises
<1>4. billed = 0 /\ calls \in 0..2 /\ calls <= 1
  <2>1. PICK k \in 0..9 : k = Len(st.completed_nodes) /\ k = 4
    BY RunningNodes DEF IInv, TypeOK, plan_repair, Runs
  <2>2. Len(st.completed_nodes) <= 4
    BY <2>1
  <2>3. billed = 0
    BY <2>2 DEF IInv, BillingBound, plan_repair, Runs
  <2>4. 0 \in 0..1 /\ 0 \in 0..2 /\ 0 <= 1
    OBVIOUS
  <2>5. Counted(answer) \in 0..2 /\ Counted(answer) <= 1
    BY <2>3, <2>4, CountedBound
  <2>6. QED
    BY <2>3, <2>4, <2>5
<1>5. LET bad == SpentAttempt(outcome, clockAfter, raisesAfter, calls)
      IN  Update(bad) /\ AttemptRecorded(bad)
  BY <1>3, <1>4, SpentAttemptTyped DEF IInv, AttemptInv, AttemptRecorded
<1>6. ASSUME answer \in Plan, AcceptsPlan(st.legacy_state)
      PROVE  LET good == WithUsage(planned(answer), calls)
             IN  Update(good) /\ AttemptRecorded(good)
  <2>1. 1 \in 0..1
    OBVIOUS
  <2>2. legacy(answer) \in LegacyState
    BY <1>6, <2>1 DEF IInv, TypeOK, OrchestrationState, LegacyState, RepairStatus
  <2> HIDE DEF legacy
  <2>3. planned(answer) \in OrchestrationState
    BY <1>6, <2>1, <2>2 DEF IInv, TypeOK, OrchestrationState
  <2>4. /\ planned(answer).completed_nodes = st.completed_nodes
        /\ planned(answer).proposal = st.proposal
        /\ planned(answer).attempt_number = 1
    BY DEF IInv, TypeOK, OrchestrationState
  <2>5. ~st.proposal
    BY <1>6 DEF AcceptsPlan, IInv, Valid, ValidDependencies
  <2> HIDE DEF planned
  <2>6. QED
    BY <1>4, <2>3, <2>4, <2>5, WithUsageTyped DEF Update, AttemptRecorded
<1>7. "plan_repair" \in NodeName
  BY NodeNameCases DEF NodeName
<1>8. Runs("plan_repair") /\ provider' = provider
  BY DEF plan_repair
<1> HIDE DEF planned
<1>9. QED
  BY <1>2, <1>4, <1>5, <1>6, <1>7, <1>8, ModelNode

LEMMA generate_patch_IInv ==
    ASSUME IInv, generate_patch
    PROVE  IInv'
<1> DEFINE callable == st.context /\ st.repair_plan # None /\ st.model_configuration
                         /\ provider # None
           called == callable /\ st.repair_plan = "suitable"
           legacy == [st.legacy_state EXCEPT !.candidate_patch = TRUE,
                                             !.status = "patch_proposed"]
           proposed == [st EXCEPT !.proposal = TRUE, !.legacy_state = legacy]
<1>1. PICK answer \in (IF callable THEN PatchAnswer(st.repair_plan) ELSE {None}),
           clock \in ClockReading, raises \in SnapshotRaises, raisesAfter \in SnapshotRaises :
        LET calls == IF called THEN Counted(answer) ELSE billed
        IN  /\ billed' = calls
            /\ Node("generate_patch",
                    (answer = "proposal" /\ AcceptsProposal(st.legacy_state))
                      /\ clock # "fails" /\ ~raises,
                    WithUsage(proposed, calls),
                    Overridden(IF raisesAfter THEN st ELSE WithUsage(st, calls),
                               IF answer = "proposal" \/ raisesAfter THEN Infra
                               ELSE ModelFailure(answer)))
  BY DEF generate_patch
<1> HIDE DEF proposed, callable, called
<1>2. PICK calls \in {billed, Counted(answer)}, outcome \in TerminalOutcome :
        /\ billed' = calls
        /\ Node("generate_patch",
                (answer = "proposal" /\ AcceptsProposal(st.legacy_state))
                  /\ clock # "fails" /\ ~raises,
                WithUsage(proposed, calls),
                Overridden(IF raisesAfter THEN st ELSE WithUsage(st, calls), outcome))
  <2>1. (IF answer = "proposal" \/ raisesAfter THEN Infra ELSE ModelFailure(answer))
          \in TerminalOutcome
    BY DEF ModelFailure, TerminalOutcome, Infra
  <2>2. QED
    BY <1>1, <2>1
<1>3. raisesAfter \in BOOLEAN
  BY DEF SnapshotRaises
<1>4. calls \in 0..2
  <2>1. PICK k \in 0..9 : k = Len(st.completed_nodes) /\ k = 5
    BY RunningNodes DEF IInv, TypeOK, generate_patch, Runs
  <2>2. Len(st.completed_nodes) = 5
    BY <2>1
  <2>3. billed \in 0..2 /\ billed <= 1
    BY <2>2 DEF IInv, TypeOK, BillingBound, generate_patch, Runs
  <2>4. billed \in 0..1
    BY <2>3
  <2>5. Counted(answer) \in 0..2
    BY <2>4, CountedBound
  <2>6. QED
    BY <2>3, <2>5
<1>5. LET bad == Overridden(IF raisesAfter THEN st ELSE WithUsage(st, calls), outcome)
      IN  Update(bad) /\ AttemptRecorded(bad)
  <2>1. st \in OrchestrationState /\ AttemptRecorded(st)
    BY DEF IInv, TypeOK, AttemptInv, AttemptRecorded
  <2>2. ASSUME NEW s \in OrchestrationState, s.completed_nodes = st.completed_nodes,
               AttemptRecorded(s)
        PROVE  Update(Overridden(s, outcome)) /\ AttemptRecorded(Overridden(s, outcome))
    BY <2>2 DEF Overridden, Update, AttemptRecorded, OrchestrationState
  <2>3. /\ WithUsage(st, calls) \in OrchestrationState
        /\ WithUsage(st, calls).completed_nodes = st.completed_nodes
        /\ AttemptRecorded(WithUsage(st, calls))
    BY <1>4, <2>1, WithUsageTyped DEF AttemptRecorded
  <2>4. CASE raisesAfter
    BY <2>1, <2>2, <2>4
  <2>5. CASE ~raisesAfter
    BY <2>2, <2>3, <2>5
  <2>6. QED
    BY <1>3, <2>4, <2>5
<1>6. ASSUME AcceptsProposal(st.legacy_state)
      PROVE  Update(WithUsage(proposed, calls)) /\ AttemptRecorded(WithUsage(proposed, calls))
  <2>1. legacy \in LegacyState
    BY DEF IInv, TypeOK, OrchestrationState, LegacyState, RepairStatus
  <2>2. st.repair_plan = "suitable"
    BY <1>6 DEF AcceptsProposal
  <2>3. st.attempt_number = 1
    BY <2>2 DEF IInv, AttemptInv, None
  <2> HIDE DEF legacy
  <2>4. /\ proposed \in OrchestrationState
        /\ proposed.completed_nodes = st.completed_nodes
        /\ proposed.repair_plan = st.repair_plan
        /\ proposed.attempt_number = st.attempt_number
    BY ZenonT(60), <2>1 DEF IInv, TypeOK, OrchestrationState, proposed
  <2>5. QED
    BY <1>4, <2>2, <2>3, <2>4, WithUsageTyped DEF Update, AttemptRecorded
<1>7. "generate_patch" \in NodeName
  BY NodeNameCases DEF NodeName
<1>8. Runs("generate_patch") /\ provider' = provider /\ billed' \in 0..2
  BY <1>2, <1>4 DEF generate_patch
<1>9. QED
  BY <1>2, <1>5, <1>6, <1>7, <1>8, ModelNode

(***************************************************************************)
(* route_result, interruption and the initial state.                        *)
(***************************************************************************)
EvidenceFields ==
    { "failure_override", "preparation", "baseline", "failure_analysis", "context",
      "repair_plan", "proposal", "policy_result", "static_result", "verification_result",
      "evaluation_result" }

\* The success route is taken from passing evidence of the last stages; the
\* validator then vouches for the nodes before them.
LEMMA RoutedSuccess ==
    ASSUME RoutingEvidenceValid(st), NEW s \in OrchestrationState, Valid(s),
           s.terminal_route = route_terminal(st),
           \A f \in EvidenceFields : s[f] = st[f],
           s.proposal => s.repair_plan = "suitable", s.repair_plan # None => s.attempt_number = 1
    PROVE  s.terminal_route = "SUCCESS" =>
               /\ \A k \in 1..10 : Passing(s)[k] /\ s.completed_nodes[k] = NodeNames[k]
               /\ s.attempt_number = 1 /\ s.failure_override = None
<1>1. SUFFICES ASSUME s.terminal_route = "SUCCESS"
               PROVE  /\ \A k \in 1..10 : Passing(s)[k] /\ s.completed_nodes[k] = NodeNames[k]
                      /\ s.attempt_number = 1 /\ s.failure_override = None
  OBVIOUS
<1>2. s.failure_override = None /\ EvidenceOutcome(st) = "SUCCESS"
  <2>1. st.failure_override # "SUCCESS"
    BY DEF RoutingEvidenceValid
  <2>2. st.failure_override = None
    BY <1>1, <2>1 DEF route_terminal
  <2>3. QED
    BY <1>1, <2>2 DEF route_terminal, EvidenceFields
<1>3. /\ s.baseline = "REPRODUCED_FAILURE" /\ s.policy_result = "approved"
      /\ s.static_result = "PASSED" /\ s.verification_result = "PASSED"
      /\ s.evaluation_result = "PASSED"
  <2>1. /\ st.baseline = "REPRODUCED_FAILURE" /\ st.policy_result = "approved"
        /\ st.static_result = "PASSED" /\ st.verification_result = "PASSED"
        /\ st.evaluation_result = "PASSED"
    BY <1>2 DEF EvidenceOutcome, Infra
  <2>2. QED
    BY <2>1 DEF EvidenceFields
<1>4. PICK m \in Nat : m = Len(s.completed_nodes)
  BY LenTyped
<1>5. Executed(s) = m - 1
  BY <1>1, <1>4 DEF Valid, ValidTerminal, Executed, None
<1>6. 10 <= m - 1
  <2>1. Evidence(s)[10]
    BY <1>3, Zenon DEF Evidence, None
  <2>2. 10 \in 1..10
    OBVIOUS
  <2>3. 10 <= Executed(s)
    BY <2>1, <2>2, Zenon DEF Valid, ValidEvidence
  <2>4. QED
    BY <1>5, <2>3
<1>7. ASSUME NEW i \in 1..10
      PROVE  Evidence(s)[i]
  <2>1. i <= m - 1
    BY <1>6
  <2>2. i <= Executed(s)
    BY <1>5, <2>1
  <2>3. QED
    BY <1>2, <2>2, Zenon DEF Valid, ValidEvidence
<1>8. Evidence(s)[1] /\ Evidence(s)[3] /\ Evidence(s)[4] /\ Evidence(s)[5] /\ Evidence(s)[6]
  BY <1>7
<1>9. /\ s.preparation /\ s.failure_analysis /\ s.context /\ s.repair_plan # None
      /\ s.proposal
  BY <1>8, Zenon DEF Evidence
<1>10. s.repair_plan = "suitable" /\ s.attempt_number = 1
  BY <1>9
<1>11. ASSUME NEW k \in 1..10
       PROVE  Passing(s)[k]
  <2>1. /\ Passing(s)[1] /\ Passing(s)[2] /\ Passing(s)[3] /\ Passing(s)[4] /\ Passing(s)[5]
        /\ Passing(s)[6] /\ Passing(s)[7] /\ Passing(s)[8] /\ Passing(s)[9] /\ Passing(s)[10]
    BY <1>3, <1>9, <1>10, Zenon DEF Passing
  <2>2. \/ k = 1 \/ k = 2 \/ k = 3 \/ k = 4 \/ k = 5
        \/ k = 6 \/ k = 7 \/ k = 8 \/ k = 9 \/ k = 10
    OBVIOUS
  <2>3. QED
    BY <2>1, <2>2, Zenon
<1>12. ASSUME NEW k \in 1..10
       PROVE  s.completed_nodes[k] = NodeNames[k]
  <2>1. k \in 1..m /\ k # m
    BY <1>6
  <2>2. k \in 1..Len(s.completed_nodes) /\ k # Len(s.completed_nodes)
    BY <1>4, <2>1
  <2>3. QED
    BY <2>2 DEF Valid, ValidExecution
<1>13. QED
  BY <1>2, <1>10, <1>11, <1>12

LEMMA RoutedTyped ==
    ASSUME NEW s \in OrchestrationState, NEW r \in TerminalOutcome,
           NEW c \in {"ontime", "early"}
    PROVE  LET t == [s EXCEPT !.terminal_route = r, !.completed_at = c]
           IN  /\ t \in OrchestrationState
               /\ t.proposal = s.proposal
               /\ t.repair_plan = s.repair_plan
               /\ t.attempt_number = s.attempt_number
<1> DEFINE t1 == [s EXCEPT !.terminal_route = r]
           t2 == [t1 EXCEPT !.completed_at = c]
<1>1. /\ t1 \in OrchestrationState
      /\ t1.proposal = s.proposal /\ t1.repair_plan = s.repair_plan
      /\ t1.attempt_number = s.attempt_number
  BY SMTT(60) DEF OrchestrationState
<1> HIDE DEF t1
<1>2. /\ t2 \in OrchestrationState
      /\ t2.proposal = t1.proposal /\ t2.repair_plan = t1.repair_plan
      /\ t2.attempt_number = t1.attempt_number
  BY <1>1, SMTT(60) DEF OrchestrationState
<1>3. t2 = [s EXCEPT !.terminal_route = r, !.completed_at = c]
  BY Zenon DEF t1
<1>4. QED
  BY <1>1, <1>2, <1>3, Zenon

LEMMA route_result_IInv ==
    ASSUME IInv, route_result
    PROVE  IInv'
<1> DEFINE routed(clock) == [st EXCEPT !.terminal_route = route_terminal(st),
                                       !.completed_at = clock]
<1>1. provider' = provider /\ billed' = billed
  BY DEF route_result
<1>2. PICK clock \in ClockReading :
        \/ /\ clock # "fails" /\ RoutingEvidenceValid(st)
           /\ Completes("route_result", routed(clock))
        \/ Raise
  BY DEF route_result, Commit, Finishes, Completes
<1>3. CASE Raise
  BY <1>1, <1>3 DEF Raise, IInv, TypeOK, Position, BillingBound, AttemptInv, SuccessIsEarned
<1>4. CASE /\ clock # "fails" /\ RoutingEvidenceValid(st)
           /\ Completes("route_result", routed(clock))
  <2>1. route_terminal(st) \in TerminalOutcome
    <3>1. EvidenceOutcome(st) \in TerminalOutcome
      BY DEF EvidenceOutcome, TerminalOutcome, Infra
    <3>2. QED
      BY <3>1 DEF route_terminal, IInv, TypeOK, OrchestrationState
  <2>2. /\ routed(clock) \in OrchestrationState
        /\ routed(clock).proposal = st.proposal
        /\ routed(clock).repair_plan = st.repair_plan
        /\ routed(clock).attempt_number = st.attempt_number
    <3>1. st \in OrchestrationState
      BY DEF IInv, TypeOK
    <3>2. clock \in {"ontime", "early"}
      BY <1>4 DEF ClockReading
    <3>3. QED
      BY <2>1, <3>1, <3>2, RoutedTyped
  <2> HIDE DEF routed
  <2>3. "route_result" \in NodeName
    BY NodeNameCases DEF NodeName
  <2>4. st' \in OrchestrationState
    BY <1>4, <2>2, <2>3, CompletingTyped DEF Completes
  <2>5. AttemptInv'
    BY <1>4, <2>2 DEF Completes, Completing, OrchestrationState, IInv, AttemptInv
  <2>6. graph' = "returned" /\ node' = "END" /\ Valid(st')
    BY <1>4 DEF Completes, After
  <2>7. SuccessIsEarned'
    <3>1. /\ st'.terminal_route = route_terminal(st)
          /\ \A f \in EvidenceFields : st'[f] = st[f]
      BY <1>4 DEF Completes, Completing, routed, EvidenceFields, IInv, TypeOK, OrchestrationState
    <3>2. QED
      <4>1. /\ st'.proposal => st'.repair_plan = "suitable"
            /\ st'.repair_plan # None => st'.attempt_number = 1
        BY <2>5 DEF AttemptInv
      <4>2. st'.terminal_route = "SUCCESS" =>
                /\ \A k \in 1..10 : Passing(st')[k] /\ st'.completed_nodes[k] = NodeNames[k]
                /\ st'.attempt_number = 1 /\ st'.failure_override = None
        BY <1>4, <2>4, <2>6, <3>1, <4>1, RoutedSuccess
      <4>3. QED
        BY <4>2 DEF SuccessIsEarned
  <2>8. QED
    BY <1>1, <2>4, <2>5, <2>6, <2>7 DEF IInv, TypeOK, Position, BillingBound
<1>5. QED
  BY <1>2, <1>3, <1>4

NoEvidence == << FALSE, FALSE, FALSE, FALSE, FALSE, FALSE, FALSE, FALSE, FALSE, FALSE >>

LEMMA NoEvidenceFalse ==
    ASSUME NEW i \in 1..10
    PROVE  ~NoEvidence[i]
<1>1. \/ i = 1 \/ i = 2 \/ i = 3 \/ i = 4 \/ i = 5
      \/ i = 6 \/ i = 7 \/ i = 8 \/ i = 9 \/ i = 10
  OBVIOUS
<1>2. /\ ~NoEvidence[1] /\ ~NoEvidence[2] /\ ~NoEvidence[3] /\ ~NoEvidence[4]
      /\ ~NoEvidence[5] /\ ~NoEvidence[6] /\ ~NoEvidence[7] /\ ~NoEvidence[8]
      /\ ~NoEvidence[9] /\ ~NoEvidence[10]
  BY Zenon DEF NoEvidence
<1>3. QED
  BY <1>1, <1>2, Zenon

LEMMA InitialStateValid ==
    ASSUME NEW configured \in BOOLEAN
    PROVE  /\ InitialState(configured) \in OrchestrationState
           /\ Valid(InitialState(configured))
           /\ Len(InitialState(configured).completed_nodes) = 0
<1> DEFINE s == InitialState(configured)
<1>1. s.completed_nodes = << >> /\ Len(<< >>) = 0
  BY DEF InitialState
<1>2. s \in OrchestrationState
  <2>1. s.legacy_state \in LegacyState
    BY DEF InitialState, LegacyState, RepairStatus
  <2>2. NoUsage \in UsageValue
    BY DEF UsageValue, NoUsage
  <2>3. << >> \in Seq(NodeName)
    OBVIOUS
  <2>4. QED
    BY <2>1, <2>2, <2>3 DEF InitialState, OrchestrationState
<1>3. ~Routed(s) /\ Executed(s) = 0
  BY <1>1 DEF Routed, Executed
<1>4. ValidExecution(s)
  BY <1>1 DEF ValidExecution
<1>5. ValidEvidence(s)
  <2>1. ASSUME NEW i \in 1..10
        PROVE  ~Evidence(s)[i]
    <3>1. /\ s.preparation = FALSE /\ s.failure_analysis = FALSE /\ s.context = FALSE
          /\ s.proposal = FALSE /\ s.baseline = None /\ s.repair_plan = None
          /\ s.policy_result = None /\ s.static_result = None
          /\ s.verification_result = None /\ s.evaluation_result = None
      BY DEF InitialState
    <3> HIDE DEF s
    <3>2. (None # None) = FALSE
      OBVIOUS
    <3>3. Evidence(s) = NoEvidence
      BY <3>1, <3>2, Zenon DEF Evidence, NoEvidence
    <3>4. QED
      BY <3>3, NoEvidenceFalse
  <2>2. ASSUME NEW i \in 1..10
        PROVE  ~(i <= 0)
    OBVIOUS
  <2>3. s.model_usage = NoUsage
    BY DEF InitialState
  <2>4. QED
    BY <1>3, <2>1, <2>2, <2>3 DEF ValidEvidence
<1>6. ValidDependencies(s) /\ ValidOverride(s) /\ ValidTerminal(s)
  BY <1>3 DEF ValidDependencies, ValidOverride, ValidTerminal, InitialState, None
<1>7. QED
  BY <1>1, <1>2, <1>4, <1>5, <1>6 DEF Valid

\* How every run starts, whatever the provider.
Started ==
    /\ provider \in { None, "fake", "live" }
    /\ \E configured \in BOOLEAN : st = InitialState(configured)
    /\ node = "prepare_repository" /\ graph = "running" /\ billed = 0

LEMMA Init_Started ==
    ASSUME Init
    PROVE  Started
BY ProvidersAssumption DEF Init, Started

LEMMA Init_IInv ==
    ASSUME Started
    PROVE  IInv
<1>1. PICK configured \in BOOLEAN : st = InitialState(configured)
  BY DEF Started
<1>2. st \in OrchestrationState /\ Valid(st) /\ Len(st.completed_nodes) = 0
  BY <1>1, InitialStateValid
<1>3. node = NodeNames[1] /\ node \in NodeName
  BY NodeNameCases, NodeNamesTyped DEF Started
<1>4. TypeOK
  BY <1>2, <1>3 DEF Started, TypeOK
<1>5. Position
  <2>1. 0 <= 9 /\ 0 + 1 = 1
    OBVIOUS
  <2>2. QED
    BY <1>2, <1>3, <2>1 DEF Position
<1>6. BillingBound
  <2>1. 0 # 5
    OBVIOUS
  <2>2. QED
    BY <1>2, <2>1 DEF Started, BillingBound
<1>7. AttemptInv
  BY <1>1 DEF InitialState, AttemptInv
<1>8. SuccessIsEarned
  BY <1>1 DEF InitialState, SuccessIsEarned, None
<1>9. QED
  BY <1>2, <1>4, <1>5, <1>6, <1>7, <1>8 DEF IInv

LEMMA Step_IInv ==
    ASSUME IInv, Step
    PROVE  IInv'
BY prepare_repository_IInv, run_baseline_IInv, classify_failure_IInv,
   select_relevant_context_IInv, plan_repair_IInv, generate_patch_IInv,
   validate_patch_policy_IInv, run_static_checks_IInv, verify_in_sandbox_IInv,
   evaluate_candidate_IInv, route_result_IInv DEF Step

(***************************************************************************)
(* What holds of the evidence beyond what the validator checks: what the    *)
(* conditional edges asked for, and where an attempt and its failure come   *)
(* from.  A running graph may also rely on this: nothing is decided before  *)
(* route_result, and a failed node is followed by it.                       *)
(***************************************************************************)
Founded(s) ==
    /\ s.failure_analysis => s.baseline = "REPRODUCED_FAILURE"
    /\ s.static_result # None => s.policy_result = "approved"
    /\ s.evaluation_result # None =>
           s.evaluation_result = FunctionalStatusOf(s.verification_result)
    /\ s.attempt_number = 1 => s.failure_analysis
    /\ s.repair_plan # None \/ s.failure_override \in { "CANDIDATE_FAILURE", "MALFORMED_MODEL_OUTPUT" }
           => s.model_configuration /\ s.attempt_number = 1
    /\ s.failure_override \in { "CANDIDATE_FAILURE", "MALFORMED_MODEL_OUTPUT" } => s.context /\ ~s.proposal
    /\ s.failure_override = "CANDIDATE_FAILURE" => s.repair_plan # "suitable"

Open ==
    /\ Founded(st)
    /\ graph = "running" =>
           /\ st.terminal_route = None
           /\ node # "route_result" => st.failure_override = None

\* The evidence that a node is there to give.
EvidenceOf == [ prepare_repository |-> "preparation", run_baseline |-> "baseline",
         classify_failure |-> "failure_analysis", select_relevant_context |-> "context",
         plan_repair |-> "repair_plan", generate_patch |-> "proposal",
         validate_patch_policy |-> "policy_result", run_static_checks |-> "static_result",
         verify_in_sandbox |-> "verification_result",
         evaluate_candidate |-> "evaluation_result" ]

\* An update that leaves the evidence of the other nodes alone.
Gives(n, s) ==
    /\ \A f \in EvidenceFields : f # EvidenceOf[n] => s[f] = st[f]
    /\ s.terminal_route = st.terminal_route
    /\ Founded(s)

\* An update that only records a failure.
Fails(n, s) ==
    /\ \A f \in EvidenceFields : f # "failure_override" => s[f] = st[f]
    /\ s.terminal_route = st.terminal_route /\ s.completed_at = st.completed_at
    /\ s.failure_override \in { Infra, "CANDIDATE_FAILURE", "MALFORMED_MODEL_OUTPUT" }
    /\ s.legacy_state.attempt_number = s.attempt_number
    /\ \A f \in { "baseline_result", "failure_analysis", "repair_plan", "candidate_patch" } :
           s.legacy_state[f] = st.legacy_state[f]
    /\ n \in { "plan_repair", "generate_patch" } \/
           (s.failure_override = Infra /\ s.model_usage = st.model_usage)
    /\ Founded(s)

\* An update that reports the calls counted so far, unless it loses count.
Accounts(n, s) ==
    IF n \in { "plan_repair", "generate_patch" }
    THEN /\ s.model_usage \in { st.model_usage, billed' } /\ billed <= billed'
         /\ provider = "live" /\ s.failure_override # Infra => s.model_usage = billed'
         /\ n = "generate_patch" /\ st.repair_plan # "suitable" => billed' = billed
    ELSE s.model_usage = st.model_usage /\ billed' = billed

NodeStep(n) ==
    /\ Runs(n)
    /\ \E succeeds, good, bad :
           /\ Node(n, succeeds, good, bad)
           /\ succeeds => Update(good) /\ Gives(n, good) /\ Accounts(n, good)
           /\ Update(bad) /\ Fails(n, bad) /\ Accounts(n, bad)
    /\ provider' = provider

Repairing == NodeName \ { "route_result" }

LEMMA FailedFails ==
    ASSUME IInv, Founded(st), NEW n
    PROVE  Update(Failed) /\ Fails(n, Failed)
<1>1. TypeOK
  BY DEF IInv
<1>2. Update(Failed)
  BY <1>1, FailedQuiet
<1>3. Failed.failure_override = Infra
  BY <1>1 DEF TypeOK, OrchestrationState, Failed, Overridden
<1>4. \A f \in DOMAIN st : f # "failure_override" => Failed[f] = st[f]
  BY <1>1 DEF TypeOK, OrchestrationState, Failed, Overridden
<1>5. st.legacy_state.attempt_number = st.attempt_number
  BY DEF IInv, Valid, ValidDependencies
<1>6. /\ Failed.terminal_route = st.terminal_route /\ Failed.completed_at = st.completed_at
      /\ Failed.legacy_state = st.legacy_state /\ Failed.attempt_number = st.attempt_number
      /\ Failed.model_usage = st.model_usage
      /\ Failed.model_configuration = st.model_configuration
      /\ \A f \in EvidenceFields : f # "failure_override" => Failed[f] = st[f]
  BY <1>1, <1>4 DEF TypeOK, OrchestrationState, EvidenceFields
<1>7. Founded(Failed)
  BY <1>3, <1>6 DEF Founded, EvidenceFields, Infra
<1>8. QED
  BY <1>2, <1>3, <1>5, <1>6, <1>7 DEF Fails

\* Where the graph stands, and which evidence there cannot be yet.
LEMMA Standing ==
    ASSUME IInv, NEW i \in 1..10, Runs(NodeNames[i])
    PROVE  Len(st.completed_nodes) = i - 1
<1>1. NodeNames[i] # "route_result"
  BY NodeNameCases
<1>2. PICK k \in 0..9 : k = Len(st.completed_nodes) /\ NodeNames[i] = NodeNames[k + 1]
  BY <1>1, RunningNodes DEF IInv, TypeOK, Runs, Position
<1>3. k + 1 \in 1..10
  OBVIOUS
<1>4. k + 1 = i
  BY SMTT(60), <1>2, <1>3 DEF NodeNames
<1>5. QED
  BY <1>2, <1>4

LEMMA NotYetRouted ==
    ASSUME IInv, Open, graph = "running"
    PROVE  ~Routed(st) /\ Executed(st) = Len(st.completed_nodes) /\ st.completed_at = None
BY DEF IInv, Open, Valid, ValidTerminal, Executed

LEMMA NotYetGiven ==
    ASSUME IInv, Open, NEW i \in 1..10, Runs(NodeNames[i]), NEW j \in i..10
    PROVE  ~Evidence(st)[j]
<1>1. Executed(st) = i - 1
  BY Standing, NotYetRouted DEF Runs
<1>2. j \in 1..10 /\ ~(j <= i - 1)
  OBVIOUS
<1>3. QED
  BY <1>1, <1>2, Zenon DEF IInv, Valid, ValidEvidence

\* The evidence of the nodes before it is there when a node runs.
LEMMA GivenBefore ==
    ASSUME IInv, Open, NEW i \in 1..10, Runs(NodeNames[i]), NEW j \in 1..(i - 1)
    PROVE  Evidence(st)[j]
<1>1. Executed(st) = i - 1
  BY Standing, NotYetRouted DEF Runs
<1>2. j \in 1..10 /\ j <= i - 1
  OBVIOUS
<1>3. st.failure_override = None
  BY NodeNameCases DEF Open, Runs
<1>4. QED
  BY <1>1, <1>2, <1>3, Zenon DEF IInv, Valid, ValidEvidence

(***************************************************************************)
(* The nodes that call no provider give their own evidence or fail.         *)
(***************************************************************************)
LEMMA QuietStep ==
    ASSUME IInv, Founded(st), NEW n, n \notin { "plan_repair", "generate_patch" }, Runs(n),
           UNCHANGED << provider, billed >>, NEW succeeds, NEW good,
           Node(n, succeeds, good, Failed), Update(good), good.model_usage = st.model_usage,
           succeeds => Gives(n, good)
    PROVE  NodeStep(n)
<1>1. Accounts(n, good)
  BY DEF Accounts
<1>2. Update(Failed) /\ Fails(n, Failed)
  BY FailedFails
<1>3. Failed.model_usage = st.model_usage
  BY <1>2 DEF Fails
<1>4. Accounts(n, Failed)
  BY <1>3 DEF Accounts
<1>5. QED
  BY <1>1, <1>2, <1>4 DEF NodeStep

LEMMA prepare_repository_Step ==
    ASSUME IInv, Open, prepare_repository
    PROVE  NodeStep("prepare_repository")
<1>1. PICK prepared \in BOOLEAN :
        Node("prepare_repository",
             prepared,
             [st EXCEPT !.preparation = TRUE],
             Failed)
  BY DEF prepare_repository
<1> DEFINE good == [st EXCEPT !.preparation = TRUE]
           succeeds == prepared
<1>2. Runs("prepare_repository") /\ Founded(st) /\ UNCHANGED << provider, billed >>
  BY DEF prepare_repository, Open, Runs
<1>3. Update(good) /\ good.model_usage = st.model_usage
  BY ZenonT(60) DEF IInv, TypeOK, Update, OrchestrationState, StageOutcome, FunctionalStatusOf, FunctionalStatus
<1>4. succeeds => Gives("prepare_repository", good)
  BY <1>2 DEF Gives, Founded, EvidenceOf, EvidenceFields, IInv, TypeOK, OrchestrationState
<1> HIDE DEF good, succeeds
<1>5. QED
  BY <1>1, <1>2, <1>3, <1>4, QuietStep DEF good, succeeds

LEMMA select_relevant_context_Step ==
    ASSUME IInv, Open, select_relevant_context
    PROVE  NodeStep("select_relevant_context")
<1>1. PICK selected \in BOOLEAN :
        Node("select_relevant_context",
             st.baseline # None /\ st.failure_analysis /\ selected,
             [st EXCEPT !.context = TRUE],
             Failed)
  BY DEF select_relevant_context
<1> DEFINE good == [st EXCEPT !.context = TRUE]
           succeeds == st.baseline # None /\ st.failure_analysis /\ selected
<1>2. Runs("select_relevant_context") /\ Founded(st) /\ UNCHANGED << provider, billed >>
  BY DEF select_relevant_context, Open, Runs
<1>3. Update(good) /\ good.model_usage = st.model_usage
  BY ZenonT(60) DEF IInv, TypeOK, Update, OrchestrationState, StageOutcome, FunctionalStatusOf, FunctionalStatus
<1>4. succeeds => Gives("select_relevant_context", good)
  BY <1>2 DEF Gives, Founded, EvidenceOf, EvidenceFields, IInv, TypeOK, OrchestrationState
<1> HIDE DEF good, succeeds
<1>5. QED
  BY <1>1, <1>2, <1>3, <1>4, QuietStep DEF good, succeeds

LEMMA validate_patch_policy_Step ==
    ASSUME IInv, Open, validate_patch_policy
    PROVE  NodeStep("validate_patch_policy")
<1>1. PICK result \in {"approved", "rejected"}, validated \in BOOLEAN :
        Node("validate_patch_policy",
             st.proposal /\ st.context /\ validated,
             [st EXCEPT !.policy_result = result],
             Failed)
  BY DEF validate_patch_policy
<1> DEFINE good == [st EXCEPT !.policy_result = result]
           succeeds == st.proposal /\ st.context /\ validated
<1>2. Runs("validate_patch_policy") /\ Founded(st) /\ UNCHANGED << provider, billed >>
  BY DEF validate_patch_policy, Open, Runs
<1>3. Update(good) /\ good.model_usage = st.model_usage
  BY DEF IInv, TypeOK, Update, OrchestrationState, StageOutcome, FunctionalStatusOf, FunctionalStatus
<1>4. st.static_result = None
  <2>1. NodeNames[7] = "validate_patch_policy" /\ 7 \in 1..10 /\ 8 \in 7..10
    BY NodeNameCases
  <2>2. ~Evidence(st)[8]
    BY <1>2, <2>1, NotYetGiven
  <2>3. QED
    BY <2>2, Zenon DEF Evidence
<1>5. succeeds => Gives("validate_patch_policy", good)
  BY <1>2, <1>4 DEF Gives, Founded, EvidenceOf, EvidenceFields, IInv, TypeOK, OrchestrationState
<1> HIDE DEF good, succeeds
<1>6. QED
  BY <1>1, <1>2, <1>3, <1>5, QuietStep DEF good, succeeds

LEMMA run_static_checks_Step ==
    ASSUME IInv, Open, run_static_checks
    PROVE  NodeStep("run_static_checks")
<1>1. PICK outcome \in StageOutcome, checked \in BOOLEAN, intact \in BOOLEAN :
        Node("run_static_checks",
             /\ st.preparation /\ st.proposal /\ st.policy_result = "approved"
               /\ checked /\ (outcome = "PASSED" => intact),
             [st EXCEPT !.static_result = outcome],
             Failed)
  BY DEF run_static_checks
<1> DEFINE good == [st EXCEPT !.static_result = outcome]
           succeeds == /\ st.preparation /\ st.proposal /\ st.policy_result = "approved" /\ checked /\ (outcome = "PASSED" => intact)
<1>2. Runs("run_static_checks") /\ Founded(st) /\ UNCHANGED << provider, billed >>
  BY DEF run_static_checks, Open, Runs
<1>3. Update(good) /\ good.model_usage = st.model_usage
  BY DEF IInv, TypeOK, Update, OrchestrationState, StageOutcome, FunctionalStatusOf, FunctionalStatus
<1>4. succeeds => Gives("run_static_checks", good)
  BY <1>2 DEF Gives, Founded, EvidenceOf, EvidenceFields, IInv, TypeOK, OrchestrationState
<1> HIDE DEF good, succeeds
<1>5. QED
  BY <1>1, <1>2, <1>3, <1>4, QuietStep DEF good, succeeds

LEMMA verify_in_sandbox_Step ==
    ASSUME IInv, Open, verify_in_sandbox
    PROVE  NodeStep("verify_in_sandbox")
<1>1. PICK outcome \in StageOutcome, verified \in BOOLEAN :
        Node("verify_in_sandbox",
             st.static_result = "PASSED" /\ verified,
             [st EXCEPT !.verification_result = outcome],
             Failed)
  BY DEF verify_in_sandbox
<1> DEFINE good == [st EXCEPT !.verification_result = outcome]
           succeeds == st.static_result = "PASSED" /\ verified
<1>2. Runs("verify_in_sandbox") /\ Founded(st) /\ UNCHANGED << provider, billed >>
  BY DEF verify_in_sandbox, Open, Runs
<1>3. Update(good) /\ good.model_usage = st.model_usage
  BY DEF IInv, TypeOK, Update, OrchestrationState, StageOutcome, FunctionalStatusOf, FunctionalStatus
<1>4. st.evaluation_result = None
  <2>1. NodeNames[9] = "verify_in_sandbox" /\ 9 \in 1..10 /\ 10 \in 9..10
    BY NodeNameCases
  <2>2. ~Evidence(st)[10]
    BY <1>2, <2>1, NotYetGiven
  <2>3. QED
    BY <2>2, Zenon DEF Evidence
<1>5. succeeds => Gives("verify_in_sandbox", good)
  BY <1>2, <1>4 DEF Gives, Founded, EvidenceOf, EvidenceFields, IInv, TypeOK, OrchestrationState
<1> HIDE DEF good, succeeds
<1>6. QED
  BY <1>1, <1>2, <1>3, <1>5, QuietStep DEF good, succeeds

LEMMA evaluate_candidate_Step ==
    ASSUME IInv, Open, evaluate_candidate
    PROVE  NodeStep("evaluate_candidate")
<1>1. PICK evaluated \in BOOLEAN :
        Node("evaluate_candidate",
             st.proposal /\ st.verification_result # None /\ evaluated,
             [st EXCEPT !.evaluation_result = FunctionalStatusOf(st.verification_result),
                    !.evaluation_usage = st.model_usage],
             Failed)
  BY DEF evaluate_candidate
<1> DEFINE good == [st EXCEPT !.evaluation_result = FunctionalStatusOf(st.verification_result),
                    !.evaluation_usage = st.model_usage]
           succeeds == st.proposal /\ st.verification_result # None /\ evaluated
<1>2. Runs("evaluate_candidate") /\ Founded(st) /\ UNCHANGED << provider, billed >>
  BY DEF evaluate_candidate, Open, Runs
<1>3. Update(good) /\ good.model_usage = st.model_usage
  BY ZenonT(60) DEF IInv, TypeOK, Update, OrchestrationState, StageOutcome, FunctionalStatusOf, FunctionalStatus
<1>4. succeeds => Gives("evaluate_candidate", good)
  BY <1>2 DEF Gives, Founded, EvidenceOf, EvidenceFields, IInv, TypeOK, OrchestrationState
<1> HIDE DEF good, succeeds
<1>5. QED
  BY <1>1, <1>2, <1>3, <1>4, QuietStep DEF good, succeeds

LEMMA run_baseline_Step ==
    ASSUME IInv, Open, run_baseline
    PROVE  NodeStep("run_baseline")
<1>1. PICK outcome \in BaselineOutcome, runs \in BOOLEAN, clock \in ClockReading :
        Node("run_baseline",
             st.preparation /\ runs /\ clock # "fails",
             [st EXCEPT !.baseline = outcome,
                        !.legacy_state = [@ EXCEPT !.baseline_result = outcome,
                                                   !.status = "baseline_complete"]],
             Failed)
  BY DEF run_baseline
<1> DEFINE legacy == [st.legacy_state EXCEPT !.baseline_result = outcome,
                                             !.status = "baseline_complete"]
           good == [st EXCEPT !.baseline = outcome, !.legacy_state = legacy]
           succeeds == st.preparation /\ runs /\ clock # "fails"
<1>2. Runs("run_baseline") /\ Founded(st) /\ UNCHANGED << provider, billed >>
  BY DEF run_baseline, Open, Runs
<1>3. legacy \in LegacyState
  BY DEF IInv, TypeOK, OrchestrationState, LegacyState, RepairStatus
<1>4. Node("run_baseline", succeeds, good, Failed)
  BY <1>1
<1> HIDE DEF legacy
<1>5. Update(good) /\ good.model_usage = st.model_usage
  BY <1>3 DEF IInv, TypeOK, Update, OrchestrationState
<1>6. ~st.failure_analysis
  <2>1. NodeNames[2] = "run_baseline" /\ 2 \in 1..10 /\ 3 \in 2..10
    BY NodeNameCases
  <2>2. ~Evidence(st)[3]
    BY <1>2, <2>1, NotYetGiven
  <2>3. QED
    BY <2>2, Zenon DEF Evidence
<1>7. Gives("run_baseline", good)
  BY <1>2, <1>6 DEF Gives, Founded, EvidenceOf, EvidenceFields, IInv, TypeOK, OrchestrationState
<1> HIDE DEF good, succeeds
<1>8. QED
  BY <1>2, <1>4, <1>5, <1>7, QuietStep

LEMMA classify_failure_Step ==
    ASSUME IInv, Open, classify_failure
    PROVE  NodeStep("classify_failure")
<1> DEFINE legacy == [st.legacy_state EXCEPT !.failure_analysis = TRUE,
                                             !.status = "analysis_complete"]
           good == [st EXCEPT !.failure_analysis = TRUE, !.legacy_state = legacy]
<1>1. PICK succeeds : /\ Node("classify_failure", succeeds, good, Failed)
                      /\ succeeds => st.baseline = "REPRODUCED_FAILURE"
  BY DEF classify_failure
<1>2. Runs("classify_failure") /\ Founded(st) /\ UNCHANGED << provider, billed >>
  BY DEF classify_failure, Open, Runs
<1>3. legacy \in LegacyState
  BY DEF IInv, TypeOK, OrchestrationState, LegacyState, RepairStatus
<1> HIDE DEF legacy
<1>4. Update(good) /\ good.model_usage = st.model_usage
  BY ZenonT(60), <1>3 DEF IInv, TypeOK, Update, OrchestrationState
<1>5. succeeds => Gives("classify_failure", good)
  BY <1>1, <1>2 DEF Gives, Founded, EvidenceOf, EvidenceFields, IInv, TypeOK, OrchestrationState
<1> HIDE DEF good
<1>6. QED
  BY <1>1, <1>2, <1>4, <1>5, QuietStep

(***************************************************************************)
(* The two nodes that call the provider.                                    *)
(***************************************************************************)
Blame == { Infra, "CANDIDATE_FAILURE", "MALFORMED_MODEL_OUTPUT" }

\* Two states with the same evidence, the same route and the same legacy state.
Alike(s, t) ==
    /\ \A f \in EvidenceFields : s[f] = t[f]
    /\ s.terminal_route = t.terminal_route /\ s.completed_at = t.completed_at
    /\ s.attempt_number = t.attempt_number /\ s.legacy_state = t.legacy_state
    /\ s.model_configuration = t.model_configuration

LEMMA WithUsageAlike ==
    ASSUME NEW s \in OrchestrationState, NEW calls \in 0..2
    PROVE  /\ WithUsage(s, calls) \in OrchestrationState
           /\ WithUsage(s, calls).completed_nodes = s.completed_nodes
           /\ Alike(WithUsage(s, calls), s)
<1>1. calls \in UsageValue
  BY DEF UsageValue, NoUsage
<1>2. QED
  BY <1>1 DEF WithUsage, OrchestrationState, Alike, EvidenceFields

\* Recording a failure in a state that has spent the attempt, or in the received one.
LEMMA OverriddenFails ==
    ASSUME NEW n \in { "plan_repair", "generate_patch" }, NEW why \in Blame,
           NEW s \in OrchestrationState, s.completed_nodes = st.completed_nodes,
           \A f \in EvidenceFields : s[f] = st[f],
           s.terminal_route = st.terminal_route, s.completed_at = st.completed_at,
           s.legacy_state.attempt_number = s.attempt_number,
           \A f \in { "baseline_result", "failure_analysis", "repair_plan", "candidate_patch" } :
               s.legacy_state[f] = st.legacy_state[f],
           Founded(s), why # Infra => s.model_configuration /\ s.attempt_number = 1,
           why # Infra => s.context /\ ~s.proposal,
           why = "CANDIDATE_FAILURE" => s.repair_plan # "suitable"
    PROVE  Update(Overridden(s, why)) /\ Fails(n, Overridden(s, why))
<1> DEFINE t == Overridden(s, why)
<1>1. why \in TerminalOutcome
  BY DEF Blame, Infra, TerminalOutcome
<1>2. t \in OrchestrationState /\ t.failure_override = why
  BY <1>1 DEF Overridden, OrchestrationState
<1>3. \A f \in DOMAIN s : f # "failure_override" => t[f] = s[f]
  BY DEF Overridden
<1>4. /\ t.completed_nodes = s.completed_nodes /\ t.terminal_route = s.terminal_route
      /\ t.completed_at = s.completed_at /\ t.legacy_state = s.legacy_state
      /\ t.attempt_number = s.attempt_number /\ t.model_configuration = s.model_configuration
      /\ \A f \in EvidenceFields : f # "failure_override" => t[f] = s[f]
  BY <1>3 DEF OrchestrationState, EvidenceFields
<1> HIDE DEF t
<1>5. Founded(t)
  BY <1>2, <1>4 DEF Founded, EvidenceFields, Infra
<1>6. QED
  BY <1>2, <1>4, <1>5 DEF Update, Fails, Blame, t

LEMMA SpentAttemptFails ==
    ASSUME IInv, Founded(st), st.failure_analysis, st.repair_plan = None, ~st.proposal,
           NEW outcome \in Blame, outcome # Infra => st.model_configuration /\ st.context,
           NEW clock, NEW raises \in BOOLEAN, NEW calls \in 0..2
    PROVE  LET s == SpentAttempt(outcome, clock, raises, calls)
           IN  Update(s) /\ Fails("plan_repair", s)
<1> DEFINE legacy == [st.legacy_state EXCEPT !.attempt_number = 1]
           spent == [st EXCEPT !.attempt_number = 1, !.legacy_state = legacy]
<1>1. /\ legacy \in LegacyState /\ legacy.attempt_number = 1
      /\ \A f \in { "baseline_result", "failure_analysis", "repair_plan", "candidate_patch" } :
             legacy[f] = st.legacy_state[f]
  BY DEF IInv, TypeOK, OrchestrationState, LegacyState
<1>2. spent = [st EXCEPT !.attempt_number = 1, !.legacy_state.attempt_number = 1]
  BY DEF IInv, TypeOK, OrchestrationState, LegacyState
<1> HIDE DEF legacy
<1>3. spent \in OrchestrationState
  <2>1. 1 \in 0..1 /\ st \in OrchestrationState
    BY DEF IInv, TypeOK
  <2> DEFINE tried == [st EXCEPT !.attempt_number = 1]
  <2>2. tried \in OrchestrationState
    BY <2>1, SMTT(60) DEF OrchestrationState
  <2>3. spent = [tried EXCEPT !.legacy_state = legacy]
    BY Zenon
  <2> HIDE DEF tried, spent
  <2>4. QED
    BY <1>1, <2>2, <2>3, SMTT(60) DEF OrchestrationState
<1>4. /\ spent.attempt_number = 1 /\ spent.legacy_state = legacy
      /\ spent.completed_nodes = st.completed_nodes
      /\ spent.terminal_route = st.terminal_route /\ spent.completed_at = st.completed_at
      /\ spent.model_configuration = st.model_configuration
      /\ \A f \in EvidenceFields : spent[f] = st[f]
  BY DEF IInv, TypeOK, OrchestrationState, EvidenceFields
<1> HIDE DEF spent
<1>5. PICK why \in Blame :
        /\ why \in { Infra, outcome }
        /\ SpentAttempt(outcome, clock, raises, calls)
             = Overridden(IF raises THEN spent ELSE WithUsage(spent, calls), why)
  BY <1>2 DEF SpentAttempt, Blame
<1>6. CASE raises
  <2>1. Founded(spent)
    BY <1>4 DEF Founded, EvidenceFields
  <2>2. QED
    BY <1>1, <1>3, <1>4, <1>5, <1>6, <2>1, OverriddenFails DEF EvidenceFields, None
<1>7. CASE ~raises
  <2> DEFINE used == WithUsage(spent, calls)
  <2>1. used \in OrchestrationState /\ used.completed_nodes = spent.completed_nodes /\ Alike(used, spent)
    BY <1>3, WithUsageAlike
  <2> HIDE DEF used
  <2>2. /\ used.completed_nodes = st.completed_nodes
        /\ \A f \in EvidenceFields : used[f] = st[f]
        /\ used.terminal_route = st.terminal_route /\ used.completed_at = st.completed_at
        /\ used.legacy_state.attempt_number = used.attempt_number
        /\ \A f \in { "baseline_result", "failure_analysis", "repair_plan", "candidate_patch" } :
               used.legacy_state[f] = st.legacy_state[f]
    BY <1>1, <1>4, <2>1 DEF Alike
  <2>3. used.model_configuration = st.model_configuration /\ used.attempt_number = 1
    BY <1>4, <2>1 DEF Alike
  <2>4. Founded(used)
    BY <2>2, <2>3 DEF Founded, EvidenceFields
  <2>5. Update(Overridden(used, why)) /\ Fails("plan_repair", Overridden(used, why))
    BY <1>5, <2>1, <2>2, <2>3, <2>4, OverriddenFails DEF EvidenceFields, None
  <2>6. QED
    BY <1>5, <1>7, <2>5 DEF used
<1>8. QED
  BY <1>6, <1>7

\* The plan's update and the proposal's give their evidence, with or without usage.
LEMMA UsedGives ==
    ASSUME NEW n, NEW s \in OrchestrationState, s.completed_nodes = st.completed_nodes,
           Gives(n, s), NEW calls \in 0..2
    PROVE  Update(WithUsage(s, calls)) /\ Gives(n, WithUsage(s, calls))
<1> DEFINE used == WithUsage(s, calls)
<1>1. used \in OrchestrationState /\ used.completed_nodes = s.completed_nodes /\ Alike(used, s)
  BY WithUsageAlike
<1> HIDE DEF used
<1>2. /\ \A f \in EvidenceFields : used[f] = s[f]
      /\ used.terminal_route = s.terminal_route /\ used.attempt_number = s.attempt_number
      /\ used.model_configuration = s.model_configuration
  BY <1>1 DEF Alike
<1>3. Founded(used)
  BY <1>2 DEF Gives, Founded, EvidenceFields
<1>4. Update(used) /\ Gives(n, used)
  BY <1>1, <1>2, <1>3 DEF Update, Gives
<1>5. QED
  BY <1>4 DEF used

LEMMA plan_repair_Step ==
    ASSUME IInv, Open, plan_repair
    PROVE  NodeStep("plan_repair")
<1> DEFINE legacy(answer) == [st.legacy_state EXCEPT !.repair_plan = answer, !.attempt_number = 1,
                                                     !.status = "plan_complete"]
           planned(answer) == [st EXCEPT !.repair_plan = answer, !.legacy_state = legacy(answer),
                                         !.attempt_number = 1]
           callable == st.context /\ st.model_configuration /\ provider # None
<1>1. PICK answer \in (IF callable THEN Plan \cup ModelFault ELSE {None}),
           clock \in ClockReading, clockAfter \in ClockReading,
           raises \in SnapshotRaises, raisesAfter \in SnapshotRaises :
        /\ billed' = IF callable THEN Counted(answer) ELSE billed
        /\ Node("plan_repair",
                (answer \in Plan /\ AcceptsPlan(st.legacy_state)) /\ clock # "fails" /\ ~raises,
                WithUsage(planned(answer), IF callable THEN Counted(answer) ELSE billed),
                SpentAttempt(IF answer \in Plan THEN Infra ELSE ModelFailure(answer),
                             clockAfter, raisesAfter,
                             IF callable THEN Counted(answer) ELSE billed))
  BY DEF plan_repair
<1> HIDE DEF callable, planned
<1>2. /\ Runs("plan_repair") /\ Founded(st) /\ raisesAfter \in BOOLEAN
      /\ provider' = provider
  BY DEF plan_repair, Open, Runs, SnapshotRaises
<1>3. billed' \in 0..2
  BY plan_repair_IInv DEF IInv, TypeOK
<1>10. billed <= billed'
  BY <1>1 DEF Counted, IInv, TypeOK
<1>4. PICK outcome \in Blame :
        /\ outcome # Infra => st.model_configuration /\ st.context
        /\ Node("plan_repair",
                (answer \in Plan /\ AcceptsPlan(st.legacy_state)) /\ clock # "fails" /\ ~raises,
                WithUsage(planned(answer), billed'),
                SpentAttempt(outcome, clockAfter, raisesAfter, billed'))
  <2> DEFINE why == IF answer \in Plan THEN Infra ELSE ModelFailure(answer)
  <2>1. why \in Blame
    BY DEF ModelFailure, Blame, Infra
  <2>2. why # Infra => callable
    BY <1>1 DEF ModelFailure, Infra, None
  <2>3. QED
    BY <1>1, <2>1, <2>2 DEF callable
<1>5. LET bad == SpentAttempt(outcome, clockAfter, raisesAfter, billed')
      IN  Update(bad) /\ Fails("plan_repair", bad)
  <2>1. 5 \in 1..10 /\ 3 \in 1..(5 - 1) /\ { 5, 6 } \subseteq 5..10 /\ NodeNames[5] = "plan_repair"
    BY NodeNameCases
  <2>2. Evidence(st)[3] /\ ~Evidence(st)[5] /\ ~Evidence(st)[6]
    BY <1>2, <2>1, GivenBefore, NotYetGiven
  <2>3. st.failure_analysis /\ st.repair_plan = None /\ ~st.proposal
    BY <2>2, Zenon DEF Evidence
  <2>4. QED
    BY <1>2, <1>3, <1>4, <2>3, SpentAttemptFails
<1>6. ASSUME answer \in Plan
      PROVE  LET good == WithUsage(planned(answer), billed')
             IN  Update(good) /\ Gives("plan_repair", good)
  <2>1. 1 \in 0..1
    OBVIOUS
  <2>2. legacy(answer) \in LegacyState
    BY <1>6, <2>1 DEF IInv, TypeOK, OrchestrationState, LegacyState, RepairStatus
  <2> HIDE DEF legacy
  <2>3. planned(answer) \in OrchestrationState /\ planned(answer).completed_nodes = st.completed_nodes
    BY ZenonT(60), <1>6, <2>1, <2>2 DEF IInv, TypeOK, OrchestrationState, planned
  <2>4. /\ st.context /\ st.model_configuration /\ st.failure_analysis
        /\ st.failure_override = None
    BY <1>1, <1>2, <1>6 DEF callable, Plan, None, IInv, Valid, ValidDependencies, Open, Runs
  <2>5. Gives("plan_repair", planned(answer))
    BY <1>2, <2>4 DEF None, Gives, Founded, EvidenceOf, EvidenceFields, IInv, TypeOK, OrchestrationState, planned
  <2>6. QED
    BY <1>3, <2>3, <2>5, UsedGives
<1>7. Accounts("plan_repair", WithUsage(planned(answer), billed'))
  BY <1>10 DEF Accounts, WithUsage, planned, IInv, TypeOK, OrchestrationState
<1>8. Accounts("plan_repair", SpentAttempt(outcome, clockAfter, raisesAfter, billed'))
  BY <1>2, <1>10 DEF Accounts, SpentAttempt, WithUsage, Overridden, IInv, TypeOK, OrchestrationState
<1>9. QED
  BY <1>2, <1>4, <1>5, <1>6, <1>7, <1>8 DEF NodeStep

LEMMA generate_patch_Step ==
    ASSUME IInv, Open, generate_patch
    PROVE  NodeStep("generate_patch")
<1> DEFINE callable == st.context /\ st.repair_plan # None /\ st.model_configuration
                         /\ provider # None
           called == callable /\ st.repair_plan = "suitable"
           legacy == [st.legacy_state EXCEPT !.candidate_patch = TRUE,
                                             !.status = "patch_proposed"]
           proposed == [st EXCEPT !.proposal = TRUE, !.legacy_state = legacy]
<1>1. PICK answer \in (IF callable THEN PatchAnswer(st.repair_plan) ELSE {None}),
           clock \in ClockReading, raises \in SnapshotRaises, raisesAfter \in SnapshotRaises :
        /\ billed' = IF called THEN Counted(answer) ELSE billed
        /\ Node("generate_patch",
                (answer = "proposal" /\ AcceptsProposal(st.legacy_state))
                  /\ clock # "fails" /\ ~raises,
                WithUsage(proposed, IF called THEN Counted(answer) ELSE billed),
                Overridden(IF raisesAfter THEN st
                           ELSE WithUsage(st, IF called THEN Counted(answer) ELSE billed),
                           IF answer = "proposal" \/ raisesAfter THEN Infra
                           ELSE ModelFailure(answer)))
  BY DEF generate_patch
<1> HIDE DEF proposed, callable, called
<1>2. /\ Runs("generate_patch") /\ Founded(st) /\ raisesAfter \in BOOLEAN
      /\ provider' = provider
  BY DEF generate_patch, Open, Runs, SnapshotRaises
<1>3. billed' \in 0..2
  BY generate_patch_IInv DEF IInv, TypeOK
<1>10. billed <= billed'
  BY <1>1 DEF Counted, IInv, TypeOK
<1>4. PICK outcome \in Blame :
        /\ raisesAfter => outcome = Infra
        /\ outcome # Infra => callable
        /\ outcome = "CANDIDATE_FAILURE" => st.repair_plan # "suitable"
        /\ Node("generate_patch",
                (answer = "proposal" /\ AcceptsProposal(st.legacy_state))
                  /\ clock # "fails" /\ ~raises,
                WithUsage(proposed, billed'),
                Overridden(IF raisesAfter THEN st ELSE WithUsage(st, billed'), outcome))
  <2> DEFINE why == IF answer = "proposal" \/ raisesAfter THEN Infra ELSE ModelFailure(answer)
  <2>1. why \in Blame /\ (raisesAfter => why = Infra)
    BY DEF ModelFailure, Blame, Infra
  <2>2. /\ why # Infra => callable
        /\ why = "CANDIDATE_FAILURE" => st.repair_plan # "suitable"
    BY <1>1 DEF ModelFailure, PatchAnswer, ModelFault, Infra, None
  <2>3. QED
    BY <1>1, <2>1, <2>2
<1>5. LET bad == Overridden(IF raisesAfter THEN st ELSE WithUsage(st, billed'), outcome)
      IN  Update(bad) /\ Fails("generate_patch", bad)
  <2>0. ~st.proposal
    <3>1. 6 \in 1..10 /\ 6 \in 6..10 /\ NodeNames[6] = "generate_patch"
      BY NodeNameCases
    <3>2. ~Evidence(st)[6]
      BY <1>2, <3>1, NotYetGiven
    <3>3. QED
      BY <3>2, Zenon DEF Evidence
  <2>1. st \in OrchestrationState /\ st.legacy_state.attempt_number = st.attempt_number
    BY DEF IInv, TypeOK, Valid, ValidDependencies
  <2> DEFINE used == WithUsage(st, billed')
  <2>2. used \in OrchestrationState /\ used.completed_nodes = st.completed_nodes /\ Alike(used, st)
    BY <1>3, <2>1, WithUsageAlike
  <2> HIDE DEF used
  <2>3. outcome # Infra => /\ st.model_configuration /\ st.attempt_number = 1
                           /\ st.context /\ ~st.proposal
    BY <1>4, <2>0 DEF callable, IInv, AttemptInv
  <2>4. Founded(used)
    BY <1>2, <2>2 DEF Alike, Founded, EvidenceFields
  <2>5. Update(Overridden(used, outcome)) /\ Fails("generate_patch", Overridden(used, outcome))
    BY <1>4, <2>1, <2>2, <2>3, <2>4, OverriddenFails DEF Alike, EvidenceFields
  <2>6. Update(Overridden(st, outcome)) /\ Fails("generate_patch", Overridden(st, outcome))
    BY <1>2, <1>4, <2>1, <2>3, OverriddenFails
  <2>7. CASE raisesAfter
    BY <2>6, <2>7
  <2>8. CASE ~raisesAfter
    BY <2>5, <2>8 DEF used
  <2>9. QED
    BY <1>2, <2>7, <2>8
<1>6. Update(WithUsage(proposed, billed')) /\ Gives("generate_patch", WithUsage(proposed, billed'))
  <2>1. legacy \in LegacyState
    BY DEF IInv, TypeOK, OrchestrationState, LegacyState, RepairStatus
  <2> HIDE DEF legacy
  <2>2. proposed \in OrchestrationState /\ proposed.completed_nodes = st.completed_nodes
    BY ZenonT(60), <2>1 DEF IInv, TypeOK, OrchestrationState, proposed
  <2>3. st.failure_override = None
    BY <1>2 DEF Open, Runs
  <2>4. Gives("generate_patch", proposed)
    BY <1>2, <2>3 DEF None, Gives, Founded, EvidenceOf, EvidenceFields, IInv, TypeOK, OrchestrationState, proposed
  <2>5. QED
    BY <1>3, <2>2, <2>4, UsedGives
<1>7. st.repair_plan # "suitable" => billed' = billed
  BY <1>1 DEF called
<1>8. Accounts("generate_patch", WithUsage(proposed, billed'))
  BY <1>7, <1>10 DEF Accounts, WithUsage, proposed, IInv, TypeOK, OrchestrationState
<1>9. Accounts("generate_patch",
               Overridden(IF raisesAfter THEN st ELSE WithUsage(st, billed'), outcome))
  BY <1>2, <1>4, <1>7, <1>10 DEF Accounts, WithUsage, Overridden, IInv, TypeOK, OrchestrationState
<1>11. QED
  BY <1>2, <1>4, <1>5, <1>6, <1>8, <1>9 DEF NodeStep

\* Every step of the graph is one of route_result or of a node that gives its own
\* evidence or fails.
LEMMA StepIsNodeStep ==
    ASSUME IInv, Open, Step
    PROVE  route_result \/ \E i \in 1..10 : NodeStep(NodeNames[i])
<1>1. CASE prepare_repository
  BY <1>1, prepare_repository_Step, NodeNameCases
<1>2. CASE run_baseline
  BY <1>2, run_baseline_Step, NodeNameCases
<1>3. CASE classify_failure
  BY <1>3, classify_failure_Step, NodeNameCases
<1>4. CASE select_relevant_context
  BY <1>4, select_relevant_context_Step, NodeNameCases
<1>5. CASE plan_repair
  BY <1>5, plan_repair_Step, NodeNameCases
<1>6. CASE generate_patch
  BY <1>6, generate_patch_Step, NodeNameCases
<1>7. CASE validate_patch_policy
  BY <1>7, validate_patch_policy_Step, NodeNameCases
<1>8. CASE run_static_checks
  BY <1>8, run_static_checks_Step, NodeNameCases
<1>9. CASE verify_in_sandbox
  BY <1>9, verify_in_sandbox_Step, NodeNameCases
<1>10. CASE evaluate_candidate
  BY <1>10, evaluate_candidate_Step, NodeNameCases
<1>11. QED
  BY <1>1, <1>2, <1>3, <1>4, <1>5, <1>6, <1>7, <1>8, <1>9, <1>10 DEF Step

(***************************************************************************)
(* A failure can always be recorded.                                        *)
(***************************************************************************)
LEMMA FailureValid ==
    ASSUME IInv, Open, NEW i \in 1..10, Runs(NodeNames[i]),
           NEW s, Update(s), Fails(NodeNames[i], s)
    PROVE  Finishes(NodeNames[i], Completing(s, NodeNames[i]))
<1> DEFINE n == NodeNames[i]
           c == Completing(s, n)
<1>1. n \in NodeName /\ n # "route_result"
  BY NodeNamesTyped, NodeNameCases
<1>2. /\ st \in OrchestrationState /\ Valid(st) /\ st.terminal_route = None
      /\ st.failure_override = None /\ st.completed_at = None /\ ~Routed(st)
  BY <1>1, NotYetRouted DEF IInv, TypeOK, Open, Runs
<1>3. Len(st.completed_nodes) = i - 1 /\ Executed(st) = i - 1
  BY Standing, NotYetRouted DEF Runs
<1>4. /\ c.completed_nodes = Append(st.completed_nodes, n)
      /\ c.terminal_route = None /\ c.completed_at = None
      /\ c.failure_override = s.failure_override /\ c.legacy_state = s.legacy_state
      /\ c.attempt_number = s.attempt_number /\ c.model_usage = s.model_usage
      /\ \A f \in EvidenceFields : f # "failure_override" => c[f] = st[f]
  BY <1>2 DEF Completing, Update, Fails, OrchestrationState, EvidenceFields
<1> HIDE DEF c
<1>5. /\ Len(c.completed_nodes) = i
      /\ c.completed_nodes[i] = n
      /\ \A k \in 1..(i - 1) : c.completed_nodes[k] = st.completed_nodes[k]
  <2>1. st.completed_nodes \in Seq(NodeName)
    BY <1>2 DEF OrchestrationState
  <2>2. QED
    BY <1>1, <1>3, <1>4, <2>1, AppendProperties
<1>6. \A k \in 1..(i - 1) : st.completed_nodes[k] = NodeNames[k]
  BY <1>2, <1>3 DEF Valid, ValidExecution, Routed
<1>7. \A k \in 1..i : c.completed_nodes[k] = NodeNames[k] /\ NodeNames[k] # "route_result"
  <2>1. \A k \in 1..i : k \in 1..10 /\ (k = i \/ k \in 1..(i - 1))
    OBVIOUS
  <2>2. \A k \in 1..10 : NodeNames[k] # "route_result"
    BY DEF NodeNames
  <2>3. QED
    BY <1>5, <1>6, <2>1, <2>2
<1>8. ~Routed(c) /\ Executed(c) = i
  BY <1>5, <1>7 DEF Routed, Executed
<1>9. ValidExecution(c)
  BY <1>5, <1>7 DEF ValidExecution
<1>10. Evidence(c) = Evidence(st)
  BY <1>4, Zenon DEF Evidence, EvidenceFields
<1>11. s.failure_override \in { Infra, "CANDIDATE_FAILURE", "MALFORMED_MODEL_OUTPUT" }
  BY DEF Fails
<1>12. ASSUME n \in { "plan_repair", "generate_patch" }
       PROVE  i \in { 5, 6 }
  BY <1>12 DEF NodeNames
<1>13. ValidEvidence(c)
  <2>1. ASSUME NEW k \in 1..10
        PROVE  /\ Evidence(c)[k] => k <= i
               /\ ~Evidence(c)[k] /\ k <= i => c.failure_override # None /\ k = i
    <3>1. /\ Evidence(st)[k] => k <= i - 1
          /\ ~Evidence(st)[k] /\ k <= i - 1 => st.failure_override # None
      BY <1>2, <1>3, Zenon DEF Valid, ValidEvidence
    <3>2. c.failure_override # None
      BY <1>4, <1>11 DEF None, Infra
    <3>3. (k <= i - 1 => k <= i) /\ (k <= i => k <= i - 1 \/ k = i)
      OBVIOUS
    <3>4. QED
      BY <1>2, <1>10, <3>1, <3>2, <3>3, Zenon
  <2>2. c.model_usage # NoUsage => 5 <= i
    <3>1. CASE n \in { "plan_repair", "generate_patch" }
      BY <1>12, <3>1
    <3>2. CASE n \notin { "plan_repair", "generate_patch" }
      <4>1. st.model_usage # NoUsage => 5 <= i - 1
        BY <1>2, <1>3 DEF Valid, ValidEvidence
      <4>2. QED
        BY <1>4, <3>2, <4>1 DEF Fails
    <3>3. QED
      BY <3>1, <3>2
  <2>3. QED
    BY <1>8, <2>1, <2>2 DEF ValidEvidence
<1>14. st.evaluation_result = None
  <2>1. 10 \in i..10
    OBVIOUS
  <2>2. ~Evidence(st)[10]
    BY <2>1, NotYetGiven
  <2>3. QED
    BY <2>2, Zenon DEF Evidence
<1>15. i \in { 5, 6 } => /\ st.policy_result = None /\ st.static_result = None
                         /\ st.verification_result = None
  <2>1. i \in { 5, 6 } => 7 \in i..10 /\ 8 \in i..10 /\ 9 \in i..10
    OBVIOUS
  <2>2. i \in { 5, 6 } => ~Evidence(st)[7] /\ ~Evidence(st)[8] /\ ~Evidence(st)[9]
    BY <2>1, NotYetGiven
  <2>3. QED
    BY <2>2, Zenon DEF Evidence
<1>16. ValidDependencies(c)
  BY <1>2, <1>4, <1>14 DEF Valid, ValidDependencies, Fails, EvidenceFields
<1>17. ValidOverride(c)
  BY <1>4, <1>11, <1>12, <1>14, <1>15 DEF ValidOverride, Fails, EvidenceFields, Infra
<1>18. ValidTerminal(c)
  BY <1>4, <1>8 DEF ValidTerminal, None
<1>19. \A k \in 1..Len(st.completed_nodes) : st.completed_nodes[k] # n
  <2>1. \A k \in 1..(i - 1) : NodeNames[k] # NodeNames[i]
    BY DEF NodeNames
  <2>2. QED
    BY <1>3, <1>6, <2>1
<1>20. QED
  BY <1>2, <1>9, <1>13, <1>16, <1>17, <1>18, <1>19 DEF Finishes, Valid, c

\* A node that is not route_result always completes.
LEMMA NodeCompletes ==
    ASSUME IInv, Open, NEW i \in 1..10, NodeStep(NodeNames[i])
    PROVE  \E s : /\ Update(s) /\ Completes(NodeNames[i], s)
                  /\ Gives(NodeNames[i], s) \/ Fails(NodeNames[i], s)
                  /\ Accounts(NodeNames[i], s)
<1> DEFINE n == NodeNames[i]
<1>1. PICK succeeds, good, bad :
        /\ Node(n, succeeds, good, bad)
        /\ succeeds => Update(good) /\ Gives(n, good) /\ Accounts(n, good)
        /\ Update(bad) /\ Fails(n, bad) /\ Accounts(n, bad)
  BY DEF NodeStep
<1>2. Valid(st) /\ Runs(n)
  BY DEF IInv, NodeStep
<1>3. Finishes(n, Completing(bad, n))
  BY <1>1, <1>2, FailureValid
<1>4. \/ succeeds /\ Completes(n, good)
      \/ Completes(n, bad)
  BY <1>1, <1>2, <1>3 DEF Node, Commit, Finishes, Completes
<1>5. QED
  BY <1>1, <1>4

LEMMA NodeKeepsOpen ==
    ASSUME IInv, Open, NEW i \in 1..10, NodeStep(NodeNames[i])
    PROVE  Open' /\ graph' = "running"
<1> DEFINE n == NodeNames[i]
<1>1. n \in NodeName /\ n # "route_result"
  BY NodeNamesTyped, NodeNameCases
<1>2. PICK s : Update(s) /\ Completes(n, s) /\ (Gives(n, s) \/ Fails(n, s))
  BY NodeCompletes
<1>3. Valid(st) /\ st \in OrchestrationState /\ Founded(st)
  BY DEF IInv, TypeOK, Open, NodeStep, Runs
<1>4. st'.terminal_route = None
  BY <1>1, <1>2, <1>3, NotRouted
<1>5. Founded(s)
  BY <1>2 DEF Gives, Fails
<1>6. Founded(st')
  BY <1>2, <1>5 DEF Completes, Completing, Update, OrchestrationState, Founded
<1>7. graph' = "running" /\ node' = After(n, st')
  BY <1>1, <1>2 DEF Completes
<1>8. node' # "route_result" => st'.failure_override = None
  BY <1>1, <1>7 DEF After
<1>9. QED
  BY <1>4, <1>6, <1>7, <1>8 DEF Open

\* What EvidenceIsFinal asks of a step.
Kept ==
    /\ \A f \in {"preparation", "failure_analysis", "context", "proposal"} : st[f] => st'[f]
    /\ \A f \in {"baseline", "repair_plan", "policy_result", "static_result",
                 "verification_result", "evaluation_result"} :
           st[f] # None => st'[f] = st[f]
    /\ \A f \in {"failure_override", "terminal_route"} :
           st[f] # None => st'[f] \in { st[f], Infra }

LEMMA NodeKeepsEvidence ==
    ASSUME IInv, Open, NEW i \in 1..10, NodeStep(NodeNames[i])
    PROVE  Kept
<1> DEFINE n == NodeNames[i]
<1>1. PICK s : Update(s) /\ Completes(n, s) /\ (Gives(n, s) \/ Fails(n, s))
  BY NodeCompletes
<1>2. n # "route_result" /\ Runs(n)
  BY NodeNameCases DEF NodeStep
<1>3. st.terminal_route = None /\ st.failure_override = None
  BY <1>2 DEF Open, Runs
<1>4. \A f \in EvidenceFields : st'[f] = s[f]
  BY <1>1 DEF Completes, Completing, Update, OrchestrationState, EvidenceFields
<1>5. \A f \in EvidenceFields : f # "failure_override" /\ f # EvidenceOf[n] => st'[f] = st[f]
  BY <1>1, <1>4 DEF Gives, Fails
<1>6. ~Evidence(st)[i]
  <2>1. i \in i..10
    OBVIOUS
  <2>2. QED
    BY <1>2, <2>1, NotYetGiven
<1>7. IF EvidenceOf[n] \in {"preparation", "failure_analysis", "context", "proposal"}
      THEN ~st[EvidenceOf[n]] ELSE st[EvidenceOf[n]] = None
  <2>1. /\ i = 1 => ~st.preparation
        /\ i = 2 => st.baseline = None
        /\ i = 3 => ~st.failure_analysis
        /\ i = 4 => ~st.context
        /\ i = 5 => st.repair_plan = None
        /\ i = 6 => ~st.proposal
        /\ i = 7 => st.policy_result = None
        /\ i = 8 => st.static_result = None
        /\ i = 9 => st.verification_result = None
        /\ i = 10 => st.evaluation_result = None
    <3>1. /\ Evidence(st)[1] = st.preparation /\ Evidence(st)[2] = (st.baseline # None)
          /\ Evidence(st)[3] = st.failure_analysis /\ Evidence(st)[4] = st.context
          /\ Evidence(st)[5] = (st.repair_plan # None) /\ Evidence(st)[6] = st.proposal
          /\ Evidence(st)[7] = (st.policy_result # None)
          /\ Evidence(st)[8] = (st.static_result # None)
          /\ Evidence(st)[9] = (st.verification_result # None)
          /\ Evidence(st)[10] = (st.evaluation_result # None)
      BY Zenon DEF Evidence
    <3>2. QED
      BY <1>6, <3>1, Zenon
  <2>2. /\ i = 1 => EvidenceOf[n] = "preparation"
        /\ i = 2 => EvidenceOf[n] = "baseline"
        /\ i = 3 => EvidenceOf[n] = "failure_analysis"
        /\ i = 4 => EvidenceOf[n] = "context"
        /\ i = 5 => EvidenceOf[n] = "repair_plan"
        /\ i = 6 => EvidenceOf[n] = "proposal"
        /\ i = 7 => EvidenceOf[n] = "policy_result"
        /\ i = 8 => EvidenceOf[n] = "static_result"
        /\ i = 9 => EvidenceOf[n] = "verification_result"
        /\ i = 10 => EvidenceOf[n] = "evaluation_result"
    BY NodeNameCases DEF EvidenceOf
  <2>3. QED
    BY <2>1, <2>2
<1>8. QED
  BY <1>3, <1>5, <1>7 DEF Kept, EvidenceFields

(***************************************************************************)
(* Routing.                                                                 *)
(***************************************************************************)

\* The evidence of the graph is one that RoutingEvidence accepts: its validator and
\* the state's, which restate each other's rules, do not contradict.
LEMMA EvidenceRoutable ==
    ASSUME IInv, Open, graph = "running"
    PROVE  RoutingEvidenceValid(st)
<1>1. Valid(st) /\ Founded(st)
  BY DEF IInv, Open
<1>2. PICK k \in Nat : k = Len(st.completed_nodes) /\ k = Executed(st)
  BY LenTyped, NotYetRouted DEF IInv, TypeOK
<1>3. ASSUME NEW j \in 7..10, Evidence(st)[j]
      PROVE  st.baseline = "REPRODUCED_FAILURE"
  <2>1. j \in 1..10 /\ 3 \in 1..10 /\ (j <= k => 3 <= k /\ 3 # k)
    BY <1>2
  <2>2. j <= k
    BY <1>1, <1>2, <1>3, <2>1, Zenon DEF Valid, ValidEvidence
  <2>3. Evidence(st)[3]
    BY <1>1, <1>2, <2>1, <2>2, Zenon DEF Valid, ValidEvidence
  <2>4. st.failure_analysis
    BY <2>3, Zenon DEF Evidence
  <2>5. QED
    BY <1>1, <2>4 DEF Founded
<1>4. /\ st.policy_result # None => Evidence(st)[7]
      /\ st.static_result # None => Evidence(st)[8]
      /\ st.verification_result # None => Evidence(st)[9]
      /\ st.evaluation_result # None => Evidence(st)[10]
  BY Zenon DEF Evidence
<1>5. st.policy_result # None \/ st.static_result # None \/ st.verification_result # None
        \/ st.evaluation_result # None => st.baseline = "REPRODUCED_FAILURE"
  <2>1. 7 \in 7..10 /\ 8 \in 7..10 /\ 9 \in 7..10 /\ 10 \in 7..10
    OBVIOUS
  <2>2. QED
    BY <1>3, <1>4, <2>1
<1>6. /\ st.evaluation_result # None => st.verification_result # None
      /\ st.verification_result # None => st.static_result = "PASSED"
      /\ st.static_result # None => st.policy_result = "approved"
  BY <1>1 DEF Valid, ValidDependencies, Founded
<1>7. ValidOverride(st)
  BY <1>1 DEF Valid
<1>8. QED
  BY <1>5, <1>6, <1>7 DEF RoutingEvidenceValid, ValidOverride, None

LEMMA RoutedValid ==
    ASSUME IInv, Open, graph = "running"
    PROVE  Valid(Completing([st EXCEPT !.terminal_route = route_terminal(st),
                                       !.completed_at = "ontime"], "route_result"))
<1> DEFINE routed == [st EXCEPT !.terminal_route = route_terminal(st), !.completed_at = "ontime"]
           c == Completing(routed, "route_result")
<1>1. st \in OrchestrationState /\ Valid(st) /\ ~Routed(st)
  BY NotYetRouted DEF IInv, TypeOK
<1>2. PICK k \in Nat : k = Len(st.completed_nodes) /\ k = Executed(st)
  BY <1>1, LenTyped, NotYetRouted
<1>3. /\ c.completed_nodes = Append(st.completed_nodes, "route_result")
      /\ c.terminal_route = route_terminal(st) /\ c.completed_at = "ontime"
      /\ c.legacy_state = st.legacy_state /\ c.attempt_number = st.attempt_number
      /\ c.model_usage = st.model_usage /\ c.evaluation_usage = st.evaluation_usage
      /\ \A f \in EvidenceFields : c[f] = st[f]
  BY <1>1 DEF Completing, OrchestrationState, EvidenceFields
<1> HIDE DEF routed, c
<1>4. /\ Len(c.completed_nodes) = k + 1 /\ c.completed_nodes[k + 1] = "route_result"
      /\ \A j \in 1..k : c.completed_nodes[j] = st.completed_nodes[j]
  <2>1. st.completed_nodes \in Seq(NodeName) /\ "route_result" \in NodeName
    BY <1>1, NodeNameCases DEF OrchestrationState, NodeName
  <2>2. /\ Len(c.completed_nodes) = Len(st.completed_nodes) + 1
        /\ c.completed_nodes[Len(st.completed_nodes) + 1] = "route_result"
        /\ \A j \in 1..Len(st.completed_nodes) : c.completed_nodes[j] = st.completed_nodes[j]
    BY <1>3, <2>1, AppendProperties
  <2>3. QED
    BY <1>2, <2>2
<1>5. \A j \in 1..k : j <= 10 /\ st.completed_nodes[j] = NodeNames[j]
  BY <1>1, <1>2 DEF Valid, ValidExecution, Routed
<1>6. \A j \in 1..(k + 1) : j = k + 1 \/ j \in 1..k
  OBVIOUS
<1>7. ValidExecution(c)
  BY <1>4, <1>5, <1>6 DEF ValidExecution
<1>8. Routed(c) /\ Executed(c) = k
  <2>1. k + 1 \in 1..(k + 1) /\ (k + 1) - 1 = k
    OBVIOUS
  <2>2. QED
    BY <1>4, <2>1 DEF Routed, Executed
<1>9. Evidence(c) = Evidence(st)
  BY <1>3, Zenon DEF Evidence, EvidenceFields
<1>10. c.failure_override = st.failure_override
  BY <1>3 DEF EvidenceFields
<1>11. ValidEvidence(c)
  BY <1>1, <1>2, <1>3, <1>8, <1>9, <1>10, Zenon DEF Valid, ValidEvidence
<1>12. ValidDependencies(c) /\ ValidOverride(c)
  BY <1>1, <1>3 DEF Valid, ValidDependencies, ValidOverride, EvidenceFields
<1>13. RoutingEvidenceValid(c) /\ route_terminal(c) = route_terminal(st)
  <2>1. RoutingEvidenceValid(st)
    BY EvidenceRoutable
  <2>2. /\ c.failure_override = st.failure_override /\ c.baseline = st.baseline
        /\ c.policy_result = st.policy_result /\ c.static_result = st.static_result
        /\ c.verification_result = st.verification_result
        /\ c.evaluation_result = st.evaluation_result
    BY <1>3 DEF EvidenceFields
  <2>3. QED
    BY <2>1, <2>2 DEF RoutingEvidenceValid, route_terminal, EvidenceOutcome
<1>14. route_terminal(st) # None
  BY DEF route_terminal, EvidenceOutcome, Infra, None
<1>15. ValidTerminal(c)
  BY <1>3, <1>8, <1>13, <1>14 DEF ValidTerminal, None
<1>16. QED
  BY <1>7, <1>11, <1>12, <1>15 DEF Valid, c, routed

LEMMA RoutingKeepsEvidence ==
    ASSUME IInv, Open, route_result
    PROVE  Kept /\ Open'
<1>1. st.terminal_route = None /\ st \in OrchestrationState
  BY DEF Open, route_result, Runs, IInv, TypeOK
<1>2. graph' \in { "returned", "raised" }
  BY DEF route_result, Commit, Raise
<1>3. \/ st' = st
      \/ \E clock \in ClockReading :
             st' = Completing([st EXCEPT !.terminal_route = route_terminal(st),
                                         !.completed_at = clock], "route_result")
  BY DEF route_result, Commit, Raise
<1>4. \A f \in EvidenceFields : st'[f] = st[f]
  BY ZenonT(60), <1>1, <1>3 DEF Completing, OrchestrationState, EvidenceFields
<1>5. Kept
  BY <1>1, <1>4 DEF Kept, EvidenceFields
<1>6. st'.attempt_number = st.attempt_number /\ st'.model_configuration = st.model_configuration
  BY <1>1, <1>3 DEF Completing, OrchestrationState
<1>7. Founded(st')
  BY <1>4, <1>6 DEF Open, Founded, EvidenceFields
<1>8. QED
  BY <1>2, <1>5, <1>7 DEF Open

\* The graph's steps together.
LEMMA Step_Open ==
    ASSUME IInv, Open, Step
    PROVE  /\ Open' /\ Kept
           /\ graph' = "raised" => node = "route_result"
<1>1. CASE route_result
  BY <1>1, RoutingKeepsEvidence DEF route_result, Runs
<1>2. CASE \E i \in 1..10 : NodeStep(NodeNames[i])
  BY <1>2, NodeKeepsOpen, NodeKeepsEvidence
<1>3. QED
  BY <1>1, <1>2, StepIsNodeStep

(***************************************************************************)
(* Calls are accounted for.                                                 *)
(***************************************************************************)
LEMMA UnroutedExecuted ==
    ASSUME NEW s, Valid(s), s.terminal_route = None
    PROVE  Executed(s) = Len(s.completed_nodes)
BY DEF Valid, ValidTerminal, Executed

LEMMA NodeKeepsAccount ==
    ASSUME IInv, IInv', Open, UsageAccounted, NEW i \in 1..10, NodeStep(NodeNames[i])
    PROVE  UsageAccounted'
<1> DEFINE n == NodeNames[i]
<1>1. PICK s : /\ Update(s) /\ Completes(n, s) /\ Accounts(n, s)
               /\ Gives(n, s) \/ Fails(n, s)
  BY NodeCompletes
<1>2. n \in NodeName /\ n # "route_result" /\ Runs(n) /\ provider' = provider
  BY NodeNamesTyped, NodeNameCases DEF NodeStep
<1>3. Open' /\ graph' = "running" /\ st'.terminal_route = None
  BY NodeKeepsOpen DEF Open
<1>4. Len(st.completed_nodes) = i - 1 /\ Executed(st) = i - 1
  BY <1>2, Standing, NotYetRouted DEF Runs
<1>5. Len(st'.completed_nodes) = i
  <2>1. s \in OrchestrationState /\ s.completed_nodes = st.completed_nodes
    BY <1>1 DEF Update
  <2>2. Len(st'.completed_nodes) = (i - 1) + 1
    BY <1>1, <1>2, <1>4, <2>1, CompletingTyped DEF Completes
  <2>3. QED
    BY <2>2
<1>6. Executed(st') = i
  <2>1. Valid(st')
    BY <1>1 DEF Completes
  <2>2. QED
    BY <1>3, <1>5, <2>1, UnroutedExecuted
<1>7. /\ st'.model_usage = s.model_usage /\ st'.failure_override = s.failure_override
      /\ st'.repair_plan = s.repair_plan
  BY <1>1 DEF Completes, Completing, Update, OrchestrationState
<1>8. n # "plan_repair" => st'.repair_plan = st.repair_plan
  <2>1. n # "plan_repair" => EvidenceOf[n] # "repair_plan"
    BY <1>2 DEF EvidenceOf, NodeName, NodeNames
  <2>2. QED
    BY <1>1, <1>7, <2>1 DEF Gives, Fails, EvidenceFields
<1>9. st.failure_override = None
  BY <1>2 DEF Open, Runs
<1>10. /\ n = "plan_repair" <=> i = 5
       /\ n = "generate_patch" <=> i = 6
  BY DEF NodeNames
<1>11. CASE i < 5
  <2>1. i - 1 <= 4 /\ ~(5 <= i)
    BY <1>11
  <2>2. billed' = billed /\ billed = 0
    BY <1>1, <1>2, <1>4, <1>10, <1>11, <2>1 DEF Accounts, IInv, BillingBound, Runs
  <2>3. QED
    BY <1>6, <2>1, <2>2 DEF UsageAccounted
<1>12. CASE i = 5
  <2>1. billed' <= 1
    BY <1>3, <1>5, <1>12 DEF IInv, BillingBound
  <2>2. QED
    BY <1>1, <1>2, <1>7, <1>10, <1>12, <2>1 DEF Accounts, UsageAccounted
<1>13. CASE i = 6
  <2>1. st.repair_plan # "suitable" => billed <= 1
    BY <1>2 DEF UsageAccounted, Runs
  <2>2. QED
    BY <1>1, <1>2, <1>7, <1>8, <1>10, <1>13, <2>1 DEF Accounts, UsageAccounted
<1>14. CASE i > 6
  <2>1. 5 <= i - 1
    BY <1>14
  <2>2. /\ provider = "live" => st.model_usage = billed
        /\ st.repair_plan # "suitable" => billed <= 1
    BY <1>2, <1>4, <1>9, <2>1 DEF UsageAccounted, Runs, None, Infra
  <2>3. st'.model_usage = st.model_usage /\ billed' = billed /\ st'.repair_plan = st.repair_plan
    BY <1>1, <1>7, <1>8, <1>10, <1>14 DEF Accounts
  <2>4. QED
    BY <1>2, <2>2, <2>3 DEF UsageAccounted
<1>15. QED
  BY <1>11, <1>12, <1>13, <1>14

LEMMA RoutingKeepsAccount ==
    ASSUME IInv, Open, UsageAccounted, route_result
    PROVE  UsageAccounted'
<1>1. st \in OrchestrationState /\ UNCHANGED << provider, billed >> /\ graph = "running"
  BY DEF IInv, TypeOK, route_result, Runs
<1>2. CASE Raise
  BY <1>2 DEF Raise, UsageAccounted
<1>3. CASE ~Raise
  <2>1. PICK clock \in ClockReading :
          /\ st' = Completing([st EXCEPT !.terminal_route = route_terminal(st),
                                         !.completed_at = clock], "route_result")
          /\ Valid(st')
    BY <1>3 DEF route_result, Commit, Finishes
  <2>2. /\ st'.completed_nodes = Append(st.completed_nodes, "route_result")
        /\ st'.terminal_route = route_terminal(st) /\ st'.model_usage = st.model_usage
        /\ st'.failure_override = st.failure_override /\ st'.repair_plan = st.repair_plan
    BY <1>1, <2>1 DEF Completing, OrchestrationState
  <2>3. st'.terminal_route # None
    BY <2>2 DEF route_terminal, EvidenceOutcome, Infra, None
  <2>4. PICK k \in Nat : k = Len(st.completed_nodes) /\ k = Executed(st)
    BY <1>1, LenTyped, NotYetRouted
  <2>5. Len(st'.completed_nodes) = k + 1
    <3>1. st.completed_nodes \in Seq(NodeName) /\ "route_result" \in NodeName
      BY <1>1, NodeNameCases DEF OrchestrationState, NodeName
    <3>2. Len(st'.completed_nodes) = Len(st.completed_nodes) + 1
      BY <2>2, <3>1, AppendProperties
    <3>3. QED
      BY <2>4, <3>2
  <2>6. Executed(st') = k
    BY <2>1, <2>3, <2>5 DEF Valid, ValidTerminal, Executed
  <2>7. QED
    BY <1>1, <2>2, <2>4, <2>6 DEF UsageAccounted
<1>4. QED
  BY <1>2, <1>3

LEMMA Step_Account ==
    ASSUME IInv, Open, UsageAccounted, Step
    PROVE  UsageAccounted'
BY StepIsNodeStep, RoutingKeepsAccount, NodeKeepsAccount, Step_IInv

\* A usage never says more than the provider has counted.
Counts == st.model_usage # NoUsage => st.model_usage <= billed

LEMMA Step_Counts ==
    ASSUME IInv, Open, Counts, Step
    PROVE  Counts'
<1>1. CASE route_result
  <2>1. st'.model_usage = st.model_usage /\ billed' = billed
    BY <1>1 DEF route_result, Commit, Raise, Completing, IInv, TypeOK, OrchestrationState
  <2>2. QED
    BY <2>1 DEF Counts
<1>2. CASE \E i \in 1..10 : NodeStep(NodeNames[i])
  <2>1. PICK i \in 1..10 : NodeStep(NodeNames[i])
    BY <1>2
  <2>2. PICK s : Update(s) /\ Completes(NodeNames[i], s) /\ Accounts(NodeNames[i], s)
    BY <2>1, NodeCompletes
  <2>3. st'.model_usage = s.model_usage
    BY <2>2 DEF Completes, Completing, Update, OrchestrationState
  <2>4. st'.model_usage \in { st.model_usage, billed' } /\ billed <= billed'
    BY <2>2, <2>3 DEF Accounts, IInv, TypeOK
  <2>5. billed' \in 0..2
    BY Step_IInv DEF IInv, TypeOK
  <2>6. st.model_usage \in UsageValue /\ billed \in 0..2
    BY DEF IInv, TypeOK, OrchestrationState
  <2>7. QED
    BY <2>4, <2>5, <2>6 DEF Counts, UsageValue, NoUsage
<1>3. QED
  BY <1>1, <1>2, StepIsNodeStep

LEMMA Init_Open ==
    ASSUME Started
    PROVE  Open /\ UsageAccounted
<1>1. PICK configured \in BOOLEAN : st = InitialState(configured)
  BY DEF Started
<1>2. Open
  BY <1>1 DEF InitialState, Open, Founded, None
<1>3. Executed(st) = 0
  <2>1. Valid(st) /\ Len(st.completed_nodes) = 0
    BY <1>1, InitialStateValid
  <2>2. st.terminal_route = None
    BY <1>1 DEF InitialState
  <2>3. QED
    BY <2>1, <2>2, UnroutedExecuted
<1>4. ~(5 <= 0) /\ 0 <= 1
  OBVIOUS
<1>5. QED
  BY <1>2, <1>3, <1>4 DEF UsageAccounted, Started
=============================================================================
