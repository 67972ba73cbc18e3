-------------------------- MODULE RepairRunProofs --------------------------
(* Theorems about the repair process, for every set of providers.           *)
EXTENDS RepairRun, RepairGraphProofs

(***************************************************************************)
(* The inductive invariant: the graph's own, and what each phase of the     *)
(* process may rely on.                                                     *)
(***************************************************************************)

\* Nothing is routed while the graph has not run or runs, nor projected before it
\* has returned.
BeforeCleanup ==
    /\ phase # "graph" /\ graph = "running" => st.terminal_route = None
    /\ phase \in { "load", "create", "initialize" } => graph = "running"
    /\ phase \in { "load", "create", "initialize", "graph", "project" } => projected = None

\* What is projected is the state's own outcome, and only what is projected is stored.
Tells ==
    /\ projected # None => projected = st.terminal_route
    /\ artifact # None => artifact = projected

\* Publication begins with the workspaces dealt with, and an outcome other than
\* an infrastructure failure with the workspaces gone.
AfterCleaning ==
    /\ phase \in { "publish", "report" } => projected # None
    /\ artifact # None \/ phase \in { "publish", "report" } =>
           \/ workspace = "absent"
           \/ workspace = "undeletable" /\ projected = Infra

Storing ==
    /\ phase \notin { "publish", "report", "exited" } =>
           storing = "prepare" /\ temporary = "absent" /\ artifact = None
    /\ storing \in { "verify", "stored" } => artifact # None /\ temporary = "absent"
    /\ phase = "report" => storing = "stored"

RunInv ==
    /\ IInv /\ RunTypeOK
    /\ BeforeCleanup /\ Tells /\ AfterCleaning /\ Storing
    /\ exit # NoExit <=> phase = "exited"
    /\ ExitIsEarned

(***************************************************************************)
(* The graph's invariant outside the graph.                                 *)
(***************************************************************************)
LEMMA UntouchedGraph ==
    ASSUME IInv, UNCHANGED graphVars
    PROVE  IInv'
BY DEF graphVars, IInv, TypeOK, Position, BillingBound, AttemptInv, SuccessIsEarned

\* The process puts another state in the place of the graph's.
LEMMA SubstitutedState ==
    ASSUME IInv, UNCHANGED << node, provider, billed >>,
           graph' \in { "returned", "raised", "interrupted" },
           st' \in OrchestrationState, Valid(st'),
           st'.proposal => st'.repair_plan = "suitable",
           st'.repair_plan # None => st'.attempt_number = 1,
           st'.terminal_route # "SUCCESS"
    PROVE  IInv'
BY DEF IInv, TypeOK, Position, BillingBound, AttemptInv, SuccessIsEarned

LEMMA ConfiguredTyped ==
    ASSUME IInv
    PROVE  st.model_configuration \in BOOLEAN
BY DEF IInv, TypeOK, OrchestrationState

LEMMA InitialSubstitute ==
    ASSUME NEW configured \in BOOLEAN
    PROVE  LET s == InitialState(configured)
           IN  /\ s \in OrchestrationState /\ Valid(s)
               /\ s.proposal = FALSE /\ s.repair_plan = None /\ s.terminal_route = None
<1>1. LET s == InitialState(configured)
      IN  s.proposal = FALSE /\ s.repair_plan = None /\ s.terminal_route = None
  BY DEF InitialState
<1>2. QED
  BY <1>1, InitialStateValid

\* A state that is turned into an infrastructure failure.
LEMMA ReplacedTyped ==
    ASSUME NEW s \in OrchestrationState, NEW clock \in { "ontime", "early" }
    PROVE  LET t == Replaced(s, clock)
           IN  /\ t \in OrchestrationState
               /\ t.proposal = s.proposal /\ t.repair_plan = s.repair_plan
               /\ t.attempt_number = s.attempt_number /\ t.terminal_route = Infra
<1>1. Infra \in TerminalOutcome
  BY DEF Infra, TerminalOutcome
<1> DEFINE t1 == [s EXCEPT !.failure_override = Infra]
           t2 == [t1 EXCEPT !.terminal_route = Infra]
           t3 == [t2 EXCEPT !.completed_at = clock]
<1>2. /\ t1 \in OrchestrationState
      /\ t1.proposal = s.proposal /\ t1.repair_plan = s.repair_plan
      /\ t1.attempt_number = s.attempt_number
  BY <1>1, SMTT(60) DEF OrchestrationState
<1> HIDE DEF t1
<1>3. /\ t2 \in OrchestrationState
      /\ t2.proposal = t1.proposal /\ t2.repair_plan = t1.repair_plan
      /\ t2.attempt_number = t1.attempt_number /\ t2.terminal_route = Infra
  BY <1>1, <1>2, SMTT(60) DEF OrchestrationState
<1> HIDE DEF t2
<1>4. /\ t3 \in OrchestrationState
      /\ t3.proposal = t2.proposal /\ t3.repair_plan = t2.repair_plan
      /\ t3.attempt_number = t2.attempt_number /\ t3.terminal_route = t2.terminal_route
  BY <1>3, SMTT(60) DEF OrchestrationState
<1>5. Replaced(s, clock) = t3
  BY Zenon DEF Replaced, t1, t2
<1> HIDE DEF t3
<1>6. QED
  BY <1>2, <1>3, <1>4, <1>5, Zenon

LEMMA CompletingKeeps ==
    ASSUME NEW s \in OrchestrationState, NEW n \in NodeName
    PROVE  LET t == Completing(s, n)
           IN  /\ t \in OrchestrationState
               /\ t.proposal = s.proposal /\ t.repair_plan = s.repair_plan
               /\ t.attempt_number = s.attempt_number /\ t.terminal_route = s.terminal_route
<1>1. Completing(s, n) \in OrchestrationState
  BY CompletingTyped
<1>2. LET t == Completing(s, n)
      IN  /\ t.proposal = s.proposal /\ t.repair_plan = s.repair_plan
          /\ t.attempt_number = s.attempt_number /\ t.terminal_route = s.terminal_route
  BY SMTT(60) DEF Completing, OrchestrationState
<1>3. QED
  BY <1>1, <1>2

LEMMA TerminalizedTyped ==
    ASSUME NEW configured \in BOOLEAN, NEW clock \in { "ontime", "early" }
    PROVE  LET t == Terminalized(InitialState(configured), clock)
           IN  /\ t \in OrchestrationState
               /\ t.proposal = FALSE /\ t.repair_plan = None /\ t.terminal_route = Infra
<1> DEFINE s == InitialState(configured)
           r == Replaced(s, clock)
<1>1. s \in OrchestrationState /\ s.proposal = FALSE /\ s.repair_plan = None
  BY InitialSubstitute
<1> HIDE DEF s
<1>2. /\ r \in OrchestrationState /\ r.terminal_route = Infra
      /\ r.proposal = s.proposal /\ r.repair_plan = s.repair_plan
  BY <1>1, ReplacedTyped
<1>3. Terminalized(s, clock) = Completing(r, "route_result")
  BY DEF Terminalized, Replaced
<1>4. "route_result" \in NodeName
  BY NodeNameCases DEF NodeName
<1> HIDE DEF r
<1>5. QED
  BY <1>1, <1>2, <1>3, <1>4, CompletingKeeps DEF s

(***************************************************************************)
(* The steps that leave the graph's variables alone.                        *)
(***************************************************************************)
LEMMA LoadCase_RunInv ==
    ASSUME RunInv, LoadCase
    PROVE  RunInv'
<1>1. IInv' /\ TypeOK'
  BY UntouchedGraph DEF LoadCase, RunInv, IInv
<1>2. QED
  BY <1>1 DEF LoadCase, RunInv, RunTypeOK, BeforeCleanup, Tells, AfterCleaning, Storing, ExitIsEarned, Phase, Leave, NoExit, Codes, TerminalOutcome, Infra, None, StoreStep, StoreEnd, storeVars, graphVars

LEMMA CreateWorkspace_RunInv ==
    ASSUME RunInv, CreateWorkspace
    PROVE  RunInv'
<1>1. IInv' /\ TypeOK'
  BY UntouchedGraph DEF CreateWorkspace, RunInv, IInv
<1>2. QED
  BY <1>1 DEF CreateWorkspace, RunInv, RunTypeOK, BeforeCleanup, Tells, AfterCleaning, Storing, ExitIsEarned, Phase, Leave, NoExit, Codes, TerminalOutcome, Infra, None, StoreStep, StoreEnd, storeVars, graphVars

LEMMA InitializeState_RunInv ==
    ASSUME RunInv, InitializeState
    PROVE  RunInv'
<1>1. IInv' /\ TypeOK'
  BY UntouchedGraph DEF InitializeState, RunInv, IInv
<1>2. QED
  BY <1>1 DEF InitializeState, RunInv, RunTypeOK, BeforeCleanup, Tells, AfterCleaning, Storing, ExitIsEarned, Phase, Leave, NoExit, Codes, TerminalOutcome, Infra, None, StoreStep, StoreEnd, storeVars, graphVars

LEMMA InterruptEarly_RunInv ==
    ASSUME RunInv, InterruptEarly
    PROVE  RunInv'
<1>1. IInv' /\ TypeOK'
  BY UntouchedGraph DEF InterruptEarly, RunInv, IInv
<1>2. QED
  BY <1>1 DEF InterruptEarly, RunInv, RunTypeOK, BeforeCleanup, Tells, AfterCleaning, Storing, ExitIsEarned, Phase, Leave, NoExit, Codes, TerminalOutcome, Infra, None, StoreStep, StoreEnd, storeVars, graphVars

LEMMA InterruptCleanup_RunInv ==
    ASSUME RunInv, InterruptCleanup
    PROVE  RunInv'
<1>1. IInv' /\ TypeOK'
  BY UntouchedGraph DEF InterruptCleanup, RunInv, IInv
<1>2. QED
  BY <1>1 DEF InterruptCleanup, RunInv, RunTypeOK, BeforeCleanup, Tells, AfterCleaning, Storing, ExitIsEarned, Phase, Leave, NoExit, Codes, TerminalOutcome, Infra, None, StoreStep, StoreEnd, storeVars, graphVars

LEMMA Published_RunInv ==
    ASSUME RunInv, Published
    PROVE  RunInv'
<1>1. IInv' /\ TypeOK'
  BY UntouchedGraph DEF Published, RunInv, IInv
<1>2. QED
  BY <1>1 DEF Published, RunInv, RunTypeOK, BeforeCleanup, Tells, AfterCleaning, Storing, ExitIsEarned, Phase, Leave, NoExit, Codes, TerminalOutcome, Infra, None, StoreStep, StoreEnd, storeVars, graphVars

LEMMA InterruptReport_RunInv ==
    ASSUME RunInv, InterruptReport
    PROVE  RunInv'
<1>1. IInv' /\ TypeOK'
  BY UntouchedGraph DEF InterruptReport, RunInv, IInv
<1>2. QED
  BY <1>1 DEF InterruptReport, RunInv, RunTypeOK, BeforeCleanup, Tells, AfterCleaning, Storing, ExitIsEarned, Phase, Leave, NoExit, Codes, TerminalOutcome, Infra, None, StoreStep, StoreEnd, storeVars, graphVars

LEMMA CleanupRemoves_RunInv ==
    ASSUME RunInv, CleanupRemoves
    PROVE  RunInv'
<1>1. IInv' /\ TypeOK'
  BY UntouchedGraph DEF CleanupRemoves, RunInv, IInv
<1>2. QED
  BY <1>1 DEF CleanupRemoves, AfterCleanup, RunInv, RunTypeOK, BeforeCleanup, Tells, AfterCleaning, Storing, ExitIsEarned, Phase, Leave, NoExit, Codes, TerminalOutcome, Infra, None, StoreStep, StoreEnd, storeVars, graphVars

LEMMA Project_RunInv ==
    ASSUME RunInv, Project
    PROVE  RunInv'
<1>1. IInv' /\ TypeOK'
  BY UntouchedGraph DEF Project, RunInv, IInv
<1>2. projected' \in { None, st.terminal_route }
  BY DEF Project, project_artifact
<1>3. st.terminal_route \in TerminalOutcome \cup {None}
  BY DEF RunInv, IInv, TypeOK, OrchestrationState
<1>4. QED
  BY <1>1, <1>2, <1>3 DEF Project, RunInv, RunTypeOK, BeforeCleanup, Tells, AfterCleaning, Storing, ExitIsEarned, Phase, Leave, NoExit, None, storeVars, graphVars

LEMMA Report_RunInv ==
    ASSUME RunInv, Report
    PROVE  RunInv'
<1>1. IInv' /\ TypeOK'
  BY UntouchedGraph DEF Report, RunInv, IInv
<1>2. QED
  BY <1>1 DEF Report, RunInv, RunTypeOK, BeforeCleanup, Tells, AfterCleaning, Storing, ExitIsEarned, Phase, Leave, NoExit, Codes, TerminalOutcome, Infra, None, StoreStep, StoreEnd, storeVars, graphVars

LEMMA Publish_RunInv ==
    ASSUME RunInv, Publish
    PROVE  RunInv'
<1>1. IInv' /\ TypeOK'
  BY UntouchedGraph DEF Publish, RunInv, IInv
<1>2. /\ phase = "publish" /\ UNCHANGED << graphVars, phase, workspace, projected, interrupted, exit >>
      /\ projected # None
  BY DEF Publish, RunInv, AfterCleaning
<1>3. CASE Store(projected)
  <2>1. CASE storing = "rename"
    BY <1>1, <1>2, <1>3, <2>1 DEF Store, Succeeding, TemporaryAfter, ArtifactAfter, RunInv, RunTypeOK, BeforeCleanup, Tells, AfterCleaning,
     Storing, ExitIsEarned, None, NoExit, StoreStep, StoreEnd, storeVars, graphVars
  <2>2. CASE storing # "rename"
    <3>1. artifact' = artifact /\ storing' \in { "open", "write", "rename", "stored" }
      BY <1>3, <2>2 DEF Store, ArtifactAfter, Succeeding, StoreStep
    <3>2. storing' = "stored" => storing = "verify" /\ temporary' = temporary
      BY <1>3, <2>2 DEF Store, TemporaryAfter, Succeeding, StoreStep
    <3>3. temporary' \in { "absent", "partial", "complete" } /\ published' \in BOOLEAN
      BY <1>3 DEF Store, TemporaryAfter, RunInv, RunTypeOK
    <3>4. QED
      BY <1>1, <1>2, <3>1, <3>2, <3>3 DEF RunInv, RunTypeOK, BeforeCleanup, Tells, AfterCleaning,
     Storing, ExitIsEarned, None, NoExit, StoreStep, StoreEnd, storeVars, graphVars
  <2>3. QED
    BY <2>1, <2>2
<1>4. CASE StoreFails
  BY <1>1, <1>2, <1>4 DEF StoreFails, RunInv, RunTypeOK, BeforeCleanup, Tells, AfterCleaning,
     Storing, ExitIsEarned, None, NoExit, StoreStep, StoreEnd, storeVars, graphVars
<1>5. CASE Undo
  BY <1>1, <1>2, <1>5 DEF Undo, Undone, RunInv, RunTypeOK, BeforeCleanup, Tells, AfterCleaning,
     Storing, ExitIsEarned, None, NoExit, StoreStep, StoreEnd, storeVars, graphVars
<1>6. QED
  BY <1>3, <1>4, <1>5 DEF Publish

LEMMA InterruptPublication_RunInv ==
    ASSUME RunInv, InterruptPublication
    PROVE  RunInv'
<1>1. IInv' /\ TypeOK'
  BY UntouchedGraph DEF InterruptPublication, RunInv, IInv
<1>2. QED
  BY <1>1 DEF InterruptPublication, StoreInterrupted, UndoInterrupted, Undone, Succeeding, TemporaryAfter, ArtifactAfter, RunInv, RunTypeOK, BeforeCleanup, Tells, AfterCleaning, Storing, ExitIsEarned, Phase, Leave, NoExit, Codes, TerminalOutcome, Infra, None, StoreStep, StoreEnd, storeVars, graphVars

(***************************************************************************)
(* The steps that change the graph's state.                                 *)
(***************************************************************************)
LEMMA GraphStep_RunInv ==
    ASSUME RunInv, GraphStep
    PROVE  RunInv'
<1>1. IInv' /\ TypeOK'
  BY Step_IInv DEF GraphStep, RunInv, IInv
<1>2. phase = "graph" /\ UNCHANGED runVars
  BY DEF GraphStep
<1>3. projected = None /\ artifact = None /\ exit = NoExit
  BY <1>2 DEF RunInv, BeforeCleanup, Storing
<1>4. QED
  BY <1>1, <1>2, <1>3 DEF RunInv, RunTypeOK, BeforeCleanup, Tells, AfterCleaning,
     Storing, ExitIsEarned, Phase, NoExit, None, runVars, storeVars

LEMMA LeaveGraph_RunInv ==
    ASSUME RunInv, LeaveGraph
    PROVE  RunInv'
<1>1. /\ phase = "graph" /\ graph \in { "returned", "raised" } /\ phase' \in { "project", "cleanup" }
      /\ UNCHANGED << node, graph, provider, billed, workspace, projected, interrupted,
                      storeVars, exit >>
  BY DEF LeaveGraph
<1>2. IInv'
  <2>1. CASE graph = "returned" /\ UNCHANGED st
    BY <1>1, <2>1, UntouchedGraph DEF RunInv, graphVars
  <2>2. CASE graph = "raised"
    <3> DEFINE configured == st.model_configuration
               initial == InitialState(configured)
    <3>1. configured \in BOOLEAN
      BY ConfiguredTyped DEF RunInv
    <3>2. PICK clock \in ClockReading :
              IF clock # "fails" /\ Valid(Terminalized(initial, clock))
              THEN st' = Terminalized(initial, clock) ELSE st' = initial
      BY <2>2 DEF LeaveGraph
    <3>3. CASE st' = initial
      BY <1>1, <3>1, <3>3, InitialSubstitute, SubstitutedState DEF RunInv, None
    <3>4. CASE /\ st' = Terminalized(initial, clock) /\ Valid(st') /\ clock # "fails"
      <4>1. clock \in { "ontime", "early" }
        BY <3>4 DEF ClockReading
      <4> HIDE DEF configured
      <4>2. /\ st' \in OrchestrationState /\ st'.proposal = FALSE /\ st'.repair_plan = None
            /\ st'.terminal_route = Infra
        BY <3>1, <3>4, <4>1, TerminalizedTyped
      <4>3. QED
        BY <1>1, <3>4, <4>2, SubstitutedState DEF RunInv, Infra
    <3>5. QED
      BY <3>2, <3>3, <3>4
  <2>3. QED
    BY <1>1, <2>1, <2>2 DEF LeaveGraph
<1>3. TypeOK'
  BY <1>2 DEF IInv
<1>4. projected = None /\ artifact = None /\ exit = NoExit
  BY <1>1 DEF RunInv, BeforeCleanup, Storing
<1>5. QED
  BY <1>1, <1>2, <1>3, <1>4 DEF RunInv, RunTypeOK, BeforeCleanup, Tells, AfterCleaning,
     Storing, ExitIsEarned, Phase, NoExit, None, runVars, storeVars

LEMMA CleanupFails_RunInv ==
    ASSUME RunInv, CleanupFails
    PROVE  RunInv'
<1>1. /\ phase = "cleanup" /\ workspace' = "undeletable" /\ AfterCleanup
      /\ UNCHANGED << node, graph, provider, billed, interrupted, storeVars >>
  BY DEF CleanupFails
<1>2. \/ st' = st /\ projected' = None
      \/ st' = st /\ projected' = projected /\ st.terminal_route = None
      \/ \E clock \in { "ontime", "early" } :
             /\ st.terminal_route # None
             /\ st' = Replaced(st, clock) /\ Valid(st')
             /\ projected' \in { None, st'.terminal_route }
  BY DEF CleanupFails, ClockReading, project_artifact
<1>3. CASE st' = st /\ (projected' = None \/ (projected' = projected /\ st.terminal_route = None))
  <2>1. IInv' /\ TypeOK'
    BY <1>1, <1>3, UntouchedGraph DEF graphVars, RunInv, IInv
  <2>2. projected' = None
    BY <1>3 DEF RunInv, Tells
  <2>3. QED
    BY <1>1, <1>3, <2>1, <2>2 DEF AfterCleanup, Leave, RunInv, RunTypeOK, BeforeCleanup, Tells, AfterCleaning,
     Storing, ExitIsEarned, Phase, NoExit, None, runVars, storeVars
<1>4. CASE \E clock \in { "ontime", "early" } :
               /\ st.terminal_route # None
               /\ st' = Replaced(st, clock) /\ Valid(st')
               /\ projected' \in { None, st'.terminal_route }
  <2>1. PICK clock \in { "ontime", "early" } : st' = Replaced(st, clock)
    BY <1>4
  <2>2. st \in OrchestrationState /\ AttemptInv
    BY DEF RunInv, IInv, TypeOK
  <2>3. /\ st' \in OrchestrationState
        /\ st'.proposal = st.proposal /\ st'.repair_plan = st.repair_plan
        /\ st'.attempt_number = st.attempt_number /\ st'.terminal_route = Infra
    BY <2>1, <2>2, ReplacedTyped
  <2>4. graph # "running" /\ graph \in { "returned", "raised", "interrupted" }
    BY <1>1, <1>4 DEF RunInv, BeforeCleanup, IInv, TypeOK
  <2>5. IInv' /\ TypeOK'
    BY <1>1, <1>4, <2>2, <2>3, <2>4, SubstitutedState DEF RunInv, IInv, AttemptInv, Infra
  <2>6. projected' \in { None, Infra } /\ Infra \in TerminalOutcome
    BY <1>4, <2>3 DEF Infra, TerminalOutcome
  <2>7. QED
    BY <1>1, <2>3, <2>4, <2>5, <2>6 DEF AfterCleanup, Leave, RunInv, RunTypeOK, BeforeCleanup, Tells, AfterCleaning,
     Storing, ExitIsEarned, Phase, NoExit, None, runVars, storeVars
<1>5. QED
  BY <1>2, <1>3, <1>4

LEMMA InterruptRun_RunInv ==
    ASSUME RunInv, InterruptRun
    PROVE  RunInv'
<1>1. /\ phase \in { "initialize", "graph", "project" } /\ phase' = "cleanup" /\ interrupted' = TRUE
      /\ UNCHANGED << node, provider, billed, workspace, projected, storeVars, exit >>
  BY DEF InterruptRun
<1>2. /\ IInv'
      /\ phase # "graph" => st' = st /\ graph' = graph
      /\ phase = "graph" => graph' = "interrupted"
  <2>1. CASE phase = "graph"
    <3> DEFINE configured == st.model_configuration
    <3>1. configured \in BOOLEAN
      BY ConfiguredTyped DEF RunInv
    <3>2. st' = InitialState(configured) /\ graph' = "interrupted"
      BY <2>1 DEF InterruptRun
    <3> HIDE DEF configured
    <3>3. QED
      BY <1>1, <2>1, <3>1, <3>2, InitialSubstitute, SubstitutedState DEF RunInv, None
  <2>2. CASE phase # "graph"
    BY <1>1, <2>2, UntouchedGraph DEF InterruptRun, RunInv, graphVars
  <2>3. QED
    BY <2>1, <2>2
<1>3. TypeOK'
  BY <1>2 DEF IInv
<1>4. projected = None /\ artifact = None /\ exit = NoExit
  BY <1>1 DEF RunInv, BeforeCleanup, Storing
<1>5. QED
  BY <1>1, <1>2, <1>3, <1>4 DEF RunInv, RunTypeOK, BeforeCleanup, Tells, AfterCleaning,
     Storing, ExitIsEarned, Phase, NoExit, None, runVars, storeVars

LEMMA RunNext_RunInv ==
    ASSUME RunInv, [RunNext]_vars
    PROVE  RunInv'
<1>1. CASE RunStep
  BY <1>1, LoadCase_RunInv, CreateWorkspace_RunInv, InitializeState_RunInv, GraphStep_RunInv,
     LeaveGraph_RunInv, Project_RunInv, CleanupRemoves_RunInv, CleanupFails_RunInv,
     Publish_RunInv, Published_RunInv, Report_RunInv DEF RunStep
<1>2. CASE InterruptEarly \/ InterruptRun \/ InterruptCleanup \/ InterruptPublication \/ InterruptReport
  BY <1>2, InterruptEarly_RunInv, InterruptRun_RunInv, InterruptCleanup_RunInv,
     InterruptPublication_RunInv, InterruptReport_RunInv
<1>3. CASE UNCHANGED vars
  <2>1. IInv' /\ TypeOK'
    BY <1>3, UntouchedGraph DEF vars, RunInv, IInv
  <2>2. QED
    BY <1>3, <2>1 DEF vars, graphVars, RunInv, RunTypeOK, BeforeCleanup, Tells, AfterCleaning,
     Storing, ExitIsEarned, Phase, NoExit, None, runVars, storeVars
<1>4. QED
  BY <1>1, <1>2, <1>3 DEF RunNext

\* How every process of a repair starts.
RunStarted ==
    /\ Started
    /\ phase = "load" /\ workspace = "absent" /\ projected = None /\ interrupted = FALSE
    /\ StoreInit /\ exit = NoExit

LEMMA RunInit_RunStarted ==
    ASSUME RunInit
    PROVE  RunStarted
BY Init_Started DEF RunInit, RunStarted

LEMMA RunInit_RunInv ==
    ASSUME RunStarted
    PROVE  RunInv
<1>1. IInv /\ TypeOK
  BY Init_IInv DEF RunStarted, IInv
<1>2. graph = "running" /\ st.terminal_route = None
  BY DEF RunStarted, Started, InitialState
<1>3. /\ phase = "load" /\ workspace = "absent" /\ projected = None /\ interrupted = FALSE
      /\ storing = "prepare" /\ temporary = "absent" /\ artifact = None /\ published = FALSE
      /\ exit = NoExit
  BY DEF RunStarted, StoreInit, None
<1>4. RunTypeOK
  BY <1>1, <1>3 DEF RunTypeOK, Phase, StoreStep
<1>5. BeforeCleanup /\ Tells /\ AfterCleaning /\ Storing
  BY <1>2, <1>3 DEF BeforeCleanup, Tells, AfterCleaning, Storing
<1>6. ExitIsEarned /\ (exit # NoExit <=> phase = "exited")
  BY <1>3 DEF ExitIsEarned, NoExit
<1>7. QED
  BY <1>1, <1>4, <1>5, <1>6 DEF RunInv

(***************************************************************************)
(* The theorems.                                                            *)
(***************************************************************************)

\* Every reachable state of the process satisfies the inductive invariant: in
\* particular the state in the transport is one its validator accepts, what is
\* projected is what the state says, and what is stored is what was projected.
THEOREM RunInvariant == RunSpec => []RunInv
<1>1. RunInit => RunInv
  BY RunInit_RunStarted, RunInit_RunInv
<1>2. RunInv /\ [RunNext]_vars => RunInv'
  BY RunNext_RunInv
<1>3. QED
  BY <1>1, <1>2, PTL DEF RunSpec

\* The process's variables are well typed; in particular a run never counts more
\* than two provider calls, one per model stage.
THEOREM RunTypeCorrect == RunSpec => []RunTypeOK
<1>1. RunInv => RunTypeOK
  BY DEF RunInv
<1>2. QED
  BY <1>1, RunInvariant, PTL

\* A run is routed to success only with passing evidence of all ten nodes and a
\* spent attempt: no edge, override, failure path or replacement of the state by
\* the process leads around a check.
THEOREM SuccessAlwaysEarned == RunSpec => []SuccessIsEarned
<1>1. RunInv => SuccessIsEarned
  BY DEF RunInv, IInv
<1>2. QED
  BY <1>1, RunInvariant, PTL

\* An exit code that names an outcome is backed by an artifact of that outcome,
\* and the workspaces are gone.
THEOREM ExitAlwaysEarned == RunSpec => []ExitIsEarned
<1>1. RunInv => ExitIsEarned
  BY DEF RunInv
<1>2. QED
  BY <1>1, RunInvariant, PTL

\* An artifact reports success only for a run that passed every stage, and
\* anything but an infrastructure failure only with the workspaces gone.
THEOREM ArtifactAlwaysHonest == RunSpec => []ArtifactIsHonest
<1>1. RunInv => ArtifactIsHonest
  <2>1. SUFFICES ASSUME RunInv, artifact # None
                 PROVE  ArtifactIsHonest
    BY DEF ArtifactIsHonest
  <2>2. artifact = projected /\ artifact = st.terminal_route
    BY <2>1 DEF RunInv, Tells
  <2>3. workspace = "absent" \/ (workspace = "undeletable" /\ artifact = Infra)
    BY <2>1, <2>2 DEF RunInv, AfterCleaning
  <2>4. artifact = "SUCCESS" => \A k \in 1..10 : Passing(st)[k]
    BY <2>1, <2>2 DEF RunInv, IInv, SuccessIsEarned
  <2>5. QED
    BY <2>3, <2>4 DEF ArtifactIsHonest
<1>2. QED
  BY <1>1, RunInvariant, PTL

(***************************************************************************)
(* Interrupts.                                                              *)
(***************************************************************************)

\* From an interrupt on the process only cleans up: the workspaces, or what of the
\* artifact was already on disk.
Interrupting ==
    interrupted =>
        \/ phase \in { "cleanup", "exited" }
        \/ phase = "publish" /\ storing \in { "undo_interrupted", "interrupted" }

LEMMA InterruptingStep ==
    ASSUME RunInv, Interrupting, RunNext
    PROVE  Interrupting'
<1> USE DEF Interrupting, runVars, storeVars, Leave
<1>1. CASE LoadCase \/ CreateWorkspace \/ InitializeState \/ GraphStep \/ LeaveGraph \/ Project
  BY <1>1 DEF LoadCase, CreateWorkspace, InitializeState, GraphStep, LeaveGraph, Project
<1>2. CASE CleanupRemoves \/ CleanupFails
  BY <1>2 DEF CleanupRemoves, CleanupFails, AfterCleanup
<1>3. CASE Publish
  BY <1>3 DEF Publish, Store, StoreFails, Undo, StoreStep
<1>4. CASE Published \/ Report
  BY <1>4 DEF Published, Report
<1>5. CASE InterruptEarly \/ InterruptRun \/ InterruptCleanup \/ InterruptReport
  BY <1>5 DEF InterruptEarly, InterruptRun, InterruptCleanup, InterruptReport
<1>6. CASE InterruptPublication
  <2>1. CASE StoreInterrupted(projected)
    BY <1>6, <2>1 DEF InterruptPublication, StoreInterrupted
  <2>2. CASE UndoInterrupted
    BY <1>6, <2>2 DEF InterruptPublication, UndoInterrupted
  <2>3. QED
    BY <1>6, <2>1, <2>2 DEF InterruptPublication
<1>7. QED
  BY <1>1, <1>2, <1>3, <1>4, <1>5, <1>6 DEF RunNext, RunStep

LEMMA InterruptedStep ==
    ASSUME RunInv, Interrupting, interrupted, RunNext
    PROVE  artifact' \in { artifact, None } /\ exit' \in { NoExit, 130 }
<1> USE DEF Interrupting, runVars, storeVars, Leave
<1>1. phase = "exited" \/ exit = NoExit
  BY DEF RunInv
<1>2. CASE phase = "cleanup"
  BY <1>1, <1>2 DEF RunNext, RunStep, LoadCase, CreateWorkspace, InitializeState, GraphStep, LeaveGraph, Project,
     CleanupRemoves, CleanupFails, AfterCleanup, Publish, Published, Report, InterruptEarly, InterruptRun,
     InterruptCleanup, InterruptPublication, InterruptReport
<1>3. CASE phase = "publish" /\ storing = "undo_interrupted"
  <2>1. Publish
    BY <1>3 DEF RunNext, RunStep, LoadCase, CreateWorkspace, InitializeState, GraphStep, LeaveGraph, Project,
       CleanupRemoves, CleanupFails, Published, Report, InterruptEarly, InterruptRun, InterruptCleanup,
       InterruptPublication, StoreInterrupted, UndoInterrupted, InterruptReport, StoreStep, StoreEnd
  <2>2. exit' = NoExit /\ Undo
    BY <1>1, <1>3, <2>1 DEF Publish, Store, StoreFails, StoreStep
  <2>3. QED
    BY <2>2 DEF Undo, Undone, None
<1>4. CASE phase = "publish" /\ storing = "interrupted"
  <2>1. Published \/ InterruptReport
    BY <1>4 DEF RunNext, RunStep, LoadCase, CreateWorkspace, InitializeState, GraphStep, LeaveGraph, Project,
       CleanupRemoves, CleanupFails, Publish, Store, StoreFails, Undo, Report, InterruptEarly, InterruptRun,
       InterruptCleanup, InterruptPublication, StoreInterrupted, UndoInterrupted, StoreStep
  <2>2. QED
    BY <1>4, <2>1 DEF Published, InterruptReport
<1>5. phase # "exited"
  BY DEF RunNext, RunStep, LoadCase, CreateWorkspace, InitializeState, GraphStep, LeaveGraph, Project,
     CleanupRemoves, CleanupFails, Publish, Published, Report, InterruptEarly, InterruptRun, InterruptCleanup,
     InterruptPublication, InterruptReport
<1>6. QED
  BY <1>2, <1>3, <1>4, <1>5

\* An interrupt is never lost: whatever fails after it, the exit code is 130 and no
\* artifact is made.
THEOREM InterruptAlwaysFinal == RunSpec => InterruptIsFinal
<1>1. RunInit => Interrupting
  BY DEF RunInit, Interrupting
<1>2. RunInv /\ Interrupting /\ [RunNext]_vars => Interrupting'
  <2>1. Interrupting /\ UNCHANGED vars => Interrupting'
    BY DEF Interrupting, vars, runVars, storeVars
  <2>2. QED
    BY <2>1, InterruptingStep
<1>3. RunInv /\ Interrupting /\ [RunNext]_vars =>
          [interrupted => artifact' \in { artifact, None } /\ exit' \in { NoExit, 130 }]_vars
  BY InterruptedStep
<1>4. QED
  BY <1>1, <1>2, <1>3, RunInvariant, PTL DEF RunSpec, InterruptIsFinal

(***************************************************************************)
(* What is decided can be projected.                                        *)
(***************************************************************************)
Classified ==
    /\ st.attempt_number = 1 /\ st.baseline = "REPRODUCED_FAILURE"
    /\ st.failure_analysis /\ st.model_configuration

\* A candidate comes from a classified failure.
LEMMA JudgedIsClassified ==
    ASSUME IInv, Founded(st), st.policy_result # None
    PROVE  Classified
<1>1. st.proposal
  BY DEF IInv, Valid, ValidDependencies
<1>2. st.repair_plan # None
  BY <1>1 DEF IInv, AttemptInv, None
<1>3. QED
  BY <1>2 DEF Founded, Classified

\* The artifact's own validators accept every state that is decided.
LEMMA DecidedProjects ==
    ASSUME IInv, Founded(st), st.terminal_route # None
    PROVE  project_artifact(st) = st.terminal_route
<1>1. /\ st \in OrchestrationState /\ Valid(st) /\ ValidDependencies(st) /\ ValidOverride(st)
      /\ RoutingEvidenceValid(st) /\ st.terminal_route = route_terminal(st)
      /\ st.completed_at = "ontime"
  BY DEF IInv, TypeOK, Valid, ValidTerminal, OrchestrationState
<1>2. st.terminal_route \in TerminalOutcome
  BY <1>1 DEF OrchestrationState
<1>3. /\ st.evaluation_result # None => st.verification_result # None
      /\ st.verification_result # None => st.static_result = "PASSED"
      /\ st.static_result # None => st.policy_result = "approved"
      /\ st.policy_result # None => Classified
      /\ st.failure_analysis => st.baseline = "REPRODUCED_FAILURE"
      /\ st.evaluation_result # None =>
             st.evaluation_result = FunctionalStatusOf(st.verification_result)
  BY <1>1, JudgedIsClassified DEF ValidDependencies, Founded
<1>4. st.failure_override \in { "CANDIDATE_FAILURE", "MALFORMED_MODEL_OUTPUT" } =>
          /\ Classified
          /\ st.policy_result = None /\ st.static_result = None
          /\ st.verification_result = None /\ st.evaluation_result = None
  BY <1>1 DEF ValidOverride, Founded, Classified
<1>5. st.attempt_number = 1 => st.baseline = "REPRODUCED_FAILURE"
  BY DEF Founded
<1>6. st.attempt_number \in 0..1
  BY <1>1 DEF OrchestrationState
<1>7. CASE st.failure_override # None
  <2>1. st.terminal_route = st.failure_override
    BY <1>1, <1>7 DEF route_terminal
  <2>2. st.terminal_route \in { "CANDIDATE_FAILURE", "MALFORMED_MODEL_OUTPUT", Infra }
    BY <1>1, <1>2, <2>1 DEF ValidOverride, TerminalOutcome, Infra
  <2>3. TerminalShape(st)
    BY <1>4, <2>1, <2>2 DEF TerminalShape, Classified, Infra, None
  <2>4. QED
    BY <1>1, <1>3, <1>7, <2>3 DEF project_artifact, ArtifactValid, Classified, None
<1>8. CASE st.failure_override = None
  <2>1. st.terminal_route = EvidenceOutcome(st)
    BY <1>1, <1>8 DEF route_terminal
  <2>2. CASE st.baseline = "NOT_REPRODUCIBLE"
    <3>1. st.terminal_route = "BASELINE_NOT_REPRODUCIBLE" /\ st.attempt_number = 0
      BY <1>5, <1>6, <2>1, <2>2 DEF EvidenceOutcome
    <3>2. TerminalShape(st)
      BY <2>2, <3>1 DEF TerminalShape
    <3>3. QED
      BY <1>1, <1>3, <3>2 DEF project_artifact, ArtifactValid, Classified, None
  <2>3. CASE st.baseline # "NOT_REPRODUCIBLE"
    <3>1. \/ st.terminal_route = "POLICY_VIOLATION" /\ st.policy_result = "rejected"
          \/ /\ st.terminal_route = "STATIC_CHECK_FAILURE" /\ st.policy_result = "approved"
             /\ st.static_result = "CANDIDATE_FAILED"
          \/ /\ st.terminal_route = "SUCCESS" /\ st.policy_result = "approved"
             /\ st.static_result = "PASSED" /\ st.verification_result = "PASSED"
             /\ st.evaluation_result = "PASSED"
          \/ /\ st.terminal_route = "CANDIDATE_FAILURE" /\ st.policy_result = "approved"
             /\ st.static_result = "PASSED" /\ st.verification_result = "CANDIDATE_FAILED"
             /\ st.evaluation_result = "FAILED"
          \/ st.terminal_route = Infra
      BY <2>1, <2>3 DEF EvidenceOutcome
    <3>2. TerminalShape(st)
      BY <1>3, <3>1 DEF TerminalShape, Classified, Infra, None
    <3>3. QED
      BY <1>1, <1>3, <3>2 DEF project_artifact, ArtifactValid, Classified, None
  <2>4. QED
    BY <2>2, <2>3
<1>9. QED
  BY <1>7, <1>8

(***************************************************************************)
(* The steps of the process.                                                *)
(***************************************************************************)
EvidenceInv == RunInv /\ Open /\ UsageAccounted

\* A state that the process puts in the place of the graph's.
LEMMA SubstituteOpen ==
    ASSUME graph' # "running", Founded(st'),
           graph' # "returned" \/
               (/\ st'.failure_override = Infra
                /\ st'.repair_plan # "suitable" => billed' <= 1)
    PROVE  Open' /\ UsageAccounted'
BY DEF Open, UsageAccounted

LEMMA FoundedInitial ==
    ASSUME NEW configured
    PROVE  Founded(InitialState(configured))
BY DEF Founded, InitialState, None

\* What EvidenceIsFinal and OnlyRoutingRaises ask of a step.
FinalStep ==
    /\ graph' \in { "running", "returned" } => Kept
    /\ graph = "running" /\ graph' = "raised" => node = "route_result"

LEMMA SameGraph ==
    ASSUME EvidenceInv, UNCHANGED graphVars
    PROVE  Open' /\ UsageAccounted' /\ FinalStep
BY DEF EvidenceInv, graphVars, Open, UsageAccounted, FinalStep, Kept

LEMMA LeaveGraphFinal ==
    ASSUME EvidenceInv, LeaveGraph
    PROVE  Open' /\ UsageAccounted' /\ FinalStep
<1>1. graph \in { "returned", "raised" } /\ UNCHANGED << node, graph, provider, billed >>
  BY DEF LeaveGraph
<1>2. CASE st' = st
  BY <1>1, <1>2, SameGraph DEF graphVars
<1>3. CASE graph = "raised"
  <2> DEFINE initial == InitialState(st.model_configuration)
  <2>1. PICK clock \in ClockReading : st' \in { initial, Terminalized(initial, clock) }
    BY <1>3 DEF LeaveGraph
  <2>2. Founded(initial)
    BY FoundedInitial
  <2>3. Founded(Terminalized(initial, clock))
    BY DEF Founded, Terminalized, Completing, InitialState, None, Infra
  <2>4. QED
    BY <1>1, <1>3, <2>1, <2>2, <2>3, SubstituteOpen DEF FinalStep
<1>4. QED
  BY <1>1, <1>2, <1>3 DEF LeaveGraph

LEMMA InterruptRunFinal ==
    ASSUME EvidenceInv, InterruptRun
    PROVE  Open' /\ UsageAccounted' /\ FinalStep
<1>1. CASE phase = "graph"
  <2>1. st' = InitialState(st.model_configuration) /\ graph' = "interrupted"
    BY <1>1 DEF InterruptRun
  <2>2. QED
    BY <2>1, FoundedInitial, SubstituteOpen DEF FinalStep
<1>2. CASE phase # "graph"
  BY <1>2, SameGraph DEF InterruptRun, graphVars
<1>3. QED
  BY <1>1, <1>2

LEMMA CleanupFailsFinal ==
    ASSUME EvidenceInv, CleanupFails
    PROVE  Open' /\ UsageAccounted' /\ FinalStep
<1>1. UNCHANGED << node, graph, provider, billed >> /\ phase = "cleanup"
  BY DEF CleanupFails
<1>2. CASE st' = st
  BY <1>1, <1>2, SameGraph DEF graphVars
<1>3. CASE st' # st
  <2>1. PICK clock \in ClockReading : st' = Replaced(st, clock) /\ st.terminal_route # None
    BY <1>3 DEF CleanupFails
  <2>2. st \in OrchestrationState /\ graph # "running"
    BY <1>1, <2>1 DEF EvidenceInv, RunInv, IInv, TypeOK, BeforeCleanup
  <2>3. /\ st'.failure_override = Infra /\ st'.terminal_route = Infra
        /\ st'.attempt_number = st.attempt_number
        /\ st'.model_configuration = st.model_configuration
        /\ \A f \in EvidenceFields : f # "failure_override" => st'[f] = st[f]
    BY <2>1, <2>2 DEF Replaced, OrchestrationState, EvidenceFields
  <2>4. Founded(st')
    BY <2>3 DEF EvidenceInv, Open, Founded, EvidenceFields, Infra
  <2>5. Kept
    BY <2>3 DEF Kept, EvidenceFields
  <2>6. graph' = "returned" => (st'.repair_plan # "suitable" => billed' <= 1)
    BY <1>1, <2>3 DEF EvidenceInv, UsageAccounted, EvidenceFields
  <2>7. QED
    BY <1>1, <2>2, <2>3, <2>4, <2>5, <2>6, SubstituteOpen DEF FinalStep
<1>4. QED
  BY <1>2, <1>3

LEMMA EvidenceStep ==
    ASSUME EvidenceInv, [RunNext]_vars
    PROVE  Open' /\ UsageAccounted' /\ FinalStep
<1>1. CASE GraphStep
  <2>1. IInv /\ Open /\ UsageAccounted /\ Step
    BY <1>1 DEF EvidenceInv, RunInv, GraphStep
  <2>2. QED
    BY <2>1, Step_Open, Step_Account DEF FinalStep
<1>2. CASE LeaveGraph
  BY <1>2, LeaveGraphFinal
<1>3. CASE CleanupFails
  BY <1>3, CleanupFailsFinal
<1>4. CASE InterruptRun
  BY <1>4, InterruptRunFinal
<1>5. CASE UNCHANGED graphVars
  BY <1>5, SameGraph
<1>6. QED
  BY <1>1, <1>2, <1>3, <1>4, <1>5
  DEF RunNext, RunStep, LoadCase, CreateWorkspace, InitializeState, Project, CleanupRemoves, Publish,
      Published, Report, InterruptEarly, InterruptCleanup, InterruptPublication, InterruptReport, vars

\* The invariant together with what it says of the evidence beyond the validator.
THEOREM EvidenceInvariant == RunSpec => []EvidenceInv
<1>1. RunInit => Open /\ UsageAccounted
  BY RunInit_RunStarted, Init_Open DEF RunStarted
<1>2. EvidenceInv /\ [RunNext]_vars /\ RunInv' => EvidenceInv'
  BY EvidenceStep DEF EvidenceInv
<1>3. RunInit /\ RunInv => EvidenceInv
  BY <1>1 DEF EvidenceInv
<1>4. EvidenceInv => RunInv
  BY DEF EvidenceInv
<1>5. QED
  BY <1>2, <1>3, <1>4, RunInvariant, PTL DEF RunSpec

\* Whatever evidence the graph has when it reaches route_result can be routed:
\* the state's validator and RoutingEvidence's never contradict each other.
THEOREM AlwaysRoutableHolds == RunSpec => []AlwaysRoutable
<1>1. EvidenceInv => AlwaysRoutable
  BY EvidenceRoutable, RoutedValid DEF EvidenceInv, RunInv, AlwaysRoutable
<1>2. QED
  BY <1>1, EvidenceInvariant, PTL

\* Every provider call that was counted is in the usage of the state, unless the
\* run is an infrastructure failure.
THEOREM UsageAlwaysAccounted == RunSpec => []UsageAccounted
<1>1. EvidenceInv => UsageAccounted
  BY DEF EvidenceInv
<1>2. QED
  BY <1>1, EvidenceInvariant, PTL

\* Whatever is decided passes the artifact's own validators: no decided run is
\* lost because its evidence cannot be projected.
THEOREM DecidedAlwaysPublishable == RunSpec => []DecidedIsPublishable
<1>1. EvidenceInv => DecidedIsPublishable
  BY DecidedProjects DEF EvidenceInv, RunInv, Open, DecidedIsPublishable
<1>2. QED
  BY <1>1, EvidenceInvariant, PTL

\* No failure path of any node builds a state that the validator refuses: the only
\* node that can bring the graph down is route_result.
THEOREM OnlyRoutingEverRaises == RunSpec => OnlyRoutingRaises
<1>1. EvidenceInv /\ [RunNext]_vars =>
          [graph = "running" /\ graph' = "raised" => node = "route_result"]_graphVars
  BY EvidenceStep DEF FinalStep
<1>2. QED
  BY <1>1, EvidenceInvariant, PTL DEF RunSpec, OnlyRoutingRaises

\* Evidence is written once: no later node, no failure path and no replacement of
\* the state after the graph changes what was recorded.
THEOREM EvidenceAlwaysFinal == RunSpec => EvidenceIsFinal
<1>1. EvidenceInv /\ [RunNext]_vars => [graph' \in { "running", "returned" } => Kept]_graphVars
  BY EvidenceStep DEF FinalStep
<1>2. QED
  BY <1>1, EvidenceInvariant, PTL DEF RunSpec, EvidenceIsFinal, Kept

(***************************************************************************)
(* What a run has to show outside the graph: nothing, if the graph did not  *)
(* return.                                                                  *)
(***************************************************************************)
Blank(s) ==
    /\ ~s.preparation /\ s.baseline = None /\ ~s.failure_analysis /\ ~s.context
    /\ s.repair_plan = None /\ ~s.proposal /\ s.policy_result = None /\ s.static_result = None
    /\ s.verification_result = None /\ s.evaluation_result = None
    /\ s.model_usage = NoUsage

Vanished == phase # "graph" /\ graph # "returned" => Blank(st)

LedgerInv == EvidenceInv /\ Vanished /\ Counts

LEMMA BlankInitial ==
    ASSUME NEW configured
    PROVE  Blank(InitialState(configured))
BY DEF Blank, InitialState

LEMMA BlankTerminalized ==
    ASSUME NEW configured, NEW clock
    PROVE  Blank(Terminalized(InitialState(configured), clock))
BY DEF Blank, Terminalized, Completing, InitialState

\* A state that is replaced keeps what it had.
LEMMA BlankReplaced ==
    ASSUME NEW s \in OrchestrationState, NEW clock
    PROVE  /\ Replaced(s, clock).model_usage = s.model_usage
           /\ Blank(s) => Blank(Replaced(s, clock))
<1>1. /\ Replaced(s, clock).model_usage = s.model_usage
      /\ \A f \in EvidenceFields : f # "failure_override" => Replaced(s, clock)[f] = s[f]
  BY DEF Replaced, OrchestrationState, EvidenceFields
<1>2. QED
  BY <1>1 DEF Blank, EvidenceFields

\* Without evidence there is only an infrastructure failure to report.
LEMMA BlankRoute ==
    ASSUME EvidenceInv, Blank(st)
    PROVE  st.terminal_route \in { None, Infra }
<1>1. CASE st.terminal_route # None
  <2>1. st.terminal_route = route_terminal(st) /\ RoutingEvidenceValid(st)
    BY <1>1 DEF EvidenceInv, RunInv, IInv, Valid, ValidTerminal
  <2>2. st.failure_override \notin { "CANDIDATE_FAILURE", "MALFORMED_MODEL_OUTPUT" }
    BY DEF EvidenceInv, Open, Founded, Blank
  <2>3. st.failure_override \in TerminalOutcome \cup {None}
    BY DEF EvidenceInv, RunInv, IInv, TypeOK, OrchestrationState
  <2>4. st.failure_override \in { None, Infra }
    BY <2>1, <2>2, <2>3 DEF RoutingEvidenceValid, TerminalOutcome, Infra
  <2>5. QED
    BY <2>1, <2>4 DEF route_terminal, EvidenceOutcome, Blank, Infra, None
<1>2. QED
  BY <1>1

LEMMA SameLedger ==
    ASSUME LedgerInv, UNCHANGED graphVars, phase # "graph" \/ phase' = "graph" \/ graph = "returned"
    PROVE  Vanished' /\ Counts'
BY DEF LedgerInv, graphVars, Vanished, Counts

LEMMA LedgerStep ==
    ASSUME LedgerInv, [RunNext]_vars
    PROVE  Vanished' /\ Counts'
<1>1. CASE GraphStep
  <2>1. phase' = "graph"
    BY <1>1 DEF GraphStep, runVars
  <2>2. Counts'
    BY <1>1, Step_Counts DEF LedgerInv, EvidenceInv, RunInv, GraphStep
  <2>3. QED
    BY <2>1, <2>2 DEF Vanished
<1>2. CASE LeaveGraph
  <2>1. CASE graph = "returned" /\ UNCHANGED st
    BY <1>2, <2>1, SameLedger DEF LeaveGraph, graphVars
  <2>2. CASE graph = "raised"
    <3>1. \E clock : st' \in { InitialState(st.model_configuration),
                               Terminalized(InitialState(st.model_configuration), clock) }
      BY <1>2, <2>2 DEF LeaveGraph
    <3>2. Blank(st')
      BY <3>1, BlankInitial, BlankTerminalized
    <3>3. QED
      BY <3>2 DEF Vanished, Counts, Blank
  <2>3. QED
    BY <1>2, <2>1, <2>2 DEF LeaveGraph
<1>3. CASE CleanupFails
  <2>1. phase = "cleanup" /\ UNCHANGED << node, graph, provider, billed >>
    BY <1>3 DEF CleanupFails
  <2>2. CASE st' = st
    BY <2>1, <2>2, SameLedger DEF graphVars
  <2>3. CASE st' # st
    <3>1. \E clock : st' = Replaced(st, clock)
      BY <1>3, <2>3 DEF CleanupFails
    <3>2. st \in OrchestrationState
      BY DEF LedgerInv, EvidenceInv, RunInv, IInv, TypeOK
    <3>3. st'.model_usage = st.model_usage /\ (Blank(st) => Blank(st'))
      BY <3>1, <3>2, BlankReplaced
    <3>4. QED
      BY <2>1, <3>3 DEF LedgerInv, Vanished, Counts
  <2>4. QED
    BY <2>2, <2>3
<1>4. CASE InterruptRun
  <2>1. CASE phase = "graph"
    <3>1. st' = InitialState(st.model_configuration)
      BY <1>4, <2>1 DEF InterruptRun
    <3>2. Blank(st')
      BY <3>1, BlankInitial
    <3>3. QED
      BY <3>2 DEF Vanished, Counts, Blank
  <2>2. CASE phase # "graph"
    BY <1>4, <2>2, SameLedger DEF InterruptRun, graphVars
  <2>3. QED
    BY <2>1, <2>2
<1>5. CASE UNCHANGED vars
  BY <1>5, SameLedger DEF vars, runVars
<1>6. CASE \/ LoadCase \/ CreateWorkspace \/ InitializeState \/ Project \/ CleanupRemoves \/ Publish
           \/ Published \/ Report \/ InterruptEarly \/ InterruptCleanup \/ InterruptPublication
           \/ InterruptReport
  <2>1. UNCHANGED graphVars /\ phase # "graph"
    BY <1>6
    DEF LoadCase, CreateWorkspace, InitializeState, Project, CleanupRemoves, Publish,
        Published, Report, InterruptEarly, InterruptCleanup, InterruptPublication, InterruptReport
  <2>2. QED
    BY <2>1, SameLedger
<1>7. QED
  BY <1>1, <1>2, <1>3, <1>4, <1>5, <1>6 DEF RunNext, RunStep

LEMMA RunInit_Ledger ==
    ASSUME RunStarted
    PROVE  LedgerInv
<1>1. RunInv
  BY RunInit_RunInv
<1>2. Open /\ UsageAccounted
  BY Init_Open DEF RunStarted
<1>3. Blank(st)
  BY BlankInitial DEF RunStarted, Started
<1>4. QED
  BY <1>1, <1>2, <1>3 DEF LedgerInv, EvidenceInv, Vanished, Counts, Blank

LEMMA RunNext_Ledger ==
    ASSUME LedgerInv, [RunNext]_vars
    PROVE  LedgerInv'
<1>1. RunInv'
  BY RunNext_RunInv DEF LedgerInv, EvidenceInv
<1>2. Open' /\ UsageAccounted'
  BY EvidenceStep DEF LedgerInv
<1>3. QED
  BY <1>1, <1>2, LedgerStep DEF LedgerInv, EvidenceInv

(***************************************************************************)
(* What RepairVerdict says of the process.                                  *)
(***************************************************************************)
\* The variables of RepairVerdict, as ImplementsVerdict takes them from the process.
AllPassing == \A j \in 1..10 : Passing(st)[j]
Done == AllPassing /\ phase \in { "publish", "report", "exited" } /\ workspace = "absent"
Stages == [k \in 1..11 |-> IF k <= 10 THEN Passing(st)[k] ELSE Done]
Lost == phase # "graph" /\ graph \in { "raised", "interrupted" }
Saying(outcome, with) == IF outcome # None /\ with = Codes[outcome] THEN outcome ELSE None
Said == Saying(artifact, exit)

First(k) == (\A j \in 1..(k - 1) : Stages[j]) /\ (k <= 11 => ~Stages[k])
OnePasses == \E k \in 1..11 : First(k) /\ Stages' = [Stages EXCEPT ![k] = TRUE]

\* Its steps, in these words.
LEMMA Stutters ==
    ASSUME UNCHANGED << Stages, Lost, Said, exit >>
    PROVE  UNCHANGED Verdict!verdictVars
BY DEF Verdict!verdictVars, Stages, Done, AllPassing, Lost, Said, Saying

LEMMA Passes ==
    ASSUME exit = NoExit, ~Lost, OnePasses, UNCHANGED << Lost, Said, exit >>
    PROVE  Verdict!Pass
BY DEF Verdict!Pass, Verdict!Passes, Verdict!FirstNotPassed, OnePasses, First, Stages, Done, AllPassing, Lost, Said, Saying

LEMMA Loses ==
    ASSUME exit = NoExit, ~Lost, Lost', Stages' = [k \in 1..11 |-> FALSE], UNCHANGED << Said, exit >>
    PROVE  Verdict!Lose
BY DEF Verdict!Lose, Verdict!Nothing, Stages, Done, AllPassing, Lost, Said, Saying

LEMMA Decides ==
    ASSUME exit = NoExit, exit' # NoExit, UNCHANGED << Stages, Lost >>,
           NEW k \in 1..12, First(k), Said' \in Verdict!Permitted[k]
    PROVE  Verdict!Decide
BY ZenonT(60) DEF Verdict!Decide, Verdict!FirstNotPassed, First, Stages, Done, AllPassing, Lost, Said, Saying

LEMMA Aborts ==
    ASSUME exit = NoExit, exit' # NoExit, UNCHANGED Stages \/ OnePasses, UNCHANGED << Lost, Said >>
    PROVE  Verdict!Abort
BY ZenonT(60) DEF Verdict!Abort, Verdict!Passes, Verdict!FirstNotPassed, OnePasses, First, Stages, Done, AllPassing, Lost, Said, Saying

\* What each stage asks of the state.
LEMMA PassingParts ==
    ASSUME NEW s
    PROVE  /\ Passing(s)[1] = s.preparation /\ Passing(s)[2] = (s.baseline = "REPRODUCED_FAILURE")
           /\ Passing(s)[3] = s.failure_analysis /\ Passing(s)[4] = s.context
           /\ Passing(s)[5] = (s.repair_plan = "suitable") /\ Passing(s)[6] = s.proposal
           /\ Passing(s)[7] = (s.policy_result = "approved")
           /\ Passing(s)[8] = (s.static_result = "PASSED")
           /\ Passing(s)[9] = (s.verification_result = "PASSED")
           /\ Passing(s)[10] = (s.evaluation_result = "PASSED")
BY Zenon DEF Passing

LEMMA EvidenceParts ==
    ASSUME NEW s
    PROVE  /\ Evidence(s)[1] = s.preparation /\ Evidence(s)[2] = (s.baseline # None)
           /\ Evidence(s)[3] = s.failure_analysis /\ Evidence(s)[4] = s.context
           /\ Evidence(s)[5] = (s.repair_plan # None) /\ Evidence(s)[6] = s.proposal
           /\ Evidence(s)[7] = (s.policy_result # None) /\ Evidence(s)[8] = (s.static_result # None)
           /\ Evidence(s)[9] = (s.verification_result # None)
           /\ Evidence(s)[10] = (s.evaluation_result # None)
BY Zenon DEF Evidence

LEMMA StageCases == \A k \in 1..10 : k \in { 1, 2, 3, 4, 5, 6, 7, 8, 9, 10 }
OBVIOUS

LEMMA PassingTyped ==
    ASSUME NEW s \in OrchestrationState, NEW k \in 1..10
    PROVE  Passing(s)[k] \in BOOLEAN
<1>1. /\ s.preparation \in BOOLEAN /\ s.failure_analysis \in BOOLEAN
      /\ s.context \in BOOLEAN /\ s.proposal \in BOOLEAN
  BY DEF OrchestrationState
<1>2. /\ Passing(s)[1] \in BOOLEAN /\ Passing(s)[2] \in BOOLEAN /\ Passing(s)[3] \in BOOLEAN
      /\ Passing(s)[4] \in BOOLEAN /\ Passing(s)[5] \in BOOLEAN /\ Passing(s)[6] \in BOOLEAN
      /\ Passing(s)[7] \in BOOLEAN /\ Passing(s)[8] \in BOOLEAN /\ Passing(s)[9] \in BOOLEAN
      /\ Passing(s)[10] \in BOOLEAN
  BY <1>1, Zenon DEF Passing
<1>3. k \in { 1, 2, 3, 4, 5, 6, 7, 8, 9, 10 }
  BY StageCases
<1>4. QED
  BY <1>2, <1>3, Zenon

LEMMA PassingIsGiven ==
    ASSUME NEW s, NEW k \in 1..10, Passing(s)[k]
    PROVE  Evidence(s)[k]
<1>1. /\ s.baseline = "REPRODUCED_FAILURE" => s.baseline # None
      /\ s.repair_plan = "suitable" => s.repair_plan # None
      /\ s.policy_result = "approved" => s.policy_result # None
      /\ s.static_result = "PASSED" => s.static_result # None
      /\ s.verification_result = "PASSED" => s.verification_result # None
      /\ s.evaluation_result = "PASSED" => s.evaluation_result # None
  BY DEF None
<1>2. /\ Passing(s)[1] => Evidence(s)[1]
      /\ Passing(s)[2] => Evidence(s)[2]
      /\ Passing(s)[3] => Evidence(s)[3]
      /\ Passing(s)[4] => Evidence(s)[4]
      /\ Passing(s)[5] => Evidence(s)[5]
      /\ Passing(s)[6] => Evidence(s)[6]
      /\ Passing(s)[7] => Evidence(s)[7]
      /\ Passing(s)[8] => Evidence(s)[8]
      /\ Passing(s)[9] => Evidence(s)[9]
      /\ Passing(s)[10] => Evidence(s)[10]
  BY <1>1, PassingParts, EvidenceParts, ZenonT(60)
<1>3. k \in { 1, 2, 3, 4, 5, 6, 7, 8, 9, 10 }
  BY StageCases
<1>4. QED
  BY <1>2, <1>3, ZenonT(60)

LEMMA EarlierEvidence ==
    ASSUME NEW s \in OrchestrationState, Valid(s), NEW k \in 1..10, Evidence(s)[k], NEW j \in 1..(k - 1)
    PROVE  Evidence(s)[j]
<1>1. k <= Executed(s) /\ j \in 1..10
  BY DEF Valid, ValidEvidence
<1>2. ~Evidence(s)[j] /\ j <= Executed(s) => j = Executed(s)
  BY <1>1, Zenon DEF Valid, ValidEvidence
<1>3. Executed(s) \in Int
  BY LenTyped DEF Executed
<1>4. QED
  BY <1>1, <1>2, <1>3

\* Whatever has evidence had passing evidence of the stages before it, but for the
\* last of them, which also evaluates a candidate that failed.
LEMMA PassedBefore ==
    ASSUME NEW s \in OrchestrationState, Valid(s), Founded(s),
           s.proposal => s.repair_plan = "suitable", NEW k \in 1..10, Evidence(s)[k], k = 10 => Passing(s)[10],
           NEW j \in 1..(k - 1)
    PROVE  Passing(s)[j]
<1>1. \A i \in 1..10 : i <= k => Evidence(s)[i]
  <2>1. \A i \in 1..10 : i <= k => i \in 1..(k - 1) \/ i = k
    OBVIOUS
  <2>2. QED
    BY <2>1, EarlierEvidence
<1>2. /\ s.failure_analysis => s.baseline = "REPRODUCED_FAILURE"
      /\ s.repair_plan # None => s.repair_plan \in Plan
      /\ s.static_result # None => s.policy_result = "approved"
      /\ s.verification_result # None => s.static_result = "PASSED"
      /\ s.evaluation_result = "PASSED" => s.verification_result = "PASSED"
  BY DEF OrchestrationState, Founded, Valid, ValidDependencies, FunctionalStatusOf, None
<1>3. s.proposal => s.repair_plan = "suitable"
  OBVIOUS
<1>4. /\ k > 1 => Evidence(s)[1]
      /\ k > 2 => Evidence(s)[3]
      /\ k > 3 => Evidence(s)[3]
      /\ k > 4 => Evidence(s)[4]
      /\ k > 5 => Evidence(s)[6]
      /\ k > 7 => Evidence(s)[8]
      /\ k > 8 => Evidence(s)[9]
  BY <1>1
<1>5. /\ Evidence(s)[1] => Passing(s)[1]
      /\ Evidence(s)[3] => Passing(s)[2] /\ Passing(s)[3]
      /\ Evidence(s)[4] => Passing(s)[4]
      /\ Evidence(s)[6] => Passing(s)[5] /\ Passing(s)[6]
      /\ Evidence(s)[8] => Passing(s)[7]
      /\ Evidence(s)[9] => Passing(s)[8]
      /\ Passing(s)[10] => Passing(s)[9]
  <2>1. (Evidence(s)[1] => Passing(s)[1]) /\ (Evidence(s)[4] => Passing(s)[4])
    BY PassingParts, EvidenceParts, ZenonT(60)
  <2>2. Evidence(s)[3] => Passing(s)[2] /\ Passing(s)[3]
    BY <1>2, PassingParts, EvidenceParts, ZenonT(60)
  <2>3. Evidence(s)[6] => Passing(s)[5] /\ Passing(s)[6]
    BY <1>3, PassingParts, EvidenceParts, ZenonT(60)
  <2>4. Evidence(s)[8] => Passing(s)[7]
    BY <1>2, PassingParts, EvidenceParts, ZenonT(60)
  <2>5. Evidence(s)[9] => Passing(s)[8]
    BY <1>2, PassingParts, EvidenceParts, ZenonT(60)
  <2>6. Passing(s)[10] => Passing(s)[9]
    BY <1>2, PassingParts, ZenonT(60)
  <2>7. QED
    BY <2>1, <2>2, <2>3, <2>4, <2>5, <2>6
<1>6. /\ j = 1 => k > 1
      /\ j = 2 => k > 2
      /\ j = 3 => k > 3
      /\ j = 4 => k > 4
      /\ j \in { 5, 6 } => k > 5
      /\ j = 7 => k > 7
      /\ j = 8 => k > 8
      /\ j = 9 => k = 10
      /\ j \in { 1, 2, 3, 4, 5, 6, 7, 8, 9 }
  OBVIOUS
<1>7. QED
  BY <1>4, <1>5, <1>6

\* Some stage is the first that did not pass.
LEMMA FirstExists ==
    ASSUME NEW k \in 1..11, ~Stages[k]
    PROVE  \E i \in 1..11 : First(i)
<1> SUFFICES ASSUME \A i \in 1..11 : ~First(i) PROVE FALSE
  OBVIOUS
<1>0. \A i \in 1..11 : (\A j \in 1..(i - 1) : Stages[j]) => Stages[i]
  BY DEF First
<1>1. Stages[1]
  BY <1>0
<1>2. Stages[2]
  BY <1>0, <1>1
<1>3. Stages[3]
  BY <1>0, <1>1, <1>2
<1>4. Stages[4]
  BY <1>0, <1>1, <1>2, <1>3
<1>5. Stages[5]
  BY <1>0, <1>1, <1>2, <1>3, <1>4
<1>6. Stages[6]
  BY <1>0, <1>1, <1>2, <1>3, <1>4, <1>5
<1>7. Stages[7]
  BY <1>0, <1>1, <1>2, <1>3, <1>4, <1>5, <1>6
<1>8. Stages[8]
  BY <1>0, <1>1, <1>2, <1>3, <1>4, <1>5, <1>6, <1>7
<1>9. Stages[9]
  BY <1>0, <1>1, <1>2, <1>3, <1>4, <1>5, <1>6, <1>7, <1>8
<1>10. Stages[10]
  BY <1>0, <1>1, <1>2, <1>3, <1>4, <1>5, <1>6, <1>7, <1>8, <1>9
<1>11. Stages[11]
  BY <1>0, <1>1, <1>2, <1>3, <1>4, <1>5, <1>6, <1>7, <1>8, <1>9, <1>10
<1>12. QED
  BY <1>1, <1>2, <1>3, <1>4, <1>5, <1>6, <1>7, <1>8, <1>9, <1>10, <1>11

\* An infrastructure failure overrules passing evidence only if the workspaces stay.
Overruled ==
    st.failure_override # None /\ AllPassing =>
        workspace = "undeletable" /\ phase \in { "publish", "report", "exited" }

\* The passing stages are those of the evidence.
LEMMA SamePassing ==
    ASSUME NEW s, NEW t, \A f \in EvidenceFields : f # "failure_override" => s[f] = t[f]
    PROVE  \A k \in 1..10 : Passing(s)[k] = Passing(t)[k]
<1>1. Passing(s) = Passing(t)
  BY Zenon DEF Passing, EvidenceFields
<1>2. QED
  BY <1>1

LEMMA BlankPassing ==
    ASSUME NEW s, Blank(s), NEW k \in 1..10
    PROVE  ~Passing(s)[k]
<1>1. /\ ~Passing(s)[1] /\ ~Passing(s)[3] /\ ~Passing(s)[4] /\ ~Passing(s)[6]
  BY PassingParts, Zenon DEF Blank
<1>2. /\ s.baseline # "REPRODUCED_FAILURE" /\ s.repair_plan # "suitable"
      /\ s.policy_result # "approved" /\ s.static_result # "PASSED"
      /\ s.verification_result # "PASSED" /\ s.evaluation_result # "PASSED"
  BY DEF Blank, None
<1>3. /\ ~Passing(s)[2] /\ ~Passing(s)[5] /\ ~Passing(s)[7] /\ ~Passing(s)[8]
      /\ ~Passing(s)[9] /\ ~Passing(s)[10]
  BY <1>2, PassingParts, Zenon
<1>4. k \in { 1, 2, 3, 4, 5, 6, 7, 8, 9, 10 }
  BY StageCases
<1>5. QED
  BY <1>1, <1>3, <1>4, Zenon

LEMMA EvidenceNames ==
    \A i \in 1..10 :
        /\ (i = 1) <=> (EvidenceOf[NodeNames[i]] = "preparation")
        /\ (i = 2) <=> (EvidenceOf[NodeNames[i]] = "baseline")
        /\ (i = 3) <=> (EvidenceOf[NodeNames[i]] = "failure_analysis")
        /\ (i = 4) <=> (EvidenceOf[NodeNames[i]] = "context")
        /\ (i = 5) <=> (EvidenceOf[NodeNames[i]] = "repair_plan")
        /\ (i = 6) <=> (EvidenceOf[NodeNames[i]] = "proposal")
        /\ (i = 7) <=> (EvidenceOf[NodeNames[i]] = "policy_result")
        /\ (i = 8) <=> (EvidenceOf[NodeNames[i]] = "static_result")
        /\ (i = 9) <=> (EvidenceOf[NodeNames[i]] = "verification_result")
        /\ (i = 10) <=> (EvidenceOf[NodeNames[i]] = "evaluation_result")
        /\ EvidenceOf[NodeNames[i]] # "failure_override"
BY NodeNameCases, StageCases DEF EvidenceOf

\* Evidence of one node leaves the other stages as they are.
LEMMA OtherStages ==
    ASSUME NEW s, NEW t, NEW i \in 1..10,
           \A f \in EvidenceFields : f # EvidenceOf[NodeNames[i]] => s[f] = t[f]
    PROVE  \A j \in 1..10 : j # i => Passing(s)[j] = Passing(t)[j]
<1>1. /\ i # 1 => s.preparation = t.preparation
      /\ i # 2 => s.baseline = t.baseline
      /\ i # 3 => s.failure_analysis = t.failure_analysis
      /\ i # 4 => s.context = t.context
      /\ i # 5 => s.repair_plan = t.repair_plan
      /\ i # 6 => s.proposal = t.proposal
      /\ i # 7 => s.policy_result = t.policy_result
      /\ i # 8 => s.static_result = t.static_result
      /\ i # 9 => s.verification_result = t.verification_result
      /\ i # 10 => s.evaluation_result = t.evaluation_result
  BY EvidenceNames DEF EvidenceFields
<1>2. \A j \in { 1, 2, 3, 4, 5, 6, 7, 8, 9, 10 } : i # j => Passing(s)[j] = Passing(t)[j]
  <2>1. ASSUME i # 1
        PROVE  Passing(s)[1] = Passing(t)[1]
    <3>1. s.preparation = t.preparation
      BY <1>1, <2>1
    <3>2. QED
      BY <3>1, Zenon DEF Passing
  <2>2. ASSUME i # 2
        PROVE  Passing(s)[2] = Passing(t)[2]
    <3>1. s.baseline = t.baseline
      BY <1>1, <2>2
    <3>2. QED
      BY <3>1, Zenon DEF Passing
  <2>3. ASSUME i # 3
        PROVE  Passing(s)[3] = Passing(t)[3]
    <3>1. s.failure_analysis = t.failure_analysis
      BY <1>1, <2>3
    <3>2. QED
      BY <3>1, Zenon DEF Passing
  <2>4. ASSUME i # 4
        PROVE  Passing(s)[4] = Passing(t)[4]
    <3>1. s.context = t.context
      BY <1>1, <2>4
    <3>2. QED
      BY <3>1, Zenon DEF Passing
  <2>5. ASSUME i # 5
        PROVE  Passing(s)[5] = Passing(t)[5]
    <3>1. s.repair_plan = t.repair_plan
      BY <1>1, <2>5
    <3>2. QED
      BY <3>1, Zenon DEF Passing
  <2>6. ASSUME i # 6
        PROVE  Passing(s)[6] = Passing(t)[6]
    <3>1. s.proposal = t.proposal
      BY <1>1, <2>6
    <3>2. QED
      BY <3>1, Zenon DEF Passing
  <2>7. ASSUME i # 7
        PROVE  Passing(s)[7] = Passing(t)[7]
    <3>1. s.policy_result = t.policy_result
      BY <1>1, <2>7
    <3>2. QED
      BY <3>1, Zenon DEF Passing
  <2>8. ASSUME i # 8
        PROVE  Passing(s)[8] = Passing(t)[8]
    <3>1. s.static_result = t.static_result
      BY <1>1, <2>8
    <3>2. QED
      BY <3>1, Zenon DEF Passing
  <2>9. ASSUME i # 9
        PROVE  Passing(s)[9] = Passing(t)[9]
    <3>1. s.verification_result = t.verification_result
      BY <1>1, <2>9
    <3>2. QED
      BY <3>1, Zenon DEF Passing
  <2>10. ASSUME i # 10
        PROVE  Passing(s)[10] = Passing(t)[10]
    <3>1. s.evaluation_result = t.evaluation_result
      BY <1>1, <2>10
    <3>2. QED
      BY <3>1, Zenon DEF Passing
  <2>11. QED
    BY <2>1, <2>2, <2>3, <2>4, <2>5, <2>6, <2>7, <2>8, <2>9, <2>10
<1>3. QED
  BY <1>2, StageCases

\* A step of the graph leaves the stages as they are, or its node passes.
SameStages == \A k \in 1..10 : Passing(st')[k] = Passing(st)[k]
StagePasses(i) ==
    /\ ~Passing(st)[i] /\ Passing(st')[i]
    /\ \A j \in 1..(i - 1) : Passing(st)[j]
    /\ \A j \in 1..10 : j # i => Passing(st')[j] = Passing(st)[j]

LEMMA GraphStages ==
    ASSUME IInv, Open, IInv', Open', Step
    PROVE  \/ SameStages /\ st'.failure_override = st.failure_override
           \/ SameStages /\ ~AllPassing
           \/ st'.failure_override = None /\ \E i \in 1..10 : StagePasses(i)
<1>1. CASE route_result
  <2>1. \A f \in EvidenceFields : st'[f] = st[f]
    <3>1. \/ st' = st
          \/ \E clock \in ClockReading :
                 st' = Completing([st EXCEPT !.terminal_route = route_terminal(st),
                                             !.completed_at = clock], "route_result")
      BY <1>1 DEF route_result, Commit, Raise
    <3>2. st \in OrchestrationState
      BY DEF IInv, TypeOK
    <3>3. QED
      BY <3>1, <3>2 DEF Completing, OrchestrationState, EvidenceFields
  <2>2. SameStages
    BY <2>1, SamePassing DEF SameStages
  <2>3. QED
    BY <2>1, <2>2 DEF EvidenceFields
<1>2. CASE \E i \in 1..10 : NodeStep(NodeNames[i])
  <2>1. PICK i \in 1..10 : NodeStep(NodeNames[i])
    BY <1>2
  <2> DEFINE n == NodeNames[i]
  <2>2. PICK s : Update(s) /\ Completes(n, s) /\ (Gives(n, s) \/ Fails(n, s))
    BY <2>1, NodeCompletes
  <2>3. \A f \in EvidenceFields : st'[f] = s[f]
    BY <2>2 DEF Completes, Completing, Update, OrchestrationState, EvidenceFields
  <2>4. ~Evidence(st)[i]
    <3>1. i \in i..10 /\ Runs(n)
      BY <2>1 DEF NodeStep
    <3>2. QED
      BY <3>1, NotYetGiven
  <2>5. ~Passing(st)[i]
    BY <2>4, PassingIsGiven
  <2>6. CASE Fails(n, s)
    <3>1. SameStages
      BY <2>3, <2>6, SamePassing DEF Fails, SameStages
    <3>2. QED
      BY <2>5, <3>1 DEF AllPassing
  <2>7. CASE Gives(n, s)
    <3>1. \A f \in EvidenceFields : f # EvidenceOf[n] => st'[f] = st[f]
      BY <2>3, <2>7 DEF Gives
    <3>2. n # "route_result" /\ graph = "running" /\ node = n
      BY <2>1, NodeNameCases DEF NodeStep, Runs
    <3>3. st'.failure_override = None
      <4>1. st.failure_override = None
        BY <3>2 DEF Open
      <4>2. EvidenceOf[n] # "failure_override"
        BY EvidenceNames
      <4>3. QED
        BY <3>1, <4>1, <4>2 DEF EvidenceFields
    <3>4. \A j \in 1..10 : j # i => Passing(st')[j] = Passing(st)[j]
      BY <3>1, OtherStages
    <3>5. CASE Passing(st')[i]
      <4>1. \A j \in 1..(i - 1) : Passing(st')[j]
        <5>1. Evidence(st')[i] /\ (i = 10 => Passing(st')[10])
          BY <3>5, PassingIsGiven
        <5>2. /\ st' \in OrchestrationState /\ Valid(st') /\ Founded(st')
              /\ st'.proposal => st'.repair_plan = "suitable"
          BY DEF IInv, TypeOK, AttemptInv, Open
        <5>3. QED
          BY <5>1, <5>2, PassedBefore
      <4>2. \A j \in 1..(i - 1) : j \in 1..10 /\ j # i
        OBVIOUS
      <4>3. QED
        BY <2>5, <3>3, <3>4, <3>5, <4>1, <4>2 DEF StagePasses
    <3>6. CASE ~Passing(st')[i]
      <4>1. st \in OrchestrationState /\ st' \in OrchestrationState
        BY DEF IInv, TypeOK
      <4>2. Passing(st')[i] = Passing(st)[i]
        BY <2>5, <3>6, <4>1, PassingTyped
      <4>3. QED
        BY <2>5, <3>4, <4>2 DEF SameStages, AllPassing
    <3>7. QED
      BY <3>5, <3>6
  <2>8. QED
    BY <2>2, <2>6, <2>7
<1>3. QED
  BY <1>1, <1>2, StepIsNodeStep

\* A step that passes a stage of the graph is the one the verdict knows.
LEMMA OnePassing ==
    ASSUME NEW i \in 1..10, StagePasses(i), ~Done, ~Done', st' \in OrchestrationState
    PROVE  OnePasses
<1>1. Passing(st')[i] = TRUE
  BY PassingTyped DEF StagePasses
<1>2. \A k \in 1..10 : k # i => Stages'[k] = Stages[k]
  BY DEF Stages, StagePasses
<1>3. Stages'[i] = TRUE
  BY <1>1 DEF Stages
<1>4. Stages'[11] = Stages[11]
  <2>1. Stages[11] = FALSE /\ Stages'[11] = FALSE
    BY DEF Stages
  <2>2. QED
    BY <2>1
<1>5. DOMAIN Stages = 1..11 /\ DOMAIN Stages' = 1..11
  BY DEF Stages
<1>6. Stages' = [k \in 1..11 |-> Stages'[k]]
  BY DEF Stages
<1>7. [Stages EXCEPT ![i] = TRUE] = [k \in 1..11 |-> IF k = i THEN TRUE ELSE Stages[k]]
  BY DEF Stages
<1>8. \A k \in 1..11 : Stages'[k] = IF k = i THEN TRUE ELSE Stages[k]
  <2>1. \A k \in 1..11 : k # i => Stages'[k] = Stages[k]
    <3>1. \A k \in 1..11 : k \in 1..10 \/ k = 11
      OBVIOUS
    <3>2. QED
      BY <1>2, <1>4, <3>1, Zenon
  <2>2. QED
    BY <1>3, <2>1, Zenon
<1>9. Stages' = [Stages EXCEPT ![i] = TRUE]
  BY <1>6, <1>7, <1>8, Zenon
<1>10. First(i)
  <2>1. ~Passing(st)[i] /\ \A j \in 1..(i - 1) : Passing(st)[j]
    BY DEF StagePasses
  <2>2. i <= 10 /\ \A j \in 1..(i - 1) : j \in 1..10
    OBVIOUS
  <2>3. ~Stages[i]
    BY <2>1, <2>2 DEF Stages
  <2>4. \A j \in 1..(i - 1) : Stages[j]
    BY <2>1, <2>2 DEF Stages
  <2>5. QED
    BY <2>3, <2>4 DEF First
<1>11. i \in 1..11
  OBVIOUS
<1>12. QED
  BY <1>9, <1>10, <1>11, Zenon DEF OnePasses

LEMMA SilentStages ==
    ASSUME SameStages, Done' = Done
    PROVE  Stages' = Stages
BY DEF SameStages, Stages

LEMMA SameState ==
    ASSUME st' = st
    PROVE  SameStages /\ AllPassing' = AllPassing
BY DEF SameStages, AllPassing

LEMMA BlankStages ==
    ASSUME Blank(st)
    PROVE  ~AllPassing /\ ~Done
<1>1. ~Passing(st)[1]
  BY BlankPassing
<1>2. QED
  BY <1>1 DEF AllPassing, Done

LEMMA NothingSaid ==
    ASSUME NEW outcome \in TerminalOutcome \cup { None }, NEW with,
           outcome = None \/ with \in { NoExit, 130 }
    PROVE  Saying(outcome, with) = None
BY DEF Saying, TerminalOutcome, Codes, NoExit, None

LEMMA OverruledStep ==
    ASSUME LedgerInv, Overruled, LedgerInv', [RunNext]_vars
    PROVE  Overruled'
<1>1. CASE GraphStep
  <2>1. phase = "graph" /\ Step /\ workspace' = workspace /\ phase' = phase
    BY <1>1 DEF GraphStep, runVars
  <2>2. IInv /\ IInv' /\ Open /\ Open'
    BY DEF LedgerInv, EvidenceInv, RunInv
  <2>3. \/ SameStages /\ st'.failure_override = st.failure_override
        \/ SameStages /\ ~AllPassing
        \/ st'.failure_override = None
    BY <2>1, <2>2, GraphStages
  <2>4. QED
    BY <2>1, <2>3 DEF Overruled, SameStages, AllPassing
<1>2. CASE CleanupFails
  BY <1>2 DEF CleanupFails, AfterCleanup, Leave, Overruled
<1>3. CASE st' # st /\ (LeaveGraph \/ InterruptRun)
  <2>1. Blank(st')
    <3>1. \E configured, clock : st' \in { InitialState(configured),
                                           Terminalized(InitialState(configured), clock) }
      BY <1>3 DEF LeaveGraph, InterruptRun
    <3>2. QED
      BY <3>1, BlankInitial, BlankTerminalized
  <2>2. ~AllPassing'
    <3>1. ~Passing(st')[1]
      BY <2>1, BlankPassing
    <3>2. QED
      BY <3>1 DEF AllPassing
  <2>3. QED
    BY <2>2 DEF Overruled
<1>4. CASE /\ st' = st
           /\ phase \notin { "publish", "report", "exited" } \/
                 (workspace' = workspace /\ phase' \in { "publish", "report", "exited" })
  BY <1>4, SameState DEF Overruled
<1>5. CASE UNCHANGED vars
  BY <1>5, SameState DEF vars, runVars, graphVars, Overruled
<1>6. QED
  BY <1>1, <1>2, <1>3, <1>4, <1>5
  DEF RunNext, RunStep, LoadCase, CreateWorkspace, InitializeState, LeaveGraph, Project,
      CleanupRemoves, Publish, Published, Report, InterruptEarly, InterruptRun, InterruptCleanup,
      InterruptPublication, InterruptReport, graphVars, Leave

\* Every outcome on disk is one that the first stage that did not pass may give.
LEMMA Entitled ==
    ASSUME LedgerInv, Overruled, phase \in { "publish", "report" }, artifact # None
    PROVE  \E k \in 1..12 : First(k) /\ artifact \in Verdict!Permitted[k]
<1>1. /\ st \in OrchestrationState /\ Valid(st) /\ Founded(st)
      /\ st.proposal => st.repair_plan = "suitable"
  BY DEF LedgerInv, EvidenceInv, RunInv, IInv, TypeOK, AttemptInv, Open
<1>2. artifact = st.terminal_route /\ artifact = route_terminal(st)
  BY <1>1 DEF LedgerInv, EvidenceInv, RunInv, Tells, Valid, ValidTerminal
<1>3. workspace = "absent" \/ (workspace = "undeletable" /\ artifact = Infra)
  BY <1>2 DEF LedgerInv, EvidenceInv, RunInv, AfterCleaning, Tells
<1>4. ASSUME NEW k \in 1..10, \A j \in 1..(k - 1) : Passing(st)[j], ~Passing(st)[k],
             artifact \in Verdict!Permitted[k]
      PROVE  \E i \in 1..12 : First(i) /\ artifact \in Verdict!Permitted[i]
  BY <1>4 DEF First, Stages
<1>5. ASSUME NEW k \in 1..9, Evidence(st)[k], ~Passing(st)[k], artifact \in Verdict!Permitted[k]
      PROVE  \E i \in 1..12 : First(i) /\ artifact \in Verdict!Permitted[i]
  <2>1. k \in 1..10 /\ k # 10
    OBVIOUS
  <2>2. \A j \in 1..(k - 1) : Passing(st)[j]
    BY <1>1, <1>5, <2>1, PassedBefore
  <2>3. QED
    BY <1>4, <1>5, <2>1, <2>2
<1>6. /\ st.failure_override \in { None, Infra, "CANDIDATE_FAILURE", "MALFORMED_MODEL_OUTPUT" }
      /\ artifact \in TerminalOutcome
  BY <1>1, <1>2 DEF Valid, ValidOverride, OrchestrationState, TerminalOutcome, Infra
<1>7. CASE artifact = Infra
  <2>1. CASE \E k \in 1..11 : ~Stages[k]
    <3>1. PICK k \in 1..11 : First(k)
      BY <2>1, FirstExists
    <3>2. Infra \in Verdict!Permitted[k]
      BY DEF Verdict!Permitted, Infra
    <3>3. QED
      BY <1>7, <3>1, <3>2
  <2>2. CASE \A k \in 1..11 : Stages[k]
    <3>1. AllPassing
      BY <2>2 DEF Stages, AllPassing
    <3>2. Stages[11]
      BY <2>2
    <3>3. workspace = "absent"
      <4>1. 11 \in 1..11 /\ ~(11 <= 10)
        OBVIOUS
      <4>2. Stages[11] = Done
        BY <4>1, Zenon DEF Stages
      <4>3. QED
        BY <3>2, <4>2, Zenon DEF Done
    <3>4. st.failure_override = None
      BY <3>1, <3>3 DEF Overruled
    <3>5. /\ st.baseline = "REPRODUCED_FAILURE" /\ st.policy_result = "approved"
          /\ st.static_result = "PASSED" /\ st.verification_result = "PASSED"
          /\ st.evaluation_result = "PASSED"
      <4>1. { 2, 7, 8, 9, 10 } \subseteq 1..10
        OBVIOUS
      <4>2. /\ Passing(st)[2] /\ Passing(st)[7] /\ Passing(st)[8]
            /\ Passing(st)[9] /\ Passing(st)[10]
        BY <3>1, <4>1, Zenon DEF AllPassing
      <4>3. QED
        BY <4>2, PassingParts, Zenon
    <3>6. QED
      BY <1>2, <1>7, <3>4, <3>5 DEF route_terminal, EvidenceOutcome, Infra
  <2>3. QED
    BY <2>1, <2>2
<1>8. CASE artifact = "SUCCESS"
  <2>1. AllPassing /\ workspace = "absent"
    BY <1>2, <1>3, <1>8 DEF LedgerInv, EvidenceInv, RunInv, IInv, SuccessIsEarned, AllPassing, Infra
  <2>2. Done
    BY <2>1 DEF Done
  <2>3. \A k \in 1..11 : Stages[k]
    BY <2>1, <2>2 DEF Stages, AllPassing
  <2>4. First(12)
    BY <2>3 DEF First
  <2>5. "SUCCESS" \in Verdict!Permitted[12]
    BY DEF Verdict!Permitted
  <2>6. QED
    BY <1>8, <2>4, <2>5
<1>9. /\ "BASELINE_NOT_REPRODUCIBLE" \in Verdict!Permitted[2]
      /\ "CANDIDATE_FAILURE" \in Verdict!Permitted[5] /\ "MALFORMED_MODEL_OUTPUT" \in Verdict!Permitted[5]
      /\ "MALFORMED_MODEL_OUTPUT" \in Verdict!Permitted[6]
      /\ "POLICY_VIOLATION" \in Verdict!Permitted[7]
      /\ "STATIC_CHECK_FAILURE" \in Verdict!Permitted[8]
      /\ "CANDIDATE_FAILURE" \in Verdict!Permitted[9]
  BY DEF Verdict!Permitted
<1>10. CASE st.failure_override = None /\ artifact \notin { Infra, "SUCCESS" }
  <2>1. artifact = EvidenceOutcome(st)
    BY <1>2, <1>10 DEF route_terminal
  <2>2. \/ artifact = "BASELINE_NOT_REPRODUCIBLE" /\ st.baseline = "NOT_REPRODUCIBLE"
        \/ artifact = "POLICY_VIOLATION" /\ st.policy_result = "rejected"
        \/ artifact = "STATIC_CHECK_FAILURE" /\ st.static_result = "CANDIDATE_FAILED"
        \/ artifact = "CANDIDATE_FAILURE" /\ st.verification_result = "CANDIDATE_FAILED"
    BY <1>10, <2>1 DEF EvidenceOutcome
  <2>3. ASSUME st.baseline = "NOT_REPRODUCIBLE"
        PROVE  Evidence(st)[2] /\ ~Passing(st)[2]
    <3>1. st.baseline # None /\ st.baseline # "REPRODUCED_FAILURE"
      BY <2>3 DEF None
    <3>2. Evidence(st)[2]
      BY <3>1, Zenon DEF Evidence
    <3>3. ~Passing(st)[2]
      BY <3>1, Zenon DEF Passing
    <3>4. QED
      BY <3>2, <3>3
  <2>4. ASSUME st.policy_result = "rejected"
        PROVE  Evidence(st)[7] /\ ~Passing(st)[7]
    <3>1. st.policy_result # None /\ st.policy_result # "approved"
      BY <2>4 DEF None
    <3>2. Evidence(st)[7]
      BY <3>1, Zenon DEF Evidence
    <3>3. ~Passing(st)[7]
      BY <3>1, Zenon DEF Passing
    <3>4. QED
      BY <3>2, <3>3
  <2>5. ASSUME st.static_result = "CANDIDATE_FAILED"
        PROVE  Evidence(st)[8] /\ ~Passing(st)[8]
    <3>1. st.static_result # None /\ st.static_result # "PASSED"
      BY <2>5 DEF None
    <3>2. Evidence(st)[8]
      BY <3>1, Zenon DEF Evidence
    <3>3. ~Passing(st)[8]
      BY <3>1, Zenon DEF Passing
    <3>4. QED
      BY <3>2, <3>3
  <2>6. ASSUME st.verification_result = "CANDIDATE_FAILED"
        PROVE  Evidence(st)[9] /\ ~Passing(st)[9]
    <3>1. st.verification_result # None /\ st.verification_result # "PASSED"
      BY <2>6 DEF None
    <3>2. Evidence(st)[9]
      BY <3>1, Zenon DEF Evidence
    <3>3. ~Passing(st)[9]
      BY <3>1, Zenon DEF Passing
    <3>4. QED
      BY <3>2, <3>3
  <2>7. 2 \in 1..9 /\ 7 \in 1..9 /\ 8 \in 1..9 /\ 9 \in 1..9
    OBVIOUS
  <2>8. QED
    BY <1>5, <1>9, <2>2, <2>3, <2>4, <2>5, <2>6, <2>7
<1>11. CASE st.failure_override \in { "CANDIDATE_FAILURE", "MALFORMED_MODEL_OUTPUT" }
  <2>1. /\ artifact = st.failure_override
        /\ st.context /\ ~st.proposal /\ (artifact = "CANDIDATE_FAILURE" => st.repair_plan # "suitable")
    BY <1>1, <1>2, <1>11 DEF route_terminal, Founded, None
  <2>2. Passing(st)[4] /\ Evidence(st)[4] /\ ~Passing(st)[6]
    BY <2>1, PassingParts, EvidenceParts, Zenon
  <2>3. \A j \in 1..3 : Passing(st)[j]
    <3>1. 4 \in 1..10 /\ 4 # 10 /\ 4 - 1 = 3
      OBVIOUS
    <3>2. QED
      BY <1>1, <2>2, <3>1, PassedBefore
  <2>4. CASE st.repair_plan = "suitable"
    <3>1. Passing(st)[5] /\ artifact = "MALFORMED_MODEL_OUTPUT"
      BY <1>11, <2>1, <2>4, PassingParts, Zenon
    <3>2. \A j \in 1..(6 - 1) : Passing(st)[j]
      <4>1. \A j \in 1..(6 - 1) : j \in 1..3 \/ j = 4 \/ j = 5
        OBVIOUS
      <4>2. QED
        BY <2>2, <2>3, <3>1, <4>1
    <3>3. 6 \in 1..10
      OBVIOUS
    <3>4. QED
      BY <1>4, <1>9, <2>2, <3>1, <3>2, <3>3
  <2>5. CASE st.repair_plan # "suitable"
    <3>1. ~Passing(st)[5]
      BY <2>5, PassingParts, Zenon
    <3>2. \A j \in 1..(5 - 1) : Passing(st)[j]
      <4>1. \A j \in 1..(5 - 1) : j \in 1..3 \/ j = 4
        OBVIOUS
      <4>2. QED
        BY <2>2, <2>3, <4>1
    <3>3. 5 \in 1..10 /\ artifact \in Verdict!Permitted[5]
      BY <1>9, <1>11, <2>1
    <3>4. QED
      BY <1>4, <3>1, <3>2, <3>3
  <2>6. QED
    BY <2>4, <2>5
<1>12. CASE st.failure_override = Infra
  BY <1>2, <1>7, <1>12 DEF route_terminal, Infra, None
<1>13. QED
  BY <1>6, <1>7, <1>8, <1>10, <1>11, <1>12

\* What a step of the process is to RepairVerdict.
VerdictInv == LedgerInv /\ Overruled
Decided == Verdict!VerdictNext \/ UNCHANGED Verdict!verdictVars

LEMMA Unsaid ==
    ASSUME LedgerInv, exit \in { NoExit, 130 } \/ artifact = None
    PROVE  Said = None
<1>1. artifact \in TerminalOutcome \cup { None }
  BY DEF LedgerInv, EvidenceInv, RunInv, RunTypeOK
<1>2. QED
  BY <1>1, NothingSaid DEF Said

LEMMA BlankBefore ==
    ASSUME LedgerInv, phase # "graph", graph # "returned"
    PROVE  ~AllPassing /\ ~Done
BY BlankStages DEF LedgerInv, Vanished

\* A step that changes no stage and gives no verdict stutters or aborts.
LEMMA Unmoved ==
    ASSUME LedgerInv, LedgerInv', SameStages, exit = NoExit, Done' = Done, Lost' = Lost,
           exit' \in { NoExit, 130 } \/ artifact' = None
    PROVE  Decided
<1>1. Stages' = Stages
  BY SilentStages
<1>2. Said = None
  BY Unsaid
<1>3. Said' = None
  <2>1. artifact' \in TerminalOutcome \cup { None }
    BY DEF LedgerInv, EvidenceInv, RunInv, RunTypeOK
  <2>2. QED
    BY <2>1, NothingSaid DEF Said
<1>4. CASE exit' = NoExit
  BY <1>1, <1>2, <1>3, <1>4, Stutters DEF Decided
<1>5. CASE exit' # NoExit
  BY <1>1, <1>2, <1>3, <1>5, Aborts DEF Decided, Verdict!VerdictNext
<1>6. QED
  BY <1>4, <1>5

\* The steps before the graph, with and without an exit.
LEMMA EarlyDecided ==
    ASSUME LedgerInv, LedgerInv', LoadCase \/ CreateWorkspace \/ InitializeState \/ InterruptEarly
    PROVE  Decided
<1>1. /\ phase \in { "load", "create", "initialize" } /\ UNCHANGED << graphVars, storeVars >>
      /\ phase' = "graph" => phase = "initialize"
  BY DEF LoadCase, CreateWorkspace, InitializeState, InterruptEarly, Leave
<1>2. graph = "running" /\ artifact = None /\ exit = NoExit
  BY <1>1 DEF LedgerInv, EvidenceInv, RunInv, BeforeCleanup, Storing
<1>3. st' = st /\ graph' = graph /\ artifact' = artifact
  BY <1>1 DEF graphVars, storeVars
<1>4. ~AllPassing
  BY <1>1, <1>2, BlankBefore
<1>5. SameStages /\ ~AllPassing'
  BY <1>3, <1>4, SameState
<1>6. Done' = Done /\ Lost' = Lost
  BY <1>2, <1>3, <1>4, <1>5 DEF Done, Lost
<1>7. QED
  BY <1>2, <1>3, <1>5, <1>6, Unmoved

\* A node of the graph passes its stage or leaves the stages as they are.
LEMMA GraphStepDecided ==
    ASSUME LedgerInv, LedgerInv', GraphStep
    PROVE  Decided
<1>1. /\ phase = "graph" /\ phase' = phase /\ UNCHANGED << exit, storeVars >> /\ Step
  BY DEF GraphStep, runVars
<1>2. artifact = None /\ artifact' = None /\ exit = NoExit
  BY <1>1 DEF LedgerInv, EvidenceInv, RunInv, Storing, storeVars
<1>3. ~Done /\ ~Done' /\ ~Lost /\ ~Lost' /\ Done' = Done /\ Lost' = Lost
  BY <1>1 DEF Done, Lost
<1>4. IInv /\ IInv' /\ Open /\ Open' /\ st' \in OrchestrationState
  BY DEF LedgerInv, EvidenceInv, RunInv, IInv, TypeOK
<1>5. CASE SameStages
  BY <1>2, <1>3, <1>5, Unmoved
<1>6. CASE \E i \in 1..10 : StagePasses(i)
  <2>1. OnePasses
    BY <1>3, <1>4, <1>6, OnePassing
  <2>2. Said = None /\ Said' = None
    BY <1>2, NothingSaid DEF Said, Saying
  <2>3. QED
    BY <1>1, <1>2, <1>3, <2>1, <2>2, Passes DEF Decided, Verdict!VerdictNext
<1>7. QED
  BY <1>1, <1>4, <1>5, <1>6, GraphStages

LEMMA NothingPassed ==
    ASSUME NEW p, NEW last, \A k \in 1..10 : p[k] = FALSE, last = FALSE
    PROVE  [k \in 1..11 |-> IF k <= 10 THEN p[k] ELSE last] = [k \in 1..11 |-> FALSE]
<1>1. \A k \in 1..11 : k \in 1..10 \/ ~(k <= 10)
  OBVIOUS
<1>2. \A k \in 1..11 : (IF k <= 10 THEN p[k] ELSE last) = FALSE
  BY <1>1, Zenon
<1>3. QED
  BY <1>2, Zenon

\* The run has no evidence any more.
LEMMA EvidenceLost ==
    ASSUME LedgerInv, LedgerInv', phase = "graph", phase' # "graph",
           graph' \in { "raised", "interrupted" }, UNCHANGED << exit, storeVars >>
    PROVE  Decided
<1>1. artifact = None /\ artifact' = None /\ exit = NoExit
  BY DEF LedgerInv, EvidenceInv, RunInv, Storing, storeVars
<1>2. ~Lost /\ Lost'
  BY DEF Lost
<1>3. Said = None /\ Said' = None
  BY <1>1 DEF Said, Saying
<1>4. Blank(st') /\ st' \in OrchestrationState
  BY DEF LedgerInv, EvidenceInv, RunInv, IInv, TypeOK, Vanished
<1>5. \A k \in 1..10 : Passing(st')[k] = FALSE
  BY <1>4, BlankPassing, PassingTyped
<1>6. Done' = FALSE
  <2>1. ~AllPassing'
    <3>1. 1 \in 1..10
      OBVIOUS
    <3>2. QED
      BY <1>5, <3>1 DEF AllPassing
  <2>2. QED
    BY <2>1 DEF Done
<1>7. Stages' = [k \in 1..11 |-> FALSE]
  BY ZenonT(60), <1>5, <1>6, NothingPassed DEF Stages
<1>8. QED
  BY <1>1, <1>2, <1>3, <1>7, Loses DEF Decided, Verdict!VerdictNext

LEMMA LeaveGraphDecided ==
    ASSUME LedgerInv, LedgerInv', LeaveGraph
    PROVE  Decided
<1>1. /\ phase = "graph" /\ phase' \in { "project", "cleanup" } /\ graph' = graph
      /\ UNCHANGED << exit, storeVars >> /\ graph \in { "returned", "raised" }
  BY DEF LeaveGraph
<1>2. CASE graph = "raised"
  BY <1>1, <1>2, EvidenceLost
<1>3. CASE graph = "returned"
  <2>1. st' = st
    BY <1>3 DEF LeaveGraph
  <2>2. artifact' = None /\ exit = NoExit
    BY <1>1 DEF LedgerInv, EvidenceInv, RunInv, Storing, storeVars
  <2>3. SameStages
    BY <2>1, SameState
  <2>4. Done' = Done /\ Lost' = Lost
    BY <1>1, <1>3 DEF Done, Lost
  <2>5. QED
    BY <2>2, <2>3, <2>4, Unmoved
<1>4. QED
  BY <1>1, <1>2, <1>3

LEMMA InterruptRunDecided ==
    ASSUME LedgerInv, LedgerInv', InterruptRun
    PROVE  Decided
<1>1. /\ phase \in { "initialize", "graph", "project" } /\ phase' = "cleanup"
      /\ UNCHANGED << exit, storeVars >>
  BY DEF InterruptRun
<1>2. CASE phase = "graph"
  <2>1. graph' = "interrupted"
    BY <1>2 DEF InterruptRun
  <2>2. QED
    BY <1>1, <1>2, <2>1, EvidenceLost
<1>3. CASE phase # "graph"
  <2>1. st' = st /\ graph' = graph
    BY <1>3 DEF InterruptRun
  <2>2. artifact' = None /\ exit = NoExit
    BY <1>1 DEF LedgerInv, EvidenceInv, RunInv, Storing, storeVars
  <2>3. SameStages
    BY <2>1, SameState
  <2>4. Done' = Done /\ Lost' = Lost
    BY <1>1, <1>3, <2>1 DEF Done, Lost
  <2>5. QED
    BY <2>2, <2>3, <2>4, Unmoved
<1>4. QED
  BY <1>2, <1>3

LEMMA ProjectDecided ==
    ASSUME LedgerInv, LedgerInv', Project
    PROVE  Decided
<1>1. /\ phase = "project" /\ phase' = "cleanup" /\ UNCHANGED << graphVars, storeVars, exit >>
  BY DEF Project
<1>2. artifact' = None /\ exit = NoExit /\ st' = st /\ graph' = graph
  BY <1>1 DEF LedgerInv, EvidenceInv, RunInv, Storing, storeVars, graphVars
<1>3. SameStages
  BY <1>2, SameState
<1>4. Done' = Done /\ Lost' = Lost
  BY <1>1, <1>2 DEF Done, Lost
<1>5. QED
  BY <1>2, <1>3, <1>4, Unmoved

\* The removal of the workspaces is the last stage.
LEMMA LastPasses ==
    ASSUME AllPassing, ~Done, Done', SameStages
    PROVE  OnePasses
<1>1. Done' = TRUE
  BY DEF Done
<1>2. Stages[11] = Done /\ Stages'[11] = TRUE
  <2>1. 11 \in 1..11 /\ ~(11 <= 10)
    OBVIOUS
  <2>2. Stages[11] = Done /\ Stages'[11] = Done'
    BY <2>1, Zenon DEF Stages
  <2>3. QED
    BY <1>1, <2>2
<1>3. \A k \in 1..10 : Stages'[k] = Stages[k]
  <2>1. \A k \in 1..10 : k \in 1..11 /\ k <= 10
    OBVIOUS
  <2>2. QED
    BY <2>1, Zenon DEF Stages, SameStages
<1>4. \A k \in 1..11 : Stages'[k] = IF k = 11 THEN TRUE ELSE Stages[k]
  <2>1. \A k \in 1..11 : k \in 1..10 \/ k = 11
    OBVIOUS
  <2>2. QED
    BY <1>2, <1>3, <2>1, Zenon
<1>5. Stages' = [k \in 1..11 |-> Stages'[k]]
  BY DEF Stages
<1>6. [Stages EXCEPT ![11] = TRUE] = [k \in 1..11 |-> IF k = 11 THEN TRUE ELSE Stages[k]]
  BY DEF Stages
<1>7. Stages' = [Stages EXCEPT ![11] = TRUE]
  BY <1>4, <1>5, <1>6, Zenon
<1>8. First(11)
  <2>1. \A j \in 1..(11 - 1) : Stages[j]
    BY DEF AllPassing, Stages
  <2>2. ~Stages[11]
    BY <1>2, Zenon
  <2>3. QED
    BY <2>1, <2>2 DEF First
<1>9. 11 \in 1..11
  OBVIOUS
<1>10. QED
  BY <1>7, <1>8, <1>9, Zenon DEF OnePasses

\* The end of the process' try statement, whether or not the workspaces are gone.
LEMMA CleanupDecided ==
    ASSUME LedgerInv, LedgerInv', CleanupRemoves \/ CleanupFails \/ InterruptCleanup
    PROVE  Decided
<1>1. /\ phase = "cleanup" /\ phase' \in { "publish", "exited" } /\ graph' = graph
      /\ UNCHANGED storeVars
  BY DEF CleanupRemoves, CleanupFails, InterruptCleanup, AfterCleanup, Leave, graphVars
<1>2. artifact = None /\ artifact' = None /\ exit = NoExit
  BY <1>1 DEF LedgerInv, EvidenceInv, RunInv, Storing, storeVars
<1>3. SameStages /\ (Done' => AllPassing)
  <2>1. CASE st' = st
    BY <2>1, SameState DEF Done
  <2>2. CASE st' # st
    <3>1. /\ \E clock : st' = Replaced(st, clock)
          /\ workspace' = "undeletable"
      BY <2>2 DEF CleanupRemoves, CleanupFails, InterruptCleanup, graphVars
    <3>2. st \in OrchestrationState
      BY DEF LedgerInv, EvidenceInv, RunInv, IInv, TypeOK
    <3>3. \A f \in EvidenceFields : f # "failure_override" => st'[f] = st[f]
      BY <3>1, <3>2 DEF Replaced, OrchestrationState, EvidenceFields
    <3>4. SameStages
      BY <3>3, SamePassing DEF SameStages
    <3>5. QED
      BY <3>1, <3>4 DEF Done
  <2>3. QED
    BY <2>1, <2>2
<1>4. ~Done /\ Lost' = Lost
  BY <1>1 DEF Done, Lost
<1>5. CASE ~Done'
  <2>1. Done' = Done
    BY <1>4, <1>5 DEF Done
  <2>2. QED
    BY <1>2, <1>3, <1>4, <2>1, Unmoved
<1>6. CASE Done'
  <2>1. OnePasses
    BY <1>3, <1>4, <1>6, LastPasses
  <2>2. ~Lost
    BY <1>1, <1>3, <1>6, BlankBefore DEF Lost
  <2>3. Said = None /\ Said' = None
    BY <1>2 DEF Said, Saying
  <2>4. CASE exit' = NoExit
    BY <1>2, <1>4, <2>1, <2>2, <2>3, <2>4, Passes DEF Decided, Verdict!VerdictNext
  <2>5. CASE exit' # NoExit
    BY <1>2, <1>4, <2>1, <2>3, <2>5, Aborts DEF Decided, Verdict!VerdictNext
  <2>6. QED
    BY <2>4, <2>5
<1>7. QED
  BY <1>5, <1>6

LEMMA PublishDecided ==
    ASSUME LedgerInv, LedgerInv', Publish \/ InterruptPublication
    PROVE  Decided
<1>1. /\ phase = "publish" /\ phase' = phase /\ workspace' = workspace /\ exit' = exit
      /\ UNCHANGED graphVars
  BY DEF Publish, InterruptPublication
<1>2. exit = NoExit /\ st' = st /\ graph' = graph
  BY <1>1 DEF LedgerInv, EvidenceInv, RunInv, graphVars
<1>3. SameStages /\ AllPassing' = AllPassing
  BY <1>2, SameState
<1>4. Done' = Done /\ Lost' = Lost
  BY <1>1, <1>2, <1>3 DEF Done, Lost
<1>5. QED
  BY <1>1, <1>2, <1>3, <1>4, Unmoved

\* The exit code names the artifact that is on disk, or names no outcome that is.
LEMMA ReportDecided ==
    ASSUME LedgerInv, LedgerInv', Overruled, Published \/ Report \/ InterruptReport
    PROVE  Decided
<1>1. /\ phase \in { "publish", "report" } /\ phase' \in { "report", "exited" }
      /\ UNCHANGED << graphVars, workspace, storeVars >>
  BY DEF Published, Report, InterruptReport, Leave
<1>2. exit = NoExit /\ st' = st /\ graph' = graph /\ artifact' = artifact
  BY <1>1 DEF LedgerInv, EvidenceInv, RunInv, graphVars, storeVars
<1>3. SameStages /\ AllPassing' = AllPassing
  BY <1>2, SameState
<1>4. Done' = Done /\ Lost' = Lost
  BY <1>1, <1>2, <1>3 DEF Done, Lost
<1>5. CASE exit' = NoExit
  BY <1>2, <1>3, <1>4, <1>5, Unmoved
<1>6. CASE exit' # NoExit /\ Said' = None
  <2>1. Stages' = Stages
    BY <1>3, <1>4, SilentStages
  <2>2. Said = None
    BY <1>2, Unsaid
  <2>3. QED
    BY <1>2, <1>4, <1>6, <2>1, <2>2, Aborts DEF Decided, Verdict!VerdictNext
<1>7. CASE exit' # NoExit /\ Said' # None
  <2>1. Said' = artifact /\ artifact # None
    BY <1>2, <1>7 DEF Said, Saying
  <2>2. \E k \in 1..12 : First(k) /\ artifact \in Verdict!Permitted[k]
    BY <1>1, <2>1, Entitled
  <2>3. Stages' = Stages
    BY <1>3, <1>4, SilentStages
  <2>4. QED
    BY <1>2, <1>4, <1>7, <2>1, <2>2, <2>3, Decides DEF Decided, Verdict!VerdictNext
<1>8. QED
  BY <1>5, <1>6, <1>7

\* Every step of the process is one that RepairVerdict allows, or none to it.
LEMMA StepDecided ==
    ASSUME VerdictInv, LedgerInv', [RunNext]_vars
    PROVE  [Verdict!VerdictNext]_Verdict!verdictVars
<1>1. LedgerInv /\ Overruled
  BY DEF VerdictInv
<1>2. CASE UNCHANGED vars
  <2>1. /\ st' = st /\ phase' = phase /\ graph' = graph /\ workspace' = workspace
        /\ artifact' = artifact /\ exit' = exit
    BY <1>2 DEF vars, graphVars, runVars, storeVars
  <2>2. SameStages /\ AllPassing' = AllPassing
    BY <2>1, SameState
  <2>3. Done' = Done /\ Lost' = Lost /\ Said' = Said
    BY <2>1, <2>2 DEF Done, Lost, Said
  <2>4. Stages' = Stages
    BY <2>2, <2>3, SilentStages
  <2>5. QED
    BY <2>1, <2>3, <2>4, Stutters
<1>3. CASE RunNext
  <2>1. Decided
    BY <1>1, <1>3, EarlyDecided, GraphStepDecided, LeaveGraphDecided, InterruptRunDecided,
       ProjectDecided, CleanupDecided, PublishDecided, ReportDecided
    DEF RunNext, RunStep
  <2>2. QED
    BY <2>1 DEF Decided
<1>4. QED
  BY <1>2, <1>3

LEMMA UndecidedAtFirst ==
    ASSUME RunInit
    PROVE  VerdictInv /\ Verdict!VerdictInit
<1>1. LedgerInv
  BY RunInit_RunStarted, RunInit_Ledger
<1>2. /\ phase = "load" /\ graph = "running" /\ artifact = None /\ exit = NoExit
  BY DEF RunInit, Init, StoreInit, None
<1>3. Blank(st) /\ st \in OrchestrationState
  BY <1>1, <1>2 DEF LedgerInv, EvidenceInv, RunInv, IInv, TypeOK, Vanished
<1>4. \A k \in 1..10 : Passing(st)[k] = FALSE
  BY <1>3, BlankPassing, PassingTyped
<1>5. ~AllPassing /\ Done = FALSE
  BY <1>3, BlankStages DEF Done
<1>6. Stages = [k \in 1..11 |-> FALSE]
  BY <1>4, <1>5, NothingPassed DEF Stages
<1>7. Lost = FALSE /\ Said = None
  BY <1>2 DEF Lost, Said, Saying
<1>8. Overruled
  BY <1>5 DEF Overruled
<1>9. Verdict!VerdictInit
  BY <1>2, <1>6, <1>7
  DEF Verdict!VerdictInit, Verdict!Nothing, Stages, Done, AllPassing, Lost, Said, Saying, None, NoExit
<1>10. QED
  BY <1>1, <1>8, <1>9 DEF VerdictInv

\* An infrastructure failure that a run with ten passing stages reports is the
\* failed removal of its workspaces.
THEOREM VerdictInvariant == RunSpec => []VerdictInv
<1>1. RunInit => VerdictInv
  BY UndecidedAtFirst
<1>2. VerdictInv /\ [RunNext]_vars => VerdictInv'
  BY RunNext_Ledger, OverruledStep DEF VerdictInv
<1>3. QED
  BY <1>1, <1>2, PTL DEF RunSpec

\* The process decides as RepairVerdict promises: ImplementsVerdict but for its
\* fairness.
THEOREM DecidesAsPromised ==
    RunSpec => Verdict!VerdictInit /\ [][Verdict!VerdictNext]_Verdict!verdictVars
<1>1. RunInit => Verdict!VerdictInit
  BY UndecidedAtFirst
<1>2. VerdictInv /\ VerdictInv' /\ [RunNext]_vars => [Verdict!VerdictNext]_Verdict!verdictVars
  BY StepDecided DEF VerdictInv
<1>3. QED
  BY <1>1, <1>2, VerdictInvariant, PTL DEF RunSpec
=============================================================================
