-------------------------- MODULE VerificationProofs --------------------------
(***************************************************************************)
(* Proofs about candidate verification, in two parts.  The first is about   *)
(* VerificationService, for any number of changes of the candidate: its     *)
(* invariant says where the hidden tests can be at each step, that the      *)
(* stages before the current one passed, and that a candidate whose         *)
(* identity is still the one of the current inspection has the content      *)
(* that inspection found.  The second is about Verification: the runner's   *)
(* invariant, which each new container starts afresh, and with it that      *)
(* verify over its runner implements VerificationService, whose theorems    *)
(* then hold of it.                                                         *)
(***************************************************************************)
EXTENDS Verification, TLAPS

Inspects == pc \in { "first", "content", "second" }

\* Where verify is, and where the bundle can be then.
Place ==
    /\ pc = "validate" => stage = 1 /\ ~bundle
    /\ pc = "run" /\ stage # 3 => ~bundle
    /\ pc = "bundle" => stage = 3 /\ ~bundle
    /\ pc \in { "remove", "remove_interrupted" } => stage = 3
    /\ Inspects =>
           /\ check = "initial" => stage = 1 /\ ~bundle
           /\ check = "after_stage" => stage # 3 /\ ~bundle
           /\ check = "no_bundle" => stage = 3 /\ (bundle => error = "CLEANUP_FAILED")
           /\ check = "before_hidden" => stage = 3
           /\ check = "final" => stage = 3 /\ cleanup # "none" /\ (cleanup = "done" => ~bundle)

\* The stages before this one passed, and those from it on have no status yet.
Progressed ==
    /\ stage \in { 2, 3 } => status[1] = "PASSED"
    /\ stage = 3 => status[2] = "PASSED"
    /\ bundle => stage = 3
    /\ pc # "done" => /\ outcome = None
                      /\ \A i \in Stage : i >= stage => status[i] = "NOT_RUN"

\* What the current stage has led to.
Reported ==
    /\ error \notin { "SANDBOX_TIMED_OUT", "SANDBOX_MEMORY_LIMIT" }
    /\ (pc = "remove" \/ (Inspects /\ check = "final")) => error # None \/ evidence \in Evidence
    /\ Inspects /\ check = "no_bundle" => error \in BundleCode

\* Nobody can change the candidate and keep its identity.
Unchanged ==
    /\ pc \in { "content", "second" } => first <= changes
    /\ pc = "second" /\ first = changes => ~edited

Inv ==
    /\ TypeOK /\ Place /\ Progressed /\ Reported /\ Unchanged
    /\ HiddenTestsAreGuarded /\ RaisesOnlyWhenCutShort

USE DEF None

-----------------------------------------------------------------------------
(* The results.                                                             *)

\* The current stage is blamed: verify returns a result that says so, which its
\* validators accept, or raises if the stage was cut short.
Blamed(code, found) ==
    /\ pc' = "done" /\ status' \in [Stage -> Status] /\ diagnostic' \in Code \cup { None }
    /\ \A i \in Stage : i < stage => status'[i] = status[i]
    /\ outcome' \in { "INFRASTRUCTURE_DIAGNOSTIC", "raised" }
    /\ outcome' = "INFRASTRUCTURE_DIAGNOSTIC" => diagnostic' = code
    /\ outcome' = "raised" => found \in { "TIMED_OUT", "MEMORY_LIMIT" }

LEMMA Blame ==
    ASSUME TypeOK, Progressed, pc # "done",
           NEW code \in Code \ { "SANDBOX_TIMED_OUT", "SANDBOX_MEMORY_LIMIT" },
           NEW found \in Evidence \cup { None }, Infrastructure(stage, code, found)
    PROVE  Blamed(code, found)
<1> DEFINE stages == [i \in Stage |-> IF i < stage THEN status[i]
                                 ELSE IF i = stage THEN "INFRASTRUCTURE_ERROR" ELSE "NOT_RUN"]
<1>1. CASE StageResultValid("INFRASTRUCTURE_ERROR", found, code)
  <2>1. Return(stages, code)
    BY <1>1 DEF Infrastructure
  <2>2. stage \in Stage /\ stages \in [Stage -> Status]
    BY DEF TypeOK, Status, Stage
  <2>3. \A i \in Stage : /\ i < stage => stages[i] = "PASSED" /\ stages[i] = status[i]
                         /\ i = stage => stages[i] = "INFRASTRUCTURE_ERROR"
                         /\ i > stage => stages[i] = "NOT_RUN"
    BY <2>2 DEF TypeOK, Progressed, Stage
  <2> HIDE DEF stages
  <2>4. At(stages, "INFRASTRUCTURE_ERROR") = { stage }
    BY <2>2, <2>3 DEF At, Stage
  <2>5. TopologyValid(stages)
    BY <2>2, <2>3, <2>4 DEF TopologyValid, Blocking
  <2>6. Derived(stages) = "INFRASTRUCTURE_DIAGNOSTIC"
    BY <2>4 DEF Derived
  <2>7. QED
    BY <2>1, <2>2, <2>3, <2>5, <2>6 DEF Return, Blamed
<1>2. CASE ~StageResultValid("INFRASTRUCTURE_ERROR", found, code)
  BY <1>2 DEF Infrastructure, StageResultValid, Blamed, TypeOK
<1>3. QED
  BY <1>1, <1>2

\* The current stage is the last one that is run: verify returns what it found.
LEMMA Judge ==
    ASSUME TypeOK, Progressed, pc # "done", evidence \in Evidence, evidence # "ZERO" \/ stage = 3,
           Return(WithStage, CodeOf(evidence))
    PROVE  /\ pc' = "done" /\ status' \in [Stage -> Status] /\ diagnostic' \in Code \cup { None }
           /\ \A i \in Stage : i < stage => status'[i] = status[i]
           /\ outcome' \in { "PASSED", "CANDIDATE_FAILED", "INFRASTRUCTURE_DIAGNOSTIC" }
<1>1. stage \in Stage /\ WithStage \in [Stage -> Status] /\ WithStage[stage] = StatusOf(evidence)
  BY DEF TypeOK, WithStage, StatusOf, Status
<1>2. \A i \in Stage : /\ i < stage => WithStage[i] = "PASSED" /\ WithStage[i] = status[i]
                       /\ i > stage => WithStage[i] = "NOT_RUN"
  BY <1>1 DEF TypeOK, WithStage, Progressed, Stage
<1>3. CodeOf(evidence) \in Code \cup { None }
  BY DEF CodeOf, Code
<1>4. TopologyValid(WithStage)
  <2>1. CASE StatusOf(evidence) = "PASSED"
    <3>1. stage = 3
      BY <2>1 DEF StatusOf
    <3>2. QED
      BY <1>1, <1>2, <2>1, <3>1 DEF TopologyValid, Stage
  <2>2. CASE StatusOf(evidence) = "FAILED"
    <3>1. At(WithStage, "INFRASTRUCTURE_ERROR") = {} /\ At(WithStage, "FAILED") = { stage }
      BY <1>1, <1>2, <2>2 DEF At, Stage
    <3>2. QED
      BY <1>1, <1>2, <3>1 DEF TopologyValid, Blocking
  <2>3. CASE StatusOf(evidence) = "INFRASTRUCTURE_ERROR"
    <3>1. At(WithStage, "INFRASTRUCTURE_ERROR") = { stage }
      BY <1>1, <1>2, <2>3 DEF At, Stage
    <3>2. QED
      BY <1>1, <1>2, <3>1 DEF TopologyValid, Blocking
  <2>4. QED
    BY <2>1, <2>2, <2>3 DEF StatusOf
<1>5. QED
  BY <1>1, <1>2, <1>3, <1>4 DEF Return, Derived

-----------------------------------------------------------------------------
(* The invariant is inductive.                                              *)

LEMMA InitInv == Init => Inv
<1> SUFFICES ASSUME Init PROVE Inv
  OBVIOUS
<1>1. TypeOK
  <2>1. 0 \in 0..MaxChanges /\ 1 \in Stage /\ [i \in Stage |-> "NOT_RUN"] \in [Stage -> Status]
    BY MaxChangesAssumption DEF Stage, Status
  <2>2. QED
    BY <2>1 DEF Init, TypeOK, Check
<1>2. Place /\ Unchanged
  BY DEF Init, Place, Unchanged, Inspects
<1>3. Progressed
  BY DEF Init, Progressed, Stage
<1>4. Reported /\ HiddenTestsAreGuarded /\ RaisesOnlyWhenCutShort
  BY DEF Init, Reported, Inspects, HiddenTestsAreGuarded, RaisesOnlyWhenCutShort
<1>5. QED
  BY <1>1, <1>2, <1>3, <1>4 DEF Inv

\* verify ends in an inspection, with the bundle where Inv says it can be.
LEMMA EndInv ==
    ASSUME Inv, pc' = "done", status' \in [Stage -> Status], diagnostic' \in Code \cup { None },
           \A i \in Stage : i < stage => status'[i] = status[i],
           outcome' \in { "PASSED", "CANDIDATE_FAILED", "INFRASTRUCTURE_DIAGNOSTIC", "raised" },
           bundle => outcome' = "raised" \/ (outcome' = "INFRASTRUCTURE_DIAGNOSTIC"
                                             /\ diagnostic' = "CLEANUP_FAILED"),
           outcome' = "raised" => evidence \in { "TIMED_OUT", "MEMORY_LIMIT" },
           UNCHANGED << candidate, bundle, inspection, run, cleanup >>
    PROVE  Inv'
<1> USE DEF candidate, inspection, run
<1>1. TypeOK'
  BY DEF Inv, TypeOK
<1>2. Place' /\ Unchanged'
  BY DEF Place, Unchanged, Inspects
<1>3. Progressed'
  BY DEF Inv, TypeOK, Progressed, Stage
<1>4. Reported' /\ RaisesOnlyWhenCutShort'
  BY DEF Inv, Reported, Inspects, RaisesOnlyWhenCutShort
<1>5. HiddenTestsAreGuarded'
  BY <1>3 DEF Inv, Progressed, HiddenTestsAreGuarded
<1>6. QED
  BY <1>1, <1>2, <1>3, <1>4, <1>5 DEF Inv

\* An inspection ends.
LEMMA ConcludeInv ==
    ASSUME Inv, NEW ok \in BOOLEAN, Inspects, Conclude(ok),
           UNCHANGED << candidate, bundle, cleanup >>
    PROVE  Inv'
<1> USE DEF candidate, inspection, run
<1>0. /\ pc # "done" /\ TypeOK /\ Progressed /\ error \in Code \cup { None }
      /\ evidence \in Evidence \cup { None }
  BY DEF Inv, Inspects, TypeOK
<1>1. CASE check = "initial" /\ AfterInitial(ok)
  <2>1. stage = 1 /\ ~bundle
    BY <1>1 DEF Inv, Place
  <2>2. CASE ok
    <3>1. TypeOK'
      BY <1>1, <2>2 DEF AfterInitial, Run, Inv, TypeOK, Stage, result
    <3>2. Place' /\ Unchanged' /\ Reported'
      BY <1>1, <2>1, <2>2 DEF AfterInitial, Run, Inv, Place, Unchanged, Reported, Inspects
    <3>3. Progressed' /\ HiddenTestsAreGuarded' /\ RaisesOnlyWhenCutShort'
      BY <1>0, <1>1, <2>1, <2>2 DEF AfterInitial, Run, Inv, Progressed, HiddenTestsAreGuarded,
                                    RaisesOnlyWhenCutShort, result
    <3>4. QED
      BY <3>1, <3>2, <3>3 DEF Inv
  <2>3. CASE ~ok
    <3>1. Infrastructure(stage, "CANDIDATE_INVALID", None) /\ UNCHANGED << inspection, run >>
      BY <1>1, <2>1, <2>3 DEF AfterInitial
    <3>2. Blamed("CANDIDATE_INVALID", None)
      BY <1>0, <3>1, Blame DEF Code
    <3>3. QED
      BY <2>1, <3>1, <3>2, EndInv DEF Blamed
  <2>4. QED
    BY <2>2, <2>3
<1>2. CASE check = "after_stage" /\ AfterStage(ok)
  <2>1. stage # 3 /\ ~bundle /\ UNCHANGED inspection
    BY <1>2 DEF Inv, Place, AfterStage
  <2>2. CASE ~ok /\ Infrastructure(stage, "INTEGRITY_FAILED", evidence) /\ UNCHANGED run
    <3>1. Blamed("INTEGRITY_FAILED", evidence)
      BY <1>0, <2>2, Blame DEF Code
    <3>2. QED
      BY <2>1, <2>2, <3>1, EndInv DEF Blamed
  <2>3. CASE ok /\ error # None /\ Infrastructure(stage, error, None) /\ UNCHANGED run
    <3>1. Blamed(error, None)
      BY <1>0, <2>3, Blame DEF Inv, Reported
    <3>2. QED
      BY <2>1, <2>3, <3>1, EndInv DEF Blamed
  <2>4. CASE ok /\ evidence \in Evidence \ { "ZERO" } /\ Return(WithStage, CodeOf(evidence)) /\ UNCHANGED run
    BY <1>0, <2>1, <2>4, Judge, EndInv
  <2>5. CASE /\ ok /\ evidence = "ZERO" /\ status' = WithStage /\ UNCHANGED << diagnostic, outcome >>
             /\ IF stage = 1 THEN Run(2)
                ELSE pc' = "bundle" /\ stage' = 3 /\ evidence' = None /\ UNCHANGED error
    <3>1. /\ stage \in { 1, 2 } /\ stage' = stage + 1 /\ pc' \in { "run", "bundle" }
          /\ (pc' = "bundle" <=> stage' = 3) /\ UNCHANGED error
          /\ evidence' \in Evidence \cup { None }
      BY <1>0, <2>1, <2>5 DEF Run, TypeOK, Stage
    <3>2. /\ status' \in [Stage -> Status] /\ status'[stage] = "PASSED"
          /\ \A i \in Stage : i # stage => status'[i] = status[i]
      BY <1>0, <2>5 DEF WithStage, StatusOf, TypeOK, Status, Stage
    <3>3. TypeOK'
      <4>1. stage' \in Stage /\ pc' \in { "run", "bundle" } /\ error' = error
        BY <3>1 DEF Stage
      <4>2. QED
        BY <1>0, <2>1, <2>5, <3>1, <3>2, <4>1 DEF TypeOK
    <3>4. Place' /\ Unchanged' /\ Reported'
      BY <1>0, <2>1, <2>5, <3>1 DEF Inv, Place, Unchanged, Reported, Inspects, Run, TypeOK, Stage
    <3>5. Progressed'
      BY <1>0, <2>1, <2>5, <3>1, <3>2 DEF Progressed, Stage
    <3>6. HiddenTestsAreGuarded' /\ RaisesOnlyWhenCutShort'
      BY <1>0, <2>1, <2>5 DEF Progressed, HiddenTestsAreGuarded, RaisesOnlyWhenCutShort
    <3>7. QED
      BY <3>3, <3>4, <3>5, <3>6 DEF Inv
  <2>6. QED
    BY <1>2, <2>2, <2>3, <2>4, <2>5 DEF AfterStage
<1>3. CASE check = "no_bundle" /\ AfterNoBundle(ok)
  <2> DEFINE code == IF ok \/ error = "CLEANUP_FAILED" THEN error ELSE "INTEGRITY_FAILED"
  <2>1. /\ stage = 3 /\ (bundle => error = "CLEANUP_FAILED") /\ error \in BundleCode
        /\ Infrastructure(stage, code, None) /\ UNCHANGED << inspection, run >>
    BY <1>3 DEF Inv, Place, Reported, AfterNoBundle
  <2>2. Blamed(code, None)
    BY <1>0, <2>1, Blame DEF Code, BundleCode
  <2>3. QED
    BY <2>1, <2>2, EndInv DEF Blamed
<1>4. CASE check = "before_hidden" /\ AfterBundle(ok)
  <2>1. stage = 3
    BY <1>4 DEF Inv, Place
  <2>2. TypeOK'
    BY <1>0, <1>4 DEF AfterBundle, TypeOK, Code, result
  <2>3. Place' /\ Unchanged' /\ Reported'
    BY <1>4, <2>1 DEF AfterBundle, Inv, Place, Unchanged, Reported, Inspects
  <2>4. Progressed' /\ HiddenTestsAreGuarded' /\ RaisesOnlyWhenCutShort'
    BY <1>0, <1>4 DEF AfterBundle, Inv, Progressed, HiddenTestsAreGuarded, RaisesOnlyWhenCutShort, result
  <2>5. QED
    BY <2>2, <2>3, <2>4 DEF Inv
<1>5. CASE check = "final" /\ AfterHidden(ok)
  <2>1. /\ stage = 3 /\ (cleanup # "failed" => ~bundle) /\ (error # None \/ evidence \in Evidence)
        /\ UNCHANGED << inspection, run >>
    BY <1>5 DEF Inv, TypeOK, Place, Reported, AfterHidden
  <2>2. ASSUME NEW code \in Code \ { "SANDBOX_TIMED_OUT", "SANDBOX_MEMORY_LIMIT" },
               Infrastructure(stage, code, evidence), code = "CLEANUP_FAILED" \/ ~bundle
        PROVE  Inv'
    BY <1>0, <2>1, <2>2, Blame, EndInv DEF Blamed
  <2>3. CASE cleanup = "failed"
    BY <1>5, <2>1, <2>2, <2>3 DEF AfterHidden, Code, BundleCode
  <2>4. CASE cleanup # "failed" /\ ~ok
    BY <1>5, <2>1, <2>2, <2>4 DEF AfterHidden, Code
  <2>5. CASE cleanup # "failed" /\ ok /\ error # None
    BY <1>0, <1>5, <2>1, <2>2, <2>5 DEF AfterHidden, Inv, Reported
  <2>6. CASE cleanup # "failed" /\ ok /\ error = None
    BY <1>0, <1>5, <2>1, <2>6, Judge, EndInv DEF AfterHidden
  <2>7. QED
    BY <2>3, <2>4, <2>5, <2>6
<1>6. QED
  BY <1>1, <1>2, <1>3, <1>4, <1>5 DEF Conclude

\* A reading of the inspection ends it with an answer, or goes on.
LEMMA InspectionInv == Inv /\ (CheckFails \/ ReadFirst \/ ReadContent \/ ReadSecond) => Inv'
<1> USE DEF candidate, inspection, run, result
<1>1. ASSUME Inv, CheckFails PROVE Inv'
  BY <1>1, ConcludeInv DEF CheckFails, Inspects
<1>2. ASSUME Inv, ReadFirst PROVE Inv'
  <2>1. TypeOK'
    BY <1>2 DEF Inv, TypeOK, ReadFirst
  <2>2. Place' /\ Reported'
    BY <1>2 DEF Inv, Place, Reported, Inspects, ReadFirst
  <2>3. Unchanged'
    BY <1>2 DEF Inv, TypeOK, Unchanged, ReadFirst
  <2>4. Progressed' /\ HiddenTestsAreGuarded' /\ RaisesOnlyWhenCutShort'
    BY <1>2 DEF Inv, Progressed, HiddenTestsAreGuarded, RaisesOnlyWhenCutShort, ReadFirst
  <2>5. QED
    BY <2>1, <2>2, <2>3, <2>4 DEF Inv
<1>3. ASSUME Inv, ReadContent PROVE Inv'
  <2>1. CASE edited
    BY <1>3, <2>1, ConcludeInv DEF ReadContent, Inspects
  <2>2. CASE ~edited
    <3>1. TypeOK'
      BY <1>3, <2>2 DEF Inv, TypeOK, ReadContent
    <3>2. Place' /\ Reported'
      BY <1>3, <2>2 DEF Inv, Place, Reported, Inspects, ReadContent
    <3>3. Unchanged'
      BY <1>3, <2>2 DEF Inv, Unchanged, ReadContent
    <3>4. Progressed' /\ HiddenTestsAreGuarded' /\ RaisesOnlyWhenCutShort'
      BY <1>3, <2>2 DEF Inv, Progressed, HiddenTestsAreGuarded, RaisesOnlyWhenCutShort, ReadContent
    <3>5. QED
      BY <3>1, <3>2, <3>3, <3>4 DEF Inv
  <2>3. QED
    BY <2>1, <2>2
<1>4. ASSUME Inv, ReadSecond PROVE Inv'
  BY <1>4, ConcludeInv DEF ReadSecond, Inspects
<1>5. QED
  BY <1>1, <1>2, <1>3, <1>4

LEMMA ValidateInv == Inv /\ Validate => Inv'
<1> SUFFICES ASSUME Inv, Validate PROVE Inv'
  OBVIOUS
<1> USE DEF candidate, inspection, run, result
<1>1. stage = 1 /\ ~bundle /\ pc # "done"
  BY DEF Inv, Place, Validate
<1>2. CASE Inspecting("initial") /\ UNCHANGED result
  <2>1. TypeOK'
    BY <1>2 DEF Inv, TypeOK, Validate, Inspecting, Check
  <2>2. Place' /\ Unchanged' /\ Reported'
    BY <1>1, <1>2 DEF Inv, Place, Unchanged, Reported, Inspects, Validate, Inspecting
  <2>3. Progressed' /\ HiddenTestsAreGuarded' /\ RaisesOnlyWhenCutShort'
    BY <1>1, <1>2 DEF Inv, Progressed, HiddenTestsAreGuarded, RaisesOnlyWhenCutShort, Validate, Inspecting
  <2>4. QED
    BY <2>1, <2>2, <2>3 DEF Inv
<1>3. ASSUME NEW code \in RequestCode, Infrastructure(1, code, None), UNCHANGED inspection
      PROVE  Inv'
  <2>1. code \in Code \ { "SANDBOX_TIMED_OUT", "SANDBOX_MEMORY_LIMIT" }
    BY DEF Code, RequestCode
  <2>2. Blamed(code, None)
    BY <1>1, <1>3, <2>1, Blame DEF Inv
  <2>3. QED
    BY <1>1, <1>3, <2>2, EndInv DEF Blamed, Validate
<1>4. QED
  BY <1>2, <1>3 DEF Validate

LEMMA ExecuteInv == Inv /\ Execute => Inv'
<1> SUFFICES ASSUME Inv, NEW found \in Evidence \cup { None }, NEW code \in SandboxCode \cup { None },
                    found # None \/ code # None, Executed(found, code)
             PROVE  Inv'
  BY DEF Execute, Evidence, SandboxCode
<1> USE DEF candidate, inspection, run, result
<1>1. code \in Code \cup { None } /\ code \notin { "SANDBOX_TIMED_OUT", "SANDBOX_MEMORY_LIMIT" }
  BY DEF Code, SandboxCode
<1>2. /\ pc = "run" /\ stage \in Stage /\ (stage # 3 => ~bundle) /\ outcome = None
      /\ \/ pc' = "first" /\ check' = "after_stage" /\ stage # 3
         \/ pc' = "remove" /\ check' = check /\ stage = 3
  BY DEF Executed, Inspecting, Inv, TypeOK, Stage, Place, Progressed
<1>3. TypeOK'
  BY <1>1, <1>2 DEF Executed, Inspecting, Inv, TypeOK, Check
<1>4. Place' /\ Unchanged'
  BY <1>2 DEF Executed, Inspecting, Place, Unchanged, Inspects
<1>5. Reported'
  BY <1>1, <1>2 DEF Executed, Reported, Inspects, Evidence
<1>6. Progressed' /\ HiddenTestsAreGuarded' /\ RaisesOnlyWhenCutShort'
  BY <1>2 DEF Executed, Inv, Progressed, HiddenTestsAreGuarded, RaisesOnlyWhenCutShort
<1>7. QED
  BY <1>3, <1>4, <1>5, <1>6 DEF Inv

\* The bundle's making and removal.
LEMMA BundleInv == Inv /\ (CreateBundle \/ RemoveBundle \/ RemoveInterrupted) => Inv'
<1> USE DEF candidate, inspection, run, result
<1>1. ASSUME Inv, CreateBundle PROVE Inv'
  <2>1. TypeOK'
    BY ZenonT(60), <1>1 DEF Inv, TypeOK, CreateBundle, Inspecting, Check, Code, BundleCode
  <2>2. Place' /\ Unchanged'
    BY <1>1 DEF Inv, Place, Unchanged, Inspects, CreateBundle, Inspecting, BundleCode
  <2>3. Reported'
    BY <1>1 DEF Inv, Reported, Inspects, CreateBundle, Inspecting, BundleCode
  <2>4. Progressed' /\ HiddenTestsAreGuarded' /\ RaisesOnlyWhenCutShort'
    BY <1>1 DEF Inv, Place, Progressed, HiddenTestsAreGuarded, RaisesOnlyWhenCutShort, CreateBundle, Inspecting
  <2>5. QED
    BY <2>1, <2>2, <2>3, <2>4 DEF Inv
<1>2. ASSUME Inv, RemoveBundle PROVE Inv'
  <2>1. TypeOK'
    BY <1>2 DEF Inv, TypeOK, RemoveBundle, Inspecting, Check
  <2>2. Place' /\ Unchanged' /\ Reported'
    BY <1>2 DEF Inv, Place, Unchanged, Reported, Inspects, RemoveBundle, Inspecting
  <2>3. Progressed' /\ HiddenTestsAreGuarded' /\ RaisesOnlyWhenCutShort'
    BY <1>2 DEF Inv, Place, Progressed, HiddenTestsAreGuarded, RaisesOnlyWhenCutShort, RemoveBundle, Inspecting
  <2>4. QED
    BY <2>1, <2>2, <2>3 DEF Inv
<1>3. ASSUME Inv, RemoveInterrupted PROVE Inv'
  <2>1. TypeOK'
    BY <1>3 DEF Inv, TypeOK, RemoveInterrupted
  <2>2. Place' /\ Unchanged' /\ Reported'
    BY <1>3 DEF Inv, Place, Unchanged, Reported, Inspects, RemoveInterrupted
  <2>3. Progressed' /\ HiddenTestsAreGuarded' /\ RaisesOnlyWhenCutShort'
    BY <1>3 DEF Inv, Place, Progressed, HiddenTestsAreGuarded, RaisesOnlyWhenCutShort, RemoveInterrupted
  <2>4. QED
    BY <2>1, <2>2, <2>3 DEF Inv
<1>4. QED
  BY <1>1, <1>2, <1>3

LEMMA InterruptInv == Inv /\ Interrupt => Inv'
<1> SUFFICES ASSUME Inv, Interrupt PROVE Inv'
  OBVIOUS
<1> USE DEF candidate, inspection, run, result
<1>1. /\ pc # "done" /\ outcome = None
      /\ \/ pc' = "remove_interrupted" /\ stage = 3 /\ outcome' = None
         \/ pc' = "done" /\ outcome' = "interrupted"
      /\ bundle' \in BOOLEAN /\ (bundle' => stage = 3)
  BY DEF Interrupt, Holding, Inv, Place, Progressed, Inspects, TypeOK
<1>2. TypeOK'
  BY <1>1 DEF Inv, TypeOK, Interrupt
<1>3. Place' /\ Unchanged' /\ Reported'
  BY <1>1 DEF Inv, Place, Unchanged, Reported, Inspects, Interrupt
<1>4. Progressed' /\ HiddenTestsAreGuarded' /\ RaisesOnlyWhenCutShort'
  BY <1>1 DEF Inv, Progressed, HiddenTestsAreGuarded, RaisesOnlyWhenCutShort, Interrupt
<1>5. QED
  BY <1>2, <1>3, <1>4 DEF Inv

LEMMA ChangeInv == Inv /\ Change => Inv'
<1> SUFFICES ASSUME Inv, Change PROVE Inv'
  OBVIOUS
<1> USE DEF candidate, inspection, run, result
<1>1. TypeOK'
  BY MaxChangesAssumption DEF Inv, TypeOK, Change
<1>2. Place' /\ Reported'
  BY DEF Inv, Place, Reported, Inspects, Change
<1>3. Unchanged'
  BY MaxChangesAssumption DEF Inv, TypeOK, Unchanged, Change
<1>4. Progressed' /\ HiddenTestsAreGuarded' /\ RaisesOnlyWhenCutShort'
  BY DEF Inv, Progressed, HiddenTestsAreGuarded, RaisesOnlyWhenCutShort, Change
<1>5. QED
  BY <1>1, <1>2, <1>3, <1>4 DEF Inv

LEMMA NextInv == Inv /\ [Next]_vars => Inv'
<1>1. Inv /\ UNCHANGED vars => Inv'
  BY DEF Inv, TypeOK, Place, Progressed, Reported, Unchanged, HiddenTestsAreGuarded, Inspects,
         RaisesOnlyWhenCutShort, vars, candidate, inspection, run, result
<1>2. QED
  BY <1>1, ValidateInv, ExecuteInv, BundleInv, InspectionInv, InterruptInv, ChangeInv DEF Next, Step

-----------------------------------------------------------------------------
(* What a step may do.                                                      *)

\* Only an inspection that passed leads to a verdict on the candidate, and not
\* the first one.
LEMMA VerdictNeedsInspection ==
    ASSUME Inv, NEW ok \in BOOLEAN, Inspects, Conclude(ok), outcome' \in { "PASSED", "CANDIDATE_FAILED" }
    PROVE  ok /\ check # "initial"
<1>0. pc # "done" /\ TypeOK /\ Progressed /\ outcome = None
  BY DEF Inv, Inspects, Progressed
<1>1. ASSUME NEW code \in Code \ { "SANDBOX_TIMED_OUT", "SANDBOX_MEMORY_LIMIT" },
             NEW found \in Evidence \cup { None }, Infrastructure(stage, code, found)
      PROVE  FALSE
  BY <1>0, <1>1, Blame DEF Blamed
<1>2. ASSUME check = "initial" PROVE FALSE
  <2>1. AfterInitial(ok) /\ stage = 1
    BY <1>2 DEF Conclude, Inv, Place
  <2>2. QED
    BY <1>0, <1>1, <2>1 DEF AfterInitial, Code, result
<1>3. ASSUME ~ok PROVE FALSE
  <2>1. CASE check = "after_stage"
    BY <1>0, <1>1, <1>3, <2>1 DEF Conclude, AfterStage, Code, TypeOK
  <2>2. CASE check = "no_bundle"
    <3>1. AfterNoBundle(ok) /\ stage = 3 /\ error \in BundleCode
      BY <2>2 DEF Conclude, Inv, Place, Reported
    <3>2. QED
      BY <1>1, <3>1 DEF AfterNoBundle, Code, BundleCode
  <2>3. CASE check = "before_hidden"
    BY <1>0, <2>3 DEF Conclude, AfterBundle, result
  <2>4. CASE check = "final"
    <3>1. AfterHidden(ok) /\ stage = 3
      BY <2>4 DEF Conclude, Inv, Place
    <3>2. QED
      BY <1>0, <1>1, <1>3, <3>1 DEF AfterHidden, Code, BundleCode, TypeOK
  <2>5. QED
    BY <1>2, <2>1, <2>2, <2>3, <2>4 DEF Conclude
<1>4. QED
  BY <1>2, <1>3

LEMMA StepVerdict ==
    ASSUME Inv, Next, outcome = None, outcome' \in { "PASSED", "CANDIDATE_FAILED" }
    PROVE  changes' = initial /\ ~edited'
<1>1. ~Validate
  <2> SUFFICES ASSUME Validate PROVE FALSE
    OBVIOUS
  <2>1. stage = 1 /\ pc # "done" /\ TypeOK /\ Progressed
    BY DEF Validate, Inv, Place
  <2>2. PICK code \in RequestCode : Infrastructure(1, code, None)
    BY DEF Validate, Inspecting, result
  <2>3. code \in Code \ { "SANDBOX_TIMED_OUT", "SANDBOX_MEMORY_LIMIT" }
    BY DEF Code, RequestCode
  <2>4. QED
    BY <2>1, <2>2, <2>3, Blame DEF Blamed
<1>2. ~CheckFails
  BY VerdictNeedsInspection DEF CheckFails, Inspects
<1>3. ~ReadContent
  BY VerdictNeedsInspection DEF ReadContent, Inspects, result
<1>4. ReadSecond
  BY <1>1, <1>2, <1>3 DEF Next, Step, Execute, Executed, CreateBundle, RemoveBundle, RemoveInterrupted,
     ReadFirst, Interrupt, Change, result
<1>5. first = changes /\ (check = "initial" \/ first = initial) /\ check # "initial"
  BY <1>4, VerdictNeedsInspection DEF ReadSecond, Inspects
<1>6. QED
  BY <1>4, <1>5 DEF ReadSecond, Inv, Unchanged, candidate

LEMMA StepRemoval ==
    ASSUME Inv, Next, pc # "done", pc' = "done", bundle'
    PROVE  cleanup' # "none" \/ check = "no_bundle" \/ pc \in { "bundle", "remove", "remove_interrupted" }
<1>1. CASE CheckFails \/ ReadContent \/ ReadSecond
  <2>1. PICK ok \in BOOLEAN : Inspects /\ Conclude(ok) /\ UNCHANGED << candidate, bundle, cleanup >>
    BY <1>1 DEF CheckFails, ReadContent, ReadSecond, Inspects
  <2>2. CASE check \in { "initial", "after_stage" }
    BY <2>1, <2>2 DEF Inv, Place
  <2>3. CASE check = "before_hidden"
    BY <2>1, <2>3 DEF Conclude, AfterBundle
  <2>4. CASE check = "final"
    BY <2>1, <2>4 DEF Inv, Place
  <2>5. QED
    BY <2>2, <2>3, <2>4 DEF Inv, TypeOK, Check
<1>2. CASE Interrupt
  BY <1>2 DEF Interrupt, Holding, Inv, TypeOK, Check, Stage, Place, Progressed, Inspects
<1>3. CASE Validate
  BY <1>3 DEF Validate, Inv, Place
<1>4. QED
  BY <1>1, <1>2, <1>3 DEF Next, Step, Execute, Executed, Inspecting, CreateBundle, RemoveBundle,
     RemoveInterrupted, ReadFirst, Change

-----------------------------------------------------------------------------
(* The theorems.                                                            *)

\* The inductive invariant.
THEOREM Invariant == Spec => []Inv
  BY InitInv, NextInv, PTL DEF Spec

\* A verdict is one on the candidate that passed the static checks, however often
\* others change it in between.
THEOREM VerdictAlwaysForTheCandidate == Spec => VerdictIsForTheCandidate
<1>1. Inv /\ [Next]_vars =>
        [outcome = None /\ outcome' \in { "PASSED", "CANDIDATE_FAILED" } =>
            changes' = initial /\ ~edited']_vars
  BY StepVerdict
<1>2. QED
  BY <1>1, Invariant, PTL DEF Spec, VerdictIsForTheCandidate

\* No hidden tests before the visible ones passed, and none left without a word.
THEOREM HiddenTestsAlwaysGuarded == Spec => []HiddenTestsAreGuarded
<1>1. Inv => HiddenTestsAreGuarded
  BY DEF Inv
<1>2. QED
  BY <1>1, Invariant, PTL

\* verify's own validators refuse nothing but a run cut short.
THEOREM RaisesOnlyThen == Spec => []RaisesOnlyWhenCutShort
<1>1. Inv => RaisesOnlyWhenCutShort
  BY DEF Inv
<1>2. QED
  BY <1>1, Invariant, PTL

\* Whatever ends verify while the bundle exists, a removal was attempted.
THEOREM RemovalAlwaysAttempted == Spec => RemovalIsAttempted
<1>1. Inv /\ [Next]_vars =>
        [pc # "done" /\ pc' = "done" /\ bundle' =>
         \/ cleanup' # "none" \/ check = "no_bundle"
         \/ pc \in { "bundle", "remove", "remove_interrupted" }]_vars
  BY StepRemoval
<1>2. QED
  BY <1>1, Invariant, PTL DEF Spec, RemovalIsAttempted

(***************************************************************************)
(* verify over its runner.                                                  *)
(***************************************************************************)

\* The steps at which the runner has learnt nothing of the container's end yet.
Early == { "info", "create", "start", "attached", "raced_inspect", "kill", "wait" }

\* As in SandboxRunnerProofs: the evidence that is being made is about this container.
Founded ==
    /\ completion = None /\ step = "inspect" =>
           ~container.killed /\ exit_code = container.code /\ container.state # "running"
    /\ completion = "NORMAL" =>
           /\ ~container.killed /\ ~container.oom /\ exit_code = container.code
           /\ container.state # "running"

\* What is not yet.
Untouched ==
    /\ step \in { "info", "create" } => container = Runner!NoContainer /\ ~created
    /\ step \in Early => ~container.killed /\ completion = None /\ exit_code = Runner!NoCode
    /\ step = "inspect" => completion \in { None, "TIMED_OUT" }
    /\ step \notin { "rm", "done" } => ~process_control

Control ==
    /\ step \notin { "info", "create", "rm", "done" } => created
    /\ step \notin { "rm", "done" } => primary = None
    /\ step = "rm" /\ primary = None /\ ~process_control => completion # None /\ created
    /\ (step = "done") <=> (ended # None)

Ended ==
    /\ ended = "evidence" => completion # None /\ container.state = "absent"
    /\ InterruptIsKept /\ KnownContainerIsRemoved

RunnerInv == Runner!TypeOK /\ Untouched /\ Control /\ Founded /\ Ended

USE DEF Runner!None, None, Runner!NoCode, Runner!StartFailure, Runner!KillCode

-----------------------------------------------------------------------------
(* The container.                                                           *)

LEMMA EffectTyped ==
    ASSUME NEW call, container \in Runner!Container
    PROVE  Runner!Effect(call) \in Runner!Container
<1>1. [container EXCEPT !.state = "created"] \in Runner!Container
  BY DEF Runner!Container
<1>2. [container EXCEPT !.state = "running", !.ran = TRUE] \in Runner!Container
  BY DEF Runner!Container
<1>3. [container EXCEPT !.state = "exited", !.code = Runner!KillCode, !.killed = TRUE] \in Runner!Container
  BY ZenonT(60) DEF Runner!Container
<1>4. [container EXCEPT !.state = "absent", !.killed = @ \/ container.state = "running"] \in Runner!Container
  BY ZenonT(60) DEF Runner!Container
<1>5. QED
  BY <1>1, <1>2, <1>3, <1>4 DEF Runner!Effect

LEMMA CallTyped ==
    ASSUME NEW call, container \in Runner!Container, Runner!Unanswered(call)
    PROVE  container' \in Runner!Container
  BY EffectTyped DEF Runner!Unanswered, Runner!Answered

LEMMA RefusedTyped ==
    ASSUME container \in Runner!Container, Runner!StartRefused
    PROVE  container' \in Runner!Container
  BY DEF Runner!StartRefused, Runner!Container

LEMMA EndsTyped ==
    ASSUME container \in Runner!Container, Runner!Ends
    PROVE  container' \in Runner!Container
<1>1. PICK code \in ExitCodes, oom \in BOOLEAN :
          container' = [container EXCEPT !.state = "exited", !.code = code, !.oom = oom]
  BY DEF Runner!Ends
<1>2. QED
  BY <1>1 DEF Runner!Container

\* What happened to a container before its removal can still be told after it.
Kept ==
    /\ container'.code = container.code /\ container'.oom = container.oom
    /\ container.killed => container'.killed
    /\ container.state # "running" =>
           container'.state # "running" /\ container'.killed = container.killed

LEMMA RmKeeps ==
    ASSUME container \in Runner!Container, Runner!Unanswered("rm")
    PROVE  Kept
<1>1. CASE container' = container
  BY <1>1 DEF Kept
<1>2. CASE container' = [container EXCEPT !.state = "absent", !.killed = @ \/ container.state = "running"]
  BY <1>2 DEF Kept, Runner!Container
<1>3. QED
  BY <1>1, <1>2 DEF Runner!Unanswered, Runner!Answered, Runner!Effect

-----------------------------------------------------------------------------
(* The runner.                                                              *)

LEMMA StartsAfresh == Runner!Init => RunnerInv
<1> SUFFICES ASSUME Runner!Init PROVE RunnerInv
  OBVIOUS
<1> USE DEF Runner!Init
<1>1. Runner!NoContainer \in Runner!Container
  BY DEF Runner!NoContainer, Runner!Container
<1>2. Runner!TypeOK
  BY <1>1 DEF Runner!TypeOK, Runner!Call
<1>3. Untouched /\ Control
  BY DEF Untouched, Control, Early, Runner!NoContainer
<1>4. Founded /\ Ended
  BY DEF Founded, Ended, InterruptIsKept, KnownContainerIsRemoved, Runner!InterruptIsKept,
         Runner!KnownContainerIsRemoved
<1>5. QED
  BY <1>2, <1>3, <1>4 DEF RunnerInv

\* Nothing has ended yet, and no interrupt has come.
LEMMA Underway ==
    ASSUME RunnerInv, step \notin { "rm", "done" }, UNCHANGED << process_control, ended >>
    PROVE  Ended'
<1>1. ended = None /\ ~process_control
  BY DEF RunnerInv, Untouched, Control, Runner!TypeOK
<1>2. QED
  BY <1>1 DEF Ended, InterruptIsKept, KnownContainerIsRemoved, Runner!InterruptIsKept,
              Runner!KnownContainerIsRemoved

LEMMA RunnerStepInv ==
    ASSUME NEW fails \in BOOLEAN, RunnerInv, Runner!Step(fails)
    PROVE  RunnerInv'
<1> USE DEF Runner!Proceed, Runner!Finish
<1>0. Runner!TypeOK /\ Untouched /\ Control /\ Founded /\ Ended /\ container \in Runner!Container
  BY DEF RunnerInv, Runner!TypeOK
<1>1. CASE Runner!Info(fails)
  <2>1. Runner!TypeOK'
    BY <1>0, <1>1 DEF Runner!Info, Runner!TypeOK, Runner!Call, Runner!ErrorCode
  <2>2. Untouched'
    BY <1>0, <1>1 DEF Runner!Info, Untouched, Early
  <2>3. Control'
    BY <1>0, <1>1 DEF Runner!Info, Control
  <2>4. Founded'
    BY <1>0, <1>1 DEF Runner!Info, Untouched, Founded, Early
  <2>5. Ended'
    BY <1>0, <1>1 DEF Runner!Info, Untouched, Ended, InterruptIsKept, KnownContainerIsRemoved,
       Runner!InterruptIsKept, Runner!KnownContainerIsRemoved
  <2>6. QED
    BY <2>1, <2>2, <2>3, <2>4, <2>5 DEF RunnerInv
<1>2. CASE Runner!Create(fails)
  <2>1. container' \in Runner!Container /\ ~container'.killed
    <3>1. container = Runner!NoContainer
      BY <1>0, <1>2 DEF Runner!Create, Untouched
    <3>2. QED
      BY <1>0, <1>2, <3>1, CallTyped DEF Runner!Create, Runner!Fail, Runner!Unanswered, Runner!Answered,
         Runner!Effect, Runner!NoContainer
  <2>4. Runner!TypeOK'
    <3>1. CASE fails
      BY <1>0, <1>2, <2>1, <3>1 DEF Runner!Create, Runner!Fail, Runner!TypeOK, Runner!Call, Runner!ErrorCode
    <3>2. CASE ~fails
      BY <1>0, <1>2, <2>1, <3>2 DEF Runner!Create, Runner!TypeOK, Runner!Call
    <3>3. QED
      BY <3>1, <3>2
  <2>5. Untouched'
    BY <1>0, <1>2, <2>1 DEF Runner!Create, Runner!Fail, Untouched, Early
  <2>6. Control'
    BY <1>0, <1>2, <2>1 DEF Runner!Create, Runner!Fail, Control
  <2>7. Founded'
    BY <1>0, <1>2 DEF Runner!Create, Runner!Fail, Untouched, Founded, Early
  <2>8. Ended'
    BY <1>2, Underway DEF Runner!Create, Runner!Fail, Runner!Proceed, Runner!Deadline
  <2>9. QED
    BY <2>4, <2>5, <2>6, <2>7, <2>8 DEF RunnerInv
<1>3. CASE Runner!Start(fails)
  <2>1. container' \in Runner!Container
    BY <1>0, <1>3, CallTyped, RefusedTyped DEF Runner!Start, Runner!Fail, Runner!Unanswered
  <2>2. ~container.killed
    BY <1>0, <1>3 DEF Runner!Start, Untouched, Early
  <2>3. ~container'.killed
    BY ZenonT(60), <1>0, <1>3, <2>2 DEF Runner!Start, Runner!Fail, Runner!StartRefused, Runner!Unanswered, Runner!Answered,
                            Runner!Effect, Runner!Container
  <2>4. Runner!TypeOK'
    BY <1>0, <1>3, <2>1 DEF Runner!Start, Runner!Fail, Runner!Deadline, Runner!TypeOK, Runner!Call, Runner!ErrorCode
  <2>5. Untouched'
    BY <1>0, <1>3, <2>3 DEF Runner!Start, Runner!Fail, Runner!Deadline, Untouched, Early
  <2>6. Control'
    BY <1>0, <1>3, <2>3 DEF Runner!Start, Runner!Fail, Runner!Deadline, Control
  <2>7. Founded'
    BY <1>0, <1>3 DEF Runner!Start, Runner!Fail, Runner!Deadline, Untouched, Founded, Early
  <2>8. Ended'
    BY <1>3, Underway DEF Runner!Start, Runner!Fail, Runner!Proceed, Runner!Deadline
  <2>9. QED
    BY <2>4, <2>5, <2>6, <2>7, <2>8 DEF RunnerInv
<1>4. CASE Runner!Attached(fails)
  <2>4. Runner!TypeOK'
    BY <1>0, <1>4 DEF Runner!Attached, Runner!Deadline, Runner!TypeOK, Runner!Call
  <2>5. Untouched'
    BY <1>0, <1>4 DEF Runner!Attached, Runner!Deadline, Untouched, Early
  <2>6. Control'
    BY <1>0, <1>4 DEF Runner!Attached, Runner!Deadline, Control
  <2>7. Founded'
    BY <1>0, <1>4 DEF Runner!Attached, Runner!Deadline, Untouched, Founded, Early
  <2>8. Ended'
    BY <1>4, Underway DEF Runner!Attached, Runner!Fail, Runner!Proceed, Runner!Deadline
  <2>9. QED
    BY <2>4, <2>5, <2>6, <2>7, <2>8 DEF RunnerInv
<1>5. CASE Runner!RacedInspect(fails)
  <2>1. container' = container
    BY <1>5 DEF Runner!RacedInspect, Runner!Fail, Runner!Unanswered, Runner!Answered, Runner!Effect
  <2>4. Runner!TypeOK'
    BY <1>0, <1>5, <2>1 DEF Runner!RacedInspect, Runner!Fail, Runner!TypeOK, Runner!Call, Runner!ErrorCode
  <2>5. Untouched'
    BY <1>0, <1>5, <2>1 DEF Runner!RacedInspect, Runner!Fail, Untouched, Early
  <2>6. Control'
    BY <1>0, <1>5, <2>1 DEF Runner!RacedInspect, Runner!Fail, Control
  <2>7. Founded'
    BY <1>0, <1>5, <2>1 DEF Runner!RacedInspect, Runner!Fail, Untouched, Founded, Early
  <2>8. Ended'
    BY <1>5, Underway DEF Runner!RacedInspect, Runner!Fail, Runner!Proceed, Runner!Deadline
  <2>9. QED
    BY <2>4, <2>5, <2>6, <2>7, <2>8 DEF RunnerInv
<1>6. CASE Runner!Kill(fails)
  <2>1. container' \in Runner!Container
    BY <1>0, <1>6, CallTyped DEF Runner!Kill, Runner!Fail, Runner!Unanswered
  <2>2. container'.killed \/ step' = "rm"
    BY <1>0, <1>6 DEF Runner!Kill, Runner!Fail, Runner!Answered, Runner!Effect, Runner!Container
  <2>4. Runner!TypeOK'
    BY <1>0, <1>6, <2>1 DEF Runner!Kill, Runner!Fail, Runner!TypeOK, Runner!Call, Runner!ErrorCode
  <2>5. Untouched'
    BY <1>0, <1>6 DEF Runner!Kill, Runner!Fail, Untouched, Early
  <2>6. Control'
    BY <1>0, <1>6 DEF Runner!Kill, Runner!Fail, Control
  <2>7. Founded'
    BY <1>0, <1>6, <2>2 DEF Runner!Kill, Runner!Fail, Untouched, Founded, Early
  <2>8. Ended'
    BY <1>6, Underway DEF Runner!Kill, Runner!Fail, Runner!Proceed, Runner!Deadline
  <2>9. QED
    BY <2>4, <2>5, <2>6, <2>7, <2>8 DEF RunnerInv
<1>7. CASE Runner!Wait(fails)
  <2>1. container' = container
    BY <1>7 DEF Runner!Wait, Runner!Fail, Runner!Unanswered, Runner!Answered, Runner!Effect
  <2>2. container.code \in ExitCodes \cup { 0, Runner!StartFailure, Runner!KillCode }
    BY <1>0 DEF Runner!Container
  <2>3. step' = "inspect" => container.state # "running" /\ ~container.killed
    BY <1>0, <1>7 DEF Runner!Wait, Runner!Fail, Runner!Answered, Runner!Possible, Untouched, Early
  <2>4. Runner!TypeOK'
    BY <1>0, <1>7, <2>1, <2>2 DEF Runner!Wait, Runner!Fail, Runner!TypeOK, Runner!Call, Runner!ErrorCode
  <2>5. Untouched'
    BY <1>0, <1>7, <2>1 DEF Runner!Wait, Runner!Fail, Untouched, Early
  <2>6. Control'
    BY <1>0, <1>7, <2>1 DEF Runner!Wait, Runner!Fail, Control
  <2>7. Founded'
    BY <1>0, <1>7, <2>1, <2>3 DEF Runner!Wait, Runner!Fail, Untouched, Founded, Early
  <2>8. Ended'
    BY <1>7, Underway DEF Runner!Wait, Runner!Fail, Runner!Proceed, Runner!Deadline
  <2>9. QED
    BY <2>4, <2>5, <2>6, <2>7, <2>8 DEF RunnerInv
<1>8. CASE Runner!Inspect(fails)
  <2>1. container' = container
    BY <1>8 DEF Runner!Inspect, Runner!Fail, Runner!Unanswered, Runner!Answered, Runner!Effect
  <2>4. Runner!TypeOK'
    BY <1>0, <1>8, <2>1 DEF Runner!Inspect, Runner!Fail, Runner!TypeOK, Runner!Call, Runner!ErrorCode
  <2>5. Untouched'
    BY <1>0, <1>8, <2>1 DEF Runner!Inspect, Runner!Fail, Untouched, Early
  <2>6. Control'
    BY <1>0, <1>8, <2>1 DEF Runner!Inspect, Runner!Fail, Control
  <2>7. Founded'
    BY <1>0, <1>8, <2>1 DEF Runner!Inspect, Runner!Fail, Untouched, Founded
  <2>8. Ended'
    BY <1>8, Underway DEF Runner!Inspect, Runner!Fail, Runner!Proceed, Runner!Deadline
  <2>9. QED
    BY <2>4, <2>5, <2>6, <2>7, <2>8 DEF RunnerInv
<1>9. CASE Runner!Rm(fails)
  <2>1. container' \in Runner!Container /\ Kept
    BY <1>0, <1>9, CallTyped, RmKeeps DEF Runner!Rm, Runner!Unanswered, Kept
  <2>2. created /\ ~fails => container'.state = "absent"
    BY <1>0, <1>9 DEF Runner!Rm, Runner!Answered, Runner!Effect, Runner!Container
  <2>3. /\ step = "rm" /\ step' = "done" /\ UNCHANGED << created, exit_code, completion, primary, process_control >>
        /\ ended' = (IF created /\ fails
                     THEN IF process_control THEN "interrupted" ELSE "CLEANUP_FAILED" ELSE Runner!Ending)
    BY <1>9 DEF Runner!Rm
  <2>4. Runner!TypeOK'
    BY <1>0, <2>1, <2>3 DEF Runner!TypeOK, Runner!Call, Runner!ErrorCode, Runner!Ending
  <2>5. ended' # None
    BY <1>0, <2>3 DEF Runner!TypeOK, Runner!ErrorCode, Runner!Ending
  <2>6. Untouched' /\ Control'
    BY <1>0, <2>3, <2>5 DEF Untouched, Control, Early
  <2>7. Founded'
    <3>1. container.killed => container'.killed
      BY <1>0, <1>9, RmKeeps DEF Runner!Rm, Runner!Unanswered, Kept
    <3>2. QED
      BY <1>0, <2>1, <2>3, <3>1 DEF Founded, Kept, Runner!TypeOK
  <2>8. Ended'
    BY <1>0, <2>2, <2>3 DEF Control, Ended, InterruptIsKept, KnownContainerIsRemoved, Runner!TypeOK,
       Runner!InterruptIsKept, Runner!KnownContainerIsRemoved, Runner!Ending, Runner!ErrorCode
  <2>9. QED
    BY <2>4, <2>6, <2>7, <2>8 DEF RunnerInv
<1>10. QED
  BY <1>1, <1>2, <1>3, <1>4, <1>5, <1>6, <1>7, <1>8, <1>9 DEF Runner!Step

LEMMA RunnerInterruptInv == RunnerInv /\ Runner!Interrupt => RunnerInv'
<1> SUFFICES ASSUME RunnerInv, Runner!Interrupt PROVE RunnerInv'
  OBVIOUS
<1>1. Runner!TypeOK'
  BY CallTyped DEF RunnerInv, Runner!TypeOK, Runner!Interrupt, Runner!Finish, Runner!Call
<1>2. completion # None => Kept
  <2>1. completion # None => step \in { "inspect", "rm" }
    BY DEF RunnerInv, Runner!TypeOK, Untouched, Control, Early, Runner!Call, Runner!Interrupt
  <2>2. step = "inspect" => container' = container
    BY DEF Runner!Interrupt, Runner!CallOf, Runner!Unanswered, Runner!Answered, Runner!Effect
  <2>3. step = "rm" => Runner!Unanswered("rm")
    BY DEF Runner!Interrupt, Runner!CallOf
  <2>4. QED
    BY <2>1, <2>2, <2>3, RmKeeps DEF RunnerInv, Runner!TypeOK, Kept
<1>3. step = "info" => container' = container
  BY DEF Runner!Interrupt, Runner!CallOf, Runner!Unanswered, Runner!Answered, Runner!Effect
<1>4. Untouched'
  BY <1>3 DEF RunnerInv, Untouched, Runner!Interrupt, Runner!Finish, Early
<1>5. Control'
  BY DEF RunnerInv, Control, Runner!Interrupt, Runner!Finish, Runner!TypeOK, Runner!Call
<1>6. Founded'
  BY <1>2 DEF RunnerInv, Founded, Runner!Interrupt, Runner!Finish, Runner!TypeOK, Kept
<1>7. Ended'
  BY DEF RunnerInv, Control, Ended, InterruptIsKept, KnownContainerIsRemoved, Runner!InterruptIsKept,
         Runner!KnownContainerIsRemoved, Runner!Interrupt, Runner!Finish
<1>8. QED
  BY <1>1, <1>4, <1>5, <1>6, <1>7 DEF RunnerInv

LEMMA TestsEndInv == RunnerInv /\ Runner!ContainerEnds => RunnerInv'
<1> SUFFICES ASSUME RunnerInv, Runner!ContainerEnds PROVE RunnerInv'
  OBVIOUS
<1>1. container' \in Runner!Container
  BY EndsTyped DEF RunnerInv, Runner!TypeOK, Runner!ContainerEnds
<1>2. container.state = "running" /\ container'.killed = container.killed
  BY DEF Runner!ContainerEnds, Runner!Ends, RunnerInv, Runner!TypeOK, Runner!Container
<1>3. QED
  BY <1>1, <1>2 DEF RunnerInv, Runner!TypeOK, Untouched, Control, Founded, Ended, InterruptIsKept,
     KnownContainerIsRemoved, Runner!InterruptIsKept, Runner!KnownContainerIsRemoved,
     Runner!ContainerEnds, Runner!NoContainer, Runner!Call, Early

-----------------------------------------------------------------------------
(* verify over its runner.                                                  *)

LEMMA VerifyInitInv == VerifyInit => RunnerInv
  BY StartsAfresh DEF VerifyInit

LEMMA FreshInv == Fresh => RunnerInv'
<1>1. Fresh => Runner!Init'
  BY DEF Fresh, Runner!Init, Runner!NoContainer
<1>2. QED
  BY <1>1, StartsAfresh, PTL

\* Between two runs the runner is left alone, and the next one starts afresh.
LEMMA VerifyStepInv == RunnerInv /\ [VerifyNext]_<< service, runner >> => RunnerInv'
<1> SUFFICES ASSUME RunnerInv, [VerifyNext]_<< service, runner >> PROVE RunnerInv'
  OBVIOUS
<1>1. ASSUME NEW fails \in BOOLEAN, RunnerStep(fails) PROVE RunnerInv'
  BY <1>1, RunnerStepInv DEF RunnerStep
<1>2. CASE RunnerInterrupt
  BY <1>2, RunnerInterruptInv DEF RunnerInterrupt
<1>3. CASE TestsEnd
  BY <1>3, TestsEndInv DEF TestsEnd
<1>4. CASE RunnerReturns
  <2>1. Fresh
    BY <1>4 DEF RunnerReturns
  <2>2. QED
    BY <2>1, FreshInv
<1>5. CASE UNCHANGED runner
  BY <1>5 DEF runner, RunnerInv, Runner!TypeOK, Untouched, Control, Founded, Ended, InterruptIsKept,
     KnownContainerIsRemoved, Runner!InterruptIsKept, Runner!KnownContainerIsRemoved
<1>6. QED
  BY <1>1, <1>2, <1>3, <1>4, <1>5 DEF VerifyNext, Progress, ServiceStep, ServiceInterrupt, Changed

LEMMA VerifyInvariant == VerifySpec => []RunnerInv
  BY VerifyInitInv, VerifyStepInv, PTL DEF VerifySpec

\* Whatever the runner answers, verify expects it.
LEMMA AnswerIsExpected ==
    ASSUME RunnerInv, RunnerReturns
    PROVE  Next
<1>1. CASE ended = "interrupted"
  BY <1>1 DEF RunnerReturns, Next
<1>2. CASE ended = "evidence"
  <2>1. completion \in { "NORMAL", "TIMED_OUT", "MEMORY_LIMIT" }
    BY <1>2 DEF RunnerInv, Ended, Runner!TypeOK
  <2>2. Observed \in Evidence
    BY <2>1 DEF Observed, Evidence
  <2>3. QED
    BY <1>2, <2>2 DEF RunnerReturns, Next, Step, Execute
<1>3. CASE ended \notin { "interrupted", "evidence" }
  <2>1. Diagnosed \in SandboxCode
    BY DEF Diagnosed, SandboxCode
  <2>2. QED
    BY <1>3, <2>1 DEF RunnerReturns, Next, Step, Execute
<1>4. QED
  BY <1>1, <1>2, <1>3

LEMMA StepImplements == RunnerInv /\ [VerifyNext]_<< service, runner >> => [Next]_vars
<1> SUFFICES ASSUME RunnerInv, [VerifyNext]_<< service, runner >> PROVE Next \/ UNCHANGED vars
  OBVIOUS
<1>1. CASE RunnerReturns
  BY <1>1, AnswerIsExpected
<1>2. CASE ServiceStep \/ ServiceInterrupt \/ Changed
  BY <1>2 DEF ServiceStep, ServiceInterrupt, Changed, Next
<1>3. CASE UNCHANGED service
  BY <1>3 DEF service, vars, candidate
<1>4. QED
  BY <1>1, <1>2, <1>3 DEF VerifyNext, Progress, RunnerStep, RunnerInterrupt, TestsEnd

-----------------------------------------------------------------------------
(* The theorems.                                                            *)

\* verify over its runner implements verify over any runner.
THEOREM Implements == VerifySpec => ImplementsService
<1>1. VerifyInit => Init
  BY DEF VerifyInit
<1>2. QED
  BY <1>1, StepImplements, VerifyInvariant, PTL DEF VerifySpec, ImplementsService, Spec

\* A stage passes or fails by its own container, which is gone by then.
THEOREM StageAlwaysTheContainers == VerifySpec => []StageIsTheContainers
<1>1. RunnerInv => StageIsTheContainers
  BY DEF RunnerInv, Founded, Ended, StageIsTheContainers, Runner!StageIsTheContainers, Runner!StageStatus
<1>2. QED
  BY <1>1, VerifyInvariant, PTL

\* An interrupt in a runner gets through.
THEOREM InterruptAlwaysKept == VerifySpec => []InterruptIsKept
<1>1. RunnerInv => InterruptIsKept
  BY DEF RunnerInv, Ended
<1>2. QED
  BY <1>1, VerifyInvariant, PTL

\* No error hides a container that is still there.
THEOREM KnownContainerAlwaysRemoved == VerifySpec => []KnownContainerIsRemoved
<1>1. RunnerInv => KnownContainerIsRemoved
  BY DEF RunnerInv, Ended
<1>2. QED
  BY <1>1, VerifyInvariant, PTL

\* So the service's theorems hold of verify over its runner.
THEOREM VerifyKeepsItsPromises ==
    VerifySpec => /\ VerdictIsForTheCandidate /\ RemovalIsAttempted
                  /\ [](HiddenTestsAreGuarded /\ RaisesOnlyWhenCutShort)
  BY Implements, VerdictAlwaysForTheCandidate, RemovalAlwaysAttempted, HiddenTestsAlwaysGuarded, RaisesOnlyThen,
     PTL DEF ImplementsService
=============================================================================
