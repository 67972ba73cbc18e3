------------------------- MODULE SandboxRunnerProofs -------------------------
(***************************************************************************)
(* Proofs about SandboxRunner, for every set of exit codes.  The verdict is *)
(* no inductive invariant: what it says of a returned result has to hold,   *)
(* for the container as it is then, from the moment docker wait or the kill *)
(* was answered.                                                            *)
(***************************************************************************)
EXTENDS SandboxRunner, TLAPS

\* The steps at which the runner has learnt nothing of the container's end yet.
Early == { "info", "create", "start", "attached", "raced_inspect", "kill", "wait" }

\* The result that is being made is about this container.
Founded ==
    /\ completion = None /\ pc = "inspect" =>
           ~container.killed /\ exit_code = container.code /\ container.state # "running"
    /\ completion = "NORMAL" =>
           /\ ~container.killed /\ ~container.oom /\ exit_code = container.code
           /\ container.state # "running"
    /\ completion = "TIMED_OUT" => container.killed /\ exit_code = NoCode

Control ==
    /\ pc \in { "info", "create" } => container = NoContainer
    /\ pc \in Early => ~container.killed /\ completion = None /\ exit_code = NoCode
    /\ pc = "inspect" => completion \in { None, "TIMED_OUT" }
    /\ pc = "done" <=> outcome # None
    /\ outcome = "returned" => completion # None

Inv == TypeOK /\ Control /\ Founded

USE DEF None, NoCode, StartFailure, KillCode

\* What a call makes of a container is one.
LEMMA EffectTyped ==
    ASSUME NEW call, container \in Container
    PROVE  Effect(call) \in Container
<1>1. [container EXCEPT !.state = "created"] \in Container
  BY DEF Container
<1>2. [container EXCEPT !.state = "running", !.ran = TRUE] \in Container
  BY DEF Container
<1>3. [container EXCEPT !.state = "exited", !.code = KillCode, !.killed = TRUE] \in Container
  BY ZenonT(60) DEF Container
<1>4. [container EXCEPT !.state = "absent", !.killed = @ \/ container.state = "running"] \in Container
  BY ZenonT(60) DEF Container
<1>5. QED
  BY <1>1, <1>2, <1>3, <1>4 DEF Effect

LEMMA InitInv == Init => Inv
<1>1. NoContainer \in Container
  BY DEF NoContainer, Container
<1>2. Init => TypeOK
  BY <1>1 DEF Init, TypeOK, Call
<1>3. Init => Control
  BY DEF Init, Control, Early, NoContainer
<1>4. Init => Founded
  BY DEF Init, Founded
<1>5. QED
  BY <1>2, <1>3, <1>4 DEF Inv

LEMMA CallTyped ==
    ASSUME NEW call, container \in Container, Unanswered(call)
    PROVE  container' \in Container
  BY EffectTyped DEF Unanswered, Answered

\* The step of the daemon that no answer tells of.
LEMMA RefusedTyped == container \in Container /\ StartRefused => container' \in Container
  BY DEF StartRefused, Container

LEMMA EndsTyped ==
    ASSUME container \in Container, Ends
    PROVE  container' \in Container
<1>1. PICK code \in ExitCodes, oom \in BOOLEAN :
          container' = [container EXCEPT !.state = "exited", !.code = code, !.oom = oom]
  BY DEF Ends
<1>2. QED
  BY <1>1 DEF Container

LEMMA StepTyped ==
    ASSUME NEW fails \in BOOLEAN, container \in Container, Step(fails)
    PROVE  container' \in Container
  BY CallTyped, RefusedTyped DEF Step, Info, Create, Start, Attached, RacedInspect, Kill, Wait,
     Inspect, Rm, Fail, Deadline, Proceed, Unanswered

\* What happened to a container before its removal can still be told after it.
Kept ==
    /\ container'.code = container.code /\ container'.oom = container.oom
    /\ container.killed => container'.killed
    /\ container.state # "running" =>
           container'.state # "running" /\ container'.killed = container.killed

LEMMA RmKeeps ==
    ASSUME container \in Container, Unanswered("rm")
    PROVE  Kept
<1>1. CASE container' = container
  BY <1>1 DEF Kept
<1>2. CASE container' = [container EXCEPT !.state = "absent", !.killed = @ \/ container.state = "running"]
  BY <1>2 DEF Kept, Container
<1>3. QED
  BY <1>1, <1>2 DEF Unanswered, Answered, Effect

LEMMA StepInv ==
    ASSUME NEW fails \in BOOLEAN, Inv, Step(fails)
    PROVE  Inv'
<1> USE DEF Inv, TypeOK, Control, Founded, Call, Early, Proceed, Finish
<1>0. container' \in Container
  BY StepTyped
<1>a. container.code \in ExitCodes \cup { 0, StartFailure, KillCode }
  BY DEF Container
<1>1. CASE Info(fails)
  BY <1>0, <1>1 DEF Info
<1>2. CASE Create(fails)
  BY <1>0, <1>2 DEF Create, Fail, Unanswered, Answered, Possible, Effect, NoContainer
<1>3. CASE Start(fails)
  BY ZenonT(60), <1>0, <1>3 DEF Start, Fail, Deadline, StartRefused, Unanswered, Answered, Possible, Effect, Container
<1>4. CASE Attached(fails)
  BY <1>0, <1>4 DEF Attached, Deadline
<1>5. CASE RacedInspect(fails)
  BY <1>0, <1>5 DEF RacedInspect, Fail, Unanswered, Answered, Possible, Effect
<1>6. CASE Kill(fails)
  BY ZenonT(60), <1>0, <1>6 DEF Kill, Fail, Unanswered, Answered, Possible, Effect, Container
<1>7. CASE Wait(fails)
  BY <1>0, <1>a, <1>7 DEF Wait, Fail, Unanswered, Answered, Possible, Effect
<1>8. CASE Inspect(fails)
  BY <1>0, <1>8 DEF Inspect, Unanswered, Answered, Possible, Effect
<1>9. CASE Rm(fails)
  <2>1. Kept
    BY <1>9, RmKeeps DEF Rm, Unanswered
  <2>2. TypeOK'
    BY <1>0, <1>9 DEF Rm
  <2>3. Control'
    BY <1>9 DEF Rm
  <2>4. Founded'
    BY <1>9, <2>1 DEF Rm, Kept
  <2>5. QED
    BY <2>2, <2>3, <2>4
<1>10. QED
  BY <1>1, <1>2, <1>3, <1>4, <1>5, <1>6, <1>7, <1>8, <1>9, Step(fails) DEF Step

LEMMA InterruptInv == Inv /\ Interrupt => Inv'
<1> SUFFICES ASSUME Inv, Interrupt PROVE Inv'
  OBVIOUS
<1>1. container' \in Container
  BY CallTyped DEF Inv, TypeOK, Interrupt
<1>2. pc = "info" => container' = container
  BY DEF Interrupt, CallOf, Unanswered, Answered, Effect
<1>3. TypeOK'
  BY <1>1 DEF Inv, TypeOK, Interrupt, Finish, Call
<1>4. Control'
  BY <1>2 DEF Inv, Control, Interrupt, Finish, Early, TypeOK, Call
<1>5. completion # None => Kept
  <2>1. completion # None => pc \in { "inspect", "rm", "done" }
    BY DEF Inv, Control, TypeOK, Call, Early
  <2>2. pc = "inspect" => container' = container
    BY DEF Interrupt, CallOf, Unanswered, Answered, Effect
  <2>3. pc = "rm" => Unanswered("rm")
    BY DEF Interrupt, CallOf
  <2>4. QED
    BY <2>1, <2>2, <2>3, RmKeeps DEF Inv, TypeOK, Interrupt, Kept
<1>6. Founded'
  BY <1>5 DEF Inv, Founded, Interrupt, Finish, TypeOK, Kept
<1>7. QED
  BY <1>3, <1>4, <1>6 DEF Inv

LEMMA EndsInv == Inv /\ ContainerEnds => Inv'
<1> SUFFICES ASSUME Inv, ContainerEnds PROVE Inv'
  OBVIOUS
<1>1. container' \in Container
  BY EndsTyped DEF Inv, TypeOK, ContainerEnds
<1>2. container.state = "running" /\ container'.killed = container.killed
  BY DEF ContainerEnds, Ends, Inv, TypeOK, Container
<1>3. QED
  BY <1>1, <1>2 DEF Inv, TypeOK, Control, Founded, ContainerEnds, NoContainer, Call, Early

LEMMA NextInv == Inv /\ [Next]_vars => Inv'
<1>1. Inv /\ UNCHANGED vars => Inv'
  BY DEF Inv, TypeOK, Control, Founded, vars
<1>2. QED
  BY <1>1, StepInv, InterruptInv, EndsInv DEF Next

\* The inductive invariant.
THEOREM Invariant == Spec => []Inv
  BY InitInv, NextInv, PTL DEF Spec

\* The runner's variables are well typed.
THEOREM TypeCorrect == Spec => []TypeOK
<1>1. Inv => TypeOK
  BY DEF Inv
<1>2. QED
  BY <1>1, Invariant, PTL

\* A baseline verdict is the container's own, for any exit code the tests can have.
THEOREM VerdictAlwaysTheContainers == Spec => []VerdictIsTheContainers
<1>1. Inv => VerdictIsTheContainers
  BY DEF Inv, TypeOK, Control, Founded, VerdictIsTheContainers, BaselineVerdict
<1>2. QED
  BY <1>1, Invariant, PTL

\* However execute ends, the container is gone or the caller is told.
THEOREM NothingIsLeftBehind == Spec => NothingLeftBehind
<1>1. Inv /\ [Next]_vars =>
        [outcome = None /\ outcome' # None /\ container'.state # "absent" =>
            pc = "rm" /\ outcome' \in { "cleanup_error", "interrupted" }]_vars
  <2> SUFFICES ASSUME Inv, Next, outcome = None, outcome' # None, container'.state # "absent"
               PROVE  pc = "rm" /\ outcome' \in { "cleanup_error", "interrupted" }
    BY DEF vars
  <2>1. ASSUME NEW fails \in BOOLEAN, Step(fails)
        PROVE  pc = "rm" /\ outcome' = "cleanup_error"
    <3>1. CASE Info(fails)
      BY <3>1 DEF Info, Inv, Control, NoContainer, Finish
    <3>2. CASE Rm(fails)
      BY <3>2 DEF Rm, Inv, TypeOK, Container, Answered, Possible, Effect, Finish
    <3>3. QED
      BY <2>1, <3>1, <3>2 DEF Step, Create, Start, Attached, RacedInspect, Kill, Wait, Inspect,
                              Proceed, Fail, Deadline
  <2>2. CASE Interrupt
    BY <2>2 DEF Interrupt, Inv, Control, Finish, NoContainer, CallOf, Unanswered, Answered, Effect
  <2>3. QED
    BY <2>1, <2>2 DEF Next, ContainerEnds
<1>2. QED
  BY <1>1, Invariant, PTL DEF Spec, NothingLeftBehind
=============================================================================
