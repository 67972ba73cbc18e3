-------------------------- MODULE StaticChecksProofs --------------------------
(***************************************************************************)
(* Proofs about StaticRunner and StaticChecks: for any number of checks,    *)
(* findings and changes by others, every set of exit codes, and clients     *)
(* that are cut off early or only at the deadline.  Whatever validate does  *)
(* is a step of the runner or leaves it alone, so the runner's invariant is *)
(* one of validate.                                                         *)
(***************************************************************************)
EXTENDS StaticChecks, FiniteSetTheorems, WellFoundedInduction, TLAPS

USE DEF None, NoCode, StartFailure, KillCode

-----------------------------------------------------------------------------
(* The runner.                                                              *)

\* An interrupt, and what execute returns or raises, are on their way out; before
\* create there is no container, and after the removal none unless that failed.
Control ==
    /\ pc \in { "info", "create" } => container = NoContainer
    /\ process_control => pc \in { "rm", "done" }
    /\ pc = "done" <=> outcome # None
    /\ pc = "done" /\ process_control => outcome = "interrupted"
    /\ outcome \notin { None, "CLEANUP_FAILED", "interrupted" } => container.state = "absent"

\* An attached client that reported success saw the container end by itself, and
\* what is returned is the result of such a container.
Founded ==
    /\ pc \in { "info", "create", "start", "attached", "raced_inspect", "kill" } =>
           attached_code = NoCode /\ primary = None
    /\ pc \in { "create", "start", "attached" } => ~container.killed
    /\ pc = "attached" => container.ran
    /\ pc \in { "wait", "inspect" } => primary = None
    /\ pc \in { "wait", "inspect" } /\ attached_code = 0 =>
           container.state = "exited" /\ container.ran /\ ~container.killed
    /\ pc = "inspect" => exit_code = container.code /\ container.state # "running"
    /\ pc = "rm" /\ primary = None /\ ~process_control =>
           /\ attached_code = 0
           /\ container.state = "exited" /\ container.ran
           /\ ~container.killed /\ ~container.oom /\ container.code = 0
    /\ outcome = "result" =>
           /\ container.state = "absent" /\ container.ran
           /\ ~container.killed /\ ~container.oom /\ container.code = 0

Inv == TypeOK /\ Control /\ Founded

\* What a call makes of a container is one.
LEMMA EffectTyped ==
    ASSUME NEW call, container \in Container
    PROVE  Effect(call) \in Container
<1>1. [container EXCEPT !.state = "created"] \in Container
  BY DEF Container
<1>2. [container EXCEPT !.state = "running", !.ran = TRUE] \in Container
  BY DEF Container
<1>3. [container EXCEPT !.state = "exited", !.code = KillCode, !.killed = TRUE] \in Container
  BY ZenonT(60) DEF Container
<1>4. [container EXCEPT !.state = "absent", !.killed = @ \/ container.state = "running"] \in Container
  BY ZenonT(60) DEF Container
<1>5. QED
  BY <1>1, <1>2, <1>3, <1>4 DEF Effect

LEMMA CallTyped ==
    ASSUME NEW call, container \in Container, Unanswered(call)
    PROVE  container' \in Container
  BY EffectTyped DEF Unanswered, Answered

LEMMA EndsTyped ==
    ASSUME container \in Container, Ends
    PROVE  container' \in Container
<1>1. PICK code \in ExitCodes, oom \in BOOLEAN :
          container' = [container EXCEPT !.state = "exited", !.code = code, !.oom = oom]
  BY DEF Ends
<1>2. QED
  BY <1>1 DEF Container

\* A call under the deadline leaves the clock with a value, and a container.
LEMMA DeadlineTyped ==
    ASSUME NEW call, container \in Container, expired \in BOOLEAN,
           Answers(call) \/ Fails(call) \/ CutOff(call) \/ NoTime
    PROVE  container' \in Container /\ expired' \in BOOLEAN
  BY CallTyped, EarlyTimeoutsAssumption DEF Answers, Fails, CutOff, NoTime, Unanswered

LEMMA StepTyped ==
    ASSUME TypeOK, Step
    PROVE  container' \in Container /\ expired' \in BOOLEAN
<1> USE DEF TypeOK
<1>1. CASE Info
  BY <1>1, DeadlineTyped DEF Info
<1>2. CASE Create
  BY <1>2, DeadlineTyped DEF Create, Fail
<1>3. CASE Start
  <2>1. StartRefused => container' \in Container
    BY DEF StartRefused, Container
  <2>2. QED
    BY <1>3, <2>1, DeadlineTyped DEF Start
<1>4. CASE Attached
  BY <1>4, EarlyTimeoutsAssumption DEF Attached, AttachedEnds
<1>5. CASE RacedInspect
  BY <1>5, DeadlineTyped DEF RacedInspect
<1>6. CASE Kill
  BY <1>6, DeadlineTyped DEF Kill, Fail
<1>7. CASE Wait
  BY <1>7, DeadlineTyped DEF Wait, Fail
<1>8. CASE Inspect
  BY <1>8, DeadlineTyped, CallTyped DEF Inspect, Unanswered
<1>9. CASE Rm
  BY <1>9, CallTyped DEF Rm, Unanswered
<1>10. QED
  BY <1>1, <1>2, <1>3, <1>4, <1>5, <1>6, <1>7, <1>8, <1>9, Step DEF Step

LEMMA InitInv == Init => Inv
<1>1. NoContainer \in Container
  BY DEF NoContainer, Container
<1>2. Init => TypeOK
  BY <1>1 DEF Init, TypeOK, Call
<1>3. QED
  BY <1>2 DEF Init, Inv, Control, Founded, NoContainer

\* Calls that change no container, however they end.
LEMMA QuietCall ==
    ASSUME NEW call \in { "info", "wait", "inspect" },
           Answers(call) \/ Fails(call) \/ CutOff(call) \/ NoTime
    PROVE  container' = container
  BY DEF Answers, Fails, CutOff, NoTime, Unanswered, Answered, Effect

LEMMA CreateAnswered == container = NoContainer /\ Answers("create") => ~container'.killed
  BY DEF Answers, Answered, Effect, NoContainer

LEMMA StartAnswered ==
    container \in Container /\ Answers("start") =>
        container'.ran /\ container'.killed = container.killed
  BY DEF Answers, Answered, Effect, Container

\* A wait that is answered found a container that is not running.
LEMMA WaitAnswered == Answers("wait") => container.state \in { "created", "exited" }
  BY DEF Answers, Answered, Possible

LEMMA StepInv ==
    ASSUME Inv, Step
    PROVE  Inv'
<1> USE DEF Inv, Proceed, Raise, Finish, codes
<1>0. container' \in Container /\ expired' \in BOOLEAN
  BY StepTyped
<1>a. container.code \in ExitCodes \cup { 0, StartFailure, KillCode }
  BY DEF TypeOK, Container
<1>1. CASE Info
  <2>1. TypeOK'
    BY <1>0, <1>a, <1>1 DEF Info, TypeOK, Call, ErrorCode
  <2>2. Control'
    BY QuietCall, <1>1 DEF Info, TypeOK, Control, NoContainer
  <2>3. Founded'
    BY QuietCall, <1>1 DEF Info, TypeOK, Control, Founded, NoContainer
  <2>4. QED
    BY <2>1, <2>2, <2>3
<1>2. CASE Create
  <2>1. TypeOK'
    BY <1>0, <1>a, <1>2 DEF Create, Fail, TypeOK, Call, ErrorCode
  <2>2. Control'
    BY <1>2 DEF Create, Fail, TypeOK, Control
  <2>3. Founded'
    BY CreateAnswered, <1>2 DEF Create, Fail, TypeOK, Control, Founded
  <2>4. QED
    BY <2>1, <2>2, <2>3
<1>3. CASE Start
  <2>1. TypeOK'
    BY <1>0, <1>a, <1>3 DEF Start, TypeOK, Call, ErrorCode
  <2>2. Control'
    BY <1>3 DEF Start, TypeOK, Control
  <2>3. Founded'
    BY StartAnswered, <1>3 DEF Start, TypeOK, Control, Founded
  <2>4. QED
    BY <2>1, <2>2, <2>3
<1>4. CASE Attached
  <2>1. CASE AttachedEnds
    <3>1. TypeOK'
      BY <1>0, <1>a, <1>4, <2>1 DEF Attached, AttachedEnds, TypeOK, Call
    <3>2. Control'
      BY <1>4, <2>1 DEF Attached, AttachedEnds, TypeOK, Control
    <3>3. Founded'
      BY <1>4, <2>1 DEF Attached, AttachedEnds, TypeOK, Control, Founded
    <3>4. QED
      BY <3>1, <3>2, <3>3
  <2>2. CASE Proceed("raced_inspect")
    <3>1. UNCHANGED container
      BY <1>4 DEF Attached
    <3>2. QED
      BY <1>0, <2>2, <3>1, <1>4 DEF Attached, TypeOK, Control, Founded, Call
  <2>3. QED
    BY <1>4, <2>1, <2>2 DEF Attached
<1>5. CASE RacedInspect
  <2>1. TypeOK'
    BY <1>0, <1>a, <1>5 DEF RacedInspect, TypeOK, Call, ErrorCode
  <2>2. Control'
    BY <1>5 DEF RacedInspect, TypeOK, Control
  <2>3. Founded'
    BY <1>5 DEF RacedInspect, TypeOK, Control, Founded
  <2>4. QED
    BY <2>1, <2>2, <2>3
<1>6. CASE Kill
  <2>1. TypeOK'
    BY <1>0, <1>a, <1>6 DEF Kill, Fail, TypeOK, Call, ErrorCode
  <2>2. Control'
    BY <1>6 DEF Kill, Fail, TypeOK, Control
  <2>3. Founded'
    BY <1>6 DEF Kill, Fail, TypeOK, Control, Founded
  <2>4. QED
    BY <2>1, <2>2, <2>3
<1>7. CASE Wait
  <2>1. TypeOK'
    BY <1>0, <1>a, <1>7 DEF Wait, Fail, TypeOK, Call, ErrorCode
  <2>2. Control'
    BY QuietCall, WaitAnswered, <1>7 DEF Wait, Fail, TypeOK, Control
  <2>3. Founded'
    BY QuietCall, WaitAnswered, <1>7 DEF Wait, Fail, TypeOK, Control, Founded
  <2>4. QED
    BY <2>1, <2>2, <2>3
<1>8. CASE Inspect
  <2>1. TypeOK'
    BY <1>0, <1>a, <1>8 DEF Inspect, TypeOK, Call, ErrorCode
  <2>2. Control'
    BY QuietCall, <1>8 DEF Inspect, TypeOK, Control
  <2>3. Founded'
    BY QuietCall, <1>8 DEF Inspect, TypeOK, Control, Founded
  <2>4. QED
    BY <2>1, <2>2, <2>3
<1>9. CASE Rm
  <2>1. container.state # "running" =>
            Effect("rm") = [container EXCEPT !.state = "absent"]
    BY ZenonT(60) DEF Effect, TypeOK, Container
  <2>2. TypeOK'
    BY <1>0, <1>9 DEF Rm, TypeOK, Call, ErrorCode
  <2>3. Control'
    BY ZenonT(60), <1>9 DEF Rm, TypeOK, Control, Answered, Possible, Effect, Container
  <2>4. Founded'
    BY <1>9, <2>1 DEF Rm, TypeOK, ErrorCode, Founded, Control, Unanswered, Answered, Container
  <2>5. QED
    BY <2>2, <2>3, <2>4
<1>10. QED
  BY <1>1, <1>2, <1>3, <1>4, <1>5, <1>6, <1>7, <1>8, <1>9, Step DEF Step

LEMMA InterruptInv ==
    ASSUME Inv, Interrupt
    PROVE  Inv'
<1> USE DEF Inv, TypeOK, Control, Founded, Call, Finish, codes
<1>1. container' \in Container
  BY CallTyped DEF Interrupt
<1>2. pc = "info" => container' = container
  BY DEF Interrupt, CallOf, Unanswered, Answered, Effect
<1>3. QED
  BY <1>1, <1>2 DEF Interrupt

LEMMA EndsInv ==
    ASSUME Inv, ContainerEnds
    PROVE  Inv'
<1>1. container' \in Container /\ container.state = "running"
  BY EndsTyped DEF Inv, TypeOK, ContainerEnds, Ends
<1>2. container'.killed = container.killed /\ container'.ran = container.ran
  BY DEF Inv, TypeOK, Container, ContainerEnds, Ends
<1>3. QED
  BY <1>1, <1>2 DEF Inv, TypeOK, Control, Founded, ContainerEnds, Call, codes, NoContainer

LEMMA NextInv == Inv /\ [Next]_vars => Inv'
<1>1. Inv /\ UNCHANGED vars => Inv'
  BY DEF Inv, TypeOK, Control, Founded, vars, codes
<1>2. Inv /\ Elapse => Inv'
  BY DEF Inv, TypeOK, Control, Founded, Elapse, codes
<1>3. QED
  BY <1>1, <1>2, StepInv, InterruptInv, EndsInv DEF Next

\* The inductive invariant.
THEOREM Invariant == Spec => []Inv
  BY InitInv, NextInv, PTL DEF Spec

\* Whatever execute returns or raises, the container is gone, or the caller is told.
THEOREM NothingIsLeftBehind == Spec => []NothingLeftBehind
<1>1. Inv => NothingLeftBehind
  BY DEF Inv, Control, NothingLeftBehind
<1>2. QED
  BY <1>1, Invariant, PTL

-----------------------------------------------------------------------------
(* The results and their validator.                                         *)

LEMMA Checks ==
    /\ 1 \in Check /\ 2 \in Check /\ Language \subseteq Check
    /\ 1 \notin Language /\ 2 \notin Language /\ 3 \in Language
    /\ Check = { 1, 2 } \cup Language
    /\ Check \subseteq Nat
  BY StaticReportAssumption DEF Check, Language

LEMMA Least ==
    ASSUME NEW T \in SUBSET Nat, T # {}
    PROVE  \E x \in T : \A y \in T : x <= y
<1> DEFINE less == { p \in Nat \X Nat : p[1] < p[2] }
<1>1. IsWellFoundedOn(less, Nat)
  BY NatLessThanWellFounded DEF OpToRel
<1>2. PICK x \in T : \A y \in T : << y, x >> \notin less
  <2> HIDE DEF less
  <2> QED
    BY <1>1, WFMin
<1>3. ASSUME NEW y \in T
      PROVE  x <= y
  <2>1. ~(<< y, x >> \in Nat \X Nat /\ << y, x >>[1] < << y, x >>[2])
    BY <1>2
  <2>2. QED
    BY <2>1
<1>4. QED
  BY <1>3

\* What the statuses are like at any time: the language checks apply, or none does.
Shape(cs) ==
    /\ cs \in [ Check -> CheckStatus ]
    /\ cs[1] # "NOT_APPLICABLE" /\ cs[2] # "NOT_APPLICABLE"
    /\ \/ \A i \in Language : cs[i] # "NOT_APPLICABLE"
       \/ \A i \in Language : cs[i] = "NOT_APPLICABLE"

\* The same statuses, but for some that became errors.
Worse(cs, worse) ==
    \A i \in Check : worse[i] \in { cs[i], "INFRASTRUCTURE_ERROR" }

\* The blame falls on one of the checks, and where the validator accepts it.
LEMMA MarkedShape ==
    ASSUME NEW cs, Shape(cs), NEW statuses \in SUBSET (CheckStatus \ { "NOT_APPLICABLE" })
    PROVE  /\ Shape(Marked(cs, statuses)) /\ Worse(cs, Marked(cs, statuses))
           /\ "INFRASTRUCTURE_ERROR" \in StatusesOf(Marked(cs, statuses))
<1> DEFINE has == { i \in Check : cs[i] \in statuses }
           first == IF has = {} THEN 1 ELSE CHOOSE i \in has : \A j \in has : i <= j
<1>1. first \in Check /\ cs[first] # "NOT_APPLICABLE"
  <2>1. CASE has = {}
    BY <2>1, Checks DEF Shape
  <2>2. CASE has # {}
    <3>1. \E i \in has : \A j \in has : i <= j
      BY <2>2, Least, Checks
    <3>2. first \in has
      BY <2>2, <3>1
    <3>3. QED
      BY <3>2
  <2>3. QED
    BY <2>1, <2>2
<1>2. Marked(cs, statuses) = [cs EXCEPT ![first] = "INFRASTRUCTURE_ERROR"]
  BY DEF Marked
<1> HIDE DEF first
<1>3. QED
  BY <1>1, <1>2, Checks DEF Shape, Worse, StatusesOf, CheckStatus

LEMMA BlamedShape ==
    ASSUME NEW cs, Shape(cs)
    PROVE  /\ Shape(Blamed(cs)) /\ Worse(cs, Blamed(cs))
           /\ "INFRASTRUCTURE_ERROR" \in StatusesOf(Blamed(cs))
<1>1. Worse(cs, cs)
  BY DEF Worse
<1>2. { "NOT_RUN" } \in SUBSET (CheckStatus \ { "NOT_APPLICABLE" })
  BY DEF CheckStatus
<1>3. QED
  BY <1>1, <1>2, MarkedShape DEF Blamed

LEMMA DiagnosticValid ==
    ASSUME NEW cs, Shape(cs), "INFRASTRUCTURE_ERROR" \in StatusesOf(cs)
    PROVE  ResultValid(cs, "INFRASTRUCTURE_DIAGNOSTIC")
  BY Checks DEF ResultValid, Shape, StatusesOf, PatchApply, ChangedFiles

LEMMA RejectionValid ==
    ASSUME NEW cs, Shape(cs), "FAILED" \in StatusesOf(cs), "INFRASTRUCTURE_ERROR" \notin StatusesOf(cs)
    PROVE  ResultValid(cs, "CANDIDATE_FAILED")
  BY Checks DEF ResultValid, Shape, StatusesOf, PatchApply, ChangedFiles

\* validate ends with a diagnostic or a rejection, once the copy is removed.
Over(cs) ==
    /\ step' \in { "done", "remove", "remove_late" } /\ (step' = "done" <=> target = None)
    /\ Shape(checks') /\ Worse(cs, checks')
    /\ \E code \in DiagnosticCode \cup { None } :
           \/ result' = Answer("CANDIDATE_FAILED", code) /\ checks' = cs
           \/ result' = Answer("INFRASTRUCTURE_DIAGNOSTIC", code)

LEMMA Handled ==
    ASSUME NEW cs, Shape(cs), Handle(cs)
    PROVE  Over(cs) /\ result' = Answer("INFRASTRUCTURE_DIAGNOSTIC", "FILESYSTEM_FAILED")
<1>1. ResultValid(Blamed(cs), "INFRASTRUCTURE_DIAGNOSTIC")
  BY BlamedShape, DiagnosticValid
<1>2. SettleBy("remove_late", Blamed(cs), "INFRASTRUCTURE_DIAGNOSTIC", "FILESYSTEM_FAILED")
  BY <1>1 DEF Handle
<1>3. QED
  BY <1>2, BlamedShape DEF SettleBy, Over, DiagnosticCode

LEMMA Diagnosed ==
    ASSUME NEW cs, Shape(cs), NEW code \in DiagnosticCode, Diagnose(cs, code)
    PROVE  Over(cs) /\ result' = Answer("INFRASTRUCTURE_DIAGNOSTIC", code)
<1>1. ResultValid(Blamed(cs), "INFRASTRUCTURE_DIAGNOSTIC")
  BY BlamedShape, DiagnosticValid
<1>2. SettleBy("remove", Blamed(cs), "INFRASTRUCTURE_DIAGNOSTIC", code)
  BY <1>1 DEF Diagnose, Settle
<1>3. QED
  BY <1>2, BlamedShape DEF SettleBy, Over, DiagnosticCode

LEMMA Rejected ==
    ASSUME NEW cs, Shape(cs), "FAILED" \in StatusesOf(cs), "INFRASTRUCTURE_ERROR" \notin StatusesOf(cs),
           Reject(cs)
    PROVE  Over(cs) /\ result' = Answer("CANDIDATE_FAILED", None) /\ checks' = cs
<1>1. SettleBy("remove", cs, "CANDIDATE_FAILED", None)
  BY RejectionValid DEF Reject, Settle
<1>2. Worse(cs, cs)
  BY DEF Worse
<1>3. QED
  BY <1>1, <1>2 DEF SettleBy, Over

-----------------------------------------------------------------------------
(* The report.                                                              *)

\* A report that passes all checks is one about clean files.
LEMMA CleanReport ==
    ASSUME NEW r \in Reports
    PROVE  /\ r.written
           /\ \A i \in Language : r.statuses[i - 2] \in { "PASSED", "FAILED", "INFRASTRUCTURE_ERROR" }
           /\ (\A i \in Language : r.statuses[i - 2] = "PASSED") => r.clean
<1>1. PICK input \in Input : r = ReportOf(input)
  BY DEF Reports
<1> DEFINE all == Syntax \cup Tool
           results == Main(input)
<1>2. all # {} /\ 1 \in Syntax /\ Tool # {} /\ Syntax \cap Tool = {}
      /\ \A i \in Language : i - 2 \in all
  BY StaticReportAssumption DEF Syntax, Tool, Language
<1>3. \A ck \in all : ck + 2 \in Language /\ (ck + 2) - 2 = ck
  BY StaticReportAssumption DEF Syntax, Tool, Language
<1>4. \A ck \in all : Execute(input)[ck].status \in { "PASSED", "FAILED", "INFRASTRUCTURE_ERROR" }
  BY DEF Execute, SyntaxResult, ToolResult, Found, Infrastructure
<1>5. DOMAIN Execute(input) = all
  BY DEF Execute
<1>6. \/ results = Execute(input) /\ input.begins
      \/ results = [ ck \in all |-> Infrastructure ]
  BY <1>5 DEF Main, Emit
<1>7. DOMAIN results = all
  BY <1>5, <1>6
<1>8. /\ r.written /\ r.clean = Clean(input)
      /\ \A ck \in all : r.statuses[ck] = results[ck].status
  BY <1>1, <1>7 DEF ReportOf
<1>9. \A ck \in all : results[ck].status \in { "PASSED", "FAILED", "INFRASTRUCTURE_ERROR" }
  BY <1>4, <1>6 DEF Infrastructure, Found
<1>10. ASSUME \A i \in Language : r.statuses[i - 2] = "PASSED"
       PROVE  r.clean
  <2>1. \A ck \in all : results[ck].status = "PASSED"
    BY <1>3, <1>8, <1>10
  <2>2. results = Execute(input) /\ input.begins
    BY <1>2, <1>6, <2>1 DEF Infrastructure, Found
  <2>3. input.readable /\ input.source \in { "fine", "warns" }
    <3>1. SyntaxResult(1, input).status = "PASSED"
      BY <1>2, <2>1, <2>2 DEF Execute
    <3>2. input.source \in Source
      BY DEF Input
    <3>3. QED
      BY <3>1, <3>2 DEF SyntaxResult, Found, Infrastructure, Source
  <2>4. input.compatible /\ \A tool \in Tool : ToolResult(input.answers[tool]).status = "PASSED"
    BY SMTT(60), <1>2, <2>1, <2>2 DEF Execute, Infrastructure, Found
  <2>5. ASSUME NEW tool \in Tool
        PROVE  LET a == input.answers[tool]
               IN  a.started /\ a.complete /\ a.quiet /\ a.code = 0 /\ a.found = 0 /\ a.directives = 0
    <3> DEFINE a == input.answers[tool]
    <3>1. a \in ToolAnswer
      BY DEF Input
    <3>2. ToolResult(a).status = "PASSED"
      BY <2>4
    <3> HIDE DEF a
    <3>3. a.found \in Nat /\ a.directives \in Nat
      BY <3>1, StaticReportAssumption DEF ToolAnswer, Unreadable
    <3>4. /\ a.started /\ a.complete /\ a.quiet /\ a.code \in { 0, 1 }
          /\ ((a.found > 0) <=> (a.code = 1)) /\ ~(a.found + a.directives > 0)
      BY <3>1, <3>2 DEF ToolResult, Found, Infrastructure, ToolAnswer
    <3>5. QED
      BY <3>3, <3>4 DEF a
  <2>6. QED
    BY <1>8, <2>2, <2>3, <2>4, <2>5 DEF Clean
<1>11. QED
  BY <1>2, <1>8, <1>9, <1>10

-----------------------------------------------------------------------------
(* The invariant.                                                           *)

CheckName == { "preparation", "copied", "integrity", "last" }
Removing == { "remove", "remove_late", "remove_interrupted" }

\* Where validate is, told by its step and by which look at the repository goes on.
Looking(names) == step \in { "snapshot", "fingerprint" } /\ check \in names
Unmade == step \in { "request", "mkdir" } \/ Looking({ "preparation" })
Unchecked == step \in { "copy", "apply", "changed" } \/ Looking({ "copied" })
Checked == step \in { "candidate", "publish" } \/ Looking({ "integrity" })
Moved == step = "reread" \/ Looking({ "last" })

Types ==
    /\ check \in CheckName
    /\ Unmade \/ Unchecked \/ step = "run" \/ Checked \/ Moved \/ step \in Removing \cup { "done" }
    /\ Shape(checks)
    /\ place \in { "none", "staging", "published" } /\ target \in { None, "staging", "published" }
    /\ python \in BOOLEAN /\ altered \in BOOLEAN

\* The looks are taken in their order.
Order ==
    /\ step \in { "request", "mkdir", "copy" } => check = "preparation"
    /\ step \in { "apply", "changed", "run", "candidate" } => check = "copied"
    /\ step \in { "publish", "reread" } => check = "integrity"

\* What was decided and when.
Decided ==
    /\ Unmade \/ Unchecked \/ step = "run" \/ Checked \/ Moved => result = Answer(None, None)
    /\ step \in { "remove", "remove_late" } =>
           result.outcome \in { "CANDIDATE_FAILED", "INFRASTRUCTURE_DIAGNOSTIC" }
    /\ step = "remove_interrupted" => result.outcome # "PASSED"
    /\ step = "done" =>
           result.outcome \in { "PASSED", "CANDIDATE_FAILED", "INFRASTRUCTURE_DIAGNOSTIC", "interrupted" }
    /\ result.outcome # "raised"

\* The copy is where validate takes it to be.
Stays ==
    \/ result.outcome = "PASSED" /\ place = "published"
    \/ result.outcome = "interrupted"
    \/ result.code = "CLEANUP_FAILED"
    \/ target = None /\ check = "preparation"

CopyInv ==
    /\ Unmade => place = "none" /\ target = None
    /\ Unchecked \/ step = "run" \/ Checked => place = "staging" /\ target = "staging"
    /\ Moved => place = "published" /\ target = "published"
    /\ step \in Removing => target # None
    /\ step = "done" /\ place # "none" => Stays
    /\ Looking({ "last" }) => reread = taken

\* The statuses at each point.
StatusInv ==
    /\ Unmade \/ step \in { "copy", "apply" } \/ Looking({ "copied" }) =>
           \A i \in Check : checks[i] = "NOT_RUN"
    /\ step \in { "changed", "run" } => checks[1] = "PASSED" /\ \A i \in Language : checks[i] = "NOT_RUN"
    /\ step = "changed" => checks[2] = "NOT_RUN"
    /\ step = "run" => python /\ checks[2] = "PASSED"
    /\ Checked \/ Moved =>
           /\ checks[1] = "PASSED" /\ checks[2] = "PASSED"
           /\ IF python
              THEN \A i \in Language : checks[i] \in { "PASSED", "FAILED", "INFRASTRUCTURE_ERROR" }
              ELSE \A i \in Language : checks[i] = "NOT_APPLICABLE"
    /\ step = "publish" \/ Moved =>
           \A i \in Language : checks[i] = IF python THEN "PASSED" ELSE "NOT_APPLICABLE"
    /\ result.outcome = "PASSED" /\ python => \A i \in Language : checks[i] = "PASSED"

\* The report, on its way and when it is believed.
ReportInv ==
    /\ Unmade \/ Unchecked => report = NoReport
    /\ step = "run" => report \in Reports \cup { NoReport }
    /\ step = "run" /\ ((pc = "rm" /\ primary = None /\ ~process_control) \/ outcome = "result") =>
           report.written
    /\ (\A i \in Language : checks[i] = "PASSED") => report.clean

\* The runner is at work in its step only, and its interrupt ends validate.
RunnerInv ==
    /\ Unmade \/ Unchecked => pc = "info"
    /\ step # "run" => pc \in { "info", "create", "done" }
    /\ Checked \/ Moved => IF python THEN outcome = "result" ELSE pc = "info"
    /\ process_control =>
           \/ step \in { "run", "remove_interrupted" }
           \/ step = "done" /\ result.outcome = "interrupted"

SInv == Types /\ Order /\ Decided /\ CopyInv /\ StatusInv /\ ReportInv /\ RunnerInv

ChecksInv == Inv /\ SInv

LEMMA ChecksInitInv == ChecksInit => ChecksInv
<1> SUFFICES ASSUME ChecksInit PROVE ChecksInv
  OBVIOUS
<1>1. Inv
  BY InitInv DEF ChecksInit
<1>2. Shape(checks)
  BY Checks DEF ChecksInit, Shape, CheckStatus
<1>3. Types /\ Order /\ Decided /\ CopyInv
  BY <1>2 DEF ChecksInit, Types, Order, Decided, CopyInv, CheckName, Removing, Unmade, Looking, Unchecked,
     Checked, Moved, Answer
<1>4. StatusInv /\ ReportInv /\ RunnerInv
  BY Checks DEF ChecksInit, Init, StatusInv, ReportInv, RunnerInv, Unmade, Unchecked, Checked, Moved, Looking
<1>5. QED
  BY <1>1, <1>3, <1>4 DEF ChecksInv, SInv

\* Whatever is not the runner's leaves it alone.
LEMMA RunnerNext == ChecksNext => [Next]_vars
  BY DEF ChecksNext, Progress, RunnerStep, RunnerReturns, RunnerInterrupt, TimeElapses, ChecksEnd,
     RunnerRefuses, Next, vars, runner

LEMMA OverKeeps ==
    ASSUME SInv, NEW cs, Over(cs), ~process_control', pc' \in { "info", "create", "done" },
           target' = target, place' \in { "none", "staging", "published" },
           target = None /\ place' # "none" => check' = "preparation",
           check' \in CheckName, python' \in BOOLEAN, altered' \in BOOLEAN,
           (\A i \in Language : cs[i] = "PASSED") => report'.clean
    PROVE  SInv'
<1>1. /\ step' \in { "done", "remove", "remove_late" } /\ (step' = "done" <=> target = None)
      /\ Shape(checks') /\ Worse(cs, checks')
      /\ result'.outcome \in { "CANDIDATE_FAILED", "INFRASTRUCTURE_DIAGNOSTIC" }
  BY DEF Over, Answer
<1>2. (\A i \in Language : checks'[i] = "PASSED") => report'.clean
  BY <1>1, Checks DEF Worse
<1>3. ~Unmade' /\ ~Unchecked' /\ ~Checked' /\ ~Moved' /\ step' # "run" /\ ~Looking({ "last" })'
      /\ ~Looking({ "copied" })'
  BY <1>1 DEF Unmade, Unchecked, Checked, Moved, Looking
<1>4. Types' /\ Order' /\ Decided'
  BY <1>1, <1>3 DEF SInv, Types, Order, Decided, Removing
<1>5. CopyInv'
  BY <1>1, <1>3 DEF SInv, Types, CopyInv, Stays, Removing
<1>6. StatusInv' /\ ReportInv' /\ RunnerInv'
  BY <1>1, <1>2, <1>3 DEF StatusInv, ReportInv, RunnerInv
<1>7. QED
  BY <1>4, <1>5, <1>6 DEF SInv

-----------------------------------------------------------------------------
(* The steps of validate.                                                   *)

Quiet == UNCHANGED << runner, report >>
Ahead == Unmade \/ Unchecked \/ Checked \/ Moved


LEMMA WithShape ==
    ASSUME Shape(checks), NEW i \in { 1, 2 }, NEW status \in CheckStatus \ { "NOT_APPLICABLE" }
    PROVE  /\ Shape(With(i, status)) /\ \A j \in Check \ { i } : With(i, status)[j] = checks[j]
           /\ With(i, status)[i] = status
  BY Checks DEF Shape, With

\* An ending before the removal of the copy, with the statuses so far or with
\* another one of the first two.
LEMMA Concludes ==
    ASSUME SInv, Ahead, Quiet, NEW cs, Over(cs), \A i \in Language : cs[i] = checks[i],
           target' = target, place' \in { "none", "staging", "published" },
           target = None /\ place' # "none" => check' = "preparation",
           check' \in CheckName, python' \in BOOLEAN, altered' \in BOOLEAN
    PROVE  SInv'
<1>1. ~process_control /\ pc \in { "info", "create", "done" }
  BY DEF SInv, RunnerInv, Ahead, Unmade, Unchecked, Checked, Moved, Looking, Removing
<1>2. (\A i \in Language : cs[i] = "PASSED") => report'.clean
  BY DEF SInv, ReportInv, Quiet
<1>3. QED
  BY <1>1, <1>2, OverKeeps DEF Quiet, runner

LEMMA RequestKeeps ==
    ASSUME SInv, Request, Quiet
    PROVE  SInv'
<1>1. step = "request" /\ Ahead /\ UNCHANGED << others, copy, seen >>
  BY DEF Request, Ahead, Unmade
<1>2. CASE Go("snapshot") /\ check' = "preparation"
  BY <1>1, <1>2 DEF Go, Quiet, runner, others, copy, seen, SInv, Types, Order, Decided, CopyInv,
     StatusInv, ReportInv, RunnerInv, Unmade, Unchecked, Checked, Moved, Looking, CheckName, Removing
<1>3. CASE Diagnose(checks, "INVALID_INPUT") /\ UNCHANGED check
  BY <1>1, <1>3, Diagnosed, Concludes DEF SInv, Types, CopyInv, Unmade, Order, DiagnosticCode,
     others, copy, seen
<1>4. QED
  BY <1>2, <1>3 DEF Request

USE DEF Go, Quiet, runner, others, copy, seen, DiagnosticCode

\* A look at the prepared repository that ends validate.
LEMMA FailingKeeps ==
    ASSUME SInv, Looking(CheckName), Quiet, Failing, UNCHANGED << check, others, copy >>,
           python' = python
    PROVE  SInv'
<1>1. Ahead /\ Shape(checks) /\ "INFRASTRUCTURE_ERROR" \in CheckStatus
  BY DEF Looking, CheckName, Ahead, Unmade, Unchecked, Checked, Moved, SInv, Types, CheckStatus
<1>2. /\ check' \in CheckName /\ python' \in BOOLEAN /\ altered' \in BOOLEAN
      /\ place' \in { "none", "staging", "published" } /\ target' = target
      /\ target = None /\ place' # "none" => check' = "preparation"
  BY <1>1 DEF SInv, Types, CopyInv, Ahead
<1>3. \E cs : Over(cs) /\ \A i \in Language : cs[i] = checks[i]
  <2>1. CASE Diagnose(With(ChangedFiles, "INFRASTRUCTURE_ERROR"), "INTEGRITY_FAILED")
    BY <2>1, <1>1, Diagnosed, WithShape, Checks DEF ChangedFiles
  <2>2. QED
    BY <2>1, <1>1, Diagnosed DEF Failing
<1>4. QED
  BY <1>1, <1>2, <1>3, Concludes

LEMMA SnapshotKeeps ==
    ASSUME SInv, Snapshot, Quiet
    PROVE  SInv'
<1>1. step = "snapshot" /\ Looking(CheckName) /\ UNCHANGED << check, others, copy, taken, reread, python >>
  BY DEF Snapshot, Looking, SInv, Types
<1>2. CASE Go("fingerprint")
  BY <1>1, <1>2 DEF SInv, Types, Order, Decided, CopyInv, StatusInv, ReportInv, RunnerInv, Unmade,
     Unchecked, Checked, Moved, Looking, CheckName, Removing
<1>3. QED
  BY <1>1, <1>2, FailingKeeps DEF Snapshot

\* The checks are judged.
LEMMA JudgeKeeps ==
    ASSUME SInv, Looking({ "integrity" }), Quiet, Judge, UNCHANGED << check, others, copy, seen >>
    PROVE  SInv'
<1>1. /\ Ahead /\ Shape(checks) /\ check' \in CheckName /\ python' \in BOOLEAN /\ altered' \in BOOLEAN
      /\ place' \in { "none", "staging", "published" } /\ target = "staging"
  BY DEF SInv, Types, CopyInv, Ahead, Looking, Checked
<1>2. CASE "INFRASTRUCTURE_ERROR" \in StatusesOf(checks)
  BY <1>1, <1>2, Diagnosed, Concludes DEF Judge
<1>3. CASE "INFRASTRUCTURE_ERROR" \notin StatusesOf(checks) /\ "FAILED" \in StatusesOf(checks)
  BY <1>1, <1>3, Rejected, Concludes DEF Judge
<1>4. CASE "INFRASTRUCTURE_ERROR" \notin StatusesOf(checks) /\ "FAILED" \notin StatusesOf(checks)
  <2>1. Go("publish")
    BY <1>4 DEF Judge
  <2>2. \A i \in Language : checks[i] = IF python THEN "PASSED" ELSE "NOT_APPLICABLE"
    BY <1>1, <1>4, Checks DEF SInv, StatusInv, Checked, StatusesOf, Shape
  <2>3. QED
    BY <2>1, <2>2, <1>1 DEF SInv, Types, Order, Decided, CopyInv, StatusInv, ReportInv, RunnerInv, Unmade,
       Unchecked, Checked, Moved, Looking, CheckName, Removing
<1>5. QED
  BY <1>2, <1>3, <1>4

\* The validator accepts the statuses of a candidate.
LEMMA CandidateValid ==
    ASSUME SInv, Moved
    PROVE  ResultValid(checks, "PASSED")
<1> DEFINE status == IF python THEN "PASSED" ELSE "NOT_APPLICABLE"
           language == { checks[i] : i \in Language }
<1>1. /\ Shape(checks) /\ checks[1] = "PASSED" /\ checks[2] = "PASSED"
      /\ \A i \in Language : checks[i] = status
  BY DEF SInv, Types, StatusInv
<1>2. language = { status }
  BY <1>1, Checks
<1>3. Cardinality(language) = 1
  BY <1>2, FS_Singleton
<1>4. StatusesOf(checks) \subseteq { "PASSED", "NOT_APPLICABLE" }
  BY <1>1, Checks DEF StatusesOf, Shape
<1>5. QED
  BY <1>1, <1>2, <1>3, <1>4 DEF ResultValid, PatchApply, ChangedFiles

LEMMA FingerprintKeeps ==
    ASSUME SInv, Fingerprint, Quiet
    PROVE  SInv'
<1>1. step = "fingerprint" /\ Looking(CheckName) /\ UNCHANGED << check, others, place, seen >>
  BY DEF Fingerprint, Looking, SInv, Types
<1>2. CASE Failing /\ UNCHANGED target
  BY <1>1, <1>2, FailingKeeps
<1>3. CASE Passing
  <2>1. CASE check = "preparation" /\ Go("mkdir") /\ UNCHANGED target
    BY <1>1, <2>1 DEF SInv, Types, Order, Decided, CopyInv, StatusInv, ReportInv, RunnerInv, Unmade,
       Unchecked, Checked, Moved, Looking, CheckName, Removing
  <2>2. CASE check = "copied" /\ Go("apply") /\ UNCHANGED target
    BY <1>1, <2>2 DEF SInv, Types, Order, Decided, CopyInv, StatusInv, ReportInv, RunnerInv, Unmade,
       Unchecked, Checked, Moved, Looking, CheckName, Removing
  <2>3. CASE check = "integrity" /\ Judge /\ UNCHANGED target
    BY <1>1, <2>3, JudgeKeeps DEF Looking
  <2>4. CASE check = "last" /\ step' = "done" /\ target' = None
             /\ result' = Answer("PASSED", None) /\ UNCHANGED checks
    BY <1>1, <2>4 DEF SInv, Types, Order, Decided, CopyInv, StatusInv, ReportInv, RunnerInv, Unmade,
       Unchecked, Checked, Moved, Looking, CheckName, Removing, Stays, Answer
  <2>5. check = "last" => ResultValid(checks, "PASSED")
    BY <1>1, CandidateValid DEF Moved, Looking
  <2>6. QED
    BY <1>3, <2>1, <2>2, <2>3, <2>4, <2>5 DEF Passing
<1>4. QED
  BY <1>2, <1>3 DEF Fingerprint

LEMMA MkdirKeeps ==
    ASSUME SInv, Mkdir, Quiet
    PROVE  SInv'
<1>1. step = "mkdir" /\ Ahead /\ Shape(checks) /\ UNCHANGED << check, others, seen >>
  BY DEF Mkdir, Ahead, Unmade, SInv, Types
<1>2. CASE MakeDirectory(TRUE) /\ target' = "staging" /\ Go("copy")
  BY <1>1, <1>2 DEF MakeDirectory, SInv, Types, Order, Decided, CopyInv, StatusInv, ReportInv, RunnerInv,
     Unmade, Unchecked, Checked, Moved, Looking, CheckName, Removing
<1>3. CASE MakeDirectory(FALSE) /\ UNCHANGED target /\ Diagnose(checks, "WORKSPACE_INVALID")
  BY <1>1, <1>3, Diagnosed, Concludes DEF MakeDirectory, SInv, Types, Order
<1>4. QED
  BY <1>2, <1>3 DEF Mkdir

LEMMA CopyKeeps ==
    ASSUME SInv, Copy, Quiet
    PROVE  SInv'
<1>1. step = "copy" /\ Ahead /\ Shape(checks) /\ target = "staging" /\ UNCHANGED << others, copy, seen >>
  BY DEF Copy, Ahead, Unchecked, SInv, Types, CopyInv
<1>2. CASE Go("snapshot") /\ check' = "copied"
  BY <1>1, <1>2 DEF SInv, Types, Order, Decided, CopyInv, StatusInv, ReportInv, RunnerInv,
     Unmade, Unchecked, Checked, Moved, Looking, CheckName, Removing
<1>3. CASE Diagnose(checks, "WORKSPACE_INVALID") /\ UNCHANGED check
  BY <1>1, <1>3, Diagnosed, Concludes DEF SInv, Types
<1>4. QED
  BY <1>2, <1>3 DEF Copy

\* The endings with a new status of one of the first two checks.
LEMMA StatusConcludes ==
    ASSUME SInv, Ahead, Quiet, NEW i \in { 1, 2 }, UNCHANGED << others, copy >>, target # None,
           check' \in CheckName, python' \in BOOLEAN,
           \/ \E code \in DiagnosticCode : Diagnose(With(i, "INFRASTRUCTURE_ERROR"), code)
           \/ /\ Reject(With(i, "FAILED"))
              /\ \A j \in Check \ { i } : checks[j] \in { "PASSED", "NOT_RUN" }
    PROVE  SInv'
<1>1. /\ Shape(checks) /\ i \in Check /\ place' \in { "none", "staging", "published" }
      /\ altered' \in BOOLEAN /\ target' = target
  BY Checks DEF SInv, Types
<1>2. CASE \E code \in DiagnosticCode : Diagnose(With(i, "INFRASTRUCTURE_ERROR"), code)
  <2> DEFINE cs == With(i, "INFRASTRUCTURE_ERROR")
  <2>1. Shape(cs) /\ \A j \in Language : cs[j] = checks[j]
    BY <1>1, WithShape, Checks DEF CheckStatus
  <2>2. Over(cs)
    BY <1>2, <2>1, Diagnosed
  <2> HIDE DEF cs
  <2>3. QED
    BY <1>1, <2>1, <2>2, Concludes
<1>3. CASE Reject(With(i, "FAILED")) /\ \A j \in Check \ { i } : checks[j] \in { "PASSED", "NOT_RUN" }
  <2> DEFINE cs == With(i, "FAILED")
  <2>1. /\ Shape(cs) /\ \A j \in Check \ { i } : cs[j] = checks[j]
        /\ cs[i] = "FAILED"
    BY <1>1, WithShape DEF CheckStatus
  <2>2. "FAILED" \in StatusesOf(cs) /\ "INFRASTRUCTURE_ERROR" \notin StatusesOf(cs)
    BY <1>1, <1>3, <2>1 DEF StatusesOf, Shape
  <2>3. Reject(cs) /\ \A j \in Language : cs[j] = checks[j]
    BY <1>3, <2>1, Checks
  <2> HIDE DEF cs
  <2>4. Over(cs)
    BY <2>1, <2>2, <2>3, Rejected
  <2>5. QED
    BY <1>1, <2>3, <2>4, Concludes
<1>4. QED
  BY <1>2, <1>3

LEMMA ApplyKeeps ==
    ASSUME SInv, Apply, Quiet
    PROVE  SInv'
<1>1. /\ step = "apply" /\ Ahead /\ Shape(checks) /\ target = "staging"
      /\ UNCHANGED << check, others, copy, seen >>
      /\ \A j \in Check : checks[j] = "NOT_RUN"
      /\ check' \in CheckName /\ python' \in BOOLEAN
  BY DEF Apply, Ahead, Unchecked, SInv, Types, CopyInv, StatusInv
<1>2. CASE step' = "changed" /\ checks' = With(PatchApply, "PASSED") /\ UNCHANGED result
  <2>1. /\ Shape(checks') /\ \A j \in Check \ { 1 } : checks'[j] = checks[j]
        /\ checks'[1] = "PASSED"
    BY <1>1, <1>2, WithShape DEF CheckStatus, PatchApply
  <2>2. QED
    BY <1>1, <1>2, <2>1, Checks DEF SInv, Types, Order, Decided, CopyInv, StatusInv, ReportInv, RunnerInv,
       Unmade, Unchecked, Checked, Moved, Looking, CheckName, Removing
<1>3. CASE Reject(With(PatchApply, "FAILED"))
           \/ Diagnose(With(PatchApply, "INFRASTRUCTURE_ERROR"), "FILESYSTEM_FAILED")
  BY <1>1, <1>3, StatusConcludes DEF PatchApply
<1>4. QED
  BY <1>2, <1>3 DEF Apply

LEMMA ChangedKeeps ==
    ASSUME Inv, SInv, Changed, Quiet
    PROVE  SInv'
<1>0. pc = "info" /\ outcome = None
  BY DEF Changed, Unchecked, SInv, RunnerInv, Inv, TypeOK, Control
<1>1. /\ step = "changed" /\ Ahead /\ Shape(checks) /\ target = "staging"
      /\ UNCHANGED << check, others, copy, pristine, reread >>
      /\ checks[1] = "PASSED" /\ \A j \in Check \ { 1 } : checks[j] = "NOT_RUN"
      /\ check' \in CheckName /\ python' \in BOOLEAN
  BY Checks DEF Changed, Ahead, Unchecked, SInv, Types, CopyInv, StatusInv
<1>2. CASE /\ python' = TRUE /\ step' = "run" /\ UNCHANGED result
           /\ checks' = With(ChangedFiles, "PASSED")
  <2>1. /\ Shape(checks') /\ \A j \in Check \ { 2 } : checks'[j] = checks[j]
        /\ checks'[2] = "PASSED"
    BY <1>1, <1>2, WithShape DEF CheckStatus, ChangedFiles
  <2>2. QED
    BY <1>0, <1>1, <1>2, <2>1, Checks DEF SInv, Types, Order, Decided, CopyInv, StatusInv, ReportInv, RunnerInv,
       Unmade, Unchecked, Checked, Moved, Looking, CheckName, Removing, Answer
<1>3. CASE /\ python' = FALSE /\ step' = "candidate" /\ UNCHANGED result
           /\ checks' = [i \in Check |-> IF i \in Language THEN "NOT_APPLICABLE" ELSE "PASSED"]
  <2>1. /\ Shape(checks') /\ \A j \in Language : checks'[j] = "NOT_APPLICABLE"
        /\ checks'[1] = "PASSED" /\ checks'[2] = "PASSED"
    BY <1>3, Checks DEF Shape, CheckStatus
  <2>2. QED
    BY <1>1, <1>3, <2>1, Checks DEF SInv, Types, Order, Decided, CopyInv, StatusInv, ReportInv, RunnerInv,
       Unmade, Unchecked, Checked, Moved, Looking, CheckName, Removing, Answer
<1>4. CASE Reject(With(ChangedFiles, "FAILED"))
           \/ Diagnose(With(ChangedFiles, "INFRASTRUCTURE_ERROR"), "FILESYSTEM_FAILED")
  BY <1>1, <1>4, StatusConcludes DEF ChangedFiles
<1>5. QED
  BY <1>2, <1>3, <1>4 DEF Changed

LEMMA IntegrityKeeps ==
    ASSUME SInv, Integrity, Quiet
    PROVE  SInv'
<1>1. /\ step = "candidate" /\ Ahead /\ target = "staging" /\ UNCHANGED << others, copy, seen >>
      /\ check' = "integrity" /\ python' \in BOOLEAN
  BY DEF Integrity, Ahead, Checked, SInv, Types, CopyInv
<1>2. CASE Go("snapshot")
  BY <1>1, <1>2 DEF SInv, Types, Order, Decided, CopyInv, StatusInv, ReportInv, RunnerInv,
     Unmade, Unchecked, Checked, Moved, Looking, CheckName, Removing
<1>3. CASE Diagnose(With(ChangedFiles, "INFRASTRUCTURE_ERROR"), "INTEGRITY_FAILED")
  BY <1>1, <1>3, StatusConcludes DEF ChangedFiles, CheckName
<1>4. QED
  BY <1>2, <1>3 DEF Integrity

LEMMA PublishKeeps ==
    ASSUME SInv, Publish, Quiet
    PROVE  SInv'
<1>1. /\ step = "publish" /\ Ahead /\ Shape(checks) /\ target = "staging" /\ place = "staging"
      /\ UNCHANGED << check, others, seen >>
  BY DEF Publish, Ahead, Checked, SInv, Types, CopyInv
<1>2. CASE Rename(TRUE) /\ target' = "published" /\ Go("reread")
  BY <1>1, <1>2 DEF Rename, SInv, Types, Order, Decided, CopyInv, StatusInv, ReportInv, RunnerInv,
     Unmade, Unchecked, Checked, Moved, Looking, CheckName, Removing
<1>3. CASE Rename(FALSE) /\ UNCHANGED target /\ Diagnose(checks, "INTEGRITY_FAILED")
  BY <1>1, <1>3, Diagnosed, Concludes DEF Rename, SInv, Types
<1>4. QED
  BY <1>2, <1>3 DEF Publish

LEMMA RereadKeeps ==
    ASSUME SInv, Reread, Quiet
    PROVE  SInv'
<1>1. /\ step = "reread" /\ Ahead /\ Shape(checks) /\ target = "published" /\ check' = "last"
      /\ UNCHANGED << others, copy, pristine, taken, python >> /\ reread' = candidate
  BY DEF Reread, Ahead, Moved, SInv, Types, CopyInv
<1>2. CASE candidate = taken /\ Go("snapshot")
  BY <1>1, <1>2 DEF SInv, Types, Order, Decided, CopyInv, StatusInv, ReportInv, RunnerInv,
     Unmade, Unchecked, Checked, Moved, Looking, CheckName, Removing
<1>3. CASE Diagnose(checks, "INTEGRITY_FAILED")
  BY <1>1, <1>3, Diagnosed, Concludes DEF SInv, Types, CheckName
<1>4. QED
  BY <1>2, <1>3 DEF Reread

\* Anything else that is raised.
LEMMA BreaksKeeps ==
    ASSUME SInv, Breaks, Quiet
    PROVE  SInv'
<1>1. /\ Ahead /\ Shape(checks) /\ UNCHANGED << check, others, copy, seen >>
      /\ check \in CheckName /\ python \in BOOLEAN /\ altered \in BOOLEAN
      /\ place \in { "none", "staging", "published" }
      /\ target = None => place = "none"
  BY DEF Breaks, Ahead, Unmade, Unchecked, Checked, Moved, Looking, SInv, Types, CopyInv, CheckName
<1>2. Over(checks)
  BY <1>1, Handled DEF Breaks
<1>3. QED
  BY <1>1, <1>2, Concludes

\* The removals, and what is left of the copy.
LEMMA RemoveCopyKeeps ==
    ASSUME SInv, RemoveCopy, Quiet
    PROVE  SInv'
<1>1. /\ step \in { "remove", "remove_late" } /\ Shape(checks) /\ target \in { "staging", "published" }
      /\ UNCHANGED << check, others, target, seen >>
      /\ result.outcome \in { "CANDIDATE_FAILED", "INFRASTRUCTURE_DIAGNOSTIC" }
      /\ ~process_control /\ step' = "done"
  BY DEF RemoveCopy, SInv, Types, CopyInv, Decided, RunnerInv, Removing, Unmade, Unchecked, Checked, Moved, Looking
<1>2. CASE RemoveTree(TRUE) /\ Go("done")
  BY <1>1, <1>2 DEF RemoveTree, SInv, Types, Order, Decided, CopyInv, StatusInv, ReportInv, RunnerInv,
     Unmade, Unchecked, Checked, Moved, Looking, CheckName, Removing
<1>3. CASE /\ RemoveTree(FALSE) /\ step' = "done"
           /\ checks' = Marked(checks, { "NOT_RUN", "PASSED" })
           /\ result' = Answer("INFRASTRUCTURE_DIAGNOSTIC", "CLEANUP_FAILED")
  <2>1. { "NOT_RUN", "PASSED" } \in SUBSET (CheckStatus \ { "NOT_APPLICABLE" })
    BY DEF CheckStatus
  <2>2. Shape(checks') /\ Worse(checks, checks')
    BY <1>1, <1>3, <2>1, MarkedShape
  <2>3. \A i \in Language : checks'[i] \in { checks[i], "INFRASTRUCTURE_ERROR" }
    BY <2>2, Checks DEF Worse
  <2>4. QED
    BY <1>1, <1>3, <2>2, <2>3 DEF RemoveTree, SInv, Types, Order, Decided, CopyInv, StatusInv, ReportInv,
       RunnerInv, Unmade, Unchecked, Checked, Moved, Looking, CheckName, Removing, Stays, Answer
<1>4. QED
  BY <1>2, <1>3 DEF RemoveCopy

LEMMA RemoveInterruptedKeeps ==
    ASSUME SInv, RemoveInterrupted, Quiet
    PROVE  SInv'
<1>1. place' \in { place, "none" }
  BY DEF RemoveInterrupted, RemoveTree
<1>2. QED
  BY <1>1 DEF RemoveInterrupted, SInv, Types, Order, Decided, CopyInv, StatusInv, ReportInv, RunnerInv,
     Unmade, Unchecked, Checked, Moved, Looking, CheckName, Removing, Stays, Answer

LEMMA InterruptValidateKeeps ==
    ASSUME Inv, SInv, InterruptValidate, Quiet
    PROVE  SInv'
<1>1. /\ step # "done" /\ (step = "run" => pc = "done" /\ outcome = "interrupted")
      /\ UNCHANGED << check, others, target, seen, checks >>
      /\ place' \in { "none", "staging", "published" }
  BY DEF InterruptValidate, MakeDirectory, Rename, SInv, Types
<1>2. target' = None /\ place' # "none" => result' = Answer("interrupted", None)
  BY <1>1 DEF InterruptValidate
<1>3. CASE step' = "done" /\ result' = Answer("interrupted", None)
  BY <1>1, <1>3 DEF SInv, Types, Order, Decided, CopyInv, StatusInv, ReportInv, RunnerInv,
     Unmade, Unchecked, Checked, Moved, Looking, CheckName, Removing, Stays, Answer
<1>4. CASE step' = "remove_interrupted" /\ UNCHANGED result /\ target # None /\ step # "remove_interrupted"
  BY <1>1, <1>4 DEF SInv, Types, Order, Decided, CopyInv, StatusInv, ReportInv, RunnerInv,
     Unmade, Unchecked, Checked, Moved, Looking, CheckName, Removing, Stays, Answer
<1>5. QED
  BY <1>1, <1>3, <1>4 DEF InterruptValidate

LEMMA EditKeeps ==
    ASSUME SInv, Edit, Quiet
    PROVE  SInv'
  BY DEF Edit, SInv, Types, Order, Decided, CopyInv, StatusInv, ReportInv, RunnerInv,
     Unmade, Unchecked, Checked, Moved, Looking, CheckName, Removing, Stays

-----------------------------------------------------------------------------
(* The steps of the runner.                                                 *)

\* The report is only there when the runner had it from a program that ended by itself.
LEMMA RunnerStepKeeps ==
    ASSUME Inv, SInv, RunnerStep
    PROVE  SInv'
<1>1. step = "run" /\ Step /\ UNCHANGED service /\ report' \in { report, NoReport }
  BY DEF RunnerStep, Collected
<1>2. process_control' = process_control
  BY <1>1 DEF Step, Info, Create, Start, Attached, AttachedEnds, RacedInspect, Kill, Wait, Inspect, Rm,
     Fail, Proceed, Raise, codes
<1>3. ASSUME (pc' = "rm" /\ primary' = None /\ ~process_control') \/ outcome' = "result"
      PROVE  report'.written
  <2>1. CASE pc = "inspect"
    <3>1. outcome' = None
      BY <1>1, <2>1 DEF Step, Info, Create, Start, Attached, RacedInspect, Kill, Wait, Inspect, Rm,
         Proceed, Raise, Inv, Control
    <3>2. report.written /\ primary' = None
      BY <1>3, <2>1, <3>1 DEF RunnerStep
    <3>3. UNCHANGED attached_code /\ attached_code = 0
      BY <1>1, <1>3, <2>1, <3>1 DEF Step, Info, Create, Start, Attached, RacedInspect, Kill, Wait,
         Inspect, Rm, Proceed, Raise, Inv, Founded, codes
    <3>4. QED
      BY <3>2, <3>3 DEF RunnerStep, Collected
  <2>2. CASE pc = "rm"
    <3>1. outcome' = "result" /\ primary = None /\ ~process_control /\ UNCHANGED << primary, attached_code >>
      BY <1>1, <1>3, <2>2 DEF Step, Info, Create, Start, Attached, RacedInspect, Kill, Wait,
         Inspect, Rm, Finish, codes, Inv, TypeOK, ErrorCode
    <3>2. report.written /\ attached_code = 0
      BY <1>1, <2>2, <3>1 DEF SInv, ReportInv, Inv, Founded
    <3>3. QED
      BY <3>1, <3>2 DEF RunnerStep, Collected
  <2>3. CASE pc \notin { "inspect", "rm" }
    BY ZenonT(60), <1>1, <1>3, <2>3 DEF Step, Info, Create, Start, Attached, AttachedEnds, RacedInspect, Kill, Wait,
       Inspect, Rm, Fail, Proceed, Raise, Finish, Inv, Control, TypeOK
  <2>4. QED
    BY <2>1, <2>2, <2>3
<1>4. step' = "run" /\ check' = check /\ checks' = checks /\ result' = result /\ UNCHANGED << place, target,
      python, altered, source, candidate, pristine, taken, reread >>
  BY <1>1 DEF service
<1>5. Types' /\ Order' /\ Decided' /\ CopyInv' /\ StatusInv'
  BY <1>1, <1>4 DEF SInv, Types, Order, Decided, CopyInv, StatusInv, Unmade, Unchecked, Checked, Moved,
     Looking, Removing
<1>6. ReportInv'
  BY <1>1, <1>3, <1>4, Checks DEF SInv, ReportInv, StatusInv, Unmade, Unchecked, Looking
<1>7. RunnerInv'
  BY <1>1, <1>4 DEF RunnerInv, Unmade, Unchecked, Checked, Moved, Looking
<1>8. QED
  BY <1>5, <1>6, <1>7 DEF SInv

LEMMA RunnerInterruptKeeps ==
    ASSUME Inv, SInv, RunnerInterrupt
    PROVE  SInv'
<1>1. step = "run" /\ UNCHANGED service /\ report' = NoReport /\ process_control'
  BY DEF RunnerInterrupt, Interrupt
<1>2. outcome' # "result"
  BY DEF RunnerInterrupt, Interrupt, Finish, Inv, Control
<1>3. QED
  BY <1>1, <1>2, Checks DEF service, SInv, Types, Order, Decided, CopyInv, StatusInv, ReportInv, RunnerInv,
     Unmade, Unchecked, Checked, Moved, Looking, Removing, Stays

LEMMA TimeElapsesKeeps ==
    ASSUME Inv, SInv, TimeElapses
    PROVE  SInv'
  BY DEF TimeElapses, Elapse, codes, service, SInv, Types, Order, Decided, CopyInv, StatusInv, ReportInv,
     RunnerInv, Unmade, Unchecked, Checked, Moved, Looking, Removing, Stays

LEMMA ChecksEndKeeps ==
    ASSUME Inv, SInv, ChecksEnd
    PROVE  SInv'
<1>1. /\ UNCHANGED service /\ UNCHANGED << pc, outcome, primary, process_control >>
      /\ container.state = "running"
      /\ report' = report \/ (pc = "attached" /\ report' \in Reports)
  BY DEF ChecksEnd, ContainerEnds, Ends
<1>2. CASE report' = report
  BY <1>1, <1>2 DEF service, SInv, Types, Order, Decided, CopyInv, StatusInv, ReportInv, RunnerInv,
     Unmade, Unchecked, Checked, Moved, Looking, Removing, Stays
<1>3. CASE pc = "attached" /\ report' \in Reports
  <2>1. step = "run" /\ outcome = None
    BY <1>3 DEF SInv, RunnerInv, Inv, Control
  <2>2. QED
    BY <1>1, <1>3, <2>1, Checks DEF service, SInv, Types, Order, Decided, CopyInv, StatusInv, ReportInv,
       RunnerInv, Unmade, Unchecked, Checked, Moved, Looking, Removing, Stays
<1>4. QED
  BY <1>1, <1>2, <1>3

\* The runner fails: no language check passed.
LEMMA RunnerFailedKeeps ==
    ASSUME Inv, SInv, step = "run", RunnerFailed, ~process_control', pc' \in { "info", "create", "done" },
           UNCHANGED << check, others, copy, seen >>
    PROVE  SInv'
<1> DEFINE cs == [i \in Check |-> IF i \in Language THEN "INFRASTRUCTURE_ERROR" ELSE checks[i]]
<1>1. Shape(cs)
  BY Checks DEF SInv, Types, Shape, CheckStatus
<1>2. 3 \in Language /\ cs[3] # "PASSED"
  BY Checks
<1>3. Over(cs)
  BY <1>1, Diagnosed DEF RunnerFailed
<1>4. target = "staging" /\ check' = check /\ check \in CheckName /\ place' = place /\ target' = target
  BY DEF SInv, Types, CopyInv
<1> HIDE DEF cs
<1>5. QED
  BY <1>1, <1>2, <1>3, <1>4, OverKeeps DEF SInv, Types

LEMMA RunnerRefusesKeeps ==
    ASSUME Inv, SInv, RunnerRefuses
    PROVE  SInv'
<1>1. ~process_control
  BY DEF RunnerRefuses, Inv, Control
<1>2. QED
  BY <1>1, RunnerFailedKeeps DEF RunnerRefuses

LEMMA RunnerReturnsKeeps ==
    ASSUME Inv, SInv, RunnerReturns
    PROVE  SInv'
<1>1. /\ step = "run" /\ pc = "done" /\ ~process_control /\ target = "staging" /\ check = "copied"
      /\ UNCHANGED << check, others, copy, seen, runner >>
      /\ report' = [NoReport EXCEPT !.clean = report.clean]
  BY DEF RunnerReturns, Inv, Control, SInv, CopyInv, Order
<1>2. CASE outcome # "result"
  BY <1>1, <1>2, RunnerFailedKeeps DEF RunnerReturns
<1>3. CASE outcome = "result"
  <2>1. report \in Reports
    BY <1>1, <1>3 DEF SInv, ReportInv, NoReport
  <2>2. /\ step' = "candidate" /\ UNCHANGED result
        /\ checks' = [i \in Check |-> IF i \in Language THEN report.statuses[i - 2] ELSE checks[i]]
    BY <1>3 DEF RunnerReturns
  <2>3. \A i \in Language :
            checks'[i] = report.statuses[i - 2]
            /\ checks'[i] \in { "PASSED", "FAILED", "INFRASTRUCTURE_ERROR" }
    BY <2>1, <2>2, CleanReport, Checks
  <2>4. checks'[1] = "PASSED" /\ checks'[2] = "PASSED" /\ python = TRUE
    BY <1>1, <2>2, Checks DEF SInv, StatusInv
  <2>5. Shape(checks')
    BY <2>2, <2>3, <2>4, Checks DEF Shape, CheckStatus
  <2>6. (\A i \in Language : checks'[i] = "PASSED") => report'.clean
    <3>1. report'.clean = report.clean
      BY <1>1 DEF NoReport
    <3>2. QED
      BY <2>1, <2>3, <3>1, CleanReport
  <2>7. Types' /\ Order' /\ Decided' /\ CopyInv'
    BY <1>1, <2>2, <2>5 DEF SInv, Types, Order, Decided, CopyInv, Unmade, Unchecked, Checked, Moved, Looking,
       Removing
  <2>8. StatusInv' /\ RunnerInv'
    BY <1>1, <1>3, <2>2, <2>3, <2>4 DEF SInv, StatusInv, RunnerInv, Unmade, Unchecked, Checked, Moved, Looking
  <2>9. ReportInv'
    BY <2>2, <2>6 DEF ReportInv, Unmade, Unchecked, Looking
  <2>10. QED
    BY <2>7, <2>8, <2>9 DEF SInv
<1>4. QED
  BY <1>2, <1>3

-----------------------------------------------------------------------------
(* The theorems.                                                            *)

LEMMA ChecksNextInv == ChecksInv /\ [ChecksNext]_allVars => ChecksInv'
<1> SUFFICES ASSUME ChecksInv, [ChecksNext]_allVars PROVE ChecksInv'
  OBVIOUS
<1> USE DEF ChecksInv
<1>1. Inv'
  <2>1. UNCHANGED allVars => UNCHANGED vars
    BY DEF allVars, vars
  <2>2. QED
    BY <2>1, RunnerNext, NextInv
<1>2. CASE UNCHANGED allVars
  BY <1>1, <1>2 DEF allVars, service, codes, SInv, Types, Order, Decided, CopyInv, StatusInv, ReportInv, RunnerInv,
     Unmade, Unchecked, Checked, Moved, Looking, Removing, Stays
<1>3. CASE ServiceStep /\ Quiet
  BY <1>1, <1>3, RequestKeeps, SnapshotKeeps, FingerprintKeeps, MkdirKeeps, CopyKeeps, ApplyKeeps, ChangedKeeps,
     IntegrityKeeps, PublishKeeps, RereadKeeps, RemoveCopyKeeps, RemoveInterruptedKeeps DEF ServiceStep
<1>4. CASE Progress
  BY <1>1, <1>3, <1>4, RunnerStepKeeps, RunnerReturnsKeeps, InterruptValidateKeeps DEF Progress
<1>5. CASE RunnerInterrupt \/ TimeElapses \/ ChecksEnd \/ RunnerRefuses
  BY <1>1, <1>5, RunnerInterruptKeeps, TimeElapsesKeeps, ChecksEndKeeps, RunnerRefusesKeeps
<1>6. CASE (InterruptValidate \/ Breaks \/ Edit) /\ Quiet
  BY <1>1, <1>6, InterruptValidateKeeps, BreaksKeeps, EditKeeps
<1>7. QED
  BY <1>1, <1>2, <1>4, <1>5, <1>6 DEF ChecksNext

\* The inductive invariant of validate and its runner.
THEOREM ChecksInvariant == ChecksSpec => []ChecksInv
  BY ChecksInitInv, ChecksNextInv, PTL DEF ChecksSpec

\* validate answers with one of its results: the blame is never put where its own
\* validator refuses it.
THEOREM ValidateAnswers == ChecksSpec => []AlwaysAnswers
<1>1. ChecksInv => AlwaysAnswers
  BY DEF ChecksInv, SInv, Decided, AlwaysAnswers
<1>2. QED
  BY <1>1, ChecksInvariant, PTL

\* What passes with changed Python files has a report of a program and tools with
\* which nothing was wrong, and that found nothing.
THEOREM CleanPasses == ChecksSpec => []PassesOnlyTheClean
<1>1. ChecksInv => PassesOnlyTheClean
  BY DEF ChecksInv, SInv, StatusInv, ReportInv, PassesOnlyTheClean
<1>2. QED
  BY <1>1, ChecksInvariant, PTL

\* Of the copy nothing stays but a published candidate, unless the result tells, and
\* of the container nothing either.
THEOREM CandidateStays == ChecksSpec => []OnlyTheCandidateStays
<1>1. ChecksInv => OnlyTheCandidateStays
  BY DEF ChecksInv, Inv, Control, NothingLeftBehind, SInv, CopyInv, Stays, OnlyTheCandidateStays
<1>2. QED
  BY <1>1, ChecksInvariant, PTL

\* An interrupt in the runner ends validate as one, whatever else fails.
THEOREM ValidateIsInterrupted == ChecksSpec => []InterruptEndsValidate
<1>1. ChecksInv => InterruptEndsValidate
  BY DEF ChecksInv, SInv, RunnerInv, InterruptEndsValidate
<1>2. QED
  BY <1>1, ChecksInvariant, PTL

\* Only the looks at the prepared repository end in a verdict that rests on the checks.
Verdict ==
    /\ result.outcome = None /\ result'.outcome \in { "PASSED", "CANDIDATE_FAILED" }
    /\ checks'[ChangedFiles] = "PASSED"

LEMMA VerdictIsJudged ==
    ASSUME ChecksInv, ChecksNext, Verdict
    PROVE  Fingerprint /\ check \in { "integrity", "last" } /\ Passing
<1> USE DEF Verdict, Answer
<1>1. Shape(checks) /\ result' # result
  BY DEF ChecksInv, SInv, Types
<1>2. \A cs, code : Shape(cs) /\ code \in DiagnosticCode => ~Diagnose(cs, code)
  BY Diagnosed
<1>3. ~Breaks
  BY <1>1, Handled DEF Breaks
<1>4. ~(\E i \in { 1, 2 }, code \in DiagnosticCode : Diagnose(With(i, "INFRASTRUCTURE_ERROR"), code))
  BY <1>1, <1>2, WithShape DEF CheckStatus
<1>5. ~Failing
  BY <1>1, <1>2, <1>4 DEF Failing, ChangedFiles
<1>6. ~Apply
  <2>1. ASSUME Apply, Reject(With(PatchApply, "FAILED"))
        PROVE  FALSE
    <3>1. checks[2] = "NOT_RUN" /\ \A i \in Check : checks[i] = "NOT_RUN"
      BY <2>1, Checks DEF Apply, ChecksInv, SInv, StatusInv
    <3> DEFINE cs == With(1, "FAILED")
    <3>2. Shape(cs) /\ cs[1] = "FAILED" /\ \A i \in Check \ { 1 } : cs[i] = "NOT_RUN"
      BY <1>1, <3>1, WithShape DEF CheckStatus
    <3>3. Reject(cs)
      BY <2>1 DEF PatchApply
    <3> HIDE DEF cs
    <3>4. checks' = cs
      BY <3>2, <3>3, Rejected, Checks DEF StatusesOf, Shape
    <3>5. QED
      BY <3>2, <3>4, Checks DEF ChangedFiles
  <2>2. QED
    BY <1>1, <1>4, <2>1 DEF Apply, PatchApply
<1>7. ~Changed
  <2>1. ASSUME Changed, Reject(With(ChangedFiles, "FAILED"))
        PROVE  FALSE
    <3>1. checks[1] = "PASSED" /\ \A i \in Language : checks[i] = "NOT_RUN"
      BY <2>1 DEF Changed, ChecksInv, SInv, StatusInv
    <3> DEFINE cs == With(2, "FAILED")
    <3>2. Shape(cs) /\ cs[2] = "FAILED" /\ \A i \in Check \ { 2 } : cs[i] = checks[i]
      BY <1>1, WithShape DEF CheckStatus
    <3>3. Reject(cs)
      BY <2>1 DEF ChangedFiles
    <3> HIDE DEF cs
    <3>4. \A i \in Check : cs[i] # "INFRASTRUCTURE_ERROR"
      BY <3>1, <3>2, Checks
    <3>5. "FAILED" \in StatusesOf(cs) /\ "INFRASTRUCTURE_ERROR" \notin StatusesOf(cs)
      BY ZenonT(60), <3>2, <3>4, Checks DEF StatusesOf, Shape
    <3>6. checks' = cs
      BY <3>2, <3>3, <3>5, Rejected
    <3>7. QED
      BY <3>2, <3>6, Checks DEF ChangedFiles
  <2>2. QED
    BY <1>1, <1>4, <2>1 DEF Changed, ChangedFiles
<1>8. ~Request /\ ~Mkdir /\ ~Copy /\ ~Publish /\ ~Reread /\ ~Snapshot
  BY <1>1, <1>2, <1>5 DEF Request, Mkdir, Copy, Publish, Reread, Snapshot
<1>9. ~Integrity
  BY <1>1, <1>4 DEF Integrity, ChangedFiles
<1>10. ~RemoveCopy /\ ~RemoveInterrupted /\ ~InterruptValidate /\ ~Edit
  <2>1. ~RemoveCopy
    <3>1. RemoveCopy => result' \in { result, Answer("INFRASTRUCTURE_DIAGNOSTIC", "CLEANUP_FAILED") }
      BY DEF RemoveCopy
    <3>2. QED
      BY <1>1, <3>1
  <2>2. ~RemoveInterrupted
    BY DEF RemoveInterrupted
  <2>3. ~InterruptValidate
    <3>1. InterruptValidate => result' \in { result, Answer("interrupted", None) }
      BY DEF InterruptValidate
    <3>2. QED
      BY <1>1, <3>1
  <2>4. ~Edit
    BY <1>1 DEF Edit
  <2>5. QED
    BY <2>1, <2>2, <2>3, <2>4
<1>11. ~RunnerFailed
  <2>1. Shape([i \in Check |-> IF i \in Language THEN "INFRASTRUCTURE_ERROR" ELSE checks[i]])
    BY <1>1, Checks DEF Shape, CheckStatus
  <2>2. QED
    BY <1>2, <2>1 DEF RunnerFailed
<1>12. ~RunnerStep /\ ~RunnerInterrupt /\ ~TimeElapses /\ ~ChecksEnd /\ ~RunnerRefuses /\ ~RunnerReturns
  BY <1>1, <1>11 DEF RunnerStep, RunnerInterrupt, TimeElapses, ChecksEnd, RunnerRefuses, RunnerReturns, service
<1>13. Fingerprint
  BY <1>3, <1>6, <1>7, <1>8, <1>9, <1>10, <1>12 DEF ChecksNext, Progress, ServiceStep
<1>14. QED
  BY <1>1, <1>5, <1>13 DEF Fingerprint, Passing

Rightly ==
    /\ ~altered
    /\ IF python THEN /\ container.ran /\ ~container.killed /\ ~container.oom
                      /\ container.code = 0
       ELSE ~container.ran
    /\ result'.outcome = "PASSED" =>
          reread = taken /\ place = "published" /\ checks = checks'

LEMMA VerdictRight ==
    ASSUME ChecksInv, ChecksNext, Verdict
    PROVE  Rightly
<1>1. Fingerprint /\ check \in { "integrity", "last" } /\ Passing /\ step = "fingerprint"
  BY VerdictIsJudged DEF Fingerprint
<1>2. ~altered
  <2>1. ~Failing
    <3>1. Shape(checks) /\ \A cs, code : Shape(cs) /\ code \in DiagnosticCode => ~Diagnose(cs, code)
      BY Diagnosed DEF ChecksInv, SInv, Types, Verdict, Answer
    <3>2. Shape(With(2, "INFRASTRUCTURE_ERROR"))
      BY <3>1, WithShape DEF CheckStatus
    <3>3. QED
      BY <3>1, <3>2 DEF Failing, ChangedFiles
  <2>2. QED
    BY <1>1, <2>1 DEF Fingerprint
<1>3. Checked \/ Moved
  BY <1>1 DEF Checked, Moved, Looking
<1>4. IF python THEN outcome = "result" ELSE container = NoContainer
  BY <1>3 DEF ChecksInv, SInv, RunnerInv, Inv, Control
<1>5. IF python THEN container.ran /\ ~container.killed /\ ~container.oom /\ container.code = 0
      ELSE ~container.ran
  BY <1>4 DEF ChecksInv, Inv, Founded, NoContainer
<1>6. ASSUME result'.outcome = "PASSED"
      PROVE  reread = taken /\ place = "published" /\ checks = checks'
  <2>1. check # "integrity"
    <3>1. ASSUME check = "integrity" PROVE FALSE
      <4>1. Judge /\ Shape(checks)
        BY <1>1, <3>1 DEF Passing, ChecksInv, SInv, Types
      <4>2. CASE "INFRASTRUCTURE_ERROR" \in StatusesOf(checks)
        BY <1>6, <4>1, <4>2, Diagnosed DEF Judge, Answer
      <4>3. CASE "INFRASTRUCTURE_ERROR" \notin StatusesOf(checks) /\ "FAILED" \in StatusesOf(checks)
        BY <1>6, <4>1, <4>3, Rejected DEF Judge, Answer
      <4>4. CASE Go("publish")
        BY <1>6, <4>4 DEF Verdict
      <4>5. QED
        BY <4>1, <4>2, <4>3, <4>4 DEF Judge
    <3>2. QED
      BY <3>1
  <2>2. Moved /\ Looking({ "last" }) /\ check = "last"
    BY <1>1, <2>1 DEF Moved, Looking
  <2>3. reread = taken /\ place = "published"
    BY <2>2 DEF ChecksInv, SInv, CopyInv
  <2>4. ResultValid(checks, "PASSED")
    BY <2>2, CandidateValid DEF ChecksInv
  <2>5. QED
    BY <1>1, <2>2, <2>3, <2>4 DEF Passing
<1>7. QED
  BY <1>2, <1>5, <1>6 DEF Rightly

\* A verdict that rests on the checks is one on the fingerprinted repository and on
\* what ran to its end by itself, and what passes is the copy that was checked.
THEOREM Verdicts == ChecksSpec => VerdictIsOnTheCopy
<1>1. ChecksInv /\ [ChecksNext]_allVars => [Verdict => Rightly]_allVars
  BY VerdictRight
<1>2. QED
  BY <1>1, ChecksInvariant, PTL DEF ChecksSpec, VerdictIsOnTheCopy, Verdict, Rightly
=============================================================================
