--------------------------- MODULE BenchmarkProofs ---------------------------
(***************************************************************************)
(* Theorems about the benchmark, for any number of cases.                   *)
(***************************************************************************)
EXTENDS Benchmark, RepairRunProofs, FiniteSetTheorems

(***************************************************************************)
(* The inductive invariant: that of the case that runs, and what each mode  *)
(* may rely on.                                                             *)
(***************************************************************************)
BenchmarkTyped ==
    /\ mode \in Mode /\ spare \in BOOLEAN /\ stop \in BOOLEAN
    /\ results \in Seq(CaseResult) /\ paid \in Seq(Nat) /\ Len(paid) = Len(results)
    /\ Len(results) <= Cases
    /\ code \in { NoExit, 0, 6, 130 } /\ (mode = "exited" <=> code # NoExit)

\* A case of its own, with a provider of its own.
Afresh ==
    /\ st = InitialState(TRUE) /\ node = "prepare_repository" /\ graph = "running"
    /\ billed = 0
    /\ phase = "load" /\ workspace = "absent" /\ projected = None
    /\ interrupted = FALSE /\ exit = NoExit
    /\ storing = "prepare" /\ temporary = "absent" /\ artifact = None /\ published = FALSE

\* What is left of one case is gone before the next begins, and a case begins only
\* if none was broken.
OneByOne ==
    /\ provider = "live" /\ opening = 0
    /\ mode \notin { "case", "exited" } => Afresh
    /\ mode = "case" => ~Broken /\ Len(results) < Cases /\ exit # 2
    /\ mode \in { "build", "write", "summary", "print", "return" } => Len(results) = Cases

\* The files there are, and those the writer knows of, before each step.
On == [ mkdir |-> {}, sync |-> {}, write_json |-> {}, write_md |-> { "json_tmp" },
        link_json |-> Temporaries, unlink_json |-> { "json_tmp", "md_tmp", "json" },
        link_md |-> { "md_tmp", "json" }, unlink_md |-> { "md_tmp", "json", "md" },
        confirm |-> Pair ]
Known == [ mkdir |-> {}, sync |-> {}, write_json |-> {}, write_md |-> { "json_tmp" },
           link_json |-> Temporaries, unlink_json |-> Temporaries,
           link_md |-> { "md_tmp", "json" }, unlink_md |-> { "md_tmp", "json" },
           confirm |-> Pair ]

OnDisk ==
    /\ writing \in WriteStep \cup WriteEnd \cup { "cleanup" }
    /\ writing \in WriteStep =>
           files = On[writing] /\ owned = Known[writing] /\ (directory <=> writing # "mkdir")
    /\ writing = "published" => files = Pair /\ directory
    /\ writing = "cleanup" => directory
    /\ writing = "failed" => files = {}
    /\ writing = "gone" => files = {} /\ ~directory

\* Nothing is written before there is a report, and what follows it has one.
InTurn ==
    /\ mode \in { "preflight", "next", "case", "build" } => writing = "mkdir"
    /\ mode \in { "summary", "print", "return" } => writing = "published"
    /\ mode = "complain" => writing \in { "mkdir", "gone", "uncertain", "failed" }

\* An interrupt is on its way out of a case, or of the writer.
Stopping ==
    /\ Interrupting /\ (interrupted /\ phase = "exited" => exit = 130)
    /\ interrupted => mode \in { "case", "exited" }
    /\ stop /\ mode # "exited" =>
           mode = "write" /\ writing \in { "cleanup", "gone", "uncertain", "failed" }

BenchmarkInv ==
    /\ LedgerInv
    /\ BenchmarkTyped /\ OneByOne /\ OnDisk /\ InTurn /\ Stopping
    /\ FailsFast /\ UsageIsItsOwn /\ ExitIsHonest

(***************************************************************************)
(* The results.                                                             *)
(***************************************************************************)
LEMMA Appended ==
    ASSUME BenchmarkTyped, NEW r \in CaseResult, NEW n \in Nat, Record(r, n)
    PROVE  /\ results' \in Seq(CaseResult) /\ paid' \in Seq(Nat)
           /\ Len(results') = Len(results) + 1 /\ Len(paid') = Len(paid) + 1
           /\ \A j \in DOMAIN results :
                  j \in DOMAIN results' /\ results'[j] = results[j] /\ paid'[j] = paid[j]
           /\ \A j \in DOMAIN results' :
                  j \in DOMAIN results \/ (j = Len(results) + 1 /\ results'[j] = r /\ paid'[j] = n)
           /\ \A i, j \in DOMAIN results' : i < j => i \in DOMAIN results
<1>1. results \in Seq(CaseResult) /\ paid \in Seq(Nat) /\ Len(paid) = Len(results)
  BY DEF BenchmarkTyped
<1>2. results' = Append(results, r) /\ paid' = Append(paid, n)
  BY DEF Record
<1>3. /\ DOMAIN results = 1..Len(results) /\ Len(results) \in Nat
      /\ DOMAIN paid = 1..Len(paid)
  BY <1>1, LenProperties
<1>4. /\ results' \in Seq(CaseResult) /\ paid' \in Seq(Nat)
      /\ Len(results') = Len(results) + 1 /\ Len(paid') = Len(paid) + 1
      /\ \A j \in 1..Len(results) : results'[j] = results[j] /\ paid'[j] = paid[j]
      /\ results'[Len(results) + 1] = r /\ paid'[Len(results) + 1] = n
  BY <1>1, <1>2, AppendProperties
<1>5. DOMAIN results' = 1..(Len(results) + 1)
  BY <1>4, LenProperties
<1>6. QED
  BY <1>3, <1>4, <1>5

\* What a result has to be when it is recorded.
Fitting(r, n) ==
    /\ r \in CaseResult /\ n \in Nat
    /\ r.class = "NOT_RUN" <=> Broken
    /\ r.class = "NOT_RUN" => n = 0
    /\ r.class \in { "REPAIR_SUCCESS", "REPAIR_FAILURE" } => r.usage = n
    /\ r.usage \in { NoUsage } \cup 0..n

LEMMA RecordedResults ==
    ASSUME BenchmarkTyped, FailsFast, UsageIsItsOwn, Len(results) < Cases, mode' # "case",
           NEW r, NEW n, Fitting(r, n), Record(r, n)
    PROVE  /\ results' \in Seq(CaseResult) /\ paid' \in Seq(Nat) /\ Len(paid') = Len(results')
           /\ Len(results') <= Cases
           /\ FailsFast' /\ UsageIsItsOwn'
<1>1. /\ results' \in Seq(CaseResult) /\ paid' \in Seq(Nat)
      /\ Len(results') = Len(results) + 1 /\ Len(paid') = Len(paid) + 1
      /\ \A j \in DOMAIN results :
             j \in DOMAIN results' /\ results'[j] = results[j] /\ paid'[j] = paid[j]
      /\ \A j \in DOMAIN results' :
             j \in DOMAIN results \/ (j = Len(results) + 1 /\ results'[j] = r /\ paid'[j] = n)
      /\ \A i, j \in DOMAIN results' : i < j => i \in DOMAIN results
  BY Appended DEF Fitting
<1>2. Len(results') <= Cases /\ Len(paid') = Len(results')
  BY <1>1, CasesAssumption, LenProperties DEF BenchmarkTyped
<1>3. DOMAIN results = 1..Len(results) /\ DOMAIN results' = 1..(Len(results) + 1)
      /\ Len(results) \in Nat
  BY <1>1, LenProperties DEF BenchmarkTyped
<1>4. ASSUME NEW j \in DOMAIN results'
      PROVE  /\ results'[j].class = "NOT_RUN" <=>
                    \E i \in 1..(j - 1) : results'[i].class = "EXECUTION_FAILURE"
             /\ results'[j].class = "NOT_RUN" => paid'[j] = 0
  <2>1. CASE j \in DOMAIN results
    <3>1. \A i \in 1..(j - 1) : results'[i] = results[i]
      BY <1>1, <1>3, <2>1
    <3>2. QED
      BY SMTT(60), <1>1, <2>1, <3>1 DEF FailsFast
  <2>2. CASE j = Len(results) + 1 /\ results'[j] = r /\ paid'[j] = n
    <3>1. Broken <=> \E i \in 1..(j - 1) : results'[i].class = "EXECUTION_FAILURE"
      <4>1. 1..(j - 1) = DOMAIN results
        BY <1>3, <2>2
      <4>2. QED
        BY <1>1, <4>1 DEF Broken
    <3>2. QED
      BY <2>2, <3>1 DEF Fitting
  <2>3. QED
    BY <1>1, <2>1, <2>2
<1>5. UsageIsItsOwn'
  BY <1>1 DEF UsageIsItsOwn, Fitting
<1>6. QED
  BY <1>1, <1>2, <1>4, <1>5 DEF FailsFast

\* A result without evidence of an execution fits a case that paid whatever it did.
LEMMA BareFits ==
    ASSUME NEW class \in { "EXECUTION_FAILURE", "NOT_RUN" }, NEW n \in Nat,
           class = "NOT_RUN" <=> Broken, class = "NOT_RUN" => n = 0
    PROVE  Fitting(Bare(class), n)
<1>1. Bare(class) \in CaseResult
  BY DEF Bare, CaseResult, Classification, UsageValue, NoUsage
<1>2. Bare(class).class = class /\ Bare(class).usage = NoUsage
  BY DEF Bare
<1>3. QED
  BY <1>1, <1>2 DEF Fitting

\* A case that was executed to its end has all its calls in its usage.
LEMMA ExecutedFits ==
    ASSUME LedgerInv, provider = "live", opening = 0, ~Broken, phase = "report"
    PROVE  Fitting(ResultOf(st.terminal_route, st.model_usage), Own)
<1> DEFINE r == [ class |-> Classify(st.terminal_route), outcome |-> st.terminal_route,
                  usage |-> st.model_usage ]
<1>1. /\ st.terminal_route \in TerminalOutcome \cup {None} /\ st.model_usage \in UsageValue
      /\ billed \in 0..2 /\ Valid(st) /\ graph \in { "running", "returned", "raised", "interrupted" }
  BY DEF LedgerInv, EvidenceInv, RunInv, IInv, TypeOK, OrchestrationState
<1>2. Own \in Nat /\ Own = billed
  BY <1>1 DEF Own
<1>3. Classify(st.terminal_route) \in { "REPAIR_SUCCESS", "REPAIR_FAILURE", "EXECUTION_FAILURE" }
  BY DEF Classify
<1>4. r \in CaseResult
  BY <1>1, <1>3 DEF CaseResult, Classification
<1>5. st.model_usage \in { NoUsage } \cup 0..Own
  BY <1>1, <1>2 DEF LedgerInv, Counts, UsageValue, NoUsage
<1>6. ASSUME r.class \in { "REPAIR_SUCCESS", "REPAIR_FAILURE" }, st.model_usage # NoUsage
      PROVE  st.model_usage = Own
  <2>1. st.terminal_route \notin { None, Infra }
    BY <1>6 DEF Classify, RepairFailure, None, Infra
  <2>2. graph = "returned"
    BY <2>1, BlankRoute DEF LedgerInv, Vanished
  <2>3. 5 <= Executed(st)
    BY <1>1, <1>6 DEF Valid, ValidEvidence
  <2>4. st.failure_override # Infra
    BY <1>1, <2>1 DEF Valid, ValidTerminal, route_terminal, Infra, None
  <2>5. QED
    BY <1>2, <2>2, <2>3, <2>4 DEF LedgerInv, EvidenceInv, UsageAccounted
<1>7. CASE CaseResultValid(r)
  <2>1. ResultOf(st.terminal_route, st.model_usage) = r
    BY <1>7 DEF ResultOf
  <2>2. r.class # "NOT_RUN" /\ r.usage = st.model_usage
    BY <1>3
  <2>3. r.class \in { "REPAIR_SUCCESS", "REPAIR_FAILURE" } => r.usage = Own
    BY <1>6, <1>7 DEF CaseResultValid
  <2>4. QED
    BY <1>2, <1>4, <1>5, <2>1, <2>2, <2>3 DEF Fitting
<1>8. CASE ~CaseResultValid(r)
  <2>1. ResultOf(st.terminal_route, st.model_usage) = Bare("EXECUTION_FAILURE")
    BY <1>8 DEF ResultOf
  <2>2. QED
    BY <1>2, <2>1, BareFits
<1>9. QED
  BY <1>7, <1>8

(***************************************************************************)
(* The report.                                                              *)
(***************************************************************************)
Of(class) == { i \in DOMAIN results : results[i].class = class }

LEMMA Counted_Of ==
    ASSUME BenchmarkTyped, NEW class
    PROVE  /\ IsFiniteSet(Of(class)) /\ Count(results, class) = Cardinality(Of(class))
           /\ Cardinality(Of(class)) \in Nat
<1>1. IsFiniteSet(DOMAIN results)
  BY LenProperties, FS_Interval DEF BenchmarkTyped
<1>2. IsFiniteSet(Of(class))
  BY <1>1, FS_Subset DEF Of
<1>3. QED
  BY <1>2, FS_CardinalityType DEF Count, Of

LEMMA DisjointUnion ==
    ASSUME NEW S, IsFiniteSet(S), NEW T, IsFiniteSet(T), S \cap T = {}
    PROVE  /\ IsFiniteSet(S \cup T)
           /\ Cardinality(S \cup T) = Cardinality(S) + Cardinality(T)
<1>1. /\ IsFiniteSet(S \cup T)
      /\ Cardinality(S \cup T) = Cardinality(S) + Cardinality(T) - Cardinality(S \cap T)
  BY FS_Union
<1>2. Cardinality(S \cap T) = 0
  BY FS_EmptySet
<1>3. Cardinality(S) \in Nat /\ Cardinality(T) \in Nat
  BY FS_CardinalityType
<1>4. QED
  BY <1>1, <1>2, <1>3

LEMMA TypedResults ==
    ASSUME BenchmarkTyped
    PROVE  \A i \in DOMAIN results : results[i].class \in Classification
<1> SUFFICES ASSUME NEW i \in DOMAIN results
             PROVE  results[i].class \in Classification
  OBVIOUS
<1>1. results \in Seq(CaseResult)
  BY DEF BenchmarkTyped
<1>2. i \in 1..Len(results)
  BY <1>1, LenProperties
<1>3. results[i] \in CaseResult
  BY <1>1, <1>2, ElementOfSeq
<1>4. QED
  BY <1>3 DEF CaseResult

\* Every result is counted once.
LEMMA CountedOnce ==
    ASSUME BenchmarkTyped
    PROVE  Len(results) = Count(results, "REPAIR_SUCCESS") + Count(results, "REPAIR_FAILURE")
                          + Count(results, "EXECUTION_FAILURE") + Count(results, "NOT_RUN")
<1> DEFINE A == Of("REPAIR_SUCCESS")
           B == Of("REPAIR_FAILURE")
           C == Of("EXECUTION_FAILURE")
           D == Of("NOT_RUN")
<1>1. /\ IsFiniteSet(A) /\ IsFiniteSet(B) /\ IsFiniteSet(C) /\ IsFiniteSet(D)
      /\ Cardinality(A) \in Nat /\ Cardinality(B) \in Nat /\ Cardinality(C) \in Nat
      /\ Cardinality(D) \in Nat
      /\ Count(results, "REPAIR_SUCCESS") = Cardinality(A)
      /\ Count(results, "REPAIR_FAILURE") = Cardinality(B)
      /\ Count(results, "EXECUTION_FAILURE") = Cardinality(C)
      /\ Count(results, "NOT_RUN") = Cardinality(D)
  BY Counted_Of
<1>2. A \cap B = {} /\ (A \cup B) \cap C = {} /\ ((A \cup B) \cup C) \cap D = {}
  BY DEF Of
<1>3. DOMAIN results = 1..Len(results) /\ Len(results) \in Nat
  BY LenProperties DEF BenchmarkTyped
<1>4. DOMAIN results = ((A \cup B) \cup C) \cup D
  <2>1. \A i \in DOMAIN results : results[i].class \in Classification
    BY TypedResults
  <2>2. QED
    BY <2>1 DEF Of, Classification
<1>5. Cardinality(DOMAIN results) = Len(results)
  <2>1. ASSUME NEW n \in Nat
        PROVE  Cardinality(1..n) = n
    BY FS_Interval
  <2>2. QED
    BY <1>3, <2>1
<1> HIDE DEF A, B, C, D
<1>6. IsFiniteSet(A \cup B) /\ Cardinality(A \cup B) = Cardinality(A) + Cardinality(B)
  BY <1>1, <1>2, DisjointUnion
<1>7. /\ IsFiniteSet((A \cup B) \cup C)
      /\ Cardinality((A \cup B) \cup C) = Cardinality(A \cup B) + Cardinality(C)
  BY <1>1, <1>2, <1>6, DisjointUnion
<1>8. Cardinality(((A \cup B) \cup C) \cup D) = Cardinality((A \cup B) \cup C) + Cardinality(D)
  BY <1>1, <1>2, <1>7, DisjointUnion
<1>9. QED
  BY <1>1, <1>4, <1>5, <1>6, <1>7, <1>8

LEMMA CountedBroken ==
    ASSUME BenchmarkTyped, FailsFast
    PROVE  /\ Count(results, "EXECUTION_FAILURE") \in 0..1
           /\ Count(results, "EXECUTION_FAILURE") = 0 <=> ~Broken
<1> DEFINE C == Of("EXECUTION_FAILURE")
<1>1. IsFiniteSet(C) /\ Count(results, "EXECUTION_FAILURE") = Cardinality(C)
  BY Counted_Of
<1>2. C = {} <=> ~Broken
  BY DEF Of, Broken
<1>3. Cardinality(C) = 0 <=> C = {}
  BY <1>1, FS_EmptySet
<1>4. ASSUME NEW i \in C
      PROVE  C = { i }
  <2>1. DOMAIN results = 1..Len(results) /\ Len(results) \in Nat
    BY LenProperties DEF BenchmarkTyped
  <2>2. ASSUME NEW j \in C, NEW k \in C, j < k
        PROVE  FALSE
    <3>1. j \in 1..(k - 1) /\ k \in DOMAIN results
      BY <2>1, <2>2 DEF Of
    <3>2. results[k].class = "NOT_RUN"
      BY <2>2, <3>1 DEF FailsFast, Of
    <3>3. QED
      BY <3>2 DEF Of
  <2>3. \A j \in C : j \in Int
    BY <2>1 DEF Of
  <2>4. QED
    BY <2>2, <2>3
<1> HIDE DEF C
<1>5. CASE C = {}
  BY <1>1, <1>2, <1>3, <1>5
<1>6. CASE C # {}
  <2>1. Cardinality(C) = 1
    BY <1>4, <1>6, FS_Singleton
  <2>2. QED
    BY <1>1, <1>2, <1>6, <2>1
<1>7. QED
  BY <1>5, <1>6

LEMMA ReportAgreed ==
    ASSUME BenchmarkTyped, FailsFast, Len(results) = Cases, NEW ls
    PROVE  ReportValid(ReportOf(results, ls)) <=> Summed(ls) = Accumulated(ls)
<1> DEFINE r == ReportOf(results, ls)
<1>1. /\ r.cases = results /\ r.calls = Total(Measured(results))
      /\ r.latencies = ls /\ r.latency = Summed(ls)
      /\ r.attempted = Len(results) - Count(results, "NOT_RUN")
      /\ r.not_run = Count(results, "NOT_RUN")
      /\ r.success = Count(results, "REPAIR_SUCCESS") /\ r.failure = Count(results, "REPAIR_FAILURE")
      /\ r.broken = Count(results, "EXECUTION_FAILURE")
      /\ r.completed = (Count(results, "EXECUTION_FAILURE") = 0)
  BY Zenon DEF ReportOf, Completed
<1> HIDE DEF r
<1>2. /\ Count(results, "NOT_RUN") \in Nat /\ Count(results, "REPAIR_SUCCESS") \in Nat
      /\ Count(results, "REPAIR_FAILURE") \in Nat /\ Count(results, "EXECUTION_FAILURE") \in 0..1
  BY Counted_Of, CountedBroken
<1>3. r.attempted = r.success + r.failure + r.broken /\ r.attempted + r.not_run = Cases
  BY <1>1, <1>2, CountedOnce, CasesAssumption
<1>4. Len(r.cases) = Cases /\ r.broken <= 1 /\ r.calls = Total(Measured(r.cases))
  BY <1>1, <1>2
<1>5. r.completed = (r.broken = 0)
  BY <1>1
<1>6. ASSUME NEW i \in 1..Cases, NEW j \in 1..Cases, i < j,
             results[i].class = "EXECUTION_FAILURE"
      PROVE  results[j].class = "NOT_RUN"
  <2>1. i \in 1..(j - 1) /\ j \in DOMAIN results
    BY <1>6, LenProperties DEF BenchmarkTyped
  <2>2. QED
    BY <1>6, <2>1 DEF FailsFast
<1>7. r.latency = Accumulated(r.latencies) <=> Summed(ls) = Accumulated(ls)
  BY <1>1
<1>8. ReportValid(r) <=> r.latency = Accumulated(r.latencies)
  BY <1>1, <1>3, <1>4, <1>5, <1>6 DEF ReportValid
<1>9. QED
  BY <1>7, <1>8 DEF r

\* A benchmark that is complete repaired every case, or failed for its candidate.
LEMMA CompletedAll ==
    ASSUME BenchmarkTyped, FailsFast, Len(results) = Cases, Completed(results)
    PROVE  /\ ~Broken
           /\ \A i \in 1..Cases : results[i].class \in { "REPAIR_SUCCESS", "REPAIR_FAILURE" }
<1>1. ~Broken
  BY CountedBroken DEF Completed
<1>2. \A i \in 1..Cases : i \in DOMAIN results /\ results[i].class \in Classification
  BY TypedResults, LenProperties DEF BenchmarkTyped
<1>3. ASSUME NEW i \in 1..Cases
      PROVE  results[i].class \notin { "EXECUTION_FAILURE", "NOT_RUN" }
  <2>1. \A j \in 1..(i - 1) : j \in DOMAIN results
    BY <1>2
  <2>2. QED
    BY <1>1, <1>2, <2>1 DEF Broken, FailsFast
<1>4. QED
  BY <1>1, <1>2, <1>3 DEF Classification

(***************************************************************************)
(* Each step keeps the invariant.                                           *)
(***************************************************************************)
Rest ==
    /\ BenchmarkTyped /\ OneByOne /\ OnDisk /\ InTurn /\ Stopping
    /\ FailsFast /\ UsageIsItsOwn /\ ExitIsHonest

LEMMA FreshLedger == Afresh /\ provider = "live" => LedgerInv
<1> SUFFICES ASSUME Afresh, provider = "live"
             PROVE  LedgerInv
  OBVIOUS
<1>1. \E configured \in BOOLEAN : st = InitialState(configured)
  BY DEF Afresh
<1>2. RunStarted
  BY <1>1, Zenon DEF Afresh, RunStarted, Started, StoreInit, None
<1>3. QED
  BY <1>2, RunInit_Ledger

LEMMA SameCase ==
    ASSUME LedgerInv, UNCHANGED caseVars
    PROVE  LedgerInv'
BY RunNext_Ledger DEF caseVars, vars

LEMMA SameAfresh ==
    ASSUME UNCHANGED caseVars
    PROVE  Afresh' = Afresh
BY DEF caseVars, graphVars, runVars, storeVars, Afresh

LEMMA SameDisk ==
    ASSUME UNCHANGED << writing, directory, files, owned >>, OnDisk
    PROVE  OnDisk'
BY DEF OnDisk

LEMMA SameResults ==
    ASSUME UNCHANGED << results, paid >>, FailsFast, UsageIsItsOwn, mode' = "case" => ~Broken
    PROVE  FailsFast' /\ UsageIsItsOwn'
BY DEF FailsFast, UsageIsItsOwn, Broken

\* The steps that leave the case, the writer and the results as they are.
LEMMA OtherStep ==
    ASSUME BenchmarkInv, UNCHANGED << caseVars, writing, directory, files, owned, results, paid >>,
           stop' \in BOOLEAN, spare' \in BOOLEAN, code' \in { NoExit, 0, 6, 130 },
           mode' \in Mode, mode' = "exited" <=> code' # NoExit,
           OneByOne', InTurn', ExitIsHonest', Stopping',
           mode' = "case" => ~Broken
    PROVE  Rest'
<1>1. BenchmarkTyped'
  BY DEF BenchmarkInv, BenchmarkTyped
<1>2. OnDisk' /\ FailsFast' /\ UsageIsItsOwn'
  BY SameDisk, SameResults DEF BenchmarkInv
<1>3. QED
  BY <1>1, <1>2 DEF Rest

LEMMA ProviderKept ==
    ASSUME RunNext
    PROVE  provider' = provider
<1>1. CASE GraphStep
  BY <1>1
  DEF GraphStep, Step, prepare_repository, run_baseline, classify_failure, select_relevant_context,
      plan_repair, generate_patch, validate_patch_policy, run_static_checks, verify_in_sandbox,
      evaluate_candidate, route_result
<1>2. CASE ~GraphStep
  BY <1>2
  DEF RunNext, RunStep, LoadCase, CreateWorkspace, InitializeState, LeaveGraph, Project,
      CleanupRemoves, CleanupFails, Publish, Published, Report, InterruptEarly, InterruptRun,
      InterruptCleanup, InterruptPublication, InterruptReport, graphVars
<1>3. QED
  BY <1>1, <1>2

\* A case that is interrupted is left with 130, whether the interrupt came before or
\* comes with the step.
LEMMA InterruptedLeaves ==
    ASSUME RunInv, RunInv', Interrupting, RunNext, interrupted', phase' = "exited"
    PROVE  exit' = 130
<1>1. CASE interrupted
  <2>1. exit' \in { NoExit, 130 }
    BY <1>1, InterruptedStep
  <2>2. QED
    BY <2>1 DEF RunInv
<1>2. CASE ~interrupted
  BY <1>2
  DEF RunNext, RunStep, LoadCase, CreateWorkspace, InitializeState, GraphStep, LeaveGraph, Project,
      CleanupRemoves, CleanupFails, Publish, Published, Report, InterruptEarly, InterruptRun,
      InterruptCleanup, InterruptPublication, InterruptReport, Leave, runVars, RunInv, StoreEnd
<1>3. QED
  BY <1>1, <1>2

LEMMA CaseStep_Rest ==
    ASSUME BenchmarkInv, CaseStep
    PROVE  Rest'
<1>1. LedgerInv' /\ RunInv /\ RunInv'
  BY RunNext_Ledger DEF BenchmarkInv, CaseStep, LedgerInv, EvidenceInv
<1>2. mode = "case" /\ mode' = "case" /\ RunNext /\ exit' # 2
      /\ UNCHANGED << writing, directory, files, owned, stop, results, paid, spare, opening, code >>
  BY DEF CaseStep, writerVars, benchmarkVars
<1>3. BenchmarkTyped'
  BY <1>2 DEF BenchmarkInv, BenchmarkTyped
<1>4. OneByOne'
  BY <1>2, ProviderKept DEF BenchmarkInv, OneByOne, Broken
<1>5. OnDisk' /\ InTurn'
  BY <1>2, SameDisk DEF BenchmarkInv, InTurn
<1>6. Stopping'
  <2>1. Interrupting'
    BY <1>1, <1>2, InterruptingStep DEF BenchmarkInv, Stopping
  <2>2. interrupted' /\ phase' = "exited" => exit' = 130
    BY <1>1, <1>2, InterruptedLeaves DEF BenchmarkInv, Stopping
  <2>3. QED
    BY <1>2, <2>1, <2>2 DEF BenchmarkInv, Stopping
<1>7. FailsFast' /\ UsageIsItsOwn'
  BY <1>2, SameResults DEF BenchmarkInv, OneByOne
<1>8. ExitIsHonest'
  BY <1>2 DEF BenchmarkInv, BenchmarkTyped, ExitIsHonest, NoExit
<1>9. QED
  BY <1>3, <1>4, <1>5, <1>6, <1>7, <1>8 DEF Rest

\* Where no case runs, nothing is interrupted.
LEMMA NotInterrupted ==
    ASSUME OneByOne, mode \notin { "case", "exited" }
    PROVE  Afresh /\ interrupted = FALSE /\ billed = 0
BY DEF OneByOne, Afresh

LEMMA Preflight_Rest ==
    ASSUME BenchmarkInv, Preflight
    PROVE  Rest'
<1>1. /\ mode = "preflight" /\ mode' \in { "next", "complain" } /\ code = NoExit /\ code' = NoExit
      /\ UNCHANGED << caseVars, writing, directory, files, owned, stop, results, paid, opening >>
      /\ spare' \in BOOLEAN
  BY DEF Preflight, Fail, writerVars, BenchmarkInv, BenchmarkTyped
<1>2. Afresh' /\ provider' = provider /\ UNCHANGED << interrupted, phase, storing, exit >>
  BY <1>1, NotInterrupted, SameAfresh
  DEF BenchmarkInv, caseVars, graphVars, runVars, storeVars
<1>3. OneByOne'
  BY <1>1, <1>2 DEF BenchmarkInv, OneByOne
<1>4. InTurn' /\ Stopping'
  BY <1>1, <1>2 DEF BenchmarkInv, InTurn, Stopping, Interrupting, Afresh
<1>5. ExitIsHonest'
  BY <1>1 DEF ExitIsHonest, NoExit
<1>6. QED
  BY <1>1, <1>3, <1>4, <1>5, OtherStep DEF BenchmarkInv, BenchmarkTyped, Mode

\* A case that is not to be run, or could not be given a provider, is recorded while
\* nothing runs.
LEMMA RecordedIdle ==
    ASSUME BenchmarkInv, mode = "next", mode' = "next", Len(results) < Cases,
           NEW r, NEW n, Fitting(r, n), Record(r, n), spare' \in BOOLEAN, opening' = 0,
           UNCHANGED << caseVars, writing, directory, files, owned, stop, code >>
    PROVE  Rest'
<1>1. /\ results' \in Seq(CaseResult) /\ paid' \in Seq(Nat) /\ Len(paid') = Len(results')
      /\ Len(results') <= Cases /\ FailsFast' /\ UsageIsItsOwn'
  BY RecordedResults DEF BenchmarkInv
<1>2. code = NoExit /\ code' = NoExit
  BY DEF BenchmarkInv, BenchmarkTyped
<1>3. BenchmarkTyped'
  BY <1>1, <1>2 DEF BenchmarkInv, BenchmarkTyped, Mode
<1>4. Afresh' /\ provider' = provider /\ UNCHANGED << interrupted, phase, storing, exit >>
  BY NotInterrupted, SameAfresh
  DEF BenchmarkInv, caseVars, graphVars, runVars, storeVars
<1>5. OneByOne' /\ OnDisk' /\ InTurn' /\ Stopping'
  BY <1>4, SameDisk DEF BenchmarkInv, OneByOne, InTurn, Stopping, Interrupting, Afresh
<1>6. ExitIsHonest'
  BY <1>2 DEF ExitIsHonest, NoExit
<1>7. QED
  BY <1>1, <1>3, <1>5, <1>6 DEF Rest

LEMMA NextCase_Rest ==
    ASSUME BenchmarkInv, NextCase
    PROVE  Rest'
<1>1. /\ mode = "next" /\ opening = 0 /\ spare' = spare /\ opening' = opening /\ code = NoExit
      /\ UNCHANGED << caseVars, writing, directory, files, owned, stop, code >>
      /\ Len(results) \in Nat /\ Len(results) <= Cases
  BY LenProperties DEF NextCase, writerVars, BenchmarkInv, BenchmarkTyped, OneByOne
<1>2. CASE Len(results) = Cases
  <2>1. mode' = "build" /\ UNCHANGED << results, paid >>
    BY <1>2 DEF NextCase
  <2>2. Afresh' /\ provider' = provider /\ UNCHANGED << interrupted, phase, storing, exit >>
    BY <1>1, NotInterrupted, SameAfresh
    DEF BenchmarkInv, caseVars, graphVars, runVars, storeVars
  <2>3. OneByOne'
    BY <1>1, <1>2, <2>1, <2>2 DEF BenchmarkInv, OneByOne
  <2>4. InTurn' /\ Stopping' /\ ExitIsHonest'
    BY <1>1, <2>1, <2>2
    DEF BenchmarkInv, InTurn, Stopping, Interrupting, Afresh, ExitIsHonest, NoExit
  <2>5. QED
    BY <1>1, <2>1, <2>3, <2>4, OtherStep DEF BenchmarkInv, BenchmarkTyped, Mode
<1>3. CASE Len(results) # Cases
  <2>1. Broken /\ Record(Bare("NOT_RUN"), 0) /\ mode' = "next"
    BY <1>1, <1>3 DEF NextCase
  <2>2. Fitting(Bare("NOT_RUN"), 0)
    BY <2>1, BareFits
  <2>3. Len(results) < Cases
    BY <1>1, <1>3, CasesAssumption
  <2>4. QED
    BY <1>1, <2>1, <2>2, <2>3, RecordedIdle DEF BenchmarkInv, BenchmarkTyped
<1>4. QED
  BY <1>2, <1>3

LEMMA StartCase_Rest ==
    ASSUME BenchmarkInv, StartCase
    PROVE  Rest'
<1>1. Afresh /\ interrupted = FALSE /\ billed = 0 /\ stop = FALSE
  BY NotInterrupted DEF BenchmarkInv, StartCase, Stopping
<1>2. /\ mode = "next" /\ Len(results) < Cases /\ ~Broken /\ opening' = 0 /\ spare' = FALSE
      /\ UNCHANGED << caseVars, writing, directory, files, owned, stop, code >>
      /\ code = NoExit
  BY <1>1 DEF StartCase, writerVars, BenchmarkInv, BenchmarkTyped
<1>3. CASE mode' = "case" /\ UNCHANGED << results, paid >>
  <2>1. Afresh' /\ provider' = provider /\ UNCHANGED << interrupted, phase, storing, exit >>
    BY <1>1, <1>2, SameAfresh DEF caseVars, graphVars, runVars, storeVars
  <2>2. ~Broken' /\ exit' # 2
    BY <1>2, <1>3, <2>1 DEF Broken, Afresh, NoExit
  <2>3. OneByOne'
    BY <1>2, <1>3, <2>1, <2>2 DEF BenchmarkInv, OneByOne
  <2>4. InTurn' /\ Stopping' /\ ExitIsHonest'
    BY <1>1, <1>2, <1>3, <2>1
    DEF BenchmarkInv, InTurn, Stopping, Interrupting, Afresh, ExitIsHonest, NoExit
  <2>5. QED
    BY <1>2, <1>3, <2>3, <2>4, OtherStep DEF BenchmarkInv, BenchmarkTyped, Mode
<1>4. CASE Record(Bare("EXECUTION_FAILURE"), 0) /\ mode' = mode
  <2>1. Fitting(Bare("EXECUTION_FAILURE"), 0)
    BY <1>2, BareFits
  <2>2. QED
    BY <1>2, <1>4, <2>1, RecordedIdle
<1>5. QED
  BY <1>3, <1>4 DEF StartCase

LEMMA EndCase_Rest ==
    ASSUME BenchmarkInv, EndCase
    PROVE  Rest' /\ Afresh' /\ provider' = "live"
<1>1. Afresh' /\ provider' = "live"
  BY DEF EndCase, NewCase, Afresh
<1>2. /\ mode = "case" /\ mode' = "next" /\ provider = "live" /\ opening = 0
      /\ ~Broken /\ Len(results) < Cases /\ code = NoExit /\ stop = FALSE
      /\ UNCHANGED << writing, directory, files, owned, stop, spare, opening, code >>
  BY DEF EndCase, writerVars, BenchmarkInv, BenchmarkTyped, OneByOne, Stopping
<1>3. billed \in 0..2 /\ LedgerInv
  BY DEF BenchmarkInv, LedgerInv, EvidenceInv, RunInv, IInv, TypeOK
<1>4. \E r, n : Fitting(r, n) /\ Record(r, n)
  <2>1. CASE phase = "report" /\ Record(ResultOf(st.terminal_route, st.model_usage), Own)
    BY <1>2, <1>3, <2>1, ExecutedFits
  <2>2. CASE Record(Bare("EXECUTION_FAILURE"), Own)
    <3>1. Own \in Nat
      BY <1>2, <1>3 DEF Own
    <3>2. QED
      BY <1>2, <2>2, <3>1, BareFits
  <2>3. QED
    BY <2>1, <2>2 DEF EndCase
<1>5. /\ results' \in Seq(CaseResult) /\ paid' \in Seq(Nat) /\ Len(paid') = Len(results')
      /\ Len(results') <= Cases /\ FailsFast' /\ UsageIsItsOwn'
  BY <1>2, <1>4, RecordedResults DEF BenchmarkInv
<1>6. BenchmarkTyped'
  BY <1>2, <1>5 DEF BenchmarkInv, BenchmarkTyped, Mode
<1>7. OneByOne'
  BY <1>1, <1>2 DEF BenchmarkInv, OneByOne
<1>8. OnDisk' /\ InTurn' /\ Stopping'
  BY <1>1, <1>2, SameDisk DEF BenchmarkInv, InTurn, Stopping, Interrupting, Afresh
<1>9. ExitIsHonest'
  BY <1>2 DEF ExitIsHonest, NoExit
<1>10. QED
  BY <1>1, <1>5, <1>6, <1>7, <1>8, <1>9 DEF Rest

\* The steps outside the cases and the writer, and the end of the process.
LEMMA OutsideStep ==
    ASSUME BenchmarkInv, mode \notin { "case", "exited" }, mode' \in Mode \ { "case" },
           UNCHANGED << caseVars, results, paid, spare, opening >>,
           mode' \in { "build", "write", "summary", "print", "return" } => Len(results) = Cases,
           stop' \in BOOLEAN,
           stop' /\ mode' # "exited" =>
               mode' = "write" /\ writing' \in { "cleanup", "gone", "uncertain", "failed" },
           code' \in { NoExit, 0, 6, 130 }, mode' = "exited" <=> code' # NoExit,
           OnDisk', InTurn', ExitIsHonest'
    PROVE  Rest'
<1>1. Afresh' /\ provider' = provider /\ UNCHANGED << interrupted, phase, storing, exit >>
  BY NotInterrupted, SameAfresh
  DEF BenchmarkInv, caseVars, graphVars, runVars, storeVars
<1>2. BenchmarkTyped'
  BY DEF BenchmarkInv, BenchmarkTyped
<1>3. OneByOne'
  BY <1>1 DEF BenchmarkInv, OneByOne
<1>4. Stopping'
  BY <1>1 DEF Stopping, Interrupting, Afresh
<1>5. FailsFast' /\ UsageIsItsOwn'
  BY SameResults DEF BenchmarkInv
<1>6. QED
  BY <1>2, <1>3, <1>4, <1>5 DEF Rest

LEMMA Build_Rest ==
    ASSUME BenchmarkInv, Build
    PROVE  Rest'
<1>1. /\ mode = "build" /\ mode' \in { "write", "complain" } /\ code = NoExit /\ code' = NoExit
      /\ Len(results) = Cases /\ stop = FALSE /\ writing = "mkdir"
      /\ UNCHANGED << caseVars, writing, directory, files, owned, stop, results, paid, spare, opening >>
  BY DEF Build, Fail, writerVars, BenchmarkInv, BenchmarkTyped, OneByOne, Stopping, InTurn
<1>2. OnDisk' /\ InTurn' /\ ExitIsHonest'
  BY <1>1, SameDisk DEF BenchmarkInv, InTurn, ExitIsHonest, NoExit
<1>3. QED
  BY <1>1, <1>2, OutsideStep DEF Mode

LEMMA Summary_Rest ==
    ASSUME BenchmarkInv, Summarize \/ ShowSummary
    PROVE  Rest'
<1>1. /\ mode \in { "summary", "print" } /\ mode' \in { "print", "return" }
      /\ code = NoExit /\ code' = NoExit
      /\ Len(results) = Cases /\ stop = FALSE /\ writing = "published"
      /\ UNCHANGED << caseVars, writing, directory, files, owned, stop, results, paid, spare, opening >>
  BY DEF Summarize, ShowSummary, writerVars, BenchmarkInv, BenchmarkTyped, OneByOne, Stopping, InTurn
<1>2. OnDisk' /\ InTurn' /\ ExitIsHonest'
  BY <1>1, SameDisk DEF BenchmarkInv, InTurn, ExitIsHonest, NoExit
<1>3. QED
  BY <1>1, <1>2, OutsideStep DEF Mode

LEMMA PrintFails_Rest ==
    ASSUME BenchmarkInv, PrintFails
    PROVE  Rest'
<1>1. /\ mode = "print" /\ mode' = "write" /\ code = NoExit /\ code' = NoExit
      /\ Len(results) = Cases /\ writing = "published" /\ writing' = "cleanup"
      /\ stop' \in BOOLEAN /\ directory' = directory
      /\ UNCHANGED << caseVars, results, paid, spare, opening >>
  BY DEF PrintFails, Discard, BenchmarkInv, BenchmarkTyped, OneByOne, InTurn
<1>2. OnDisk' /\ InTurn' /\ ExitIsHonest'
  BY <1>1 DEF BenchmarkInv, OnDisk, InTurn, ExitIsHonest, NoExit, WriteStep, Following
<1>3. QED
  BY <1>1, <1>2, OutsideStep DEF Mode

LEMMA Written_Rest ==
    ASSUME BenchmarkInv, Written
    PROVE  Rest'
<1>1. /\ mode = "write" /\ code = NoExit /\ Len(results) = Cases /\ stop \in BOOLEAN
      /\ writing \in { "published", "gone", "uncertain", "failed" }
      /\ writing = "published" => stop = FALSE
      /\ UNCHANGED << caseVars, writing, directory, files, owned, stop, results, paid, spare, opening >>
  BY DEF Written, WriteEnd, writerVars, BenchmarkInv, BenchmarkTyped, OneByOne, Stopping
<1>2. \/ writing = "published" /\ mode' = "summary" /\ code' = NoExit
      \/ writing # "published" /\ mode' = "exited" /\ code' = 130 /\ stop
      \/ writing # "published" /\ mode' = "complain" /\ code' = NoExit /\ ~stop
  BY <1>1 DEF Written, Exit, Fail
<1>3. OnDisk' /\ InTurn'
  BY <1>1, <1>2, SameDisk DEF BenchmarkInv, InTurn
<1>4. ExitIsHonest'
  BY <1>1, <1>2, <1>3 DEF OnDisk, ExitIsHonest, NoExit
<1>5. QED
  BY <1>1, <1>2, <1>3, <1>4, OutsideStep DEF Mode, NoExit

LEMMA Return_Rest ==
    ASSUME BenchmarkInv, Return
    PROVE  Rest'
<1>1. /\ mode = "return" /\ mode' = "exited" /\ Len(results) = Cases
      /\ writing = "published" /\ files = Pair /\ stop \in BOOLEAN
      /\ UNCHANGED << caseVars, writing, directory, files, owned, stop, results, paid, spare, opening >>
  BY DEF Return, Exit, writerVars, BenchmarkInv, BenchmarkTyped, OneByOne, InTurn, OnDisk
<1>2. \/ code' = 0 /\ Completed(results)
      \/ code' = 6 /\ ~Completed(results)
  BY DEF Return, Exit
<1>3. OnDisk' /\ InTurn'
  BY <1>1, SameDisk DEF BenchmarkInv, InTurn
<1>4. ASSUME code' = 0, Completed(results)
      PROVE  ExitIsHonest'
  <2>1. \A i \in 1..Cases : results[i].class \in { "REPAIR_SUCCESS", "REPAIR_FAILURE" }
    BY <1>1, <1>4, CompletedAll DEF BenchmarkInv
  <2>2. QED
    BY <1>1, <1>4, <2>1 DEF ExitIsHonest
<1>5. ASSUME code' = 6, ~Completed(results)
      PROVE  ExitIsHonest'
  <2>1. Broken
    BY <1>5, CountedBroken DEF Completed, BenchmarkInv
  <2>2. Broken'
    BY <1>1, <2>1 DEF Broken
  <2>3. QED
    BY <1>1, <1>5, <2>2 DEF ExitIsHonest
<1>6. ExitIsHonest'
  BY <1>2, <1>4, <1>5
<1>7. QED
  BY <1>1, <1>2, <1>3, <1>6, OutsideStep DEF Mode, NoExit

LEMMA Complain_Rest ==
    ASSUME BenchmarkInv, Complain
    PROVE  Rest'
<1>1. /\ mode = "complain" /\ mode' = "exited" /\ code' = 6 /\ stop \in BOOLEAN
      /\ UNCHANGED << caseVars, writing, directory, files, owned, stop, results, paid, spare, opening >>
  BY DEF Complain, Exit, writerVars, BenchmarkInv, BenchmarkTyped
<1>2. OnDisk' /\ InTurn'
  BY <1>1, SameDisk DEF BenchmarkInv, InTurn
<1>3. ExitIsHonest'
  BY <1>1, <1>2
  DEF BenchmarkInv, InTurn, OnDisk, On, WriteStep, Following, ExitIsHonest, NoExit, Pair
<1>4. QED
  BY <1>1, <1>2, <1>3, OutsideStep DEF Mode, NoExit

\* An interrupt, of a case or where the benchmark handles none.
LEMMA InterruptBenchmark_Rest ==
    ASSUME BenchmarkInv, InterruptedCase \/ InterruptBenchmark
    PROVE  Rest'
<1>1. /\ mode \in { "preflight", "next", "build", "summary", "return", "complain", "case" }
      /\ mode' = "exited" /\ code' = 130 /\ stop' = TRUE
      /\ UNCHANGED << caseVars, writing, directory, files, owned, results, paid, spare, opening >>
  BY DEF InterruptedCase, InterruptBenchmark, Exit
<1>2. OnDisk' /\ InTurn'
  BY <1>1, SameDisk DEF BenchmarkInv, InTurn
<1>3. ExitIsHonest'
  BY <1>1, <1>2
  DEF BenchmarkInv, InTurn, OnDisk, On, WriteStep, Following, ExitIsHonest, NoExit
<1>4. CASE mode # "case"
  BY <1>1, <1>2, <1>3, <1>4, OutsideStep DEF Mode, NoExit
<1>5. CASE mode = "case"
  <2>1. UNCHANGED << interrupted, phase, storing, exit, provider >>
    BY <1>1 DEF caseVars, graphVars, runVars, storeVars
  <2>2. BenchmarkTyped' /\ OneByOne' /\ Stopping'
    BY <1>1, <1>5, <2>1
    DEF BenchmarkInv, BenchmarkTyped, OneByOne, Stopping, Interrupting, Mode, NoExit
  <2>3. FailsFast' /\ UsageIsItsOwn'
    BY <1>1, SameResults DEF BenchmarkInv
  <2>4. QED
    BY <1>2, <1>3, <2>2, <2>3 DEF Rest
<1>6. QED
  BY <1>4, <1>5

\* What the files are, and those the writer knows of, follows its steps.
LEMMA Advance_OnDisk ==
    ASSUME OnDisk, Advance
    PROVE  OnDisk' /\ writing' \in WriteStep \cup { "published" } /\ stop' = stop
<1>1. /\ writing \in WriteStep /\ writing' = Following[writing] /\ directory' = TRUE
      /\ files' = Made /\ stop' = stop
      /\ files = On[writing] /\ owned = Known[writing]
  BY DEF Advance, OnDisk
<1>2. owned' = IF writing \in { "link_json", "link_md" } THEN owned ELSE files'
  BY DEF Advance
<1>3. CASE writing = "mkdir"
  BY <1>1, <1>2, <1>3 DEF WriteStep, Following, WriteEnd, OnDisk, On, Known, Made
<1>4. CASE writing = "sync"
  BY <1>1, <1>2, <1>4 DEF WriteStep, Following, WriteEnd, OnDisk, On, Known, Made
<1>5. CASE writing = "write_json"
  BY <1>1, <1>2, <1>5 DEF WriteStep, Following, WriteEnd, OnDisk, On, Known, Made
<1>6. CASE writing = "write_md"
  BY <1>1, <1>2, <1>6 DEF WriteStep, Following, WriteEnd, OnDisk, On, Known, Made, Temporaries
<1>7. CASE writing = "link_json"
  BY <1>1, <1>2, <1>7 DEF WriteStep, Following, WriteEnd, OnDisk, On, Known, Made, Temporaries
<1>8. CASE writing = "unlink_json"
  BY <1>1, <1>2, <1>8 DEF WriteStep, Following, WriteEnd, OnDisk, On, Known, Made, Temporaries
<1>9. CASE writing = "link_md"
  BY <1>1, <1>2, <1>9 DEF WriteStep, Following, WriteEnd, OnDisk, On, Known, Made
<1>10. CASE writing = "unlink_md"
  BY <1>1, <1>2, <1>10 DEF WriteStep, Following, WriteEnd, OnDisk, On, Known, Made, Pair
<1>11. CASE writing = "confirm"
  BY <1>1, <1>2, <1>11 DEF WriteStep, Following, WriteEnd, OnDisk, On, Known, Made, Pair
<1>12. QED
  BY <1>1, <1>3, <1>4, <1>5, <1>6, <1>7, <1>8, <1>9, <1>10, <1>11 DEF WriteStep, Following

LEMMA Write_Rest ==
    ASSUME BenchmarkInv, Write
    PROVE  Rest'
<1>1. /\ mode = "write" /\ mode' = "write" /\ code = NoExit /\ code' = NoExit
      /\ Len(results) = Cases /\ OnDisk /\ stop \in BOOLEAN
      /\ stop => writing \in { "cleanup", "gone", "uncertain", "failed" }
      /\ UNCHANGED << caseVars, results, paid, spare, opening >>
  BY DEF Write, benchmarkVars, BenchmarkInv, BenchmarkTyped, OneByOne, Stopping
<1>2. /\ OnDisk' /\ stop' \in BOOLEAN
      /\ stop' => writing' \in { "cleanup", "gone", "uncertain", "failed" }
  <2>1. CASE Advance
    <3>1. writing \in WriteStep
      BY <2>1 DEF Advance
    <3>2. stop = FALSE
      BY <1>1, <3>1 DEF WriteStep, Following
    <3>3. QED
      BY <1>1, <2>1, <3>2, Advance_OnDisk
  <2>2. CASE Break
    <3>1. /\ writing \in WriteStep /\ files = On[writing] /\ (directory <=> writing # "mkdir")
          /\ stop' \in BOOLEAN
      BY <1>1, <2>2 DEF Break, OnDisk
    <3>2. CASE writing \in Guarded
      <4>1. writing' = "cleanup" /\ directory' = directory
        BY <2>2, <3>2 DEF Break
      <4>2. QED
        BY <3>1, <3>2, <4>1 DEF OnDisk, Guarded, WriteStep, Following
    <3>3. CASE writing \notin Guarded
      <4>1. writing' = "failed" /\ files' = files
        BY <2>2, <3>3 DEF Break
      <4>2. files = {}
        BY <3>1, <3>3 DEF Guarded, WriteStep, Following, On
      <4>3. QED
        BY <3>1, <4>1, <4>2 DEF OnDisk, WriteStep, WriteEnd, Following
    <3>4. QED
      BY <3>2, <3>3
  <2>3. CASE Cleanup
    BY <1>1, <2>3 DEF Cleanup, OnDisk, WriteStep, WriteEnd, Following
  <2>4. QED
    BY <2>1, <2>2, <2>3 DEF Write
<1>3. InTurn' /\ ExitIsHonest'
  BY <1>1 DEF InTurn, ExitIsHonest, NoExit
<1>4. QED
  BY <1>1, <1>2, <1>3, OutsideStep DEF Mode

LEMMA BenchmarkNext_Rest ==
    ASSUME BenchmarkInv, [BenchmarkNext]_allVars
    PROVE  Rest' /\ (LedgerInv' \/ (Afresh' /\ provider' = "live"))
<1>1. CASE CaseStep
  BY <1>1, CaseStep_Rest, RunNext_Ledger DEF BenchmarkInv, CaseStep
<1>2. CASE EndCase
  BY <1>2, EndCase_Rest
<1>3. CASE UNCHANGED allVars
  <2>1. LedgerInv'
    BY <1>3, SameCase DEF allVars, BenchmarkInv
  <2>2. UNCHANGED << interrupted, phase, storing, exit, provider >>
    BY <1>3 DEF allVars, caseVars, graphVars, runVars, storeVars
  <2>3. Afresh' = Afresh
    BY <1>3, SameAfresh DEF allVars
  <2>4. /\ UNCHANGED << writing, directory, files, owned, stop >>
        /\ UNCHANGED << mode, results, paid, spare, opening, code >>
    BY <1>3 DEF allVars, writerVars, benchmarkVars
  <2>5. BenchmarkTyped' /\ OnDisk' /\ InTurn'
    BY <2>4, SameDisk DEF BenchmarkInv, BenchmarkTyped, InTurn
  <2>6. OneByOne' /\ Stopping'
    BY <2>2, <2>3, <2>4 DEF BenchmarkInv, OneByOne, Broken, Stopping, Interrupting
  <2>7. FailsFast' /\ UsageIsItsOwn'
    BY <2>4, SameResults DEF BenchmarkInv, FailsFast
  <2>8. ExitIsHonest'
    BY <2>4 DEF BenchmarkInv, ExitIsHonest, Broken
  <2>9. QED
    BY <2>1, <2>5, <2>6, <2>7, <2>8 DEF Rest
<1>4. CASE \/ Preflight \/ NextCase \/ StartCase \/ InterruptedCase \/ Build \/ Write \/ Written
           \/ Summarize \/ ShowSummary \/ PrintFails \/ Return \/ Complain \/ InterruptBenchmark
  <2>1. UNCHANGED caseVars
    BY <1>4
    DEF Preflight, NextCase, StartCase, InterruptedCase, Build, Write, Written, Summarize,
        ShowSummary, PrintFails, Return, Complain, InterruptBenchmark
  <2>2. LedgerInv'
    BY <2>1, SameCase DEF BenchmarkInv
  <2>3. Rest'
    BY <1>4, Preflight_Rest, NextCase_Rest, StartCase_Rest, InterruptBenchmark_Rest, Build_Rest,
       Write_Rest, Written_Rest, Summary_Rest, PrintFails_Rest, Return_Rest, Complain_Rest
  <2>4. QED
    BY <2>2, <2>3
<1>5. QED
  BY <1>1, <1>2, <1>3, <1>4 DEF BenchmarkNext, BenchmarkStep

LEMMA BenchmarkInit_Rest ==
    ASSUME BenchmarkInit
    PROVE  Rest /\ LedgerInv
<1>1. /\ writing = "mkdir" /\ directory = FALSE /\ files = {} /\ owned = {} /\ stop = FALSE
      /\ mode = "preflight" /\ results = << >> /\ paid = << >>
      /\ spare = FALSE /\ opening = 0 /\ code = NoExit
  BY DEF BenchmarkInit, WriterInit
<1>2. RunStarted /\ provider = "live"
  BY RunInit_RunStarted DEF BenchmarkInit
<1>3. Afresh
  <2>1. PICK configured \in BOOLEAN : configured /\ st = InitialState(configured)
    BY <1>2 DEF BenchmarkInit, RunInit, Init, None
  <2>2. st = InitialState(TRUE)
    BY <2>1, configured = TRUE
  <2>3. QED
    BY <2>2 DEF BenchmarkInit, RunInit, Init, StoreInit, Afresh, None
<1>4. LedgerInv
  BY <1>2, RunInit_Ledger
<1>5. results \in Seq(CaseResult) /\ paid \in Seq(Nat) /\ Len(results) = 0 /\ Len(paid) = 0
      /\ DOMAIN results = {}
  BY <1>1
<1>6. BenchmarkTyped
  <2>1. 0 <= Cases
    BY CasesAssumption
  <2>2. mode \in Mode /\ mode # "exited"
    BY <1>1 DEF Mode
  <2>3. spare \in BOOLEAN /\ stop \in BOOLEAN
    BY <1>1
  <2>4. QED
    BY <1>1, <1>5, <2>1, <2>2, <2>3, Zenon DEF BenchmarkTyped
<1>7. OneByOne /\ OnDisk /\ InTurn /\ Stopping
  BY <1>1, <1>2, <1>3
  DEF OneByOne, OnDisk, InTurn, Stopping, Interrupting, Afresh, WriteStep, Following, On, Known
<1>8. FailsFast /\ UsageIsItsOwn /\ ExitIsHonest
  BY <1>1, <1>5 DEF FailsFast, UsageIsItsOwn, ExitIsHonest, NoExit
<1>9. QED
  BY <1>4, <1>6, <1>7, <1>8 DEF Rest

LEMMA InterruptedBenchmark ==
    ASSUME BenchmarkInv, stop \/ interrupted, BenchmarkNext
    PROVE  results' = results /\ code' \in { NoExit, 130 }
<1> USE DEF Exit, Fail, benchmarkVars
<1>1. mode # "exited"
  BY DEF BenchmarkNext, BenchmarkStep, CaseStep, Preflight, NextCase, StartCase, EndCase,
     InterruptedCase, Build, Write, Written, Summarize, ShowSummary, PrintFails, Return, Complain,
     InterruptBenchmark
<1>2. code = NoExit
  BY <1>1 DEF BenchmarkInv, BenchmarkTyped
<1>3. CASE stop
  <2>1. mode = "write" /\ writing # "published"
    BY <1>1, <1>3 DEF BenchmarkInv, Stopping
  <2>2. Write \/ Written
    BY <2>1
    DEF BenchmarkNext, BenchmarkStep, CaseStep, Preflight, NextCase, StartCase, EndCase,
        InterruptedCase, Build, Summarize, ShowSummary, PrintFails, Return, Complain,
        InterruptBenchmark
  <2>3. QED
    BY <1>2, <1>3, <2>1, <2>2 DEF Write, Written
<1>4. CASE interrupted
  <2>1. mode = "case" /\ phase # "report" /\ (phase = "exited" => exit = 130)
    BY <1>1, <1>4 DEF BenchmarkInv, Stopping, Interrupting
  <2>2. CaseStep \/ InterruptedCase \/ InterruptBenchmark
    BY <2>1
    DEF BenchmarkNext, BenchmarkStep, Preflight, NextCase, StartCase, EndCase,
        Build, Write, Written, Summarize, ShowSummary, PrintFails, Return, Complain
  <2>3. QED
    BY <1>2, <2>2 DEF CaseStep, InterruptedCase, InterruptBenchmark
<1>5. QED
  BY <1>3, <1>4

(***************************************************************************)
(* The theorems.                                                            *)
(***************************************************************************)

\* Every reachable state of the benchmark satisfies the inductive invariant: each
\* case satisfies that of a repair and begins with nothing of the one before, the
\* files on disk are those of the writer's step, and an interrupt is on its way out.
THEOREM BenchmarkInvariant == BenchmarkSpec => []BenchmarkInv
<1>1. BenchmarkInit => BenchmarkInv
  BY BenchmarkInit_Rest DEF BenchmarkInv, Rest
<1>2. BenchmarkInv /\ [BenchmarkNext]_allVars =>
          Rest' /\ (LedgerInv' \/ (Afresh' /\ provider' = "live"))
  BY BenchmarkNext_Rest
<1>3. Rest /\ LedgerInv => BenchmarkInv
  BY DEF Rest, BenchmarkInv
<1>4. (Afresh /\ provider = "live")' => LedgerInv'
  BY FreshLedger, PTL
<1>5. BenchmarkInv /\ [BenchmarkNext]_allVars => Rest' /\ LedgerInv'
  BY <1>2, <1>4
<1>6. QED
  BY <1>1, <1>3, <1>5, PTL DEF BenchmarkSpec

\* After the first case that could not be executed nothing more is run or paid for,
\* and no case is left out for another reason.
THEOREM AlwaysFailsFast == BenchmarkSpec => []FailsFast
<1>1. BenchmarkInv => FailsFast
  BY DEF BenchmarkInv
<1>2. QED
  BY <1>1, BenchmarkInvariant, PTL

\* The usage of a result is that of its own case: no call is counted in the next
\* case, in none, or twice.
THEOREM UsageAlwaysItsOwn == BenchmarkSpec => []UsageIsItsOwn
<1>1. BenchmarkInv => UsageIsItsOwn
  BY DEF BenchmarkInv
<1>2. QED
  BY <1>1, BenchmarkInvariant, PTL

\* The validator of the report accepts whatever the loop has recorded, for every case
\* and every ending, but for what it makes of the latency: a benchmark that was paid
\* for is without a report because of it exactly if the sum of the latencies and their
\* accumulation are rounded differently.
THEOREM OnlyRoundingIsEverRefused == BenchmarkSpec => []OnlyRoundingIsRefused
<1>1. BenchmarkInv => OnlyRoundingIsRefused
  BY ReportAgreed DEF BenchmarkInv, OneByOne, OnlyRoundingIsRefused
<1>2. QED
  BY <1>1, BenchmarkInvariant, PTL

\* The exit code says what was repaired and what is on disk, through every failure
\* of the writer and of its cleanup.
THEOREM ExitAlwaysHonest == BenchmarkSpec => []ExitIsHonest
<1>1. BenchmarkInv => ExitIsHonest
  BY DEF BenchmarkInv
<1>2. QED
  BY <1>1, BenchmarkInvariant, PTL

\* An interrupt, in whatever case or step, is never lost on its way through the case
\* and the writer's cleanup: nothing is recorded and the exit code is 130.
THEOREM InterruptAlwaysEnds == BenchmarkSpec => InterruptEndsBenchmark
<1>1. BenchmarkInv /\ [BenchmarkNext]_allVars =>
          [stop \/ interrupted => results' = results /\ code' \in { NoExit, 130 }]_allVars
  BY InterruptedBenchmark
<1>2. QED
  BY <1>1, BenchmarkInvariant, PTL DEF BenchmarkSpec, InterruptEndsBenchmark
=============================================================================
