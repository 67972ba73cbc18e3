----------------------------- MODULE Benchmark -----------------------------
(***************************************************************************)
(* One `tracefix benchmark` process (app/cli.py, app/evaluation/            *)
(* benchmark.py): the cases of the split are repaired one after the other,  *)
(* each by the RepairApplication of RepairRun with a live provider of its   *)
(* own; the results become a report, which ReportWriter publishes; a        *)
(* summary is printed.  The variables of RepairRun and RepairGraph are      *)
(* those of the case that runs, and start afresh with the next.             *)
(***************************************************************************)
EXTENDS RepairRun, ReportWriter

LOCAL INSTANCE SequencesExt

CONSTANTS
    Cases,          \* bound: how many cases the split has (five in the code)
    Latencies,      \* bound: the model latencies of a case, as floats
    Rounded(_)      \* the float that is nearest to a number

ASSUME CasesAssumption == Cases \in Nat \ {0}
ASSUME LatencyAssumption == Latencies \subseteq Nat /\ \A l \in Latencies : Rounded(l) = l

VARIABLES
    mode,           \* where benchmark is
    results,        \* the BenchmarkCaseResults so far
    paid,           \* the provider calls each of these cases made
    spare,          \* the provider that the preflight made is still unused
    opening,        \* the calls the provider had counted when the case began
    code            \* the exit code of the process, or NoExit

caseVars == << graphVars, runVars >>
benchmarkVars == << mode, results, paid, spare, opening, code >>
allVars == << caseVars, writerVars, benchmarkVars >>

Mode == { "preflight", "next", "case", "build", "write", "summary", "print", "return",
          "complain", "exited" }

RepairFailure == { "CANDIDATE_FAILURE", "POLICY_VIOLATION", "STATIC_CHECK_FAILURE",
                   "MALFORMED_MODEL_OUTPUT" }
Classification == { "REPAIR_SUCCESS", "REPAIR_FAILURE", "EXECUTION_FAILURE", "NOT_RUN" }
CaseResult == [ class : Classification, outcome : TerminalOutcome \cup {None},
                usage : UsageValue ]

-----------------------------------------------------------------------------
(* Case results and the report (app/evaluation/benchmark.py).               *)

\* A result that has no evidence of an execution.
Bare(class) == [ class |-> class, outcome |-> None, usage |-> NoUsage ]

Classify(outcome) ==
    CASE outcome = "SUCCESS" -> "REPAIR_SUCCESS"
      [] outcome \in RepairFailure -> "REPAIR_FAILURE"
      [] OTHER -> "EXECUTION_FAILURE"

\* BenchmarkCaseResult.validate_classification.
CaseResultValid(r) ==
    r.class \in { "REPAIR_SUCCESS", "REPAIR_FAILURE" } => r.usage # NoUsage

\* _case_result; a result its validator refuses is an execution failure.
ResultOf(outcome, usage) ==
    LET r == [ class |-> Classify(outcome), outcome |-> outcome, usage |-> usage ]
    IN  IF CaseResultValid(r) THEN r ELSE Bare("EXECUTION_FAILURE")

Count(rs, class) == Cardinality({ i \in DOMAIN rs : rs[i].class = class })
Total(calls) == FoldFunction(+, 0, calls)
Measured(rs) == [i \in DOMAIN rs |-> IF rs[i].usage = NoUsage THEN 0 ELSE rs[i].usage]
Completed(rs) == Count(rs, "EXECUTION_FAILURE") = 0

\* What the latencies of the results may be; it is 0.0 where none was measured.
LatenciesOf(rs) ==
    { ls \in [ DOMAIN rs -> Latencies \cup {0} ] :
        \A i \in DOMAIN rs : ls[i] \in IF rs[i].usage > 0 THEN Latencies ELSE {0} }

\* The validator adds one latency to the other.
Accumulated(ls) == FoldLeft(LAMBDA latency, l : Rounded(latency + l), 0, ls)

\* The sum() of Python 3.12 and later keeps what the rounding of each addition loses,
\* and adds it in the end.
Summed(ls) ==
    LET Add(sum, l) ==
            LET total == Rounded(sum.total + l)
            IN  [ total |-> total, lost |-> Rounded(sum.lost + (sum.total + l - total)) ]
        all == FoldLeft(Add, [ total |-> 0, lost |-> 0 ], ls)
    IN  Rounded(all.total + all.lost)

\* Mutant of ReportOf: every case counts as attempted.
ReportAttemptingAll(rs, ls) ==
    [ cases |-> rs, latencies |-> ls, attempted |-> Len(rs), not_run |-> Count(rs, "NOT_RUN"),
      success |-> Count(rs, "REPAIR_SUCCESS"), failure |-> Count(rs, "REPAIR_FAILURE"),
      broken |-> Count(rs, "EXECUTION_FAILURE"), calls |-> Total(Measured(rs)),
      latency |-> Summed(ls), completed |-> Completed(rs) ]

\* build_benchmark_report.
ReportOf(rs, ls) ==
    [ cases |-> rs, latencies |-> ls,
      attempted |-> Len(rs) - Count(rs, "NOT_RUN"), not_run |-> Count(rs, "NOT_RUN"),
      success |-> Count(rs, "REPAIR_SUCCESS"), failure |-> Count(rs, "REPAIR_FAILURE"),
      broken |-> Count(rs, "EXECUTION_FAILURE"), calls |-> Total(Measured(rs)),
      latency |-> Summed(ls), completed |-> Completed(rs) ]

\* BenchmarkReport.validate_report, and the bound of BenchmarkCounts.
ReportValid(r) ==
    /\ Len(r.cases) = Cases
    /\ r.attempted = r.success + r.failure + r.broken
    /\ r.attempted + r.not_run = Cases
    /\ r.broken <= 1 /\ r.completed = (r.broken = 0)
    /\ r.calls = Total(Measured(r.cases)) /\ r.latency = Accumulated(r.latencies)
    /\ \A i, j \in 1..Cases :
           i < j /\ r.cases[i].class = "EXECUTION_FAILURE" => r.cases[j].class = "NOT_RUN"

-----------------------------------------------------------------------------
(* The process.                                                             *)

Exit(with) == mode' = "exited" /\ code' = with
Fail == mode' = "complain" /\ UNCHANGED code

\* Mutant of NewCase: the provider is kept for all cases.
NewCaseShared ==
    /\ st' = InitialState(TRUE) /\ node' = "prepare_repository" /\ graph' = "running"
    /\ phase' = "load" /\ workspace' = "absent" /\ projected' = None
    /\ interrupted' = FALSE /\ exit' = NoExit
    /\ storing' = "prepare" /\ temporary' = "absent" /\ artifact' = None /\ published' = FALSE
    /\ UNCHANGED << provider, billed >>

\* A case of its own: what execute_trusted_case begins with.
NewCase ==
    /\ st' = InitialState(TRUE) /\ node' = "prepare_repository" /\ graph' = "running"
    /\ provider' = "live" /\ billed' = 0
    /\ phase' = "load" /\ workspace' = "absent" /\ projected' = None
    /\ interrupted' = FALSE /\ exit' = NoExit
    /\ storing' = "prepare" /\ temporary' = "absent" /\ artifact' = None /\ published' = FALSE

\* Configuration, prices, the first provider and the cases.
Preflight ==
    /\ mode = "preflight"
    /\ \/ mode' = "next" /\ spare' = TRUE /\ UNCHANGED code
       \/ Fail /\ UNCHANGED spare
    /\ UNCHANGED << caseVars, writerVars, results, paid, opening >>

\* Mutant of Broken: the loop looks at the first result only.
BrokenFirst == results # << >> /\ results[1].class = "EXECUTION_FAILURE"

\* The calls of this case.
Own == billed - opening

Record(result, calls) == results' = Append(results, result) /\ paid' = Append(paid, calls)
Broken == \E i \in DOMAIN results : results[i].class = "EXECUTION_FAILURE"

\* After a failure the rest is not run; after the last case there is a report.
NextCase ==
    /\ mode = "next"
    /\ IF Len(results) = Cases THEN mode' = "build" /\ UNCHANGED << results, paid >>
       ELSE Broken /\ Record(Bare("NOT_RUN"), 0) /\ UNCHANGED mode
    /\ UNCHANGED << caseVars, writerVars, spare, opening, code >>

\* execute_case takes the spare provider or makes one, which may raise.
StartCase ==
    /\ mode = "next" /\ Len(results) < Cases /\ ~Broken
    /\ \/ mode' = "case" /\ UNCHANGED << results, paid >>
       \/ ~spare /\ Record(Bare("EXECUTION_FAILURE"), 0) /\ UNCHANGED mode
    /\ spare' = FALSE /\ opening' = billed
    /\ UNCHANGED << caseVars, writerVars, code >>

\* A step of execute_trusted_case, which ends before repair's summary and has
\* no exit code for an invalid case.
CaseStep ==
    /\ mode = "case" /\ phase \notin { "report", "exited" }
    /\ RunNext /\ exit' # 2
    /\ UNCHANGED << writerVars, benchmarkVars >>

\* Mutant of EndCase: an interrupted case is an execution failure.
EndCaseCatching ==
    /\ mode = "case" /\ phase \in { "report", "exited" }
    /\ IF phase = "report" THEN Record(ResultOf(st.terminal_route, st.model_usage), Own)
       ELSE Record(Bare("EXECUTION_FAILURE"), Own)
    /\ mode' = "next"
    /\ NewCase
    /\ UNCHANGED << writerVars, spare, opening, code >>

\* execute_trusted_case returned, or raised, or was interrupted.
EndCase ==
    /\ mode = "case"
    /\ \/ phase = "report" /\ Record(ResultOf(st.terminal_route, st.model_usage), Own)
       \/ phase = "exited" /\ exit # 130 /\ Record(Bare("EXECUTION_FAILURE"), Own)
    /\ mode' = "next"
    /\ NewCase
    /\ UNCHANGED << writerVars, spare, opening, code >>

InterruptedCase ==
    /\ mode = "case" /\ exit = 130
    /\ stop' = TRUE /\ Exit(130)
    /\ UNCHANGED << caseVars, writing, directory, files, owned, results, paid, spare, opening >>

\* The report is made with a second reading of the wall clock, which may fail
\* or be earlier than the first.
Build ==
    /\ mode = "build"
    /\ \E clock \in ClockReading, ls \in LatenciesOf(results) :
           IF clock = "ontime" /\ ReportValid(ReportOf(results, ls))
           THEN mode' = "write" /\ UNCHANGED code ELSE Fail
    /\ UNCHANGED << caseVars, writerVars, results, paid, spare, opening >>

Write ==
    /\ mode = "write"
    /\ Advance \/ Break \/ Cleanup
    /\ UNCHANGED << caseVars, benchmarkVars >>

\* write, or discard, has come to an end.
Written ==
    /\ mode = "write" /\ writing \in WriteEnd
    /\ IF writing = "published" THEN mode' = "summary" /\ UNCHANGED code
       ELSE IF stop THEN Exit(130) ELSE Fail
    /\ UNCHANGED << caseVars, writerVars, results, paid, spare, opening >>

Summarize ==
    /\ mode = "summary" /\ mode' = "print"
    /\ UNCHANGED << caseVars, writerVars, results, paid, spare, opening, code >>

\* Mutant of PrintFails: the report is left for the user.
PrintFailsKeeping ==
    /\ mode = "print"
    /\ Fail
    /\ UNCHANGED << caseVars, writerVars, results, paid, spare, opening >>

\* The summary is printed, or the report is discarded.
ShowSummary ==
    /\ mode = "print" /\ mode' = "return"
    /\ UNCHANGED << caseVars, writerVars, results, paid, spare, opening, code >>

PrintFails ==
    /\ mode = "print"
    /\ \E interrupt \in BOOLEAN : Discard(interrupt)
    /\ mode' = "write"
    /\ UNCHANGED << caseVars, results, paid, spare, opening, code >>

Return ==
    /\ mode = "return"
    /\ Exit(IF Completed(results) THEN 0 ELSE 6)
    /\ UNCHANGED << caseVars, writerVars, results, paid, spare, opening >>

\* _safe_error.
Complain ==
    /\ mode = "complain"
    /\ Exit(6)
    /\ UNCHANGED << caseVars, writerVars, results, paid, spare, opening >>

\* A KeyboardInterrupt where benchmark handles none: it passes to main.
InterruptBenchmark ==
    /\ \/ mode \in { "preflight", "next", "build", "summary", "return", "complain" }
       \/ mode = "case" /\ phase = "report"
    /\ stop' = TRUE /\ Exit(130)
    /\ UNCHANGED << caseVars, writing, directory, files, owned, results, paid, spare, opening >>

-----------------------------------------------------------------------------
\* Every provider of a benchmark is OpenAI's.
BenchmarkInit ==
    /\ RunInit /\ provider = "live"
    /\ WriterInit
    /\ mode = "preflight" /\ results = << >> /\ paid = << >>
    /\ spare = FALSE /\ opening = 0 /\ code = NoExit

BenchmarkStep ==
    \/ Preflight \/ NextCase \/ StartCase \/ EndCase \/ InterruptedCase \/ Build
    \/ Write \/ Written \/ Summarize \/ ShowSummary \/ PrintFails \/ Return \/ Complain

BenchmarkNext == CaseStep \/ BenchmarkStep \/ InterruptBenchmark

\* The process keeps running, in its cases too.
BenchmarkSpec ==
    /\ BenchmarkInit /\ [][BenchmarkNext]_allVars
    /\ WF_allVars(CaseStep) /\ WF_allVars(BenchmarkStep)

-----------------------------------------------------------------------------
(* Properties.                                                              *)

\* benchmark.py:304: the benchmark stops at the first case that could not be
\* executed; what follows is not run and costs nothing, and no case runs, or is
\* left out, for another reason.
FailsFast ==
    /\ mode = "case" => ~Broken
    /\ \A j \in DOMAIN results :
           results[j].class = "NOT_RUN" <=>
               \E i \in 1..(j - 1) : results[i].class = "EXECUTION_FAILURE"
    /\ \A j \in DOMAIN results : results[j].class = "NOT_RUN" => paid[j] = 0

\* The usage in a result is what its own case paid, neither more nor less; every
\* repair, successful or not, has one, and all a usage can miss was paid in the
\* one case that could not be executed.
UsageIsItsOwn ==
    \A i \in DOMAIN results :
        /\ results[i].class \in { "REPAIR_SUCCESS", "REPAIR_FAILURE" } =>
               results[i].usage = paid[i]
        /\ results[i].usage \in { NoUsage } \cup 0..paid[i]

\* The validator restates the rules of the loop, and they agree: all that a benchmark
\* which ran, and was paid for, can be without a report for is that the latency of the
\* report and that of its validator are rounded differently.
OnlyRoundingIsRefused ==
    mode = "build" =>
        \A ls \in LatenciesOf(results) :
            ReportValid(ReportOf(results, ls)) <=> Summed(ls) = Accumulated(ls)

\* Exit code 0 means that every case was repaired or not for a reason of the
\* candidate's, and that the whole pair, and nothing else, is in its directory.
\* With 6, a pair that is there reports the failure, or could not be taken back.
\* A writer that says it has removed everything has.
ExitIsHonest ==
    /\ code = 0 => /\ files = Pair /\ writing = "published"
                   /\ \A i \in 1..Cases :
                          results[i].class \in { "REPAIR_SUCCESS", "REPAIR_FAILURE" }
    /\ code = 6 /\ files = Pair => writing = "uncertain" \/ Broken
    /\ code # NoExit /\ writing = "gone" => files = {} /\ ~directory

\* From an interrupt on, in whatever case or step, no case is started or
\* recorded and the process ends with 130.
InterruptEndsBenchmark ==
    [][stop \/ interrupted =>
          results' = results /\ code' \in { NoExit, 130 }]_allVars

\* docs/specs/0.1-011a-live-model-benchmark.md:140: the report has the aggregate
\* usage "for completed provider calls".
EveryCallIsReported ==
    mode = "write" => \A ls \in LatenciesOf(results) : ReportOf(results, ls).calls = Total(paid)
=============================================================================
