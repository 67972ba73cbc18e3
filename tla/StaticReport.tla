---------------------------- MODULE StaticReport ----------------------------
(***************************************************************************)
(* The program in the container of the static checks                        *)
(* (docker/static-checks/runner.py), from what the changed Python files and *)
(* the tools are like to the one report that it prints.  It keeps no state  *)
(* and works on a read-only copy: it is an operator, and its report is      *)
(* complete when the container ends with exit code zero.                    *)
(***************************************************************************)
EXTENDS Naturals, FiniteSets

CONSTANTS
    SyntaxChecks,   \* bound: the checks that the program makes itself (two in the code)
    ToolChecks,     \* bound: those that a tool makes (three in the code)
    MaxFindings,    \* the limit of the findings of one check (1000 in the code)
    MaxPayload      \* the limit of the report, in findings (64 KiB in the code)

ASSUME StaticReportAssumption ==
    /\ { SyntaxChecks, ToolChecks } \subseteq Nat \ {0} /\ { MaxFindings, MaxPayload } \subseteq Nat

Syntax == 1..SyntaxChecks
Tool == (SyntaxChecks + 1)..(SyntaxChecks + ToolChecks)

Found(status, findings) == [ status |-> status, findings |-> findings ]
Infrastructure == Found("INFRASTRUCTURE_ERROR", 0)

\* The changed files: they compile, perhaps with a warning, or only parse, or do not.
Source == { "fine", "warns", "uncompilable", "broken" }

-----------------------------------------------------------------------------
(* The checks.                                                              *)

\* syntax_result: the first check compiles, the second one parses.
SyntaxResult(check, input) ==
    IF ~input.readable THEN Infrastructure
    ELSE IF input.source = "broken" \/ (input.source = "uncompilable" /\ check = 1)
    THEN Found("FAILED", 1) ELSE Found("PASSED", 0)

\* What run_tool brings back, and how many findings the output is parsed to; the
\* directives are those that mypy_directive_findings adds.
Unreadable == MaxFindings + 1
ToolAnswer == [ started : BOOLEAN, complete : BOOLEAN, quiet : BOOLEAN, code : 0..2,
                found : 0..Unreadable, directives : 0..1 ]

\* Mutant of ToolResult: an output that was cut off is read all the same.
ToolResultOfTheRest(answer) ==
    LET findings == answer.found + answer.directives
    IN  IF ~answer.started \/ ~answer.quiet \/ answer.code \notin { 0, 1 }
               \/ findings > MaxFindings \/ ((answer.found > 0) # (answer.code = 1))
        THEN Infrastructure
        ELSE IF findings > 0 THEN Found("FAILED", findings) ELSE Found("PASSED", 0)

\* ruff_result, mypy_result, bandit_result.
ToolResult(answer) ==
    LET findings == answer.found + answer.directives
    IN  IF \/ ~answer.started \/ ~answer.complete \/ ~answer.quiet \/ answer.code \notin { 0, 1 }
           \/ findings > MaxFindings \/ ((answer.found > 0) # (answer.code = 1))
        THEN Infrastructure
        ELSE IF findings > 0 THEN Found("FAILED", findings) ELSE Found("PASSED", 0)

\* execute; the versions of the tools are looked at between the checks.
Execute(input) ==
    [ check \in Syntax \cup Tool |->
        IF check \in Syntax THEN SyntaxResult(check, input)
        ELSE IF input.compatible THEN ToolResult(input.answers[check]) ELSE Infrastructure ]

\* emit: a report that is too long is replaced.
Payload(results) == UNION { { check } \X (1..results[check].findings) : check \in DOMAIN results }

Emit(results) ==
    IF Cardinality(Payload(results)) > MaxPayload
    THEN [ check \in DOMAIN results |-> Infrastructure ] ELSE results

\* main; it begins with its arguments and a copy of the repository.
Main(input) ==
    Emit(IF input.begins THEN Execute(input) ELSE [ check \in Syntax \cup Tool |-> Infrastructure ])

-----------------------------------------------------------------------------
(* The reports.                                                             *)

Input == [ begins : BOOLEAN, source : Source, readable : BOOLEAN, compatible : BOOLEAN,
           answers : [ Tool -> ToolAnswer ] ]

\* Nothing is wrong with the program, its tools and the files.
Clean(input) ==
    /\ input.begins /\ input.readable /\ input.compatible /\ input.source \in { "fine", "warns" }
    /\ \A tool \in Tool :
          LET a == input.answers[tool]
          IN  a.started /\ a.complete /\ a.quiet /\ a.code = 0 /\ a.found = 0 /\ a.directives = 0

\* A report, whether something was written to stderr besides, and whether it is about clean
\* files: the warnings of compile are not silenced.
ReportOf(input) ==
    LET results == Main(input)
    IN  [ written |-> TRUE,
          noisy |-> input.begins /\ input.readable /\ input.source = "warns",
          clean |-> Clean(input),
          statuses |-> [ check \in DOMAIN results |-> results[check].status ] ]

Reports == { ReportOf(input) : input \in Input }

NoReport == [ written |-> FALSE, noisy |-> FALSE, clean |-> FALSE, statuses |-> << >> ]
=============================================================================
