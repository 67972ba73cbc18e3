-------------------------- MODULE ContextSelection --------------------------
(***************************************************************************)
(* ContextSelector.select (app/agent/context.py): what the model gets to    *)
(* see of a prepared repository.  The source files that the traceback       *)
(* names, the definitions that are reachable from there through names and   *)
(* local imports, the evidence and the instructions are collected, and the  *)
(* least important of them dropped until the rest fits the limit.           *)
(*                                                                         *)
(* Python files are numbers, in the order of their paths.  A definition is  *)
(* its file and line; the line of a top-level definition is its name, too.  *)
(* An inner definition - a method, a nested function, or a top-level one    *)
(* that a later one of its name replaces - is found by a frame, never by    *)
(* its name.  Of a text only its size counts.                               *)
(***************************************************************************)
EXTENDS Naturals, SequencesExt

CONSTANTS
    PyFiles,        \* bound: the Python files
    Definitions,    \* bound: the top-level definitions of each, one per line
    Namesakes,      \* bound: the top-level definitions that share their name with an inner one
    MaxFrames,      \* bound: the frames of the traceback
    MaxMentions,    \* bound: the mentions of definitions in definitions
    Limits          \* the limits, in the unit of the sizes below

ASSUME ContextAssumption ==
    /\ { PyFiles, Definitions } \subseteq Nat \ {0} /\ { MaxFrames, MaxMentions } \subseteq Nat
    /\ Limits \subseteq Nat \ {0} /\ Namesakes \subseteq (1..PyFiles) \X (1..Definitions)

VARIABLES
    selecting,      \* where select is
    frames,         \* the frames: each is the definition around its line
    files,          \* what each file is found to be
    refs,           \* which definition mentions which
    left,           \* the frames that were not looked at yet
    calls,          \* the calls of _collect_static_items that run or wait, the first one first
    visited,        \* for the frame, the files and names of the definitions that were taken
    nodes,          \* the definitions that the first call took
    pending,        \* the names in its file that it has still to look at
    candidates,     \* the items that were collected
    included,       \* those that are still in the package
    omissions,      \* a list: what was left out, and why
    limit,          \* of the package's size
    selected        \* what select answers: "package", or an error

collecting == << left, calls, visited, nodes, pending >>
contextVars == << selecting, frames, files, refs, collecting, candidates, included, omissions,
                  limit, selected >>

PyFile == 1..PyFiles
Definition == PyFile \X (1..Definitions)
DefinitionsOf(file) == { d \in Definition : d[1] = file }

\* An inner definition has a line after those of the top-level ones.
InnerOf(d) == << d[1], Definitions + d[2] >>
AnyDefinition == Definition \cup { InnerOf(d) : d \in Namesakes }

\* The key of visited: the file and the name, which does not tell an inner definition
\* from the top-level one.
KeyOf(d) == IF d[2] > Definitions THEN << d[1], d[2] - Definitions >> ELSE d

\* Whatever mentions a name, it is looked up among the top-level definitions.
Mentions == { pair \in AnyDefinition \X Definition : pair[1] # pair[2] }
MentionedBy(some) == { pair[2] : pair \in { r \in refs : r[1] \in some } }

\* What _read and ast.parse make of a file; one that the repository does not have
\* is read by nobody.
FileState == { "text", "no_python", "unsafe", "absent" }

SelectionErrorCode == { "refused", "UNSAFE_REPOSITORY", "FINGERPRINT_MISMATCH", "VISIBLE_TEST_AMBIGUOUS",
               "MANDATORY_CONTEXT_OVERFLOW" }

-----------------------------------------------------------------------------
(* Items and omissions.                                                     *)

Item(priority, file, kind, line, size) ==
    [ priority |-> priority, file |-> file, kind |-> kind, line |-> line, size |-> size ]

\* The issue, the classification and the policy; the trace; the visible test.
Evidence == { Item(0, 0, "mandatory", 0, 2), Item(1, 0, "trace", 0, 2), Item(2, 0, "visible_test", 0, 2) }
Instruction == Item(6, 0, "instruction", 0, 2)
SourceItem(frame) == Item(3, frame[1], "source", frame[2], 3)
DefinitionItem(d) == Item(4, d[1], "definition", d[2], 2)
ImportItem(file, from) == Item(4, file, "import", 2 * Definitions + from, 2)

Omission(file, kind, reason) == [ file |-> file, kind |-> kind, reason |-> reason ]

\* _append_omission; the frames of the traceback append without looking.
OmitOnce(omitted, omission) ==
    IF omission \in ToSet(omitted) THEN omitted ELSE Append(omitted, omission)

\* A call of _collect_static_items.
CallFor(file, names) == [ file |-> file, names |-> names ]

\* The sort key of the package; no two items have the same.
Precedes(a, b) ==
    \/ a.priority < b.priority
    \/ a.priority = b.priority /\ a.file < b.file
    \/ a.priority = b.priority /\ a.file = b.file /\ a.line < b.line

\* downstream_utf8_size: the header, the items, and a line for each omission.
SizeOf(items, omitted) == 1 + MapThenSumSet(LAMBDA i : i.size, items) + Len(omitted)

-----------------------------------------------------------------------------
(* select.                                                                  *)

Stop(answer) ==
    /\ selecting' = "done" /\ selected' = answer
    /\ frames' = {} /\ files' = << >> /\ refs' = {}
    /\ left' = {} /\ calls' = << >> /\ visited' = {} /\ nodes' = {} /\ pending' = {}
    /\ candidates' = {} /\ included' = {} /\ omissions' = << >> /\ limit' = 0

\* _frames: each frame once.
FramesFound == { f \in SUBSET AnyDefinition : Cardinality(f) <= MaxFrames }

\* The request, the case and the repository are checked, the evidence is searched
\* for frames and for the visible test.  Only Python text mentions anything.
Select ==
    /\ selecting = "request"
    /\ \/ \E code \in SelectionErrorCode \ { "MANDATORY_CONTEXT_OVERFLOW" } : Stop(code)
       \/ /\ selecting' = "read"
          /\ frames' \in FramesFound
          /\ files' \in [PyFile -> FileState]
          /\ LET written == { pair \in Mentions : files'[pair[1][1]] = "text" }
             IN  refs' \in UNION { kSubset(k, written) : k \in 0..MaxMentions }
          /\ UNCHANGED << collecting, candidates, included, omissions, limit, selected >>

\* _candidates: the evidence, and then the frames, one by one.
Candidates ==
    /\ selecting = "read"
    /\ \/ \E code \in { "UNSAFE_REPOSITORY", "VISIBLE_TEST_AMBIGUOUS" } : Stop(code)
       \/ /\ candidates' = Evidence /\ left' = frames /\ selecting' = "frames"
          /\ UNCHANGED << frames, files, refs, calls, visited, nodes, pending, included,
                          omissions, limit, selected >>

\* The next frame of the traceback: its source, and a call of _collect_static_items for
\* the definition around its line.
NextFrame ==
    /\ selecting = "frames"
    /\ \E frame \in left :
           /\ left' = left \ { frame } /\ visited' = {}
           /\ IF files[frame[1]] \in { "absent", "unsafe" }
              THEN /\ omissions' = Append(omissions, Omission(frame[1], "source", "unsafe"))
                   /\ UNCHANGED << selecting, calls, candidates >>
              ELSE /\ candidates' = candidates \cup { SourceItem(frame) }
                   /\ calls' = << CallFor(frame[1], { frame }) >> /\ selecting' = "calls"
                   /\ UNCHANGED omissions
    /\ UNCHANGED << frames, files, refs, nodes, pending, included, limit, selected >>

-----------------------------------------------------------------------------
(* _collect_static_items and _follow_local_import.                          *)

\* What the first call took gives way to the calls in its place.
GiveWay(instead) ==
    /\ calls' = instead \o Tail(calls)
    /\ selecting' = IF calls' = << >> THEN "frames" ELSE "calls"

\* Mutant of Enter: what becomes pending counts as visited already.
EnterEagerly ==
    /\ selecting = "calls"
    /\ LET call == Head(calls)
       IN  IF files[call.file] # "text"
           THEN LET reason == IF files[call.file] = "unsafe" THEN "unsafe" ELSE "ast_parse_failed"
                IN  /\ omissions' = OmitOnce(omissions, Omission(call.file, "definition", reason))
                    /\ GiveWay(<< >>) /\ UNCHANGED << visited, nodes, pending >>
           ELSE /\ nodes' = { d \in call.names : KeyOf(d) \notin visited }
                /\ pending' = MentionedBy(nodes') \cap DefinitionsOf(call.file)
                /\ visited' = visited \cup { KeyOf(d) : d \in nodes' } \cup pending'
                /\ selecting' = "names" /\ UNCHANGED << calls, omissions >>
    /\ UNCHANGED << frames, files, refs, left, candidates, included, limit, selected >>

\* A call starts with the definition around the frame, or the top-level ones of its
\* names, but for those whose key is visited.
Enter ==
    /\ selecting = "calls"
    /\ LET call == Head(calls)
       IN  IF files[call.file] # "text"
           THEN LET reason == IF files[call.file] = "unsafe" THEN "unsafe" ELSE "ast_parse_failed"
                IN  /\ omissions' = OmitOnce(omissions, Omission(call.file, "definition", reason))
                    /\ GiveWay(<< >>) /\ UNCHANGED << visited, nodes, pending >>
           ELSE /\ nodes' = { d \in call.names : KeyOf(d) \notin visited }
                /\ visited' = visited \cup { KeyOf(d) : d \in nodes' }
                /\ pending' = MentionedBy(nodes') \cap DefinitionsOf(call.file)
                /\ selecting' = "names" /\ UNCHANGED << calls, omissions >>
    /\ UNCHANGED << frames, files, refs, left, candidates, included, limit, selected >>

\* One turn of the loop over the pending names: the top-level definition is taken, unless
\* its key is visited, which may be the key of the inner definition around the frame.
TakeName ==
    /\ selecting = "names"
    /\ \E name \in pending :
           LET taken == { name } \ visited
           IN  /\ nodes' = nodes \cup taken /\ visited' = visited \cup taken
               /\ pending' = (pending \ { name })
                                 \cup (MentionedBy(taken) \cap DefinitionsOf(Head(calls).file))
    /\ UNCHANGED << selecting, frames, files, refs, left, calls, candidates, included,
                    omissions, limit, selected >>

\* The items of what was taken, and of the imports that it mentions something of; those
\* of the repository's files are followed one after the other.
Gather ==
    /\ selecting = "names" /\ pending = {}
    /\ LET file == Head(calls).file
           mentioned == MentionedBy(nodes)
           imported == { f \in PyFile \ { file } : mentioned \cap DefinitionsOf(f) # {} }
           followed == { CallFor(f, mentioned \cap DefinitionsOf(f)) :
                           f \in { g \in imported : files[g] # "absent" } }
       IN  /\ candidates' = candidates \cup { DefinitionItem(d) : d \in nodes }
                                       \cup { ImportItem(file, f) : f \in imported }
           /\ \E order \in SetToSeqs(followed) : GiveWay(order)
    /\ nodes' = {}
    /\ UNCHANGED << frames, files, refs, left, visited, pending, included, omissions, limit,
                    selected >>

-----------------------------------------------------------------------------
(* The rest of select, and _package.                                        *)

\* The rest of _candidates, and the second look at the fingerprint.
Instructions ==
    /\ selecting = "frames" /\ left = {}
    /\ \/ Stop("FINGERPRINT_MISMATCH")
       \/ /\ \/ candidates' = candidates \cup { Instruction } /\ UNCHANGED omissions
             \/ UNCHANGED candidates /\ omissions' = Append(omissions, Omission(0, "instruction", "unsafe"))
             \/ UNCHANGED << candidates, omissions >>
          /\ included' = candidates' /\ limit' \in Limits
          /\ selecting' = "package"
          /\ frames' = {} /\ files' = << >> /\ refs' = {} /\ visited' = {}
          /\ UNCHANGED << left, calls, nodes, pending, selected >>

Removable == { i \in included : i.priority # 0 }

\* Mutant of Fits: the omissions are not counted.
FitsWithoutOmissions == SizeOf(included, << >>) <= limit

Fits == SizeOf(included, omissions) <= limit

\* One turn of _package's loop.
Drop ==
    /\ selecting = "package" /\ ~Fits
    /\ IF Removable = {} THEN Stop("MANDATORY_CONTEXT_OVERFLOW")
       ELSE LET last == CHOOSE i \in Removable : \A j \in Removable \ { i } : Precedes(j, i)
            IN  /\ included' = included \ { last }
                /\ omissions' = Append(omissions, Omission(last.file, last.kind, "budget"))
                /\ UNCHANGED << selecting, frames, files, refs, collecting, candidates, limit,
                                selected >>

\* ContextPackage.validate_accounting_and_order; what it raises is none of the errors.
PackageValid == \A i, j \in DOMAIN omissions : i # j => omissions[i] # omissions[j]

Package ==
    /\ selecting = "package" /\ Fits
    /\ Stop(IF PackageValid THEN "package" ELSE "ValidationError")

ContextInit ==
    /\ selecting = "request" /\ selected = "none"
    /\ frames = {} /\ files = << >> /\ refs = {}
    /\ left = {} /\ calls = << >> /\ visited = {} /\ nodes = {} /\ pending = {}
    /\ candidates = {} /\ included = {} /\ omissions = << >> /\ limit = 0

Collect == NextFrame \/ Enter \/ TakeName \/ Gather
ContextNext == Select \/ Candidates \/ Collect \/ Instructions \/ Drop \/ Package

ContextSpec == ContextInit /\ [][ContextNext]_contextVars

-----------------------------------------------------------------------------
(* Properties.                                                              *)

\* The smallest set of definitions that has the one around the frame and, with a
\* definition, all top-level ones that it mentions; nothing is found in a file that is
\* not Python.  Only the namesake of the frame's own definition is never followed.
ReachableFrom(frame) ==
    LET Next(d) == { m \in MentionedBy({ d }) : files[m[1]] = "text" /\ m # KeyOf(frame) }
        Closed == { S \in SUBSET AnyDefinition : frame \in S /\ \A d \in S : Next(d) \subseteq S }
    IN  { d \in AnyDefinition : \A S \in Closed : d \in S }

DefinitionsFound == { << i.file, i.line >> : i \in { c \in candidates : c.kind = "definition" } }

\* The definitions that are collected are those that can be reached from a frame,
\* through any cycle of names and imports, but for the namesake of the frame's own.
CollectsTheReachable ==
    selecting = "frames" /\ left = {} =>
        DefinitionsFound = UNION { ReachableFrom(f) : f \in { g \in frames : files[g[1]] = "text" } }

\* A package is within its limit and is the best that is: everything in it goes
\* before everything that was dropped, each of which is told, and with the best of
\* these back, and its omission gone, it would not fit.
BestPackage ==
    LET dropped == candidates \ included
        told == { i \in DOMAIN omissions : omissions[i].reason = "budget" }
        size == MapThenSumSet(LAMBDA i : i.size, included) + 1 + Len(omissions)
    IN  /\ size <= limit /\ { i \in Evidence : i.priority = 0 } \subseteq included
        /\ Cardinality(told) = Cardinality(dropped)
        /\ \A i \in dropped : \A k \in included : Precedes(k, i)
        /\ \A i \in dropped : (\A j \in dropped \ { i } : Precedes(i, j)) => size + i.size - 1 > limit

\* Whatever select packs is the best package.
KeepsTheBest == [][selected' = "package" => BestPackage]_contextVars

\* docs/specs/0.1-005-classify-and-context.md:125 and :134: "Typed stable failures
\* or omission reasons must cover: [...] missing/replaced/mutating/unreadable
\* source, insufficient budget".
FailuresAreTyped == selected \in SelectionErrorCode \cup { "none", "package" }
=============================================================================
