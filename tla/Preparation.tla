----------------------------- MODULE Preparation -----------------------------
(***************************************************************************)
(* RepositoryPreparer.prepare (app/agent/preparation.py): the repository of *)
(* a trusted case is copied into the run's workspace, and the graph accepts *)
(* the copy by its fingerprint (app/agent/graph.py).                        *)
(*                                                                         *)
(* A snapshot is a walk over the files that reads one identity after the    *)
(* other; a fingerprint reads the contents between two such walks.  Others  *)
(* may change the repository and the copy between any two of these reads.   *)
(* A change always gives a file another identity (its modification time).   *)
(* Reading or copying one file is one step: the identity is taken from the  *)
(* open file before and after, so a change in between is a failure.         *)
(***************************************************************************)
EXTENDS Naturals

CONSTANTS
    Files,          \* bound: the entries of the repository, in the walk's order
    Texts,          \* the contents a file can have
    MaxChanges,     \* bound: the changes by others
    Gone            \* the content of a file that does not exist

ASSUME PreparationAssumption ==
    Files \in Nat \ {0} /\ MaxChanges \in Nat /\ Gone \notin Texts

VARIABLES
    repository,     \* the files of the case: content and version
    workspace,      \* the files in the destination
    changes,        \* the changes by others so far, the clock of the versions
    directory,      \* the destination: "none", "own", or "foreign"
    stage,          \* where prepare is
    pass,           \* what it does there: "walk", "read", "rewalk"
    at,             \* the file that is next
    walked,         \* the identities of the walk that is going on
    entries,        \* those of the fingerprint's first walk
    contents,       \* the contents the fingerprint has read
    before,         \* the first snapshot of the repository
    copied,         \* the first snapshot of the copy
    fingerprint,    \* of the repository, then of the copy
    identified,     \* destination_identity is known
    answer,         \* what prepare returned or raised, and what the graph made of it
    past            \* every content that the repository ever had as a whole

reading == << pass, at, walked, entries, contents >>
found == << before, copied, fingerprint >>
world == << repository, workspace, changes, directory, past >>
prepVars == << world, stage, reading, found, identified, answer >>

File == 1..Files
Content == Texts \cup {Gone}
NoFiles == [f \in File |-> [text |-> Gone, version |-> 0]]
Blank == [f \in File |-> Gone]

\* _EntryIdentity; a file that does not exist has none.
Identity(file) == IF file.text = Gone THEN Gone ELSE file.version

ContentOf(tree) == [f \in File |-> tree[f].text]

\* The readings of prepare in their order, with the making of the copy, and the
\* graph's own after it.
Following == [ before |-> "source_print", source_print |-> "unchanged", unchanged |-> "mkdir",
           mkdir |-> "identify", identify |-> "copy", copy |-> "still", still |-> "still_print",
           still_print |-> "copied", copied |-> "copy_print", copy_print |-> "copy_still",
           copy_still |-> "copy_print_again", copy_print_again |-> "return",
           return |-> "validate", validate |-> "done" ]
Snapshots == { "before", "unchanged", "still", "copied", "copy_still" }
Fingerprints == { "source_print", "still_print", "copy_print", "copy_print_again", "validate" }
OfTheCopy == { "copied", "copy_print", "copy_still", "copy_print_again", "validate" }

Tree == IF stage \in OfTheCopy THEN workspace ELSE repository

-----------------------------------------------------------------------------
StartReading(start) == pass' = "walk" /\ at' = 1 /\ walked' = Blank /\ entries' = start /\ contents' = start

\* The handlers of prepare: a copy whose identity is known is removed.  Outside of
\* prepare, the graph only records the failure.
Break(code) ==
    /\ answer' = code
    /\ stage' = IF stage = "validate" \/ ~identified THEN "done" ELSE "cleanup"
    /\ StartReading(Blank)

Advance == stage' = Following[stage] /\ StartReading(Blank) /\ UNCHANGED answer

\* The case is loaded, the revision, the workspace's root and the destination's
\* name are checked; what fails here is raised outside of the try statement.
CheckRequest ==
    /\ stage = "request" /\ UNCHANGED << world, found, identified >>
    /\ \/ directory = "none" /\ stage' = "before" /\ StartReading(Blank) /\ UNCHANGED answer
       \/ stage' = "done" /\ answer' = "refused" /\ UNCHANGED reading

\* One entry of _snapshot's walk.
Walk ==
    /\ stage \in Snapshots \cup Fingerprints /\ pass \in { "walk", "rewalk" } /\ at \in File
    /\ walked' = [walked EXCEPT ![at] = Identity(Tree[at])] /\ at' = at + 1
    /\ UNCHANGED << world, stage, pass, entries, contents, found, identified, answer >>

\* read_file, inside fingerprint.
ReadFile ==
    /\ stage \in Fingerprints /\ pass = "read" /\ at \in File
    /\ UNCHANGED << world, found, identified >>
    /\ IF entries[at] \in { Gone, Identity(Tree[at]) }
       THEN /\ contents' = [contents EXCEPT ![at] = IF entries[at] = Gone THEN Gone ELSE Tree[at].text]
            /\ at' = at + 1
            /\ UNCHANGED << stage, pass, walked, entries, answer >>
       ELSE Break("SOURCE_MUTATED")

\* The walk before the contents are read, and the last content.
Turn ==
    /\ stage \in Fingerprints /\ pass \in { "walk", "read" } /\ at = Files + 1
    /\ at' = 1 /\ walked' = Blank
    /\ pass' = IF pass = "walk" THEN "read" ELSE "rewalk"
    /\ entries' = IF pass = "walk" THEN walked ELSE entries
    /\ UNCHANGED << world, stage, contents, found, identified, answer >>

\* Mutant of Agrees: the copy's fingerprint is not compared with the source's.
AgreesLeniently ==
    CASE stage \in { "unchanged", "still" } -> walked = before
      [] stage = "copy_still" -> walked = copied
      [] stage = "still_print" -> walked = entries /\ contents = fingerprint
      [] stage \in Fingerprints -> walked = entries
      [] OTHER -> TRUE

\* What a reading has to agree with.
Agrees ==
    CASE stage \in { "unchanged", "still" } -> walked = before
      [] stage = "copy_still" -> walked = copied
      [] stage = "source_print" -> walked = entries
      [] stage \in Fingerprints -> walked = entries /\ contents = fingerprint
      [] OTHER -> TRUE

\* A snapshot or a fingerprint is complete.
ReadingEnds ==
    /\ at = Files + 1
    /\ \/ stage \in Snapshots
       \/ stage \in Fingerprints /\ pass = "rewalk"
    /\ UNCHANGED << world, identified >>
    /\ IF Agrees
       THEN /\ before' = IF stage = "before" THEN walked ELSE before
            /\ copied' = IF stage = "copied" THEN walked ELSE copied
            /\ fingerprint' = IF stage \in { "source_print", "copy_print" } THEN contents
                              ELSE fingerprint
            /\ Advance
       ELSE Break("SOURCE_MUTATED") /\ UNCHANGED found

\* Mutant of MakeDestination: a destination that exists is taken for the own one.
MakeDestinationExisting ==
    /\ stage = "mkdir" /\ Advance
    /\ directory' = IF directory = "none" THEN "own" ELSE directory
    /\ UNCHANGED << repository, workspace, changes, past, found, identified >>

\* make_directory; when it fails, the directory may have been made.
MakeDestination ==
    /\ stage = "mkdir" /\ UNCHANGED << repository, workspace, changes, past, found, identified >>
    /\ \/ directory = "none" /\ directory' = "own" /\ Advance
       \/ /\ directory' \in (IF directory = "none" THEN { "none", "own" } ELSE { directory })
          /\ Break("failed")

Identify ==
    /\ stage = "identify" /\ identified' = TRUE /\ Advance
    /\ UNCHANGED << world, found >>

\* _copy, file by file: only what the first snapshot has, and as long as it is that.
CopyFile ==
    /\ stage = "copy" /\ at \in File
    /\ UNCHANGED << repository, changes, directory, past, found, identified >>
    /\ IF before[at] \in { Gone, Identity(repository[at]) }
       THEN /\ workspace' = [workspace EXCEPT ![at] = IF before[at] = Gone THEN @
                            ELSE [text |-> repository[at].text, version |-> changes]]
            /\ at' = at + 1
            /\ UNCHANGED << stage, pass, walked, entries, contents, answer >>
       ELSE UNCHANGED workspace /\ Break("SOURCE_MUTATED")

CopyEnds ==
    /\ stage = "copy" /\ at = Files + 1 /\ Advance
    /\ UNCHANGED << world, found, identified >>

\* prepare returns the copy with its fingerprint, which the graph then takes again.
Return ==
    /\ stage = "return" /\ stage' = "validate" /\ answer' = "prepared"
    /\ StartReading(Blank)
    /\ UNCHANGED << world, found, identified >>

\* Any of these may fail in another way: an entry that is no ordinary file, an
\* aliased path, an error of the operating system.
PrepareFails ==
    /\ stage \in DOMAIN Following \ { "mkdir" }
    /\ Break("failed")
    /\ UNCHANGED << world, found, identified >>

\* _cleanup_failed: what cannot be removed is reported instead of the first failure.
CleanupFailed ==
    /\ stage = "cleanup" /\ stage' = "done"
    /\ \/ directory' = "none" /\ UNCHANGED answer
       \/ UNCHANGED directory /\ answer' = "CLEANUP_FAILED"
    /\ UNCHANGED << repository, workspace, changes, past, reading, found, identified >>

\* Nothing in prepare catches a KeyboardInterrupt.
InterruptPrepare ==
    /\ stage \in DOMAIN Following \cup { "request", "cleanup" }
    /\ stage' = "done" /\ answer' = "interrupted"
    /\ CASE stage = "mkdir" -> directory' \in (IF directory = "none" THEN { "none", "own" } ELSE { directory })
         [] stage = "cleanup" -> directory' \in { "none", directory }
         [] OTHER -> UNCHANGED directory
    /\ UNCHANGED << repository, workspace, changes, past, reading, found, identified >>

\* Somebody writes or removes a file, or makes a directory of the destination's name.
ChangeFile ==
    /\ stage # "done" /\ changes < MaxChanges /\ changes' = changes + 1
    /\ \/ \E f \in File, text \in Content :
             LET file == [text |-> text, version |-> changes + 1]
             IN  \/ /\ repository' = [repository EXCEPT ![f] = file]
                    /\ past' = past \cup { ContentOf(repository') }
                    /\ UNCHANGED << workspace, directory >>
                 \/ /\ directory = "own" /\ workspace' = [workspace EXCEPT ![f] = file]
                    /\ UNCHANGED << repository, directory, past >>
       \/ directory = "none" /\ directory' = "foreign" /\ UNCHANGED << repository, workspace, past >>
    /\ UNCHANGED << stage, reading, found, identified, answer >>

PrepInit ==
    /\ \E text \in Texts : repository = [f \in File |-> [text |-> text, version |-> 0]]
    /\ past = { ContentOf(repository) }
    /\ workspace = NoFiles /\ changes = 0 /\ directory = "none"
    /\ stage = "request" /\ pass = "walk" /\ at = 1
    /\ walked = Blank /\ entries = Blank /\ contents = Blank
    /\ before = Blank /\ copied = Blank /\ fingerprint = Blank
    /\ identified = FALSE /\ answer = "none"

PrepStep ==
    \/ CheckRequest \/ Walk \/ ReadFile \/ Turn \/ ReadingEnds \/ MakeDestination \/ Identify
    \/ CopyFile \/ CopyEnds \/ Return \/ CleanupFailed

PrepNext == PrepStep \/ PrepareFails \/ InterruptPrepare \/ ChangeFile

PrepSpec == PrepInit /\ [][PrepNext]_prepVars

-----------------------------------------------------------------------------
(* Properties.                                                              *)

\* What prepare returns is no mixture of an older and a newer repository: all the
\* files in it were there, with that content, at one moment, however the repository
\* changed while it was read file by file.
PreparedIsASnapshot ==
    answer = "prepared" =>
        \E moment \in past : \A f \in File : fingerprint[f] # Gone => moment[f] = fingerprint[f]

\* The destination is prepare's own: nobody else's directory is ever returned or
\* removed, and its own stays only if it is returned, if the removal failed and
\* that was reported, if its making was cut short, or after an interrupt.
OwnsItsDirectory ==
    [][/\ directory = "foreign" => directory' = "foreign" /\ answer' # "prepared"
       /\ stage # "done" /\ stage' = "done" /\ directory' = "own" =>
              \/ stage = "validate" \/ answer' \in { "CLEANUP_FAILED", "interrupted" }
              \/ ~identified]_prepVars
=============================================================================
