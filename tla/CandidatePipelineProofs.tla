------------------------ MODULE CandidatePipelineProofs ------------------------
(***************************************************************************)
(* Proofs about Preparation, about ContextSelection, and about the pipeline *)
(* that puts them before PatchText and StaticChecks: every property of a    *)
(* node alone is one of the pipeline too.                                   *)
(***************************************************************************)
EXTENDS CandidatePipeline, StaticChecksProofs, PatchTextProofs

(***************************************************************************)
(* PREPARATION, for any number of files, contents and changes by others.    *)
(***************************************************************************)
Tracked == [ File -> [ text : Content, version : 0..changes ] ]
Identities == [ File -> 0..changes \cup { Gone } ]
PrepStages == DOMAIN Following \cup { "request", "cleanup", "done" }

PrepTypes ==
    /\ changes \in Nat /\ stage \in PrepStages /\ pass \in { "walk", "read", "rewalk" }
    /\ at \in 1..(Files + 1)
    /\ repository \in Tracked /\ workspace \in Tracked
    /\ walked \in Identities /\ entries \in Identities
    /\ contents \in [ File -> Content ] /\ fingerprint \in [ File -> Content ]
    /\ identified \in BOOLEAN

\* These contents are those of one moment of the repository, but for files that are
\* not in them.
OfAMoment(print) == \E moment \in past : \A f \in File : print[f] # Gone => moment[f] = print[f]

\* The reading of the fingerprint of the repository: the moment is the one between
\* the first walk and the first content.  A file that is not what the first walk
\* found is found out by the second one, because no identity comes back.
Witnessed(moment) ==
    \A f \in File : entries[f] # Gone =>
        /\ Identity(repository[f]) = entries[f] =>
              /\ moment[f] = repository[f].text
              /\ pass = "rewalk" \/ f < at => contents[f] = repository[f].text
        /\ pass = "rewalk" /\ f < at /\ walked[f] = entries[f] => moment[f] = contents[f]

Rereading ==
    stage = "source_print" /\ pass \in { "read", "rewalk" } =>
        /\ \E moment \in past : Witnessed(moment)
        /\ \A f \in File : entries[f] = Gone /\ (pass = "rewalk" \/ f < at) => contents[f] = Gone

Fingerprinted ==
    stage \in DOMAIN Following \ { "before", "source_print" } \/ answer = "prepared" => OfAMoment(fingerprint)

\* Who made the destination.
DirectoryOwned ==
    /\ directory \in { "none", "own", "foreign" }
    /\ stage \in { "request", "before", "source_print", "unchanged", "mkdir" } =>
           ~identified /\ directory # "own" /\ answer = "none"
    /\ stage \in DOMAIN Following \ { "before", "source_print", "unchanged", "mkdir", "validate" } =>
           directory = "own" /\ answer = "none"
    /\ stage \in DOMAIN Following \ { "before", "source_print", "unchanged", "mkdir", "identify" } =>
           identified
    /\ stage = "validate" => directory = "own"
    /\ stage = "cleanup" => identified /\ directory = "own" /\ answer # "prepared"
    /\ directory = "foreign" => ~identified /\ answer # "prepared"

PrepInv == PrepTypes /\ ContentOf(repository) \in past /\ Rereading /\ Fingerprinted /\ DirectoryOwned

-----------------------------------------------------------------------------
(* Types.                                                                   *)

LEMMA FollowingCases ==
    /\ DOMAIN Following = { "before", "source_print", "unchanged", "mkdir", "identify", "copy", "still",
            "still_print", "copied", "copy_print", "copy_still", "copy_print_again", "return", "validate" }
    /\ Following["before"] = "source_print" /\ Following["source_print"] = "unchanged"
    /\ Following["unchanged"] = "mkdir" /\ Following["mkdir"] = "identify"
    /\ Following["identify"] = "copy" /\ Following["copy"] = "still"
    /\ Following["still"] = "still_print" /\ Following["still_print"] = "copied"
    /\ Following["copied"] = "copy_print" /\ Following["copy_print"] = "copy_still"
    /\ Following["copy_still"] = "copy_print_again" /\ Following["copy_print_again"] = "return"
    /\ Following["return"] = "validate" /\ Following["validate"] = "done"
  BY DEF Following

LEMMA BlankTyped == Blank \in Identities /\ Blank \in [ File -> Content ]
  BY DEF Blank, Identities, Content

LEMMA IdentityTyped ==
    ASSUME PrepTypes, NEW f \in File
    PROVE  Identity(Tree[f]) \in 0..changes \cup { Gone }
  BY DEF PrepTypes, Tracked, Identity, Tree

LEMMA BreakTyped ==
    ASSUME PrepTypes, NEW code, Break(code),
           UNCHANGED << repository, workspace, changes, fingerprint, identified >>
    PROVE  PrepTypes'
<1>1. 1 \in 1..(Files + 1)
  BY PreparationAssumption
<1>2. QED
  BY <1>1, BlankTyped DEF Break, StartReading, PrepTypes, PrepStages, Identities, Tracked

LEMMA AdvanceTyped ==
    ASSUME PrepTypes, Advance, stage \in DOMAIN Following, UNCHANGED << repository, workspace, changes >>,
           fingerprint' \in [ File -> Content ], identified' \in BOOLEAN
    PROVE  PrepTypes'
<1>1. 1 \in 1..(Files + 1)
  BY PreparationAssumption
<1>2. Following[stage] \in PrepStages
  BY FollowingCases DEF PrepStages
<1>3. QED
  BY <1>1, <1>2, BlankTyped DEF Advance, StartReading, PrepTypes, Identities, Tracked

LEMMA ChangeTyped ==
    ASSUME PrepTypes, ChangeFile
    PROVE  PrepTypes' /\ changes' = changes + 1
<1>1. \A f \in File, text \in Content, tracked \in Tracked :
          [tracked EXCEPT ![f] = [text |-> text, version |-> changes + 1]]
              \in [ File -> [ text : Content, version : 0..(changes + 1) ] ]
  BY DEF PrepTypes, Tracked
<1>2. repository' \in Tracked' /\ workspace' \in Tracked'
  <2>1. changes' = changes + 1 /\ changes \in Nat /\ repository \in Tracked /\ workspace \in Tracked
    BY DEF ChangeFile, PrepTypes
  <2>2. Tracked \subseteq [ File -> [ text : Content, version : 0..(changes + 1) ] ]
    BY <2>1 DEF Tracked
  <2>3. Tracked' = [ File -> [ text : Content, version : 0..(changes + 1) ] ]
    BY <2>1 DEF Tracked
  <2>4. \/ UNCHANGED << repository, workspace >>
        \/ UNCHANGED workspace /\ \E f \in File, text \in Content :
               repository' = [repository EXCEPT ![f] = [text |-> text, version |-> changes + 1]]
        \/ UNCHANGED repository /\ \E f \in File, text \in Content :
               workspace' = [workspace EXCEPT ![f] = [text |-> text, version |-> changes + 1]]
    BY DEF ChangeFile
  <2>5. QED
    BY <1>1, <2>1, <2>2, <2>3, <2>4
<1>3. walked' \in Identities' /\ entries' \in Identities'
  BY DEF ChangeFile, reading, PrepTypes, Identities
<1>4. QED
  BY <1>2, <1>3 DEF ChangeFile, reading, found, PrepTypes

LEMMA PrepTyped ==
    ASSUME PrepTypes, PrepNext
    PROVE  PrepTypes'
<1> USE DEF world, reading, found
<1>0. 1 \in 1..(Files + 1) /\ Files \in Nat /\ \A f \in File : f + 1 \in 1..(Files + 1)
  BY PreparationAssumption DEF File
<1>1. CASE CheckRequest
  BY <1>0, <1>1, BlankTyped, FollowingCases DEF CheckRequest, StartReading, PrepTypes, PrepStages, Tracked, Identities
<1>2. CASE Walk
  <2>1. at \in File /\ Identity(Tree[at]) \in 0..changes \cup { Gone }
    BY <1>2, IdentityTyped DEF Walk
  <2>2. QED
    BY <1>0, <1>2, <2>1 DEF Walk, PrepTypes, Tracked, Identities
<1>3. CASE ReadFile
  <2>1. CASE Break("SOURCE_MUTATED")
    BY <1>3, <2>1, BreakTyped DEF ReadFile
  <2>2. at \in File /\ Tree[at].text \in Content /\ Gone \in Content
    BY <1>3 DEF ReadFile, PrepTypes, Tracked, Tree, Content
  <2>3. QED
    BY <1>0, <1>3, <2>1, <2>2 DEF ReadFile, PrepTypes, Tracked, Identities
<1>4. CASE Turn
  BY <1>0, <1>4, BlankTyped DEF Turn, PrepTypes, Tracked, Identities
<1>5. CASE ReadingEnds
  <2>1. stage \in DOMAIN Following
    BY <1>5, FollowingCases DEF ReadingEnds, Snapshots, Fingerprints
  <2>2. CASE Agrees
    <3>1. fingerprint' \in [ File -> Content ] /\ Advance
      BY <1>5, <2>2 DEF ReadingEnds, PrepTypes
    <3>2. QED
      BY <1>5, <2>1, <3>1, AdvanceTyped DEF ReadingEnds, PrepTypes
  <2>3. CASE ~Agrees
    BY <1>5, <2>3, BreakTyped DEF ReadingEnds
  <2>4. QED
    BY <2>2, <2>3
<1>6. CASE MakeDestination
  BY <1>6, BreakTyped, AdvanceTyped, FollowingCases DEF MakeDestination, PrepTypes
<1>7. CASE Identify
  BY <1>7, AdvanceTyped, FollowingCases DEF Identify, PrepTypes
<1>8. CASE CopyFile
  <2>1. CASE UNCHANGED workspace /\ Break("SOURCE_MUTATED")
    BY <1>8, <2>1, BreakTyped DEF CopyFile
  <2>2. workspace' \in Tracked
    BY <1>8 DEF CopyFile, PrepTypes, Tracked
  <2>3. QED
    BY <1>0, <1>8, <2>1, <2>2 DEF CopyFile, PrepTypes, Tracked, Identities
<1>9. CASE CopyEnds
  BY <1>9, AdvanceTyped, FollowingCases DEF CopyEnds, PrepTypes
<1>10. CASE Return
  BY <1>0, <1>10, BlankTyped, FollowingCases DEF Return, StartReading, PrepTypes, PrepStages, Tracked, Identities
<1>11. CASE CleanupFailed
  BY <1>11 DEF CleanupFailed, PrepTypes, PrepStages, Tracked, Identities
<1>12. CASE PrepareFails
  BY <1>12, BreakTyped DEF PrepareFails
<1>13. CASE InterruptPrepare
  BY <1>13 DEF InterruptPrepare, PrepTypes, PrepStages, Tracked, Identities
<1>14. CASE ChangeFile
  BY <1>14, ChangeTyped
<1>15. QED
  BY <1>1, <1>2, <1>3, <1>4, <1>5, <1>6, <1>7, <1>8, <1>9, <1>10, <1>11, <1>12, <1>13, <1>14
     DEF PrepNext, PrepStep

-----------------------------------------------------------------------------
(* The fingerprint.                                                         *)

LEMMA PrepPast ==
    ASSUME PrepNext, ContentOf(repository) \in past
    PROVE  past \subseteq past' /\ ContentOf(repository)' \in past'
<1> USE DEF world, ContentOf
<1>1. ChangeFile => past \subseteq past' /\ ContentOf(repository)' \in past'
  BY DEF ChangeFile
<1>2. QED
  BY <1>1 DEF PrepNext, PrepStep, CheckRequest, Walk, ReadFile, Turn, ReadingEnds, MakeDestination, Identify,
     CopyFile, CopyEnds, Return, CleanupFailed, PrepareFails, InterruptPrepare

\* No identity comes back: what is written is told from all that was seen.
LEMMA ChangeSeen ==
    ASSUME PrepTypes, ChangeFile, NEW f \in File, entries[f] # Gone, Identity(repository'[f]) = entries[f]
    PROVE  repository'[f] = repository[f]
<1>1. entries[f] \in 0..changes /\ changes \in Nat /\ repository \in Tracked
  BY DEF PrepTypes, Identities
<1>2. CASE repository' = repository
  BY <1>2
<1>3. CASE \E g \in File, text \in Content :
               repository' = [repository EXCEPT ![g] = [text |-> text, version |-> changes + 1]]
  <2>1. PICK g \in File, text \in Content :
            repository' = [repository EXCEPT ![g] = [text |-> text, version |-> changes + 1]]
    BY <1>3
  <2>2. f # g
    <3>1. f = g => repository'[f] = [text |-> text, version |-> changes + 1]
      BY <1>1, <2>1 DEF Tracked
    <3>2. f = g => Identity(repository'[f]) \in { Gone, changes + 1 }
      BY <3>1 DEF Identity
    <3>3. QED
      BY <1>1, <3>2
  <2>3. QED
    BY <1>1, <2>1, <2>2 DEF Tracked
<1>4. QED
  BY <1>2, <1>3 DEF ChangeFile

LEMMA ChangeReads ==
    ASSUME PrepTypes, Rereading, ContentOf(repository) \in past, ChangeFile
    PROVE  Rereading'
<1>1. UNCHANGED << stage, pass, at, walked, entries, contents >> /\ past \subseteq past'
  BY PrepPast DEF ChangeFile, reading, PrepNext
<1>2. CASE stage = "source_print" /\ pass \in { "read", "rewalk" }
  <2>1. PICK moment \in past : Witnessed(moment)
    BY <1>2 DEF Rereading
  <2>2. Witnessed(moment)'
    BY <1>1, <2>1, ChangeSeen DEF Witnessed
  <2>3. QED
    BY <1>1, <1>2, <2>1, <2>2 DEF Rereading
<1>3. QED
  BY <1>1, <1>2 DEF Rereading

LEMMA ReadingReads ==
    ASSUME PrepTypes, Rereading, ContentOf(repository) \in past, stage = "source_print",
           Walk \/ ReadFile \/ Turn \/ ReadingEnds
    PROVE  Rereading'
<1> USE DEF world, Tree, OfTheCopy, StartReading
<1>0. Files \in Nat /\ File = 1..Files /\ at \in 1..(Files + 1) /\ UNCHANGED << repository, past >>
  BY PreparationAssumption DEF File, PrepTypes, Walk, ReadFile, Turn, ReadingEnds
<1>1. CASE Walk /\ pass = "rewalk"
  <2>1. PICK moment \in past : Witnessed(moment)
    BY <1>1 DEF Rereading
  <2>2. walked' = [walked EXCEPT ![at] = Identity(repository[at])] /\ at' = at + 1 /\ at \in File
        /\ UNCHANGED << stage, pass, entries, contents >>
    BY <1>1 DEF Walk
  <2>3. \A f \in File : walked'[f] = IF f = at THEN Identity(repository[f]) ELSE walked[f]
    BY <2>2 DEF PrepTypes, Identities
  <2>4. Witnessed(moment)'
    BY <1>0, <1>1, <2>1, <2>2, <2>3 DEF Witnessed
  <2>5. QED
    BY <1>0, <1>1, <2>1, <2>2, <2>4 DEF Rereading
<1>2. CASE ReadFile /\ ~Break("SOURCE_MUTATED")
  <2>1. PICK moment \in past : Witnessed(moment)
    BY <1>2 DEF Rereading, ReadFile
  <2>2. /\ entries[at] \in { Gone, Identity(repository[at]) } /\ at \in File /\ pass = "read"
        /\ contents' = [contents EXCEPT ![at] = IF entries[at] = Gone THEN Gone ELSE repository[at].text]
        /\ at' = at + 1 /\ UNCHANGED << stage, pass, walked, entries >>
    BY <1>2 DEF ReadFile
  <2>3. \A f \in File : contents'[f] = IF f # at THEN contents[f]
                                       ELSE IF entries[at] = Gone THEN Gone ELSE repository[at].text
    BY <2>2 DEF PrepTypes
  <2>4. \A f \in File : f < at + 1 => f < at \/ f = at
    BY <1>0
  <2>5. Witnessed(moment)'
    BY <1>0, <2>1, <2>2, <2>3, <2>4 DEF Witnessed
  <2>6. QED
    BY <1>0, <2>1, <2>2, <2>3, <2>4, <2>5 DEF Rereading
<1>3. CASE Turn /\ pass = "walk"
  <2>1. at' = 1 /\ pass' = "read" /\ UNCHANGED stage
    BY <1>3 DEF Turn
  <2>2. \A f \in File : ~(f < 1)
    BY <1>0
  <2>3. \A f \in File : ContentOf(repository)[f] = repository[f].text
    BY DEF ContentOf
  <2> DEFINE moment == ContentOf(repository)
  <2>4. moment \in past' /\ UNCHANGED repository
    BY <1>0
  <2>5. Witnessed(moment)'
    BY <2>1, <2>2, <2>3, <2>4 DEF Witnessed, ContentOf
  <2>6. QED
    BY <2>1, <2>2, <2>4, <2>5 DEF Rereading
<1>4. CASE Turn /\ pass = "read"
  <2>1. PICK moment \in past : Witnessed(moment)
    BY <1>4 DEF Rereading
  <2>2. at = Files + 1 /\ at' = 1 /\ pass' = "rewalk" /\ UNCHANGED << stage, entries, contents >>
    BY <1>4 DEF Turn
  <2>3. \A f \in File : ~(f < 1) /\ f < at
    BY <1>0, <2>2
  <2>4. Witnessed(moment)'
    BY <1>0, <1>4, <2>1, <2>2, <2>3 DEF Witnessed
  <2>5. QED
    BY <1>0, <1>4, <2>1, <2>2, <2>3, <2>4 DEF Rereading
<1>5. CASE Walk /\ pass = "walk"
  BY <1>5 DEF Walk, Rereading
<1>6. CASE ReadingEnds \/ Break("SOURCE_MUTATED")
  BY <1>6, FollowingCases DEF ReadingEnds, Break, Advance, Rereading
<1>7. QED
  BY <1>1, <1>2, <1>3, <1>4, <1>5, <1>6 DEF Walk, Turn

LEMMA PrepReads ==
    ASSUME PrepTypes, Rereading, ContentOf(repository) \in past, PrepNext
    PROVE  Rereading'
<1>1. CASE ChangeFile
  BY <1>1, ChangeReads
<1>2. CASE stage = "source_print" /\ (Walk \/ ReadFile \/ Turn \/ ReadingEnds)
  BY <1>2, ReadingReads
<1>3. CASE stage # "source_print" /\ stage' = "source_print"
  <2>1. pass' = "walk"
    BY <1>3, FollowingCases DEF PrepNext, PrepStep, CheckRequest, Walk, ReadFile, Turn, ReadingEnds,
       MakeDestination, Identify, CopyFile, CopyEnds, Return, CleanupFailed, PrepareFails, InterruptPrepare,
       ChangeFile, Break, Advance, StartReading
  <2>2. QED
    BY <2>1 DEF Rereading
<1>4. CASE stage' # "source_print"
  BY <1>4 DEF Rereading
<1>5. CASE stage = "source_print" /\ stage' = "source_print" /\ ~ChangeFile
            /\ ~(Walk \/ ReadFile \/ Turn \/ ReadingEnds)
  BY <1>5 DEF PrepNext, PrepStep, CheckRequest, MakeDestination, Identify, CopyFile, CopyEnds, Return,
     CleanupFailed, PrepareFails, InterruptPrepare, Break
<1>6. QED
  BY <1>1, <1>2, <1>3, <1>4, <1>5

\* The two walks agree: what was read in between is of the moment between them.
LEMMA PrintOfAMoment ==
    ASSUME PrepTypes, Rereading, ReadingEnds, Agrees, stage = "source_print"
    PROVE  OfAMoment(contents)
<1>1. /\ pass = "rewalk" /\ at = Files + 1 /\ walked = entries
      /\ Files \in Nat /\ \A f \in File : f < at
  BY PreparationAssumption DEF ReadingEnds, Agrees, Snapshots, File
<1>2. PICK moment \in past : Witnessed(moment)
  BY <1>1 DEF Rereading
<1>3. \A f \in File : contents[f] # Gone => entries[f] # Gone
  BY <1>1 DEF Rereading
<1>4. \A f \in File : contents[f] # Gone => moment[f] = contents[f]
  BY <1>1, <1>2, <1>3 DEF Witnessed
<1>5. QED
  BY <1>2, <1>4 DEF OfAMoment

LEMMA PrepPrints ==
    ASSUME PrepInv, PrepNext
    PROVE  Fingerprinted'
<1>1. past \subseteq past'
  BY PrepPast DEF PrepInv
<1>2. OfAMoment(fingerprint) /\ fingerprint' = fingerprint => OfAMoment(fingerprint)'
  BY <1>1 DEF OfAMoment
<1>3. CASE ReadingEnds /\ Agrees
  <2>1. CASE stage = "source_print"
    <3>1. fingerprint' = contents
      BY <1>3, <2>1 DEF ReadingEnds
    <3>2. OfAMoment(contents)
      BY <1>3, <2>1, PrintOfAMoment DEF PrepInv
    <3>3. QED
      BY <1>1, <3>1, <3>2 DEF OfAMoment, Fingerprinted
  <2>2. CASE stage = "before"
    BY <1>2, <1>3, <2>2, FollowingCases DEF ReadingEnds, Advance, Fingerprinted, PrepInv
  <2>3. CASE stage = "copy_print"
    <3>1. fingerprint' = fingerprint
      BY <1>3, <2>3 DEF ReadingEnds, Agrees, Snapshots, Fingerprints
    <3>2. QED
      BY <1>2, <2>3, <3>1, FollowingCases DEF PrepInv, Fingerprinted
  <2>4. CASE stage \notin { "before", "source_print", "copy_print" }
    <3>1. fingerprint' = fingerprint /\ stage \in DOMAIN Following
      BY <1>3, <2>4, FollowingCases DEF ReadingEnds, Snapshots, Fingerprints
    <3>2. QED
      BY <1>2, <2>4, <3>1 DEF PrepInv, Fingerprinted
  <2>5. QED
    BY <2>1, <2>2, <2>3, <2>4
<1>4. CASE ~(ReadingEnds /\ Agrees)
  <2>1. fingerprint' = fingerprint
    BY <1>4 DEF found, PrepNext, PrepStep, CheckRequest, Walk, ReadFile, Turn, ReadingEnds,
       MakeDestination, Identify, CopyFile, CopyEnds, Return, CleanupFailed, PrepareFails, InterruptPrepare,
       ChangeFile
  <2>2. stage' \in DOMAIN Following \ { "before", "source_print" } \/ answer' = "prepared" =>
            stage \in DOMAIN Following \ { "before", "source_print" } \/ answer = "prepared"
    BY <1>4, FollowingCases DEF PrepNext, PrepStep, CheckRequest, Walk, ReadFile, Turn, ReadingEnds,
       MakeDestination, Identify, CopyFile, CopyEnds, Return, CleanupFailed, PrepareFails, InterruptPrepare,
       ChangeFile, Break, Advance
  <2>3. QED
    BY <1>2, <2>1, <2>2 DEF PrepInv, Fingerprinted
<1>5. QED
  BY <1>3, <1>4

-----------------------------------------------------------------------------
(* The destination.                                                         *)

LEMMA PrepOwns ==
    ASSUME PrepTypes, DirectoryOwned, PrepNext
    PROVE  DirectoryOwned'
<1> USE FollowingCases DEF DirectoryOwned, Break, Advance, world, found
<1>1. CASE CheckRequest
  BY <1>1 DEF CheckRequest
<1>2. CASE Walk \/ ReadFile \/ Turn
  BY <1>2 DEF Walk, ReadFile, Turn, Snapshots, Fingerprints
<1>3. CASE ReadingEnds
  BY <1>3 DEF ReadingEnds, Snapshots, Fingerprints
<1>4. CASE MakeDestination
  BY <1>4 DEF MakeDestination
<1>5. CASE Identify \/ CopyFile \/ CopyEnds
  BY <1>5 DEF Identify, CopyFile, CopyEnds
<1>6. CASE Return \/ CleanupFailed
  BY <1>6 DEF Return, CleanupFailed
<1>7. CASE PrepareFails
  BY <1>7 DEF PrepareFails
<1>8. CASE InterruptPrepare
  BY <1>8 DEF InterruptPrepare
<1>9. CASE ChangeFile
  BY <1>9 DEF ChangeFile, PrepTypes, PrepStages
<1>10. QED
  BY <1>1, <1>2, <1>3, <1>4, <1>5, <1>6, <1>7, <1>8, <1>9 DEF PrepNext, PrepStep

-----------------------------------------------------------------------------
(* The theorems.                                                            *)

LEMMA PrepInitInv == PrepInit => PrepInv
<1> SUFFICES ASSUME PrepInit PROVE PrepInv
  OBVIOUS
<1>1. 1 \in 1..(Files + 1)
  BY PreparationAssumption
<1>2. NoFiles \in Tracked /\ repository \in Tracked
  BY DEF PrepInit, NoFiles, Tracked, Content
<1>3. PrepTypes
  BY <1>1, <1>2, BlankTyped DEF PrepInit, PrepTypes, PrepStages
<1>4. Rereading /\ Fingerprinted /\ DirectoryOwned
  BY FollowingCases DEF PrepInit, Rereading, Fingerprinted, DirectoryOwned
<1>5. QED
  BY <1>3, <1>4 DEF PrepInv, PrepInit

LEMMA PrepStutterInv == PrepInv /\ UNCHANGED prepVars => PrepInv'
<1> SUFFICES ASSUME PrepInv, UNCHANGED prepVars PROVE PrepInv'
  OBVIOUS
<1> USE DEF prepVars, world, reading, found
<1>1. PrepTypes' /\ DirectoryOwned'
  BY DEF PrepInv, PrepTypes, PrepStages, Tracked, Identities, DirectoryOwned
<1>2. Rereading' /\ Fingerprinted'
  BY DEF PrepInv, Rereading, Witnessed, Fingerprinted, OfAMoment
<1>3. QED
  BY <1>1, <1>2 DEF PrepInv, ContentOf

LEMMA PrepNextInv == PrepInv /\ [PrepNext]_prepVars => PrepInv'
<1>1. PrepInv /\ PrepNext => PrepInv'
  BY PrepTyped, PrepPast, PrepReads, PrepPrints, PrepOwns DEF PrepInv
<1>2. QED
  BY <1>1, PrepStutterInv

\* The inductive invariant of prepare.
THEOREM PrepInvariant == PrepSpec => []PrepInv
  BY PrepInitInv, PrepNextInv, PTL DEF PrepSpec

\* What prepare returns is no mixture of an older and a newer repository, however
\* many files there are and however often others change them.
THEOREM PreparedAlwaysASnapshot == PrepSpec => []PreparedIsASnapshot
<1>1. PrepInv => PreparedIsASnapshot
  BY DEF PrepInv, Fingerprinted, OfAMoment, PreparedIsASnapshot
<1>2. QED
  BY <1>1, PrepInvariant, PTL

\* What OwnsItsDirectory says of a step.
DirectoryKept ==
    /\ directory = "foreign" => directory' = "foreign" /\ answer' # "prepared"
    /\ stage # "done" /\ stage' = "done" /\ directory' = "own" =>
           \/ stage = "validate" \/ answer' \in { "CLEANUP_FAILED", "interrupted" }
           \/ ~identified

LEMMA PrepKeepsDirectory ==
    ASSUME PrepInv, PrepNext
    PROVE  DirectoryKept
<1> USE FollowingCases DEF PrepInv, DirectoryOwned, DirectoryKept, Break, Advance, world, found
<1>1. CASE CheckRequest \/ Walk \/ ReadFile \/ Turn
  BY <1>1 DEF CheckRequest, Walk, ReadFile, Turn, Snapshots, Fingerprints
<1>2. CASE ReadingEnds
  BY <1>2 DEF ReadingEnds, Snapshots, Fingerprints
<1>3. CASE MakeDestination \/ Identify \/ CopyFile \/ CopyEnds
  BY <1>3 DEF MakeDestination, Identify, CopyFile, CopyEnds
<1>4. CASE Return \/ CleanupFailed \/ PrepareFails
  BY <1>4 DEF Return, CleanupFailed, PrepareFails
<1>5. CASE InterruptPrepare
  BY <1>5 DEF InterruptPrepare
<1>6. CASE ChangeFile
  BY <1>6 DEF ChangeFile
<1>7. QED
  BY <1>1, <1>2, <1>3, <1>4, <1>5, <1>6 DEF PrepNext, PrepStep

\* Nobody else's directory is returned or removed, and the own one stays only if it
\* is returned or the failure to remove it is told, or in the other two cases that
\* OwnsItsDirectory names.
THEOREM OwnsItsDirectoryAlways == PrepSpec => OwnsItsDirectory
<1>1. PrepInv /\ [PrepNext]_prepVars => [DirectoryKept]_prepVars
  BY PrepKeepsDirectory
<1>2. QED
  BY <1>1, PrepInvariant, PTL DEF PrepSpec, OwnsItsDirectory, DirectoryKept

(***************************************************************************)
(* CONTEXT SELECTION, for any number of Python files, definitions and       *)
(* frames, all that they mention, and every limit.                          *)
(***************************************************************************)
-----------------------------------------------------------------------------
(* What can become an item.                                                 *)

Kind == { "mandatory", "trace", "visible_test", "source", "definition", "import", "instruction" }
Left == [ file : Nat, kind : Kind, reason : { "unsafe", "ast_parse_failed", "budget" } ]

Items ==
    Evidence \cup { Instruction } \cup { SourceItem(d) : d \in AnyDefinition }
        \cup { DefinitionItem(d) : d \in AnyDefinition }
        \cup { ImportItem(p[1], p[2]) : p \in PyFile \X PyFile }

LEMMA Numbers ==
    /\ PyFiles \in Nat /\ Definitions \in Nat
    /\ \A f \in PyFile : f \in Nat
    /\ \A d \in Definition : d[1] \in PyFile /\ d[2] \in 1..Definitions /\ d = << d[1], d[2] >>
    /\ \A d \in AnyDefinition : d[1] \in PyFile /\ d[2] \in 1..(2 * Definitions) /\ d = << d[1], d[2] >>
<1>1. /\ PyFiles \in Nat /\ Definitions \in Nat /\ Namesakes \subseteq Definition
      /\ \A f \in PyFile : f \in Nat
  BY ContextAssumption DEF Definition, PyFile
<1>2. \A d \in Definition : d[1] \in PyFile /\ d[2] \in 1..Definitions /\ d = << d[1], d[2] >>
  BY <1>1 DEF Definition
<1>3. ASSUME NEW d \in AnyDefinition
      PROVE  d[1] \in PyFile /\ d[2] \in 1..(2 * Definitions) /\ d = << d[1], d[2] >>
  <2>1. CASE d \in Definition
    BY <1>1, <1>2, <2>1
  <2>2. ASSUME NEW e \in Namesakes, d = InnerOf(e)
        PROVE  d[1] \in PyFile /\ d[2] \in 1..(2 * Definitions) /\ d = << d[1], d[2] >>
    BY <1>1, <1>2, <2>2 DEF InnerOf
  <2>3. QED
    BY <2>1, <2>2 DEF AnyDefinition
<1>4. QED
  BY <1>1, <1>2, <1>3

\* A key is a top-level definition's file and name; it is of the same file, and a
\* top-level definition is told by it.
LEMMA Keys ==
    /\ \A d \in AnyDefinition : KeyOf(d) \in Definition /\ KeyOf(d)[1] = d[1]
    /\ \A d \in Definition : d \in AnyDefinition /\ KeyOf(d) = d
<1>1. \A d \in Definition : d \in AnyDefinition /\ KeyOf(d) = d
  BY Numbers DEF AnyDefinition, KeyOf
<1>2. ASSUME NEW e \in Namesakes
      PROVE  KeyOf(InnerOf(e)) = e /\ e \in Definition /\ InnerOf(e)[1] = e[1]
  <2>1. e \in Definition /\ e[2] \in 1..Definitions /\ e = << e[1], e[2] >> /\ Definitions \in Nat
    BY Numbers, ContextAssumption DEF Definition, PyFile
  <2>2. InnerOf(e)[1] = e[1] /\ InnerOf(e)[2] = Definitions + e[2]
    BY DEF InnerOf
  <2>3. Definitions + e[2] > Definitions /\ (Definitions + e[2]) - Definitions = e[2]
    BY <2>1
  <2>4. QED
    BY <2>1, <2>2, <2>3 DEF KeyOf
<1>3. QED
  BY <1>1, <1>2 DEF AnyDefinition

LEMMA Fields ==
    ASSUME NEW i \in Items
    PROVE  /\ i.priority \in Nat /\ i.file \in Nat /\ i.line \in Nat /\ i.size \in Nat
           /\ i.kind \in Kind
<1>1. CASE i \in Evidence \cup { Instruction }
  BY <1>1 DEF Evidence, Instruction, Item, Kind
<1>2. ASSUME NEW d \in AnyDefinition, i = SourceItem(d) \/ i = DefinitionItem(d)
      PROVE  /\ i.priority \in Nat /\ i.file \in Nat /\ i.line \in Nat /\ i.size \in Nat
             /\ i.kind \in Kind
  BY <1>2, Numbers DEF SourceItem, DefinitionItem, Item, Kind
<1>3. ASSUME NEW p \in PyFile \X PyFile, i = ImportItem(p[1], p[2])
      PROVE  /\ i.priority \in Nat /\ i.file \in Nat /\ i.line \in Nat /\ i.size \in Nat
             /\ i.kind \in Kind
  <2>1. 2 * Definitions + p[2] \in Nat /\ p[1] \in Nat
    BY Numbers
  <2>2. QED
    BY <1>3, <2>1 DEF ImportItem, Item, Kind
<1>4. QED
  BY <1>1, <1>2, <1>3, Zenon DEF Items

-----------------------------------------------------------------------------
(* What can be reached from a frame.                                        *)

Opened(d) == files[d[1]] = "text"

\* The definition that a key of visited stands for, while f is followed.
Own(f, key) == IF key = KeyOf(f) THEN f ELSE key

LEMMA FrameReached ==
    ASSUME NEW f \in AnyDefinition
    PROVE  f \in ReachableFrom(f)
  BY DEF ReachableFrom

LEMMA MentionsReached ==
    ASSUME refs \in SUBSET Mentions, NEW f \in AnyDefinition, NEW d \in ReachableFrom(f),
           NEW m \in MentionedBy({ d }), Opened(m)
    PROVE  Own(f, m) \in ReachableFrom(f)
<1>1. m \in AnyDefinition
  BY DEF MentionedBy, Mentions, AnyDefinition
<1>2. CASE m = KeyOf(f)
  BY <1>2, FrameReached DEF Own
<1>3. CASE m # KeyOf(f)
  <2>1. m \in ReachableFrom(f)
    BY <1>1, <1>3 DEF ReachableFrom, Opened
  <2>2. QED
    BY <1>3, <2>1 DEF Own
<1>4. QED
  BY <1>2, <1>3

LEMMA ReachableIsLeast ==
    ASSUME NEW f, NEW S \in SUBSET AnyDefinition, f \in S,
           \A d \in S : \A m \in MentionedBy({ d }) : Opened(m) /\ m # KeyOf(f) => m \in S
    PROVE  ReachableFrom(f) \subseteq S
  BY DEF ReachableFrom, Opened

LEMMA SameReached ==
    UNCHANGED << files, refs >> => \A f : ReachableFrom(f)' = ReachableFrom(f)
  BY DEF ReachableFrom, MentionedBy

LEMMA MentionsOfUnion ==
    ASSUME NEW S
    PROVE  \A m : m \in MentionedBy(S) <=> \E d \in S : m \in MentionedBy({ d })
  BY DEF MentionedBy

LEMMA MentionsTyped ==
    ASSUME refs \in SUBSET Mentions, NEW S
    PROVE  MentionedBy(S) \subseteq Definition
  BY DEF MentionedBy, Mentions

-----------------------------------------------------------------------------
(* The collection: what was taken for a frame so far can be reached from    *)
(* it, and what that mentions was taken, is pending, or waits for a call;   *)
(* for a frame that was looked at before, all that can be reached is there. *)

Collecting == selecting \in { "frames", "calls", "names" }

Waits == { c \in [ file : PyFile, names : SUBSET AnyDefinition ] : \A d \in c.names : d[1] = c.file }

ContextTyped ==
    /\ selecting \in { "request", "read", "frames", "calls", "names", "package", "done" }
    /\ frames \in SUBSET AnyDefinition /\ left \in SUBSET frames /\ refs \in SUBSET Mentions
    /\ calls \in Seq(Waits)
    /\ visited \in SUBSET Definition /\ nodes \in SUBSET AnyDefinition /\ pending \in SUBSET Definition
    /\ candidates \in SUBSET Items /\ included \in SUBSET candidates
    /\ omissions \in Seq(Left)
    /\ selected = "package" => selecting = "done"

\* What a call has in hand.
InCall ==
    /\ ~Collecting => left = {} /\ visited = {}
    /\ selecting # "package" => included = {}
    /\ selecting # "names" => nodes = {} /\ pending = {}
    /\ selecting \in { "calls", "names" } <=> calls # << >>
    /\ selecting = "names" =>
           /\ Opened(<< Head(calls).file, 0 >>)
           /\ pending \subseteq DefinitionsOf(Head(calls).file)
           /\ \A d \in Head(calls).names : KeyOf(d) \in visited

NamesIn(list) == UNION { list[k].names : k \in DOMAIN list }
Waiting == NamesIn(calls)
Known == visited \cup pending \cup Waiting

\* Nothing that f leads to is lost: it is known, or what the call will gather mentions
\* it elsewhere; and nothing is invented.
Follows(f) ==
    /\ KeyOf(f) \in visited \/ (visited = {} /\ calls = << CallFor(f[1], { f }) >>)
    /\ Waiting \subseteq Definition \cup { f }
    /\ \A d \in nodes : \E k \in visited : d = Own(f, k)
    /\ \A k \in visited :
           /\ Opened(k) /\ Own(f, k) \in DefinitionsFound \cup nodes
           /\ \A m \in MentionedBy({ Own(f, k) }) :
                  Opened(m) => m \in Known \/ (Own(f, k) \in nodes /\ m \notin DefinitionsOf(Head(calls).file))
    /\ \A d \in Known : Opened(d) => Own(f, d) \in ReachableFrom(f)

Finished(f) == Opened(f) => ReachableFrom(f) \subseteq DefinitionsFound

LedTo == UNION { ReachableFrom(f) : f \in { g \in frames \ left : Opened(g) } }

Followed ==
    Collecting =>
        /\ DefinitionsFound \subseteq LedTo
        /\ calls = << >> => \A f \in frames \ left : Finished(f)
        /\ calls # << >> =>
               \E f \in frames \ left : Follows(f) /\ \A g \in (frames \ left) \ { f } : Finished(g)

Collection == ContextTyped /\ InCall /\ Followed

LEMMA CollectedGrows ==
    ASSUME NEW N \in SUBSET AnyDefinition, NEW more, \A i \in more : i.kind # "definition",
           candidates' = candidates \cup { DefinitionItem(d) : d \in N } \cup more
    PROVE  DefinitionsFound' = DefinitionsFound \cup N
<1>1. \A d \in N : /\ DefinitionItem(d).kind = "definition"
                   /\ << DefinitionItem(d).file, DefinitionItem(d).line >> = d
  BY Numbers DEF DefinitionItem, Item
<1>2. ASSUME NEW x \in DefinitionsFound'
      PROVE  x \in DefinitionsFound \cup N
  <2>1. PICK i \in candidates' : i.kind = "definition" /\ x = << i.file, i.line >>
    BY <1>2 DEF DefinitionsFound
  <2>2. QED
    BY <1>1, <2>1 DEF DefinitionsFound
<1>3. ASSUME NEW x \in DefinitionsFound
      PROVE  x \in DefinitionsFound'
  BY <1>3 DEF DefinitionsFound
<1>4. ASSUME NEW x \in N
      PROVE  x \in DefinitionsFound'
  <2>1. DefinitionItem(x) \in candidates'
    OBVIOUS
  <2>2. QED
    BY <1>1, <2>1, Zenon DEF DefinitionsFound
<1>5. QED
  BY <1>2, <1>3, <1>4

LEMMA CollectedStays ==
    ASSUME NEW more, \A i \in more : i.kind # "definition", candidates' = candidates \cup more
    PROVE  DefinitionsFound' = DefinitionsFound
<1>1. ASSUME NEW x \in DefinitionsFound'
      PROVE  x \in DefinitionsFound
  <2>1. PICK i \in candidates' : i.kind = "definition" /\ x = << i.file, i.line >>
    BY <1>1 DEF DefinitionsFound
  <2>2. QED
    BY <2>1 DEF DefinitionsFound
<1>2. ASSUME NEW x \in DefinitionsFound
      PROVE  x \in DefinitionsFound'
  BY <1>2 DEF DefinitionsFound
<1>3. QED
  BY <1>1, <1>2

\* What the calls of a list ask for.
LEMMA NamesOfBoth ==
    ASSUME NEW s \in Seq(Waits), NEW t \in Seq(Waits)
    PROVE  s \o t \in Seq(Waits) /\ NamesIn(s \o t) = NamesIn(s) \cup NamesIn(t)
<1>1. /\ s \o t \in Seq(Waits) /\ Len(s) \in Nat /\ Len(t) \in Nat
      /\ Len(s \o t) = Len(s) + Len(t)
      /\ \A k \in 1..(Len(s) + Len(t)) : (s \o t)[k] = IF k <= Len(s) THEN s[k] ELSE t[k - Len(s)]
  BY ConcatProperties, LenProperties
<1>2. DOMAIN s = 1..Len(s) /\ DOMAIN t = 1..Len(t) /\ DOMAIN (s \o t) = 1..(Len(s) + Len(t))
  BY <1>1, LenProperties
<1>3. ASSUME NEW k \in DOMAIN s
      PROVE  k \in DOMAIN (s \o t) /\ (s \o t)[k] = s[k]
  <2>1. k \in 1..(Len(s) + Len(t)) /\ k <= Len(s)
    BY <1>1, <1>2
  <2>2. QED
    BY <1>1, <1>2, <2>1, Zenon
<1>4. ASSUME NEW k \in DOMAIN t
      PROVE  \E j \in DOMAIN (s \o t) : (s \o t)[j] = t[k]
  <2>1. k + Len(s) \in 1..(Len(s) + Len(t)) /\ ~(k + Len(s) <= Len(s)) /\ (k + Len(s)) - Len(s) = k
    BY <1>1, <1>2
  <2>2. (s \o t)[k + Len(s)] = t[k]
    BY <1>1, <2>1
  <2>3. QED
    BY <1>2, <2>1, <2>2
<1>5. ASSUME NEW k \in DOMAIN (s \o t)
      PROVE  \/ \E j \in DOMAIN s : (s \o t)[k] = s[j]
             \/ \E j \in DOMAIN t : (s \o t)[k] = t[j]
  <2>1. k \in 1..(Len(s) + Len(t))
    BY <1>2
  <2>2. CASE k <= Len(s)
    <3>1. k \in DOMAIN s
      BY <1>1, <1>2, <2>1, <2>2
    <3>2. QED
      BY <1>3, <3>1
  <2>3. CASE ~(k <= Len(s))
    <3>1. k - Len(s) \in DOMAIN t
      BY <1>1, <1>2, <2>1, <2>3
    <3>2. (s \o t)[k] = t[k - Len(s)]
      BY <1>1, <2>1, <2>3
    <3>3. QED
      BY <3>1, <3>2
  <2>4. QED
    BY <2>2, <2>3
<1>6. NamesIn(s \o t) \subseteq NamesIn(s) \cup NamesIn(t)
  BY <1>5, Zenon DEF NamesIn
<1>7. NamesIn(s) \subseteq NamesIn(s \o t)
  BY <1>3, Zenon DEF NamesIn
<1>8. NamesIn(t) \subseteq NamesIn(s \o t)
  BY <1>4, Zenon DEF NamesIn
<1>9. QED
  BY <1>1, <1>6, <1>7, <1>8, Zenon

LEMMA NamesOfFirst ==
    ASSUME NEW s \in Seq(Waits), s # << >>
    PROVE  /\ Tail(s) \in Seq(Waits) /\ Head(s) \in Waits
           /\ NamesIn(s) = Head(s).names \cup NamesIn(Tail(s))
<1>1. /\ Tail(s) \in Seq(Waits) /\ Head(s) \in Waits /\ Len(s) \in Nat \ {0} /\ Len(Tail(s)) = Len(s) - 1
      /\ \A k \in 1..Len(Tail(s)) : Tail(s)[k] = s[k + 1]
  BY HeadTailProperties, LenProperties, EmptySeq
<1>2. DOMAIN s = 1..Len(s) /\ DOMAIN Tail(s) = 1..(Len(s) - 1) /\ Head(s) = s[1]
  BY <1>1, LenProperties
<1>3. ASSUME NEW k \in DOMAIN s
      PROVE  s[k] = Head(s) \/ \E j \in DOMAIN Tail(s) : s[k] = Tail(s)[j]
  <2>1. CASE k = 1
    BY <1>2, <2>1
  <2>2. CASE k # 1
    <3>1. k - 1 \in 1..(Len(s) - 1) /\ (k - 1) + 1 = k
      BY <1>1, <1>2, <2>2
    <3>2. Tail(s)[k - 1] = s[k]
      BY <1>1, <3>1
    <3>3. QED
      BY <1>2, <3>1, <3>2
  <2>3. QED
    BY <2>1, <2>2
<1>4. ASSUME NEW j \in DOMAIN Tail(s)
      PROVE  \E k \in DOMAIN s : s[k] = Tail(s)[j]
  <2>1. j + 1 \in DOMAIN s
    BY <1>1, <1>2
  <2>2. QED
    BY <1>1, <1>2, <2>1
<1>5. 1 \in DOMAIN s
  BY <1>1, <1>2
<1>6. NamesIn(s) \subseteq Head(s).names \cup NamesIn(Tail(s))
  BY <1>3, Zenon DEF NamesIn
<1>7. Head(s).names \subseteq NamesIn(s)
  BY <1>2, <1>5, Zenon DEF NamesIn
<1>8. NamesIn(Tail(s)) \subseteq NamesIn(s)
  BY <1>4, Zenon DEF NamesIn
<1>9. QED
  BY <1>1, <1>6, <1>7, <1>8, Zenon

\* In whatever order, all of a finite set.
LEMMA Ordered ==
    ASSUME NEW S, IsFiniteSet(S), NEW order \in SetToSeqs(S)
    PROVE  order \in Seq(S) /\ { order[k] : k \in DOMAIN order } = S
<1> DEFINE n == Cardinality(S)
<1>1. n \in Nat /\ IsFiniteSet(1..n) /\ Cardinality(1..n) = n
  BY FS_CardinalityType, FS_Interval
<1>2. order \in [ 1..n -> S ] /\ \A i, j \in 1..n : i # j => order[i] # order[j]
  BY DEF SetToSeqs
<1>3. order \in Injection(1..n, S)
  BY <1>2 DEF Injection, IsInjective
<1>4. order \in Surjection(1..n, S)
  <2> HIDE DEF n
  <2>1. ASSUME NEW m, m = 1..n
        PROVE  order \in Surjection(m, S)
    <3>1. order \in Injection(m, S) /\ Cardinality(m) = Cardinality(S)
      BY <1>1, <1>3, <2>1 DEF n
    <3>2. QED
      BY <3>1, FS_Injection
  <2>2. QED
    BY <2>1
<1>5. order \in Seq(S)
  BY <1>1, <1>2
<1>6. \A x \in S : \E k \in 1..n : order[k] = x
  BY <1>4 DEF Surjection
<1>7. DOMAIN order = 1..n
  BY <1>2
<1>8. QED
  BY <1>2, <1>5, <1>6, <1>7

\* A set that is read off a finite one is finite.
LEMMA ImageFinite ==
    ASSUME NEW S, IsFiniteSet(S), NEW f, f \in [ S -> { f[x] : x \in S } ]
    PROVE  IsFiniteSet({ f[x] : x \in S })
<1>1. f \in Surjection(S, { f[x] : x \in S })
  BY DEF Surjection
<1>2. QED
  BY <1>1, FS_Surjection

LEMMA FilesFinite == IsFiniteSet(PyFile) /\ IsFiniteSet(AnyDefinition)
<1>1. PyFiles \in Int /\ Definitions \in Int /\ 1 \in Int /\ 2 * Definitions \in Int
  BY Numbers
<1>2. IsFiniteSet(1..PyFiles) /\ IsFiniteSet(1..(2 * Definitions))
  BY <1>1, FS_Interval
<1>3. IsFiniteSet((1..PyFiles) \X (1..(2 * Definitions)))
  BY <1>2, FS_Product
<1>4. AnyDefinition \subseteq (1..PyFiles) \X (1..(2 * Definitions))
  BY Numbers DEF PyFile
<1>5. QED
  BY <1>2, <1>3, <1>4, FS_Subset DEF PyFile

-----------------------------------------------------------------------------
(* Step by step.                                                            *)

\* Where nothing is collected there is nothing to say but what the type says.
LEMMA NotCollecting ==
    ASSUME ContextTyped', selecting' \notin { "frames", "calls", "names" },
           left' = {}, visited' = {}, calls' = << >>, nodes' = {}, pending' = {},
           selecting' # "package" => included' = {}
    PROVE  Collection'
  BY DEF Collection, InCall, Followed, Collecting

LEMMA StopTyped ==
    ASSUME NEW ending, Stop(ending), ContextTyped \/ ContextInit
    PROVE  ContextTyped'
<1>1. << >> \in Seq(Waits) /\ << >> \in Seq(Left)
  BY EmptySeq
<1>2. selecting' = "done" /\ frames' = {} /\ left' = {} /\ refs' = {} /\ calls' = << >>
  BY DEF Stop
<1>3. visited' = {} /\ nodes' = {} /\ pending' = {} /\ candidates' = {} /\ included' = {} /\ omissions' = << >>
  BY DEF Stop
<1>4. QED
  BY <1>1, <1>2, <1>3 DEF ContextTyped

LEMMA StopCollection ==
    ASSUME NEW ending, Stop(ending), Collection
    PROVE  Collection'
<1>1. ContextTyped'
  BY StopTyped DEF Collection
<1>2. QED
  BY <1>1, NotCollecting DEF Stop

LEMMA InitCollection == ContextInit => Collection
<1> SUFFICES ASSUME ContextInit
             PROVE  Collection
  OBVIOUS
<1>1. << >> \in Seq(Waits) /\ << >> \in Seq(Left)
  BY EmptySeq
<1>2. ContextTyped
  BY <1>1 DEF ContextInit, ContextTyped
<1>3. QED
  BY <1>2 DEF ContextInit, Collection, InCall, Followed, Collecting

LEMMA SelectCollection ==
    ASSUME Collection, Select
    PROVE  Collection'
<1>1. ASSUME NEW code, Stop(code)
      PROVE  Collection'
  BY <1>1, StopCollection
<1>2. CASE \E code \in SelectionErrorCode \ { "MANDATORY_CONTEXT_OVERFLOW" } : Stop(code)
  BY <1>1, <1>2
<1>3. CASE ~ \E code \in SelectionErrorCode \ { "MANDATORY_CONTEXT_OVERFLOW" } : Stop(code)
  <2>1. /\ selecting = "request" /\ selecting' = "read" /\ frames' \in FramesFound
        /\ \E k \in 0..MaxMentions :
               refs' \in kSubset(k, { pair \in Mentions : files'[pair[1][1]] = "text" })
        /\ UNCHANGED << collecting, candidates, included, omissions, selected >>
    BY <1>3 DEF Select
  <2>2. frames' \in SUBSET AnyDefinition
    BY <2>1 DEF FramesFound
  <2>3. refs' \in SUBSET Mentions
    BY <2>1 DEF kSubset
  <2>4. /\ left' = {} /\ calls' = << >> /\ nodes' = {} /\ pending' = {} /\ visited' = {}
        /\ included' = {}
    BY <2>1 DEF Collection, InCall, Collecting, collecting
  <2>5. ContextTyped'
    BY <2>1, <2>2, <2>3, <2>4 DEF Collection, ContextTyped, collecting
  <2>6. QED
    BY <2>1, <2>4, <2>5, NotCollecting
<1>4. QED
  BY <1>2, <1>3

LEMMA EvidenceIsNoDefinition ==
    /\ Evidence \subseteq Items /\ Instruction \in Items
    /\ \A i \in Evidence \cup { Instruction } : i.kind # "definition"
  BY DEF Items, Evidence, Instruction, Item

LEMMA CandidatesCollection ==
    ASSUME Collection, Candidates
    PROVE  Collection'
<1>1. CASE \E code \in { "UNSAFE_REPOSITORY", "VISIBLE_TEST_AMBIGUOUS" } : Stop(code)
  BY <1>1, StopCollection
<1>2. CASE ~ \E code \in { "UNSAFE_REPOSITORY", "VISIBLE_TEST_AMBIGUOUS" } : Stop(code)
  <2>1. /\ selecting = "read" /\ selecting' = "frames" /\ candidates' = Evidence /\ left' = frames
        /\ UNCHANGED << frames, files, refs, calls, visited, nodes, pending, included, omissions, selected >>
    BY <1>2 DEF Candidates
  <2>2. DefinitionsFound' = {}
    BY <2>1, EvidenceIsNoDefinition DEF DefinitionsFound
  <2>3. /\ calls' = << >> /\ nodes' = {} /\ pending' = {} /\ visited' = {} /\ included' = {}
    BY <2>1 DEF Collection, InCall, Collecting
  <2>4. NamesIn(<< >>) = {}
    BY DEF NamesIn
  <2>5. ContextTyped'
    BY <2>1, <2>3, EvidenceIsNoDefinition DEF Collection, ContextTyped
  <2>6. QED
    BY <2>1, <2>2, <2>3, <2>4, <2>5 DEF Collection, InCall, Followed, Collecting
<1>3. QED
  BY <1>1, <1>2

LEMMA SourceIsNoDefinition ==
    ASSUME NEW f \in AnyDefinition
    PROVE  SourceItem(f) \in Items /\ SourceItem(f).kind # "definition"
  BY DEF Items, SourceItem, Item

LEMMA NextFrameCollection ==
    ASSUME Collection, NextFrame
    PROVE  Collection'
<1>1. PICK frame \in left :
        /\ left' = left \ { frame } /\ visited' = {}
        /\ IF files[frame[1]] \in { "absent", "unsafe" }
           THEN /\ omissions' = Append(omissions, Omission(frame[1], "source", "unsafe"))
                /\ UNCHANGED << selecting, calls, candidates >>
           ELSE /\ candidates' = candidates \cup { SourceItem(frame) }
                /\ calls' = << CallFor(frame[1], { frame }) >> /\ selecting' = "calls"
                /\ UNCHANGED omissions
  BY DEF NextFrame
<1>2. /\ selecting = "frames" /\ nodes' = {} /\ pending' = {} /\ nodes = {} /\ pending = {} /\ calls = << >>
      /\ UNCHANGED << frames, files, refs, included, selected >> /\ included = {}
  BY DEF NextFrame, Collection, InCall
<1>3. /\ frame \in AnyDefinition /\ frame \in frames /\ frame[1] \in PyFile /\ frame[1] \in Nat
      /\ frames' \ left' = (frames \ left) \cup { frame }
  BY <1>1, <1>2, Numbers DEF Collection, ContextTyped
<1>4. (\A f : ReachableFrom(f)' = ReachableFrom(f)) /\ \A d : Opened(d)' = Opened(d)
  BY <1>2, SameReached DEF Opened
<1>5. DefinitionsFound \subseteq LedTo /\ \A f \in frames \ left : Finished(f)
  BY <1>2 DEF Collection, Followed, Collecting
<1>6. LedTo \subseteq LedTo'
  BY <1>3, <1>4 DEF LedTo
<1>7. CASE files[frame[1]] \in { "absent", "unsafe" }
  <2>1. /\ omissions' = Append(omissions, Omission(frame[1], "source", "unsafe"))
        /\ selecting' = "frames" /\ calls' = << >> /\ candidates' = candidates
    BY <1>1, <1>2, <1>7
  <2>2. ~Opened(frame) /\ DefinitionsFound' = DefinitionsFound
    BY <1>7, <2>1 DEF Opened, DefinitionsFound
  <2>3. omissions' \in Seq(Left)
    <3>1. Omission(frame[1], "source", "unsafe") \in Left
      BY <1>3 DEF Omission, Left, Kind
    <3>2. omissions \in Seq(Left)
      BY DEF Collection, ContextTyped
    <3>3. QED
      BY <2>1, <3>1, <3>2, AppendProperties
  <2>4. ContextTyped'
    BY <1>1, <1>2, <2>1, <2>3 DEF Collection, ContextTyped
  <2>5. InCall'
    BY <1>1, <1>2, <2>1 DEF InCall, Collecting
  <2>6. \A f \in frames' \ left' : Finished(f)'
    BY <1>3, <1>4, <1>5, <2>2 DEF Finished
  <2>7. Followed'
    BY <1>5, <1>6, <2>1, <2>2, <2>6 DEF Followed
  <2>8. QED
    BY <2>4, <2>5, <2>7 DEF Collection
<1>8. CASE ~(files[frame[1]] \in { "absent", "unsafe" })
  <2>1. /\ candidates' = candidates \cup { SourceItem(frame) } /\ omissions' = omissions
        /\ calls' = << CallFor(frame[1], { frame }) >> /\ selecting' = "calls"
    BY <1>1, <1>8
  <2>2. DefinitionsFound' = DefinitionsFound
    <3>1. \A i \in { SourceItem(frame) } : i.kind # "definition"
      BY <1>3, SourceIsNoDefinition
    <3>2. PICK more : more = { SourceItem(frame) }
      OBVIOUS
    <3>3. (\A i \in more : i.kind # "definition") /\ candidates' = candidates \cup more
      BY <2>1, <3>1, <3>2
    <3>4. QED
      BY <3>3, CollectedStays
  <2>3. CallFor(frame[1], { frame }) \in Waits /\ CallFor(frame[1], { frame }).names = { frame }
    BY <1>3 DEF CallFor, Waits
  <2>4. calls' \in Seq(Waits) /\ calls' # << >> /\ Waiting' = { frame }
    BY <2>1, <2>3 DEF Waiting, NamesIn
  <2>5. ContextTyped'
    <3>1. candidates' \in SUBSET Items
      BY <1>3, <2>1, SourceIsNoDefinition DEF Collection, ContextTyped
    <3>2. included' \in SUBSET candidates'
      BY <1>2
    <3>3. QED
      BY <1>1, <1>2, <2>1, <2>4, <3>1, <3>2 DEF Collection, ContextTyped
  <2>6. InCall'
    BY <1>1, <1>2, <2>1, <2>4 DEF InCall, Collecting
  <2>7. Follows(frame)'
    <3>1. Known' = { frame }
      BY <1>1, <1>2, <2>4 DEF Known
    <3>2. frame \in ReachableFrom(frame) /\ Own(frame, frame) = frame
      BY <1>3, FrameReached DEF Own
    <3>3. QED
      BY <1>1, <1>2, <1>4, <2>1, <2>4, <3>1, <3>2 DEF Follows, Own
  <2>8. \A f \in (frames' \ left') \ { frame } : Finished(f)'
    BY <1>3, <1>4, <1>5, <2>2 DEF Finished
  <2>9. Followed'
    BY <1>3, <1>5, <1>6, <2>2, <2>4, <2>7, <2>8 DEF Followed
  <2>10. QED
    BY <2>5, <2>6, <2>9 DEF Collection
<1>9. QED
  BY <1>7, <1>8

\* When all that the keys lead to has its key visited, nothing that f reaches is missing.
LEMMA ReachesNoFurther ==
    ASSUME NEW f \in AnyDefinition, NEW V \in SUBSET Definition, KeyOf(f) \in V,
           \A k \in V : \A m \in MentionedBy({ Own(f, k) }) : Opened(m) => m \in V
    PROVE  ReachableFrom(f) \subseteq { Own(f, k) : k \in V }
<1> DEFINE S == { Own(f, k) : k \in V }
<1>1. S \in SUBSET AnyDefinition
  BY Keys DEF Own
<1>2. f \in S
  BY DEF Own
<1>3. ASSUME NEW d \in S, NEW m \in MentionedBy({ d }), Opened(m), m # KeyOf(f)
      PROVE  m \in S
  <2>1. m \in V /\ Own(f, m) = m
    BY <1>3 DEF Own
  <2>2. QED
    BY <2>1, Zenon
<1>4. ReachableFrom(f) \subseteq S
  <2> HIDE DEF S
  <2> QED
    BY <1>1, <1>2, <1>3, ReachableIsLeast
<1>5. QED
  BY <1>4

\* A step within the collection for one frame, which may end it.
LEMMA StillFollowed ==
    ASSUME ContextTyped, visited' \in SUBSET Definition,
           UNCHANGED << frames, files, refs, left >>,
           NEW f \in frames \ left, Follows(f)', \A g \in (frames \ left) \ { f } : Finished(g),
           DefinitionsFound \subseteq DefinitionsFound', DefinitionsFound' \subseteq LedTo,
           calls' = << >> => nodes' = {} /\ pending' = {}
    PROVE  Followed'
<1>1. /\ \A g : ReachableFrom(g)' = ReachableFrom(g) /\ Opened(g)' = Opened(g)
      /\ \A d : MentionedBy({ d })' = MentionedBy({ d })
  BY SameReached DEF Opened, MentionedBy
<1>2. LedTo' = LedTo /\ DefinitionsFound' \subseteq LedTo'
  BY <1>1 DEF LedTo
<1>3. \A g \in (frames' \ left') \ { f } : Finished(g)'
  BY <1>1 DEF Finished
<1>4. ASSUME calls' = << >>
      PROVE  Finished(f)'
  <2>1. Known' = visited'
    BY <1>4 DEF Known, Waiting, NamesIn
  <2>2. KeyOf(f) \in visited' /\ f \in AnyDefinition
    BY <1>4 DEF Follows, ContextTyped
  <2>3. \A k \in visited' : /\ Own(f, k) \in DefinitionsFound'
                            /\ \A m \in MentionedBy({ Own(f, k) }) : Opened(m) => m \in visited'
    BY <1>1, <1>4, <2>1 DEF Follows, Own
  <2>4. ReachableFrom(f) \subseteq { Own(f, k) : k \in visited' }
    BY <2>2, <2>3, ReachesNoFurther
  <2>5. QED
    BY <1>1, <2>3, <2>4 DEF Finished
<1>5. QED
  BY <1>2, <1>3, <1>4 DEF Followed

\* The first call gives way to others.
LEMMA GivesWay ==
    ASSUME NEW instead \in Seq(Waits), calls \in Seq(Waits), calls # << >>, GiveWay(instead)
    PROVE  /\ calls' \in Seq(Waits)
           /\ Waiting = Head(calls).names \cup NamesIn(Tail(calls))
           /\ Waiting' = NamesIn(instead) \cup NamesIn(Tail(calls))
           /\ selecting' \in { "frames", "calls" } /\ (selecting' = "calls" <=> calls' # << >>)
  BY NamesOfFirst, NamesOfBoth DEF GiveWay, Waiting

LEMMA OmitTyped ==
    ASSUME omissions \in Seq(Left), NEW omission \in Left
    PROVE  OmitOnce(omissions, omission) \in Seq(Left)
  BY AppendProperties DEF OmitOnce

LEMMA EnterCollection ==
    ASSUME Collection, Enter
    PROVE  Collection'
<1> DEFINE call == Head(calls)
<1>1. /\ selecting = "calls" /\ nodes = {} /\ pending = {} /\ calls # << >> /\ included = {}
      /\ UNCHANGED << frames, files, refs, left, candidates, included, selected >>
  BY DEF Enter, Collection, InCall
<1>2. /\ calls \in Seq(Waits) /\ call \in Waits
      /\ Waiting = call.names \cup NamesIn(Tail(calls))
  BY <1>1, NamesOfFirst DEF Collection, ContextTyped, Waiting
<1>3. /\ call.file \in PyFile /\ call.file \in Nat /\ call.names \in SUBSET AnyDefinition
      /\ \A d \in call.names : d[1] = call.file
  BY <1>2, Numbers DEF Waits
<1>4. /\ \A g : ReachableFrom(g)' = ReachableFrom(g) /\ Opened(g)' = Opened(g)
      /\ \A d : MentionedBy({ d })' = MentionedBy({ d })
      /\ DefinitionsFound' = DefinitionsFound
  BY <1>1, SameReached DEF Opened, MentionedBy, DefinitionsFound
<1>5. DefinitionsFound \subseteq LedTo
  BY <1>1 DEF Collection, Followed, Collecting
<1>6. PICK f \in frames \ left : Follows(f) /\ \A g \in (frames \ left) \ { f } : Finished(g)
  BY <1>1 DEF Collection, Followed, Collecting
<1>7. f \in AnyDefinition /\ Known = visited \cup Waiting
  BY <1>1 DEF Collection, ContextTyped, Known
<1>8. CASE files[call.file] # "text"
  <2>1. PICK reason \in { "unsafe", "ast_parse_failed" } :
          /\ omissions' = OmitOnce(omissions, Omission(call.file, "definition", reason))
          /\ GiveWay(<< >>) /\ UNCHANGED << visited, nodes, pending >>
    BY <1>8 DEF Enter
  <2>2. << >> \in Seq(Waits) /\ NamesIn(<< >>) = {}
    BY DEF NamesIn
  <2>3. /\ calls' \in Seq(Waits) /\ Waiting' = NamesIn(Tail(calls))
        /\ selecting' \in { "frames", "calls" } /\ (selecting' = "calls" <=> calls' # << >>)
    BY <1>1, <1>2, <2>1, <2>2, GivesWay
  <2>4. \A d \in Waiting : Opened(d) => d \in Waiting'
    BY <1>2, <1>3, <1>8, <2>3 DEF Opened
  <2>5. ContextTyped'
    <3>1. Omission(call.file, "definition", reason) \in Left
      BY <1>3 DEF Omission, Left, Kind
    <3>2. omissions' \in Seq(Left)
      BY <2>1, <3>1, OmitTyped DEF Collection, ContextTyped
    <3>3. QED
      BY <1>1, <2>1, <2>3, <3>2 DEF Collection, ContextTyped
  <2>6. InCall'
    BY <1>1, <2>1, <2>3 DEF InCall, Collecting
  <2>7. CASE KeyOf(f) \in visited
    <3>1. Waiting' \subseteq Waiting /\ Known' \subseteq Known /\ \A d \in Known : Opened(d) => d \in Known'
      BY <1>1, <1>2, <1>7, <2>1, <2>3, <2>4 DEF Known
    <3>2. Follows(f)'
      <4>1. KeyOf(f) \in visited' /\ Waiting' \subseteq Definition \cup { f } /\ nodes' = {}
        BY <1>1, <1>6, <2>1, <2>7, <3>1 DEF Follows
      <4>2. ASSUME NEW k \in visited'
            PROVE  /\ Opened(k)' /\ Own(f, k) \in DefinitionsFound'
                   /\ \A m \in MentionedBy({ Own(f, k) })' : Opened(m)' => m \in Known'
        BY <1>1, <1>4, <1>6, <2>1, <3>1, <4>2 DEF Follows
      <4>3. \A d \in Known' : Opened(d)' => Own(f, d) \in ReachableFrom(f)'
        BY <1>4, <1>6, <3>1 DEF Follows
      <4>4. QED
        BY <4>1, <4>2, <4>3 DEF Follows, Own
    <3>3. visited' \in SUBSET Definition /\ nodes' = {} /\ pending' = {}
      BY <1>1, <2>1 DEF Collection, ContextTyped
    <3>4. Followed'
      BY <1>1, <1>4, <1>5, <1>6, <3>2, <3>3, StillFollowed DEF Collection
    <3>5. QED
      BY <2>5, <2>6, <3>4 DEF Collection
  <2>8. CASE KeyOf(f) \notin visited
    <3>1. calls = << CallFor(f[1], { f }) >>
      BY <1>6, <2>8 DEF Follows
    <3>2. call.file = f[1] /\ calls' = << >>
      BY <2>1, <3>1 DEF CallFor, GiveWay
    <3>3. ~Opened(f)
      BY <1>8, <3>2 DEF Opened
    <3>4. \A g \in frames' \ left' : Finished(g)'
      BY <1>1, <1>4, <1>6, <3>3 DEF Finished
    <3>5. LedTo' = LedTo
      BY <1>1, <1>4 DEF LedTo
    <3>6. Followed'
      BY <1>4, <1>5, <3>2, <3>4, <3>5 DEF Followed
    <3>7. QED
      BY <2>5, <2>6, <3>6 DEF Collection
  <2>9. QED
    BY <2>7, <2>8
<1>9. CASE files[call.file] = "text"
  <2>1. /\ nodes' = { d \in call.names : KeyOf(d) \notin visited }
        /\ visited' = visited \cup { KeyOf(d) : d \in nodes' }
        /\ pending' = MentionedBy(nodes') \cap DefinitionsOf(call.file)
        /\ selecting' = "names" /\ calls' = calls /\ omissions' = omissions
    BY <1>9 DEF Enter
  <2>2. Waiting' = Waiting /\ call.names \subseteq Waiting
    BY <1>2, <2>1 DEF Waiting
  <2>3. /\ \A m \in pending' : m \in DefinitionsOf(call.file) /\ \E d \in nodes' : m \in MentionedBy({ d })
        /\ \A d \in nodes' : \A m \in MentionedBy({ d }) : m \in DefinitionsOf(call.file) => m \in pending'
    BY <2>1, MentionsOfUnion
  <2>4. /\ \A d \in nodes' : d[1] = call.file /\ d \in AnyDefinition /\ KeyOf(d) \in Definition /\ KeyOf(d)[1] = call.file
        /\ \A d : d[1] = call.file => Opened(d)
    BY <1>3, <1>9, <2>1, Keys DEF Opened
  <2>5. ContextTyped'
    <3>1. pending' \in SUBSET Definition
      BY <2>3 DEF DefinitionsOf
    <3>2. nodes' \in SUBSET AnyDefinition /\ visited' \in SUBSET Definition
      BY <1>3, <2>1, <2>4 DEF Collection, ContextTyped
    <3>3. QED
      BY <1>1, <2>1, <3>1, <3>2 DEF Collection, ContextTyped
  <2>6. InCall'
    <3>1. Opened(<< Head(calls).file, 0 >>)'
      BY <1>1, <1>9, <2>1 DEF Opened
    <3>2. pending' \subseteq DefinitionsOf(Head(calls').file)
      BY <2>1, <2>3
    <3>3. \A d \in Head(calls').names : KeyOf(d) \in visited'
      BY <2>1
    <3>4. QED
      BY <1>1, <2>1, <3>1, <3>2, <3>3 DEF InCall, Collecting
  <2>7. KeyOf(f) \in visited \/ (visited = {} /\ call.names = { f })
    BY <1>6 DEF Follows, CallFor
  <2>8. ASSUME NEW d \in nodes'
        PROVE  Own(f, KeyOf(d)) = d /\ Own(f, d) = d
    <3>1. d \in call.names /\ KeyOf(d) \notin visited /\ d \in Definition \cup { f }
      BY <1>6, <2>1, <2>2, <2>8 DEF Follows
    <3>2. CASE d = f
      BY <3>2 DEF Own
    <3>3. CASE d # f
      <4>1. KeyOf(f) \in visited /\ d \in Definition
        BY <2>7, <3>1, <3>3
      <4>2. KeyOf(d) # KeyOf(f) /\ KeyOf(d) = d
        BY <3>1, <4>1, Keys
      <4>3. QED
        BY <4>2 DEF Own
    <3>4. QED
      BY <3>2, <3>3
  <2>9. Follows(f)'
    <3>1. KeyOf(f) \in visited' /\ Waiting' \subseteq Definition \cup { f }
      BY <1>6, <2>1, <2>2, <2>7 DEF Follows
    <3>2. \A d \in nodes' : \E k \in visited' : d = Own(f, k)
      BY <2>1, <2>8
    <3>3. Known \subseteq Known' /\ pending' \subseteq Known'
      BY <1>7, <2>1, <2>2 DEF Known
    <3>4. ASSUME NEW k \in visited'
          PROVE  /\ Opened(k)' /\ Own(f, k) \in DefinitionsFound' \cup nodes'
                 /\ \A m \in MentionedBy({ Own(f, k) })' :
                        Opened(m)' => m \in Known' \/ (Own(f, k) \in nodes' /\ m \notin DefinitionsOf(Head(calls').file))
      <4>1. CASE k \in visited
        BY <1>1, <1>4, <1>6, <3>3, <4>1 DEF Follows
      <4>2. CASE k \notin visited
        <5>1. PICK d \in nodes' : k = KeyOf(d)
          BY <2>1, <3>4, <4>2
        <5>2. Own(f, k) = d /\ Opened(k)
          BY <2>4, <2>8, <5>1
        <5>3. \A m \in MentionedBy({ d }) : m \in DefinitionsOf(call.file) => m \in Known'
          BY <2>3, <3>3, <5>1
        <5>4. QED
          BY <1>4, <2>1, <5>1, <5>2, <5>3
      <4>3. QED
        BY <4>1, <4>2
    <3>5. ASSUME NEW d \in nodes'
          PROVE  d \in ReachableFrom(f)
      <4>1. d \in Known /\ Opened(d)
        BY <1>7, <2>1, <2>2, <2>4, <3>5
      <4>2. QED
        BY <1>6, <2>8, <3>5, <4>1 DEF Follows
    <3>6. ASSUME NEW d \in Known', Opened(d)'
          PROVE  Own(f, d) \in ReachableFrom(f)
      <4>1. CASE d \in Known
        BY <1>4, <1>6, <3>6, <4>1 DEF Follows
      <4>2. CASE d \in visited' \ visited
        BY <2>1, <2>8, <3>5, <4>2
      <4>3. CASE d \in pending'
        <5>1. PICK e \in nodes' : d \in MentionedBy({ e })
          BY <2>3, <4>3
        <5>2. Opened(d) /\ e \in ReachableFrom(f)
          BY <1>4, <3>5, <3>6
        <5>3. QED
          BY <1>7, <5>1, <5>2, MentionsReached DEF Collection, ContextTyped
      <4>4. QED
        BY <1>7, <2>2, <3>6, <4>1, <4>2, <4>3 DEF Known
    <3>7. QED
      BY <1>4, <3>1, <3>2, <3>4, <3>6 DEF Follows, Own
  <2>10. Followed'
    <3>1. visited' \in SUBSET Definition
      BY <2>5 DEF ContextTyped
    <3>2. QED
      BY <1>1, <1>4, <1>5, <1>6, <2>1, <2>9, <3>1, StillFollowed DEF Collection
  <2>11. QED
    BY <2>5, <2>6, <2>10 DEF Collection
<1>10. QED
  BY <1>8, <1>9

LEMMA TakeNameCollection ==
    ASSUME Collection, TakeName
    PROVE  Collection'
<1> DEFINE call == Head(calls)
<1>1. PICK name \in pending :
        /\ nodes' = nodes \cup ({ name } \ visited) /\ visited' = visited \cup { name }
        /\ pending' = (pending \ { name }) \cup (MentionedBy({ name } \ visited) \cap DefinitionsOf(call.file))
  BY DEF TakeName
<1>2. /\ selecting = "names" /\ calls # << >> /\ included = {}
      /\ UNCHANGED << selecting, frames, files, refs, left, calls, candidates, included, omissions, selected >>
  BY DEF TakeName, Collection, InCall
<1>3. /\ Opened(<< call.file, 0 >>) /\ pending \subseteq DefinitionsOf(call.file)
      /\ \A d \in call.names : KeyOf(d) \in visited
  BY <1>2 DEF Collection, InCall
<1>4. /\ \A g : ReachableFrom(g)' = ReachableFrom(g) /\ Opened(g)' = Opened(g)
      /\ \A d : MentionedBy({ d })' = MentionedBy({ d })
      /\ DefinitionsFound' = DefinitionsFound /\ Waiting' = Waiting
  BY <1>2, SameReached DEF Opened, MentionedBy, DefinitionsFound, Waiting
<1>5. \A d \in DefinitionsOf(call.file) : Opened(d) /\ d \in Definition
  BY <1>3 DEF Opened, DefinitionsOf
<1>6. PICK f \in frames \ left : Follows(f) /\ \A g \in (frames \ left) \ { f } : Finished(g)
  BY <1>2 DEF Collection, Followed, Collecting
<1>7. f \in AnyDefinition /\ name \in Definition /\ Opened(name)
  BY <1>1, <1>3, <1>5 DEF Collection, ContextTyped
<1>8. KeyOf(f) \in visited
  <2>1. CASE calls = << CallFor(f[1], { f }) >>
    BY <1>3, <2>1 DEF CallFor
  <2>2. QED
    BY <1>6, <2>1 DEF Follows
<1>9. /\ \A m \in MentionedBy({ name } \ visited) : m \in MentionedBy({ name })
      /\ name \notin visited => MentionedBy({ name } \ visited) = MentionedBy({ name })
  BY DEF MentionedBy
<1>10. ContextTyped'
  <2>1. nodes' \in SUBSET AnyDefinition /\ visited' \in SUBSET Definition
    BY <1>1, <1>7, Keys DEF Collection, ContextTyped
  <2>2. pending' \in SUBSET Definition
    BY <1>1, <1>5 DEF Collection, ContextTyped
  <2>3. QED
    BY <1>2, <2>1, <2>2 DEF Collection, ContextTyped
<1>11. InCall'
  <2>1. pending' \subseteq DefinitionsOf(call.file)
    BY <1>1, <1>3
  <2>2. \A d \in call.names : KeyOf(d) \in visited'
    BY <1>1, <1>3
  <2>3. Opened(<< call.file, 0 >>)'
    BY <1>2, <1>3 DEF Opened
  <2>4. Head(calls') = call
    BY <1>2
  <2>5. QED
    BY <1>2, <2>1, <2>2, <2>3, <2>4 DEF InCall, Collecting
<1>12. Follows(f)'
  <2>1. KeyOf(f) \in visited' /\ Waiting' \subseteq Definition \cup { f }
    BY <1>1, <1>4, <1>6, <1>8 DEF Follows
  <2>2. name \notin visited => Own(f, name) = name
    BY <1>8 DEF Own
  <2>3. \A d \in nodes' : \E k \in visited' : d = Own(f, k)
    BY <1>1, <1>6, <2>2 DEF Follows
  <2>4. Known \subseteq Known'
    BY <1>1, <1>4 DEF Known
  <2>5. ASSUME NEW k \in visited'
        PROVE  /\ Opened(k)' /\ Own(f, k) \in DefinitionsFound' \cup nodes'
               /\ \A m \in MentionedBy({ Own(f, k) })' :
                      Opened(m)' => m \in Known' \/ (Own(f, k) \in nodes' /\ m \notin DefinitionsOf(Head(calls').file))
    <3>1. CASE k \in visited
      <4>1. /\ Opened(k) /\ Own(f, k) \in DefinitionsFound \cup nodes
            /\ \A m \in MentionedBy({ Own(f, k) }) :
                   Opened(m) => m \in Known \/ (Own(f, k) \in nodes /\ m \notin DefinitionsOf(call.file))
        BY <1>6, <3>1 DEF Follows
      <4>2. QED
        BY <1>1, <1>2, <1>4, <2>4, <4>1
    <3>2. CASE k \notin visited
      <4>1. k = name /\ Own(f, k) = name /\ name \in nodes'
        BY <1>1, <2>2, <2>5, <3>2
      <4>2. \A m \in MentionedBy({ name }) : m \in DefinitionsOf(call.file) => m \in pending'
        BY <1>1, <1>9, <3>2, <4>1
      <4>3. pending' \subseteq Known' /\ Head(calls') = call
        BY <1>2 DEF Known
      <4>4. QED
        BY <1>4, <1>7, <4>1, <4>2, <4>3
    <3>3. QED
      BY <3>1, <3>2
  <2>6. name \in Known
    BY <1>1 DEF Known
  <2>7. ASSUME NEW d \in Known', Opened(d)
        PROVE  Own(f, d) \in ReachableFrom(f)
    <3>1. CASE d \in Known
      BY <1>6, <2>7, <3>1 DEF Follows
    <3>2. CASE d \notin Known
      <4>1. d \in MentionedBy({ name } \ visited)
        BY <1>1, <1>4, <2>6, <2>7, <3>2 DEF Known
      <4>2. name \notin visited /\ d \in MentionedBy({ name })
        BY <1>9, <4>1 DEF MentionedBy
      <4>3. name \in ReachableFrom(f)
        BY <1>6, <1>7, <2>2, <2>6, <4>2 DEF Follows
      <4>4. QED
        BY <1>7, <2>7, <4>2, <4>3, MentionsReached DEF Collection, ContextTyped
    <3>3. QED
      BY <3>1, <3>2
  <2>8. QED
    BY <1>4, <2>1, <2>3, <2>5, <2>7 DEF Follows, Own
<1>13. Followed'
  <2>1. visited' \in SUBSET Definition /\ DefinitionsFound \subseteq LedTo
    BY <1>2, <1>10 DEF ContextTyped, Collection, Followed, Collecting
  <2>2. QED
    BY <1>2, <1>4, <1>6, <1>12, <2>1, StillFollowed DEF Collection
<1>14. QED
  BY <1>10, <1>11, <1>13 DEF Collection

\* The calls that follow the imports: as many as there are files, for the definitions
\* of each that are mentioned.
Mentioned == MentionedBy(nodes)
ImportedBy(file) == { f \in PyFile \ { file } : Mentioned \cap DefinitionsOf(f) # {} }
FollowedFrom(file) ==
    { CallFor(f, Mentioned \cap DefinitionsOf(f)) : f \in { g \in ImportedBy(file) : files[g] # "absent" } }

LEMMA FollowedCalls ==
    ASSUME refs \in SUBSET Mentions, NEW file, NEW order \in SetToSeqs(FollowedFrom(file))
    PROVE  /\ order \in Seq(Waits)
           /\ NamesIn(order) =
                  UNION { Mentioned \cap DefinitionsOf(f) : f \in { g \in ImportedBy(file) : files[g] # "absent" } }
<1> DEFINE S == { g \in ImportedBy(file) : files[g] # "absent" }
           ask == [ f \in S |-> CallFor(f, Mentioned \cap DefinitionsOf(f)) ]
<1>1. S \in SUBSET PyFile /\ IsFiniteSet(PyFile)
  <2>1. S \in SUBSET PyFile
    BY DEF ImportedBy
  <2>2. QED
    BY <2>1, FilesFinite
<1>2. IsFiniteSet(S)
  BY <1>1, FS_Subset
<1>3. FollowedFrom(file) = { ask[f] : f \in S } /\ ask \in [ S -> { ask[f] : f \in S } ]
  BY DEF FollowedFrom
<1>4. IsFiniteSet(FollowedFrom(file))
  <2> HIDE DEF S, ask
  <2> QED
    BY <1>2, <1>3, ImageFinite
<1>5. order \in Seq(FollowedFrom(file)) /\ { order[k] : k \in DOMAIN order } = FollowedFrom(file)
  BY <1>4, Ordered
<1>6. ASSUME NEW f \in S
      PROVE  ask[f] \in Waits /\ ask[f].names = Mentioned \cap DefinitionsOf(f)
  <2>1. Mentioned \cap DefinitionsOf(f) \in SUBSET AnyDefinition /\ f \in PyFile
    BY <1>1, <1>6 DEF DefinitionsOf, AnyDefinition
  <2>2. \A d \in Mentioned \cap DefinitionsOf(f) : d[1] = f
    BY DEF DefinitionsOf
  <2>3. QED
    BY <1>6, <2>1, <2>2 DEF CallFor, Waits
<1>7. FollowedFrom(file) \subseteq Waits
  BY <1>3, <1>6
<1>8. order \in Seq(Waits)
  BY <1>5, <1>7
<1>9. ASSUME NEW m
      PROVE  m \in NamesIn(order) <=> \E f \in S : m \in Mentioned \cap DefinitionsOf(f)
  <2>1. m \in NamesIn(order) <=> \E k \in DOMAIN order : m \in order[k].names
    BY DEF NamesIn
  <2>2. (\E k \in DOMAIN order : m \in order[k].names) <=> \E c \in FollowedFrom(file) : m \in c.names
    BY <1>5, Zenon
  <2>3. (\E c \in FollowedFrom(file) : m \in c.names) <=> \E f \in S : m \in ask[f].names
    <3> HIDE DEF ask
    <3> QED
      BY <1>3, Zenon
  <2>4. QED
    BY <1>6, <2>1, <2>2, <2>3, Zenon
<1>10. \A m : m \in UNION { Mentioned \cap DefinitionsOf(f) : f \in S } <=> \E f \in S : m \in Mentioned \cap DefinitionsOf(f)
  <2> HIDE DEF S
  <2> QED
    BY Zenon
<1>11. NamesIn(order) = UNION { Mentioned \cap DefinitionsOf(f) : f \in S }
  BY <1>9, <1>10, Zenon
<1>12. QED
  BY <1>8, <1>11, Zenon

LEMMA GatherCollection ==
    ASSUME Collection, Gather
    PROVE  Collection'
<1> DEFINE call == Head(calls)
           imports == { ImportItem(call.file, f) : f \in ImportedBy(call.file) }
<1>1. /\ selecting = "names" /\ pending = {} /\ calls # << >> /\ included = {} /\ nodes' = {} /\ pending' = {}
      /\ UNCHANGED << frames, files, refs, left, visited, included, omissions, selected >>
  BY DEF Gather, Collection, InCall
<1>2. PICK order \in SetToSeqs(FollowedFrom(call.file)) : GiveWay(order)
  BY DEF Gather, FollowedFrom, ImportedBy, Mentioned
<1>3. candidates' = candidates \cup { DefinitionItem(d) : d \in nodes } \cup imports
  BY DEF Gather, ImportedBy, Mentioned
<1>4. /\ order \in Seq(Waits)
      /\ NamesIn(order) =
             UNION { Mentioned \cap DefinitionsOf(f) : f \in { g \in ImportedBy(call.file) : files[g] # "absent" } }
  BY <1>2, FollowedCalls DEF Collection, ContextTyped
<1>5. /\ calls' \in Seq(Waits)
      /\ Waiting = call.names \cup NamesIn(Tail(calls))
      /\ Waiting' = NamesIn(order) \cup NamesIn(Tail(calls))
      /\ selecting' \in { "frames", "calls" } /\ (selecting' = "calls" <=> calls' # << >>)
  BY <1>1, <1>2, <1>4, GivesWay DEF Collection, ContextTyped
<1>6. call \in Waits /\ call.file \in PyFile
  BY <1>1, NamesOfFirst DEF Collection, ContextTyped, Waits
<1>7. \A i \in imports : i \in Items /\ i.kind # "definition"
  <2>1. ASSUME NEW f \in ImportedBy(call.file)
        PROVE  ImportItem(call.file, f) \in Items /\ ImportItem(call.file, f).kind # "definition"
    <3>1. << call.file, f >> \in PyFile \X PyFile
      BY <1>6 DEF ImportedBy
    <3>2. ImportItem(<< call.file, f >>[1], << call.file, f >>[2]) \in Items
      BY <3>1, Zenon DEF Items
    <3>3. ImportItem(call.file, f) \in Items
      BY <3>2
    <3>4. ImportItem(call.file, f).kind # "definition"
      BY DEF ImportItem, Item
    <3>5. QED
      BY <3>3, <3>4
  <2>2. QED
    BY <2>1
<1>8. DefinitionsFound' = DefinitionsFound \cup nodes
  <2>1. PICK more : more = imports
    OBVIOUS
  <2>2. (\A i \in more : i.kind # "definition") /\ candidates' = candidates \cup { DefinitionItem(d) : d \in nodes } \cup more
    BY <1>3, <1>7, <2>1
  <2>3. nodes \in SUBSET AnyDefinition
    BY DEF Collection, ContextTyped
  <2>4. QED
    BY <2>2, <2>3, CollectedGrows
<1>9. /\ \A g : ReachableFrom(g)' = ReachableFrom(g) /\ Opened(g)' = Opened(g)
      /\ \A d : MentionedBy({ d })' = MentionedBy({ d })
  BY <1>1, SameReached DEF Opened, MentionedBy
<1>10. PICK f \in frames \ left : Follows(f) /\ \A g \in (frames \ left) \ { f } : Finished(g)
  BY <1>1 DEF Collection, Followed, Collecting
<1>11. f \in AnyDefinition /\ DefinitionsFound \subseteq LedTo /\ \A d \in call.names : KeyOf(d) \in visited
  BY <1>1 DEF Collection, ContextTyped, Followed, Collecting, InCall
<1>12. KeyOf(f) \in visited
  <2>1. CASE calls = << CallFor(f[1], { f }) >>
    BY <1>11, <2>1 DEF CallFor
  <2>2. QED
    BY <1>10, <2>1 DEF Follows
<1>13. Mentioned \subseteq Definition /\ \A m : m \in Mentioned <=> \E d \in nodes : m \in MentionedBy({ d })
  BY MentionsTyped, MentionsOfUnion DEF Mentioned, Collection, ContextTyped
<1>14. nodes \subseteq ReachableFrom(f) /\ Opened(f)
  <2>1. Opened(KeyOf(f)) /\ KeyOf(f)[1] = f[1]
    BY <1>10, <1>11, <1>12, Keys DEF Follows
  <2>2. \A k \in visited : Own(f, k) \in ReachableFrom(f)
    BY <1>10 DEF Follows, Known
  <2>3. nodes \subseteq ReachableFrom(f)
    BY <1>10, <2>2 DEF Follows
  <2>4. QED
    BY <2>1, <2>3 DEF Opened
<1>15. DefinitionsFound' \subseteq LedTo
  <2>1. ReachableFrom(f) \subseteq LedTo
    BY <1>14 DEF LedTo
  <2>2. QED
    BY <1>8, <1>11, <1>14, <2>1
<1>16. ContextTyped'
  <2>1. candidates' \in SUBSET Items
    <3>1. \A d \in nodes : DefinitionItem(d) \in Items
      BY DEF Items, Collection, ContextTyped
    <3>2. candidates \in SUBSET Items
      BY DEF Collection, ContextTyped
    <3>3. QED
      BY <1>3, <1>7, <3>1, <3>2
  <2>2. included' \in SUBSET candidates' /\ nodes' \in SUBSET AnyDefinition /\ pending' \in SUBSET Definition
    BY <1>1
  <2>3. QED
    BY <1>1, <1>5, <2>1, <2>2 DEF Collection, ContextTyped
<1>17. InCall'
  BY <1>1, <1>5 DEF InCall, Collecting
<1>18. NamesIn(order) \subseteq Mentioned
  BY <1>4
<1>19. Follows(f)'
  <2>1. Waiting' \subseteq Definition \cup { f }
    BY <1>5, <1>10, <1>13, <1>18 DEF Follows
  <2>2. \A m \in Definition : m \in Known => m \in Known'
    BY <1>1, <1>5, <1>11, Keys DEF Known
  <2>3. ASSUME NEW k \in visited
        PROVE  /\ Opened(k) /\ Own(f, k) \in DefinitionsFound'
               /\ \A m \in MentionedBy({ Own(f, k) }) : Opened(m) => m \in Known'
    <3>1. Opened(k) /\ Own(f, k) \in DefinitionsFound'
      BY <1>8, <1>10, <2>3 DEF Follows
    <3>2. ASSUME NEW m \in MentionedBy({ Own(f, k) }), Opened(m)
          PROVE  m \in Known'
      <4>1. m \in Definition
        BY MentionsTyped DEF Collection, ContextTyped
      <4>2. CASE m \in Known
        BY <2>2, <4>1, <4>2
      <4>3. CASE Own(f, k) \in nodes /\ m \notin DefinitionsOf(call.file)
        <5>1. m \in Mentioned
          BY <1>13, <3>2, <4>3
        <5>2. m[1] \in PyFile /\ m \in DefinitionsOf(m[1]) /\ m[1] # call.file
          BY <4>1, <4>3, Numbers DEF DefinitionsOf
        <5>3. m[1] \in ImportedBy(call.file) /\ files[m[1]] # "absent"
          BY <3>2, <5>1, <5>2 DEF ImportedBy, Opened
        <5>4. m \in NamesIn(order)
          BY <1>4, <5>1, <5>2, <5>3
        <5>5. QED
          BY <1>5, <5>4 DEF Known
      <4>4. QED
        BY <1>10, <2>3, <3>2, <4>2, <4>3 DEF Follows
    <3>3. QED
      BY <3>1, <3>2
  <2>4. ASSUME NEW d \in Known', Opened(d)
        PROVE  Own(f, d) \in ReachableFrom(f)
    <3>1. CASE d \in Known
      BY <1>10, <2>4, <3>1 DEF Follows
    <3>2. CASE d \notin Known
      <4>1. d \in Mentioned
        BY <1>1, <1>5, <1>18, <2>4, <3>2 DEF Known
      <4>2. PICK n \in nodes : d \in MentionedBy({ n })
        BY <1>13, <4>1
      <4>3. QED
        BY <1>11, <1>14, <2>4, <4>2, MentionsReached DEF Collection, ContextTyped
    <3>3. QED
      BY <3>1, <3>2
  <2>5. KeyOf(f) \in visited' /\ nodes' = {} /\ visited' = visited
    BY <1>1, <1>12
  <2>6. QED
    BY <1>9, <2>1, <2>3, <2>4, <2>5 DEF Follows, Own
<1>20. Followed'
  <2>1. visited' \in SUBSET Definition /\ DefinitionsFound \subseteq DefinitionsFound'
    BY <1>8, <1>16 DEF ContextTyped
  <2>2. QED
    BY <1>1, <1>10, <1>15, <1>19, <2>1, StillFollowed DEF Collection
<1>21. QED
  BY <1>16, <1>17, <1>20 DEF Collection

LEMMA InstructionsCollection ==
    ASSUME Collection, Instructions
    PROVE  Collection'
<1>1. CASE Stop("FINGERPRINT_MISMATCH")
  BY <1>1, StopCollection
<1>2. CASE ~Stop("FINGERPRINT_MISMATCH")
  <2>1. /\ selecting = "frames" /\ left = {} /\ selecting' = "package" /\ included' = candidates'
        /\ frames' = {} /\ refs' = {} /\ visited' = {}
        /\ UNCHANGED << left, calls, nodes, pending, selected >>
        /\ candidates' = candidates \cup { Instruction } \/ candidates' = candidates
        /\ omissions' = omissions \/ omissions' = Append(omissions, Omission(0, "instruction", "unsafe"))
    BY <1>2 DEF Instructions
  <2>2. calls' = << >> /\ nodes' = {} /\ pending' = {} /\ left' = {}
    BY <2>1 DEF Collection, InCall
  <2>3. omissions' \in Seq(Left)
    <3>1. Omission(0, "instruction", "unsafe") \in Left
      BY DEF Omission, Left, Kind
    <3>2. omissions \in Seq(Left)
      BY DEF Collection, ContextTyped
    <3>3. QED
      BY <2>1, <3>1, <3>2, AppendProperties
  <2>4. candidates' \in SUBSET Items
    BY <2>1, EvidenceIsNoDefinition DEF Collection, ContextTyped
  <2>5. ContextTyped'
    BY <2>1, <2>2, <2>3, <2>4 DEF Collection, ContextTyped
  <2>6. QED
    BY <2>1, <2>2, <2>5, NotCollecting
<1>3. QED
  BY <1>1, <1>2

\* The last of what can be removed, as Drop takes it.
LastOne == CHOOSE i \in Removable : \A j \in Removable \ { i } : Precedes(j, i)

LEMMA DropCollection ==
    ASSUME Collection, Drop, Removable # {}, LastOne \in Removable
    PROVE  Collection'
<1>1. /\ selecting = "package" /\ selecting' = "package" /\ included' = included \ { LastOne }
      /\ omissions' = Append(omissions, Omission(LastOne.file, LastOne.kind, "budget"))
      /\ UNCHANGED << frames, refs, left, calls, visited, nodes, pending, candidates, selected >>
  BY DEF Drop, LastOne, collecting
<1>2. /\ left' = {} /\ visited' = {} /\ calls' = << >> /\ nodes' = {} /\ pending' = {}
  BY <1>1 DEF Collection, InCall, Collecting
<1>3. omissions' \in Seq(Left)
  <2>1. LastOne.file \in Nat /\ LastOne.kind \in Kind
    BY Fields DEF Removable, Collection, ContextTyped
  <2>2. Omission(LastOne.file, LastOne.kind, "budget") \in Left
    BY <2>1 DEF Omission, Left
  <2>3. QED
    BY <1>1, <2>2, AppendProperties DEF Collection, ContextTyped
<1>4. ContextTyped'
  BY <1>1, <1>2, <1>3 DEF Collection, ContextTyped
<1>5. QED
  BY <1>1, <1>2, <1>4, NotCollecting

-----------------------------------------------------------------------------
(* The order of the items, and the sum of their sizes.                      *)

LEMMA EachNumber ==
    ASSUME NEW T, 0 \in T, \A n \in Nat : n \in T => n + 1 \in T
    PROVE  Nat \subseteq T
<1> DEFINE less == { p \in Nat \X Nat : p[1] < p[2] }
           bad == Nat \ T
<1>1. SUFFICES ASSUME bad # {}
               PROVE  FALSE
  OBVIOUS
<1>2. IsWellFoundedOn(less, Nat)
  BY NatLessThanWellFounded DEF OpToRel
<1>3. PICK n \in bad : \A m \in bad : << m, n >> \notin less
  <2>1. bad \in SUBSET Nat
    OBVIOUS
  <2> HIDE DEF less, bad
  <2>2. QED
    BY <1>1, <1>2, <2>1, WFMin
<1>4. n \in Nat /\ n # 0
  BY <1>3
<1>5. n - 1 \in Nat /\ (n - 1) + 1 = n /\ n - 1 < n
  BY <1>4
<1>6. n - 1 \notin bad
  BY <1>3, <1>4, <1>5
<1>7. QED
  BY <1>3, <1>5, <1>6

\* The place of an item tells the rest of it.
KindAt(priority, line) ==
    CASE priority = 0 -> "mandatory" [] priority = 1 -> "trace" [] priority = 2 -> "visible_test"
      [] priority = 3 -> "source" [] priority = 6 -> "instruction"
      [] OTHER -> IF line <= 2 * Definitions THEN "definition" ELSE "import"

LEMMA PlaceTells ==
    ASSUME NEW i \in Items
    PROVE  i = Item(i.priority, i.file, KindAt(i.priority, i.line), i.line,
                    IF i.priority = 3 THEN 3 ELSE 2)
<1>1. CASE i \in Evidence \cup { Instruction }
  BY <1>1 DEF Evidence, Instruction, Item, KindAt
<1>2. ASSUME NEW d \in AnyDefinition, i = SourceItem(d)
      PROVE  i = Item(i.priority, i.file, KindAt(i.priority, i.line), i.line, IF i.priority = 3 THEN 3 ELSE 2)
  BY <1>2 DEF SourceItem, Item, KindAt
<1>3. ASSUME NEW d \in AnyDefinition, i = DefinitionItem(d)
      PROVE  i = Item(i.priority, i.file, KindAt(i.priority, i.line), i.line, IF i.priority = 3 THEN 3 ELSE 2)
  <2>1. d[2] <= 2 * Definitions
    BY Numbers
  <2>2. QED
    BY <1>3, <2>1 DEF DefinitionItem, Item, KindAt
<1>4. ASSUME NEW p \in PyFile \X PyFile, i = ImportItem(p[1], p[2])
      PROVE  i = Item(i.priority, i.file, KindAt(i.priority, i.line), i.line, IF i.priority = 3 THEN 3 ELSE 2)
  <2>1. ~(2 * Definitions + p[2] <= 2 * Definitions)
    BY Numbers DEF PyFile
  <2>2. QED
    BY <1>4, <2>1 DEF ImportItem, Item, KindAt
<1>5. QED
  BY <1>1, <1>2, <1>3, <1>4, Zenon DEF Items

LEMMA Total ==
    ASSUME NEW a \in Items, NEW b \in Items
    PROVE  a = b \/ Precedes(a, b) \/ Precedes(b, a)
<1>1. a.priority = b.priority /\ a.file = b.file /\ a.line = b.line => a = b
  BY PlaceTells, Zenon
<1>2. QED
  BY <1>1, Fields DEF Precedes

LEMMA Strict ==
    ASSUME NEW a \in Items, NEW b \in Items, Precedes(a, b)
    PROVE  ~Precedes(b, a) /\ a # b
  BY Fields DEF Precedes

LEMMA Transitive ==
    ASSUME NEW a \in Items, NEW b \in Items, NEW c \in Items, Precedes(a, b), Precedes(b, c)
    PROVE  Precedes(a, c)
  BY Fields DEF Precedes

LEMMA ItemsFinite == IsFiniteSet(Items)
<1> DEFINE sources == [ d \in AnyDefinition |-> SourceItem(d) ]
           definitions == [ d \in AnyDefinition |-> DefinitionItem(d) ]
           imports == [ p \in PyFile \X PyFile |-> ImportItem(p[1], p[2]) ]
<1>1. IsFiniteSet({ sources[d] : d \in AnyDefinition })
  <2>1. sources \in [ AnyDefinition -> { sources[d] : d \in AnyDefinition } ]
    OBVIOUS
  <2> HIDE DEF sources
  <2>2. QED
    BY <2>1, FilesFinite, ImageFinite
<1>2. IsFiniteSet({ definitions[d] : d \in AnyDefinition })
  <2>1. definitions \in [ AnyDefinition -> { definitions[d] : d \in AnyDefinition } ]
    OBVIOUS
  <2> HIDE DEF definitions
  <2>2. QED
    BY <2>1, FilesFinite, ImageFinite
<1>3. IsFiniteSet({ imports[p] : p \in PyFile \X PyFile })
  <2>1. imports \in [ PyFile \X PyFile -> { imports[p] : p \in PyFile \X PyFile } ]
    OBVIOUS
  <2>2. IsFiniteSet(PyFile \X PyFile)
    BY FilesFinite, FS_Product
  <2> HIDE DEF imports
  <2>3. QED
    BY <2>1, <2>2, ImageFinite
<1>4. IsFiniteSet(Evidence \cup { Instruction })
  <2>1. Evidence \cup { Instruction } =
            ((({} \cup { Item(0, 0, "mandatory", 0, 2) }) \cup { Item(1, 0, "trace", 0, 2) })
                 \cup { Item(2, 0, "visible_test", 0, 2) }) \cup { Instruction }
    BY DEF Evidence
  <2>2. ASSUME NEW S, NEW x, IsFiniteSet(S)
        PROVE  IsFiniteSet(S \cup { x })
    BY <2>2, FS_AddElement
  <2>3. IsFiniteSet({})
    BY FS_EmptySet
  <2>4. QED
    BY <2>1, <2>2, <2>3, Zenon
<1>5. /\ { sources[d] : d \in AnyDefinition } = { SourceItem(d) : d \in AnyDefinition }
      /\ { definitions[d] : d \in AnyDefinition } = { DefinitionItem(d) : d \in AnyDefinition }
      /\ { imports[p] : p \in PyFile \X PyFile } = { ImportItem(p[1], p[2]) : p \in PyFile \X PyFile }
  OBVIOUS
<1>6. QED
  <2> HIDE DEF sources, definitions, imports
  <2>1. ASSUME NEW A, NEW B, NEW C, NEW D, IsFiniteSet(A), IsFiniteSet(B), IsFiniteSet(C), IsFiniteSet(D)
        PROVE  IsFiniteSet(((A \cup B) \cup C) \cup D)
    BY <2>1, FS_Union
  <2>2. QED
    BY <1>1, <1>2, <1>3, <1>4, <1>5, <2>1, Zenon DEF Items

LEMMA LastExists ==
    ASSUME NEW R \in SUBSET Items, R # {}
    PROVE  \E i \in R : \A j \in R \ { i } : Precedes(j, i)
<1> DEFINE HasLast(S) == \E i \in S : \A j \in S \ { i } : Precedes(j, i)
           T == { n \in Nat : \A S \in SUBSET R : Cardinality(S) = n /\ S # {} => HasLast(S) }
<1>1. \A S \in SUBSET R : IsFiniteSet(S) /\ S \in SUBSET Items /\ Cardinality(S) \in Nat
  BY ItemsFinite, FS_Subset, FS_CardinalityType
<1>2. 0 \in T
  BY <1>1, FS_EmptySet
<1>3. ASSUME NEW n \in Nat, n \in T
      PROVE  n + 1 \in T
  <2>1. ASSUME NEW S \in SUBSET R, Cardinality(S) = n + 1, S # {}
        PROVE  HasLast(S)
    <3>1. PICK x \in S : TRUE
      BY <2>1
    <3>2. S \ { x } \in SUBSET R /\ Cardinality(S \ { x }) = n
      BY <1>1, <2>1, <3>1, FS_RemoveElement
    <3>3. CASE S \ { x } = {}
      BY <3>1, <3>3
    <3>4. CASE S \ { x } # {}
      <4>1. PICK i \in S \ { x } : \A j \in (S \ { x }) \ { i } : Precedes(j, i)
        BY <1>3, <3>2, <3>4
      <4>2. CASE Precedes(x, i)
        BY <4>1, <4>2
      <4>3. CASE Precedes(i, x)
        BY <1>1, <3>1, <4>1, <4>3, Transitive
      <4>4. QED
        BY <1>1, <3>1, <4>1, <4>2, <4>3, Total
    <3>5. QED
      BY <3>3, <3>4
  <2> HIDE DEF HasLast
  <2>2. QED
    BY <2>1
<1>4. Nat \subseteq T
  <2> HIDE DEF T
  <2> QED
    BY <1>2, <1>3, EachNumber
<1>5. Cardinality(R) \in T
  BY <1>1, <1>4
<1>6. QED
  BY <1>5

Sum(S) == MapThenSumSet(LAMBDA i : i.size, S)
Taken(s) == CHOOSE x \in s : TRUE

\* f has the sums of the subsets of S, each by the element that is taken from it.
Sums(S, f) == \A s \in SUBSET S : f[s] = IF s = {} THEN 0 ELSE Taken(s).size + f[s \ { Taken(s) }]

LEMMA Smaller ==
    ASSUME NEW S, IsFiniteSet(S), NEW s \in SUBSET S, s # {}
    PROVE  /\ Taken(s) \in s /\ s \ { Taken(s) } \in SUBSET S
           /\ Cardinality(s) \in Nat /\ Cardinality(s \ { Taken(s) }) = Cardinality(s) - 1
<1>1. Taken(s) \in s
  BY DEF Taken
<1>2. IsFiniteSet(s)
  BY FS_Subset
<1>3. QED
  BY <1>1, <1>2, FS_RemoveElement, FS_CardinalityType

LEMMA SumsExist ==
    ASSUME NEW S, IsFiniteSet(S)
    PROVE  \E f : f = [ s \in SUBSET S |-> IF s = {} THEN 0 ELSE Taken(s).size + f[s \ { Taken(s) }] ]
<1> DEFINE Partial(n, f) == \A s \in SUBSET S : Cardinality(s) <= n =>
                             f[s] = IF s = {} THEN 0 ELSE Taken(s).size + f[s \ { Taken(s) }]
           T == { n \in Nat : \E f : Partial(n, f) }
<1>1. \A s \in SUBSET S : Cardinality(s) \in Nat /\ (Cardinality(s) = 0 <=> s = {}) /\ Cardinality(s) <= Cardinality(S)
  BY FS_Subset, FS_CardinalityType, FS_EmptySet
<1>2. 0 \in T
  <2> DEFINE f == [ s \in SUBSET S |-> 0 ]
  <2>1. Partial(0, f)
    BY <1>1
  <2>2. \E g : Partial(0, g)
    <3> HIDE DEF Partial, f
    <3> QED
      BY <2>1
  <2>3. QED
    BY <2>2
<1>3. ASSUME NEW n \in Nat, n \in T
      PROVE  n + 1 \in T
  <2>1. PICK f : Partial(n, f)
    BY <1>3
  <2> DEFINE more == [ s \in SUBSET S |-> IF s = {} THEN 0 ELSE Taken(s).size + f[s \ { Taken(s) }] ]
  <2>2. \A s \in SUBSET S : Cardinality(s) <= n => more[s] = f[s]
    BY <2>1
  <2>3. ASSUME NEW s \in SUBSET S, Cardinality(s) <= n + 1, s # {}
        PROVE  more[s] = Taken(s).size + more[s \ { Taken(s) }]
    <3>1. s \ { Taken(s) } \in SUBSET S /\ Cardinality(s \ { Taken(s) }) <= n
      BY <2>3, Smaller
    <3>2. more[s \ { Taken(s) }] = f[s \ { Taken(s) }]
      <4> HIDE DEF more
      <4> QED
        BY <2>2, <3>1
    <3>3. more[s] = Taken(s).size + f[s \ { Taken(s) }]
      BY <2>3
    <3> HIDE DEF more
    <3>4. QED
      BY <3>2, <3>3
  <2>4. more[{}] = 0
    OBVIOUS
  <2>5. \E g : Partial(n + 1, g)
    <3> HIDE DEF more
    <3>1. Partial(n + 1, more)
      BY <2>3, <2>4
    <3> HIDE DEF Partial
    <3>2. QED
      BY <3>1
  <2> HIDE DEF Partial
  <2>6. QED
    BY <2>5
<1>4. Nat \subseteq T
  <2> HIDE DEF T
  <2> QED
    BY <1>2, <1>3, EachNumber
<1>5. PICK f : Partial(Cardinality(S), f)
  BY <1>1, <1>4
<1> DEFINE sums == [ s \in SUBSET S |-> f[s] ]
<1>6. ASSUME NEW s \in SUBSET S
      PROVE  sums[s] = IF s = {} THEN 0 ELSE Taken(s).size + sums[s \ { Taken(s) }]
  <2>1. f[s] = IF s = {} THEN 0 ELSE Taken(s).size + f[s \ { Taken(s) }]
    BY <1>1, <1>5
  <2>2. s \ { Taken(s) } \in SUBSET S
    OBVIOUS
  <2>3. QED
    BY <2>1, <2>2
<1>7. sums = [ s \in SUBSET S |-> IF s = {} THEN 0 ELSE Taken(s).size + sums[s \ { Taken(s) }] ]
  <2>1. sums = [ s \in SUBSET S |-> sums[s] ]
    OBVIOUS
  <2> HIDE DEF sums
  <2>2. QED
    BY <1>6, <2>1
<1>8. QED
  <2> HIDE DEF sums
  <2> QED
    BY <1>7

LEMMA SumIs ==
    ASSUME NEW S, IsFiniteSet(S)
    PROVE  \E f : Sums(S, f) /\ Sum(S) = f[S]
<1> DEFINE f == CHOOSE f : f = [ s \in SUBSET S |-> IF s = {} THEN 0 ELSE Taken(s).size + f[s \ { Taken(s) }] ]
<1>1. f = [ s \in SUBSET S |-> IF s = {} THEN 0 ELSE Taken(s).size + f[s \ { Taken(s) }] ]
  BY SumsExist
<1>2. Sum(S) = f[S]
  BY Zenon DEF Sum, MapThenSumSet, MapThenFoldSet, Taken
<1>3. Sums(S, f)
  <2> HIDE DEF f
  <2> QED
    BY <1>1 DEF Sums
<1>4. QED
  <2> HIDE DEF f
  <2> QED
    BY <1>2, <1>3

LEMMA SameSums ==
    ASSUME NEW A, NEW B, NEW f, NEW g, Sums(A, f), Sums(B, g),
           NEW S, IsFiniteSet(S), S \subseteq A, S \subseteq B
    PROVE  f[S] = g[S]
<1> DEFINE T == { n \in Nat : \A s \in SUBSET S : Cardinality(s) = n => f[s] = g[s] }
<1>1. \A s \in SUBSET S : Cardinality(s) \in Nat /\ (Cardinality(s) = 0 <=> s = {})
  BY FS_Subset, FS_CardinalityType, FS_EmptySet
<1>2. /\ \A s \in SUBSET S : f[s] = IF s = {} THEN 0 ELSE Taken(s).size + f[s \ { Taken(s) }]
      /\ \A s \in SUBSET S : g[s] = IF s = {} THEN 0 ELSE Taken(s).size + g[s \ { Taken(s) }]
  BY DEF Sums
<1>3. 0 \in T
  BY <1>1, <1>2
<1>4. ASSUME NEW n \in Nat, n \in T
      PROVE  n + 1 \in T
  <2>1. ASSUME NEW s \in SUBSET S, Cardinality(s) = n + 1
        PROVE  f[s] = g[s]
    <3>1. s # {}
      BY <1>1, <2>1
    <3>2. s \ { Taken(s) } \in SUBSET S /\ Cardinality(s \ { Taken(s) }) = n
      BY <2>1, <3>1, Smaller
    <3>3. f[s \ { Taken(s) }] = g[s \ { Taken(s) }]
      BY <1>4, <3>2
    <3>4. QED
      BY <1>2, <3>1, <3>3
  <2>2. QED
    BY <2>1
<1>5. Nat \subseteq T
  <2> HIDE DEF T
  <2> QED
    BY <1>3, <1>4, EachNumber
<1>6. QED
  BY <1>1, <1>5

\* Whichever element is taken first.
LEMMA AnyFirst ==
    ASSUME NEW S \in SUBSET Items, NEW f, Sums(S, f)
    PROVE  f[S] \in Nat /\ \A x \in S : f[S] = x.size + f[S \ { x }]
<1> DEFINE Good(s) == f[s] \in Nat /\ \A x \in s : f[s] = x.size + f[s \ { x }]
           T == { n \in Nat : \A s \in SUBSET S : Cardinality(s) <= n => Good(s) }
<1>0. IsFiniteSet(S)
  BY ItemsFinite, FS_Subset
<1>1. \A s \in SUBSET S : IsFiniteSet(s) /\ Cardinality(s) \in Nat /\ (Cardinality(s) = 0 <=> s = {})
  BY <1>0, FS_Subset, FS_CardinalityType, FS_EmptySet
<1>2. \A s \in SUBSET S : f[s] = IF s = {} THEN 0 ELSE Taken(s).size + f[s \ { Taken(s) }]
  BY DEF Sums
<1>3. \A x \in S : x.size \in Nat
  BY Fields
<1>4. 0 \in T
  BY <1>1, <1>2
<1>5. ASSUME NEW n \in Nat, n \in T
      PROVE  n + 1 \in T
  <2>0. \A s \in SUBSET S : Cardinality(s) <= n => Good(s)
    BY <1>5
  <2>1. ASSUME NEW s \in SUBSET S, Cardinality(s) = n + 1
        PROVE  Good(s)
    <3>1. s # {}
      BY <1>1, <2>1
    <3> DEFINE c == Taken(s)
    <3>2. c \in s /\ c \in S /\ s \ { c } \in SUBSET S /\ Cardinality(s \ { c }) = n
      BY <1>0, <2>1, <3>1, Smaller
    <3>3. f[s] = c.size + f[s \ { c }] /\ f[s \ { c }] \in Nat /\ c.size \in Nat
      BY SMTT(60), <1>2, <1>3, <2>0, <3>1, <3>2
    <3> HIDE DEF c
    <3>4. ASSUME NEW x \in s, x # c
          PROVE  f[s] = x.size + f[s \ { x }]
      <4>1. s \ { x } \in SUBSET S /\ Cardinality(s \ { x }) = n /\ c \in s \ { x } /\ x \in s \ { c }
        <5>1. Cardinality(s \ { x }) = Cardinality(s) - 1
          BY <1>1, <3>4, FS_RemoveElement
        <5>2. (n + 1) - 1 = n
          OBVIOUS
        <5>3. s \ { x } \in SUBSET S /\ c \in s \ { x } /\ x \in s \ { c }
          BY <3>2, <3>4
        <5>4. QED
          BY <2>1, <5>1, <5>2, <5>3, Zenon
      <4>2. f[s \ { x }] = c.size + f[(s \ { x }) \ { c }] /\ f[s \ { x }] \in Nat
        BY <2>0, <4>1
      <4>3. f[s \ { c }] = x.size + f[(s \ { c }) \ { x }]
        BY <2>0, <3>2, <4>1
      <4>4. (s \ { c }) \ { x } = (s \ { x }) \ { c }
        OBVIOUS
      <4>5. PICK both : both = (s \ { x }) \ { c }
        OBVIOUS
      <4>6. f[both] \in Nat
        <5>1. both \in SUBSET (s \ { x }) /\ both \in SUBSET S
          BY <4>1, <4>5
        <5>2. Cardinality(both) <= n
          BY <1>1, <4>1, <5>1, FS_Subset
        <5>3. QED
          BY <2>0, <5>1, <5>2
      <4>7. f[s \ { x }] = c.size + f[both] /\ f[s \ { c }] = x.size + f[both]
        BY <4>2, <4>3, <4>4, <4>5
      <4>8. x.size \in Nat
        BY <1>3, <3>4
      <4>9. \A b, p, q \in Nat : p + (q + b) = q + (p + b)
        OBVIOUS
      <4>10. c.size + (x.size + f[both]) = x.size + (c.size + f[both])
        BY <3>3, <4>6, <4>8, <4>9, Zenon
      <4>11. QED
        BY <3>3, <4>7, <4>10, Zenon
    <3>5. f[s] \in Nat
      BY <3>3
    <3>6. QED
      BY <3>3, <3>4, <3>5
  <2>2. ASSUME NEW s \in SUBSET S, Cardinality(s) <= n + 1
        PROVE  Good(s)
    <3>1. Cardinality(s) <= n \/ Cardinality(s) = n + 1
      BY <1>1, <2>2
    <3> HIDE DEF Good
    <3>2. QED
      BY <2>0, <2>1, <3>1
  <2> HIDE DEF Good
  <2>3. QED
    BY <2>2
<1>6. Nat \subseteq T
  <2> HIDE DEF T
  <2> QED
    BY <1>4, <1>5, EachNumber
<1>7. QED
  BY <1>1, <1>6

LEMMA SumAdds ==
    ASSUME NEW S \in SUBSET Items, NEW x \in Items, x \notin S
    PROVE  Sum(S) \in Nat /\ Sum(S \cup { x }) = x.size + Sum(S)
<1>1. IsFiniteSet(S) /\ S \cup { x } \in SUBSET Items /\ IsFiniteSet(S \cup { x })
  <2>1. S \cup { x } \in SUBSET Items
    OBVIOUS
  <2>2. QED
    BY <2>1, ItemsFinite, FS_Subset
<1>2. PICK f : Sums(S, f) /\ Sum(S) = f[S]
  BY <1>1, SumIs
<1>3. PICK g : Sums(S \cup { x }, g) /\ Sum(S \cup { x }) = g[S \cup { x }]
  BY <1>1, SumIs
<1>4. f[S] = g[S]
  BY <1>1, <1>2, <1>3, SameSums
<1>5. g[S \cup { x }] = x.size + g[(S \cup { x }) \ { x }]
  BY <1>1, <1>3, AnyFirst
<1>6. (S \cup { x }) \ { x } = S
  OBVIOUS
<1>7. f[S] \in Nat
  BY <1>2, AnyFirst
<1>8. QED
  BY <1>2, <1>3, <1>4, <1>5, <1>6, <1>7

LEMMA SumTyped ==
    ASSUME NEW S \in SUBSET Items
    PROVE  Sum(S) \in Nat
<1>1. IsFiniteSet(S)
  BY ItemsFinite, FS_Subset
<1>2. PICK f : Sums(S, f) /\ Sum(S) = f[S]
  BY <1>1, SumIs
<1>3. f[S] \in Nat
  BY <1>2, AnyFirst
<1>4. QED
  BY <1>2, <1>3

-----------------------------------------------------------------------------
(* The package: what was dropped goes after what is left, each drop is told, *)
(* and the last one was needed.                                             *)

Told == { k \in DOMAIN omissions : omissions[k].reason = "budget" }
Dropped == candidates \ included

\* Before the package, the evidence is there and nothing is dropped.
Undropped ==
    /\ Collecting => Evidence \subseteq candidates
    /\ selecting # "package" => Told = {}

Keeping ==
    selecting = "package" =>
        /\ limit \in Nat /\ { i \in Evidence : i.priority = 0 } \subseteq included
        /\ Cardinality(Told) = Cardinality(Dropped)
        /\ \A i \in Dropped : \A k \in included : Precedes(k, i)
        /\ \A i \in Dropped : (\A j \in Dropped \ { i } : Precedes(i, j)) =>
               Sum(included \cup { i }) + Len(omissions) > limit

ContextInv == Collection /\ Undropped /\ Keeping

LEMMA ToldGrows ==
    ASSUME omissions \in Seq(Left), NEW omission \in Left, omissions' = Append(omissions, omission)
    PROVE  /\ Len(omissions) \in Nat /\ Len(omissions') = Len(omissions) + 1
           /\ Told \subseteq 1..Len(omissions)
           /\ Told' = IF omission.reason = "budget" THEN Told \cup { Len(omissions) + 1 } ELSE Told
<1>1. /\ Len(omissions) \in Nat /\ DOMAIN omissions = 1..Len(omissions)
      /\ Len(omissions') = Len(omissions) + 1 /\ DOMAIN omissions' = 1..(Len(omissions) + 1)
      /\ omissions'[Len(omissions) + 1] = omission
      /\ \A k \in 1..Len(omissions) : omissions'[k] = omissions[k]
  BY LenProperties, AppendProperties
<1>2. \A k : k \in 1..(Len(omissions) + 1) <=> k \in 1..Len(omissions) \/ k = Len(omissions) + 1
  BY <1>1
<1>3. Told' = { k \in DOMAIN omissions' : omissions'[k].reason = "budget" }
  BY DEF Told
<1>4. Told = { k \in 1..Len(omissions) : omissions[k].reason = "budget" }
  BY <1>1 DEF Told
<1>5. \A k : k \in Told' <=> k \in DOMAIN omissions' /\ omissions'[k].reason = "budget"
  BY <1>3, Zenon
<1>6. \A k : k \in Told <=> k \in 1..Len(omissions) /\ omissions[k].reason = "budget"
  BY <1>4, Zenon
<1>7. Len(omissions) + 1 \notin 1..Len(omissions)
  BY <1>1
<1>8. \A k : k \in Told' <=> k \in Told \/ (k = Len(omissions) + 1 /\ omission.reason = "budget")
  BY <1>1, <1>2, <1>5, <1>6, <1>7, Zenon
<1>9. QED
  BY <1>1, <1>4, <1>8

\* Before the package, nothing is told of a drop.
LEMMA NothingTold ==
    ASSUME ContextTyped, Told = {}, NEW omission \in Left, omission.reason # "budget",
           \/ omissions' = omissions \/ omissions' = << >>
           \/ omissions' = Append(omissions, omission) \/ omissions' = OmitOnce(omissions, omission)
    PROVE  Told' = {}
<1>1. omissions \in Seq(Left)
  BY DEF ContextTyped
<1>2. CASE omissions' = omissions
  BY <1>2 DEF Told
<1>3. CASE omissions' = << >>
  BY <1>3 DEF Told
<1>4. CASE omissions' = Append(omissions, omission)
  BY <1>1, <1>4, ToldGrows
<1>5. CASE omissions' = OmitOnce(omissions, omission)
  BY <1>2, <1>4, <1>5 DEF OmitOnce
<1>6. QED
  BY <1>2, <1>3, <1>4, <1>5

LEMMA StopKept ==
    ASSUME NEW ending, Stop(ending)
    PROVE  Undropped' /\ Keeping'
  BY DEF Stop, Undropped, Keeping, Told, Collecting

LEMMA OmissionTyped ==
    ASSUME NEW f \in Nat, NEW kind \in Kind, NEW reason \in { "unsafe", "ast_parse_failed", "budget" }
    PROVE  Omission(f, kind, reason) \in Left /\ Omission(f, kind, reason).reason = reason
  BY DEF Omission, Left

LEMMA InitKept == ContextInit => Undropped /\ Keeping
  BY DEF ContextInit, Undropped, Keeping, Told, Collecting

LEMMA BeforeThePackage ==
    ASSUME ContextInv, Select \/ Candidates \/ Collect
    PROVE  Undropped' /\ Keeping'
<1>1. ASSUME selecting # "package", selecting' # "package", omissions' = omissions,
             Collecting' => Evidence \subseteq candidates'
      PROVE  Undropped' /\ Keeping'
  BY <1>1 DEF ContextInv, Undropped, Keeping, Told
<1>2. CASE Select
  <2>1. CASE \E code \in SelectionErrorCode \ { "MANDATORY_CONTEXT_OVERFLOW" } : Stop(code)
    BY <2>1, StopKept
  <2>2. CASE ~ \E code \in SelectionErrorCode \ { "MANDATORY_CONTEXT_OVERFLOW" } : Stop(code)
    BY <1>1, <1>2, <2>2 DEF Select, Collecting
  <2>3. QED
    BY <2>1, <2>2
<1>3. CASE Candidates
  <2>1. CASE \E code \in { "UNSAFE_REPOSITORY", "VISIBLE_TEST_AMBIGUOUS" } : Stop(code)
    BY <2>1, StopKept
  <2>2. CASE ~ \E code \in { "UNSAFE_REPOSITORY", "VISIBLE_TEST_AMBIGUOUS" } : Stop(code)
    BY <1>1, <1>3, <2>2 DEF Candidates
  <2>3. QED
    BY <2>1, <2>2
<1>4. CASE NextFrame
  <2>1. /\ selecting = "frames" /\ Evidence \subseteq candidates /\ Evidence \subseteq candidates'
        /\ selecting' \in { "frames", "calls" }
    BY <1>4 DEF NextFrame, ContextInv, Undropped, Collecting
  <2>2. PICK frame \in left : omissions' = omissions \/ omissions' = Append(omissions, Omission(frame[1], "source", "unsafe"))
    BY <1>4 DEF NextFrame
  <2>3. frame[1] \in Nat
    BY Numbers DEF ContextInv, Collection, ContextTyped
  <2>4. /\ Omission(frame[1], "source", "unsafe") \in Left
        /\ Omission(frame[1], "source", "unsafe").reason = "unsafe"
    BY <2>3, OmissionTyped DEF Kind
  <2>5. Told' = {}
    BY <2>1, <2>2, <2>4, NothingTold DEF ContextInv, Collection, Undropped
  <2>6. QED
    BY <2>1, <2>5 DEF Undropped, Keeping
<1>5. CASE Enter
  <2>1. /\ selecting = "calls" /\ Evidence \subseteq candidates /\ candidates' = candidates
        /\ selecting' \in { "frames", "calls", "names" }
    BY <1>5 DEF Enter, GiveWay, ContextInv, Undropped, Collecting
  <2>2. PICK reason \in { "unsafe", "ast_parse_failed" } :
            \/ omissions' = omissions
            \/ omissions' = OmitOnce(omissions, Omission(Head(calls).file, "definition", reason))
    BY <1>5 DEF Enter
  <2>3. Head(calls).file \in Nat
    <3>1. calls \in Seq(Waits) /\ calls # << >>
      BY <2>1 DEF ContextInv, Collection, ContextTyped, InCall
    <3>2. Head(calls) \in Waits
      BY <3>1, NamesOfFirst
    <3>3. QED
      BY <3>2, Numbers DEF Waits
  <2>4. /\ Omission(Head(calls).file, "definition", reason) \in Left
        /\ Omission(Head(calls).file, "definition", reason).reason = reason
    BY <2>3, OmissionTyped DEF Kind
  <2>5. Told' = {}
    BY <2>1, <2>2, <2>4, NothingTold DEF ContextInv, Collection, Undropped
  <2>6. QED
    BY <2>1, <2>5 DEF Undropped, Keeping
<1>6. CASE TakeName
  <2>1. /\ selecting = "names" /\ selecting' = "names" /\ omissions' = omissions /\ candidates' = candidates
    BY <1>6 DEF TakeName
  <2>2. Evidence \subseteq candidates'
    BY <2>1 DEF ContextInv, Undropped, Collecting
  <2>3. QED
    BY <1>1, <2>1, <2>2
<1>7. CASE Gather
  <2>1. /\ selecting = "names" /\ omissions' = omissions /\ candidates \subseteq candidates'
        /\ selecting' \in { "frames", "calls" }
    BY <1>7 DEF Gather, GiveWay
  <2>2. Evidence \subseteq candidates'
    BY <2>1 DEF ContextInv, Undropped, Collecting
  <2>3. QED
    BY <1>1, <2>1, <2>2
<1>8. QED
  BY <1>2, <1>3, <1>4, <1>5, <1>6, <1>7 DEF Collect

LEMMA InstructionsKept ==
    ASSUME ContextInv, Instructions
    PROVE  Undropped' /\ Keeping'
<1>1. CASE Stop("FINGERPRINT_MISMATCH")
  BY <1>1, StopKept
<1>2. CASE ~Stop("FINGERPRINT_MISMATCH")
  <2>1. /\ selecting = "frames" /\ selecting' = "package" /\ included' = candidates' /\ limit' \in Limits
        /\ candidates \subseteq candidates'
        /\ omissions' = omissions \/ omissions' = Append(omissions, Omission(0, "instruction", "unsafe"))
    BY <1>2 DEF Instructions
  <2>2. Evidence \subseteq candidates /\ Told = {} /\ ContextTyped
    BY <2>1 DEF ContextInv, Undropped, Collecting, Collection
  <2>3. /\ Omission(0, "instruction", "unsafe") \in Left
        /\ Omission(0, "instruction", "unsafe").reason = "unsafe"
    BY OmissionTyped DEF Kind
  <2>4. Told' = {} /\ Dropped' = {}
    BY <2>1, <2>2, <2>3, NothingTold DEF Dropped
  <2>5. limit' \in Nat /\ Evidence \subseteq included'
    BY <2>1, <2>2, ContextAssumption
  <2>6. QED
    BY <2>1, <2>4, <2>5 DEF Undropped, Keeping, Collecting
<1>3. QED
  BY <1>1, <1>2

LEMMA LastIsOne ==
    ASSUME ContextTyped, Removable # {}
    PROVE  LastOne \in Removable /\ \A j \in Removable \ { LastOne } : Precedes(j, LastOne)
<1>1. Removable \in SUBSET Items
  BY DEF Removable, ContextTyped
<1>2. \E i \in Removable : \A j \in Removable \ { i } : Precedes(j, i)
  BY <1>1, LastExists
<1>3. QED
  BY <1>2 DEF LastOne

LEMMA DropKept ==
    ASSUME ContextInv, Drop, Removable # {}
    PROVE  Undropped' /\ Keeping'
<1>1. /\ selecting = "package" /\ selecting' = "package" /\ included' = included \ { LastOne }
      /\ omissions' = Append(omissions, Omission(LastOne.file, LastOne.kind, "budget"))
      /\ UNCHANGED << candidates, limit >> /\ ~Fits
  BY DEF Drop, LastOne
<1>2. /\ included \in SUBSET candidates /\ candidates \in SUBSET Items /\ omissions \in Seq(Left)
      /\ LastOne \in Removable /\ \A j \in Removable \ { LastOne } : Precedes(j, LastOne)
  BY LastIsOne DEF ContextInv, Collection, ContextTyped
<1>3. LastOne \in included /\ LastOne \in Items /\ LastOne.priority # 0
  BY <1>2 DEF Removable
<1>4. /\ limit \in Nat /\ { i \in Evidence : i.priority = 0 } \subseteq included
      /\ Cardinality(Told) = Cardinality(Dropped)
      /\ \A i \in Dropped : \A k \in included : Precedes(k, i)
  BY <1>1 DEF ContextInv, Keeping
<1>5. /\ Omission(LastOne.file, LastOne.kind, "budget") \in Left
      /\ Omission(LastOne.file, LastOne.kind, "budget").reason = "budget"
  BY <1>3, Fields, OmissionTyped
<1>6. /\ Len(omissions) \in Nat /\ Len(omissions') = Len(omissions) + 1
      /\ Told \subseteq 1..Len(omissions) /\ Told' = Told \cup { Len(omissions) + 1 }
  BY <1>1, <1>2, <1>5, ToldGrows
<1>7. Dropped' = Dropped \cup { LastOne } /\ LastOne \notin Dropped
  BY <1>1, <1>2, <1>3 DEF Dropped
<1>8. Cardinality(Told') = Cardinality(Dropped')
  <2>1. IsFiniteSet(Told) /\ Len(omissions) + 1 \notin Told
    <3>1. IsFiniteSet(1..Len(omissions))
      BY <1>6, FS_Interval
    <3>2. Len(omissions) + 1 \notin 1..Len(omissions)
      BY <1>6
    <3>3. QED
      BY <1>6, <3>1, <3>2, FS_Subset
  <2>2. IsFiniteSet(Dropped)
    BY <1>2, ItemsFinite, FS_Subset DEF Dropped
  <2>3. Cardinality(Told \cup { Len(omissions) + 1 }) = Cardinality(Told) + 1
    BY <2>1, FS_AddElement
  <2>4. Cardinality(Dropped \cup { LastOne }) = Cardinality(Dropped) + 1
    BY <1>7, <2>2, FS_AddElement
  <2>5. QED
    BY <1>4, <1>6, <1>7, <2>3, <2>4, Zenon
<1>9. ASSUME NEW i \in Dropped', NEW k \in included'
      PROVE  Precedes(k, i)
  <2>1. k \in included /\ k # LastOne /\ k \in Items
    BY <1>1, <1>2
  <2>2. CASE i \in Dropped
    BY <1>4, <2>1, <2>2
  <2>3. CASE i = LastOne
    <3>1. CASE k \in Removable
      BY <1>2, <2>1, <2>3, <3>1
    <3>2. CASE k \notin Removable
      <4>1. k.priority = 0 /\ LastOne.priority > 0
        BY <1>3, <2>1, <3>2, Fields DEF Removable
      <4>2. QED
        BY <2>3, <4>1 DEF Precedes
    <3>3. QED
      BY <3>1, <3>2
  <2>4. QED
    BY <1>7, <2>2, <2>3
<1>10. ASSUME NEW i \in Dropped', \A j \in Dropped' \ { i } : Precedes(i, j)
       PROVE  Sum(included' \cup { i }) + Len(omissions') > limit
  <2>1. i = LastOne
    <3>1. SUFFICES ASSUME i # LastOne
                   PROVE  FALSE
      OBVIOUS
    <3>2. i \in Dropped /\ LastOne \in Dropped' \ { i } /\ i \in Items
      BY <1>2, <1>7, <3>1 DEF Dropped
    <3>3. Precedes(LastOne, i) /\ Precedes(i, LastOne)
      BY <1>3, <1>4, <1>10, <3>2
    <3>4. QED
      BY <1>3, <3>2, <3>3, Strict
  <2>2. included' \cup { i } = included
    BY <1>1, <1>3, <2>1
  <2>3. Sum(included) \in Nat
    BY <1>2, SumTyped
  <2>4. ~(1 + Sum(included) + Len(omissions) <= limit)
    BY <1>1 DEF Fits, SizeOf, Sum
  <2>5. Sum(included) + (Len(omissions) + 1) > limit
    BY <1>4, <1>6, <2>3, <2>4
  <2>6. QED
    BY <1>6, <2>2, <2>5, Zenon
<1>11. { i \in Evidence : i.priority = 0 } \subseteq included'
  BY <1>1, <1>3, <1>4
<1>12. Undropped'
  BY <1>1 DEF Undropped, Collecting
<1>13. QED
  BY <1>1, <1>4, <1>8, <1>9, <1>10, <1>11, <1>12 DEF Keeping

LEMMA ContextUnchanged ==
    ASSUME ContextInv, selected' \in { selected, "none" },
           UNCHANGED << selecting, frames, files, refs, collecting, candidates, included, omissions, limit >>
    PROVE  ContextInv'
<1>1. UNCHANGED << selecting, frames, files, refs, left, calls, visited, nodes, pending >>
  BY DEF collecting
<1>2. UNCHANGED << candidates, included, omissions, limit >> /\ selected' \in { selected, "none" }
  OBVIOUS
<1>3. (\A f : ReachableFrom(f)' = ReachableFrom(f)) /\ DefinitionsFound' = DefinitionsFound /\ Waiting' = Waiting
  BY <1>1, <1>2, SameReached DEF DefinitionsFound, Waiting
<1>4. (\A d : Opened(d)' = Opened(d)) /\ \A d : MentionedBy({ d })' = MentionedBy({ d })
  BY <1>1 DEF Opened, MentionedBy
<1>5. ContextTyped'
  BY <1>1, <1>2 DEF ContextInv, Collection, ContextTyped
<1>6. InCall'
  BY <1>1, <1>2 DEF ContextInv, Collection, InCall, Collecting, Opened
<1>7. Known' = Known
  BY <1>1, <1>3 DEF Known
<1>8. ASSUME NEW f
      PROVE  (Follows(f) => Follows(f)') /\ (Finished(f) => Finished(f)')
  <2>1. Finished(f) => Finished(f)'
    BY <1>3, <1>4 DEF Finished
  <2>2. ASSUME Follows(f)
        PROVE  Follows(f)'
    <3>1. /\ KeyOf(f) \in visited' \/ (visited' = {} /\ calls' = << CallFor(f[1], { f }) >>)
          /\ Waiting' \subseteq Definition \cup { f }
          /\ \A d \in nodes' : \E k \in visited' : d = Own(f, k)
      BY <1>1, <1>3, <2>2 DEF Follows
    <3>2. ASSUME NEW k \in visited'
          PROVE  /\ Opened(k)' /\ Own(f, k) \in DefinitionsFound' \cup nodes'
                 /\ \A m \in MentionedBy({ Own(f, k) })' :
                        Opened(m)' => m \in Known' \/ (Own(f, k) \in nodes' /\ m \notin DefinitionsOf(Head(calls').file))
      BY <1>1, <1>3, <1>4, <1>7, <2>2, <3>2 DEF Follows
    <3>3. \A d \in Known' : Opened(d)' => Own(f, d) \in ReachableFrom(f)'
      BY <1>3, <1>4, <1>7, <2>2 DEF Follows
    <3>4. QED
      BY <3>1, <3>2, <3>3 DEF Follows, Own
  <2>3. QED
    BY <2>1, <2>2
<1>9. Followed'
  <2>1. LedTo' = LedTo
    BY <1>1, <1>3, <1>4 DEF LedTo
  <2>2. QED
    BY <1>1, <1>3, <1>8, <2>1 DEF ContextInv, Collection, Followed, Collecting
<1>10. Told' = Told /\ Dropped' = Dropped
  BY <1>2 DEF Told, Dropped
<1>11. Undropped' /\ Keeping'
  BY <1>1, <1>2, <1>10 DEF ContextInv, Undropped, Keeping, Collecting
<1>12. QED
  BY <1>5, <1>6, <1>9, <1>11 DEF ContextInv, Collection

LEMMA ContextStep == ContextInv /\ [ContextNext]_contextVars => ContextInv'
<1> SUFFICES ASSUME ContextInv, [ContextNext]_contextVars
             PROVE  ContextInv'
  OBVIOUS
<1>1. CASE Select
  BY <1>1, SelectCollection, BeforeThePackage DEF ContextInv
<1>2. CASE Candidates
  BY <1>2, CandidatesCollection, BeforeThePackage DEF ContextInv
<1>3. CASE Collect
  <2>1. Collection'
    BY <1>3, NextFrameCollection, EnterCollection, TakeNameCollection, GatherCollection DEF Collect, ContextInv
  <2>2. QED
    BY <1>3, <2>1, BeforeThePackage DEF ContextInv
<1>4. CASE Instructions
  BY <1>4, InstructionsCollection, InstructionsKept DEF ContextInv
<1>5. CASE Drop
  <2>1. CASE Removable = {}
    <3>1. Stop("MANDATORY_CONTEXT_OVERFLOW")
      BY <1>5, <2>1 DEF Drop
    <3>2. QED
      BY <3>1, StopCollection, StopKept DEF ContextInv
  <2>2. CASE Removable # {}
    BY <1>5, <2>2, LastIsOne, DropCollection, DropKept DEF ContextInv, Collection
  <2>3. QED
    BY <2>1, <2>2
<1>6. CASE Package
  BY <1>6, StopCollection, StopKept DEF Package, ContextInv
<1>7. CASE UNCHANGED contextVars
  BY <1>7, ContextUnchanged DEF contextVars
<1>8. QED
  BY <1>1, <1>2, <1>3, <1>4, <1>5, <1>6, <1>7 DEF ContextNext

-----------------------------------------------------------------------------
(* The theorems.                                                            *)

\* The inductive invariant of select, from the request to the package.
THEOREM ContextInvariant == ContextSpec => []ContextInv
<1>1. ContextInit => ContextInv
  BY InitCollection, InitKept DEF ContextInv
<1>2. QED
  BY <1>1, ContextStep, PTL DEF ContextSpec

LEMMA CollectionIsReachable == ContextInv => CollectsTheReachable
<1> SUFFICES ASSUME ContextInv, selecting = "frames", left = {}
             PROVE  DefinitionsFound = UNION { ReachableFrom(f) : f \in { g \in frames : files[g[1]] = "text" } }
  BY DEF CollectsTheReachable
<1>1. calls = << >>
  BY DEF ContextInv, Collection, InCall
<1>2. DefinitionsFound \subseteq LedTo /\ \A f \in frames : Opened(f) => ReachableFrom(f) \subseteq DefinitionsFound
  BY <1>1 DEF ContextInv, Collection, Followed, Collecting, Finished
<1>3. LedTo = UNION { ReachableFrom(f) : f \in { g \in frames : files[g[1]] = "text" } }
  BY DEF LedTo, Opened
<1>4. LedTo \subseteq DefinitionsFound
  BY <1>2 DEF LedTo
<1>5. QED
  BY <1>2, <1>3, <1>4

\* What is collected is what can be reached from the frames, through any cycle of names and
\* imports, but for the namesake of a frame's own definition.
THEOREM CollectsAllReachable == ContextSpec => []CollectsTheReachable
  BY ContextInvariant, CollectionIsReachable, PTL

LEMMA PackageIsBest ==
    ASSUME ContextInv, Package
    PROVE  BestPackage
<1>1. selecting = "package" /\ Fits
  BY DEF Package
<1>2. /\ limit \in Nat /\ { i \in Evidence : i.priority = 0 } \subseteq included
      /\ Cardinality(Told) = Cardinality(Dropped)
      /\ \A i \in Dropped : \A k \in included : Precedes(k, i)
      /\ \A i \in Dropped : (\A j \in Dropped \ { i } : Precedes(i, j)) =>
             Sum(included \cup { i }) + Len(omissions) > limit
  BY <1>1 DEF ContextInv, Keeping
<1>3. included \in SUBSET Items /\ Dropped \in SUBSET Items /\ Len(omissions) \in Nat
  BY LenProperties DEF ContextInv, Collection, ContextTyped, Dropped
<1>4. 1 + Sum(included) + Len(omissions) <= limit
  BY <1>1 DEF Fits, SizeOf, Sum
<1>6. Sum(included) \in Nat
  BY <1>3, SumTyped
<1>7. ASSUME NEW i \in Dropped, \A j \in Dropped \ { i } : Precedes(i, j)
      PROVE  Sum(included) + 1 + Len(omissions) + i.size - 1 > limit
  <2>1. i \in Items /\ i \notin included /\ i.size \in Nat
    BY <1>3, Fields DEF Dropped
  <2>2. Sum(included \cup { i }) = i.size + Sum(included)
    BY <1>3, <2>1, SumAdds
  <2>3. Sum(included \cup { i }) + Len(omissions) > limit
    BY <1>2, <1>7
  <2>4. (i.size + Sum(included)) + Len(omissions) > limit
    BY <2>2, <2>3, Zenon
  <2>5. QED
    BY <1>2, <1>3, <1>6, <2>1, <2>4
<1>8. Sum(included) + 1 + Len(omissions) <= limit
  BY <1>2, <1>3, <1>4, <1>6
<1>9. QED
  BY <1>2, <1>7, <1>8, Zenon DEF BestPackage, Told, Dropped, Sum

LEMMA StepIsBest ==
    ContextInv /\ [ContextNext]_contextVars => [selected' = "package" => BestPackage]_contextVars
<1> SUFFICES ASSUME ContextInv, ContextNext, selected' = "package"
             PROVE  BestPackage
  OBVIOUS
<1>1. selected = "package" => selecting = "done"
  BY DEF ContextInv, Collection, ContextTyped
<1>2. ASSUME NEW ending, Stop(ending), ending # "package"
      PROVE  FALSE
  BY <1>2 DEF Stop
<1>3. ~Select
  BY <1>1, <1>2 DEF Select, SelectionErrorCode
<1>4. ~Candidates
  BY <1>1, <1>2 DEF Candidates
<1>5. ~Collect
  BY <1>1 DEF Collect, NextFrame, Enter, TakeName, Gather
<1>6. ~Instructions
  BY <1>1, <1>2 DEF Instructions
<1>7. ~Drop
  BY <1>1, <1>2 DEF Drop
<1>8. QED
  BY <1>3, <1>4, <1>5, <1>6, <1>7, PackageIsBest DEF ContextNext

\* A package is within its limit, and the best that is.
THEOREM AlwaysKeepsTheBest == ContextSpec => KeepsTheBest
  BY ContextInvariant, StepIsBest, PTL DEF ContextSpec, KeepsTheBest

(***************************************************************************)
(* THE PIPELINE: what holds of each node while it is at work is not lost    *)
(* when the next one is entered, and what is forgotten then makes no        *)
(* promise false.                                                           *)
(***************************************************************************)

\* A node's invariant, for as long as the node is not left.  The prepared files and
\* the patch's are forgotten; of the patch, its approval is kept.
PipelineInv ==
    /\ ChecksInv /\ ContextInv /\ ChangesAreApproved
    /\ phase = "prepare" => PrepInv
    /\ answer = "prepared" => phase = "prepare"
    /\ phase \in { "prepare", "context", "patch" } => PatchInv /\ Counted

LEMMA PreparedIsPrepared == PipelineInv => PreparedIsASnapshot
  BY DEF PipelineInv, PrepInv, Fingerprinted, OfAMoment, PreparedIsASnapshot

LEMMA InitPipeline == PipelineInit => PipelineInv
<1> SUFFICES ASSUME PipelineInit PROVE PipelineInv
  OBVIOUS
<1>1. ChecksInv
  BY ChecksInitInv DEF PipelineInit
<1>2. ContextInv
  BY InitCollection, InitKept DEF PipelineInit, ContextInv
<1>3. PrepInv
  BY PrepInitInv DEF PipelineInit
<1>4. PatchInv /\ Counted
  BY Init_Patch, Init_Counted DEF PipelineInit
<1>5. QED
  BY <1>1, <1>2, <1>3, <1>4 DEF PipelineInit, PipelineInv, PatchInv

\* A node that is not at work does not change.
LEMMA StaticRests == ChecksInv /\ UNCHANGED allVars => ChecksInv'
  BY ChecksNextInv

LEMMA ContextRests == ContextInv /\ UNCHANGED contextVars => ContextInv'
  BY ContextStep

LEMMA PrepRests == PrepInv /\ UNCHANGED prepVars => PrepInv' /\ answer' = answer
  BY PrepNextInv DEF prepVars

LEMMA PatchRests ==
    ASSUME UNCHANGED patchVars
    PROVE  /\ ChangesAreApproved => ChangesAreApproved'
           /\ PatchInv /\ Counted => (PatchInv /\ Counted)'
<1>1. ChangesAreApproved => ChangesAreApproved'
  BY DEF patchVars, ChangesAreApproved
<1>2. PatchInv /\ Counted => (PatchInv /\ Counted)'
  BY Step_Patch, Step_Counted
<1>3. QED
  BY <1>1, <1>2

\* When the nodes change.
LEMMA SelectedKeeps ==
    ASSUME ContextInv, Selected
    PROVE  ContextInv'
  BY ContextUnchanged DEF Selected

\* The prepared repository that validate finds may be another, which is what its own
\* invariant allows for.
LEMMA ApprovedKeepsChecks ==
    ASSUME ChecksInv, Approved
    PROVE  ChecksInv'
<1>1. /\ UNCHANGED << step, check, source, candidate, copy, seen, checks, result, runner, report >>
      /\ altered' \in BOOLEAN
  BY DEF Approved
<1>2. Inv'
  <2>1. UNCHANGED vars
    BY <1>1 DEF vars, runner
  <2>2. QED
    BY <2>1, NextInv DEF ChecksInv
<1>3. SInv'
  BY <1>1 DEF ChecksInv, copy, seen, runner, codes, SInv, Types, Order, Decided, CopyInv, StatusInv,
     ReportInv, RunnerInv, Unmade, Unchecked, Checked, Moved, Looking, CheckName, Removing, Stays
<1>4. QED
  BY <1>2, <1>3 DEF ChecksInv

\* The forgotten patch is the one that changes nothing.
LEMMA ApprovedKeepsApproval ==
    ASSUME Approved
    PROVE  ChangesAreApproved'
<1>1. plan' = {} /\ tree' = NoTree /\ patched' = NoTree
  BY DEF Approved, PatchGone
<1>2. Cardinality({}) = 0 /\ MaxFiles \in Nat /\ MaxChanged \in Nat
  BY FS_EmptySet, PatchAssumption
<1>3. \A p \in Path : /\ NoTree[p] = Missing /\ Len(Missing.lines) = 0
                      /\ Len(Decoded(NoTree[p]).lines) = 1
  BY DEF NoTree, Missing, Decoded
<1>4. \A p \in Path, a \in Assertions : Count(a, NoTree[p]) \in Nat /\ Count(a, NoTree[p]) >= Count(a, NoTree[p])
  <2> SUFFICES ASSUME NEW p \in Path, NEW a \in Assertions
               PROVE  Count(a, NoTree[p]) \in Nat
    OBVIOUS
  <2>1. { i \in DOMAIN NoTree[p].lines : NoTree[p].lines[i] = a } = {}
    BY DEF NoTree, Missing
  <2>2. QED
    BY <1>2, <2>1 DEF Count
<1>5. QED
  BY <1>1, <1>2, <1>3, <1>4 DEF ChangesAreApproved, Count

LEMMA PipelineStep == PipelineInv /\ [PipelineNext]_pipelineVars => PipelineInv'
<1> SUFFICES ASSUME PipelineInv, [PipelineNext]_pipelineVars PROVE PipelineInv'
  OBVIOUS
<1>1. /\ UNCHANGED allVars => ChecksInv'
      /\ UNCHANGED contextVars => ContextInv'
      /\ UNCHANGED prepVars => (PrepInv => PrepInv') /\ answer' = answer
      /\ UNCHANGED patchVars => ChangesAreApproved' /\ (PatchInv /\ Counted => (PatchInv /\ Counted)')
  <2>1. UNCHANGED prepVars => answer' = answer
    BY DEF prepVars
  <2>2. QED
    BY <2>1, StaticRests, ContextRests, PrepRests, PatchRests DEF PipelineInv
<1>2. CASE PreparePhase
  <2>1. PrepInv'
    BY <1>2, PrepNextInv DEF PreparePhase, PipelineInv
  <2>2. QED
    BY <1>1, <1>2, <2>1 DEF PreparePhase, PipelineInv
<1>3. CASE Prepared
  BY <1>1, <1>3 DEF Prepared, PrepGone, PipelineInv
<1>4. CASE ContextPhase
  <2>1. ContextInv'
    BY <1>4, ContextStep DEF ContextPhase, PipelineInv
  <2>2. QED
    BY <1>1, <1>4, <2>1 DEF ContextPhase, PipelineInv
<1>5. CASE Selected
  <2>1. ContextInv'
    BY <1>5, SelectedKeeps DEF PipelineInv
  <2>2. /\ phase = "context" /\ phase' = "patch"
        /\ UNCHANGED allVars /\ UNCHANGED prepVars /\ UNCHANGED patchVars
    BY <1>5 DEF Selected
  <2>3. QED
    BY <1>1, <2>1, <2>2 DEF PipelineInv
<1>6. CASE PatchPhase
  <2>1. (PatchInv /\ Counted)'
    BY <1>6, Step_Patch, Step_Counted DEF PatchPhase, PipelineInv
  <2>2. QED
    BY <1>1, <1>6, <2>1 DEF PatchPhase, PipelineInv, PatchInv
<1>7. CASE Approved
  <2>1. ChecksInv' /\ ChangesAreApproved'
    BY <1>7, ApprovedKeepsChecks, ApprovedKeepsApproval DEF PipelineInv
  <2>2. phase = "patch" /\ phase' = "static" /\ UNCHANGED prepVars /\ UNCHANGED contextVars
    BY <1>7 DEF Approved
  <2>3. QED
    BY <1>1, <2>1, <2>2 DEF PipelineInv
<1>8. CASE Static(ChecksNext)
  <2>1. ChecksNext /\ phase = "static" /\ UNCHANGED << prepVars, contextVars, patchVars, phase >>
    BY <1>8 DEF Static
  <2>2. ChecksInv'
    BY <2>1, ChecksNextInv DEF PipelineInv
  <2>3. QED
    BY <1>1, <2>1, <2>2 DEF PipelineInv
<1>9. CASE UNCHANGED pipelineVars
  BY <1>1, <1>9 DEF pipelineVars, PipelineInv
<1>10. QED
  BY <1>2, <1>3, <1>4, <1>5, <1>6, <1>7, <1>8, <1>9 DEF PipelineNext

\* The inductive invariant of the pipeline.
THEOREM PipelineInvariant == PipelineSpec => []PipelineInv
  BY InitPipeline, PipelineStep, PTL DEF PipelineSpec

\* In the graph, too, what select sees as prepared was a snapshot of the repository,
\* however often it changed.
THEOREM PipelinePreparesASnapshot == PipelineSpec => []PreparedIsASnapshot
  BY PipelineInvariant, PreparedIsPrepared, PTL

\* In the graph, too, the definitions that are collected are those that can be reached.
THEOREM PipelineCollectsReachable == PipelineSpec => []CollectsTheReachable
<1>1. PipelineInv => CollectsTheReachable
  BY CollectionIsReachable DEF PipelineInv
<1>2. QED
  BY <1>1, PipelineInvariant, PTL

\* What goes on to the static checks as fitting was within the plan and the limits, and
\* this is not undone by forgetting the patch.
THEOREM PipelineChangesApproved == PipelineSpec => []ChangesAreApproved
<1>1. PipelineInv => ChangesAreApproved
  BY DEF PipelineInv
<1>2. QED
  BY <1>1, PipelineInvariant, PTL

\* validate, behind the other nodes, answers with one of its results, passes only the
\* clean, leaves nothing but the candidate, and ends as interrupted when it is: whatever
\* the nodes before it did, and however the repository changed while they were at work.
THEOREM PipelineValidates ==
    PipelineSpec => [](AlwaysAnswers /\ PassesOnlyTheClean /\ OnlyTheCandidateStays /\ InterruptEndsValidate)
<1>1. PipelineInv => AlwaysAnswers /\ InterruptEndsValidate
  BY DEF PipelineInv, ChecksInv, SInv, Decided, RunnerInv, AlwaysAnswers, InterruptEndsValidate
<1>2. PipelineInv => PassesOnlyTheClean
  BY DEF PipelineInv, ChecksInv, SInv, StatusInv, ReportInv, PassesOnlyTheClean
<1>3. PipelineInv => OnlyTheCandidateStays
  BY DEF PipelineInv, ChecksInv, Inv, Control, NothingLeftBehind, SInv, CopyInv, Stays, OnlyTheCandidateStays
<1>4. QED
  BY <1>1, <1>2, <1>3, PipelineInvariant, PTL

\* In the graph, too, a verdict that rests on the checks is one on the fingerprinted
\* repository and on what ran to its end by itself.
THEOREM PipelineVerdicts == PipelineSpec => VerdictIsOnTheCopy
<1>1. ASSUME PipelineInv, [PipelineNext]_pipelineVars, Verdict, ~ UNCHANGED allVars
      PROVE  Rightly
  <2>1. result'.outcome # result.outcome
    BY <1>1 DEF Verdict, None
  <2>2. ~Approved
    BY <2>1 DEF Approved
  <2>3. ChecksNext
    BY <1>1, <2>2 DEF PipelineNext, PreparePhase, Prepared, ContextPhase, Selected, PatchPhase, Static, pipelineVars,
       allVars, service, runner, others, copy, seen, codes
  <2>4. QED
    BY <1>1, <2>3, VerdictRight DEF PipelineInv
<1>2. PipelineInv /\ [PipelineNext]_pipelineVars => [Verdict => Rightly]_allVars
  BY <1>1
<1>3. QED
  BY <1>2, PipelineInvariant, PTL DEF PipelineSpec, VerdictIsOnTheCopy, Verdict, Rightly

\* In the graph, too, prepare's directory is its own: entering the next node neither
\* hides a foreign one nor one that should have been removed.
THEOREM PipelineOwnsDirectory == PipelineSpec => OwnsItsDirectory
<1>1. ASSUME PipelineInv, [PipelineNext]_pipelineVars, ~ UNCHANGED prepVars
      PROVE  DirectoryKept
  <2>1. PreparePhase \/ Prepared
    BY <1>1 DEF PipelineNext, ContextPhase, Selected, PatchPhase, Approved, Static, pipelineVars
  <2>2. CASE PreparePhase
    BY <1>1, <2>2, PrepKeepsDirectory DEF PreparePhase, PipelineInv
  <2>3. CASE Prepared
    BY <1>1, <2>3 DEF Prepared, PrepGone, PipelineInv, PrepInv, DirectoryOwned, DirectoryKept
  <2>4. QED
    BY <2>1, <2>2, <2>3
<1>2. PipelineInv /\ [PipelineNext]_pipelineVars => [DirectoryKept]_prepVars
  BY <1>1
<1>3. QED
  BY <1>2, PipelineInvariant, PTL DEF PipelineSpec, OwnsItsDirectory, DirectoryKept

\* In the graph, too, a package is within its limit, and the best that is.
THEOREM PipelineKeepsTheBest == PipelineSpec => KeepsTheBest
<1>1. ASSUME PipelineInv, [PipelineNext]_pipelineVars, ~ UNCHANGED contextVars, selected' = "package"
      PROVE  BestPackage
  <2>1. ~Selected
    BY <1>1 DEF Selected
  <2>2. ContextPhase
    BY <1>1, <2>1 DEF PipelineNext, PreparePhase, Prepared, PatchPhase, Approved, Static, pipelineVars
  <2>3. QED
    BY <1>1, <2>2, StepIsBest DEF ContextPhase, PipelineInv
<1>2. PipelineInv /\ [PipelineNext]_pipelineVars => [selected' = "package" => BestPackage]_contextVars
  BY <1>1
<1>3. QED
  BY <1>2, PipelineInvariant, PTL DEF PipelineSpec, KeepsTheBest

\* In the graph, too, a file is taken off the patch only when it has become, in the copy,
\* what the patch says.
THEOREM PipelineAppliesAsWritten == PipelineSpec => AppliedAsWritten
<1>1. ASSUME PipelineInv, [PipelineNext]_pipelineVars, ~ UNCHANGED patchVars,
             diff # << >>, diff' = Tail(diff), writing' = "apply"
      PROVE  FileWritten
  <2>1. CASE PatchPhase
    BY <1>1, <2>1, TakenOffIsWritten DEF PatchPhase, PipelineInv
  <2>2. ~Approved
    <3>1. ASSUME Approved PROVE FALSE
      <4>1. diff' = diff /\ phase = "patch"
        BY <3>1 DEF Approved
      <4>2. diff \in Seq(PatchFile)
        BY <1>1, <4>1 DEF PipelineInv, PatchInv, PatchTyped
      <4>3. Len(diff) \in Nat /\ Len(diff) # 0 /\ Len(Tail(diff)) = Len(diff) - 1
        BY <1>1, <4>2, LenProperties, HeadTailProperties, EmptySeq
      <4>4. QED
        BY <1>1, <4>1, <4>3
    <3>2. QED
      BY <3>1
  <2>3. QED
    BY <1>1, <2>1, <2>2 DEF PipelineNext, PreparePhase, Prepared, ContextPhase, Selected, Static, pipelineVars
<1>2. PipelineInv /\ [PipelineNext]_pipelineVars =>
          [diff # << >> /\ diff' = Tail(diff) /\ writing' = "apply" => FileWritten]_patchVars
  BY <1>1
<1>3. QED
  BY <1>2, PipelineInvariant, PTL DEF PipelineSpec, AppliedAsWritten, FileWritten
==============================================================================
