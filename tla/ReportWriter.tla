---------------------------- MODULE ReportWriter ----------------------------
(***************************************************************************)
(* LocalBenchmarkReportWriter (app/evaluation/reporting.py): the pair       *)
(* report.json and report.md is published in a directory of its own, each   *)
(* file through a temporary one that is linked to its name and unlinked.    *)
(* The writer keeps a dictionary of the files it owns, which trails the     *)
(* disk by one step: a step that fails, or is interrupted, may have had its *)
(* effect before.  The cleanup removes files only if it owns all there are. *)
(***************************************************************************)
EXTENDS FiniteSets

VARIABLES
    writing,        \* the step of write, or how it ended
    directory,      \* the run's output directory exists
    files,          \* in it
    owned,          \* the keys of the writer's dictionary
    stop            \* a KeyboardInterrupt is on its way out

writerVars == << writing, directory, files, owned, stop >>

Pair == { "json", "md" }
Temporaries == { "json_tmp", "md_tmp" }

\* The step after each; the ends are "published", "gone" (removed again),
\* "uncertain" (not all of it), and "failed" before there was a cleanup.
Following == [ mkdir |-> "sync", sync |-> "write_json", write_json |-> "write_md",
               write_md |-> "link_json", link_json |-> "unlink_json",
               unlink_json |-> "link_md", link_md |-> "unlink_md", unlink_md |-> "confirm",
               confirm |-> "published" ]
WriteStep == DOMAIN Following
WriteEnd == { "published", "gone", "uncertain", "failed" }
Guarded == WriteStep \ { "mkdir", "sync" }      \* the steps inside the try statement

\* What a step leaves in the directory.
Made ==
    CASE writing = "write_json" -> files \cup { "json_tmp" }
      [] writing = "write_md" -> files \cup { "md_tmp" }
      [] writing = "link_json" -> files \cup { "json" }
      [] writing = "unlink_json" -> files \ { "json_tmp" }
      [] writing = "link_md" -> files \cup { "md" }
      [] writing = "unlink_md" -> files \ { "md_tmp" }
      [] OTHER -> files

\* A link is not yet ownership: _publish has to return first.
Advance ==
    /\ writing \in WriteStep
    /\ writing = "confirm" => files = owned
    /\ writing' = Following[writing]
    /\ directory' = TRUE
    /\ files' = Made
    /\ owned' = IF writing \in { "link_json", "link_md" } THEN owned ELSE files'
    /\ UNCHANGED stop

\* A step raises, with or without its effect.  Before the try statement only
\* mkdir can have one, and nothing removes the directory.
Break ==
    /\ writing \in WriteStep
    /\ stop' \in BOOLEAN
    /\ IF writing \in Guarded
       THEN writing' = "cleanup" /\ files' \in { files, Made } /\ UNCHANGED directory
       ELSE /\ writing' = "failed" /\ UNCHANGED files
            /\ directory' \in IF writing = "mkdir" THEN BOOLEAN ELSE { TRUE }
    /\ UNCHANGED owned

\* _cleanup: all or, when one removal fails or is interrupted, some of it.
Cleanup ==
    /\ writing = "cleanup"
    /\ IF files \subseteq owned
       THEN /\ files' \in SUBSET files
            /\ directory' \in IF files' = {} THEN BOOLEAN ELSE { TRUE }
       ELSE UNCHANGED << files, directory >>
    /\ writing' = IF directory' THEN "uncertain" ELSE "gone"
    /\ stop' \in { stop, TRUE }
    /\ UNCHANGED owned

\* discard, of a pair that was published.
Discard(interrupt) ==
    /\ writing = "published"
    /\ writing' = "cleanup"
    /\ stop' = interrupt
    /\ UNCHANGED << directory, files, owned >>

WriterInit ==
    /\ writing = "mkdir" /\ directory = FALSE /\ files = {} /\ owned = {} /\ stop = FALSE
=============================================================================
