--------------------------- MODULE ArtifactWriter ---------------------------
(***************************************************************************)
(* LocalArtifactWriter.write (app/artifacts.py): the artifact is written to *)
(* a temporary file that is renamed to the artifact's name, which must be   *)
(* free.  What a failure or an interrupt removes is what the writer knows   *)
(* of: it trails the disk by one step.                                      *)
(***************************************************************************)
EXTENDS Naturals

VARIABLES
    storing,        \* the step of write, or how it ended
    temporary,      \* the temporary file: "absent", "partial", "complete"
    artifact,       \* the outcome in the artifact on disk, or "None"
    published       \* the writer knows that the rename was done

storeVars == << storing, temporary, artifact, published >>

StoreStep == { "prepare", "open", "write", "rename", "verify" }
StoreEnd == { "stored", "failed", "interrupted" }

\* The step after each.
Succeeding == [ prepare |-> "open", open |-> "write", write |-> "rename", rename |-> "verify",
             verify |-> "stored" ]

\* What a step leaves on disk.
TemporaryAfter ==
    CASE storing = "open" -> "partial"
      [] storing = "write" -> "complete"
      [] storing = "rename" -> "absent"
      [] OTHER -> temporary

ArtifactAfter(payload) == IF storing = "rename" THEN payload ELSE artifact

\* The way of every step that succeeds.
Store(payload) ==
    /\ storing \in StoreStep /\ storing' = Succeeding[storing]
    /\ temporary' = TemporaryAfter /\ artifact' = ArtifactAfter(payload)
    /\ published' = (published \/ storing = "rename")

\* A step is interrupted, with or without its effect; or fails, which a rename
\* does without.  The directory's identity is compared in some of them, and an
\* error of that kind takes the way of an interrupt.
StoreInterrupted(payload) ==
    /\ storing \in StoreStep
    /\ storing' = IF storing = "prepare" THEN "interrupted" ELSE "undo_interrupted"
    /\ \/ UNCHANGED << temporary, artifact >>
       \/ temporary' = TemporaryAfter /\ artifact' = ArtifactAfter(payload)
    /\ UNCHANGED published

StoreFails ==
    /\ storing \in StoreStep
    /\ storing' \in (IF storing = "prepare" THEN { "failed" }
                     ELSE IF storing = "write" THEN { "undo" } ELSE { "undo", "undo_quietly" })
    /\ temporary' \in (IF storing = "open" THEN { "absent", "partial" } ELSE { temporary })
    /\ UNCHANGED << artifact, published >>

\* _cleanup_failed_publication: each of the two removals may fail or, when the
\* cleanup is interrupted, not be tried.
Undone ==
    /\ temporary' \in { "absent", temporary }
    /\ artifact' \in (IF published THEN { "None", artifact } ELSE { artifact })
    /\ UNCHANGED published

\* An interrupt of the cleanup that follows an interrupt, or an error of the
\* writer's own, is suppressed; the first error is raised again.
Undo ==
    /\ storing \in { "undo", "undo_quietly", "undo_interrupted" } /\ Undone
    /\ storing' = IF storing = "undo_interrupted" THEN "interrupted" ELSE "failed"

UndoInterrupted == storing = "undo" /\ Undone /\ storing' = "interrupted"

StoreInit ==
    /\ storing = "prepare" /\ temporary = "absent" /\ artifact = "None" /\ published = FALSE
=============================================================================
