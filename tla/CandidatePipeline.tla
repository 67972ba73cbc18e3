--------------------------- MODULE CandidatePipeline ---------------------------
(***************************************************************************)
(* What the graph (app/agent/graph.py) does for a candidate, one node after *)
(* the other: prepare_repository, select_relevant_context, the text of      *)
(* generate_patch with validate_patch_policy, and run_static_checks.  A     *)
(* node is entered when the one before it succeeded; its local variables    *)
(* are gone when it returns.                                                *)
(***************************************************************************)
EXTENDS StaticChecks, Preparation, ContextSelection, PatchText

VARIABLE phase      \* the node

pipelineVars == << allVars, prepVars, contextVars, patchVars, phase >>

\* What becomes of the patch does not change when its parts are forgotten.
PrepGone ==
    /\ repository' = NoFiles /\ workspace' = NoFiles /\ changes' = 0 /\ directory' = "none"
    /\ past' = {} /\ stage' = "done" /\ StartReading(Blank)
    /\ before' = Blank /\ copied' = Blank /\ fingerprint' = Blank
    /\ identified' = FALSE /\ answer' = "none"

PatchGone == plan' = {} /\ tree' = NoTree /\ patched' = NoTree

Prepared ==
    /\ phase = "prepare" /\ stage = "done" /\ answer = "prepared"
    /\ phase' = "context" /\ PrepGone
    /\ UNCHANGED << allVars, contextVars, patchVars >>

Selected ==
    /\ phase = "context" /\ selecting = "done" /\ selected = "package"
    /\ phase' = "patch" /\ selected' = "none"
    /\ UNCHANGED << allVars, prepVars, selecting, frames, files, refs, collecting, candidates,
                    included, omissions, limit, patchVars >>

\* The prepared repository may be another by now.
Approved ==
    /\ phase = "patch" /\ verdict \in { "fits", "misfit", "unexpected" }
    /\ phase' = "static" /\ PatchGone /\ altered' \in BOOLEAN
    /\ UNCHANGED << step, check, source, candidate, copy, seen, checks, result, runner, report,
                    prepVars, contextVars,
                    writing, length, diff, open, next, verdict >>

\* Whether the patch applies and what it changes was seen in the patch: but for
\* errors, the first check says the one, and the second the other if nobody has
\* touched the copy.
AsThePatchDoes ==
    /\ step = "apply" =>
          /\ checks'[PatchApply] = "PASSED" => verdict # "misfit"
          /\ checks'[PatchApply] = "FAILED" => verdict = "misfit"
    /\ step = "changed" /\ candidate = 0 =>
          /\ checks'[ChangedFiles] = "PASSED" => verdict = "fits"
          /\ checks'[ChangedFiles] = "FAILED" => verdict = "unexpected"

PreparePhase == phase = "prepare" /\ PrepNext /\ UNCHANGED << allVars, contextVars, patchVars, phase >>
ContextPhase == phase = "context" /\ ContextNext /\ UNCHANGED << allVars, prepVars, patchVars, phase >>
PatchPhase == phase = "patch" /\ PatchNext /\ UNCHANGED << allVars, prepVars, contextVars, phase >>
Static(Act) ==
    /\ phase = "static" /\ Act /\ AsThePatchDoes
    /\ UNCHANGED << prepVars, contextVars, patchVars, phase >>

\* validate goes on; nothing is asked of the nodes before it.
Validating == Static(Progress)

PipelineInit ==
    /\ phase = "prepare" /\ PrepInit /\ ContextInit /\ PatchInit
    /\ ChecksInit /\ ~altered

PipelineNext ==
    PreparePhase \/ Prepared \/ ContextPhase \/ Selected \/ PatchPhase \/ Approved \/ Static(ChecksNext)

PipelineSpec == PipelineInit /\ [][PipelineNext]_pipelineVars /\ WF_pipelineVars(Validating)
=============================================================================
