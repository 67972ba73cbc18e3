------------------------------ MODULE PatchText ------------------------------
(***************************************************************************)
(* The text of a patch, from the model's answer to the patched files:       *)
(* parse_unified_diff (app/agent/patches.py) line by line, the comparison   *)
(* with the plan (app/agent/planning.py), the policy (app/agent/policy.py), *)
(* and the hunks applied to the files (app/agent/static_checks.py).         *)
(*                                                                         *)
(* A line of a file is a model value; of a path it matters whether the      *)
(* policy protects it, of a line whether the policy refuses its removal.    *)
(***************************************************************************)
EXTENDS Naturals, SequencesExt, FiniteSets

CONSTANTS
    Path,           \* the files that a patch can name
    Protected,      \* those of them that no patch may change
    Planned,        \* bound: the sets of files that the plan can have
    Trees,          \* bound: what the files can be before the patch
    Line,           \* the lines that a patch can have
    Assertions,     \* those that are assertions
    Empty,          \* the line without characters
    Headers,        \* bound: the four numbers that the header of a hunk can have
    MaxText,        \* bound: the lines of a patch
    MaxChanged,     \* the limit of the changed lines (200 in the code)
    MaxFiles        \* the limit of the changed files (three in the code)

Missing == [ lines |-> << >>, newline |-> FALSE, there |-> FALSE ]
Text(lines, newline) == [ lines |-> lines, newline |-> newline, there |-> TRUE ]

ASSUME PatchAssumption ==
    /\ Protected \subseteq Path /\ Assertions \subseteq Line /\ Empty \in Line \ Assertions
    /\ Planned \subseteq SUBSET Path /\ Headers \subseteq Nat \X Nat \X Nat \X Nat
    /\ { MaxText, MaxChanged, MaxFiles } \subseteq Nat
    /\ Trees \subseteq [ Path -> [ lines : Seq(Line), newline : BOOLEAN, there : BOOLEAN ] ]
    /\ \A t \in Trees, p \in Path : t[p] = Missing \/ t[p].there

VARIABLES
    writing,        \* "text", "policy", "apply", "done"
    plan,           \* the files that the plan wants changed
    tree,           \* the files of the prepared repository
    length,         \* the lines of the patch so far
    diff,           \* the files of the patch so far, with their hunks
    open,           \* the lines that the hunk still lacks, old and new, or NoHunk
    next,           \* the numbers of the next old and new line
    patched,        \* the files in the copy
    verdict         \* what became of the patch

patchVars == << writing, plan, tree, length, diff, open, next, patched, verdict >>

NoHunk == << >>
Outside == open \in { NoHunk, << 0, 0 >> }

-----------------------------------------------------------------------------
(* Parsed files and hunks.                                                  *)

\* _FileBuilder: old and new say on which sides the file exists; the ends are the
\* numbers of the lines that a no-newline marker follows, or 0.
FileOf(path, old, new) ==
    [ path |-> path, old |-> old, new |-> new, hunks |-> << >>, old_end |-> 0, new_end |-> 0 ]

HunkOf(os, oc, ns, nc) ==
    [ old_start |-> os, old_count |-> oc, new_start |-> ns, new_count |-> nc, lines |-> << >> ]

Current == Last(diff)
WithCurrent(file) == [diff EXCEPT ![Len(diff)] = file]
LinesOf(file) == FoldLeft(LAMBDA lines, hunk : lines \o hunk.lines, << >>, file.hunks)
Named == { diff[i].path : i \in DOMAIN diff }

OldKind == { "context", "removed" }
NewKind == { "context", "added" }
Side(hunk, kinds) ==
    FoldLeft(LAMBDA side, l : IF l.kind \in kinds THEN Append(side, l.content) ELSE side,
             << >>, hunk.lines)

\* ParsedUnifiedDiff.changed_line_count.
ChangesOf(lines) == Cardinality({ i \in DOMAIN lines : lines[i].kind # "context" })
ChangedLines == FoldLeft(LAMBDA n, file : n + ChangesOf(LinesOf(file)), 0, diff)

End(how) ==
    /\ writing' = "done" /\ verdict' = how
    /\ diff' = << >> /\ open' = NoHunk /\ next' = << 0, 0 >> /\ length' = 0

Refuse == End("invalid") /\ UNCHANGED << plan, tree, patched >>

Continue ==
    /\ length' = length + 1
    /\ UNCHANGED << writing, plan, tree, patched, verdict >>

-----------------------------------------------------------------------------
(* parse_unified_diff, line by line.                                        *)

Writing == writing = "text" /\ length < MaxText

\* _changed_path_from_headers: a file is changed, removed or added.
Sides == { << TRUE, TRUE >>, << TRUE, FALSE >>, << FALSE, TRUE >> }

FileHeader ==
    /\ Writing /\ Outside
    /\ \E path \in Path, sides \in Sides :
           IF path \in Named \/ (diff # << >> /\ Current.hunks = << >>) THEN Refuse
           ELSE /\ diff' = Append(diff, FileOf(path, sides[1], sides[2]))
                /\ open' = NoHunk /\ UNCHANGED next /\ Continue

HunkHeader ==
    /\ Writing /\ Outside
    /\ \E h \in Headers :
           IF diff = << >> \/ (h[2] > 0 /\ h[1] = 0) \/ (h[4] > 0 /\ h[3] = 0) THEN Refuse
           ELSE /\ diff' = WithCurrent([Current EXCEPT !.hunks = Append(@, HunkOf(h[1], h[2], h[3], h[4]))])
                /\ open' = << h[2], h[4] >> /\ next' = << h[1], h[3] >> /\ Continue

HunkLine ==
    /\ Writing /\ ~Outside
    /\ \E kind \in { "context", "removed", "added" }, content \in Line :
           LET old == IF kind \in OldKind THEN 1 ELSE 0
               new == IF kind \in NewKind THEN 1 ELSE 0
               line == [ kind |-> kind, content |-> content, old |-> old * next[1], new |-> new * next[2] ]
               h == Len(Current.hunks)
           IN  IF old > open[1] \/ new > open[2] THEN Refuse
               ELSE /\ diff' = WithCurrent([Current EXCEPT !.hunks[h].lines = Append(@, line)])
                    /\ open' = << open[1] - old, open[2] - new >>
                    /\ next' = << next[1] + old, next[2] + new >> /\ Continue

\* _record_no_newline_marker, for the last line of the file's hunks so far.
NoNewlineMarker ==
    /\ Writing /\ open # NoHunk
    /\ LET last == Last(LinesOf(Current))
       IN  IF LinesOf(Current) = << >> \/ (last.old # 0 /\ Current.old_end # 0)
                                       \/ (last.new # 0 /\ Current.new_end # 0)
           THEN Refuse
           ELSE /\ diff' = WithCurrent([Current EXCEPT !.old_end = IF last.old # 0 THEN last.old ELSE @,
                                                       !.new_end = IF last.new # 0 THEN last.new ELSE @])
                /\ open' = IF Outside THEN NoHunk ELSE open
                /\ UNCHANGED next /\ Continue

\* A line that means nothing, between the hunks.
IgnoredLine ==
    /\ Writing /\ open = << 0, 0 >>
    /\ open' = NoHunk /\ UNCHANGED << diff, next >> /\ Continue

\* A line that nothing allows where it stands.
Malformed == Writing /\ Refuse

\* The text may end here.
Complete == Outside /\ diff # << >> /\ Current.hunks # << >>

\* The end of the text, and _validated_patch: the paths of plan and patch agree.
\* The plan has been there all the time; here it is looked at.
TextEnds ==
    /\ writing = "text" /\ UNCHANGED << tree, patched >>
    /\ plan' \in Planned
    /\ IF Complete /\ plan' = Named
       THEN writing' = "policy" /\ UNCHANGED << length, diff, open, next, verdict >>
       ELSE End("invalid")

-----------------------------------------------------------------------------
(* validate_patch_policy.                                                   *)

\* Mutant of Violations: what the patch removes is not read.
ViolationsOfAdditions ==
    Named \cap Protected # {} \/ Cardinality(Named) > MaxFiles \/ ChangedLines > MaxChanged

\* The rules about paths, sizes and removed lines; the other rules about content
\* may be broken by any patch.
Violations ==
    \/ Named \cap Protected # {}
    \/ Cardinality(Named) > MaxFiles
    \/ ChangedLines > MaxChanged
    \/ \E i \in DOMAIN diff : \E l \in ToSet(LinesOf(diff[i])) :
           l.kind = "removed" /\ l.content \in Assertions

\* The files of the prepared repository are looked at after this.
Policy ==
    /\ writing = "policy" /\ UNCHANGED plan
    /\ \/ End("rejected") /\ UNCHANGED << tree, patched >>
       \/ /\ ~Violations /\ writing' = "apply"
          /\ tree' \in Trees /\ patched' = tree'
          /\ UNCHANGED << length, diff, open, next, verdict >>

-----------------------------------------------------------------------------
(* _apply_file_patch.                                                       *)

\* An empty file is read as one empty line without a newline, and what ends with an
\* empty line without a newline is written as what ends with a newline.
Decoded(file) == IF file.lines = << >> THEN [file EXCEPT !.lines = << Empty >>] ELSE file

Encoded(lines, newline) ==
    IF lines = << >> \/ (lines = << Empty >> /\ ~newline) THEN Text(<< >>, FALSE)
    ELSE IF ~newline /\ Last(lines) = Empty THEN Text(Front(lines), TRUE)
    ELSE Text(lines, newline)

\* The index before the hunk's first line, on one side.
Index(start, count) == IF count > 0 THEN start - 1 ELSE start

\* Mutant of ApplyHunk: hunks may overlap.
ApplyHunkAnywhere(source, hunk, acc) ==
    LET from == Index(hunk.old_start, hunk.old_count)
        to == from + Len(Side(hunk, OldKind))
        fits == acc.fits /\ to <= Len(source) /\ SubSeq(source, from + 1, to) = Side(hunk, OldKind)
    IN  IF ~fits THEN [acc EXCEPT !.fits = FALSE]
        ELSE [ fits |-> TRUE, cursor |-> to,
               output |-> acc.output \o SubSeq(source, acc.cursor + 1, from) \o Side(hunk, NewKind) ]

\* One turn of the loop over the hunks.
ApplyHunk(source, hunk, acc) ==
    LET from == Index(hunk.old_start, hunk.old_count)
        to == from + Len(Side(hunk, OldKind))
        fits == /\ acc.fits /\ acc.cursor <= from /\ to <= Len(source)
                /\ Len(acc.output) + (from - acc.cursor) = Index(hunk.new_start, hunk.new_count)
                /\ SubSeq(source, from + 1, to) = Side(hunk, OldKind)
    IN  IF ~fits THEN [acc EXCEPT !.fits = FALSE]
        ELSE [ fits |-> TRUE, cursor |-> to,
               output |-> acc.output \o SubSeq(source, acc.cursor + 1, from) \o Side(hunk, NewKind) ]

Hunks(file, source) ==
    LET start == [ fits |-> TRUE, output |-> << >>, cursor |-> 0 ]
        end == FoldLeft(LAMBDA acc, hunk : ApplyHunk(source, hunk, acc), start, file.hunks)
    IN  [ fits |-> end.fits, output |-> end.output \o SubSeq(source, end.cursor + 1, Len(source)) ]

\* What the markers say of the end of an existing file.
EndFits(file, source) ==
    LET last == Len(source.lines)
        touched == \E l \in ToSet(LinesOf(file)) : l.old = last
    IN  /\ file.old_end # 0 => ~source.newline /\ file.old_end = last
        /\ touched /\ ~source.newline => file.old_end # 0
        /\ file.new_end # 0 => ~source.newline

Misfit == [ fits |-> FALSE, file |-> Missing ]

ApplyFile(file, before) ==
    LET source == IF file.old THEN Decoded(before) ELSE Text(<< >>, file.new_end = 0)
        hunks == Hunks(file, source.lines)
        after == Encoded(hunks.output, source.newline /\ file.new_end = 0)
        fits == /\ before.there = file.old
                /\ file.old => EndFits(file, source)
                /\ hunks.fits
                /\ IF file.new_end # 0 THEN file.new_end = Len(hunks.output)
                   ELSE file.old_end # 0 => ~file.new
                /\ ~file.new => after.lines = << >>
    IN  IF ~fits THEN Misfit
        ELSE [ fits |-> TRUE, file |-> IF file.new THEN after ELSE Missing ]

\* One turn of _apply_patch.
ApplyNext ==
    /\ writing = "apply" /\ diff # << >>
    /\ LET file == Head(diff)
           applied == ApplyFile(file, tree[file.path])
       IN  IF applied.fits
           THEN /\ patched' = [patched EXCEPT ![file.path] = applied.file] /\ diff' = Tail(diff)
                /\ UNCHANGED << writing, plan, tree, length, open, next, verdict >>
           ELSE End("misfit") /\ UNCHANGED << plan, tree, patched >>

\* _changed_python_paths: what differs is what the patch names.
Compare ==
    /\ writing = "apply" /\ diff = << >>
    /\ End(IF { p \in Path : patched[p] # tree[p] } = plan THEN "fits" ELSE "unexpected")
    /\ UNCHANGED << plan, tree, patched >>

NoTree == [ p \in Path |-> Missing ]

PatchInit ==
    /\ writing = "text" /\ length = 0 /\ diff = << >> /\ open = NoHunk /\ next = << 0, 0 >>
    /\ plan = {} /\ tree = NoTree /\ patched = NoTree /\ verdict = "none"

Parse == FileHeader \/ HunkHeader \/ HunkLine \/ NoNewlineMarker \/ IgnoredLine \/ Malformed
PatchNext == Parse \/ TextEnds \/ Policy \/ ApplyNext \/ Compare

PatchSpec == PatchInit /\ [][PatchNext]_patchVars

-----------------------------------------------------------------------------
(* Properties.                                                              *)

\* The same edit from the last hunk to the first: at its place, the old side of each
\* gives way to the new one.
Edited(file, lines) ==
    LET Replace(h, ls) ==
            LET from == Index(h.old_start, h.old_count)
            IN  SubSeq(ls, 1, from) \o Side(h, NewKind) \o SubSeq(ls, from + h.old_count + 1, Len(ls))
    IN  FoldRight(Replace, file.hunks, lines)

\* A hunk's side stands in these lines where its header says.
Stands(side, start, count, lines) ==
    /\ Len(side) = count /\ Index(start, count) + count <= Len(lines)
    /\ SubSeq(lines, Index(start, count) + 1, Index(start, count) + count) = side

\* Each hunk begins behind the one before it.
Apart(hunks) ==
    \A i, j \in DOMAIN hunks : i < j =>
        Index(hunks[i].old_start, hunks[i].old_count) + hunks[i].old_count
            <= Index(hunks[j].old_start, hunks[j].old_count)

\* The hunks of a patched file are apart; it is the old file with every hunk's old
\* side, found where its header says, replaced by its new side, which stands where
\* the header says, too, and nothing else changed: neither lines nor, without a
\* marker, the final newline.
AppliedAsWritten ==
    [][diff # << >> /\ diff' = Tail(diff) /\ writing' = "apply" =>
        LET file == Head(diff)
            before == IF file.old THEN Decoded(tree[file.path]).lines ELSE << >>
            after == Edited(file, before)
        IN  /\ Apart(file.hunks)
            /\ \A i \in DOMAIN file.hunks :
                  LET h == file.hunks[i]
                  IN  /\ Stands(Side(h, OldKind), h.old_start, h.old_count, before)
                      /\ Stands(Side(h, NewKind), h.new_start, h.new_count, after)
            /\ \A p \in Path \ { file.path } : patched'[p] = patched[p]
            /\ patched'[file.path] =
                  IF ~file.new THEN Missing
                  ELSE Encoded(after, file.new_end = 0 /\ (file.old => tree[file.path].newline))]_patchVars

\* How often each line is in a file.
Count(line, file) == Cardinality({ i \in DOMAIN file.lines : file.lines[i] = line })

\* What becomes a candidate differs from the repository in the planned files, none of
\* them protected, by no more lines than the limit, and has every assertion that was
\* there: whatever way the hunks are cut.  An empty line without a newline, which may
\* come into being at the end, is written as none.
ChangesAreApproved ==
    writing = "done" /\ verdict = "fits" =>
        /\ { p \in Path : patched[p] # tree[p] } = plan
        /\ plan \cap Protected = {} /\ Cardinality(plan) <= MaxFiles
        /\ \A p \in Path, a \in Assertions : Count(a, patched[p]) >= Count(a, tree[p])
        /\ \A p \in Path : Len(patched[p].lines) <= Len(Decoded(tree[p]).lines) + MaxChanged
                          /\ Len(tree[p].lines) <= Len(patched[p].lines) + MaxChanged + 1
=============================================================================
