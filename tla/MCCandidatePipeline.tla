------------------------- MODULE MCCandidatePipeline -------------------------
(* The constants are explained in the README, section 4.                     *)
EXTENDS CandidatePipeline

MCExitCodes == { 0, 2 }
MCNamesakes == { << 1, 1 >> }
MCLimits == { 3, 9, 13, 20, 40 }
MCPlanned == { {"p"}, {"q"}, {"p", "q"} }

\* One file in every condition, the protected one as it always is.
MCTrees ==
    LET states == { Missing, Text(<< >>, FALSE), Text(<< "a" >>, FALSE),
                    Text(<< "a", "b" >>, TRUE), Text(<< "a", "b" >>, FALSE),
                    Text(<< "e", "a", "a" >>, FALSE) }
    IN  { [ p |-> file, q |-> Text(<< "a" >>, TRUE) ] : file \in states }

\* One and two lines at both starts, insertions and deletions, a zero start that is
\* refused, and a second hunk for each first.
MCHeaders == { << 1, 1, 1, 1 >>, << 1, 1, 1, 0 >>, << 1, 1, 0, 0 >>, << 1, 0, 2, 1 >>,
               << 0, 0, 1, 1 >>, << 2, 1, 2, 1 >>, << 2, 1, 1, 0 >>, << 1, 2, 1, 1 >>,
               << 0, 1, 1, 1 >>, << 2, 1, 3, 1 >>, << 2, 0, 3, 1 >>,
               << 1, 3, 1, 1 >> }
=============================================================================
