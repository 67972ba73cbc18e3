--------------------------- MODULE MCVerification ---------------------------
(* Passing and failing tests; one change of the candidate and one to hide it. *)
EXTENDS Verification
MCExitCodes == {0, 1}
=============================================================================
