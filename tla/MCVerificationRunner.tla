------------------------ MODULE MCVerificationRunner ------------------------
(* The verification runner with passing and failing tests.                  *)
EXTENDS VerificationRunner
MCExitCodes == {0, 1}
=============================================================================
