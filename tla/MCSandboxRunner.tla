-------------------------- MODULE MCSandboxRunner --------------------------
(* The sandbox runner with passing and failing tests.                       *)
EXTENDS SandboxRunner
MCExitCodes == {0, 1}
=============================================================================
