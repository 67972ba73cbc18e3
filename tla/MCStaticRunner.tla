--------------------------- MODULE MCStaticRunner ---------------------------
(* The static runner with checks that succeed and checks that crash.        *)
EXTENDS StaticRunner
MCExitCodes == {0, 2}
=============================================================================
