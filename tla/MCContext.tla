------------------------------ MODULE MCContext ------------------------------
EXTENDS ContextSelection
MCNamesakes == { << 1, 1 >> }
MCLimits == { 3, 9, 13, 20, 40 }
=============================================================================
