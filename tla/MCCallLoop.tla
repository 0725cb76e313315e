------------------------------ MODULE MCCallLoop ------------------------------
EXTENDS CallLoop
=============================================================================
