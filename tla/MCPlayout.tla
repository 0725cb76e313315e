------------------------------- MODULE MCPlayout -------------------------------
EXTENDS Playout
=============================================================================
