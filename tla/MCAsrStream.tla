---------------------------- MODULE MCAsrStream ----------------------------
EXTENDS AsrStream
=============================================================================
