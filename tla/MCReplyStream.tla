---------------------------- MODULE MCReplyStream ----------------------------
(* Model of ReplyStream: main and one persona, a pool of two phrases.        *)
EXTENDS ReplyStream
=============================================================================
