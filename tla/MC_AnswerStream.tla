--------------------------- MODULE MC_AnswerStream ---------------------------
(* AnswerStream on small instances. *)
EXTENDS AnswerStream
=============================================================================
