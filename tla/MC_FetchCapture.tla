--------------------------- MODULE MC_FetchCapture ---------------------------
(* FetchCapture on small instances: Requests and Handlers are model values. *)
EXTENDS FetchCapture
=============================================================================
