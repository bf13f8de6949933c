----------------------------- MODULE MC_CDPConn -----------------------------
(* CDPConn for TLC: calls are model values. *)
EXTENDS CDPConn

=============================================================================
