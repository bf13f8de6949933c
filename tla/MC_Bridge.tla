------------------------------ MODULE MC_Bridge ------------------------------
(* Bridge on small instances. *)
EXTENDS Bridge
=============================================================================
