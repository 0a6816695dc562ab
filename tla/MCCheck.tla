------------------------------ MODULE MCCheck ------------------------------
(* Two vectors, each with any meta; the bounds are in the cfgs.             *)
EXTENDS Check
=============================================================================
