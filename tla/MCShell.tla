------------------------------ MODULE MCShell ------------------------------
(* Shell with three commands. *)
EXTENDS Shell
=============================================================================
