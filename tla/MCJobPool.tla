------------------------------ MODULE MCJobPool ------------------------------
(* JobPool on a few workers, for TLC.                                      *)
EXTENDS JobPool

=============================================================================
