----------------------------- MODULE MCConnection -----------------------------
(* Connection with few levels and losses, for TLC.                         *)
EXTENDS Connection

\* The map changes, and comes back.
Rotation == <<1, 2, 1>>

===============================================================================
