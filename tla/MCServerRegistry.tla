--------------------------- MODULE MCServerRegistry ---------------------------
(* ServerRegistry with a few starts, changes and losses, for TLC.          *)
EXTENDS ServerRegistry
================================================================================
