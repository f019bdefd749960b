---------------------------- MODULE MCGameThread ----------------------------
(* GameThread with small bounds, for TLC.                                  *)
EXTENDS GameThread

=============================================================================
