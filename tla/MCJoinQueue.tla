----------------------------- MODULE MCJoinQueue -----------------------------
(* JoinQueue with few slots, for TLC.                                      *)
EXTENDS JoinQueue

===============================================================================
