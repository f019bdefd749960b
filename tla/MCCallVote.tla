------------------------------ MODULE MCCallVote ------------------------------
(* CallVote with few clients and motions, for TLC.                         *)
EXTENDS CallVote, TLC

\* Slots are alike, and so are addresses.
Symmetry == Permutations(Player) \cup Permutations(Address)

===============================================================================
