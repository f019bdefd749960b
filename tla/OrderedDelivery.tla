---------------------------- MODULE OrderedDelivery ----------------------------
(***************************************************************************)
(* What the reliable packets promise the game: the client applies what the *)
(* server wrote, each packet once and in the order of writing, up to where *)
(* the game ends for it.  Packets fall out of what it is owed only while   *)
(* the server's limit is lowered, and then all from one on that it has not *)
(* applied.                                                                *)
(***************************************************************************)
EXTENDS Integers, Sequences

VARIABLES written, \* how many packets the server's game has written
          owed,    \* those that the client gets, in order
          parsed,  \* the packets the client's game has applied, in order
          lowered  \* whether the limit is lowered, which anybody may do at any time

Init == written = 0 /\ owed = <<>> /\ parsed = <<>>

Write ==
  /\ written' = written + 1 /\ owed' = Append(owed, written)
  /\ UNCHANGED parsed

\* The client applies the packets that follow, several in a row when the last
\* to arrive was the one the others waited for.
Apply ==
  \E n \in (Len(parsed) + 1)..Len(owed) :
     /\ parsed' = SubSeq(owed, 1, n)
     /\ UNCHANGED <<written, owed>>

Drop ==
  /\ lowered
  /\ \E n \in Len(parsed)..Len(owed) : owed' = SubSeq(owed, 1, n)
  /\ UNCHANGED <<written, parsed>>

Next == Write \/ Apply \/ Drop

Spec == Init /\ [][Next]_<<written, owed, parsed>>
================================================================================
