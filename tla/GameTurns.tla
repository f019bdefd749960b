----------------------------- MODULE GameTurns -----------------------------
(***************************************************************************)
(* What the handoff promises the engine: the game (the level, its actors,  *)
(* its players) has one owner at a time.  The main thread gives it to a    *)
(* tic, may be lent it while the tic waits on a call, and takes it back    *)
(* when the tic is over, as it always does.  GameThread is shown to        *)
(* implement it.                                                           *)
(***************************************************************************)

VARIABLE turn   \* "main", "tic", "lent" to the main thread by the tic, "over"

Init == turn = "main"

Pass(from, to) == turn = from /\ turn' = to

Give == Pass("main", "tic")
Lend == Pass("tic", "lent")
Return == Pass("lent", "tic")
End == Pass("tic", "over")
Take == Pass("over", "main")

Next == Give \/ Lend \/ Return \/ End \/ Take

Safety == Init /\ [][Next]_turn

Spec == Safety /\ WF_turn(Return) /\ SF_turn(End) /\ WF_turn(Take)

=============================================================================
