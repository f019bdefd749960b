------------------------------ MODULE ForkJoin ------------------------------
(***************************************************************************)
(* What ParallelFor promises its caller, with no threads, locks or wakes:  *)
(* the call runs every index in [0, n) and returns when all have run.      *)
(* JobPool is shown to implement it; that an index runs only once is       *)
(* JobPool's AtMostOnce, as a second run changes nothing here.             *)
(***************************************************************************)
EXTENDS Naturals

CONSTANT MaxCount   \* the most items one job has

VARIABLES
  running,          \* is the caller inside ParallelFor?
  todo              \* the indices of its job that have not run yet

vars == <<running, todo>>

TypeOK ==
  /\ running \in BOOLEAN
  /\ todo \in SUBSET (0 .. MaxCount - 1)

Init ==
  /\ running = FALSE
  /\ todo = {}

Fork ==
  /\ ~running
  /\ running' = TRUE
  /\ \E n \in 0 .. MaxCount : todo' = 0 .. n - 1

Run ==
  /\ running
  /\ \E i \in todo : todo' = todo \ {i}
  /\ UNCHANGED running

Join ==
  /\ running
  /\ todo = {}
  /\ running' = FALSE
  /\ UNCHANGED todo

Next == Fork \/ Run \/ Join

Safety == Init /\ [][Next]_vars

Spec == Safety /\ WF_vars(Run \/ Join)

=============================================================================
