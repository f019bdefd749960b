----------------------------- MODULE ThreadProofs -----------------------------
(***************************************************************************)
(* The safety of the two components in which threads meet.  The job pool,  *)
(* for any number of workers and items and any wrap of the generation:     *)
(* PoolInv is inductive, the safety properties follow from it, and with it *)
(* every step of the pool is a step of ForkJoin or none.  The handoff, for *)
(* any number of tics, asks and effects, whatever throws and whenever a    *)
(* thread wakes: HandoffInv is inductive, the safety properties follow     *)
(* from it, and the game passes from owner to owner as GameTurns says.     *)
(***************************************************************************)
EXTENDS JobPool, GameThread, Recursion, FiniteSetTheorems, TLAPS

-----------------------------------------------------------------------------
(* The job pool: counting the threads in a set of places.                  *)

CountIn(P, f) == Cardinality({v \in Workers : f[v] \in P})

\* When one thread moves, the number of workers in P changes by that thread.
LEMMA CountMove ==
  ASSUME NEW P, NEW f, NEW g, NEW w \in Workers,
         \A v \in Workers \ {w} : g[v] = f[v]
  PROVE  /\ CountIn(P, f) \in Nat /\ CountIn(P, g) \in Nat
         /\ (f[w] \in P <=> g[w] \in P) => CountIn(P, g) = CountIn(P, f)
         /\ f[w] \notin P /\ g[w] \in P => CountIn(P, g) = CountIn(P, f) + 1
         /\ f[w] \in P /\ g[w] \notin P => CountIn(P, g) = CountIn(P, f) - 1
<1> USE DEF CountIn
<1> DEFINE S == {v \in Workers : f[v] \in P}
           T == {v \in Workers : g[v] \in P}
<1>1. IsFiniteSet(S) /\ IsFiniteSet(T)
  BY FS_Subset, PoolAssumption
<1>2. Cardinality(S) \in Nat /\ Cardinality(T) \in Nat
  BY <1>1, FS_CardinalityType
<1>3. CASE f[w] \in P <=> g[w] \in P
  <2>1. S = T BY <1>3
  <2> QED BY <1>2, <1>3, <2>1
<1>4. CASE f[w] \notin P /\ g[w] \in P
  <2>1. T = S \cup {w} /\ w \notin S BY <1>4
  <2> QED BY <1>1, <1>2, <1>4, <2>1, FS_AddElement
<1>5. CASE f[w] \in P /\ g[w] \notin P
  <2>1. T = S \ {w} /\ w \in S BY <1>5
  <2>2. Cardinality(T) = Cardinality(S) - 1
    BY <1>1, <2>1, FS_RemoveElement
  <2> QED BY <1>2, <1>5, <2>2
<1> QED BY <1>3, <1>4, <1>5

\* When only the caller moves, no worker does.
LEMMA CountStays ==
  ASSUME NEW P, NEW f, NEW g, \A v \in Workers : g[v] \in P <=> f[v] \in P
  PROVE  CountIn(P, g) = CountIn(P, f)
<1>1. {v \in Workers : g[v] \in P} = {v \in Workers : f[v] \in P}
  OBVIOUS
<1> QED BY <1>1 DEF CountIn

\* Nobody is counted in P exactly when nobody is in P.
LEMMA CountNone ==
  ASSUME NEW P, NEW f
  PROVE  /\ CountIn(P, f) \in Nat
         /\ (CountIn(P, f) = 0) <=> \A v \in Workers : f[v] \notin P
<1>1. IsFiniteSet({v \in Workers : f[v] \in P})
  BY FS_Subset, PoolAssumption
<1> QED BY <1>1, FS_EmptySet, FS_CardinalityType DEF CountIn

LEMMA Tallies ==
  /\ TalliesExact <=> active = CountIn(ActivePcs, pc) /\ sleeping = CountIn(SleepPcs, pc)
  /\ TalliesExact' <=> active' = CountIn(ActivePcs, pc') /\ sleeping' = CountIn(SleepPcs, pc')
BY DEF TalliesExact, CountIn

-----------------------------------------------------------------------------
(* One step keeps each part of the invariant.                              *)

\* The actions that only move a worker between its spin and its sleep.
Idling(w) ==
  \/ SpinSees(w) \/ SpinTimesOut(w) \/ SleepLocks(w) \/ SleepFindsNothing(w) \/ SleepWaits(w)
  \/ SleepRelocks(w) \/ SleepEnds(w) \/ ReadGeneration(w) \/ CheckStop(w)

Joining(w) == JoinJob(w) \/ CheckOpen(w) \/ CheckGeneration(w) \/ LeaveJob(w)

Calling ==
  \/ Calls \/ RunInline \/ ReturnInline \/ PublishJob \/ ReturnFromJob

Waking ==
  \/ BumpGeneration("bump", "readsleeping") \/ ReadSleeping \/ PassLock("passlock", "notify")
  \/ NotifyAll("notify", "take")

Closing == OpenJob \/ AwaitDone \/ CloseJob \/ AwaitQuiet

LEMMA PoolNextCases ==
  PoolNext <=> \/ Calling \/ Closing \/ Waking \/ WakePool \/ Resize
           \/ \E l \in Lanes : RunItems(l)
           \/ \E w \in Workers : Idling(w) \/ Joining(w) \/ RecordStart(w) \/ SelfWake(w)
BY DEF PoolNext, Calls, ParallelFor, WorkerMain, Calling, Closing, Waking, Idling, Joining, Lanes

\* The tallies
LEMMA TalliesStep ==
  ASSUME PoolInv, PoolNext
  PROVE  TalliesExact'
<1> USE PoolAssumption DEF Lanes, GoTo, cond, job, signals, tallies, locals, history
<1>0. TypeOK /\ TalliesExact BY DEF PoolInv
<1>1. pc \in [Lanes -> WorkerPcs \cup CallerPcs] /\ active \in Nat /\ sleeping \in Nat
  BY <1>0 DEF TypeOK, PcsOK
<1>2. ASSUME NEW w \in Workers, Idling(w) \/ Joining(w) \/ RunItems(w) \/ RecordStart(w)
      PROVE  TalliesExact'
  <2>1. \A v \in Workers \ {w} : pc'[v] = pc[v]
    BY <1>2, <1>1 DEF Idling, Joining, RunItems, TakeItem, RunItem, CountDone, RecordStart,
      SpinSees, SpinTimesOut, SleepLocks, SleepFindsNothing, SleepWaits, SleepRelocks, SleepEnds,
      ReadGeneration, CheckStop, JoinJob, CheckOpen, CheckGeneration, LeaveJob
  <2>2. \/ /\ active' = active + 1 /\ pc[w] \notin ActivePcs /\ pc'[w] \in ActivePcs
        \/ /\ active' = active - 1 /\ pc[w] \in ActivePcs /\ pc'[w] \notin ActivePcs
        \/ /\ active' = active /\ (pc[w] \in ActivePcs <=> pc'[w] \in ActivePcs)
    <3>1. CASE Idling(w)
      BY <1>1, <3>1 DEF ActivePcs, InJobPcs, Idling, SpinSees, SpinTimesOut, SleepLocks,
        SleepFindsNothing, SleepWaits, SleepRelocks, SleepEnds, ReadGeneration, CheckStop
    <3>2. CASE RunItems(w) \/ RecordStart(w)
      BY <1>1, <3>2 DEF ActivePcs, InJobPcs, RunItems, TakeItem, RunItem, CountDone, RecordStart
    <3>3. CASE Joining(w)
      BY <1>1, <3>3 DEF ActivePcs, InJobPcs, Joining, JoinJob, CheckOpen, CheckGeneration, LeaveJob
    <3> QED BY <1>2, <3>1, <3>2, <3>3
  <2>3. \/ /\ sleeping' = sleeping + 1 /\ pc[w] \notin SleepPcs /\ pc'[w] \in SleepPcs
        \/ /\ sleeping' = sleeping - 1 /\ pc[w] \in SleepPcs /\ pc'[w] \notin SleepPcs
        \/ /\ sleeping' = sleeping /\ (pc[w] \in SleepPcs <=> pc'[w] \in SleepPcs)
    <3>1. CASE Idling(w)
      <4>1. CASE SleepLocks(w) \/ SleepEnds(w)
        BY <1>1, <4>1 DEF SleepPcs, SleepLocks, SleepEnds
      <4>2. CASE SpinSees(w) \/ SpinTimesOut(w) \/ ReadGeneration(w) \/ CheckStop(w)
        BY <1>1, <4>2 DEF SleepPcs, SpinSees, SpinTimesOut, ReadGeneration, CheckStop
      <4>3. CASE SleepFindsNothing(w) \/ SleepWaits(w) \/ SleepRelocks(w)
        BY <1>1, <4>3 DEF SleepPcs, SleepFindsNothing, SleepWaits, SleepRelocks
      <4> QED BY <3>1, <4>1, <4>2, <4>3 DEF Idling
    <3>2. CASE RunItems(w) \/ RecordStart(w)
      BY <1>1, <3>2 DEF SleepPcs, RunItems, TakeItem, RunItem, CountDone, RecordStart
    <3>3. CASE Joining(w)
      BY <1>1, <3>3 DEF SleepPcs, Joining, JoinJob, CheckOpen, CheckGeneration, LeaveJob
    <3> QED BY <1>2, <3>1, <3>2, <3>3
  <2>4. \A P : /\ CountIn(P, pc) \in Nat /\ CountIn(P, pc') \in Nat
               /\ (pc[w] \in P <=> pc'[w] \in P) => CountIn(P, pc') = CountIn(P, pc)
               /\ pc[w] \notin P /\ pc'[w] \in P => CountIn(P, pc') = CountIn(P, pc) + 1
               /\ pc[w] \in P /\ pc'[w] \notin P => CountIn(P, pc') = CountIn(P, pc) - 1
    BY <2>1, CountMove
  <2>5. active' = CountIn(ActivePcs, pc')
    BY <1>0, <2>2, <2>4, Tallies
  <2>6. sleeping' = CountIn(SleepPcs, pc')
    BY <1>0, <2>3, <2>4, Tallies
  <2> QED BY <2>5, <2>6, Tallies
<1>3. ASSUME Calling \/ Closing \/ Waking \/ WakePool \/ RunItems(Caller) \/ StopSets \/ NotifyAll("stopnotify", "stopjoin")
              \/ (\E w \in Workers : SelfWake(w))
      PROVE  TalliesExact'
  <2>1. UNCHANGED tallies /\ \A v \in Workers : pc'[v] = pc[v]
    BY <1>0, <1>3 DEF TypeOK, PcsOK, Calling, Closing, Waking, WakePool, RunItems, TakeItem, RunItem, CountDone, StopSets,
       NotifyAll, SelfWake, Calls, CallParallelFor, CallWake, CallResize, RunInline, ReturnInline, PublishJob,
       OpenJob, ReturnFromJob, BumpGeneration, ReadSleeping, PassLock, AwaitDone, CloseJob, AwaitQuiet
  <2> QED BY <1>0, <2>1, CountStays, Tallies
<1>4. ASSUME StopJoins PROVE TalliesExact'
  <2>1. \A v \in Workers : pc[v] \notin ActivePcs \cup SleepPcs /\ pc'[v] \notin ActivePcs \cup SleepPcs
    BY <1>0, <1>4 DEF TypeOK, PcsOK, StopJoins, Threads, ActivePcs, SleepPcs, InJobPcs
  <2>2. UNCHANGED tallies BY <1>4 DEF StopJoins
  <2> QED BY <1>0, <2>1, <2>2, CountStays, Tallies
<1> QED BY <1>2, <1>3, <1>4, PoolNextCases DEF Resize
\* Places
LEMMA PcsStep ==
  ASSUME TypeOK, PoolNext
  PROVE  PcsOK'
<1> USE PoolAssumption DEF TypeOK, PcsOK, Lanes, GoTo, CallerPcs, WorkerPcs, JobPcs, OpenPcs, StopPcs, ActivePcs,
      SleepPcs, InJobPcs
<1>1. CASE Calling \/ Closing
  BY <1>1 DEF Calling, Closing, Calls, CallParallelFor, CallWake, CallResize, ReturnInline, ReturnFromJob, RunInline,
    PublishJob, OpenJob, AwaitDone, CloseJob, AwaitQuiet
<1>2. CASE Waking \/ WakePool
  BY <1>2 DEF Waking, WakePool, BumpGeneration, PassLock, NotifyAll, ReadSleeping
<1>3. CASE Resize
  BY <1>3 DEF Resize, StopSets, NotifyAll, StopJoins
<1>4. ASSUME NEW l \in Lanes, RunItems(l) PROVE PcsOK'
  BY <1>4 DEF RunItems, TakeItem, RunItem, CountDone
<1>5. ASSUME NEW w \in Workers, Idling(w) PROVE PcsOK'
  BY <1>5 DEF Idling, SpinSees, SpinTimesOut, SleepLocks, SleepFindsNothing, SleepWaits, SleepRelocks,
    SleepEnds, ReadGeneration, CheckStop
<1>6. ASSUME NEW w \in Workers, Joining(w) \/ RecordStart(w) \/ SelfWake(w) PROVE PcsOK'
  BY <1>6 DEF Joining, JoinJob, CheckOpen, CheckGeneration, LeaveJob, RecordStart, SelfWake
<1> QED BY <1>1, <1>2, <1>3, <1>4, <1>5, <1>6, PoolNextCases

\* Types
LEMMA TypeStep ==
  ASSUME PoolInv, PoolNext
  PROVE  TypeOK'
<1> USE PoolAssumption DEF TypeOK, Lanes, Items, cond, job, signals, tallies, locals, history
<1>0. TypeOK /\ PcsOK' /\ active' \in Nat /\ sleeping' \in Nat
  BY PcsStep, TalliesStep, Tallies, CountNone DEF PoolInv
<1>1. CASE Calling
  <2>1. CASE CallParallelFor BY <1>0, <2>1 DEF CallParallelFor
  <2>2. CASE CallWake \/ CallResize BY <1>0, <2>2 DEF CallWake, CallResize
  <2>3. CASE RunInline
    <3>1. item' \in [Lanes -> Nat] BY <1>0, <2>3 DEF RunInline
    <3>2. todo' \subseteq Items BY <1>0, <2>3 DEF RunInline
    <3> QED BY <1>0, <2>3, <3>1, <3>2 DEF RunInline
  <2>4. CASE ReturnInline BY <1>0, <2>4 DEF ReturnInline
  <2>5. CASE PublishJob
    <3>1. (laneStart \subseteq Workers)' /\ (count \in 0 .. MaxCount)' BY <1>0, <2>5 DEF PublishJob
    <3> QED BY <1>0, <2>5, <3>1 DEF PublishJob
  <2>6. CASE ReturnFromJob BY <1>0, <2>6 DEF ReturnFromJob
  <2> QED BY <1>1, <2>1, <2>2, <2>3, <2>4, <2>5, <2>6 DEF Calling, Calls
<1>2. CASE Closing
  BY <1>0, <1>2 DEF Closing, OpenJob, AwaitDone, CloseJob, AwaitQuiet
<1>3. CASE Waking \/ WakePool
  <2>1. ASSUME NEW from, NEW to, BumpGeneration(from, to) PROVE TypeOK'
    <3>1. (generation + 1) % GenMod \in 0 .. GenMod - 1 BY <1>0
    <3> QED BY <1>0, <2>1, <3>1 DEF BumpGeneration
  <2>2. ASSUME NEW from, NEW to, PassLock(from, to) PROVE TypeOK'
    BY <1>0, <2>2 DEF PassLock
  <2>3. ASSUME NEW from, NEW to, NotifyAll(from, to) PROVE TypeOK'
    BY <1>0, <2>3 DEF NotifyAll
  <2>4. CASE ReadSleeping
    BY <1>0, <2>4 DEF ReadSleeping
  <2> QED BY <1>3, <2>1, <2>2, <2>3, <2>4 DEF Waking, WakePool
<1>4. CASE Resize
  <2>1. CASE StopSets BY <1>0, <2>1 DEF StopSets
  <2>2. CASE NotifyAll("stopnotify", "stopjoin") BY <1>0, <2>2 DEF NotifyAll
  <2>3. CASE StopJoins
    <3>1. seen' \in [Workers -> 0 .. GenMod - 1] BY <2>3 DEF StopJoins
    <3> QED BY <1>0, <2>3, <3>1 DEF StopJoins
  <2> QED BY <1>4, <2>1, <2>2, <2>3 DEF Resize
<1>5. ASSUME NEW l \in Lanes, RunItems(l) PROVE TypeOK'
  <2>1. CASE TakeItem(l)
    <3>1. item' \in [Lanes -> Nat] BY <1>0, <2>1 DEF TakeItem
    <3> QED BY <1>0, <2>1, <3>1 DEF TakeItem
  <2>2. CASE RunItem(l) BY <1>0, <2>2 DEF RunItem
  <2>3. CASE CountDone(l) BY <1>0, <2>3 DEF CountDone
  <2> QED BY <1>5, <2>1, <2>2, <2>3 DEF RunItems
<1>6. ASSUME NEW w \in Workers, Idling(w) PROVE TypeOK'
  BY <1>0, <1>6 DEF Idling, SpinSees, SpinTimesOut, SleepLocks, SleepFindsNothing, SleepWaits, SleepRelocks,
    SleepEnds, ReadGeneration, CheckStop
<1>7. ASSUME NEW w \in Workers, Joining(w) \/ RecordStart(w) \/ SelfWake(w) PROVE TypeOK'
  BY <1>0, <1>7 DEF Joining, JoinJob, CheckOpen, CheckGeneration, LeaveJob, RecordStart, SelfWake
<1> QED BY <1>1, <1>2, <1>3, <1>4, <1>5, <1>6, <1>7, PoolNextCases

\* Phases
LEMMA CallerStep ==
  ASSUME PoolInv, PoolNext
  PROVE  CallerInv'
<1> USE PoolAssumption DEF TypeOK, PcsOK, Lanes, GoTo, cond, job, signals, tallies, locals, history,
      CallerInv, InJob, CallerPcs, WorkerPcs, JobPcs, OpenPcs, StopPcs, ActivePcs, SleepPcs, InJobPcs
<1>0. TypeOK /\ CallerInv /\ ItemInv
  BY DEF PoolInv
<1>1. active = 0 => \A w \in Workers : pc[w] \notin ActivePcs
  BY Tallies, CountNone DEF PoolInv
<1>2. CASE Calling
  <2>1. CASE Calls
    BY <1>0, <2>1, SMTT(30) DEF Calls, CallParallelFor, CallWake, CallResize
  <2>2. CASE RunInline \/ ReturnInline
    BY <1>0, <2>2 DEF RunInline, ReturnInline
  <2>3. CASE PublishJob \/ ReturnFromJob
    BY <1>0, <2>3 DEF PublishJob, ReturnFromJob
  <2> QED BY <1>2, <2>1, <2>2, <2>3 DEF Calling
<1>3. CASE Closing
  BY <1>0, <1>1, <1>3 DEF Closing, OpenJob, AwaitDone, CloseJob, AwaitQuiet
<1>4. CASE Waking \/ WakePool
  <2>1. CASE Waking
    BY <1>0, <2>1 DEF Waking, BumpGeneration, PassLock, NotifyAll, ReadSleeping
  <2>2. CASE WakePool
    BY <1>0, <2>2 DEF WakePool, BumpGeneration, PassLock, NotifyAll
  <2> QED BY <1>4, <2>1, <2>2
<1>5. CASE Resize
  BY <1>0, <1>5 DEF Resize, StopSets, NotifyAll, StopJoins
<1>6. ASSUME NEW l \in Lanes, RunItems(l) PROVE CallerInv'
  BY <1>0, <1>6 DEF RunItems, TakeItem, RunItem, CountDone
<1>7. ASSUME NEW w \in Workers, Idling(w) PROVE CallerInv'
  BY <1>0, <1>7 DEF Idling, SpinSees, SpinTimesOut, SleepLocks, SleepFindsNothing, SleepWaits, SleepRelocks,
    SleepEnds, ReadGeneration, CheckStop
<1>8. ASSUME NEW w \in Workers, Joining(w) \/ RecordStart(w) \/ SelfWake(w) PROVE CallerInv'
  BY <1>0, <1>8 DEF Joining, JoinJob, CheckOpen, CheckGeneration, LeaveJob, RecordStart, SelfWake
<1> QED BY <1>2, <1>3, <1>4, <1>5, <1>6, <1>7, <1>8, PoolNextCases
\* The mutex, the wait set and the wakes
LEMMA SleepStep ==
  ASSUME PoolInv, PoolNext
  PROVE  SleepInv' /\ NoWakeMissed'
<1> USE PoolAssumption DEF TypeOK, PcsOK, Lanes, GoTo, cond, job, signals, tallies, locals, history,
      SleepInv, NoWakeMissed, News, StopPcs, SleepPcs
<1>0. TypeOK /\ SleepInv /\ NoWakeMissed /\ CallerInv
  BY DEF PoolInv
<1>1. sleeping = 0 => \A w \in Workers : pc[w] \notin SleepPcs
  BY Tallies, CountNone DEF PoolInv
<1>2. CASE Calling
  <2>1. CASE Calls
    BY <1>0, <2>1, SMTT(30) DEF Calls, CallParallelFor, CallWake, CallResize
  <2>2. CASE RunInline \/ ReturnInline
    BY <1>0, <2>2 DEF RunInline, ReturnInline
  <2>3. CASE PublishJob \/ ReturnFromJob
    BY <1>0, <2>3 DEF PublishJob, ReturnFromJob
  <2> QED BY <1>2, <2>1, <2>2, <2>3 DEF Calling
<1>3. CASE Closing
  BY <1>0, <1>3 DEF Closing, OpenJob, AwaitDone, CloseJob, AwaitQuiet
<1>4. CASE Waking \/ WakePool
  <2>1. CASE Waking
    BY <1>0, <1>1, <2>1 DEF Waking, BumpGeneration, PassLock, NotifyAll, ReadSleeping
  <2>2. CASE WakePool
    BY <1>0, <1>1, <2>2 DEF WakePool, BumpGeneration, PassLock, NotifyAll
  <2> QED BY <1>4, <2>1, <2>2
<1>5. CASE Resize
  BY <1>0, <1>5, ZenonT(40) DEF Resize, StopSets, NotifyAll, StopJoins, Threads, CallerInv
<1>6. ASSUME NEW l \in Lanes, RunItems(l) PROVE SleepInv' /\ NoWakeMissed'
  BY <1>0, <1>6 DEF RunItems, TakeItem, RunItem, CountDone
<1>7. ASSUME NEW w \in Workers, Idling(w) PROVE SleepInv' /\ NoWakeMissed'
  BY <1>0, <1>7 DEF Idling, SpinSees, SpinTimesOut, SleepLocks, SleepFindsNothing, SleepWaits, SleepRelocks,
    SleepEnds, ReadGeneration, CheckStop
<1>8. ASSUME NEW w \in Workers, Joining(w) \/ RecordStart(w) \/ SelfWake(w) PROVE SleepInv' /\ NoWakeMissed'
  BY <1>0, <1>8 DEF Joining, JoinJob, CheckOpen, CheckGeneration, LeaveJob, RecordStart, SelfWake
<1> QED BY <1>2, <1>3, <1>4, <1>5, <1>6, <1>7, <1>8, PoolNextCases

\* Lanes that ran
LEMMA LaneStep ==
  ASSUME PoolInv, PoolNext
  PROVE  LaneInv'
<1> USE PoolAssumption DEF TypeOK, PcsOK, Lanes, GoTo, cond, job, signals, tallies, locals, history,
      LaneInv, Published, OpenPcs, InJob, InJobPcs
<1>0. TypeOK /\ LaneInv /\ CallerInv
  BY DEF PoolInv
<1>2. CASE Calling
  <2>1. CASE Calls
    BY <1>0, <2>1 DEF Calls, CallParallelFor, CallWake, CallResize, CallerInv
  <2>2. CASE RunInline \/ ReturnInline
    BY <1>0, <2>2 DEF RunInline, ReturnInline, CallerInv
  <2>3. CASE PublishJob \/ ReturnFromJob
    BY <1>0, <2>3 DEF PublishJob, ReturnFromJob, CallerInv
  <2> QED BY <1>2, <2>1, <2>2, <2>3 DEF Calling
<1>3. CASE Closing
  BY <1>0, <1>3 DEF Closing, OpenJob, AwaitDone, CloseJob, AwaitQuiet
<1>4. CASE Waking \/ WakePool
  <2>1. CASE Waking
    BY <1>0, <2>1 DEF Waking, BumpGeneration, PassLock, NotifyAll, ReadSleeping
  <2>2. CASE WakePool
    BY <1>0, <2>2 DEF WakePool, BumpGeneration, PassLock, NotifyAll
  <2> QED BY <1>4, <2>1, <2>2
<1>5. CASE Resize
  BY <1>0, <1>5 DEF Resize, StopSets, NotifyAll, StopJoins, Threads, CallerInv
<1>6. ASSUME NEW l \in Lanes, RunItems(l) PROVE LaneInv'
  BY <1>0, <1>6 DEF RunItems, TakeItem, RunItem, CountDone, CallerInv
<1>7. ASSUME NEW w \in Workers, Idling(w) PROVE LaneInv'
  BY <1>0, <1>7 DEF Idling, SpinSees, SpinTimesOut, SleepLocks, SleepFindsNothing, SleepWaits, SleepRelocks,
    SleepEnds, ReadGeneration, CheckStop
<1>8. ASSUME NEW w \in Workers, Joining(w) \/ RecordStart(w) \/ SelfWake(w) PROVE LaneInv'
  BY <1>0, <1>8 DEF Joining, JoinJob, CheckOpen, CheckGeneration, LeaveJob, RecordStart, SelfWake
<1> QED BY <1>2, <1>3, <1>4, <1>5, <1>6, <1>7, <1>8, PoolNextCases

\* A step that neither takes, runs nor counts an index, nor begins or ends a
\* call, keeps who holds what.
LEMMA ItemFrame ==
  ASSUME TypeOK, ItemInv, UNCHANGED <<item, next, count, todo, asked>>,
         \A l \in Lanes : /\ pc'[l] = "run" <=> pc[l] = "run"
                          /\ pc'[l] = "countdone" <=> pc[l] = "countdone",
         \/ pc'[Caller] = pc[Caller]
         \/ pc[Caller] \in Published \ {"take"} /\ pc'[Caller] \in Published
         \/ pc[Caller] \notin JobPcs \cup {"inline"} /\ pc'[Caller] \notin JobPcs \cup {"inline"}
  PROVE  ItemInv'
BY PoolAssumption DEF TypeOK, ItemInv, Holds, Published, JobPcs, OpenPcs, Lanes

\* Indices held and left
LEMMA ItemStep ==
  ASSUME PoolInv, PoolNext
  PROVE  ItemInv'
<1> USE PoolAssumption DEF TypeOK, PcsOK, Lanes, GoTo, cond, job, signals, tallies, locals, history,
      Published, OpenPcs, JobPcs
<1>0. TypeOK /\ ItemInv /\ CallerInv /\ CountInv
  BY DEF PoolInv
<1>1. CASE Calling
  <2> USE DEF ItemInv, Holds, Items
  <2>1. CASE CallParallelFor BY <1>0, <2>1 DEF CallParallelFor
  <2>2. CASE CallWake \/ CallResize BY <1>0, <2>2, ItemFrame DEF CallWake, CallResize
  <2>3. CASE RunInline BY <1>0, <2>3 DEF RunInline
  <2>4. CASE ReturnInline BY <1>0, <2>4 DEF ReturnInline
  <2>5. CASE PublishJob BY <1>0, <2>5 DEF PublishJob, CallerInv, InJob, InJobPcs
  <2>6. CASE ReturnFromJob BY <1>0, <2>6 DEF ReturnFromJob, CountInv, Undone
  <2> QED BY <1>1, <2>1, <2>2, <2>3, <2>4, <2>5, <2>6 DEF Calling, Calls
<1>2. CASE Closing
  BY <1>0, <1>2, ItemFrame DEF Closing, OpenJob, AwaitDone, CloseJob, AwaitQuiet
<1>3. CASE Waking \/ WakePool
  BY <1>0, <1>3, ItemFrame DEF Waking, WakePool, BumpGeneration, PassLock, NotifyAll, ReadSleeping
<1>4. CASE Resize
  BY <1>0, <1>4, ItemFrame DEF Resize, StopSets, NotifyAll, StopJoins, Threads
<1>5. ASSUME NEW l \in Lanes, RunItems(l) PROVE ItemInv'
  <2> USE DEF ItemInv, Holds, Items
  <2>1. CASE TakeItem(l) BY <1>0, <2>1 DEF TakeItem, CallerInv, InJob, InJobPcs
  <2>2. CASE RunItem(l) BY <1>0, <2>2, SMTT(30) DEF RunItem, CallerInv, InJob, InJobPcs
  <2>3. CASE CountDone(l) BY <1>0, <2>3 DEF CountDone, CallerInv, InJob, InJobPcs
  <2> QED BY <1>5, <2>1, <2>2, <2>3 DEF RunItems
<1>6. ASSUME NEW w \in Workers, Idling(w) PROVE ItemInv'
  BY <1>0, <1>6, ItemFrame DEF Idling, SpinSees, SpinTimesOut, SleepLocks, SleepFindsNothing, SleepWaits, SleepRelocks,
    SleepEnds, ReadGeneration, CheckStop
<1>7. ASSUME NEW w \in Workers, Joining(w) \/ RecordStart(w) \/ SelfWake(w) PROVE ItemInv'
  BY <1>0, <1>7, ItemFrame DEF Joining, JoinJob, CheckOpen, CheckGeneration, LeaveJob, RecordStart, SelfWake
<1> QED BY <1>1, <1>2, <1>3, <1>4, <1>5, <1>6, <1>7, PoolNextCases
\* A step that leaves m_done, the job's size and the lanes' indices alone
\* leaves the count of the undone indices right.
LEMMA CountFrame ==
  ASSUME CountInv, UNCHANGED <<count, doneCount>>, Undone' = Undone,
         \/ pc'[Caller] = pc[Caller]
         \/ pc'[Caller] \notin Published
         \/ pc[Caller] \in Published /\ pc'[Caller] \in Published \ {"close", "awaitquiet", "observe"}
         \/ pc[Caller] \in {"close", "awaitquiet", "observe"} /\ pc'[Caller] \in Published
  PROVE  CountInv'
BY DEF CountInv, Published, OpenPcs

\* m_done
LEMMA CountStep ==
  ASSUME PoolInv, PoolNext
  PROVE  CountInv'
<1> USE PoolAssumption DEF TypeOK, PcsOK, Lanes, GoTo, cond, job, signals, tallies, locals, history
<1>0. TypeOK /\ ItemInv /\ CallerInv /\ CountInv
  BY DEF PoolInv
<1>1. IsFiniteSet(Undone) /\ Cardinality(Undone) \in Nat
  <2>1. ASSUME NEW l \in Lanes, pc[l] = "countdone" PROVE item[l] \in 0 .. MaxCount - 1
    BY <1>0, <2>1 DEF ItemInv, Holds
  <2>2. Undone \subseteq 0 .. MaxCount - 1
    BY <1>0, <2>1, ZenonT(40) DEF Undone, Items
  <2>3. IsFiniteSet(0 .. MaxCount - 1)
    <3>1. 0 \in Int /\ MaxCount - 1 \in Int OBVIOUS
    <3> QED BY <3>1, FS_Interval
  <2>4. IsFiniteSet(Undone)
    BY <2>2, <2>3, FS_Subset
  <2> QED BY <2>4, FS_CardinalityType
<1>2. CASE Calling
  <2>1. CASE PublishJob
    <3>1. Undone' = 0 .. asked - 1
      BY <1>0, <2>1 DEF PublishJob, Undone, ItemInv, CallerInv, InJob, InJobPcs, OpenPcs
    <3>2. Cardinality(0 .. asked - 1) = asked
      <4>1. asked \in Nat /\ 0 \in Int /\ asked - 1 \in Int BY <1>0
      <4>2. Cardinality(0 .. asked - 1) = IF 0 > asked - 1 THEN 0 ELSE asked - 1 - 0 + 1
        BY <4>1, FS_Interval
      <4> QED BY <4>1, <4>2
    <3> QED BY <1>0, <2>1, <3>1, <3>2 DEF PublishJob, CountInv
  <2>2. CASE Calls \/ RunInline \/ ReturnInline \/ ReturnFromJob
    <3>1. pc'[Caller] \notin Published
      BY <1>0, <2>2 DEF Calls, CallParallelFor, CallWake, CallResize, RunInline, ReturnInline, ReturnFromJob,
        Published, OpenPcs
    <3> QED BY <3>1 DEF CountInv, Published, OpenPcs
  <2> QED BY <1>2, <2>1, <2>2 DEF Calling
<1>3. CASE AwaitDone
  <2>1. Undone' = Undone
    BY <1>0, <1>3 DEF AwaitDone, Undone
  <2>2. Cardinality(Undone) = 0
    BY <1>0, <1>1, <1>3 DEF AwaitDone, CountInv, Published, OpenPcs
  <2>3. Undone = {}
    BY <1>1, <2>2, FS_EmptySet
  <2> QED BY <1>0, <1>3, <2>1, <2>3 DEF AwaitDone, CountInv, Published, OpenPcs
<1>4. CASE OpenJob \/ CloseJob \/ AwaitQuiet \/ Waking \/ WakePool
  <2>1. Undone' = Undone
    BY <1>0, <1>4 DEF Undone, OpenJob, CloseJob, AwaitQuiet, Waking, WakePool, BumpGeneration, PassLock, NotifyAll, ReadSleeping
  <2> QED BY <1>0, <1>4, <2>1, CountFrame DEF Published, OpenPcs, OpenJob, CloseJob, AwaitQuiet, Waking, WakePool,
        BumpGeneration, PassLock, NotifyAll, ReadSleeping
<1>5. CASE Resize
  <2>1. pc'[Caller] \notin Published
    BY <1>0, <1>5 DEF Resize, StopSets, NotifyAll, StopJoins, Published, OpenPcs
  <2> QED BY <2>1 DEF CountInv, Published, OpenPcs
<1>6. ASSUME NEW l \in Lanes, RunItems(l) PROVE CountInv'
  <2>1. CASE TakeItem(l) \/ RunItem(l)
    <3>1. Undone' = Undone
      <4>1. CASE TakeItem(l) BY <1>0, <4>1 DEF Undone, TakeItem
      <4>2. CASE RunItem(l)
        <5>1. item[l] \in todo
          BY <1>0, <4>2 DEF RunItem, ItemInv, CallerInv, InJob, InJobPcs, Holds, Published, OpenPcs, Items
        <5>2. \A m \in Lanes : item'[m] = item[m] /\ (pc'[m] = "countdone" <=> pc[m] = "countdone" \/ m = l)
          BY <1>0, <4>2 DEF RunItem
        <5>3. todo' = todo \ {item[l]}
          BY <4>2 DEF RunItem
        <5> QED BY <5>1, <5>2, <5>3 DEF Undone
      <4> QED BY <2>1, <4>1, <4>2
    <3> QED BY <1>0, <2>1, <3>1, CountFrame DEF Published, OpenPcs, TakeItem, RunItem
  <2>2. CASE CountDone(l)
    <3>1. Undone' = Undone \ {item[l]} /\ item[l] \in Undone
      BY <1>0, <2>2 DEF CountDone, Undone, ItemInv, CallerInv, Published, OpenPcs, InJob, InJobPcs, Holds, Items
    <3>2. Cardinality(Undone') = Cardinality(Undone) - 1
      BY <1>1, <3>1, FS_RemoveElement
    <3> QED BY <1>0, <1>1, <2>2, <3>1, <3>2 DEF CountDone, CountInv, Published, OpenPcs
  <2> QED BY <1>6, <2>1, <2>2 DEF RunItems
<1>7. ASSUME NEW w \in Workers, Idling(w) PROVE CountInv'
  <2>1. Undone' = Undone /\ UNCHANGED <<count, doneCount, pc[Caller]>>
    BY <1>0, <1>7 DEF Undone, Idling, SpinSees, SpinTimesOut, SleepLocks, SleepFindsNothing, SleepWaits,
      SleepRelocks, SleepEnds, ReadGeneration, CheckStop
  <2> QED BY <1>0, <2>1, CountFrame
<1>8. ASSUME NEW w \in Workers, Joining(w) \/ RecordStart(w) \/ SelfWake(w) PROVE CountInv'
  <2>1. Undone' = Undone /\ UNCHANGED <<count, doneCount, pc[Caller]>>
    BY <1>0, <1>8 DEF Undone, Joining, JoinJob, CheckOpen, CheckGeneration, LeaveJob, RecordStart, SelfWake
  <2> QED BY <1>0, <2>1, CountFrame
<1> QED BY <1>2, <1>3, <1>4, <1>5, <1>6, <1>7, <1>8, PoolNextCases DEF Closing

-----------------------------------------------------------------------------
(* The invariant and what follows from it.                                 *)

\* PoolInv holds of every state of the pool.
THEOREM PoolInvariant == PoolSpec => []PoolInv
<1>1. PoolInit => PoolInv
  <2> SUFFICES ASSUME PoolInit PROVE PoolInv OBVIOUS
  <2> USE PoolAssumption DEF PoolInit, Lanes, Items
  <2>1. PcsOK BY DEF PcsOK, CallerPcs, WorkerPcs
  <2>2. TypeOK
    <3>1. 0 \in 0 .. GenMod - 1 /\ 0 \in 0 .. MaxCount OBVIOUS
    <3>2. seen \in [Workers -> 0 .. GenMod - 1] /\ item \in [Lanes -> Nat]
      BY <3>1
    <3> QED BY <2>1, <3>1, <3>2 DEF TypeOK
  <2>3. TalliesExact
    BY Tallies, CountNone DEF ActivePcs, SleepPcs, InJobPcs
  <2>4. CallerInv /\ ItemInv /\ LaneInv /\ SleepInv /\ NoWakeMissed /\ CountInv
    BY DEF CallerInv, ItemInv, LaneInv, SleepInv, NoWakeMissed, CountInv, Published, OpenPcs, JobPcs, InJob, InJobPcs, Holds
  <2> QED BY <2>2, <2>3, <2>4 DEF PoolInv
<1>2. PoolInv /\ [PoolNext]_poolVars => PoolInv'
  <2>1. CASE PoolNext
    BY <2>1, TypeStep, TalliesStep, CallerStep, ItemStep, CountStep, LaneStep, SleepStep DEF PoolInv
  <2>2. CASE UNCHANGED poolVars
    BY <2>2, SMTT(30) DEF PoolInv, TypeOK, PcsOK, TalliesExact, CallerInv, InJob, ItemInv, Holds, CountInv, Undone, LaneInv,
      SleepInv, NoWakeMissed, News, poolVars, cond, job, signals, tallies, locals, history
  <2> QED BY <2>1, <2>2
<1> QED BY <1>1, <1>2, PTL DEF PoolSpec

\* Types hold: m_active and m_sleeping never go below 0, and no thread is in a
\* place of another kind.
THEOREM TypeCorrect == PoolSpec => []TypeOK
<1>1. PoolInv => TypeOK BY DEF PoolInv
<1> QED BY <1>1, PoolInvariant, PTL

\* No worker is in RunItems while the caller has the job's fields to itself.
THEOREM RaceFreedom == PoolSpec => []JobRaceFree
<1>1. PoolInv => JobRaceFree
  BY DEF PoolInv, CallerInv, JobRaceFree
<1> QED BY <1>1, PoolInvariant, PTL

\* No index runs twice, and ParallelFor returns only when all have run.
THEOREM ExactlyOnce == PoolSpec => [](AtMostOnce /\ AllRanOnReturn)
<1>1. PoolInv => AtMostOnce /\ AllRanOnReturn
  <2> SUFFICES ASSUME PoolInv PROVE AtMostOnce /\ AllRanOnReturn OBVIOUS
  <2> USE PoolAssumption DEF PoolInv, TypeOK, PcsOK, CallerInv, ItemInv, Holds, Items, Lanes, InJob, InJobPcs, Published, OpenPcs
  <2>1. AtMostOnce BY DEF AtMostOnce
  <2>2. AllRanOnReturn BY DEF AllRanOnReturn, CountInv, Undone, JobPcs
  <2> QED BY <2>1, <2>2
<1> QED BY <1>1, PoolInvariant, PTL

\* The observer is told of the workers that ran an item of this job.
THEOREM LanesToldTrue == PoolSpec => []LanesTold
<1>1. PoolInv => LanesTold
  <2> SUFFICES ASSUME PoolInv, pc[Caller] = "observe" PROVE laneStart = runners
    BY DEF LanesTold
  <2>1. \A w \in Workers : ~InJob(w)
    BY DEF PoolInv, CallerInv, OpenPcs
  <2>2. ran = {} /\ {w \in Workers : pc[w] = "countdone"} = {}
    BY <2>1 DEF PoolInv, LaneInv, TypeOK, InJob, InJobPcs
  <2> QED BY <2>2 DEF PoolInv, LaneInv, Published
<1> QED BY <1>1, PoolInvariant, PTL

\* No worker sleeps through a wake.
THEOREM WakesArrive == PoolSpec => []NoWakeMissed
<1>1. PoolInv => NoWakeMissed BY DEF PoolInv
<1> QED BY <1>1, PoolInvariant, PTL

-----------------------------------------------------------------------------
(* The pool implements fork-join.                                          *)

\* Every step of the pool is a step of ForkJoin or leaves it alone.
THEOREM ImplementsForkJoin == PoolSpec => FJ!Safety
<1>1. PoolInit => FJ!Init
  BY PoolAssumption DEF PoolInit, FJ!Init, JobPcs, OpenPcs, Lanes
<1>2. PoolInv /\ PoolInv' /\ [PoolNext]_poolVars => [FJ!Next]_FJ!vars
  <2> SUFFICES ASSUME PoolInv, PoolInv', [PoolNext]_poolVars PROVE [FJ!Next]_FJ!vars OBVIOUS
  <2> USE PoolAssumption DEF FJ!vars, Lanes, GoTo, JobPcs, OpenPcs
  <2>0. TypeOK /\ PcsOK /\ ItemInv /\ CallerInv /\ CountInv
    BY DEF PoolInv, TypeOK
  <2>1. CASE Calls
    BY <2>0, <2>1 DEF Calls, CallParallelFor, CallWake, CallResize, FJ!Next, FJ!Fork, history, PcsOK, ItemInv
  <2>2. CASE RunInline
    BY <2>0, <2>2 DEF RunInline, FJ!Next, FJ!Run, PcsOK, TypeOK, ItemInv
  <2>3. CASE ReturnInline \/ ReturnFromJob
    BY <2>0, <2>3 DEF ReturnInline, ReturnFromJob, FJ!Next, FJ!Join, PcsOK, TypeOK, ItemInv, CountInv, Undone
  <2>4. CASE PublishJob \/ Closing \/ Waking \/ WakePool
    BY <2>0, <2>4 DEF PublishJob, Closing, Waking, WakePool, OpenJob, AwaitDone, CloseJob, AwaitQuiet, BumpGeneration,
      ReadSleeping, PassLock, NotifyAll, PcsOK, history
  <2>5. CASE Resize
    BY <2>0, <2>5 DEF Resize, StopSets, NotifyAll, StopJoins, PcsOK, history
  <2>6. ASSUME NEW l \in Lanes, RunItem(l) PROVE FJ!Next
    <3>1. item[l] \in todo
      BY <2>0, <2>6, SMTT(30) DEF RunItem, TypeOK, PcsOK, ItemInv, Holds, CallerInv, InJob, InJobPcs, Published, Items
    <3> QED BY <2>0, <2>6, <3>1 DEF RunItem, FJ!Next, FJ!Run, PcsOK, CallerInv, InJob, InJobPcs
  <2>7. ASSUME NEW l \in Lanes, TakeItem(l) \/ CountDone(l) PROVE UNCHANGED FJ!vars
    BY <2>0, <2>7 DEF TakeItem, CountDone, PcsOK, history
  <2>8. ASSUME NEW w \in Workers, Idling(w) \/ Joining(w) \/ RecordStart(w) \/ SelfWake(w)
        PROVE  UNCHANGED FJ!vars
    BY <2>0, <2>8 DEF Idling, Joining, RecordStart, SelfWake, SpinSees, SpinTimesOut, SleepLocks,
      SleepFindsNothing, SleepWaits, SleepRelocks, SleepEnds, ReadGeneration, CheckStop, JoinJob, CheckOpen,
      CheckGeneration, LeaveJob, PcsOK, history
  <2>9. CASE UNCHANGED poolVars
    BY <2>9 DEF poolVars, history
  <2> QED BY <2>1, <2>2, <2>3, <2>4, <2>5, <2>6, <2>7, <2>8, <2>9, PoolNextCases DEF Calling, RunItems
<1> QED BY <1>1, <1>2, PoolInvariant, PTL DEF PoolSpec, FJ!Safety

-----------------------------------------------------------------------------
(* The game thread: the parts of the invariant, over the main thread's     *)
(* steps.                                                                  *)

\* A frame beginning or ending, and the frame's own steps.
Framing ==
  \/ FrameStarts \/ RestartRequested \/ RestartThrown \/ ErrorCleanup \/ Decide
  \/ Frame

\* Serving asks keeps the invariant.
LEMMA ServeStep == HandoffInv /\ ServeAsks => HandoffInv'
<1> SUFFICES ASSUME HandoffInv, ServeAsks PROVE HandoffInv' OBVIOUS
<1> USE DEF HandoffInv, PlaceInv, FrameNeverWaits, FlightInv, AskInv, AskRunsOnce, PhaseInv, WakeInv, Out, TicRuns, ServePcs,
            Main, threads, flight, phase, asking, window
<1>1. CASE AsksLock BY <1>1 DEF AsksLock
<1>2. CASE TakeAsk BY <1>2 DEF TakeAsk
<1>3. CASE RunAsk BY <1>3 DEF RunAsk
<1>4. CASE Answer BY <1>4 DEF Answer
<1>5. CASE ServeReturns BY <1>5 DEF ServeReturns
<1>6. CASE CheckDone BY <1>6 DEF CheckDone
<1>7. CASE WaitForWake BY <1>7 DEF WaitForWake
<1> QED BY <1>1, <1>2, <1>3, <1>4, <1>5, <1>6, <1>7 DEF ServeAsks

\* Beginning, drawing and ending a frame keeps the invariant.
LEMMA FrameStep == HandoffInv /\ Framing => HandoffInv'
<1> SUFFICES ASSUME HandoffInv, Framing PROVE HandoffInv' OBVIOUS
<1> USE DEF HandoffInv, PlaceInv, FrameNeverWaits, FlightInv, AskInv, AskRunsOnce, PhaseInv, WakeInv, Out, TicRuns, ServePcs,
            Main, threads, flight, phase, asking, window
<1>1. CASE FrameStarts BY <1>1 DEF FrameStarts
<1>2. CASE RestartRequested BY <1>2 DEF RestartRequested
<1>3. CASE RestartThrown \/ ErrorCleanup BY <1>3 DEF RestartThrown, ErrorCleanup
<1>4. CASE Decide BY <1>4 DEF Decide
<1>5. CASE FocusQueued \/ FocusActs BY <1>5 DEF FocusQueued, FocusActs
<1>6. CASE PauseChanges \/ NoFocusChange BY <1>6 DEF PauseChanges, NoFocusChange
<1>7. CASE Display \/ DisplayUnwinds BY <1>7 DEF Display, DisplayUnwinds
<1> QED BY <1>1, <1>2, <1>3, <1>4, <1>5, <1>6, <1>7 DEF Framing, Frame

\* The handoff's steps keep the invariant.
LEMMA HandoffStep == HandoffInv /\ Handoff => HandoffInv'
<1> SUFFICES ASSUME HandoffInv, Handoff PROVE HandoffInv' OBVIOUS
<1> USE DEF HandoffInv, PlaceInv, FrameNeverWaits, FlightInv, AskInv, AskRunsOnce, PhaseInv, WakeInv, Out, TicRuns, ServePcs,
            Main, threads, flight, phase, asking, window
<1>1. CASE FinishTic BY <1>1 DEF FinishTic
<1>2. CASE HandoffWork BY <1>2 DEF HandoffWork
<1>3. CASE RunTic \/ RunTicWithoutPlaysim BY <1>3 DEF RunTic, RunTicWithoutPlaysim
<1>4. CASE TicReturns \/ TicUnwinds BY <1>4 DEF TicReturns, TicUnwinds
<1>5. CASE HandOver BY <1>5 DEF HandOver
<1>6. CASE NotifyGameThread \/ NoTicInFlight BY <1>6 DEF NotifyGameThread, NoTicInFlight
<1> QED BY <1>1, <1>2, <1>3, <1>4, <1>5, <1>6 DEF Handoff

\* The game thread's steps keep the invariant, and so do the clock and a
\* spurious wake.
LEMMA GameStep == HandoffInv /\ (GameThreadMain \/ ClockTic \/ SpuriousWake) => HandoffInv'
<1> SUFFICES ASSUME HandoffInv, GameThreadMain \/ ClockTic \/ SpuriousWake PROVE HandoffInv' OBVIOUS
<1> USE DEF HandoffInv, PlaceInv, FrameNeverWaits, FlightInv, AskInv, AskRunsOnce, PhaseInv, WakeInv, Out, TicRuns, ServePcs,
            Main, Game, threads, flight, phase, asking, window
<1>1. CASE Born \/ BeginTic BY <1>1 DEF Born, BeginTic
<1>2. CASE WaitForWork BY <1>2 DEF WaitForWork
<1>3. CASE QueueEffect \/ ClockTic BY <1>3 DEF QueueEffect, ClockTic
<1>4. CASE AskMain BY <1>4 DEF AskMain
<1>5. CASE AskReturns BY <1>5 DEF AskReturns
<1>6. CASE TicEnds BY <1>6 DEF TicEnds
<1>7. CASE SetDone \/ Wake BY <1>7 DEF SetDone, Wake
<1>8. CASE SpuriousWake BY <1>8 DEF SpuriousWake
<1> QED BY <1>1, <1>2, <1>3, <1>4, <1>5, <1>6, <1>7, <1>8 DEF GameThreadMain

-----------------------------------------------------------------------------
(* The invariant and what follows from it.                                 *)

\* HandoffInv holds of every state.
THEOREM HandoffInvariant == Spec => []HandoffInv
<1>1. Init => HandoffInv
  BY DEF Init, HandoffInv, PlaceInv, FrameNeverWaits, FlightInv, AskInv, AskRunsOnce, PhaseInv, WakeInv, Out, TicRuns, ServePcs
<1>2. HandoffInv /\ [Next]_vars => HandoffInv'
  <2>1. HandoffInv /\ UNCHANGED vars => HandoffInv'
    BY DEF HandoffInv, PlaceInv, FrameNeverWaits, FlightInv, AskInv, AskRunsOnce, PhaseInv, WakeInv, Out, TicRuns, ServePcs,
      vars, threads, flight, phase, asking, window
  <2> QED BY <2>1, ServeStep, FrameStep, HandoffStep, GameStep DEF Next, MainThread, Framing
<1> QED BY <1>1, <1>2, PTL DEF Spec

\* No tic runs while the main thread is in the handoff, runs a tic inline or
\* restarts, nor goes on while the main thread runs a call it asked for.
THEOREM Alone == Spec => [](HandoffAlone /\ AskAlone)
<1>1. HandoffInv => HandoffAlone /\ AskAlone
  BY DEF HandoffInv, PlaceInv, FrameNeverWaits, FlightInv, AskInv, PhaseInv, HandoffAlone, AskAlone, Out, TicRuns, ServePcs
<1> QED BY <1>1, HandoffInvariant, PTL

\* A tic on the game thread defers its effects, and the main thread knows it
\* draws beside one.
THEOREM Marked == Spec => []TicIsMarked
<1>1. HandoffInv => TicIsMarked
  BY DEF HandoffInv, FlightInv, AskInv, PhaseInv, TicIsMarked, Out, TicRuns, Deferring, BesideTic
<1> QED BY <1>1, HandoffInvariant, PTL

\* Where nothing is thrown beside a tic or inline.
Calm == ~FrameThrows /\ ~InlineThrows
CalmSeamInv == Calm => SeamInv

\* The phase is true in every state, where no frame and no inline tic throws.
THEOREM SeamInvariant == Spec => []CalmSeamInv
<1>1. Init => CalmSeamInv
  BY DEF Init, CalmSeamInv, SeamInv, Out
<1>2. HandoffInv /\ HandoffInv' /\ CalmSeamInv /\ [Next]_vars => CalmSeamInv'
  <2> SUFFICES ASSUME Calm, HandoffInv, HandoffInv', SeamInv, [Next]_vars PROVE SeamInv'
    BY DEF CalmSeamInv, Calm
  <2> USE DEF HandoffInv, PlaceInv, FrameNeverWaits, FlightInv, AskInv, AskRunsOnce, PhaseInv, WakeInv, SeamInv,
              Out, TicRuns, ServePcs, Calm, Main, Game, threads, flight, phase, asking, window
  <2>1. CASE ServeAsks
    BY <2>1 DEF ServeAsks, AsksLock, TakeAsk, RunAsk, Answer, ServeReturns, CheckDone, WaitForWake
  <2>2. CASE Framing
    BY <2>2 DEF Framing, FrameStarts, RestartRequested, RestartThrown, ErrorCleanup, Decide, Frame, FocusQueued,
      FocusActs, PauseChanges, NoFocusChange, Display, DisplayUnwinds
  <2>3. CASE Handoff
    <3>1. CASE FinishTic BY <3>1 DEF FinishTic
    <3>2. CASE HandoffWork BY <3>2 DEF HandoffWork
    <3>3. CASE RunTic \/ RunTicWithoutPlaysim BY <3>3 DEF RunTic, RunTicWithoutPlaysim
    <3>4. CASE TicReturns \/ TicUnwinds BY <3>4 DEF TicReturns, TicUnwinds
    <3>5. CASE HandOver \/ NotifyGameThread BY <3>5 DEF HandOver, NotifyGameThread
    <3>6. CASE NoTicInFlight BY <3>6 DEF NoTicInFlight
    <3> QED BY <2>3, <3>1, <3>2, <3>3, <3>4, <3>5, <3>6 DEF Handoff
  <2>4. CASE GameThreadMain
    BY <2>4 DEF GameThreadMain, Born, WaitForWork, BeginTic, QueueEffect, AskMain, AskReturns, TicEnds, SetDone, Wake
  <2>5. CASE ClockTic \/ SpuriousWake \/ UNCHANGED vars
    BY <2>5 DEF ClockTic, SpuriousWake, vars
  <2> QED BY <2>1, <2>2, <2>3, <2>4, <2>5 DEF Next, MainThread, Framing
<1> QED BY <1>1, <1>2, HandoffInvariant, PTL DEF Spec

\* The handoff's seams are passed by a main thread in the handoff with no game
\* running, where no frame and no inline tic throws.
THEOREM SeamsHold == Spec => [](Calm => HandoffSeams)
<1>1. HandoffInv /\ CalmSeamInv => (Calm => HandoffSeams)
  BY DEF HandoffSeams, HandoffInv, PlaceInv, CalmSeamInv, SeamInv, Out
<1> QED BY <1>1, HandoffInvariant, SeamInvariant, PTL

-----------------------------------------------------------------------------
(* What waits in the effects queue.                                        *)

Effects == {"tic", "focus", "blur"}
Pauses == {0, -1}

\* The pauses while the queue's effects run, from the first to the last.
RunsOver(after, es, p) ==
  /\ after \in [0..Len(es) -> Pauses]
  /\ after[0] = p /\ \A i \in 1..Len(es) : after[i] = SetSoundPaused(es[i], after[i - 1])
  /\ AfterEffects(es, p) = after[Len(es)]

\* Running the effects is a recursion over the queue.
LEMMA EffectsRun ==
  ASSUME NEW es \in Seq(Effects), NEW p \in Pauses
  PROVE  \E after : RunsOver(after, es, p)
<1> DEFINE n == Len(es)
           in == [i \in 0..n |-> Pauses]
           step == [i \in 1..n |-> [x \in Pauses |-> SetSoundPaused(es[i], x)]]
           Runs(f) == f = [i \in 0..n |-> IF i = 0 THEN p ELSE SetSoundPaused(es[i], f[i - 1])]
           run == CHOOSE f : Runs(f)
<1>1. n \in Nat /\ p \in in[0]
  OBVIOUS
<1>2. \A e : \A x \in Pauses : SetSoundPaused(e, x) \in Pauses
  BY DEF SetSoundPaused, Pauses
<1>3. \A i \in 1..n : \A x \in in[i - 1] : step[i][x] \in in[i]
  BY <1>1, <1>2
<1>4. PICK f : Recursion(f, n, p, step, in)
  <2> HIDE DEF n, in, step
  <2> QED BY <1>1, <1>3, RecursionExists
<1>5. Runs(f)
  <2>1. f = [i \in 0..n |-> IF i = 0 THEN p ELSE step[i][f[i - 1]]]
    BY <1>4 DEF Recursion
  <2>2. \A i \in 0..n : f[i] \in Pauses
    BY <1>4 DEF Recursion
  <2>3. \A i \in 1..n : step[i][f[i - 1]] = SetSoundPaused(es[i], f[i - 1])
    BY <1>1, <2>2
  <2> HIDE DEF step
  <2> QED BY <1>1, <2>1, <2>3, SMTT(30)
<1>6. Runs(run) /\ AfterEffects(es, p) = run[n]
  <2>1. AfterEffects(es, p) = run[n]
    BY DEF AfterEffects
  <2> HIDE DEF Runs
  <2> QED BY <1>5, <2>1
<1>7. PICK after : Runs(after) /\ AfterEffects(es, p) = after[n]
  <2> HIDE DEF Runs, run
  <2> QED BY <1>6
<1>8. after[0] = p
  BY <1>1, <1>7
<1>9. ASSUME NEW i \in 1..n PROVE after[i] = SetSoundPaused(es[i], after[i - 1])
  <2>1. i \in 0..n /\ i # 0
    BY <1>1
  <2> QED BY <1>7, <2>1, Zenon
<1>10. after \in [0..n -> Pauses]
  <2> DEFINE T == {i \in 0..n : after[i] \in Pauses}
  <2>1. 0 \in T /\ \A i \in 1..n : i - 1 \in T => i \in T
    BY <1>1, <1>2, <1>8, <1>9
  <2> HIDE DEF T
  <2>2. 0..n \subseteq T
    BY <1>1, <2>1, UpTo
  <2> QED BY <1>7, <2>2 DEF T
<1> QED BY <1>7, <1>8, <1>9, <1>10 DEF RunsOver

\* Nothing to run leaves the pause; one effect more runs after the others.
LEMMA EffectsOneByOne ==
  ASSUME NEW p \in Pauses
  PROVE  /\ AfterEffects(<<>>, p) = p
         /\ \A es \in Seq(Effects), e \in Effects :
              /\ AfterEffects(es, p) \in Pauses
              /\ AfterEffects(Append(es, e), p) = SetSoundPaused(e, AfterEffects(es, p))
<1>1. AfterEffects(<<>>, p) = p
  <2>1. <<>> \in Seq(Effects)
    OBVIOUS
  <2>2. PICK f : RunsOver(f, <<>>, p)
    BY <2>1, EffectsRun
  <2> QED BY <2>2 DEF RunsOver
<1>2. ASSUME NEW es \in Seq(Effects), NEW e \in Effects
      PROVE  /\ AfterEffects(es, p) \in Pauses
             /\ AfterEffects(Append(es, e), p) = SetSoundPaused(e, AfterEffects(es, p))
  <2> DEFINE n == Len(es)
             more == Append(es, e)
  <2>1. n \in Nat /\ more \in Seq(Effects) /\ Len(more) = n + 1
        /\ more[n + 1] = e /\ \A i \in 1..n : more[i] = es[i]
    OBVIOUS
  <2> HIDE DEF more
  <2>2. PICK f : RunsOver(f, es, p)
    BY EffectsRun
  <2>3. PICK h : RunsOver(h, more, p)
    BY <2>1, EffectsRun
  <2> DEFINE T == {i \in 0..n : h[i] = f[i]}
  <2>4. 0 \in T /\ \A i \in 1..n : i - 1 \in T => i \in T
    BY <2>1, <2>2, <2>3 DEF RunsOver
  <2> HIDE DEF T, n
  <2>5. h[n] = f[n]
    <3>1. 0..n \subseteq T
      BY <2>1, <2>4, UpTo
    <3> QED BY <2>1, <3>1 DEF T
  <2>6. h[n + 1] = SetSoundPaused(e, h[n])
    BY <2>1, <2>3 DEF RunsOver
  <2> QED BY <2>1, <2>2, <2>3, <2>5, <2>6 DEF more, n, RunsOver
<1> QED BY <1>1, <1>2

\* Where no tic throws either.
Still == Calm /\ ~TicThrows
StillPauseInv == Still => PauseInv

\* A drained queue leaves the game as its effects would have.
LEMMA DrainStep ==
  ASSUME PauseInv, main # "setsound", main' # "setsound", ~BesideTic', DrainEffects,
         UNCHANGED <<focused, answer>>, ~error', gameThread' \in {"main", "game"}
  PROVE  PauseInv'
<1>1. effects' = <<>> /\ paused' = AfterEffects(effects, paused)
  BY DEF DrainEffects
<1>2. paused' \in Pauses /\ paused' = IF focused THEN 0 ELSE -1
  BY <1>1 DEF PauseInv, Pauses
<1>3. AfterEffects(effects', paused') = paused'
  BY <1>1, <1>2, EffectsOneByOne
<1> QED BY <1>1, <1>2, <1>3 DEF PauseInv, Pauses

\* A step that touches neither queue nor window keeps the pause's invariant
\* when it stays on its side of a focus change that acts at once.
LEMMA KeepStep ==
  ASSUME PauseInv, UNCHANGED <<effects, paused, focused>>,
         (main = "setsound") = (main' = "setsound"),
         ~error', answer' # "threw", gameThread' \in {"main", "game"},
         (~Out \/ gameThread = "main" => effects = <<>>)'
  PROVE  PauseInv'
BY DEF PauseInv

\* What waits in the queue brings the pause to what the window last said, for any
\* number of frames, tics and focus changes, where nothing is thrown.
THEOREM PauseFollows == Spec => [](Still => PauseFollowsFocus)
<1>1. Init => StillPauseInv
  <2>1. AfterEffects(<<>>, 0) = 0 /\ <<>> \in Seq(Effects)
    BY EffectsOneByOne DEF Pauses
  <2> QED BY <2>1 DEF Init, PauseInv, StillPauseInv, Out, Effects
<1>2. HandoffInv /\ HandoffInv' /\ CalmSeamInv /\ CalmSeamInv' /\ StillPauseInv /\ [Next]_vars
        => StillPauseInv'
  <2> SUFFICES ASSUME Still, HandoffInv, HandoffInv', SeamInv, SeamInv', PauseInv, [Next]_vars
               PROVE  PauseInv'
    BY DEF CalmSeamInv, StillPauseInv, Still, Calm
  <2>0. TicThrows = FALSE /\ FrameThrows = FALSE /\ InlineThrows = FALSE
    BY HandoffAssumption DEF Still, Calm
  <2>1. CASE ServeAsks
    <3>1. UNCHANGED <<effects, paused, focused, error, inFlight, gameThread>>
      BY <2>1 DEF ServeAsks, AsksLock, TakeAsk, RunAsk, Answer, ServeReturns, CheckDone, WaitForWake,
                  flight, phase, window
    <3>2. main # "setsound" /\ main' # "setsound" /\ (Out => Out')
      BY <2>1, <3>1 DEF ServeAsks, AsksLock, TakeAsk, RunAsk, Answer, ServeReturns, CheckDone, WaitForWake, Main, Out
    <3>3. answer' # "threw"
      BY <2>0, <2>1 DEF ServeAsks, AsksLock, TakeAsk, RunAsk, Answer, ServeReturns, CheckDone, WaitForWake, PauseInv
    <3> QED BY <3>1, <3>2, <3>3, KeepStep DEF PauseInv
  <2>2. CASE Framing
    <3>1. UNCHANGED <<error, inFlight, gameThread, gameRunning, answer>>
      BY <2>2 DEF Framing, FrameStarts, RestartRequested, RestartThrown, ErrorCleanup, Decide, Frame,
        FocusQueued, FocusActs, PauseChanges, NoFocusChange, Display, DisplayUnwinds, flight, phase, asking
    <3>2. CASE FocusQueued
      <4> DEFINE e == Change(~focused)
      <4>1. /\ effects' = Append(effects, e) /\ focused' = ~focused /\ UNCHANGED paused
            /\ main = "input" /\ main' = "draw" /\ gameThread # "main" /\ gameRunning
        BY <3>2 DEF FocusQueued, Main, BesideTic
      <4>2. e \in Effects /\ SetSoundPaused(e, 0) = (IF focused' THEN 0 ELSE -1)
            /\ SetSoundPaused(e, -1) = (IF focused' THEN 0 ELSE -1)
        <5>1. CASE focused = TRUE
          <6>1. e = "blur" /\ focused' = FALSE
            BY <4>1, <5>1 DEF Change
          <6> QED BY <6>1 DEF Effects, SetSoundPaused
        <5>2. CASE focused = FALSE
          <6>1. e = "focus" /\ focused' = TRUE
            BY <4>1, <5>2 DEF Change
          <6> QED BY <6>1 DEF Effects, SetSoundPaused
        <5> QED BY <5>1, <5>2 DEF PauseInv
      <4>3. AfterEffects(effects', paused') = (IF focused' THEN 0 ELSE -1)
        BY <4>1, <4>2, EffectsOneByOne DEF PauseInv, Effects, Pauses
      <4>4. Out' /\ gameThread' # "main"
        BY <3>1, <4>1 DEF SeamInv, Out
      <4>5. effects' \in Seq(Effects)
        BY <4>1, <4>2 DEF PauseInv, Effects
      <4> QED BY <3>1, <4>1, <4>3, <4>4, <4>5 DEF PauseInv, Effects
    <3>3. CASE FocusActs
      <4>1. /\ main = "input" /\ main' = "setsound" /\ focused' = ~focused
            /\ UNCHANGED <<effects, paused>> /\ ~BesideTic
        BY <3>3 DEF FocusActs, Main
      <4>2. effects = <<>>
        BY <4>1 DEF PauseInv, HandoffInv, PhaseInv, BesideTic, Out
      <4>3. \A p \in Pauses : AfterEffects(effects', p) = p
        BY <4>1, <4>2, EffectsOneByOne
      <4>4. AfterEffects(effects', paused') = (IF focused' THEN -1 ELSE 0)
        BY <4>1 DEF PauseInv
      <4> QED BY <3>1, <4>1, <4>2, <4>3, <4>4 DEF PauseInv, Pauses
    <3>4. CASE PauseChanges
      <4>1. /\ main = "setsound" /\ main' = "draw"
            /\ paused' = SetSoundPaused(Change(focused), paused) /\ UNCHANGED <<effects, focused>>
        BY <3>4 DEF PauseChanges, Main
      <4>2. paused = (IF focused THEN -1 ELSE 0) /\ focused \in BOOLEAN
        BY <4>1 DEF PauseInv
      <4>3. paused' \in Pauses /\ paused' = (IF focused THEN 0 ELSE -1)
        BY <4>1, <4>2 DEF SetSoundPaused, Change, Pauses
      <4>4. AfterEffects(effects', paused') = paused'
        BY <4>1, <4>3 DEF PauseInv, Pauses
      <4> QED BY <3>1, <4>1, <4>3, <4>4 DEF PauseInv, Pauses, Out
    <3>5. CASE FrameStarts \/ RestartRequested \/ RestartThrown \/ ErrorCleanup \/ Decide
               \/ NoFocusChange \/ Display \/ DisplayUnwinds
      <4>1. UNCHANGED <<effects, paused, focused>> /\ main # "setsound" /\ main' # "setsound"
            /\ main # "notify" /\ main' # "notify"
        BY <3>5 DEF FrameStarts, RestartRequested, RestartThrown, ErrorCleanup, Decide, NoFocusChange, Display,
                    DisplayUnwinds, Main, window
      <4> QED BY <3>1, <4>1, KeepStep DEF PauseInv, Out
    <3> QED BY <2>2, <3>2, <3>3, <3>4, <3>5 DEF Framing, Frame
  <2>3. CASE Handoff
    <3>1. main # "setsound" /\ main' # "setsound" /\ UNCHANGED <<focused, answer>> /\ ~error'
      BY <2>3 DEF Handoff, FinishTic, HandoffWork, RunTic, RunTicWithoutPlaysim, TicReturns, TicUnwinds,
        HandOver, NotifyGameThread, NoTicInFlight, Main, PauseInv, flight, asking, window
    <3>2. CASE FinishTic \/ RunTicWithoutPlaysim \/ TicReturns
      <4>1. DrainEffects /\ UNCHANGED gameThread /\ ~gameRunning'
        BY <3>2 DEF FinishTic, RunTicWithoutPlaysim, TicReturns, PauseInv, phase, HandoffInv, PlaceInv, SeamInv, Out
      <4> QED BY <3>1, <4>1, DrainStep DEF BesideTic, PauseInv
    <3>3. CASE HandoffWork \/ RunTic \/ TicUnwinds \/ HandOver \/ NotifyGameThread \/ NoTicInFlight
      <4>1. /\ UNCHANGED <<effects, paused>> /\ gameThread' \in {gameThread, "main"} /\ (Out => Out')
            /\ gameThread' # gameThread => ~Out
        BY <3>3 DEF HandoffWork, RunTic, TicUnwinds, HandOver, NotifyGameThread, NoTicInFlight, Main, Out, phase,
             flight, window, HandoffInv, PlaceInv
      <4> QED BY <3>1, <4>1, KeepStep DEF PauseInv
    <3> QED BY <2>3, <3>2, <3>3 DEF Handoff
  <2>4. CASE GameThreadMain
    <3>1. UNCHANGED <<inFlight, paused, focused>> /\ ~error' /\ answer' # "threw"
          /\ gameThread' \in {gameThread, "game"}
      <4> USE DEF PauseInv, flight, phase, asking, window
      <4>1. CASE Born BY <4>1 DEF Born
      <4>5. CASE WaitForWork \/ BeginTic BY <4>5 DEF WaitForWork, BeginTic
      <4>2. CASE QueueEffect \/ SetDone \/ Wake BY <4>2 DEF QueueEffect, SetDone, Wake
      <4>3. CASE AskMain BY <4>3 DEF AskMain
      <4>6. CASE AskReturns BY <4>6 DEF AskReturns
      <4>4. CASE TicEnds BY <2>0, <4>4 DEF TicEnds
      <4> QED BY <2>4, <4>1, <4>2, <4>3, <4>4, <4>5, <4>6 DEF GameThreadMain
    <3>2. (main = "setsound") = (main' = "setsound") /\ (main = "notify") = (main' = "notify")
      BY <2>4 DEF GameThreadMain, Born, WaitForWork, BeginTic, QueueEffect, AskMain, AskReturns, TicEnds,
        SetDone, Wake, threads
    <3>3. CASE QueueEffect
      <4>1. /\ effects' = Append(effects, "tic") /\ game = "tic" /\ UNCHANGED main
            /\ gameThread = "game" /\ gameThread' = "game"
        BY <3>3 DEF QueueEffect, Deferring, threads, phase
      <4>2. \A p \in Pauses : AfterEffects(effects', p) = AfterEffects(effects, p)
        BY <4>1, EffectsOneByOne DEF PauseInv, Effects, SetSoundPaused
      <4>3. Out /\ Out'
        BY <3>1, <4>1 DEF HandoffInv, FlightInv, TicRuns, Out
      <4>4. effects' \in Seq(Effects)
        BY <4>1 DEF PauseInv, Effects
      <4>5. AfterEffects(effects', paused') = AfterEffects(effects, paused)
        BY <3>1, <4>2 DEF PauseInv, Pauses
      <4> QED BY <3>1, <4>1, <4>2, <4>3, <4>4, <4>5 DEF PauseInv, Effects, Pauses
    <3>4. CASE ~QueueEffect
      <4>1. UNCHANGED effects
        BY <2>4, <3>4 DEF GameThreadMain, Born, WaitForWork, BeginTic, AskMain, AskReturns, TicEnds, SetDone, Wake
      <4> QED BY <3>1, <3>2, <4>1, KeepStep DEF PauseInv, Out
    <3> QED BY <3>3, <3>4
  <2>5. CASE ClockTic \/ SpuriousWake \/ UNCHANGED vars
    <3>1. /\ UNCHANGED <<effects, paused, focused, error, answer, gameThread, inFlight>>
          /\ (main = "setsound") = (main' = "setsound") /\ (main = "notify") = (main' = "notify")
      BY <2>5 DEF ClockTic, SpuriousWake, vars, Main, threads, flight, phase, asking, window
    <3> QED BY <3>1, KeepStep DEF PauseInv, Out
  <2> QED BY <2>1, <2>2, <2>3, <2>4, <2>5 DEF Next, MainThread, Framing
<1>3. StillPauseInv => (Still => PauseFollowsFocus)
  BY DEF StillPauseInv, PauseInv, PauseFollowsFocus
<1> QED BY <1>1, <1>2, <1>3, HandoffInvariant, SeamInvariant, PTL DEF Spec

\* An ask runs exactly once before it returns.
THEOREM AsksRunOnce == Spec => []AskRunsOnce
<1>1. HandoffInv => AskRunsOnce BY DEF HandoffInv, AskInv
<1> QED BY <1>1, HandoffInvariant, PTL

\* A frame never waits for a tic, and a restart that does is woken.
THEOREM WaitsEnd == Spec => [](FrameNeverWaits /\ NoLostWake)
<1>1. HandoffInv => FrameNeverWaits /\ NoLostWake
  BY DEF HandoffInv, PlaceInv, WakeInv, FrameNeverWaits, NoLostWake, ServePcs
<1> QED BY <1>1, HandoffInvariant, PTL

-----------------------------------------------------------------------------
(* The handoff takes turns.                                                *)

\* Every step passes the game from one owner to the next, or leaves it.
THEOREM ImplementsTurns == Spec => Turns!Safety
<1> DEFINE turn == IF main = "asked" THEN "lent"
                   ELSE IF work \/ TicRuns THEN "tic"
                   ELSE IF done /\ (inFlight \/ main = "notify") THEN "over"
                   ELSE "main"
<1>1. Init => Turns!Init
  BY DEF Init, Turns!Init, TicRuns
<1>2. HandoffInv /\ HandoffInv' /\ [Next]_vars => [Turns!Next]_turn
  <2> SUFFICES ASSUME HandoffInv, HandoffInv', [Next]_vars PROVE [Turns!Next]_turn OBVIOUS
  <2> USE DEF Turns!Next, Turns!Pass, HandoffInv, PlaceInv, FrameNeverWaits, FlightInv, AskInv, AskRunsOnce,
              Out, TicRuns, ServePcs, Main, Game, threads, flight, phase, asking, window
  <2>1. CASE ServeAsks
    <3>1. CASE TakeAsk BY <3>1 DEF TakeAsk, Turns!Lend
    <3>2. CASE RunAsk BY <3>2 DEF RunAsk, Turns!Return
    <3>3. CASE AsksLock \/ Answer \/ ServeReturns \/ CheckDone \/ WaitForWake
      BY <3>3 DEF AsksLock, Answer, ServeReturns, CheckDone, WaitForWake
    <3> QED BY <2>1, <3>1, <3>2, <3>3 DEF ServeAsks
  <2>2. CASE Framing
    BY <2>2 DEF Framing, FrameStarts, RestartRequested, RestartThrown, ErrorCleanup, Decide, Frame, FocusQueued,
      FocusActs, PauseChanges, NoFocusChange, Display, DisplayUnwinds
  <2>3. CASE Handoff
    <3>1. CASE FinishTic BY <3>1 DEF FinishTic, Turns!Take
    <3>2. CASE HandOver BY <3>2 DEF HandOver, Turns!Give
    <3>3. CASE HandoffWork \/ RunTic \/ RunTicWithoutPlaysim
      BY <3>3 DEF HandoffWork, RunTic, RunTicWithoutPlaysim
    <3>4. CASE TicReturns \/ TicUnwinds \/ NotifyGameThread \/ NoTicInFlight
      BY <3>4 DEF TicReturns, TicUnwinds, NotifyGameThread, NoTicInFlight
    <3> QED BY <2>3, <3>1, <3>2, <3>3, <3>4 DEF Handoff
  <2>4. CASE GameThreadMain
    <3>1. CASE SetDone BY <3>1 DEF SetDone, Turns!End
    <3>2. CASE Born \/ WaitForWork \/ BeginTic \/ QueueEffect
      BY <3>2 DEF Born, WaitForWork, BeginTic, QueueEffect
    <3>3. CASE AskMain \/ AskReturns \/ TicEnds \/ Wake
      BY <3>3 DEF AskMain, AskReturns, TicEnds, Wake
    <3> QED BY <2>4, <3>1, <3>2, <3>3 DEF GameThreadMain
  <2>5. CASE ClockTic \/ SpuriousWake \/ UNCHANGED vars
    BY <2>5 DEF ClockTic, SpuriousWake, vars
  <2> QED BY <2>1, <2>2, <2>3, <2>4, <2>5 DEF Next, MainThread, Framing
<1> QED BY <1>1, <1>2, HandoffInvariant, PTL DEF Spec, Turns!Safety

=============================================================================
