------------------------------- MODULE JobPool -------------------------------
(***************************************************************************)
(* The engine's fork-join pool (features/jobs, JobPool): a caller and its  *)
(* workers share out the indices of one job at a time.                     *)
(*                                                                         *)
(* Each access to an atomic that another thread may be changing is a step  *)
(* of its own, and so is each wait for the mutex, the condition variable   *)
(* or a count.  What a thread writes while no other can look (the job's    *)
(* fields before it opens, the lanes while no thread lives) is one step.   *)
(* Names that GameThread has too are told apart here (PoolNext, WakePool), *)
(* as ThreadProofs extends both.                                           *)
(***************************************************************************)
EXTENDS Naturals, FiniteSets

CONSTANTS
  Caller,         \* the one thread that calls the pool, lane 0 of its jobs
  Workers,        \* the lanes a worker thread can have
  MaxCount,       \* the most items one job has
  GenMod,         \* m_generation wraps at GenMod (2^32 in the build)
  MayBlock,       \* may the caller join threads (not in a browser)?
  SelfWakes,      \* may the condition variable wake a thread on its own?
  Nobody          \* no thread

ASSUME PoolAssumption ==
  /\ IsFiniteSet(Workers)
  /\ Caller \notin Workers
  /\ Nobody \notin Workers \cup {Caller}
  /\ MaxCount \in Nat
  /\ GenMod \in Nat \ {0, 1}
  /\ MayBlock \in BOOLEAN
  /\ SelfWakes \in BOOLEAN

Lanes == Workers \cup {Caller}
Items == 0 .. MaxCount - 1

VARIABLES
  pc,          \* where each thread is; "none" for a lane with no thread
  mutex,       \* who holds m_mutex
  waitSet,     \* the threads waiting on m_wake that nothing has woken
  count,       \* m_count (m_fn and m_user are written and read with it)
  next,        \* m_next
  doneCount,   \* m_done
  laneStart,   \* the lanes whose m_laneStart is a time, not -1
  open,        \* m_open
  generation,  \* m_generation
  stop,        \* m_stop
  active,      \* m_active
  sleeping,    \* m_sleeping
  seen,        \* each worker's local seen
  item,        \* each lane's local i in RunItems
  ran,         \* the workers whose local ran is not 0
  asked,       \* the caller's parameter count, 0 outside ParallelFor
  todo,        \* history: the indices of the caller's job that have not run
  runners      \* history: the workers that ran an index of it

cond == <<mutex, waitSet>>
job == <<count, next, doneCount, laneStart>>
signals == <<open, generation, stop>>
tallies == <<active, sleeping>>
locals == <<seen, item, ran>>
history == <<asked, todo, runners>>
poolVars == <<pc, cond, job, signals, tallies, locals, history>>

PoolInit ==
  /\ pc = [l \in Lanes |-> IF l = Caller THEN "idle" ELSE "none"]
  /\ mutex = Nobody /\ waitSet = {}
  /\ count = 0 /\ next = 0 /\ doneCount = 0 /\ laneStart = {}
  /\ open = FALSE /\ generation = 0 /\ stop = FALSE
  /\ active = 0 /\ sleeping = 0
  /\ seen = [w \in Workers |-> 0]
  /\ item = [l \in Lanes |-> 0]
  /\ ran = {}
  /\ asked = 0 /\ todo = {} /\ runners = {}

Threads == {w \in Workers : pc[w] # "none"}

GoTo(l, from, to) ==
  /\ pc[l] = from
  /\ pc' = [pc EXCEPT ![l] = to]

-----------------------------------------------------------------------------
(* RunItems, on any lane.  Its locals item and ran start as 0 and FALSE    *)
(* and are put back to that when it ends.                                  *)

\* Mutant: m_next is set from what the lane had of it, not fetched and added.
TakeItemStale(l) ==
  /\ GoTo(l, "take", IF next < count THEN "run"
                  ELSE IF l = Caller THEN "awaitdone" ELSE "record")
  /\ item' = [item EXCEPT ![l] = IF next < count THEN next ELSE 0]
  /\ next' = item[l] + 1
  /\ UNCHANGED <<cond, count, doneCount, laneStart, signals, tallies, seen, ran, history>>

TakeItem(l) ==
  /\ GoTo(l, "take", IF next < count THEN "run"
                  ELSE IF l = Caller THEN "awaitdone" ELSE "record")
  /\ item' = [item EXCEPT ![l] = IF next < count THEN next ELSE 0]
  /\ next' = next + 1
  /\ UNCHANGED <<cond, count, doneCount, laneStart, signals, tallies, seen, ran, history>>

RunItem(l) ==
  /\ GoTo(l, "run", "countdone")
  /\ todo' = todo \ {item[l]}
  /\ runners' = runners \cup ({l} \cap Workers)
  /\ UNCHANGED <<cond, job, signals, tallies, locals, asked>>

CountDone(l) ==
  /\ GoTo(l, "countdone", "take")
  /\ doneCount' = doneCount + 1
  /\ ran' = ran \cup ({l} \cap Workers)
  /\ UNCHANGED <<cond, count, next, laneStart, signals, tallies, seen, item, history>>

RecordStart(w) ==
  /\ GoTo(w, "record", "leave")
  /\ laneStart' = laneStart \cup ({w} \cap ran)
  /\ ran' = ran \ {w}
  /\ UNCHANGED <<cond, count, next, doneCount, signals, tallies, seen, item, history>>

RunItems(l) == TakeItem(l) \/ RunItem(l) \/ CountDone(l)

-----------------------------------------------------------------------------
(* A worker idle: SpinFor and Sleep.                                       *)

News(w) == generation # seen[w] \/ stop

SpinSees(w) ==
  /\ News(w)
  /\ GoTo(w, "spin", "checkstop")
  /\ UNCHANGED <<cond, job, signals, tallies, locals, history>>

\* The time runs out after a poll that found nothing, which may be stale now.
SpinTimesOut(w) ==
  /\ GoTo(w, "spin", "lock")
  /\ UNCHANGED <<cond, job, signals, tallies, locals, history>>

SleepLocks(w) ==
  /\ mutex = Nobody
  /\ GoTo(w, "lock", "predicate")
  /\ mutex' = w
  /\ sleeping' = sleeping + 1
  /\ UNCHANGED <<waitSet, job, signals, active, locals, history>>

\* The predicate is false; the wait that follows lets the mutex go and joins
\* the wait set at once.
SleepFindsNothing(w) ==
  /\ ~News(w)
  /\ GoTo(w, "predicate", "wait")
  /\ UNCHANGED <<cond, job, signals, tallies, locals, history>>

SleepWaits(w) ==
  /\ GoTo(w, "wait", "waiting")
  /\ mutex' = Nobody
  /\ waitSet' = waitSet \cup {w}
  /\ UNCHANGED <<job, signals, tallies, locals, history>>

\* A woken thread takes the mutex back to look at its predicate again.
SleepRelocks(w) ==
  /\ w \notin waitSet
  /\ mutex = Nobody
  /\ GoTo(w, "waiting", "predicate")
  /\ mutex' = w
  /\ UNCHANGED <<waitSet, job, signals, tallies, locals, history>>

SleepEnds(w) ==
  /\ News(w)
  /\ GoTo(w, "predicate", "checkstop")
  /\ mutex' = Nobody
  /\ sleeping' = sleeping - 1
  /\ UNCHANGED <<waitSet, job, signals, active, locals, history>>

SelfWake(w) ==
  /\ SelfWakes
  /\ w \in waitSet
  /\ waitSet' = waitSet \ {w}
  /\ UNCHANGED <<pc, mutex, job, signals, tallies, locals, history>>

-----------------------------------------------------------------------------
(* A worker's loop: WorkerMain.                                            *)

ReadGeneration(w) ==
  /\ \/ GoTo(w, "start", "spin")
     \/ GoTo(w, "readgen", "join")
  /\ seen' = [seen EXCEPT ![w] = generation]
  /\ UNCHANGED <<cond, job, signals, tallies, item, ran, history>>

\* Mutant: a woken worker goes back to its spin without taking the new generation.
CheckStopOnly(w) ==
  /\ GoTo(w, "checkstop", IF stop THEN "exited" ELSE "spin")
  /\ UNCHANGED <<cond, job, signals, tallies, locals, history>>

CheckStop(w) ==
  /\ GoTo(w, "checkstop", IF stop THEN "exited" ELSE "readgen")
  /\ UNCHANGED <<cond, job, signals, tallies, locals, history>>

JoinJob(w) ==
  /\ GoTo(w, "join", "checkopen")
  /\ active' = active + 1
  /\ UNCHANGED <<cond, job, signals, sleeping, locals, history>>

CheckOpen(w) ==
  /\ GoTo(w, "checkopen", IF open THEN "checkgen" ELSE "leave")
  /\ UNCHANGED <<cond, job, signals, tallies, locals, history>>

CheckGeneration(w) ==
  /\ GoTo(w, "checkgen", IF generation = seen[w] THEN "take" ELSE "leave")
  /\ UNCHANGED <<cond, job, signals, tallies, locals, history>>

LeaveJob(w) ==
  /\ GoTo(w, "leave", "spin")
  /\ active' = active - 1
  /\ UNCHANGED <<cond, job, signals, sleeping, locals, history>>

WorkerMain(w) ==
  \/ SpinSees(w) \/ SpinTimesOut(w)
  \/ SleepLocks(w) \/ SleepFindsNothing(w) \/ SleepWaits(w) \/ SleepRelocks(w) \/ SleepEnds(w)
  \/ ReadGeneration(w) \/ CheckStop(w)
  \/ JoinJob(w) \/ CheckOpen(w) \/ CheckGeneration(w)
  \/ RunItems(w) \/ RecordStart(w) \/ LeaveJob(w)

-----------------------------------------------------------------------------
(* The caller: ParallelFor.                                                *)

CallParallelFor ==
  /\ \E n \in 0 .. MaxCount :
       /\ asked' = n
       /\ todo' = 0 .. n - 1
       /\ GoTo(Caller, "idle", IF Threads = {} \/ n <= 1 THEN "inline" ELSE "publish")
  /\ UNCHANGED <<cond, job, signals, tallies, locals, runners>>

RunInline ==
  /\ pc[Caller] = "inline"
  /\ item[Caller] < asked
  /\ todo' = todo \ {item[Caller]}
  /\ item' = [item EXCEPT ![Caller] = @ + 1]
  /\ UNCHANGED <<pc, cond, job, signals, tallies, seen, ran, asked, runners>>

ReturnInline ==
  /\ item[Caller] >= asked
  /\ GoTo(Caller, "inline", "idle")
  /\ item' = [item EXCEPT ![Caller] = 0]
  /\ asked' = 0
  /\ UNCHANGED <<cond, job, signals, tallies, seen, ran, todo, runners>>

\* Mutant: the next index goes on from the last job's.
PublishJobOverNext ==
  /\ GoTo(Caller, "publish", "open")
  /\ count' = asked
  /\ doneCount' = 0
  /\ laneStart' = {}
  /\ UNCHANGED <<cond, next, signals, tallies, locals, history>>

PublishJob ==
  /\ GoTo(Caller, "publish", "open")
  /\ count' = asked
  /\ next' = 0
  /\ doneCount' = 0
  /\ laneStart' = {}
  /\ UNCHANGED <<cond, signals, tallies, locals, history>>

OpenJob ==
  /\ GoTo(Caller, "open", "bump")
  /\ open' = TRUE
  /\ UNCHANGED <<cond, job, generation, stop, tallies, locals, history>>

BumpGeneration(from, to) ==
  /\ GoTo(Caller, from, to)
  /\ generation' = (generation + 1) % GenMod
  /\ UNCHANGED <<cond, job, open, stop, tallies, locals, history>>

\* asleep is read once, and the mutex taken only if it is not 0.
\* Mutant: the caller notifies without passing the lock.
ReadSleepingUnlocked ==
  /\ GoTo(Caller, "readsleeping", "notify")
  /\ UNCHANGED <<cond, job, signals, tallies, locals, history>>

ReadSleeping ==
  /\ GoTo(Caller, "readsleeping", IF sleeping > 0 THEN "passlock" ELSE "notify")
  /\ UNCHANGED <<cond, job, signals, tallies, locals, history>>

\* Takes the mutex and lets it go.
PassLock(from, to) ==
  /\ mutex = Nobody
  /\ GoTo(Caller, from, to)
  /\ UNCHANGED <<cond, job, signals, tallies, locals, history>>

NotifyAll(from, to) ==
  /\ GoTo(Caller, from, to)
  /\ waitSet' = {}
  /\ UNCHANGED <<mutex, job, signals, tallies, locals, history>>

AwaitDone ==
  /\ doneCount >= count
  /\ GoTo(Caller, "awaitdone", "close")
  /\ UNCHANGED <<cond, job, signals, tallies, locals, history>>

CloseJob ==
  /\ GoTo(Caller, "close", "awaitquiet")
  /\ open' = FALSE
  /\ UNCHANGED <<cond, job, generation, stop, tallies, locals, history>>

\* Mutant: the caller returns without waiting for the workers to leave.
AwaitNobody ==
  /\ GoTo(Caller, "awaitquiet", "observe")
  /\ UNCHANGED <<cond, job, signals, tallies, locals, history>>

AwaitQuiet ==
  /\ active = 0
  /\ GoTo(Caller, "awaitquiet", "observe")
  /\ UNCHANGED <<cond, job, signals, tallies, locals, history>>

\* The observer hears from m_laneStart which lanes ran.
ReturnFromJob ==
  /\ GoTo(Caller, "observe", "idle")
  /\ asked' = 0
  /\ runners' = {}
  /\ UNCHANGED <<cond, job, signals, tallies, locals, todo>>

ParallelFor ==
  \/ RunInline \/ ReturnInline
  \/ PublishJob \/ OpenJob \/ BumpGeneration("bump", "readsleeping")
  \/ ReadSleeping \/ PassLock("passlock", "notify") \/ NotifyAll("notify", "take")
  \/ RunItems(Caller)
  \/ AwaitDone \/ CloseJob \/ AwaitQuiet \/ ReturnFromJob

-----------------------------------------------------------------------------
(* The caller: Wake, Resize and Stop.                                      *)

CallWake ==
  /\ sleeping > 0
  /\ GoTo(Caller, "idle", "wakebump")
  /\ UNCHANGED <<cond, job, signals, tallies, locals, history>>

WakePool ==
  \/ BumpGeneration("wakebump", "wakelock")
  \/ PassLock("wakelock", "wakenotify")
  \/ NotifyAll("wakenotify", "idle")

\* A caller that may not block keeps the threads the pool has.
CallResize ==
  /\ MayBlock \/ Threads = {}
  /\ GoTo(Caller, "idle", "stopset")
  /\ UNCHANGED <<cond, job, signals, tallies, locals, history>>

\* Mutant: m_stop is set without the mutex.
StopSetsUnlocked ==
  /\ GoTo(Caller, "stopset", "stopnotify")
  /\ stop' = TRUE
  /\ UNCHANGED <<cond, job, open, generation, tallies, locals, history>>

StopSets ==
  /\ mutex = Nobody
  /\ GoTo(Caller, "stopset", "stopnotify")
  /\ stop' = TRUE
  /\ UNCHANGED <<cond, job, open, generation, tallies, locals, history>>

\* Every thread is joined; no other lives as the pool takes its new size.
StopJoins ==
  /\ pc[Caller] = "stopjoin"
  /\ \A w \in Threads : pc[w] = "exited"
  /\ stop' = FALSE
  /\ laneStart' = {}
  /\ seen' = [w \in Workers |-> 0]
  /\ \E lanes \in SUBSET Workers :
       /\ Cardinality(lanes) # Cardinality(Threads)
       /\ pc' = [l \in Lanes |-> IF l = Caller THEN "idle"
                                ELSE IF l \in lanes THEN "start" ELSE "none"]
  /\ UNCHANGED <<cond, count, next, doneCount, open, generation, tallies, item, ran, history>>

Resize == StopSets \/ NotifyAll("stopnotify", "stopjoin") \/ StopJoins

-----------------------------------------------------------------------------

Calls == CallParallelFor \/ CallWake \/ CallResize

PoolNext ==
  \/ Calls \/ ParallelFor \/ WakePool \/ Resize
  \/ \E w \in Workers : WorkerMain(w) \/ SelfWake(w)

PoolSpec == PoolInit /\ [][PoolNext]_poolVars

(***************************************************************************)
(* The scheduler runs every thread that can go on, and a thread that wants *)
(* the mutex gets it in the end, although others, woken for nothing, take  *)
(* it between.  Nothing makes the engine call the pool, and no spurious    *)
(* wake is owed.                                                           *)
(***************************************************************************)
PoolFairness ==
  /\ SF_poolVars(ParallelFor \/ WakePool \/ Resize)
  /\ \A w \in Workers : SF_poolVars(WorkerMain(w))

PoolFairSpec == PoolSpec /\ PoolFairness

-----------------------------------------------------------------------------
(* Properties.                                                             *)

InJobPcs == {"take", "run", "countdone", "record"}

\* Where a worker counts itself in m_active, and in m_sleeping.
ActivePcs == InJobPcs \cup {"checkopen", "checkgen", "leave"}
SleepPcs == {"predicate", "wait", "waiting"}
WorkerPcs == ActivePcs \cup SleepPcs \cup
  {"none", "start", "spin", "lock", "checkstop", "readgen", "join", "exited"}

OpenPcs == {"bump", "readsleeping", "passlock", "notify", "take", "run", "countdone",
            "awaitdone", "close"}
JobPcs == OpenPcs \cup {"publish", "open", "awaitquiet", "observe"}
StopPcs == {"stopset", "stopnotify", "stopjoin"}
CallerPcs == JobPcs \cup StopPcs \cup {"idle", "inline", "wakebump", "wakelock", "wakenotify"}

PcsOK ==
  /\ pc \in [Lanes -> WorkerPcs \cup CallerPcs]
  /\ pc[Caller] \in CallerPcs
  /\ \A w \in Workers : pc[w] \in WorkerPcs

\* Every thread is in a place of its own kind, every variable keeps its type.
TypeOK ==
  /\ PcsOK
  /\ mutex \in Workers \cup {Nobody}
  /\ waitSet \subseteq Workers
  /\ count \in 0 .. MaxCount
  /\ next \in Nat
  /\ doneCount \in Nat
  /\ laneStart \subseteq Workers
  /\ open \in BOOLEAN
  /\ generation \in 0 .. GenMod - 1
  /\ stop \in BOOLEAN
  /\ active \in Nat
  /\ sleeping \in Nat
  /\ seen \in [Workers -> 0 .. GenMod - 1]
  /\ item \in [Lanes -> Nat]
  /\ ran \subseteq Workers
  /\ asked \in 0 .. MaxCount
  /\ todo \subseteq Items
  /\ runners \subseteq Workers

InJob(w) == pc[w] \in InJobPcs

\* The job's fields, m_laneStart and what the caller's function captured are
\* the caller's alone outside a job: while the caller writes the next job,
\* reads the last one's lanes, or has returned, no worker is in RunItems.
JobRaceFree ==
  pc[Caller] \notin OpenPcs \cup {"awaitquiet"} => \A w \in Workers : ~InJob(w)

\* No index runs twice, not even on two lanes at once: a lane about to run one
\* holds it alone, and it has not run before.
AtMostOnce ==
  \A l \in Lanes : pc[l] = "run" =>
    /\ item[l] \in todo
    /\ \A m \in Lanes \ {l} : pc[m] = "run" => item[m] # item[l]

\* ParallelFor returns only once every index it was asked for has run.
AllRanOnReturn ==
  pc[Caller] \notin (OpenPcs \ {"close"}) \cup {"publish", "open", "inline"} => todo = {}

\* The lanes the observer is told of are the workers that ran an item of
\* this job, whatever earlier jobs left in m_laneStart.
LanesTold ==
  pc[Caller] = "observe" => laneStart = runners

\* A worker left waiting on m_wake has nothing to wake for, unless the caller
\* is between changing what its predicate reads and notifying it: no wake is
\* lost between a worker's check and its wait.
NoWakeMissed ==
  (\E w \in waitSet : News(w)) =>
    pc[Caller] \in {"readsleeping", "passlock", "notify", "wakelock", "wakenotify", "stopnotify"}

\* m_active counts the workers the caller has to wait for and m_sleeping the
\* ones it has to wake, however they interleave.
TalliesExact ==
  /\ active = Cardinality({w \in Workers : pc[w] \in ActivePcs})
  /\ sleeping = Cardinality({w \in Workers : pc[w] \in SleepPcs})

\* Every call of the pool returns: a job ends, a stop joins every thread.
CallsReturn == pc[Caller] # "idle" ~> pc[Caller] = "idle"

\* Workers that nothing calls stop spinning: they end up waiting, and one that
\* wakes for nothing finds so and waits again.
IdlePoolSleeps ==
  <>[](pc[Caller] = "idle") => <>[](\A w \in Workers : pc[w] \in SleepPcs \cup {"none"})

\* The pool implements fork-join: each index that a ParallelFor asked for has
\* run, at least once, by the time the call returns, and the call does return.
\* That none runs twice, a second run being a stutter there, is AtMostOnce.
FJ == INSTANCE ForkJoin WITH
  running <- pc[Caller] \in JobPcs \cup {"inline"}
ForkJoins == FJ!Spec

-----------------------------------------------------------------------------
(* The inductive invariant the safety properties follow from.              *)

Holds(l) == pc[l] \in {"run", "countdone"}

\* The indices that have not been counted in m_done.
Undone == todo \cup {item[l] : l \in {m \in Lanes : pc[m] = "countdone"}}

\* Between the job's publication and the caller's return.
Published == OpenPcs \cup {"open", "awaitquiet", "observe"}

\* What the caller's place says of the flags and of the workers' places.
CallerInv ==
  /\ open <=> pc[Caller] \in OpenPcs
  /\ stop <=> pc[Caller] \in {"stopnotify", "stopjoin"}
  /\ \A w \in Workers : InJob(w) \/ pc[w] = "checkgen" => pc[Caller] \in OpenPcs \cup {"awaitquiet"}
  /\ pc[Caller] \in {"awaitdone", "close"} => next >= count

\* Who holds which index, and what is left to run and to count.
ItemInv ==
  /\ pc[Caller] \in Published => count = asked
  /\ \A l \in Lanes : Holds(l) => item[l] < next /\ item[l] < count
  /\ \A l, m \in Lanes : Holds(l) /\ Holds(m) /\ l # m => item[l] # item[m]
  /\ pc[Caller] \in Published =>
       \A i \in Items : i \in todo <=>
         i < count /\ (i >= next \/ \E l \in Lanes : pc[l] = "run" /\ item[l] = i)
  /\ pc[Caller] = "publish" => todo = 0 .. asked - 1
  /\ pc[Caller] = "inline" => todo = item[Caller] .. asked - 1
  /\ pc[Caller] \notin JobPcs \cup {"inline"} => todo = {} /\ asked = 0
  /\ item[Caller] = 0 \/ Holds(Caller) \/ pc[Caller] \in {"inline", "take"}

\* m_done and the indices not counted in it make up the job.
CountInv ==
  /\ pc[Caller] \in Published => doneCount + Cardinality(Undone) = count
  /\ pc[Caller] \in {"close", "awaitquiet", "observe"} => Undone = {}

\* Which workers have run an item, and where that is noted.
LaneInv ==
  /\ \A w \in ran : InJob(w)
  /\ pc[Caller] \in Published =>
       runners = laneStart \cup ran \cup {w \in Workers : pc[w] = "countdone"}
  /\ pc[Caller] \notin Published => runners = {}

\* Who holds the mutex, and when a thread about to wait may miss news.
SleepInv ==
  /\ \A w \in Workers : mutex = w <=> pc[w] \in {"predicate", "wait"}
  /\ \A w \in waitSet : pc[w] = "waiting"
  /\ \A w \in Workers : pc[w] = "wait" /\ News(w) =>
       pc[Caller] \in {"readsleeping", "passlock", "wakelock"}

\* The invariant of the pool: each part below is kept by every step when all
\* of them hold, and together they give the safety properties above.
PoolInv ==
  /\ TypeOK
  /\ TalliesExact
  /\ CallerInv
  /\ ItemInv
  /\ CountInv
  /\ LaneInv
  /\ SleepInv
  /\ NoWakeMissed

=============================================================================
