----------------------------- MODULE GameThread -----------------------------
(***************************************************************************)
(* The playsim's tic on a thread of its own, and the handoff around it     *)
(* (features/handoff, features/gameloop): the main thread hands a tic to   *)
(* the game thread, draws frames beside it, answers its calls, and takes   *)
(* it back on a later clock tic.                                           *)
(*                                                                         *)
(* A critical section of g_mutex is one step.  The asks' mutex is explicit,*)
(* since g_done is set outside it: the main thread's look at g_done and    *)
(* its wait are two steps with the mutex held.                             *)
(***************************************************************************)
EXTENDS Integers, Sequences

CONSTANTS
  MaxInline,     \* the most tics a frame runs inline to catch up
  MaxAsks,       \* the most calls one tic asks of the main thread
  MaxEffects,    \* the most effects waiting for the handoff
  TicThrows,     \* may a tic on the game thread, or a call it asks for, throw?
  InlineThrows,  \* may a tic run inline throw?
  FrameThrows,   \* may drawing a frame throw?
  FocusChanges,  \* may the window gain and lose the focus?
  Spurious       \* may a condition variable wake a thread on its own?

ASSUME HandoffAssumption ==
  /\ {MaxInline, MaxAsks, MaxEffects} \subseteq Nat
  /\ {TicThrows, InlineThrows, FrameThrows, FocusChanges, Spurious} \subseteq BOOLEAN

VARIABLES
  main,         \* where the main thread is
  game,         \* where the game thread is; "none" before there is one
  doing,        \* what the main thread's frame is about
  owed,         \* the tics CatchUp has left to run
  work,         \* g_work, not null
  done,         \* g_done
  inFlight,     \* g_inFlight
  error,        \* g_error, not null
  late,         \* has the clock passed the tic the one in flight started in?
  gameThread,   \* g_gameThread: "main" or "game"
  gameRunning,  \* g_gameRunning
  inHandoff,    \* g_mainInHandoff
  was,          \* the phase StandIn puts back
  lock,         \* who holds the asks' m_mutex
  pending,      \* m_pending, not null
  answer,       \* the ask's done and error: "none", "ok" or "threw"
  asks,         \* the asks this tic has made
  askRuns,      \* history: how often the ask's call has run
  effects,      \* the effects queue: "tic", "focus" and "blur"
  focused,      \* does the window have the focus?
  paused        \* the game's paused: 0, or S_SetSoundPaused's mark -1

threads == <<main, game, doing, owed>>
flight == <<work, done, inFlight, error, late>>
phase == <<gameThread, gameRunning, inHandoff, was>>
asking == <<lock, pending, answer, asks, askRuns>>
window == <<focused, paused>>
vars == <<threads, flight, phase, asking, effects, window>>

Init ==
  /\ main = "top" /\ game = "none" /\ doing = "frame" /\ owed = 0
  /\ work = FALSE /\ done = TRUE /\ inFlight = FALSE /\ error = FALSE /\ late = FALSE
  /\ gameThread = "main" /\ gameRunning = FALSE /\ inHandoff = TRUE
  /\ was = <<FALSE, TRUE>>
  /\ lock = "nobody" /\ pending = FALSE /\ answer = "none" /\ asks = 0 /\ askRuns = 0
  /\ effects = <<>> /\ focused = TRUE /\ paused = 0

Main(from, to) == main = from /\ main' = to
Game(from, to) == game = from /\ game' = to

\* A tic's thread is not the main one: its effects wait for the handoff.
Deferring == gameThread = "game"

\* The main thread draws beside a tic: its changes to the game wait too.
BesideTic == gameThread # "main" /\ gameRunning

-----------------------------------------------------------------------------
(* The main thread: a frame begins (D_RunFrame, GameThreadFrame).          *)

FrameStarts ==
  /\ Main("top", IF inFlight THEN "lock" ELSE "work")
  /\ doing' = "frame"
  /\ UNCHANGED <<game, owed, flight, phase, asking, effects, window>>

\* Mutant: the restart does not take the tic in flight back.
RestartBesideTic ==
  /\ Main("top", "restart")
  /\ doing' = "restart"
  /\ UNCHANGED <<game, owed, flight, phase, asking, effects, window>>

\* A restart or a quit takes a tic in flight back first.
RestartRequested ==
  /\ Main("top", IF inFlight THEN "lock" ELSE "restart")
  /\ doing' = "restart"
  /\ UNCHANGED <<game, owed, flight, phase, asking, effects, window>>

RestartThrown ==
  /\ Main("restart", "top")
  /\ UNCHANGED <<game, doing, owed, flight, phase, asking, effects, window>>

\* The main loop's catch: an error unwound out of the frame.
ErrorCleanup ==
  /\ Main("cleanup", "top")
  /\ UNCHANGED <<game, doing, owed, flight, phase, asking, effects, window>>

\* After ServeAsks: take the tic back, or begin a frame beside it.
Decide ==
  /\ Main("decide", IF done /\ late THEN "lock" ELSE "input")
  /\ doing' = IF done /\ late THEN "finish" ELSE "frame"
  /\ inHandoff' = (inHandoff /\ done /\ late)
  /\ UNCHANGED <<game, owed, flight, gameThread, gameRunning, was, asking, effects, window>>

-----------------------------------------------------------------------------
(* The main thread serves asks: Serve each frame beside a tic, ServeUntil  *)
(* in WaitForGameThread.                                                   *)

AsksLock ==
  /\ lock = "nobody"
  /\ Main("lock", "locked")
  /\ lock' = "main"
  /\ UNCHANGED <<game, doing, owed, flight, phase, pending, answer, asks, askRuns, effects, window>>

\* Mutant: the ask is run and left waiting.
TakeAskKeepsIt ==
  /\ pending
  /\ Main("locked", "asked")
  /\ lock' = "nobody"
  /\ was' = <<gameRunning, inHandoff>>
  /\ gameRunning' = FALSE
  /\ inHandoff' = TRUE
  /\ UNCHANGED <<game, doing, owed, flight, gameThread, pending, answer, asks, askRuns, effects, window>>

\* The lock is let go and StandIn takes the game thread's place.
TakeAsk ==
  /\ pending
  /\ Main("locked", "asked")
  /\ pending' = FALSE
  /\ lock' = "nobody"
  /\ was' = <<gameRunning, inHandoff>>
  /\ gameRunning' = FALSE
  /\ inHandoff' = TRUE
  /\ UNCHANGED <<game, doing, owed, flight, gameThread, answer, asks, askRuns, effects, window>>

\* The call runs; whatever it does, StandIn's destructor puts the phase back.
RunAsk ==
  /\ Main("asked", "answer")
  /\ askRuns' = askRuns + 1
  /\ gameRunning' = was[1]
  /\ inHandoff' = was[2]
  /\ UNCHANGED <<game, doing, owed, flight, gameThread, was, lock, pending, answer, asks, effects, window>>

\* Back under the lock, the asker is told; ServeUntil goes on with it held.
Answer ==
  /\ lock = "nobody"
  /\ main = "answer"
  /\ answer' \in {"ok"} \cup (IF TicThrows THEN {"threw"} ELSE {})
  /\ game' = IF game = "askwait" THEN "askwoken" ELSE game
  /\ main' = IF doing = "frame" THEN "decide" ELSE "locked"
  /\ lock' = IF doing = "frame" THEN "nobody" ELSE "main"
  /\ UNCHANGED <<doing, owed, flight, phase, pending, asks, askRuns, effects, window>>

ServeReturns ==
  /\ ~pending /\ doing = "frame"
  /\ Main("locked", "decide")
  /\ lock' = "nobody"
  /\ UNCHANGED <<game, doing, owed, flight, phase, pending, answer, asks, askRuns, effects, window>>

CheckDone ==
  /\ ~pending /\ doing # "frame"
  /\ Main("locked", IF done THEN "finish" ELSE "towait")
  /\ lock' = IF done THEN "nobody" ELSE lock
  /\ UNCHANGED <<game, doing, owed, flight, phase, pending, answer, asks, askRuns, effects, window>>

WaitForWake ==
  /\ Main("towait", "waiting")
  /\ lock' = "nobody"
  /\ UNCHANGED <<game, doing, owed, flight, phase, pending, answer, asks, askRuns, effects, window>>

ServeAsks ==
  \/ AsksLock \/ TakeAsk \/ RunAsk \/ Answer
  \/ ServeReturns \/ CheckDone \/ WaitForWake

-----------------------------------------------------------------------------
(* The handoff: effects, tics run inline, the next tic handed over.        *)

\* S_SetSoundPaused on a game the player has not paused himself.
SetSoundPaused(state, p) ==
  IF state = "focus" THEN (IF p <= 0 THEN 0 ELSE p)
  ELSE IF state = "blur" THEN (IF p = 0 THEN -1 ELSE p)
  ELSE p

IsFocus(effect) == effect # "tic"

\* The game's pause once the effects have run, in the order they were queued.
AfterEffects(queued, p) ==
  LET after[i \in 0..Len(queued)] ==
        IF i = 0 THEN p ELSE SetSoundPaused(queued[i], after[i - 1])
  IN  after[Len(queued)]

\* A focus change asks again whether it is beside a tic, and would queue itself
\* once more.
DrainEffects ==
  /\ effects' = IF BesideTic' THEN SelectSeq(effects, IsFocus) ELSE <<>>
  /\ paused' = IF BesideTic' THEN paused ELSE AfterEffects(effects, paused)

\* Mutant: the handoff's work runs before the game counts as stopped.
FinishTicRunning ==
  /\ Main("finish", IF error THEN "cleanup" ELSE IF doing = "restart" THEN "restart" ELSE "work")
  /\ inFlight' = FALSE
  /\ error' = FALSE
  /\ UNCHANGED <<game, doing, owed, work, done, late, phase, asking, focused>>
  /\ IF error THEN UNCHANGED <<effects, paused>> ELSE DrainEffects

\* A tic that threw leaves by TakeBack's rethrow, before TickerEnd and AfterTic.
FinishTic ==
  /\ Main("finish", IF error THEN "cleanup" ELSE IF doing = "restart" THEN "restart" ELSE "work")
  /\ inFlight' = FALSE
  /\ error' = FALSE
  /\ gameRunning' = FALSE
  /\ UNCHANGED <<game, doing, owed, work, done, late, gameThread, inHandoff, was, asking, focused>>
  /\ IF error THEN UNCHANGED <<effects, paused>> ELSE DrainEffects

\* D_RunHandoffWork, then ThreadedNow (never while paused) and the tics due;
\* when it does not hold TryRunTics runs them all.
HandoffWork ==
  /\ Main("work", "catchup")
  /\ \E threaded \in BOOLEAN :
       /\ threaded => paused = 0
       /\ doing' = IF threaded THEN "threaded" ELSE "classic"
  /\ owed' \in 0 .. MaxInline
  /\ UNCHANGED <<game, flight, phase, asking, effects, window>>

RunTic ==
  /\ owed > 0
  /\ Main("catchup", "inline")
  /\ owed' = owed - 1
  /\ gameThread' = "main"
  /\ gameRunning' = TRUE
  /\ UNCHANGED <<game, doing, flight, inHandoff, was, asking, effects, window>>

\* G_TickerBegin leaves the tic without a playsim.
RunTicWithoutPlaysim ==
  /\ owed > 0
  /\ main = "catchup"
  /\ owed' = owed - 1
  /\ UNCHANGED <<main, game, doing, flight, phase, asking, focused>>
  /\ DrainEffects

TicReturns ==
  /\ Main("inline", "catchup")
  /\ gameRunning' = FALSE
  /\ UNCHANGED <<game, doing, owed, flight, gameThread, inHandoff, was, asking, focused>>
  /\ DrainEffects

\* No scope puts the phase back.
TicUnwinds ==
  /\ InlineThrows
  /\ Main("inline", "cleanup")
  /\ UNCHANGED <<game, doing, owed, flight, phase, asking, effects, window>>

\* SetGameRunning and StartOnGameThread, up to g_work under g_mutex.
HandOver ==
  /\ owed = 0 /\ doing = "threaded" /\ paused = 0
  /\ Main("catchup", "notify")
  /\ game' = IF game = "none" THEN "born" ELSE game
  /\ work' = TRUE
  /\ done' = FALSE
  /\ late' = FALSE
  /\ asks' = 0
  /\ gameRunning' = TRUE
  /\ UNCHANGED <<doing, owed, inFlight, error, gameThread, inHandoff, was, lock, pending, answer,
                 askRuns, effects, window>>

NotifyGameThread ==
  /\ Main("notify", "input")
  /\ inFlight' = TRUE
  /\ game' = IF game = "asleep" THEN "idle" ELSE game
  /\ inHandoff' = FALSE
  /\ UNCHANGED <<doing, owed, work, done, error, late, gameThread, gameRunning, was, asking, effects, window>>

\* Every tic due has run inline: the frame is drawn with none in flight,
\* its input taken outside the handoff on GameThreadFrame's schedule.  A frame
\* that threw has left g_mainInHandoff false, and nothing sets it here.
NoTicInFlight ==
  /\ owed = 0
  /\ Main("catchup", "input")
  /\ inHandoff' = (inHandoff /\ doing = "classic")
  /\ UNCHANGED <<game, doing, owed, flight, gameThread, gameRunning, was, asking, effects, window>>

Handoff ==
  \/ FinishTic \/ HandoffWork
  \/ RunTic \/ RunTicWithoutPlaysim \/ TicReturns \/ TicUnwinds
  \/ HandOver \/ NotifyGameThread \/ NoTicInFlight

-----------------------------------------------------------------------------
(* The main thread: the frame's input and its drawing.                     *)

Change(to) == IF to THEN "focus" ELSE "blur"

\* Mutant: the focus change is dropped beside a tic.
FocusDropped ==
  /\ FocusChanges /\ BesideTic
  /\ Len(effects) < MaxEffects
  /\ Main("input", "draw")
  /\ focused' = ~focused
  /\ UNCHANGED <<game, doing, owed, flight, phase, asking, effects, paused>>

\* The window reports a focus change and S_SetSoundPaused is called.
FocusQueued ==
  /\ FocusChanges /\ BesideTic
  /\ Len(effects) < MaxEffects
  /\ Main("input", "draw")
  /\ focused' = ~focused
  /\ effects' = Append(effects, Change(~focused))
  /\ UNCHANGED <<game, doing, owed, flight, phase, asking, paused>>

FocusActs ==
  /\ FocusChanges /\ ~BesideTic
  /\ Main("input", "setsound")
  /\ focused' = ~focused
  /\ UNCHANGED <<game, doing, owed, flight, phase, asking, effects, paused>>

PauseChanges ==
  /\ Main("setsound", "draw")
  /\ paused' = SetSoundPaused(Change(focused), paused)
  /\ UNCHANGED <<game, doing, owed, flight, phase, asking, effects, focused>>

NoFocusChange ==
  /\ Main("input", "draw")
  /\ UNCHANGED <<game, doing, owed, flight, phase, asking, effects, window>>

\* D_Display between FrameBegins and FrameEnds.
Display ==
  /\ Main("draw", "top")
  /\ inHandoff' = TRUE
  /\ UNCHANGED <<game, doing, owed, flight, gameThread, gameRunning, was, asking, effects, window>>

DisplayUnwinds ==
  /\ FrameThrows
  /\ Main("draw", "cleanup")
  /\ inHandoff' = FALSE
  /\ UNCHANGED <<game, doing, owed, flight, gameThread, gameRunning, was, asking, effects, window>>

Frame ==
  \/ FocusQueued \/ FocusActs \/ PauseChanges \/ NoFocusChange
  \/ Display \/ DisplayUnwinds

MainThread ==
  \/ FrameStarts \/ RestartRequested \/ RestartThrown \/ ErrorCleanup \/ Decide
  \/ ServeAsks \/ Handoff \/ Frame

-----------------------------------------------------------------------------
(* The game thread: GameThreadMain, and what a tic does beside its work.   *)

Born ==
  /\ Game("born", "idle")
  /\ gameThread' = "game"
  /\ UNCHANGED <<main, doing, owed, flight, gameRunning, inHandoff, was, asking, effects, window>>

WaitForWork ==
  /\ Game("idle", IF work THEN "taken" ELSE "asleep")
  /\ work' = FALSE
  /\ UNCHANGED <<main, doing, owed, done, inFlight, error, late, phase, asking, effects, window>>

\* Mutant: the thread is marked only when it starts, not for each tic.
BeginTicUnmarked ==
  /\ Game("taken", "tic")
  /\ UNCHANGED <<main, doing, owed, flight, phase, asking, effects, window>>

BeginTic ==
  /\ Game("taken", "tic")
  /\ gameThread' = "game"
  /\ UNCHANGED <<main, doing, owed, flight, gameRunning, inHandoff, was, asking, effects, window>>

QueueEffect ==
  /\ game = "tic" /\ Deferring
  /\ Len(effects) < MaxEffects
  /\ effects' = Append(effects, "tic")
  /\ UNCHANGED <<threads, flight, phase, asking, window>>

\* Mutant: the server is not told of the ask.
AskMainQuietly ==
  /\ asks < MaxAsks /\ Deferring
  /\ lock = "nobody" /\ ~pending
  /\ Game("tic", "askwait")
  /\ pending' = TRUE
  /\ answer' = "none"
  /\ asks' = asks + 1
  /\ askRuns' = 0
  /\ UNCHANGED <<main, doing, owed, flight, phase, lock, effects, window>>

\* Ask, up to its wait, which lets the lock go; the server is notified.
AskMain ==
  /\ asks < MaxAsks /\ Deferring
  /\ lock = "nobody" /\ ~pending
  /\ Game("tic", "askwait")
  /\ main' = IF main = "waiting" THEN "lock" ELSE main
  /\ pending' = TRUE
  /\ answer' = "none"
  /\ asks' = asks + 1
  /\ askRuns' = 0
  /\ UNCHANGED <<doing, owed, flight, phase, lock, effects, window>>

\* A woken asker reads its ask again; what the call threw ends the tic.
AskReturns ==
  /\ lock = "nobody"
  /\ Game("askwoken", IF answer = "none" THEN "askwait" ELSE IF answer = "ok" THEN "tic" ELSE "over")
  /\ error' = (error \/ answer = "threw")
  /\ UNCHANGED <<main, doing, owed, work, done, inFlight, late, phase, asking, effects, window>>

TicEnds ==
  /\ Game("tic", "over")
  /\ error' \in {FALSE, TicThrows}
  /\ UNCHANGED <<main, doing, owed, work, done, inFlight, late, phase, asking, effects, window>>

SetDone ==
  /\ Game("over", "wake")
  /\ done' = TRUE
  /\ UNCHANGED <<main, doing, owed, work, inFlight, error, late, phase, asking, effects, window>>

\* Mutant: m_toServer is notified without the lock.
WakeUnlocked ==
  /\ Game("wake", "idle")
  /\ main' = IF main = "waiting" THEN "lock" ELSE main
  /\ UNCHANGED <<doing, owed, flight, phase, asking, effects, window>>

Wake ==
  /\ lock = "nobody"
  /\ Game("wake", "idle")
  /\ main' = IF main = "waiting" THEN "lock" ELSE main
  /\ UNCHANGED <<doing, owed, flight, phase, asking, effects, window>>

GameThreadMain ==
  \/ Born \/ WaitForWork \/ BeginTic
  \/ QueueEffect \/ AskMain \/ AskReturns
  \/ TicEnds \/ SetDone \/ Wake

-----------------------------------------------------------------------------

\* A clock tic later than the one the tic in flight started in.
ClockTic ==
  /\ ~late
  /\ late' = TRUE
  /\ UNCHANGED <<threads, work, done, inFlight, error, phase, asking, effects, window>>

SpuriousWake ==
  /\ Spurious
  /\ \/ Main("waiting", "lock") /\ UNCHANGED game
     \/ Game("asleep", "idle") /\ UNCHANGED main
     \/ Game("askwait", "askwoken") /\ UNCHANGED main
  /\ UNCHANGED <<doing, owed, flight, phase, asking, effects, window>>

Next == MainThread \/ GameThreadMain \/ ClockTic \/ SpuriousWake

Spec == Init /\ [][Next]_vars

(***************************************************************************)
(* Both threads run, and the clock goes on.  A tic ends: what it does has  *)
(* a bound (MaxAsks, MaxEffects).  The main thread holds the asks' lock    *)
(* for an instant and then draws a frame, so the game thread gets it.  No  *)
(* restart, focus change, error or spurious wake is owed.                  *)
(***************************************************************************)
Fairness ==
  /\ WF_vars(MainThread)
  /\ WF_vars(GameThreadMain)
  /\ SF_vars(AskReturns \/ Wake)
  /\ WF_vars(ClockTic)

FairSpec == Spec /\ Fairness

-----------------------------------------------------------------------------
(* Properties.                                                             *)

TicRuns == game \in {"taken", "tic", "askwait", "askwoken", "over"}

\* The game is the main thread's in the handoff, in an inline tic, and while
\* it unwinds for a restart: no tic runs beside any of that.
HandoffAlone ==
  main \in {"finish", "work", "catchup", "inline", "restart"} => ~TicRuns

\* A call the tic asks for has the game to itself: the tic waits inside it.
AskAlone == main = "asked" => game \in {"askwait", "askwoken"} /\ ~gameRunning /\ inHandoff

\* While a tic runs on the game thread the seams know it: its effects wait
\* (Deferring), and the main thread is told it draws beside a tic.
TicIsMarked == game = "tic" => Deferring /\ BesideTic

\* An ask has run exactly once when its asker is told so.
AskRunsOnce == answer # "none" => askRuns = 1

\* The handoff's seams find a main thread in the handoff and no game running.
HandoffSeams == main = "catchup" => inHandoff /\ ~gameRunning

\* The main thread waits for the game thread for a restart only, never for a
\* frame (gamethread.h).
FrameNeverWaits == main \in {"towait", "waiting"} => doing = "restart"

\* A main thread left waiting has nothing to wake for that nothing will wake
\* it for.
NoLostWake == main = "waiting" => ~pending /\ (done => game = "wake")

\* What waits in the queue brings the game's pause to what the window last
\* said, in whatever order tics, frames and focus changes came.
PauseFollowsFocus ==
  main # "setsound" => AfterEffects(effects, paused) = IF focused THEN 0 ELSE -1

\* Every tic handed over is taken back.
TicTakenBack == inFlight ~> ~inFlight

\* Every call a tic asks for returns to it.
AskAnswered == game = "askwait" ~> game \in {"tic", "over"}

\* The game has one owner at a time, and each owner gives it up.
Turns == INSTANCE GameTurns WITH
  turn <- IF main = "asked" THEN "lent"
          ELSE IF work \/ TicRuns THEN "tic"
          ELSE IF done /\ (inFlight \/ main = "notify") THEN "over"
          ELSE "main"
TurnsTaken == Turns!Spec

-----------------------------------------------------------------------------
(* The inductive invariant the safety properties follow from.              *)

\* A tic has been handed over and not taken back.
Out == inFlight \/ main = "notify"

ServePcs == {"lock", "locked", "asked", "answer", "towait", "waiting", "finish"}

\* What main's place says of the tic in flight, and of what its frame is about.
PlaceInv ==
  /\ main \in ServePcs \cup {"decide"} => inFlight
  /\ main \in {"notify", "work", "catchup", "inline", "restart"} => ~inFlight
  /\ main \in ServePcs => doing \in {"frame", "finish", "restart"}
  /\ main \in ServePcs /\ doing = "finish" => done
  /\ main = "finish" => done /\ doing # "frame"
  /\ FrameNeverWaits
  /\ lock = IF main \in {"locked", "towait"} THEN "main" ELSE "nobody"

\* A tic out is waiting for its thread, running, or done; there is no other.
FlightInv ==
  /\ work => Out /\ ~TicRuns /\ ~done
  /\ TicRuns => Out /\ ~done
  /\ ~work /\ ~TicRuns => done
  /\ game = "none" => ~work

\* An ask is waiting, being run, or answered.
AskInv ==
  /\ pending => game \in {"askwait", "askwoken"} /\ answer = "none" /\ askRuns = 0
                /\ main \notin {"asked", "answer"}
  /\ main \in {"asked", "answer"} =>
       /\ game \in {"askwait", "askwoken"} /\ answer = "none"
       /\ askRuns = IF main = "asked" THEN 0 ELSE 1
  /\ game = "askwait" => answer = "none"
  /\ game \in {"askwait", "askwoken"} /\ answer = "none" => pending \/ main \in {"asked", "answer"}
  /\ AskRunsOnce

\* The phase and g_gameThread, as the tic and its stand-in leave them.
PhaseInv ==
  /\ game \in {"tic", "askwait", "askwoken"} => gameThread = "game"
  /\ Out /\ main # "asked" => gameRunning
  /\ main = "asked" => was[1] /\ ~gameRunning /\ inHandoff

\* No wake is lost, between the main thread's look at g_done and its wait too.
WakeInv == main \in {"towait", "waiting"} => ~pending /\ (done => game = "wake")

\* The invariant of the handoff: every step keeps each part when all hold.
HandoffInv == PlaceInv /\ FlightInv /\ AskInv /\ PhaseInv /\ WakeInv

\* With nothing thrown by a frame or an inline tic, the phase is true as well.
SeamInv ==
  /\ inHandoff \/ main \in {"input", "setsound", "draw"}
  /\ main = "asked" => was[2]
  /\ ~Out /\ main # "inline" => ~gameRunning

\* With no tic throwing either, focus changes wait in the queue for the tic they
\* came beside, and one that acts at once finds none before it.
PauseInv ==
  /\ effects \in Seq({"tic", "focus", "blur"}) /\ paused \in {0, -1} /\ focused \in BOOLEAN
  /\ ~error /\ answer # "threw" /\ gameThread \in {"main", "game"}
  /\ ~Out \/ gameThread = "main" => effects = <<>>
  /\ main = "setsound" => \A p \in {0, -1} : AfterEffects(effects, p) = p
  /\ AfterEffects(effects, paused) = IF focused = (main # "setsound") THEN 0 ELSE -1

=============================================================================
