----------------------------- MODULE WadDownload -----------------------------
(***************************************************************************)
(* The file downloader (features/wad-download) and what waits for it: the  *)
(* join or the hosting that resumes when its files are here                *)
(* (features/server-browser, zx_joinserver).                               *)
(*                                                                         *)
(* The main thread starts, cancels, replaces and ticks; one detached       *)
(* worker fetches.  Each section under the downloader's mutex is one step, *)
(* so a worker may end between a check and the act it leads to.  A job is  *)
(* named by the Start call that asked for it.                              *)
(***************************************************************************)
EXTENDS Naturals

CONSTANTS MaxStarts,   \* bound on the calls of Start that get past its first checks
          MaxFiles     \* bound on the files of a job

ASSUME DownloadAssumption == MaxStarts \in Nat /\ MaxFiles \in Nat \ {0}

None == 0
Jobs == 1..MaxStarts
JobOrNone == 0..MaxStarts
Callers == {"join", "host", "console"}

VARIABLES
  \* zx_waddownload.cpp
  state,              \* g_state
  onDone,             \* g_onDone: whose completion, None for NULL
  cancel,             \* g_cancel
  succeeded,          \* g_succeeded
  completionPending,  \* g_completionPending
  deferred,           \* g_deferredJob, None for not g_haveDeferred
  thread,             \* where each job's worker is in RunJob
  left,               \* the files its loop has yet to fetch
  \* zx_joinserver.cpp
  pendingJoin,        \* g_pending: the job a join waits for, None for not valid
  pendingProc,        \* g_pendingProc: the job hosting waits for
  held,               \* g_resumeHeld: the question whether to cancel is up
  resumePending,      \* g_resumePending
  resumeSuccess,      \* g_resumePendingSuccess
  browserOpen,        \* IsServerBrowserOpen
  \* the main thread, inside a call that takes the mutex more than once
  pc,
  asking,             \* the job that call starts
  \* history
  caller,             \* who asked for each job, "" for a job not asked for yet
  fired,              \* how often each job's completion was called
  replaced,           \* the jobs whose run a Start has abandoned
  stopped,            \* the jobs whose join or hosting the player confirmed is off
  resumed             \* the jobs whose join or hosting went ahead

runVars == <<state, onDone, cancel, succeeded, completionPending>>
workerVars == <<thread, left>>
pendingVars == <<pendingJoin, pendingProc>>
holdVars == <<held, resumePending, resumeSuccess>>
mainVars == <<pc, asking>>
vars == <<runVars, deferred, workerVars, pendingVars, holdVars, browserOpen, mainVars,
          caller, fired, replaced, stopped, resumed>>

Init ==
  /\ state = "Idle" /\ onDone = None /\ deferred = None
  /\ cancel = FALSE /\ succeeded = FALSE /\ completionPending = FALSE
  /\ thread = [j \in Jobs |-> "none"] /\ left = [j \in Jobs |-> 0]
  /\ pendingJoin = None /\ pendingProc = None
  /\ held = FALSE /\ resumePending = FALSE /\ resumeSuccess = FALSE
  /\ browserOpen = FALSE
  /\ pc = "frame" /\ asking = None
  /\ caller = [j \in Jobs |-> ""] /\ fired = [j \in Jobs |-> 0]
  /\ replaced = {} /\ stopped = {} /\ resumed = {}

--------------------------------------------------------------------------------
(* The worker.                                                             *)

Fetching(j) == thread[j] \in {"loop", "fetch", "failed"}

\* The check before each file.
LoopHead(j) ==
  /\ thread[j] = "loop" /\ left[j] > 0
  /\ thread' = [thread EXCEPT ![j] = IF cancel THEN "failed" ELSE "fetch"]

\* FetchOne: a file is in place, or it could not be got, or the cancel was
\* noticed between two chunks.  A cancel after the last check goes unnoticed.
FetchOne(j) ==
  /\ thread[j] = "fetch"
  /\ \/ /\ thread' = [thread EXCEPT ![j] = "loop"]
        /\ left' = [left EXCEPT ![j] = @ - 1]
     \/ /\ thread' = [thread EXCEPT ![j] = "failed"]
        /\ UNCHANGED left

EndRun(j) ==
  /\ thread[j] = "failed" \/ (thread[j] = "loop" /\ left[j] = 0)
  /\ state' = "Finished" /\ completionPending' = TRUE
  /\ succeeded' = (thread[j] = "loop" /\ ~cancel)
  /\ thread' = [thread EXCEPT ![j] = "returned"]

RunJob(j) ==
  /\ \/ LoopHead(j) /\ UNCHANGED <<state, completionPending, succeeded, left>>
     \/ FetchOne(j) /\ UNCHANGED <<state, completionPending, succeeded>>
     \/ EndRun(j) /\ UNCHANGED left
  /\ UNCHANGED <<onDone, cancel, deferred, pendingVars, holdVars, browserOpen, mainVars,
                 caller, fired, replaced, stopped, resumed>>

--------------------------------------------------------------------------------
(* Starting, and stopping.                                                 *)

\* fua_download passes no completion.
Completion(j, who) == IF who = "console" THEN None ELSE j

\* BeginRunLocked, and the detached worker of the new run.
BeginRun(j, who) ==
  /\ state' = "Running" /\ onDone' = Completion(j, who)
  /\ cancel' = FALSE /\ succeeded' = FALSE /\ completionPending' = FALSE
  /\ thread' = [thread EXCEPT ![j] = "loop"]
  /\ \E n \in 1..MaxFiles : left' = [left EXCEPT ![j] = n]

Unasked(j) == caller[j] = "" /\ \A i \in 1..(j - 1) : caller[i] # ""

\* A question owns the browser's input, and the console does not open over it.
MayCommand == pc = "frame" /\ ~held

ForgetPending == pendingJoin' = None /\ pendingProc' = None

\* A bug: a join leaves the resume that hosting parked.
AwaitJoinBeside(j) == pendingJoin' = j /\ UNCHANGED pendingProc

AwaitJoin(j) == pendingJoin' = j /\ pendingProc' = None

\* SetPendingResume
AwaitHost(j) == pendingJoin' = None /\ pendingProc' = j

\* A join or hosting that lacks files, while no run is in flight: with no run
\* there is no worker to change that between IsAvailable and BeginRunLocked.  A
\* run in flight makes either say what is missing and do nothing.
StartFor(j, who) ==
  /\ MayCommand /\ Unasked(j) /\ state # "Running"
  /\ BeginRun(j, who)
  /\ caller' = [caller EXCEPT ![j] = who]
  /\ UNCHANGED <<deferred, holdVars, browserOpen, mainVars, fired, replaced, stopped, resumed>>

AttemptJoin(j) == StartFor(j, "join") /\ AwaitJoin(j)

BeginHostDownload(j) == browserOpen /\ StartFor(j, "host") /\ AwaitHost(j)

\* fua_download calls Start whatever is in flight.
Start(j) ==
  /\ MayCommand /\ ~browserOpen /\ Unasked(j)
  /\ caller' = [caller EXCEPT ![j] = "console"]
  /\ IF state = "Running"
       THEN /\ pc' = "abandon" /\ asking' = j
            /\ UNCHANGED <<runVars, workerVars>>
       ELSE BeginRun(j, "console") /\ UNCHANGED mainVars
  /\ UNCHANGED <<deferred, pendingVars, holdVars, browserOpen, fired, replaced, stopped, resumed>>

\* Abandon, which leaves alone a run that has ended since Start looked.
Abandon ==
  /\ pc = "abandon" /\ pc' = "defer"
  /\ IF state = "Running" THEN cancel' = TRUE /\ onDone' = None ELSE UNCHANGED <<cancel, onDone>>
  /\ replaced' = replaced \cup {j \in Jobs : Fetching(j) \/ onDone = j}
  /\ UNCHANGED <<state, succeeded, completionPending, deferred, workerVars, pendingVars, holdVars,
                 browserOpen, asking, caller, fired, stopped, resumed>>

\* A bug: the new job does not wait for the old run to stop.
DeferBegins ==
  /\ pc = "defer" /\ pc' = "frame" /\ asking' = None
  /\ BeginRun(asking, caller[asking])
  /\ UNCHANGED <<deferred, pendingVars, holdVars, browserOpen, caller, fired, replaced, stopped,
                 resumed>>

\* The rest of Start: nothing can be fetched after all, or the job is queued.
Defer ==
  /\ pc = "defer" /\ pc' = "frame" /\ asking' = None
  /\ deferred' \in {deferred, asking}
  /\ UNCHANGED <<runVars, workerVars, pendingVars, holdVars, browserOpen, caller, fired, replaced,
                 stopped, resumed>>

Cancel ==
  /\ cancel' = (cancel \/ state = "Running")
  /\ deferred' = None

\* fua_download_stop asks IsRunning, then cancels.
StopCommand ==
  /\ MayCommand /\ ~browserOpen /\ state = "Running"
  /\ pc' = "cancel"
  /\ UNCHANGED <<runVars, deferred, workerVars, pendingVars, holdVars, browserOpen, asking, caller,
                 fired, replaced, stopped, resumed>>

CancelAfterCheck ==
  /\ pc = "cancel" /\ pc' = "frame"
  /\ Cancel
  /\ UNCHANGED <<state, onDone, succeeded, completionPending, workerVars, pendingVars, holdVars,
                 browserOpen, asking, caller, fired, replaced, stopped, resumed>>

--------------------------------------------------------------------------------
(* What waits for the download.                                            *)

Pending == {pendingJoin, pendingProc} \ {None}

\* The hosting's resume, if there is one, and the join's otherwise.
Waiting == IF pendingProc # None THEN pendingProc ELSE pendingJoin

\* ComputeResumeAction, when no question holds: nothing waits; a failure is
\* reported; what waits goes ahead in the open browser; or the player, who is
\* elsewhere, is told it is ready, and it stays pending.
Resume(ok, open) ==
  \/ Pending = {} /\ UNCHANGED <<pendingVars, resumed>>
  \/ Pending # {} /\ ~ok /\ ForgetPending /\ UNCHANGED resumed
  \/ Pending # {} /\ ok /\ open /\ ForgetPending /\ resumed' = resumed \cup {Waiting}
  \/ Pending # {} /\ ok /\ ~open /\ UNCHANGED <<pendingVars, resumed>>

\* A join that goes ahead restarts the engine with the new files, or says that a
\* file is still missing.  Hosting goes on in the browser.
AfterResume ==
  browserOpen' \in IF resumed' # resumed /\ pendingProc = None THEN {FALSE, browserOpen}
                                                               ELSE {browserOpen}

\* A bug: a completion that comes while the question is up acts at once.
FinishUnheld(ok) == Resume(ok, browserOpen) /\ UNCHANGED <<resumePending, resumeSuccess>>

OnDownloadFinished(ok) ==
  \/ /\ held /\ resumePending' = TRUE /\ resumeSuccess' = ok
     /\ UNCHANGED <<pendingVars, resumed>>
  \/ ~held /\ Resume(ok, browserOpen) /\ UNCHANGED <<resumePending, resumeSuccess>>

\* A bug: a completion that has been called stays set.
FinishTwice ==
  /\ state' = "Idle" /\ UNCHANGED <<completionPending, onDone, cancel, succeeded>>

\* The end of a run is taken from the worker.
TakeCompletion ==
  /\ state' = "Idle" /\ completionPending' = FALSE /\ onDone' = None
  /\ UNCHANGED <<cancel, succeeded>>

\* A bug: the deferred job waits for an idle state that a frame of its own must see.
LaunchWhenIdle ==
  /\ deferred # None /\ state = "Idle"
  /\ BeginRun(deferred, caller[deferred]) /\ deferred' = None

\* The deferred job's run begins in the same locked section that ends the old one.
LaunchDeferred ==
  /\ deferred # None /\ (completionPending \/ state = "Idle")
  /\ BeginRun(deferred, caller[deferred]) /\ deferred' = None

TickLocked ==
  \/ LaunchDeferred
  \/ deferred = None /\ completionPending /\ TakeCompletion /\ UNCHANGED <<deferred, workerVars>>

\* Tick, once a frame.  With no run ended and none to launch it only prints.
Tick ==
  /\ pc = "frame"
  /\ TickLocked
  /\ IF completionPending /\ onDone # None
       THEN /\ OnDownloadFinished(succeeded) /\ AfterResume
            /\ fired' = [fired EXCEPT ![onDone] = @ + 1]
       ELSE UNCHANGED <<pendingVars, resumePending, resumeSuccess, browserOpen, fired, resumed>>
  /\ UNCHANGED <<held, mainVars, caller, replaced, stopped>>

--------------------------------------------------------------------------------
(* The browser and its question.                                           *)

\* ReleaseJoinResume( true )
ReleaseKeep ==
  /\ held' = FALSE /\ resumePending' = FALSE
  /\ IF resumePending THEN Resume(resumeSuccess, browserOpen) ELSE UNCHANGED <<pendingVars, resumed>>

\* A bug: what waits is dropped only when the download had ended already.
ReleaseStopLate ==
  /\ held' = FALSE /\ resumePending' = FALSE
  /\ IF resumePending THEN ForgetPending ELSE UNCHANGED pendingVars

\* ReleaseJoinResume( false )
ReleaseStop ==
  /\ held' = FALSE /\ resumePending' = FALSE
  /\ ForgetPending

OpenBrowser ==
  /\ MayCommand /\ ~browserOpen /\ browserOpen' = TRUE
  /\ UNCHANGED <<runVars, deferred, workerVars, pendingVars, holdVars, mainVars, caller, fired,
                 replaced, stopped, resumed>>

\* The player leaves the browser.
CloseBrowser ==
  /\ MayCommand /\ browserOpen /\ browserOpen' = FALSE
  /\ UNCHANGED <<runVars, deferred, workerVars, pendingVars, holdVars, mainVars, caller, fired,
                 replaced, stopped, resumed>>

\* The button reads CANCEL while a run is in flight, and asks.
AskToCancel ==
  /\ MayCommand /\ browserOpen /\ state = "Running"
  /\ held' = TRUE
  /\ UNCHANGED <<runVars, deferred, workerVars, pendingVars, resumePending, resumeSuccess,
                 browserOpen, mainVars, caller, fired, replaced, stopped, resumed>>

AnswerStop ==
  /\ pc = "frame" /\ held
  /\ Cancel /\ ReleaseStop
  /\ stopped' = stopped \cup Pending
  /\ UNCHANGED <<state, onDone, succeeded, completionPending, workerVars, resumeSuccess,
                 browserOpen, mainVars, caller, fired, replaced, resumed>>

AnswerKeep ==
  /\ pc = "frame" /\ held
  /\ ReleaseKeep /\ AfterResume
  /\ UNCHANGED <<runVars, deferred, workerVars, resumeSuccess, mainVars, caller, fired, replaced,
                 stopped>>

\* Machinery that never saw the question clears the menus.  Destroy releases the
\* hold while the browser still is the current menu.
ClearMenus ==
  /\ pc = "frame" /\ held
  /\ ReleaseKeep /\ browserOpen' = FALSE
  /\ UNCHANGED <<runVars, deferred, workerVars, resumeSuccess, mainVars, caller, fired, replaced,
                 stopped>>

--------------------------------------------------------------------------------
Commands == \E j \in Jobs : AttemptJoin(j) \/ BeginHostDownload(j) \/ Start(j)
Menu == OpenBrowser \/ CloseBrowser \/ AskToCancel \/ AnswerStop \/ AnswerKeep \/ ClearMenus
InCall == Abandon \/ Defer \/ CancelAfterCheck
Worker == \E j \in Jobs : RunJob(j)

Next == Commands \/ StopCommand \/ InCall \/ Tick \/ Menu \/ Worker

Spec == Init /\ [][Next]_vars

\* The main loop ticks every frame, whatever commands run between; a call goes on
\* to its end; a transfer ends, if only by a time-out.
FairSpec == Spec /\ SF_vars(Tick) /\ WF_vars(InCall) /\ WF_vars(Worker)

--------------------------------------------------------------------------------
(* Properties.                                                             *)

TypeOK ==
  /\ state \in {"Idle", "Running", "Finished"}
  /\ onDone \in JobOrNone /\ deferred \in JobOrNone /\ asking \in JobOrNone
  /\ pendingJoin \in JobOrNone /\ pendingProc \in JobOrNone
  /\ cancel \in BOOLEAN /\ succeeded \in BOOLEAN /\ completionPending \in BOOLEAN
  /\ held \in BOOLEAN /\ resumePending \in BOOLEAN /\ resumeSuccess \in BOOLEAN
  /\ browserOpen \in BOOLEAN
  /\ thread \in [Jobs -> {"none", "loop", "fetch", "failed", "returned"}]
  /\ left \in [Jobs -> 0..MaxFiles]
  /\ pc \in {"frame", "abandon", "defer", "cancel"}
  /\ caller \in [Jobs -> Callers \cup {""}] /\ fired \in [Jobs -> Nat]
  /\ replaced \subseteq Jobs /\ stopped \subseteq Jobs /\ resumed \subseteq Jobs

\* Two workers never fetch at once: the store's files, the .part files and the
\* progress have one writer.  One fetches exactly while the state is Running.
OneWorker ==
  /\ \A i, j \in Jobs : Fetching(i) /\ Fetching(j) => i = j
  /\ state = "Running" <=> \E j \in Jobs : Fetching(j)

\* A completion is called once, for a job whose worker has returned, and says
\* success only if that worker fetched every file.
CompletionIsItsOwn ==
  [][\A j \in Jobs : fired'[j] # fired[j] =>
       /\ fired[j] = 0
       /\ thread[j] = "returned"
       /\ succeeded => left[j] = 0]_vars

\* A join or a hosting the player has called off never goes ahead, however the
\* download's end falls between the question and the answer.
StopMeansStop == resumed \cap stopped = {}

\* Job j's download is over, its completion was called, and every file is here.
Landed(j) == fired[j] = 1 /\ thread[j] = "returned" /\ left[j] = 0

\* What goes ahead is what its own download was for, with every file fetched.
ResumeIsItsOwn == \A j \in resumed : Landed(j)

\* Nothing goes ahead under a question, and a completion kept back for a question
\* does not outlive it.
QuestionHolds ==
  /\ [][held /\ held' => resumed' = resumed]_vars
  /\ [](resumePending => held)

\* A deferred job gets its run, or is dropped or replaced: it does not wait for ever.
DeferredSettles == \A j \in Jobs : deferred = j ~> deferred # j

\* "Abandon drops it": no completion comes from a run that a Start abandoned.
AbandonedStaysSilent == [][\A j \in replaced : fired'[j] = fired[j]]_vars

--------------------------------------------------------------------------------
(* The inductive invariant.                                                *)

StateInv ==
  /\ completionPending <=> state = "Finished"
  /\ \A j \in Jobs : thread[j] = "fetch" => left[j] > 0

\* A job is new until it is asked for, and a queued one has not begun.
JobInv ==
  /\ \A j \in Jobs : caller[j] = "" =>
       /\ thread[j] = "none" /\ fired[j] = 0
       /\ j \notin Pending \cup resumed \cup stopped
  /\ \A j \in Jobs : j = deferred \/ j = asking => caller[j] = "console" /\ thread[j] = "none"
  /\ asking # None => pc \in {"abandon", "defer"}

\* The completion that is set belongs to the run in flight or just ended, and
\* nothing waits for another job.
CompletionInv ==
  onDone # None =>
    /\ Pending \subseteq {onDone} /\ fired[onDone] = 0
    /\ \/ state = "Running" /\ Fetching(onDone)
       \/ /\ state = "Finished" /\ thread[onDone] = "returned"
          /\ succeeded => left[onDone] = 0

ResumeInv ==
  /\ resumePending => held
  /\ resumePending /\ resumeSuccess => \A j \in Pending : Landed(j)
  /\ Pending \cap (resumed \cup stopped) = {}
  /\ ResumeIsItsOwn /\ StopMeansStop

\* Together they are inductive: what goes ahead was pending, what is pending waits
\* for the completion that is set, and that completion is the one worker's.
DownloadInv == TypeOK /\ OneWorker /\ StateInv /\ JobInv /\ CompletionInv /\ ResumeInv
===============================================================================
