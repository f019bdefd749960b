-------------------------- MODULE WadDownloadProofs --------------------------
(***************************************************************************)
(* What WadDownload's invariant says for any number of starts and of       *)
(* files.  Each step of the worker keeps it because there is only one; a   *)
(* start keeps it because no worker is left when it begins a run; a tick   *)
(* because the completion it calls is the one that everything pending      *)
(* waits for.                                                              *)
(***************************************************************************)
EXTENDS WadDownload, TLAPS

LEMMA Bounds ==
  /\ None \in JobOrNone /\ Jobs \subseteq JobOrNone /\ None \notin Jobs
  /\ \A j \in JobOrNone : j # None => j \in Jobs
  /\ 0 \in 0..MaxFiles /\ 1..MaxFiles \subseteq 0..MaxFiles
BY DownloadAssumption DEF None, JobOrNone, Jobs

LEMMA InitInv == Init => DownloadInv
<1> SUFFICES ASSUME Init PROVE DownloadInv
  OBVIOUS
<1> USE Bounds DEF Init
<1>1. TypeOK
  BY DEF TypeOK, Callers
<1>2. OneWorker
  BY DEF OneWorker, Fetching
<1>3. StateInv
  BY DEF StateInv
<1>4. JobInv
  BY DEF JobInv, Pending
<1>5. CompletionInv /\ ResumeInv
  BY DEF CompletionInv, ResumeInv, Pending, ResumeIsItsOwn, StopMeansStop
<1> QED
  BY <1>1, <1>2, <1>3, <1>4, <1>5 DEF DownloadInv

\* A run that begins while no worker lives has the one worker.
LEMMA BeginRunInv ==
  ASSUME TypeOK, StateInv, NEW j \in Jobs, NEW who \in Callers, BeginRun(j, who),
         \A i \in Jobs : ~Fetching(i)
  PROVE  /\ OneWorker' /\ StateInv'
         /\ state' \in {"Idle", "Running", "Finished"} /\ onDone' \in JobOrNone
         /\ cancel' \in BOOLEAN /\ succeeded' \in BOOLEAN /\ completionPending' \in BOOLEAN
         /\ thread' \in [Jobs -> {"none", "loop", "fetch", "failed", "returned"}]
         /\ left' \in [Jobs -> 0..MaxFiles]
         /\ thread'[j] = "loop" /\ \A i \in Jobs \ {j} : thread'[i] = thread[i] /\ left'[i] = left[i]
<1>1. PICK n \in 1..MaxFiles : left' = [left EXCEPT ![j] = n]
  BY DEF BeginRun
<1>2. /\ thread' = [thread EXCEPT ![j] = "loop"] /\ state' = "Running" /\ completionPending' = FALSE
      /\ onDone' \in {None, j} /\ cancel' = FALSE /\ succeeded' = FALSE
  BY DEF BeginRun, Completion
<1>3. OneWorker'
  BY <1>2 DEF OneWorker, Fetching, TypeOK
<1>4. StateInv'
  BY <1>1, <1>2 DEF StateInv, TypeOK
<1> QED
  BY Bounds, <1>1, <1>2, <1>3, <1>4 DEF TypeOK


\* The worker: the only fetcher moves, and its end is the completion's.
LEMMA RunJobInv ==
  ASSUME DownloadInv, NEW j \in Jobs, RunJob(j)
  PROVE  DownloadInv'
<1> USE DEF DownloadInv
<1>1. Fetching(j) /\ state = "Running" /\ \A i \in Jobs : Fetching(i) => i = j
  BY DEF RunJob, LoopHead, FetchOne, EndRun, Fetching, OneWorker
<1>2. caller[j] # "" /\ j # deferred /\ j # asking /\ j \notin resumed
  BY <1>1 DEF JobInv, Fetching, ResumeInv, ResumeIsItsOwn, Landed
<1>3. /\ onDone # None => onDone = j
      /\ ~(resumePending /\ resumeSuccess /\ j \in Pending)
  <2>1. onDone # None => onDone = j
    BY <1>1, Bounds DEF CompletionInv, Fetching, TypeOK
  <2>2. ~Landed(j)
    BY <1>1 DEF Landed, Fetching
  <2> QED
    BY <2>1, <2>2 DEF ResumeInv
<1>4. /\ \A i \in Jobs \ {j} : thread'[i] = thread[i] /\ left'[i] = left[i]
      /\ TypeOK'
  <2>1. thread[j] = "fetch" => left[j] - 1 \in 0..MaxFiles
    <3>1. left[j] \in 0..MaxFiles /\ (thread[j] = "fetch" => left[j] > 0)
      BY DEF StateInv, TypeOK
    <3> QED
      BY <3>1, DownloadAssumption
  <2>2. /\ thread' = [thread EXCEPT ![j] = thread'[j]]
        /\ thread'[j] \in {"loop", "fetch", "failed", "returned"}
        /\ left' = left \/ (thread[j] = "fetch" /\ left' = [left EXCEPT ![j] = left[j] - 1])
        /\ state' \in {state, "Finished"}
        /\ completionPending' \in BOOLEAN /\ succeeded' \in BOOLEAN
    <3> USE DEF TypeOK
    <3>1. CASE LoopHead(j) /\ UNCHANGED <<state, completionPending, succeeded, left>>
      BY <3>1 DEF LoopHead
    <3>2. CASE FetchOne(j) /\ UNCHANGED <<state, completionPending, succeeded>>
      BY <3>2 DEF FetchOne
    <3>3. CASE EndRun(j) /\ UNCHANGED left
      <4>1. succeeded' \in BOOLEAN
        BY <3>3, Zenon DEF EndRun
      <4> QED
        BY <3>3, <4>1 DEF EndRun
    <3> QED
      BY <3>1, <3>2, <3>3 DEF RunJob
  <2>3. /\ thread' \in [Jobs -> {"none", "loop", "fetch", "failed", "returned"}]
        /\ left' \in [Jobs -> 0..MaxFiles]
        /\ \A i \in Jobs \ {j} : thread'[i] = thread[i] /\ left'[i] = left[i]
    BY <2>1, <2>2 DEF TypeOK
  <2> QED
    BY <2>2, <2>3 DEF RunJob, TypeOK, holdVars, mainVars, pendingVars
<1>5. OneWorker' /\ StateInv'
  BY <1>1, <1>4 DEF RunJob, LoopHead, FetchOne, EndRun, TypeOK, OneWorker, StateInv, Fetching
<1>6. JobInv'
  BY <1>2, <1>4, Bounds DEF RunJob, JobInv, Pending, holdVars, mainVars, pendingVars, TypeOK
<1>7. CompletionInv'
  <2> SUFFICES ASSUME onDone # None
               PROVE  /\ Pending \subseteq {onDone} /\ fired[onDone] = 0
                      /\ \/ state' = "Running" /\ thread'[onDone] \in {"loop", "fetch", "failed"}
                         \/ /\ state' = "Finished" /\ thread'[onDone] = "returned"
                            /\ succeeded' => left'[onDone] = 0
    BY DEF RunJob, CompletionInv, Pending, Fetching, pendingVars
  <2>1. onDone = j /\ thread \in [Jobs -> {"none", "loop", "fetch", "failed", "returned"}]
    BY <1>3 DEF TypeOK
  <2>2. Pending \subseteq {onDone} /\ fired[onDone] = 0
    BY DEF CompletionInv
  <2>3. CASE LoopHead(j) /\ UNCHANGED <<state, completionPending, succeeded, left>>
    BY <1>1, <2>1, <2>2, <2>3 DEF LoopHead
  <2>4. CASE FetchOne(j) /\ UNCHANGED <<state, completionPending, succeeded>>
    BY <1>1, <2>1, <2>2, <2>4 DEF FetchOne
  <2>5. CASE EndRun(j) /\ UNCHANGED left
    <3>1. state' = "Finished" /\ thread'[onDone] = "returned"
      BY <2>1, <2>5 DEF EndRun
    <3>2. succeeded' => left'[onDone] = 0
      BY <2>1, <2>5 DEF EndRun
    <3> QED
      BY <2>2, <3>1, <3>2
  <2> QED
    BY <2>3, <2>4, <2>5 DEF RunJob
<1>8. ResumeInv'
  <2>1. \A i \in resumed : Landed(i)'
    BY <1>2, <1>4 DEF RunJob, ResumeInv, ResumeIsItsOwn, Landed, TypeOK
  <2>2. resumePending /\ resumeSuccess => \A i \in Pending : Landed(i)'
    <3> SUFFICES ASSUME resumePending, resumeSuccess, NEW i \in Pending PROVE Landed(i)'
      OBVIOUS
    <3>1. i \in Jobs /\ i # j /\ Landed(i)
      BY <1>3, Bounds DEF ResumeInv, Pending, TypeOK
    <3> QED
      BY <3>1, <1>4 DEF RunJob, Landed
  <2> QED
    BY <2>1, <2>2 DEF RunJob, ResumeInv, ResumeIsItsOwn, StopMeansStop, Pending, holdVars, pendingVars
<1> QED
  BY <1>4, <1>5, <1>6, <1>7, <1>8

\* Nothing waits for, or went ahead for, a job that begins now: what begins is
\* new, or was queued by the console.
LEMMA StartForInv ==
  ASSUME DownloadInv, NEW j \in Jobs, NEW who \in {"join", "host"}, StartFor(j, who),
         pendingJoin' \in JobOrNone, pendingProc' \in JobOrNone, Pending' = {j}
  PROVE  DownloadInv'
<1> USE DEF DownloadInv
<1>1. /\ BeginRun(j, who) /\ caller[j] = "" /\ pc = "frame" /\ ~held /\ state # "Running"
      /\ caller' = [caller EXCEPT ![j] = who]
      /\ UNCHANGED <<deferred, held, resumePending, resumeSuccess, browserOpen, pc, asking,
                     fired, replaced, stopped, resumed>>
  BY DEF StartFor, MayCommand, Unasked, holdVars, mainVars
<1>2. \A i \in Jobs : ~Fetching(i)
  BY <1>1 DEF OneWorker
<1>3. /\ OneWorker' /\ StateInv'
      /\ state' \in {"Idle", "Running", "Finished"} /\ onDone' \in JobOrNone
      /\ cancel' \in BOOLEAN /\ succeeded' \in BOOLEAN /\ completionPending' \in BOOLEAN
      /\ thread' \in [Jobs -> {"none", "loop", "fetch", "failed", "returned"}]
      /\ left' \in [Jobs -> 0..MaxFiles]
      /\ thread'[j] = "loop" /\ \A i \in Jobs \ {j} : thread'[i] = thread[i] /\ left'[i] = left[i]
  BY <1>1, <1>2, BeginRunInv DEF Callers
<1>4. TypeOK'
  BY <1>1, <1>3 DEF TypeOK, Callers
<1>5. JobInv'
  BY <1>1, <1>3, Bounds, ZenonT(40) DEF JobInv, Pending, TypeOK
<1>6. CompletionInv'
  BY <1>1, <1>3 DEF CompletionInv, BeginRun, Completion, Fetching, JobInv
<1>7. j \notin resumed \cup stopped /\ ~resumePending
  BY <1>1 DEF JobInv, ResumeInv
<1>8. ResumeInv'
  BY <1>1, <1>3, <1>7 DEF ResumeInv, ResumeIsItsOwn, StopMeansStop, Landed, TypeOK
<1> QED
  BY <1>3, <1>4, <1>5, <1>6, <1>8

LEMMA AttemptInv ==
  ASSUME DownloadInv, NEW j \in Jobs, AttemptJoin(j) \/ BeginHostDownload(j)
  PROVE  DownloadInv'
<1>1. Pending' = {j} /\ pendingJoin' \in JobOrNone /\ pendingProc' \in JobOrNone
  BY Bounds DEF AttemptJoin, BeginHostDownload, AwaitJoin, AwaitHost, Pending
<1>2. CASE AttemptJoin(j)
  BY <1>1, <1>2, StartForInv DEF AttemptJoin
<1>3. CASE BeginHostDownload(j)
  BY <1>1, <1>3, StartForInv DEF BeginHostDownload
<1> QED
  BY <1>2, <1>3

\* A console job has no completion: its run leaves what waits waiting for nothing.
LEMMA ConsoleRunInv ==
  ASSUME DownloadInv, NEW j \in Jobs, BeginRun(j, "console"), \A i \in Jobs : ~Fetching(i),
         thread[j] = "none", caller'[j] = "console", j \notin Pending,
         caller' \in [Jobs -> Callers \cup {""}],
         \A i \in Jobs \ {j} : caller'[i] = caller[i],
         UNCHANGED <<pendingVars, holdVars, browserOpen, mainVars, fired, replaced, stopped, resumed>>,
         deferred' \in {None, deferred}, deferred' # j, asking # j
  PROVE  DownloadInv'
<1> USE DEF DownloadInv
<1> USE DEF pendingVars, holdVars, mainVars
<1>1. /\ OneWorker' /\ StateInv'
      /\ state' \in {"Idle", "Running", "Finished"} /\ onDone' \in JobOrNone
      /\ cancel' \in BOOLEAN /\ succeeded' \in BOOLEAN /\ completionPending' \in BOOLEAN
      /\ thread' \in [Jobs -> {"none", "loop", "fetch", "failed", "returned"}]
      /\ left' \in [Jobs -> 0..MaxFiles]
      /\ thread'[j] = "loop" /\ \A i \in Jobs \ {j} : thread'[i] = thread[i] /\ left'[i] = left[i]
  BY BeginRunInv DEF Callers
<1>2. TypeOK'
  BY <1>1, Bounds DEF TypeOK
<1>3. JobInv'
  <2>1. \A i \in Jobs \ {j} : caller'[i] = caller[i] /\ thread'[i] = thread[i]
    BY <1>1
  <2>2. asking' = asking /\ pc' = pc /\ Pending' = Pending /\ fired' = fired
        /\ resumed' = resumed /\ stopped' = stopped
    BY DEF Pending
  <2>3. \A i \in Jobs : i = deferred' => i = deferred /\ i # j
    BY Bounds
  <2> QED
    BY <1>1, <2>1, <2>2, <2>3, ZenonT(40) DEF JobInv
<1>4. CompletionInv'
  BY DEF CompletionInv, BeginRun, Completion
<1>5. j \notin resumed
  BY DEF ResumeInv, ResumeIsItsOwn, Landed
<1>6. ResumeInv'
  <2>1. \A i \in Jobs \ {j} : Landed(i) => Landed(i)'
    BY <1>1 DEF Landed
  <2>2. Pending' = Pending /\ Pending \subseteq Jobs \ {j} /\ resumed' = resumed
        /\ resumed \subseteq Jobs \ {j} /\ stopped' = stopped
    BY <1>5, Bounds DEF Pending, TypeOK
  <2> QED
    BY <2>1, <2>2 DEF ResumeInv, ResumeIsItsOwn, StopMeansStop
<1> QED
  BY <1>1, <1>2, <1>3, <1>4, <1>6

LEMMA StartInv ==
  ASSUME DownloadInv, NEW j \in Jobs, Start(j)
  PROVE  DownloadInv'
<1> USE DEF DownloadInv
<1>1. /\ caller[j] = "" /\ pc = "frame" /\ caller' = [caller EXCEPT ![j] = "console"]
      /\ thread[j] = "none" /\ j \notin Pending
      /\ UNCHANGED <<deferred, pendingVars, holdVars, browserOpen, fired, replaced, stopped, resumed>>
  BY DEF Start, MayCommand, Unasked, JobInv
<1>2. asking = None /\ asking # j /\ deferred # j
  BY <1>1, Bounds DEF JobInv, TypeOK
<1>3. caller' \in [Jobs -> Callers \cup {""}] /\ caller'[j] = "console"
  BY <1>1 DEF TypeOK, Callers
<1>4. CASE state # "Running"
  <2>1. \A i \in Jobs : ~Fetching(i)
    BY <1>4 DEF OneWorker
  <2>2. BeginRun(j, "console") /\ UNCHANGED mainVars
    BY <1>4 DEF Start
  <2> QED
    BY <1>1, <1>2, <1>3, <2>1, <2>2, ConsoleRunInv DEF TypeOK
<1>5. CASE state = "Running"
  <2>1. pc' = "abandon" /\ asking' = j /\ UNCHANGED <<runVars, workerVars>>
    BY <1>5 DEF Start
  <2> USE DEF runVars, workerVars, pendingVars, holdVars
  <2>2. TypeOK' /\ OneWorker' /\ StateInv'
    BY <1>1, <1>3, <2>1, Bounds DEF TypeOK, OneWorker, StateInv, Fetching
  <2>3. JobInv'
    BY <1>1, <1>2, <2>1, Bounds DEF JobInv, Pending, TypeOK
  <2>4. CompletionInv' /\ ResumeInv'
    BY <1>1, <2>1 DEF CompletionInv, ResumeInv, ResumeIsItsOwn, StopMeansStop, Landed, Pending, Fetching
  <2> QED
    BY <2>2, <2>3, <2>4
<1> QED
  BY <1>4, <1>5

\* The steps that touch neither a worker, nor what waits, nor a completion's count:
\* they may drop the completion, queue a job already asked for, or drop one.
LEMMA CommandInv ==
  ASSUME DownloadInv,
         UNCHANGED <<state, succeeded, completionPending, workerVars, pendingVars, caller, fired,
                     resumed, stopped, resumePending, resumeSuccess>>,
         cancel' \in BOOLEAN, onDone' \in {None, onDone}, held' \in BOOLEAN, held => held',
         deferred' \in {None, deferred, asking}, asking' \in {None, asking},
         asking' # None => pc' \in {"abandon", "defer"},
         pc' \in {"frame", "abandon", "defer", "cancel"}, browserOpen' \in BOOLEAN,
         replaced' \subseteq Jobs
  PROVE  DownloadInv'
<1> USE DEF DownloadInv, workerVars, pendingVars
<1>1. TypeOK'
  BY Bounds DEF TypeOK
<1>2. OneWorker' /\ StateInv'
  BY DEF OneWorker, StateInv, Fetching
<1>3. JobInv'
  <2>1. Pending' = Pending
    BY DEF Pending
  <2>2. \A i \in Jobs : i = deferred' \/ i = asking' => i = deferred \/ i = asking
    BY Bounds
  <2> QED
    BY <2>1, <2>2 DEF JobInv
<1>4. CompletionInv' /\ ResumeInv'
  BY DEF CompletionInv, ResumeInv, ResumeIsItsOwn, StopMeansStop, Landed, Pending, Fetching
<1> QED
  BY <1>1, <1>2, <1>3, <1>4

LEMMA InCallInv ==
  ASSUME DownloadInv, Abandon \/ Defer \/ StopCommand \/ CancelAfterCheck
  PROVE  DownloadInv'
<1> USE DEF holdVars, mainVars, runVars
<1>1. TypeOK /\ (pc \notin {"abandon", "defer"} => asking = None)
  BY DEF DownloadInv, JobInv
<1>2. CASE Abandon
  <2>1. replaced' \subseteq Jobs
    BY <1>1, <1>2 DEF Abandon, TypeOK
  <2>2. cancel' \in BOOLEAN /\ onDone' \in {None, onDone}
    BY <1>1, <1>2 DEF Abandon, TypeOK
  <2> QED
    BY <1>1, <1>2, <2>1, <2>2, CommandInv DEF Abandon, TypeOK
<1>3. CASE Defer
  BY <1>1, <1>3, CommandInv DEF Defer, TypeOK
<1>4. CASE StopCommand
  BY <1>1, <1>4, CommandInv DEF StopCommand, MayCommand, TypeOK
<1>5. CASE CancelAfterCheck
  <2>1. cancel' \in BOOLEAN
    BY <1>1, <1>5, Zenon DEF CancelAfterCheck, Cancel, TypeOK
  <2> QED
    BY <1>1, <1>5, <2>1, CommandInv DEF CancelAfterCheck, Cancel, TypeOK
<1> QED
  BY <1>2, <1>3, <1>4, <1>5

LEMMA BrowserInv ==
  ASSUME DownloadInv, OpenBrowser \/ CloseBrowser \/ AskToCancel
  PROVE  DownloadInv'
<1> USE DEF holdVars, mainVars, runVars, MayCommand
<1>1. TypeOK /\ (pc = "frame" => asking = None)
  BY DEF DownloadInv, JobInv
<1>2. CASE OpenBrowser
  BY <1>1, <1>2, CommandInv DEF OpenBrowser, TypeOK
<1>3. CASE CloseBrowser
  BY <1>1, <1>3, CommandInv DEF CloseBrowser, TypeOK
<1>4. CASE AskToCancel
  BY <1>1, <1>4, CommandInv DEF AskToCancel, TypeOK
<1> QED
  BY <1>2, <1>3, <1>4

\* What goes ahead was pending, and had landed.
LEMMA ResumeKeeps ==
  ASSUME TypeOK, ResumeIsItsOwn, StopMeansStop, Pending \cap (resumed \cup stopped) = {},
         NEW ok \in BOOLEAN, NEW open \in BOOLEAN, Resume(ok, open),
         ok => \A j \in Pending : Landed(j)
  PROVE  /\ Pending' \subseteq Pending /\ pendingJoin' \in JobOrNone /\ pendingProc' \in JobOrNone
         /\ Pending' \cap (resumed' \cup stopped) = {} /\ resumed' \subseteq Jobs
         /\ resumed \subseteq resumed' /\ resumed' \subseteq resumed \cup Pending
         /\ resumed' \cap stopped = {} /\ \A j \in resumed' : Landed(j)
<1>1. Pending # {} => Waiting \in Pending
  BY DEF Pending, Waiting
<1>2. Pending \subseteq Jobs
  BY Bounds DEF Pending, TypeOK
<1>3. CASE UNCHANGED <<pendingVars, resumed>>
  BY <1>3 DEF pendingVars, Pending, TypeOK, StopMeansStop, ResumeIsItsOwn
<1>4. CASE ForgetPending /\ UNCHANGED resumed
  BY <1>4, Bounds DEF ForgetPending, Pending, TypeOK, StopMeansStop, ResumeIsItsOwn
<1>5. CASE Pending # {} /\ ok /\ ForgetPending /\ resumed' = resumed \cup {Waiting}
  <2>1. Pending' = {}
    BY <1>5 DEF ForgetPending, Pending
  <2> QED
    BY <1>1, <1>2, <1>5, <2>1, Bounds DEF ForgetPending, TypeOK, StopMeansStop, ResumeIsItsOwn
<1> QED
  BY <1>3, <1>4, <1>5 DEF Resume

\* The answers: what a completion kept back lands here, or is forgotten.
LEMMA AnswerInv ==
  ASSUME DownloadInv, AnswerStop \/ AnswerKeep \/ ClearMenus
  PROVE  DownloadInv'
<1> USE DEF DownloadInv
<1>1. CASE AnswerStop
  <2>1. /\ pendingJoin' = None /\ pendingProc' = None /\ held' = FALSE /\ resumePending' = FALSE
        /\ deferred' = None /\ stopped' = stopped \cup Pending
        /\ UNCHANGED <<state, onDone, succeeded, completionPending, workerVars, resumeSuccess,
                       browserOpen, mainVars, caller, fired, replaced, resumed>>
    BY <1>1 DEF AnswerStop, Cancel, ReleaseStop, ForgetPending
  <2> USE <2>1 DEF workerVars, mainVars
  <2>2. cancel' \in BOOLEAN
    BY <1>1, Zenon DEF AnswerStop, Cancel, TypeOK
  <2>3. Pending' = {} /\ Pending \subseteq Jobs
    BY Bounds DEF Pending, TypeOK
  <2>4. TypeOK' /\ OneWorker' /\ StateInv'
    BY <2>2, <2>3, Bounds DEF TypeOK, OneWorker, StateInv, Fetching
  <2>5. JobInv'
    <3>1. \A i \in Pending : caller[i] # ""
      BY <2>3 DEF JobInv
    <3> QED
      BY <2>3, <3>1, Bounds DEF JobInv
  <2>6. CompletionInv' /\ ResumeInv'
    BY <2>3 DEF CompletionInv, ResumeInv, ResumeIsItsOwn, StopMeansStop, Landed, Fetching
  <2> QED
    BY <2>4, <2>5, <2>6
<1>2. CASE AnswerKeep \/ ClearMenus
  <2>1. /\ ReleaseKeep /\ browserOpen' \in BOOLEAN
        /\ UNCHANGED <<runVars, deferred, workerVars, resumeSuccess, mainVars, caller, fired,
                       replaced, stopped>>
    BY <1>2 DEF AnswerKeep, ClearMenus, AfterResume, TypeOK
  <2> USE <2>1 DEF workerVars, mainVars, runVars
  <2>2. Pending \subseteq Jobs
    BY Bounds DEF Pending, TypeOK
  <2>3. /\ Pending' \subseteq Pending /\ pendingJoin' \in JobOrNone /\ pendingProc' \in JobOrNone
        /\ Pending' \cap (resumed' \cup stopped) = {} /\ resumed' \subseteq Jobs
        /\ resumed' \subseteq resumed \cup Pending
        /\ resumed' \cap stopped = {} /\ \A j \in resumed' : Landed(j)
    <3>1. CASE resumePending
      <4>1. Resume(resumeSuccess, browserOpen)
        BY <3>1 DEF ReleaseKeep
      <4> QED
        BY <3>1, <4>1, ResumeKeeps DEF ResumeInv, TypeOK
    <3>2. CASE ~resumePending
      BY <3>2, <2>2 DEF ReleaseKeep, pendingVars, Pending, ResumeInv, ResumeIsItsOwn, StopMeansStop, TypeOK
    <3> QED
      BY <3>1, <3>2
  <2>4. held' = FALSE /\ resumePending' = FALSE
    BY DEF ReleaseKeep
  <2>5. TypeOK' /\ OneWorker' /\ StateInv'
    BY <2>3, <2>4 DEF TypeOK, OneWorker, StateInv, Fetching
  <2>6. JobInv'
    <3>1. \A i \in Jobs : caller[i] = "" => i \notin Pending' \cup resumed' \cup stopped
      BY <2>3 DEF JobInv
    <3> QED
      BY <3>1 DEF JobInv
  <2>7. CompletionInv'
    BY <2>3 DEF CompletionInv, Fetching
  <2>8. ResumeInv'
    BY <2>3, <2>4 DEF ResumeInv, ResumeIsItsOwn, StopMeansStop, Landed
  <2> QED
    BY <2>5, <2>6, <2>7, <2>8
<1> QED
  BY <1>1, <1>2

\* The tick's first half: what the completion it calls does to what waits.
LEMMA CompletionCalled ==
  ASSUME DownloadInv, Tick
  PROVE  /\ Pending' \subseteq Pending /\ pendingJoin' \in JobOrNone /\ pendingProc' \in JobOrNone
         /\ Pending' \cap (resumed' \cup stopped) = {}
         /\ resumed' \subseteq Jobs /\ resumed' \subseteq resumed \cup Pending
         /\ resumed' \cap stopped = {}
         /\ fired' \in [Jobs -> Nat] /\ \A j \in Jobs : j # onDone => fired'[j] = fired[j]
         /\ \A j \in resumed' : fired'[j] = 1 /\ thread[j] = "returned" /\ left[j] = 0
         /\ resumePending' \in BOOLEAN /\ resumeSuccess' \in BOOLEAN /\ browserOpen' \in BOOLEAN
         /\ resumePending' => held
         /\ resumePending' /\ resumeSuccess' =>
              \A j \in Pending' : fired'[j] = 1 /\ thread[j] = "returned" /\ left[j] = 0
<1> USE DEF DownloadInv
<1>1. Pending \subseteq Jobs /\ (onDone # None => onDone \in Jobs)
  BY Bounds DEF Pending, TypeOK
<1>2. CASE completionPending /\ onDone # None
  <2>1. /\ OnDownloadFinished(succeeded) /\ AfterResume
        /\ fired' = [fired EXCEPT ![onDone] = @ + 1]
    BY <1>2 DEF Tick
  <2>2. /\ Pending \subseteq {onDone} /\ fired[onDone] = 0 /\ thread[onDone] = "returned"
        /\ succeeded => left[onDone] = 0
    BY <1>2 DEF CompletionInv, StateInv
  <2>3. onDone \notin resumed
    BY <2>2 DEF ResumeInv, ResumeIsItsOwn, Landed
  <2>4. /\ fired' \in [Jobs -> Nat] /\ fired'[onDone] = 1
        /\ \A j \in Jobs : j # onDone => fired'[j] = fired[j]
    <3>1. onDone \in Jobs /\ fired \in [Jobs -> Nat]
      BY <1>1, <1>2 DEF TypeOK
    <3>2. fired' = [fired EXCEPT ![onDone] = 1]
      BY <2>1, <2>2
    <3> QED
      BY <3>1, <3>2
  <2>5. browserOpen' \in BOOLEAN
    BY <2>1 DEF AfterResume, TypeOK
  <2>6. \A j \in resumed : fired'[j] = 1 /\ thread[j] = "returned" /\ left[j] = 0
    BY <2>3, <2>4 DEF ResumeInv, ResumeIsItsOwn, Landed, TypeOK
  <2>7. CASE held /\ resumePending' = TRUE /\ resumeSuccess' = succeeded
             /\ UNCHANGED <<pendingVars, resumed>>
    BY <1>1, <2>2, <2>4, <2>5, <2>6, <2>7
    DEF pendingVars, Pending, TypeOK, ResumeInv, StopMeansStop
  <2>8. CASE /\ ~held /\ Resume(succeeded, browserOpen)
             /\ UNCHANGED <<resumePending, resumeSuccess>>
    <3>1. \/ UNCHANGED <<pendingVars, resumed>>
          \/ ForgetPending /\ UNCHANGED resumed
          \/ Pending # {} /\ succeeded /\ ForgetPending /\ resumed' = resumed \cup {Waiting}
      BY <2>8 DEF Resume
    <3>2. Pending # {} => Waiting \in Pending
      BY DEF Pending, Waiting
    <3>3. ~resumePending'
      BY <2>8 DEF ResumeInv
    <3>4. CASE UNCHANGED <<pendingVars, resumed>>
      BY <1>1, <2>4, <2>5, <2>6, <2>8, <3>3, <3>4
      DEF pendingVars, Pending, TypeOK, ResumeInv, StopMeansStop
    <3>5. CASE ForgetPending /\ UNCHANGED resumed
      BY <2>4, <2>5, <2>6, <2>8, <3>3, <3>5, Bounds
      DEF ForgetPending, Pending, TypeOK, ResumeInv, StopMeansStop
    <3>6. CASE Pending # {} /\ succeeded /\ ForgetPending /\ resumed' = resumed \cup {Waiting}
      <4>1. Waiting = onDone /\ onDone \notin stopped
        BY <2>2, <3>2, <3>6 DEF ResumeInv
      <4>2. Pending' = {}
        BY <3>6 DEF ForgetPending, Pending
      <4>3. pendingJoin' \in JobOrNone /\ pendingProc' \in JobOrNone
        BY <3>6, Bounds DEF ForgetPending
      <4>4. resumed' = resumed \cup {onDone} /\ onDone \in Jobs /\ onDone \in Pending
        BY <1>1, <1>2, <3>2, <3>6, <4>1
      <4>5. /\ resumed' \subseteq Jobs /\ resumed' \subseteq resumed \cup Pending
            /\ resumed' \cap stopped = {}
        BY <4>1, <4>4 DEF TypeOK, ResumeInv, StopMeansStop
      <4>6. \A j \in resumed' : fired'[j] = 1 /\ thread[j] = "returned" /\ left[j] = 0
        BY <2>2, <2>4, <2>6, <3>6, <4>4
      <4>7. resumePending' \in BOOLEAN /\ resumeSuccess' \in BOOLEAN
        BY <2>8 DEF TypeOK
      <4> QED
        BY <2>4, <2>5, <3>3, <4>2, <4>3, <4>5, <4>6, <4>7
    <3> QED
      BY <3>1, <3>4, <3>5, <3>6
  <2> QED
    BY <2>1, <2>7, <2>8 DEF OnDownloadFinished
<1>3. CASE ~(completionPending /\ onDone # None)
  <2>1. UNCHANGED <<pendingVars, resumePending, resumeSuccess, browserOpen, fired, resumed>>
    BY <1>3 DEF Tick
  <2> QED
    BY <1>1, <2>1 DEF pendingVars, Pending, TypeOK, ResumeInv, ResumeIsItsOwn, StopMeansStop, Landed
<1> QED
  BY <1>2, <1>3

\* The second half: the run is over, or the deferred job's takes its place.
LEMMA TickInv ==
  ASSUME DownloadInv, Tick
  PROVE  DownloadInv'
<1> USE DEF DownloadInv
<1>1. /\ UNCHANGED <<held, pc, asking, caller, replaced, stopped>> /\ asking = None
      /\ \A i \in Jobs : completionPending \/ state = "Idle" => ~Fetching(i)
  BY DEF Tick, mainVars, JobInv, OneWorker, StateInv
<1>2. /\ OneWorker' /\ StateInv'
      /\ state' \in {"Idle", "Running", "Finished"} /\ onDone' = None
      /\ cancel' \in BOOLEAN /\ succeeded' \in BOOLEAN /\ completionPending' \in BOOLEAN
      /\ thread' \in [Jobs -> {"none", "loop", "fetch", "failed", "returned"}]
      /\ left' \in [Jobs -> 0..MaxFiles]
      /\ deferred' = None
      /\ \A i \in Jobs : i # deferred => thread'[i] = thread[i] /\ left'[i] = left[i]
  <2>1. CASE LaunchDeferred
    <3>1. /\ deferred \in Jobs /\ deferred' = None
          /\ \A i \in Jobs : ~Fetching(i)
      BY <1>1, <2>1, Bounds DEF LaunchDeferred, TypeOK
    <3>2. caller[deferred] = "console"
      BY <3>1 DEF JobInv
    <3>3. BeginRun(deferred, "console") /\ "console" \in Callers
      BY <2>1, <3>2 DEF LaunchDeferred, Callers
    <3>4. onDone' = None
      BY <3>3 DEF BeginRun, Completion
    <3> QED
      BY <3>1, <3>3, <3>4, BeginRunInv
  <2>2. CASE deferred = None /\ completionPending /\ TakeCompletion /\ UNCHANGED <<deferred, workerVars>>
    BY <1>1, <2>2 DEF TakeCompletion, workerVars, TypeOK, OneWorker, StateInv, Fetching
  <2> QED
    BY <2>1, <2>2 DEF Tick, TickLocked
<1>3. /\ Pending' \subseteq Pending /\ pendingJoin' \in JobOrNone /\ pendingProc' \in JobOrNone
      /\ Pending' \cap (resumed' \cup stopped) = {}
      /\ resumed' \subseteq Jobs /\ resumed' \subseteq resumed \cup Pending
      /\ resumed' \cap stopped = {}
      /\ fired' \in [Jobs -> Nat] /\ \A j \in Jobs : j # onDone => fired'[j] = fired[j]
      /\ \A j \in resumed' : fired'[j] = 1 /\ thread[j] = "returned" /\ left[j] = 0
      /\ resumePending' \in BOOLEAN /\ resumeSuccess' \in BOOLEAN /\ browserOpen' \in BOOLEAN
      /\ resumePending' => held
      /\ resumePending' /\ resumeSuccess' =>
           \A j \in Pending' : fired'[j] = 1 /\ thread[j] = "returned" /\ left[j] = 0
  BY CompletionCalled
<1>4. Pending \subseteq Jobs /\ \A i \in Jobs : thread[i] = "returned" => i # deferred
  BY Bounds DEF Pending, TypeOK, JobInv
<1>5. TypeOK'
  BY <1>1, <1>2, <1>3, Bounds DEF TypeOK
<1>6. JobInv'
  <2>1. \A i \in Jobs : caller[i] = "" => i # onDone /\ i # deferred /\ i \notin Pending' \cup resumed'
    <3> SUFFICES ASSUME NEW i \in Jobs, caller[i] = ""
                 PROVE  i # onDone /\ i # deferred /\ i \notin Pending' \cup resumed'
      OBVIOUS
    <3>1. thread[i] = "none" /\ i \notin Pending \cup resumed /\ i # deferred
      BY DEF JobInv
    <3>2. i # onDone
      BY <3>1, Bounds DEF CompletionInv, Fetching
    <3> QED
      BY <1>3, <3>1, <3>2
  <2> QED
    BY <1>1, <1>2, <1>3, <2>1, Bounds DEF JobInv
<1>7. CompletionInv'
  BY <1>2 DEF CompletionInv
<1>8. ResumeInv'
  BY <1>1, <1>2, <1>3, <1>4 DEF ResumeInv, ResumeIsItsOwn, StopMeansStop, Landed
<1> QED
  BY <1>2, <1>5, <1>6, <1>7, <1>8

LEMMA StepInv == DownloadInv /\ [Next]_vars => DownloadInv'
<1> SUFFICES ASSUME DownloadInv, [Next]_vars PROVE DownloadInv'
  OBVIOUS
<1>1. CASE Commands
  BY <1>1, AttemptInv, StartInv DEF Commands
<1>2. CASE StopCommand \/ InCall
  BY <1>2, InCallInv DEF InCall
<1>3. CASE Tick
  BY <1>3, TickInv
<1>4. CASE Menu
  BY <1>4, BrowserInv, AnswerInv DEF Menu
<1>5. CASE Worker
  BY <1>5, RunJobInv DEF Worker
<1>6. CASE UNCHANGED vars
  <2>1. TypeOK /\ (asking # None => pc \in {"abandon", "defer"})
    BY DEF DownloadInv, JobInv
  <2>2. UNCHANGED <<state, onDone, cancel, succeeded, completionPending, deferred, workerVars,
                    pendingVars, held, resumePending, resumeSuccess, browserOpen, pc, asking,
                    caller, fired, replaced, stopped, resumed>>
    BY <1>6 DEF vars, runVars, holdVars, mainVars
  <2> QED
    BY <2>1, <2>2, CommandInv DEF TypeOK
<1> QED
  BY <1>1, <1>2, <1>3, <1>4, <1>5, <1>6 DEF Next

\* The invariant holds however many downloads are started, replaced and stopped.
THEOREM DownloadInvariant == Spec => []DownloadInv
BY InitInv, StepInv, PTL DEF Spec

\* The variables keep their types.
THEOREM TypeCorrect == Spec => []TypeOK
<1>1. DownloadInv => TypeOK
  BY DEF DownloadInv
<1> QED
  BY <1>1, DownloadInvariant, PTL

\* The store and the progress have one writer, though the worker that was told to
\* stop goes on until it notices.
THEOREM SingleWorker == Spec => []OneWorker
<1>1. DownloadInv => OneWorker
  BY DEF DownloadInv
<1> QED
  BY <1>1, DownloadInvariant, PTL

\* What the player called off never goes ahead.
THEOREM StopsForGood == Spec => []StopMeansStop
<1>1. DownloadInv => StopMeansStop
  BY DEF DownloadInv, ResumeInv
<1> QED
  BY <1>1, DownloadInvariant, PTL

\* What goes ahead has its own download behind it, complete.
THEOREM ResumesItsOwn == Spec => []ResumeIsItsOwn
<1>1. DownloadInv => ResumeIsItsOwn
  BY DEF DownloadInv, ResumeInv
<1> QED
  BY <1>1, DownloadInvariant, PTL

\* Every completion is the first of its job, after its worker returned, and says
\* success only of a complete download.
THEOREM CompletionsAreTheirOwn == Spec => CompletionIsItsOwn
<1>1. DownloadInv /\ [Next]_vars =>
        [\A j \in Jobs : fired'[j] # fired[j] =>
           /\ fired[j] = 0
           /\ thread[j] = "returned"
           /\ succeeded => left[j] = 0]_vars
  <2> SUFFICES ASSUME DownloadInv, Next, NEW j \in Jobs, fired'[j] # fired[j]
               PROVE  fired[j] = 0 /\ thread[j] = "returned" /\ (succeeded => left[j] = 0)
    BY DEF vars
  <2>1. Tick
    BY DEF Next, Commands, InCall, Menu, Worker, AttemptJoin, BeginHostDownload, StartFor, Start,
           StopCommand, Abandon, Defer, CancelAfterCheck, OpenBrowser, CloseBrowser, AskToCancel,
           AnswerStop, AnswerKeep, ClearMenus, RunJob
  <2>2. completionPending /\ onDone # None /\ fired' = [fired EXCEPT ![onDone] = @ + 1]
    BY <2>1 DEF Tick
  <2>3. j = onDone
    BY <2>2 DEF DownloadInv, TypeOK
  <2> QED
    BY <2>2, <2>3 DEF DownloadInv, CompletionInv, StateInv
<1> QED
  BY <1>1, DownloadInvariant, PTL DEF Spec, CompletionIsItsOwn

\* While the question whether to cancel is up nothing goes ahead, and no completion is
\* kept back once it is answered.
THEOREM QuestionIsAsked == Spec => QuestionHolds
<1>1. DownloadInv => (resumePending => held)
  BY DEF DownloadInv, ResumeInv
<1>2. [Next]_vars => [held /\ held' => resumed' = resumed]_vars
  <2> SUFFICES ASSUME Next, held, held' PROVE resumed' = resumed
    BY DEF vars
  <2>1. CASE Commands
    BY <2>1 DEF Commands, AttemptJoin, BeginHostDownload, StartFor, Start
  <2>2. CASE StopCommand \/ InCall
    BY <2>2 DEF StopCommand, InCall, Abandon, Defer, CancelAfterCheck
  <2>3. CASE Tick
    BY <2>3 DEF Tick, OnDownloadFinished
  <2>4. CASE Menu
    BY <2>4 DEF Menu, OpenBrowser, CloseBrowser, AskToCancel, AnswerStop, AnswerKeep, ClearMenus,
                ReleaseKeep
  <2>5. CASE Worker
    BY <2>5 DEF Worker, RunJob
  <2> QED
    BY <2>1, <2>2, <2>3, <2>4, <2>5 DEF Next
<1> QED
  BY <1>1, <1>2, DownloadInvariant, PTL DEF Spec, QuestionHolds
===============================================================================
