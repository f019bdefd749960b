# ForkUnderA in TLA+

ForkUnderA is a fork of Zandronum, the multiplayer Doom engine, with a server
browser, a file downloader, a server registry and a game loop that runs the game
on a thread of its own. This project specifies the parts of it that are right or
wrong by the order in which threads, machines and callbacks act, checks them on
small instances with TLC, and proves what matters most of them, for every
instance, with TLAPS.

Paths below are relative to `src/src/zandronum/src/` unless they say otherwise.

1. [Inventory](#1-inventory) of the program's parts
2. [Plan](#2-plan): what is modelled, what comes next
3. [The modules](#3-the-modules), beside the code
4. [The runs](#4-the-runs): what is checked, bounds, fairness
5. [The proofs](#5-the-proofs)
6. [Where code and docs part](#6-where-code-and-docs-part)
7. [What is not modelled](#7-what-is-not-modelled)

## 1. Inventory

The engine is one process, client or server or both. The main thread runs
frames (`D_DoomLoop`, `D_RunFrame`): input, network, game tics, sound, drawing.
Around it are worker threads, each with its own few variables shared under a
mutex or through atomics. Clients and servers talk by UDP; the registry daemon
(`../server-registry`) is a program of its own.

### 1.1 Threads

| Part | Code | State | Operations | Interacts with |
|---|---|---|---|---|
| Job pool | `features/jobs` | the job's fields, `m_next`, `m_done`, `m_open`, `m_generation`, `m_stop`, `m_active`, `m_sleeping`, a thread per lane | `ParallelFor`, `Wake`, `Resize`, `Stop`; `WorkerMain`, `RunItems`, `Sleep` | called by the renderer's passes, from one thread at a time |
| Handoff | `features/handoff` | `g_work`, `g_done`, `g_inFlight`, `g_error`; the phase (`g_gameThread`, `g_gameRunning`, `g_mainInHandoff`); the ask; the effects queue | `StartOnGameThread`, `TakeBack`, `WaitForGameThread`, `AskMain`, `ServeAsks`, `DrainEffects` | the game loop, the playsim's seams, sound and menus |
| Game loop | `features/gameloop`, `d_main.cpp` | the tic in flight and the clock tic it began in | `GameThreadFrame`, `FinishInFlight`, `RunTic`, `CatchUp` | `D_RunFrame`, the handoff |
| Receive thread | `features/net-transport` | a bounded queue of datagrams with their arrival times | receive, admit or drop, hold, release | the socket, the network frame |
| Copies for drawing | `features/gamecopy` | a copy of what the renderer reads | copy, in the handoff | the playsim, the renderer |

What makes them right: one thread at the game at a time; a parallel loop's
caller gets its stack back only when nobody uses it; a thread that waits is
woken; what a tic puts off is done once and in order.

### 1.2 Netcode

| Part | Code | State | Operations | Interacts with |
|---|---|---|---|---|
| Packet archive | `network/packetarchive.cpp` | a byte buffer with a write position, a table of records, the next number; unnumbered and rescheduled packets | `StorePacket`, `FindPacket`, `Clear`; `Send`, `Tick`, `SchedulePacket`, `ForceSendAll` | the server's clients |
| Packet stream | `sv_main.cpp`, `cl_main.cpp` | client: a byte ring with slots, last parsed and highest number, a countdown; server: a countdown per client | send, tick, receive, reorder, ask for what is missing, resend, kick, give up | archive, network, both games |
| Handshake | `sv_main.cpp` (`CLS_*`), `cl_main.cpp` (`CTS_*`) | a state at each end, a slot per client, retries | connect, challenge, authenticate, receive the level, spawn, time out | stream, bans, identity, join queue |
| Voting | `callvote.cpp` | the vote's state, ballots, tallies, the caller, cool-downs | call, vote, tally, tick, disconnect | player slots |
| Join queue | `joinqueue.cpp`, with `gamemode.cpp`, `survival.cpp`, `g_level.cpp` | an ordered list of slots, a copy of it at each client | push, pop, remove; connect, join, watch, leave, die, change level | player slots, game modes, the handshake |
| Replication | `features/net-replication`, `features/netids` | per client what it was last told | compare, send deltas, forget | stream, playsim |
| Rejoin | `features/net-client` | where to go back to | remember, retry, forget | handshake, reload |
| Bans, remote console | `sv_ban.cpp`, `sv_rcon.cpp` | address lists; sessions | add, expire; log in, run | handshake, registry |

What makes them right: the client's game sees the server's packets whole,
once and in order, or the connection ends; no packet is lost silently; a server
shows a client no level it was not given to load, and the client ends in the game,
at the level that is on, or out of it; a vote has room for every ballot and runs only
what had a majority; nobody waits in line beside a free seat, and nobody is passed
over.

### 1.3 Services

| Part | Code | State | Operations | Interacts with |
|---|---|---|---|---|
| Downloader | `features/wad-download` | `g_state`, `g_onDone`, `g_cancel`, `g_completionPending`, a deferred job, one detached worker | `Start`, `Abandon`, `Cancel`, `Tick`; the worker's `RunJob` | join, hosting, console |
| Join and hosting resume | `features/server-browser` (`zx_joinserver`) | the pending join or hosting, the hold, a resume kept back | attempt, finish, hold, release, forget | downloader, browser, reload |
| Server browser, menus | `features/server-browser`, `menu` | lists, the question that is up | query, select, join, cancel | registry, downloader |
| File resolver, library, serving | `zx_resolvejob`, `features/wad-library`, `features/wad-serve` | a worker each | begin, poll, cancel; serve | downloader's job policy |
| Registry daemon | `../server-registry/main.cpp` | servers and when each was last heard, receipts of the ban list, reach cookies | announce, verify, time out, answer a launcher | game servers, launchers |
| Announcing | `features/federated-server-registry` | the registries and when each was last told | announce, answer | registry daemon |
| Hosting | `features/server-hosting`, `features/host-command` | a child process, a watchdog, probes | start, stop, watch | browser, registry |
| Others | `features/updater`, `port-mapping`, `music-cache`, `identity`, `telemetry`, `crashreport`, `replay`, `mcp_bridge.cpp` | small, mostly one worker each | | |

What makes them right: one worker per service; a completion reaches the caller
it belongs to, once; what the player called off does not happen; a silent server
leaves the list and a live one stays.

### 1.4 The hard behaviours

- *Interleaving.* The pool's late workers; the frame that starts a tic and goes
  on before the tic has marked its thread; a worker that ends between `Start`'s
  look at it and its act.
- *Sleep and wake.* Counters read outside the mutex on both sides (`m_sleeping`,
  `g_done`).
- *Lost, repeated and reordered datagrams*, in both directions, over rings that
  free nothing and write over what they held.
- *Stale state.* Slots of a former job, run or client that a later one finds.
- *Things that throw* halfway through a handoff.
- *Limits.* The archive's size, the packets per tick, the receive queue.

`PROJECT.json` lists each hazard at its line with the properties that would
catch it.

## 2. Plan

| | Module | Models | State |
|---|---|---|---|
| 1 | `JobPool`, abstract `ForkJoin` | the job pool | checked; safety and refinement proved |
| 2 | `GameThread`, abstract `GameTurns` | handoff, game loop, the seams' phase | checked; safety and refinement proved |
| 3 | `PacketArchive`, `ReliableStream`, abstract `OrderedDelivery` | the stream for one client in the game | checked; safety and refinement proved |
| 4 | `WadDownload` | downloader, pending join or hosting, the question | checked; safety proved |
| 5 | `Connection` | the handshake of one client and one slot: retries, late and repeated attempts, level changes in the middle of it | checked; safety proved |
| 6 | `JoinQueue` | the line, who may join, survival's rounds, the level changes that pop it, a client's copy | checked; safety proved |
| 7 | `CallVote` | a vote's ballots, tallies, countdown and verdict, over slots that change hands | checked; safety proved |
| 8 | `ServerRegistry` | a server and its registry: announcing, verification, the time-out, ban lists and receipts, restarts of both | checked; the listing in time proved |
| 9 | `ReceiveThread` | the datagram queue between socket thread and frame | not done |

Composition: `ReliableStream` extends `PacketArchive`. `Connection` stands on the
stream's promise and keeps no archive of its own; `JoinQueue` and `CallVote`
each have the slots they need, because what one does to a slot the other reads
only through who is in it.

What comes first of what is left: the datagram queue between the receive thread
and the frame; what a client of `Connection` makes of what it is told when datagrams
overtake one another, of which the code promises less than one would like
(section 6).

## 3. The modules

A module's history variables record what the code does not keep (which indices
ran, what was written); no guard of the code's actions reads them but to bound
the run. An operator marked as a bug is not part of a specification: it is a
plausible wrong form of the definition after it, by which the properties are
tested.

### 3.1 JobPool and ForkJoin

One caller publishes a job of `n` items; workers and caller share out its indices
through `m_next`. Each access to an atomic that another thread may change is an
action of its own, and so is each wait for the mutex, the condition variable or a
count; what only one thread can touch is written in one step. `pc` says where
each thread is, by the line it is about to run.

| Code (`jobpool_compute.cpp`) | Model |
|---|---|
| `ParallelFor` | `PublishJob`, `OpenJob`, `BumpGeneration`, `ReadSleeping`, `PassLock`, `NotifyAll`, `AwaitDone`, `CloseJob`, `AwaitQuiet`, `ReturnFromJob`; `RunInline` without workers |
| `RunItems` | `TakeItem`, `RunItem`, `CountDone`, `RecordStart` |
| `WorkerMain` | `ReadGeneration`, `SpinSees`, `SpinTimesOut`, `CheckStop`, `JoinJob`, `CheckOpen`, `CheckGeneration`, `LeaveJob` |
| `Sleep` | `SleepLocks` to `SleepEnds`, with `SelfWake` |
| `Stop`, `Resize`, `Wake` | `StopSets`, `StopJoins`, `Resize`, `Wake` |

`m_generation` wraps at `GenMod`, 2^32 in the build. `JobRaceFree` says that
the fields of a job belong to the caller outside one; `NoWakeMissed` is about the
worker that goes to sleep just as the caller looks whether anybody sleeps.
`ForkJoin` says with no threads at all that each of a job's indices has run, at
least once, when the caller returns, and that it does return; `AtMostOnce` says in the
module's own terms that none runs twice, which `ForkJoin` cannot see. `AllRanOnReturn`
and `LanesTold` (what the timing observer is told) are proved and left out of the
run.

### 3.2 GameThread and GameTurns

Two threads: `main` goes through a frame (serve the tic's asks, decide, finish
the tic or not, handoff, start the next, input, draw), `game` through a tic (wait
for work, mark itself, run, ask the main thread, be done, wake it).

| Code | Model |
|---|---|
| `GameThreadFrame`, `D_DisplayBesideTic` | `FrameStarts`, `Decide`, `HandoffWork`, `HandOver`, `NoTicInFlight`, `Frame` |
| `FinishTic`, `TakeBack`, `RunTic`, `CatchUp` | `FinishTic`, `RunTic`, `TicReturns`, `TicUnwinds` |
| `GameThreadMain` | `Born`, `WaitForWork`, `BeginTic`, `TicEnds`, `SetDone` |
| `Asks` (`Ask`, `RunTaken`, `ServeUntil`, `Wake`) | `AskMain`, `TakeAsk`, `Answer`, `AskReturns`, `CheckDone`, `WaitForWake`, `Wake` |
| `StandIn` in `ServeAsks` | `RunAsk` and the saved phase `was` |
| `QueuedForHandoff`, `QueuedBesideTic`, `DrainEffects` | `QueueEffect`, `FocusQueued`, `DrainEffects` |
| `S_SetSoundPaused` | `SetSoundPaused`, in two steps: it asks, then acts |
| restart, error | `RestartRequested`, `RestartThrown`, `DisplayUnwinds`, `ErrorCleanup` |

A section of `g_mutex` is one step. The asks' mutex is explicit, since `g_done`
is set outside it. What schedules a tic (`ThreadedNow`, `Net_TicsDue`) is a
choice, but for the pause it reads. A tic is any number of asks and effects up
to the bounds. Wipes, `paused` above 0 (the user's) and its reset on loading a
level are left out; client and server netgames use the inline path of the model.

`GameTurns` is the game as one thing passed round: the main thread gives it to a
tic, may be lent it back for an ask, and takes it when the tic is over.

### 3.3 PacketArchive, ReliableStream and OrderedDelivery

`PacketArchive` has the archive's data structure as a record and its operations
as operators on it: `StorePacket` writes a packet's bytes at the write position,
from the start again if they would reach the end, and its record in the slot of
its number; `FindPacket` believes the record; nothing ever frees bytes. A packet
is a name and a size, and a byte is the name of its packet, so a packet written
over in part is seen. `LastPacketsWhole` says that the last
`PACKET_BUFFER_SIZE` packets read back whole. It holds because no packet is
longer than the maximum less the room that `SERVER_CheckClientBuffer` leaves
free, and the sum of that room over all records makes up for the bytes the
buffer's end wastes: `ArchiveAssumption`, which the build meets (8192 at most
2049 times 5) and without which a model of 3 records already fails.
`StreamAssumption` has the client's ring hold at least one packet of the largest
size, which the build's holds 2048 times over: the ring is
`MAX_UDP_PACKET * PACKET_BUFFER_SIZE` bytes (`cl_main.cpp:531`), and
`sv_maxpacketsize` is kept within `MAX_UDP_PACKET` (`sv_main.cpp:437`).

`ReliableStream` puts the archive at one end of a network and the client's ring
at the other.

| Code | Model |
|---|---|
| `SERVER_SendClientPacket`, `OutgoingPacketBuffer::SendPacket`, `ScheduleUnsentPacket` | `SendClientPacket`, `ScheduleUnsentPacket`, `Launch` |
| `OutgoingPacketBuffer::Tick`, `ForceSendAll` | `ServerTick` (`TickSends`, `TickKicks`), `StoreAll` |
| `server_MissingPacket`, `SchedulePacket` | `MissingPacket` (`IgnoreRequest`, `KickForLost`, `ResendAsked`) |
| `sv_maxpacketspertick` | `SetMaxPackets` |
| `CLIENT_ReadPacketHeader`, `CLIENT_GetNextPacket` | `Receive` (`StoreReceived`, `Held`, `ParseAll`) |
| `CLIENT_CheckForMissingPackets` | `CheckForMissingPackets` (`CountDown`, `NothingMissing`, `GiveUp`, `AskAgain`) |
| the network | a set of datagrams: repeated and reordered freely; `LosePacket` and `LoseRequest` where loss matters |

A limit may be set at any moment, below what the tick has sent too: the signed
number that is then handed to an unsigned delete is in `TickSends` as the code has it
(`packetarchive.cpp:299`, `313`), and the whole queue is dropped. `lowered` records
that this tick's limit was; `DropsOnlyLowered` says that nothing leaves the queue
unnumbered in any other tick.

It has one client, in the game, and one connection. A command larger than a
packet, the kick of a client not yet in the game, and unreliable packets are not
in it. The check for request numbers that do not ascend is never reached by the
client modelled.

`OrderedDelivery` says what the game is owed: the packets applied are the
packets written, in order, each once, up to where the game ends. Packets fall out of
what is owed only in a tick whose limit was lowered, and then all from one on that the
client has not applied.

### 3.4 WadDownload

The main thread starts, replaces, cancels and ticks; a worker per job fetches.
Each section under the downloader's mutex is a step, so `Start` of a job that
finds another in flight is three (`Start`, `Abandon`, `Defer`) and
`fua_download_stop` is two. `Tick` is one, since what it does after its locked
section (start the deferred job's worker, call the completion) touches nothing a
worker writes. A job has the number of the `Start` that asked for it.

| Code | Model |
|---|---|
| `RunJob`, `FetchOne` | `LoopHead`, `FetchOne`, `EndRun` |
| `Start` from a join, from hosting, from `fua_download` | `AttemptJoin`, `BeginHostDownload`, `Start` with `Abandon` and `Defer` |
| `Cancel`, `fua_download_stop` | `Cancel` in `AnswerStop` and `CancelAfterCheck`; `StopCommand` |
| `Tick`, `BeginRunLocked` | `Tick` (`LaunchDeferred`, `TakeCompletion`), `BeginRun` |
| `OnDownloadFinished`, `ComputeResumeAction` | `OnDownloadFinished`, `Resume` |
| `HoldJoinResume`, `ReleaseJoinResume`, `SetPendingResume`, `ForgetPending` | `AskToCancel`, `ReleaseStop`, `ReleaseKeep`, `AwaitHost`, `ForgetPending` |
| the browser's question and its answers, opening, closing, being torn down | `AskToCancel`, `AnswerStop`, `AnswerKeep`, `OpenBrowser`, `CloseBrowser`, `ClearMenus` |

Joins and hosting ask `IsAvailable` first, and with no run in flight there is no
worker to change the answer, so their `Start` is one step; with one in flight
they do nothing. The question owns the browser's input and the console does not
open over a menu, so no command runs while it is up (`MayCommand`); a command
delayed by `wait` or sent by a tool is left out. `cl_fua_download` is on. A
start that is refused changes nothing of this state, and is a stuttering step.

### 3.5 Connection

One client, one slot of the server, and datagrams both ways. Each handler works
on a record of the state it changes and of what it sends, because they call each
other: a packet parsed at the client sends the next question.

| Code | Model |
|---|---|
| `SERVER_GetPackets`, `SERVER_DetermineConnectionType`, `SERVER_ParsePacket` | `GetPackets`, `DetermineConnectionType`, `ParsePacket` |
| `SERVER_SetupNewConnection`, `SERVER_AuthenticateClientLevel`, `SERVER_ConnectNewPlayer`, `server_AuthenticateLevel`, `server_MissingPacket` | operators of the same names |
| `SERVER_ClientError`, `SERVER_ConnectionError`, `SERVER_KickPlayer`, `SERVER_DisconnectClient`, `SERVER_IgnoreIP` | `ClientError`, `ConnectionError`, `KickPlayer`, `DisconnectClient`, `StopIgnoring` |
| `map` and the end of a level: `SERVER_ReconnectNewLevel`, `SERVER_LoadNewLevel` | `NextLevel`, with or without `ReconnectNewLevel` |
| `SERVER_Tick`: asking again, time-outs | `AskAgain`, `TimeOut`; `GameTalks` is what the game itself sends |
| `CLIENT_GetPackets`, `CLIENT_ReadPacketHeader`, `CLIENT_ParsePacket`, `CLIENT_ProcessCommand` | `Receive` (`Store`, `ParseAll`, `ParseNext`, `ProcessCommand`) |
| `CLIENT_Tick`'s three-second repeats | `Tick`, `Repeat` |
| `connect`, `disconnect`, `CLIENT_CheckForMissingPackets` | `Connect`, `Quit`, `CheckForMissingPackets` |
| the network | two sequences; `Lose`, `ArriveTwice`, `Overtake`, as far as `Kinds` has them, `MaxFaults` times |

A packet carries the game it was sent in, for games may share a map, as a restart
or a rotation does. Repeats come every three seconds, which on a network is for
ever: `Quiet` is a moment at which nothing is under way, and a repeat waits for one
but for those that count as faults ("late"), which come while an answer is on its way.
Any datagram may be lost, repeated or overtaken, what is said once as a slot is
emptied like any other.

`LoadedBeforeShown`: what the server sends a slot of a level, a snapshot or the game's
own updates, comes after that level was there to be loaded. It is about what the
server says; what a client has loaded when it applies it is another thing, and section
6 has the ways it may differ. `Settles`: a client that asks gets into the game, or is
out. `FollowsLevel`: one that a level change has left behind comes to the level that is
on, unless it leaves, is let go, or has its slot started over.

### 3.6 JoinQueue

Each request of a client (`SERVER_ConnectNewPlayer`, `server_Spectate`,
`server_RequestJoin`, `server_ChangeTeam`, leaving), of the operator
(`sv_maxplayers`) or a script (`SkipJoinQueue`), each death, round and level change
is an action; the functions of `joinqueue.cpp` keep their names and are operators
on the record of what they change. A slot is out, playing, dead (a dead spectator
keeps his seat) or spectating.

| Code | Model |
|---|---|
| `JOINQUEUE_*` | `AddPlayer`, `RemovePlayerFromQueue`, `RemovePlayerAtPosition`, `PlayerJoinsAtPosition`, `PopQueue`, `PlayerLeftGame`, `CheckSanity` |
| `GAMEMODE_PreventPlayersFromJoining`, `SERVER_CalcNumNonSpectatingPlayers` | `PreventPlayersFromJoining`, `Full` |
| `SURVIVAL_Tick`, `SURVIVAL_FailMission`, `SURVIVAL_RestartMission`, `SURVIVAL_RefreshLives` | `SurvivalTick`, `FailMission`, `RestartMission`, `RefreshLives`; `WaitForPlayers` |
| `G_DoWorldDone`, `G_DoLoadLevel`, `P_SetupLevel` | `WorldDone` (`LevelLoads`, `KeepsSeat`, `SpawnOrWatch`, `EnterLevel`) |
| `SERVERCOMMANDS_PushToJoinQueue`, `..RemoveFromJoinQueue`, `..SyncJoinQueue`, and the client's side of them | `Tell`, `wire`, `Apply`, `copy` of one client, `Watcher` |

`PreventPlayersFromJoining` asks the same in every mode, and each mode adds when
it is closed: of those, survival is in the model. Whether the server keeps its
line over a level change (`sv_dontkeepjoinqueue`) is open at each one, in every
mode. `stranded` records the one case in which the code leaves the line beside free
seats: a team game, whose players a level change makes spectators after the line was
popped (section 6). `NoIdleSeat`, `NoOvertaking` and `CopyFollows` say what the code
keeps and except that level; `OpenSlotsFill`, which does not, is what the history
file says, and the run `team_line` has it violated.

### 3.7 CallVote

A client is a slot and has an address, which another slot may share and which
comes back in another slot. `yesVoters` and `noVoters` are who is on the two lists,
`numYes` and `numNo` the tallies, which part when a voter leaves: `OneBallotPerAddress`
and `RoomForBallot` are about the lists only. A caller's ballot is not part of
`CALLVOTE_BeginVote`; he votes by a command like anybody else (`VoteYes`).

| Code | Model |
|---|---|
| `CALLVOTE_BeginVote`, `callvote_CheckForFlooding` | `CallVote`, `Refuses` |
| `CALLVOTE_VoteYes`, `CALLVOTE_VoteNo`, the caller's no | `VoteYes`, `VoteNo`, `Cancel` |
| `CALLVOTE_TallyVotes`, `CALLVOTE_CountNumEligibleVoters` | `TallyVotes`, `Majority`, `CountNumEligibleVoters` |
| `CALLVOTE_Tick` | `TickInVote`, `TickCompleted` |
| `CALLVOTE_DisconnectedVoter`, `CALLVOTE_ClearVote` | `DisconnectedVoter`, `ClearVote` |
| connecting, leaving, watching, level changes, a new game | `Connect`, `Disconnect`, `ChangeSides`, `LevelChange`, `NewGame` |

### 3.8 ServerRegistry

One server, alone at its address, and one daemon. Time goes in steps of ten
seconds (`Elapse`), in which what was sent has arrived or is lost, the server
has announced itself if its thirty seconds are over, and the daemon's main loop
has come round at least once; the order of these within a step is free, so an
announcement may come just before or just after the check that forgets its
server.

| Code | Model |
|---|---|
| `SERVER_SERVERREGISTRY_Tick`, `..HandleVerificationRequest`, `..SendBanlistReceipt`; `SERVERBAN_ReadServerRegistryBanlistPart` | `Announce`, `HandleVerificationRequest`, `ReadBanlistPart` |
| the strings' check in `SERVER_DetermineConnectionType` | `Heeds` |
| `SERVERREGISTRY_ParseCommands` | `ReceiveAnnouncement` (`Renews`, `AsksNew`, `AsksAgain`), `ReceiveVerification`, `ReceiveReceipt` |
| `SERVERREGISTRY_CheckTimeouts`, `SERVERREGISTRY_SendBanlistToServer` | `Checked`, `CheckSends`, `BanlistSent` |
| the main loop's resends and `SERVERREGISTRY_InitializeBans` | `Swept`, `Reloaded`, in `Pass` |
| starts and ends of the two programs | `Start`, `Stop`, `RestartDaemon` |

The daemon knows a server by its address and by the string the server made up
when it started, so one that restarts meets its own old entry. `ListedInTime`
bounds how long that and a lost datagram may keep it off the list. `away` and
`missed` count for it.

A server's ban list is the set of parts it has read. `NewestListReaches` says that
the daemon goes on sending until the server has the newest list or the daemon has a
receipt it takes for one of it; section 6 says how the second may be without the
first.

## 4. The runs

| Run | Module, config | Asks | Size |
|---|---|---|---|
| `pool` | `MCJobPool.cfg` | the pool: two workers, jobs of 0 to 2 items, generations modulo 2, spurious wakeups; no race, no lost wake, calls return, idle workers end up waiting, `ForkJoin` is implemented | 311 000 states |
| `handoff_safety` | `MCGameThread.cfg` | safety of the handoff, everything may throw, two asks a tic, three effects | 1 542 000 |
| `handoff_liveness` | `MCGameThreadLive.cfg` | nothing thrown: seams, pause and focus, tics taken back, asks answered, `GameTurns` implemented | 30 000 |
| `stream_safety` | `MCReliableStream.cfg` | 3 records, 5 packets of the largest size, gaps of up to two and the one of three that ends the game, a limit of 1 or 2 set at any moment, requests late and repeated; the archive whole, drops only under a lowered limit, only lost packets kick | 114 000 |
| `stream_liveness` | `MCReliableStreamLive.cfg` | packets that do get lost: gaps fill, what is written is sent, `OrderedDelivery` is implemented, under a limit of 1 or 2 set at any moment | 100 000 |
| `download` | `MCWadDownload.cfg` | three starts, one file each | 229 000 |
| `join_queue` | `MCJoinQueue.cfg` | three clients, one or two seats, cooperative, survival and team games, with the line kept over a level change or not | 79 000 |
| `vote` | `MCCallVote.cfg` | three clients of two addresses, a motion called twice, `sv_nocallvote` 0, 1 and 2 | 1 405 000 |
| `connection` | `MCConnection.cfg` | three games on the maps 1, 2, 1; two faults, each a datagram lost, come twice or overtaken, or an early repeat | 355 000 |
| `registry` | `MCServerRegistry.cfg` | a server started up to three times, a ban list of two parts, a change of it or a restart of the daemon, two datagrams lost | 1 029 000 |
| `abandon_race` | `Abandoned.cfg` | what a comment says and the code does not do: section 6 | violated |
| `team_line` | `TeamLine.cfg` | what the history file says of the join queue, in a team game: section 6 | violated |

### 4.1 Bounds

- *Pool.* With two workers one can be late while the other takes part. Two items
  make a job that one lane can take entirely and one that two lanes share.
  Generations modulo 2 are the shortest a counter can wrap, so a worker that
  holds an old value finds it current again after two jobs; the proofs hold for
  any modulus.
- *Game thread.* `MaxInline` 2 lets a frame catch up more than one tic;
  `MaxAsks` 2 lets an ask follow another in the same tic; `MaxEffects` 3 holds a
  loss of focus, a return and an effect of the tic at once.
- *Stream.* With 3 records and 5 packets two packets leave the archive, the slots are
  reused and the buffer starts over, and a gap of two can be open with a packet
  beyond it already held; with a limit of 1 or 2 packets a tick some wait unnumbered,
  and a limit lowered from 2 to 1 after two were sent drops them. The build's
  ring has the largest packet's bytes for each slot, and with that nothing held
  is written over (`RingIsLongEnough`); the liveness run has a ring of 4 bytes,
  with which slots are forgotten. `MaxScheduled` bounds the resends waiting at
  once. In the safety runs what is lost simply never arrives, and everything sent
  may come again.
- *Downloads.* Three starts are a run, one that replaces it and one that
  replaces the queued one. One file suffices for every way a loop can end, since
  its head is passed before and after it.
- *Connection.* The games are a first map, another, and the first again, so a map
  that is right for the wrong game is there. Two faults are a repeat that comes
  early and the loss of one of the two answers, a copy of a datagram that another
  then overtakes, or two losses in one exchange; every datagram may be the one. The
  server's packets are bounded by `MaxSent`, past which no repeat is made; it leaves
  room for each state to be asked again.
- *Join queue.* With three clients two wait behind one seat and one can be passed
  over. `sv_maxplayers` moves between one and two while they wait. `MaxWire` keeps
  requests from outrunning the commands sent.
- *Registry.* Announcements, time-out and resends as in the code, in steps of ten
  seconds. Two losses drop an announcement and its repetition, a part of a list and
  the receipt of the one before; three starts leave the entry of one self to the next
  twice. With two parts a list can be torn, and mixed with the one it replaces.
- *Votes.* Two clients of one address and one of another: an address that votes
  from another slot, and a majority that departures change. `Cells` is the
  lists' length for three slots as the code computes it. Two calls are one and its
  repetition, with `MaxTime` and `CountTicks` of the cooldown and the countdown in
  steps.

### 4.2 Fairness

- *Pool*: every thread goes on, strongly: a thread that waits for the mutex gets
  it in the end, although threads woken for nothing take it again and again.
  Nothing makes the engine call the pool, and no spurious wake is owed.
- *Game thread*: both threads run and the clock goes on. A tic ends. For the
  asks' mutex fairness is strong: the main thread holds it for an instant and
  then draws a frame, so the game thread gets it.
- *Stream*: the server ticks, and the client looks for missing packets. The
  packet the client waits for, sent again and again, arrives at last, and so does
  a request for it at a time when the server listens; without this a network may
  lose everything. `ResendTics` is 1 there: at 0 a client could fill every tick's
  limit of 1 with resends, and packets not yet numbered would starve. The build's
  quarter of a second leaves ticks between.
- *Connection*: both ends receive, repeat and tick, and faults are bounded; which
  datagrams they strike is open. What a clock starts happens whenever its time has come
  (strong), however much is sent meanwhile.
- *Join queue*: the server ticks, delays and intermissions run out, and what is
  sent arrives. Nobody has to die, join or leave.
- *Registry*: time passes, tics and the daemon's loop come round, what is not lost
  arrives, and losses are bounded. Nobody has to stop, start or change a list.
- *Downloads*: the main loop ticks in every frame, whatever commands run between
  (strong, because a command in progress disables it); a call goes on to its end;
  a transfer ends, if only by its time-out. No player is obliged to answer.

## 5. The proofs

All hold for every value of the constants that meets the modules' assumptions.

*Job pool* (first part of `ThreadProofs`). `PoolInv` is inductive and gives type correctness,
`JobRaceFree`, `AtMostOnce`, `AllRanOnReturn`, `LanesTold` and `NoWakeMissed`, for
any finite set of workers and any number of items; with it each step is a step of
`ForkJoin` or none. The safety properties need its other parts: the caller
waits for two counts, so `TalliesExact` ties `m_active` to the places of
threads, and `CountInv` ties `m_done` and the indices not yet counted in it to
the job; `ItemInv` says who holds which index; `CallerInv` says that a worker
inside a job means a caller that has not left it.

*Game thread* (the rest of `ThreadProofs`). `HandoffInv` is inductive, whatever throws
and whichever thread wakes. Its parts say where the tic is (`FlightInv`: waiting
for its thread, running, or done, and no two of them), what each place of the
main thread means for it (`PlaceInv`), in what state an ask is (`AskInv`), and
that the phase is the tic's for as long as it runs (`PhaseInv`). From it follow
`HandoffAlone`, `TicIsMarked`, `AskRunsOnce`, `NoLostWake` and that ownership
passes as `GameTurns` says. `HandoffSeams`
needs `SeamInv` as well, and that no frame and no inline tic throws.

`PauseFollowsFocus` needs that no tic throws either (section 6). Its invariant,
`PauseInv`, looks through the queue: the effects that wait, run in their order
on the pause as it is (`AfterEffects`), give what the window last said, and a
change that acts at once finds no effect before it. Whether the queue is run at
once or grows by one effect changes that result in the way the step does
(`EffectsOneByOne`), so nothing needs to be known about its length.

*Archive* (first part of `ReliableStreamProofs`). `LastPacketsWhole`, for every number of
records and every size that `ArchiveAssumption` allows. `ArchiveInv` counts bytes
around the ring: a packet that is kept, with `k - 1` stored since, either still
lies before the write position and has at most `k` of the largest packets behind
it (`Ahead`), or the buffer has started over since and the writing has come back
to within what is left of those packets (`StartedOver`). Whatever is stored next
then ends before the packet begins, unless the packet was the one to be given up.

*Stream* (the rest of `ReliableStreamProofs`). `StreamInv` has no hypothesis: under
every number that is on its way is the packet stored under it (`SentInv`), an
archive in use holds the last packets whole (`Holds`, from the part before), a
slot of the client that has a number has all its bytes in the ring
(`SlotWhole`), and what was applied is what was stored first, in order
(`ClientInv`). The slot's clause is the one that could fail: what arrives is
written over the oldest bytes of a ring that may be too short for all slots, and
stays true because every slot it touches is forgotten in the same step
(`Overwrites`). `RingIsLongEnough` adds that a ring as long as the build's
(`LongRing`) never has to forget one: `RingInv` follows a slot's bytes by their
age as `ArchiveInv` follows a record's, and the largest packet being shorter than
`sv_maxpacketsize` pays for what the ring's end wastes.
`KickMeansLost` follows although the step that kicks may have stored and resent
any number of packets before it: a number the archive has not got is
`PACKET_BUFFER_SIZE` behind all of them.

`QueueInv` says that what is numbered and what waits are packets written, in
order, each once, and that no more was sent in a tick than the limit unless that was
lowered since. It has no hypothesis either: a lowered limit makes the tick's number
negative, and what the tick then does is drop the whole queue (`DropsOnlyLowered`),
which `OrderedDelivery` allows where the limit is lowered and nowhere else. With it
each step of the stream is one of `OrderedDelivery` or none: `ImplementsDelivery`, for
every size of archive and ring, every limit set at any moment, any number of packets
and any loss, repetition and order of arrival.

*Downloads* (`WadDownloadProofs`). `DownloadInv` is inductive. `OneWorker` has to
say both that no two workers fetch and that one fetches exactly while the state
is Running; the second is what shows that `BeginRun` finds no worker. The
properties of completions rest on `CompletionInv`: a completion that is set
belongs to the run in flight or just ended, and nothing waits for another job.
`ResumeInv` carries a success that a question keeps back: while it is kept,
what waits has landed, so going ahead later is still right. They give
`OneWorker`, `CompletionIsItsOwn`, `StopMeansStop`, `ResumeIsItsOwn` and
`QuestionHolds`.

*Votes* (`CallVoteProofs`). `VoteInv` is inductive, for any finite set of clients
with any addresses and any motions. `RoomForBallot` is the one that needs it: the
lists have half as many cells as there are slots, and what keeps a ballot from
finding them full is that a vote is settled as soon as more than half of those
who may vote have said the same, tallied after every ballot. `PassedByMajority`
holds although the verdict of the last vote is not cleared, because it is read
only once a new one is made. `NotAskedAgain` rests on the list of previous votes
being kept in order of age.

*Join queue* (`JoinQueueProofs`). `QueueInv` is inductive, for any finite set of
players, any number of seats and any length of the line, the wire and a step's
commands, in every mode and whether the line is kept over a level change or not. It
joins `NoIdleSeat` to two facts without which it is not
kept: everyone in line is there once and is a spectator (`LineOfWatchers`, so a pop
always seats somebody and `CheckSanity` finds nothing), and the copy follows
(`CopyFollows`). A stranded line, which a level change in a team game leaves beside
free seats, has its clause in each: who is in it need not watch, and nothing is said of
seats or copies until the next level. Each handler passes through states in which a seat is idle;
`Handled` is what holds between its calls, `PopStep` that `PopQueue` ends with the
seats taken or the line empty, and `Spoken` that what a handler has told so far,
applied to the old line, gives the new one. `NoOvertaking` and `NeverOverfull`
come from the same lemmas, since players are only taken from the front and a
seat is counted before each; `NeverOverfull` excepts no line.

*Registry* (`ServerRegistryProofs`). `ListedInTime`, for every heartbeat and
time-out that the module's assumption allows and any number of starts, list
changes and losses. `RegistryInv` is a clock: what a server has waited and what it has
still to wait until its next announcement make one heartbeat for each
announcement that came to nothing, and one came to nothing only because a datagram was
lost (`HeardInTime`, `Pending`). It needs two things more: that the daemon does not
forget the server while it waits for the answer (`AskedInTime`), and that the entry
of an earlier self is at least as old as the wait, so that it goes first
(`OutlivesOld`).

*Connection* (`ConnectionProofs`). `LoadedBeforeShown`, for any maps, any number of
level changes and of other clients at the address, and without a word about the
network: `SlotInv` speaks of the server's slot alone, and its step is proved for any
datagram whatever, so what is lost, repeated, overtaken or late needs no hypothesis.
The invariant adds to the property what makes it hold of the next packet: a slot that
counts as authenticated, or as in the game, has been given the level that is on
(`Given`). A level change is what could break that, and it marks every such slot as
outdated or in need of authentication in the same step.

*Only model-checked.* Everything that must happen in the end (`CallsReturn`,
`IdlePoolSleeps`, `TicTakenBack`, `AskAnswered`, `GapsFill`, `WrittenIsSent`,
`DeferredSettles`, `InLineGetsIn`, `Settles`, `FollowsLevel`, `NewestListReaches`) and
the fairness of the refinements, for the prover does neither fairness nor
enabledness.

*Recursion* (`Recursion`). The library's induction theorems take an operator,
which the provers cannot instantiate. What a queue, a line or an archive becomes
when it is gone through one by one is therefore a recursive function in the
models, and induction is done on sets: `NatSetInduction` says that a set with 0
and with each number's successor holds every number, from the library's fact
that the subsets of a finite set are well-founded, and `RecursionExists` that
a recursive function has a value at every place.

## 6. Where code and docs part

Two runs show a sentence of the code's own comments or history violated by what the
code does.

- `abandon_race`: "Abandon drops it" (`zx_waddownload.h:95`). `Start` sees a run
  in flight, the worker ends it, `Abandon` finds nothing in flight and returns:
  the completion stays, and the join that was replaced goes ahead.
- `team_line`: "in packed servers, you can "wait in line" to play when all the server
  slots are taken. When a slot opens up, you will then automatically spawn in"
  (`docs/Skulltag Version History.txt:2003`). A level's load pops the line
  (`g_level.cpp:1188`) while the seats are still taken; then the teams are cleared
  unless `sv_keepteams` is on (`g_level.cpp:1255`), and `P_SetupLevel` makes every
  player without a team a spectator (`p_setup.cpp:4587`). With the line kept, as it is
  by default (`docs/zandronum-history.txt:261`), nothing pops it after that: those in
  line wait beside free seats. The first of them then gets a seat by
  `server_RequestJoin`, which leaves him in the line he plays beside, and anybody else
  may take one the same way past him (`stranded` in `NoOvertaking`).

Disagreements met on the way, with no run of their own. The first were found with
the modules, by running them with the constant or the place named:

- "servers now acknowledge the receipt of the ban list to account for packet loss"
  (`docs/Skulltag Version History.txt:131`). The receipt is sent for the last part
  of a list (`sv_ban.cpp:385`), whether or not the parts before it came, so a
  server that missed one keeps a torn list and is not sent it again.
  A receipt does not name its list either: one of the old list that comes after the
  new one was sent, and lost, counts for it (`server-registry/main.cpp:828`).
  `NewestListReaches` fails without its clause for either, `entry.verifiedLatest`.
- "A focus change while a tic runs on the game thread waits for the handoff"
  (`s_sound.cpp:2156`). The frame that starts a tic takes its input at once
  (`loop.cpp:211`); until the tic has marked its thread, `BesideTic` is false and
  the focus change writes `paused` beside the tic (`FocusActs` while the game
  thread is past `BeginTic`).
- "never unwind beside a running tic" (`d_main.cpp:1535`). A recoverable error
  thrown while a frame is drawn (`DisplayUnwinds`) reaches the clean-up at
  `d_main.cpp:1670` with the tic still running.
- With `sv_maxpacketspertick` lowered inside a tick below what the tick has sent,
  the number still to send is negative, and the delete that takes it as unsigned
  empties the queue (`packetarchive.cpp:313`): packets are lost that were never
  numbered, so no gap shows. `DropsOnlyLowered` says that it happens in such a tick
  and in no other.
- "A client sits in one state re-sending the same request every three seconds until
  the server's answer moves it along"
  (`features/identity/computation/connectchallenge_compute.h:6`). A client whose
  level changed before it was in the game has its requests for missing packets
  ignored (`sv_main.cpp:4891`), so behind a gap every answer only adds to what it
  cannot parse, until it gives up at 2048. `Settles` excepts it (`AsksInVain`).
- What a client is told as its slot is emptied (that it is kicked or refused, or
  that the map is new) is never said again, since the packets kept for it go with
  the slot (`sv_main.cpp:3793`): lost, the client asks an empty slot until it is
  ignored, with no time-out of its own. The run `connection` loses it; `Settles` and
  `FollowsLevel` leave such a client out (`Counted`, a slot that is gone). If it is
  overtaken, an answer's `CLIENT_RequestSnapshot` may empty the slot that
  holds it (`cl_main.cpp:983`).
- Spectators are not asked again for the level (`sv_main.cpp:866`), so one whose
  request is lost stays behind. `FollowsLevel` fails with `Spectates`.
- A late copy of the first connection packet starts a slot's numbers over
  (`sv_main.cpp:2096`), so the client may apply what was numbered for an earlier
  connection, or wait for numbers that come anew, and `FollowsLevel` excepts a slot
  that was started over.
- A client proves a level by its map (`CLIENT_AttemptAuthentication`, `cl_main.cpp:944`),
  and loads the map it was asked for last when any of its proofs is answered
  (`cl_main.cpp:1565`). With maps that
  return (games on the maps 1, 2, 3, 2), one early repeat and one datagram lost, it
  is asked for two levels, its proof of the second is lost, the repeated proof of the
  first is accepted because that map is on again, and it loads a level that is not
  the one it is then shown, with nothing overtaken. So no property says that a client
  is shown the level it has loaded: `LoadedBeforeShown` is about what the server tells
  it, which is right.
- A client told of a new map asks to connect while the packet that says so is
  being parsed, so the sequence it has just reset is counted up once more
  (`cl_main.cpp:1513`), the server's first answer is taken for a repeat, and the
  three seconds' retry is needed.
- `sv_maxclientsperip` counts a client's own slot when it asks again
  (`sv_main.cpp:2011`, "Count how many other clients are using this IP").
- "This will cause the server to send another reliable packet"
  (`cl_main.cpp:628`): the server answers that command to everybody else.
- A spectator who was in line and joins by `server_RequestJoin` (`sv_main.cpp:6629`)
  stays in it.
- `server_ChangeTeam` tells of the spawn before the removal from the line; the
  client whose player spawned has then taken itself out (`cl_main.cpp:3907`), and
  the position it is told strikes whoever moved up. A client in line gets that far
  only beside a free seat, so `CopyFollows` excepts what `NoIdleSeat` does.
- A mission that fails as everybody leaves keeps its delay (`survival.cpp:239`)
  and may restart one that began anew.
- "Disconnected players need to have their vote removed" (`callvote.cpp:1026`). The
  tallies keep it (only the lists are cleared), and the address may vote again from
  another slot; nor is the majority asked again when fewer may vote.
- `sv_nocallvote 1` in the middle of a vote leaves nobody eligible, so the next
  ballot settles it.

- `effects.h:39` says that queued effects run "after each tic"; a tic that throws
  leaves `FinishTic` before they do (`loop.cpp:132`), so they run after the next.
  `PauseFollowsFocus` fails with `TicThrows` for this reason.
- An inline tic that throws leaves `g_gameRunning` set (`loop.cpp:160`), and the
  seams of the next handoff see a game running. `HandoffSeams` fails with
  `InlineThrows`.
- The phase still says that the main thread is outside the handoff in frames
  without a tic (`loop.cpp:231`), while `handoff/README.md` says that the handoff
  is the stretch between tics.
- A packet whose bytes the ring wrote over is "forgotten and asked for again if
  it was still awaited" (`cl_main.cpp:1405`; in the build's ring none is), but requests stop below the highest
  number seen (`cl_main.cpp:1322`), so the highest itself is asked for only once
  a later one arrives.
- The client gives up at a gap of exactly `PACKET_BUFFER_SIZE`
  (`cl_main.cpp:1309`); the comment above says "more than".
- `zx_joinserver.cpp:516` says that a transfer in flight is no longer a refusal
  and that `Start` replaces it; `AttemptJoin` asks `IsAvailable` first (line
  423), which is false while one runs, so only `fua_download` ever replaces one.
- `zx_waddownload.h:70` promises a completion "exactly once per Start()". A start
  after a run has ended and before the tick that notices takes the place of its
  completion, and `Abandon` drops one.
- `zx_waddownload.h:81` says that `Start` returns false, having done nothing, if a
  run is in flight. It abandons that run first, and may then return false
  because nothing can be fetched (line 919).
- A hosting whose files arrive while the player is out of the browser is
  announced as ready; `ConsumeJoinReady` (`zx_joinserver.cpp:751`) clears the
  notice and never calls its resume.

## 7. What is not modelled

The receive thread (9 of the plan), and the parts of 1.1 to 1.3 that no module
names. Of the parts that are modelled:

- Connection: the intermission's refusals, the identity proof, the retry of
  `CLC_SETSTATUS`, unreliable packets, the give-up at 2048 missing packets, the
  ban for flooding with commands, the time-out of a client that still asks. Several
  clients, whose slots do not meet but in the count of their address.
- Join queue: duel, last man standing, possession and invasion, which close the
  game at other moments; bots, which have a seat and never wait; the team a player
  asked for.
- Registry: the limit of ten servers to an address, ignored and banned addresses,
  launchers' queries, reach cookies, punches, the second announcement over IPv6.
- Votes: the check of a vote's parameter, `sv_voteconnectwait`, a cooldown of 0.
- Stream: several clients, a command larger than a packet.

Beyond the plan:

- The playsim, scripts and game modes: sequential code over a state no model
  checker holds. What surrounds them, one tic at a time and who may touch them
  when, is in `GameThread`.
- The renderers, beyond the pool that shares out their passes.
- Replication's content: which fields a command carries. That commands arrive in
  order is in `ReliableStream`.
- Files, mirrors, hashes and the store of the downloader: one worker's I/O.
- Identity's cryptography, the updater, port mapping, crash reports, telemetry,
  replays, the tool bridge: pure I/O, or they observe and change nothing.
