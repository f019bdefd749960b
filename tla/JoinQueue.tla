------------------------------ MODULE JoinQueue ------------------------------
(***************************************************************************)
(* The line of players who wait for a free seat (joinqueue.cpp): who may    *)
(* join (gamemode.cpp), the requests that put a player in line, seat him or *)
(* take him out (sv_main.cpp, p_interaction.cpp, p_acs.cpp), the rounds of  *)
(* survival and the level changes that pop it (survival.cpp, g_level.cpp,   *)
(* p_setup.cpp), and the copy a client keeps of it from the commands the    *)
(* server sends (cl_main.cpp).                                              *)
(*                                                                         *)
(* Handlers pass the state they change as a record, because they call each  *)
(* other: a player who leaves may fail the mission, which may pop the line. *)
(***************************************************************************)
EXTENDS Integers, Sequences, FiniteSets, SequencesExt

CONSTANTS Player,    \* the client slots
          Watcher,   \* the client whose copy of the line is followed
          Modes,     \* the game modes looked at, of {"coop", "survival", "team"}
          MaxSeats,  \* bound on sv_maxplayers
          MaxWire    \* bound on the commands in flight when a new request is taken

ASSUME JoinQueueAssumption ==
  /\ Watcher \in Player /\ IsFiniteSet(Player)
  /\ Modes \subseteq {"coop", "survival", "team"}
  /\ MaxSeats \in Nat \ {0} /\ MaxWire \in Nat

VARIABLES
  mode,    \* the game mode
  seats,   \* sv_maxplayers
  stage,   \* gamestate: "level" or "intermission"
  round,   \* g_SurvivalState
  ending,  \* g_ulEndLevelDelay runs
  role,    \* each slot: playeringame, bSpectating and bDeadSpectator
  queue,   \* g_JoinQueue
  seen,    \* the watcher's State: not in game, loading the level, spawned
  wire,    \* the commands about the line on their way to the watcher
  copy,    \* the watcher's own g_JoinQueue
  stranded \* history: the level was loaded with its line kept and its seats cleared

vars == <<mode, seats, stage, round, ending, role, queue, seen, wire, copy, stranded>>

Roles == {"out", "playing", "dead", "spectating"}
Rounds == {"waiting", "countdown", "inprogress", "failed"}

Init ==
  /\ mode \in Modes /\ seats \in 1..MaxSeats
  /\ stage = "level" /\ round = "waiting" /\ ending = FALSE
  /\ role = [p \in Player |-> "out"] /\ queue = <<>>
  /\ seen = "away" /\ wire = <<>> /\ copy = <<>> /\ stranded = FALSE

\* The state a handler works on, with the commands it has told the clients.
Now == [seats |-> seats, stage |-> stage, round |-> round, ending |-> ending,
        role |-> role, queue |-> queue, told |-> <<>>]

\* A command reaches the watcher only once it is in the level.
Become(s) ==
  /\ seats' = s.seats /\ stage' = s.stage /\ round' = s.round /\ ending' = s.ending
  /\ role' = s.role /\ queue' = s.queue /\ mode' = mode

Broadcast(s) == wire' = IF seen = "spawned" THEN wire \o s.told ELSE wire

Update(result) == \E s \in {result} : Become(s) /\ Broadcast(s) /\ UNCHANGED <<seen, copy, stranded>>

--------------------------------------------------------------------------------
(* Who has a seat, and who may take one.                                   *)

SeatedIn(roles) == {p \in Player : roles[p] \in {"playing", "dead"}}
Active(s) == {p \in Player : s.role[p] = "playing"}
Seated == SeatedIn(role)
Full(s) == Cardinality(SeatedIn(s.role)) >= s.seats

\* "loading" is the level load of a world that is done (ga_worlddone).
PreventPlayersFromJoining(s) ==
  \/ Full(s)
  \/ s.stage = "intermission"
  \/ mode = "survival" /\ s.round \in {"inprogress", "failed"} /\ s.stage # "loading"

--------------------------------------------------------------------------------
(* The line.                                                               *)

Tell(s, command) == [s EXCEPT !.told = Append(@, command)]

PositionInLine(q, p) == SelectInSeq(q, LAMBDA x : x = p)

\* A bug: clients are told of the removal by the position that is now first.
RemoveTellsFirst(s, at) ==
  Tell([s EXCEPT !.queue = RemoveAt(@, at)], [do |-> "remove", at |-> 1])

RemovePlayerAtPosition(s, at) ==
  Tell([s EXCEPT !.queue = RemoveAt(@, at)], [do |-> "remove", at |-> at])

RemovePlayerFromQueue(s, p) ==
  LET at == PositionInLine(s.queue, p)
  IN  IF at = 0 THEN s ELSE RemovePlayerAtPosition(s, at)

AddPlayer(s, p) ==
  IF PositionInLine(s.queue, p) # 0 THEN s
  ELSE Tell([s EXCEPT !.queue = Append(@, p)], [do |-> "push", player |-> p])

\* A player spawns.  The client whose own he is takes itself out of its copy.
Spawn(s, p) ==
  LET spawned == [s EXCEPT !.role[p] = "playing"]
  IN  IF p = Watcher THEN Tell(spawned, [do |-> "spawn"]) ELSE spawned

\* The spawn comes with the tick's end, after the removal.
PlayerJoinsAtPosition(s, at) == Spawn(RemovePlayerAtPosition(s, at), s.queue[at])

\* Entries of players who are gone are dropped, and nobody is told.
CheckSanity(s) ==
  IF \A i \in DOMAIN s.queue : s.role[s.queue[i]] # "out" THEN s
  ELSE [s EXCEPT !.queue = SelectSeq(@, LAMBDA p : s.role[p] # "out")]

\* A bug: the last in line joins first.
LastJoins(s) ==
  IF PreventPlayersFromJoining(s) \/ s.queue = <<>> THEN s
  ELSE PlayerJoinsAtPosition(s, Len(s.queue))

\* The first in line joins, if he still may.
FirstJoins(s) ==
  IF PreventPlayersFromJoining(s) \/ s.queue = <<>> THEN s ELSE PlayerJoinsAtPosition(s, 1)

\* A bug: who may join is asked once, not again after each that joined.
PopAskingOnce(s, count) ==
  IF PreventPlayersFromJoining(s) THEN s
  ELSE LET popped[i \in 0..count] ==
             IF i = 0 THEN CheckSanity(s)
             ELSE IF popped[i - 1].queue = <<>> THEN popped[i - 1]
             ELSE PlayerJoinsAtPosition(popped[i - 1], 1)
       IN  popped[count]

PopQueue(s, count) ==
  IF PreventPlayersFromJoining(s) THEN s
  ELSE LET popped[i \in 0..count] ==
             IF i = 0 THEN CheckSanity(s) ELSE FirstJoins(popped[i - 1])
       IN  popped[count]

PopAll(s) == PopQueue(s, Len(s.queue))

--------------------------------------------------------------------------------
(* Survival.                                                               *)

RespawnDeadPlayers(s) ==
  [s EXCEPT !.role = [p \in Player |-> IF @[p] = "dead" THEN "playing" ELSE @[p]]]

WaitForPlayers(s) == PopAll(RespawnDeadPlayers([s EXCEPT !.round = "waiting"]))

\* A bug: the failed mission is never ended.
FailWithoutEnd(s) == [s EXCEPT !.round = "failed"]

FailMission(s) == [s EXCEPT !.round = "failed", !.ending = TRUE]

\* The dead respawn and the line is popped in a state that lets it, then play goes on.
RefreshLives(s) == [WaitForPlayers(s) EXCEPT !.round = "inprogress"]

\* A bug: nobody is popped for the one who left.
LeftGamePopsNone(s, p, pop) ==
  LET left == RemovePlayerFromQueue(s, p)
  IN  IF mode = "survival" /\ SeatedIn(left.role) = {}
      THEN IF left.queue # <<>> THEN FailMission(left) ELSE WaitForPlayers(left)
      ELSE left

PlayerLeftGame(s, p, pop) ==
  LET left == RemovePlayerFromQueue(s, p)
      settled == IF mode = "survival" /\ SeatedIn(left.role) = {}
                 THEN IF left.queue # <<>> THEN FailMission(left) ELSE WaitForPlayers(left)
                 ELSE left
  IN  IF pop THEN PopQueue(settled, 1) ELSE settled

--------------------------------------------------------------------------------
(* What players and the operator ask for.                                  *)

Ready == Len(wire) < MaxWire

\* A client finishes connecting; in a team game it has yet to choose a team.
Connect(p) ==
  /\ Ready /\ role[p] = "out"
  /\ \E wantsToWatch \in BOOLEAN :
       LET watch == wantsToWatch \/ mode = "team" \/ PreventPlayersFromJoining(Now)
       IN  Become([Now EXCEPT !.role[p] = IF watch THEN "spectating" ELSE "playing"])
  /\ IF p = Watcher
     THEN seen' = "spawned" /\ wire' = <<[do |-> "sync", line |-> queue]>> /\ copy' = <<>>
     ELSE UNCHANGED <<seen, wire, copy>>
  /\ UNCHANGED stranded

Disconnect(p) ==
  /\ Ready /\ role[p] # "out"
  /\ \E s \in {PlayerLeftGame([Now EXCEPT !.role[p] = "out"], p, TRUE)} :
       IF p = Watcher
       THEN Become(s) /\ seen' = "away" /\ wire' = <<>> /\ copy' = <<>> /\ UNCHANGED stranded
       ELSE Update(s)

\* A true spectator who asks again leaves the line.
Spectate(p) ==
  /\ Ready /\ role[p] # "out"
  /\ Update(IF role[p] = "spectating" THEN RemovePlayerFromQueue(Now, p)
            ELSE PlayerLeftGame([Now EXCEPT !.role[p] = "spectating"], p, TRUE))

RequestJoin(p) ==
  /\ Ready /\ role[p] = "spectating"
  /\ Update(IF PreventPlayersFromJoining(Now) THEN AddPlayer(Now, p)
            ELSE Spawn(Now, p))

\* Here the spawn is told before the removal from the line.
ChangeTeam(p) ==
  /\ Ready /\ mode = "team" /\ role[p] # "out"
  /\ stage = "level" \/ role[p] = "spectating"
  /\ Update(IF role[p] = "spectating" /\ PreventPlayersFromJoining(Now)
            THEN AddPlayer(Now, p)
            ELSE PlayerLeftGame(Spawn(Now, p), p, FALSE))

\* A script lets a player in past the others in line, if there is a seat.
SkipJoinQueue(p) ==
  /\ Ready /\ role[p] = "spectating" /\ ~Full(Now)
  /\ PositionInLine(queue, p) # 0
  /\ Update(PlayerJoinsAtPosition(Now, PositionInLine(queue, p)))

SetMaxPlayers(n) == Ready /\ n # seats /\ Update(PopAll([Now EXCEPT !.seats = n]))

--------------------------------------------------------------------------------
(* What the game does on its own.                                          *)

\* The last life is lost.
Die(p) ==
  /\ mode = "survival" /\ round = "inprogress" /\ stage = "level"
  /\ role[p] = "playing"
  /\ Update([Now EXCEPT !.role[p] = "dead"])

\* Somebody plays; the countdown is over; everybody is dead.
SurvivalTick ==
  /\ mode = "survival" /\ stage = "level"
  /\ \/ round = "waiting" /\ Active(Now) # {} /\ Update([Now EXCEPT !.round = "countdown"])
     \/ round = "countdown" /\ Update(RespawnDeadPlayers([Now EXCEPT !.round = "inprogress"]))
     \/ round = "inprogress" /\ Active(Now) = {} /\ Update(FailMission(Now))

\* The delay after a failed mission is over: the map is reset, or only the lives are.
RestartMission ==
  /\ stage = "level" /\ ending /\ mode = "survival"
  /\ LET over == [Now EXCEPT !.ending = FALSE]
     IN  \E s \in {WaitForPlayers(over), RefreshLives(over)} :
           Update(IF s.round = "waiting" /\ Active(s) # {} THEN [s EXCEPT !.round = "countdown"]
                  ELSE IF s.round = "inprogress" /\ Active(s) = {} THEN FailMission(s)
                  ELSE s)

EndLevel == stage = "level" /\ Update([Now EXCEPT !.stage = "intermission"])

\* P_SetupLevel looks at each player in turn: with too many seated, as many
\* lose their seat; in a team game everybody does, the teams being cleared.
KeepsSeat(s, stay) ==
  IF mode = "team" THEN stay = {}
  ELSE /\ stay \subseteq SeatedIn(s.role)
       /\ IF Cardinality(SeatedIn(s.role)) > s.seats THEN Cardinality(stay) = s.seats
          ELSE stay = SeatedIn(s.role)

\* Whoever has to watch, leaves the line too if the server does not keep it.
SpawnOrWatch(s, stay, keepQueue) ==
  LET unseated == [s EXCEPT !.role = [p \in Player |->
                     IF p \in SeatedIn(s.role) \ stay THEN "spectating" ELSE @[p]]]
  IN  IF ~keepQueue /\ (mode = "team" \/ Full(unseated))
      THEN [unseated EXCEPT !.queue = <<>>] ELSE unseated

\* In survival a countdown starts over, and a failed mission is waited for or
\* counted down to.
EnterLevel(s) ==
  IF mode = "survival" /\ (s.round = "countdown" \/ (s.round = "failed" /\ SeatedIn(s.role) = {}))
  THEN WaitForPlayers(s)
  ELSE IF mode = "survival" /\ s.round = "failed" THEN [s EXCEPT !.round = "countdown"] ELSE s

\* The line is popped as the load begins, before it is known who keeps a seat.
LevelLoads(s) == PopAll(RespawnDeadPlayers([s EXCEPT !.stage = "loading", !.ending = FALSE]))

WorldDone ==
  /\ stage = "intermission"
  /\ \E popped \in {LevelLoads(Now)}, stay \in SUBSET Player, keepQueue \in BOOLEAN :
       /\ KeepsSeat(popped, stay)
       /\ \E s \in {EnterLevel(SpawnOrWatch(popped, stay, keepQueue))} :
            /\ Become([s EXCEPT !.stage = "level"])
            /\ stranded' = (mode = "team" /\ keepQueue /\ s.queue # <<>>)
  /\ seen' = IF seen = "spawned" THEN "loading" ELSE seen
  /\ wire' = <<>> /\ copy' = <<>>

\* The watcher has loaded the level and is sent everything anew.
AuthenticateLevel ==
  /\ seen = "loading" /\ seen' = "spawned"
  /\ wire' = <<[do |-> "sync", line |-> queue]>> /\ copy' = <<>>
  /\ UNCHANGED <<mode, seats, stage, round, ending, role, queue, stranded>>

--------------------------------------------------------------------------------
(* The client.                                                             *)

Apply(line, command) ==
  CASE command.do = "push" ->
         IF PositionInLine(line, command.player) # 0 THEN line
         ELSE Append(line, command.player)
    [] command.do = "remove" -> IF command.at <= Len(line) THEN RemoveAt(line, command.at) ELSE line
    [] command.do = "spawn" ->
         IF PositionInLine(line, Watcher) = 0 THEN line
         ELSE RemoveAt(line, PositionInLine(line, Watcher))
    [] command.do = "sync" -> command.line

\* A line once commands have been applied to it, in order.
Applied(line, commands) ==
  LET after[i \in 0..Len(commands)] ==
        IF i = 0 THEN line ELSE Apply(after[i - 1], commands[i])
  IN  after[Len(commands)]

Receive ==
  /\ wire # <<>> /\ copy' = Apply(copy, Head(wire)) /\ wire' = Tail(wire)
  /\ UNCHANGED <<mode, seats, stage, round, ending, role, queue, seen, stranded>>

Requests ==
  \/ \E p \in Player : \/ Connect(p) \/ Disconnect(p) \/ Spectate(p) \/ RequestJoin(p)
                       \/ ChangeTeam(p) \/ SkipJoinQueue(p)
  \/ \E n \in 1..MaxSeats : SetMaxPlayers(n)

Game == SurvivalTick \/ RestartMission \/ EndLevel \/ WorldDone \/ \E p \in Player : Die(p)

Next == Requests \/ Game \/ AuthenticateLevel \/ Receive

Spec == Init /\ [][Next]_vars

\* The server ticks: countdowns and delays run out, intermissions end by their
\* timer, and what is sent arrives.
FairSpec ==
  Spec /\ WF_vars(SurvivalTick) /\ WF_vars(RestartMission) /\ WF_vars(WorldDone)
       /\ WF_vars(Receive)

--------------------------------------------------------------------------------
(* Properties.                                                             *)

\* A slot that opens is taken by the first in line: nobody waits while he could
\* join.  A team game that clears its seats after it has popped the line, and
\* keeps who is still in it, does not hold to that.
OpenSlotsFill == queue # <<>> => PreventPlayersFromJoining(Now)

\* Elsewhere whatever frees a seat, or lifts what kept players out, pops the line
\* in the same step.
NoIdleSeat == ~stranded => OpenSlotsFill

Sits(p) == p \notin Seated /\ p \in SeatedIn(role')

AheadOf(q, p) ==
  /\ PositionInLine(queue, q) # 0
  /\ PositionInLine(queue, p) = 0 \/ PositionInLine(queue, q) < PositionInLine(queue, p)

\* Whoever takes a seat, by a request, by connecting or from the line, leaves
\* nobody behind who was in line before him; only a script's skip does, and a
\* request beside a stranded line.
NoOvertaking ==
  [][\A p, q \in Player :
       Sits(p) /\ AheadOf(q, p) /\ PositionInLine(queue', q) # 0
       => stranded \/ SkipJoinQueue(p)]_vars

\* A step that seats somebody leaves no more players than there are seats.
NeverOverfull ==
  [][(\E p \in Player : Sits(p)) => Cardinality(SeatedIn(role')) <= seats']_vars

\* A client's copy, once it has applied what is on its way, is the server's line:
\* removals by position never strike somebody else.  A player who joins by a
\* request beside a stranded line leaves it on his client only.
CopyFollows == seen = "spawned" /\ ~stranded => Applied(copy, wire) = queue

\* A line before an empty game moves: a mission left by its last player with
\* people in line fails, restarts and lets them in.
InLineGetsIn == (queue # <<>> /\ Seated = {}) ~> (queue = <<>> \/ Seated # {} \/ stranded)

--------------------------------------------------------------------------------
(* The inductive invariant the safety properties follow from.              *)

Commands ==
  [do : {"push"}, player : Player] \cup [do : {"remove"}, at : Nat \ {0}]
    \cup [do : {"spawn"}] \cup [do : {"sync"}, line : Seq(Player)]

TypeInv ==
  /\ mode \in Modes /\ seats \in 1..MaxSeats
  /\ stage \in {"level", "intermission"} /\ round \in Rounds /\ ending \in BOOLEAN
  /\ role \in [Player -> Roles] /\ queue \in Seq(Player)
  /\ seen \in {"away", "loading", "spawned"}
  /\ wire \in Seq(Commands) /\ copy \in Seq(Player)
  /\ stranded \in BOOLEAN /\ (stranded => mode = "team")

\* Whoever is in line is there once and in the game: CheckSanity "should never
\* have to clean up anything".  He watches, unless the line is stranded.
LineOfWatchers ==
  /\ \A i, j \in 1..Len(queue) : queue[i] = queue[j] => i = j
  /\ \A i \in 1..Len(queue) :
       role[queue[i]] = "spectating" \/ (stranded /\ role[queue[i]] # "out")

QueueInv == TypeInv /\ LineOfWatchers /\ NoIdleSeat /\ CopyFollows

===============================================================================
