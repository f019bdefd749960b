------------------------------ MODULE Connection ------------------------------
(***************************************************************************)
(* How a client gets into a server's game and follows it from level to      *)
(* level (sv_main.cpp, cl_main.cpp).  The client asks to connect, proves    *)
(* its level, asks for a snapshot, and repeats what it asks every three     *)
(* seconds until the answer moves it along; the server's answers are        *)
(* numbered reliable packets, the client's questions are not.  The server   *)
(* may change levels at any point of it.                                    *)
(*                                                                         *)
(* One client, at one address.  Handlers pass the state they change as a    *)
(* record: "told" and "asks" are the datagrams they send.  The archive is   *)
(* ReliableStream's and PacketArchive's subject; here it keeps everything.  *)
(***************************************************************************)
EXTENDS Integers, Sequences, FiniteSets, SequencesExt, FiniteSetsExt

CONSTANTS MapOf,       \* the map of each game the server plays, one after the other
          Spectates,   \* whether the client watches
          Others,      \* other clients at its address
          MaxPerIP,    \* sv_maxclientsperip
          Kinds,       \* what may go wrong on the way: datagrams are lost, come twice or
                       \* are overtaken, or are so late that the question is repeated
          MaxConnects, \* bound on the player's connecting
          MaxFaults,   \* bound on how often one of these happens
          MaxSent      \* bound on the packets that repeats add to

ASSUME ConnectionAssumption ==
  /\ MapOf \in Seq(Nat) /\ MapOf # <<>>
  /\ Spectates \in BOOLEAN
  /\ Kinds \subseteq {"lost", "twice", "overtaken", "late"}
  /\ {Others, MaxPerIP, MaxConnects, MaxFaults, MaxSent} \subseteq Nat

VARIABLES
  server,   \* the client's slot: state is its State, sent its SavedPackets; the game
            \* that is on, and whether the client's address is being ignored
  client,   \* state is g_ConnectionState, map g_szMapName, parsed, highest and held the
            \* packet sequences, game the game it has loaded
  up,       \* the client's datagrams under way
  down,     \* the server's
  connects, faults \* counted for the bounds

counters == <<connects, faults>>
vars == <<server, client, up, down, counters>>

Spawned == {"needs_authentication", "spawned"}
AtLeastAuthenticated == {"authenticated"} \cup Spawned

Init ==
  /\ server = [state |-> "free", sent |-> <<>>, game |-> 1, ignoring |-> FALSE]
  /\ client = [state |-> "disconnected", map |-> 0, game |-> 0,
               parsed |-> -1, highest |-> -1, held |-> {}]
  /\ up = <<>> /\ down = <<>>
  /\ connects = 0 /\ faults = 0

Handling(s) ==
  [state |-> s.state, sent |-> s.sent, game |-> s.game, ignoring |-> s.ignoring, told |-> <<>>]

Asking(c) ==
  [state |-> c.state, map |-> c.map, game |-> c.game,
   parsed |-> c.parsed, highest |-> c.highest, held |-> c.held, asks |-> <<>>]

ServerDoes(result) ==
  \E s \in {result} :
    /\ server' = [state |-> s.state, sent |-> s.sent, game |-> s.game, ignoring |-> s.ignoring]
    /\ down' = down \o s.told

ClientDoes(result) ==
  \E c \in {result} :
    /\ client' = [state |-> c.state, map |-> c.map, game |-> c.game,
                  parsed |-> c.parsed, highest |-> c.highest, held |-> c.held]
    /\ up' = up \o c.asks

--------------------------------------------------------------------------------
(* The server.                                                             *)

\* What is written goes out at once, under the next number.
Send(s, what) ==
  LET packet == [n |-> Len(s.sent), do |-> what, game |-> s.game]
  IN  [s EXCEPT !.sent = Append(@, packet), !.told = Append(@, packet)]

DisconnectClient(s) == [s EXCEPT !.state = "free", !.sent = <<>>]

ClientError(s) == DisconnectClient([Send(s, "error") EXCEPT !.ignoring = TRUE])

\* Said to an address, outside any slot's packets.
ConnectionError(s) ==
  [s EXCEPT !.told = Append(@, [n |-> 0, do |-> "error", game |-> s.game])]

\* A slot of the client's own counts against it too.
TooManyFromAddress(s) == Others + (IF s.state = "free" THEN 0 ELSE 1) >= MaxPerIP

\* The packets' numbers start over.
SetupNewConnection(s, verdict) ==
  LET opened == [s EXCEPT !.sent = <<>>]
  IN  IF TooManyFromAddress(s) \/ verdict = "full" THEN ConnectionError(s)
      ELSE IF verdict = "refused" THEN ClientError(opened)
      ELSE Send([opened EXCEPT !.state = "connected"], "authenticate")

AuthenticateClientLevel(s, map) ==
  IF map # MapOf[s.game] THEN ClientError(s)
  ELSE Send([s EXCEPT !.state = IF @ \in Spawned THEN @ ELSE "authenticated"], "mapload")

\* A bug: a client whose map is outdated is left to ask again.
ConnectIgnoresOutdated(s) ==
  CASE s.state \in {"authenticated", "spawned"} ->
         Send(Send([s EXCEPT !.state = "spawned"], "begin"), "end")
    [] s.state = "connected" -> ClientError(s)
    [] s.state = "needs_authentication" -> Send(s, "mapauthenticate")
    [] OTHER -> s

ConnectNewPlayer(s) ==
  CASE s.state \in {"authenticated", "spawned"} ->
         Send(Send([s EXCEPT !.state = "spawned"], "begin"), "end")
    [] s.state = "outdated" -> Send(s, "authenticate")
    [] s.state = "connected" -> ClientError(s)
    [] s.state = "needs_authentication" -> Send(s, "mapauthenticate")

\* A bug: what a client that waits for the level proves is not looked at.
AuthenticateLevelOnce(s, map) ==
  IF map # MapOf[s.game] THEN Send(s, "mapauthenticate")
  ELSE IF s.state \in Spawned THEN s
  ELSE Send(s, "load")

\* A client in the game has a new level's map, or is asked for the right one.
AuthenticateLevel(s, map) ==
  IF map # MapOf[s.game] THEN Send(s, "mapauthenticate")
  ELSE IF s.state = "spawned" THEN s
  ELSE Send([s EXCEPT !.state = IF @ \in Spawned THEN "spawned" ELSE @], "load")

KickPlayer(s) ==
  IF s.state \in Spawned THEN DisconnectClient(Send(s, "kicked")) ELSE s

\* What the archive has of them, by its first i packets.
Kept(sent, numbers) ==
  LET found[i \in 0..Len(sent)] ==
        IF i = 0 THEN <<>>
        ELSE IF sent[i].n \in numbers THEN Append(found[i - 1], sent[i])
        ELSE found[i - 1]
  IN  found[Len(sent)]

MissingPacket(s, numbers) ==
  LET found == Kept(s.sent, numbers)
      resent == [s EXCEPT !.told = @ \o found]
  IN  IF Len(found) < Cardinality(numbers) THEN KickPlayer(resent) ELSE resent

\* A datagram from an address without a slot: only an attempt to connect counts, and
\* the other questions of a handshake have the address ignored.
DetermineConnectionType(s, m, verdict) ==
  IF s.ignoring THEN s
  ELSE CASE m.ask = "connect" -> SetupNewConnection(s, verdict)
         [] m.ask \in {"authenticate", "snapshot"} -> [s EXCEPT !.ignoring = TRUE]
         [] OTHER -> s

\* One from a client with a slot: commands count once its level is authenticated, but
\* for its leave.
ParsePacket(s, m, verdict) ==
  CASE m.ask = "connect" -> SetupNewConnection(s, verdict)
    [] m.ask = "authenticate" -> AuthenticateClientLevel(s, m.map)
    [] m.ask = "snapshot" -> ConnectNewPlayer(s)
    [] m.ask = "quit" -> DisconnectClient(s)
    [] m.ask = "missing" -> IF s.state \in AtLeastAuthenticated THEN MissingPacket(s, m.numbers) ELSE s
    [] m.ask = "level" -> IF s.state \in AtLeastAuthenticated THEN AuthenticateLevel(s, m.map) ELSE s
    [] OTHER -> s

GetPackets ==
  /\ up # <<>> /\ up' = Tail(up)
  /\ \E verdict \in IF Head(up).ask = "connect" THEN {"fine", "full", "refused"} ELSE {"fine"} :
       /\ verdict = "full" => server.state = "free"
       /\ ServerDoes(IF server.state = "free"
                    THEN DetermineConnectionType(Handling(server), Head(up), verdict)
                    ELSE ParsePacket(Handling(server), Head(up), verdict))
  /\ UNCHANGED <<client, counters>>

\* A bug: a client that has yet to finish loading is not marked.
LoadKeepsAuthenticated(s) ==
  IF s.state \in Spawned THEN Send([s EXCEPT !.state = "needs_authentication"], "mapauthenticate")
  ELSE s

LoadNewLevel(s) ==
  CASE s.state \in Spawned -> Send([s EXCEPT !.state = "needs_authentication"], "mapauthenticate")
    [] s.state = "authenticated" -> [s EXCEPT !.state = "outdated"]
    [] OTHER -> s

\* The map command: whoever is in the game is told to connect anew.
ReconnectNewLevel(s) == IF s.state \in Spawned THEN DisconnectClient(Send(s, "mapnew")) ELSE s

NextLevel ==
  /\ server.game < Len(MapOf)
  /\ \E s \in {Handling(server), ReconnectNewLevel(Handling(server))} :
       ServerDoes(LoadNewLevel([s EXCEPT !.game = @ + 1]))
  /\ UNCHANGED <<client, up, counters>>

\* The packets that a client lacks to parse what it holds or had.
Missing == {n \in (client.parsed + 1)..(client.highest - 1) : \A p \in client.held : p.n # n}

\* The seconds between repeats are long: nothing is under way, and the gaps that the
\* server can fill are filled.
Quiet ==
  /\ up = <<>> /\ down = <<>>
  /\ server.state \in AtLeastAuthenticated => \A n \in Missing : n >= Len(server.sent)

\* Ten seconds are over.
StopIgnoring ==
  /\ Quiet /\ server.ignoring /\ server' = [server EXCEPT !.ignoring = FALSE]
  /\ UNCHANGED <<client, up, down, counters>>

\* A player who has not authenticated the level yet is asked again; one who has gone
\* would not hear it.
AskAgain ==
  /\ Quiet /\ Len(server.sent) < MaxSent /\ client.state # "disconnected"
  /\ server.state = "needs_authentication" /\ ~Spectates
  /\ ServerDoes(Send(Handling(server), "mapauthenticate"))
  /\ UNCHANGED <<client, up, counters>>

\* A client that has gone is let go when it has not been heard of for long enough.
TimeOut ==
  /\ Quiet /\ server.state # "free" /\ client.state = "disconnected"
  /\ ServerDoes(DisconnectClient(Handling(server)))
  /\ UNCHANGED <<client, up, counters>>

\* The game goes on: sooner or later there is another packet, so that the last one
\* is missed if it got lost.
GameTalks ==
  /\ Quiet /\ Len(server.sent) < MaxSent /\ server.state = "spawned" /\ client.parsed < Len(server.sent) - 1
  /\ ServerDoes(Send(Handling(server), "update"))
  /\ UNCHANGED <<client, up, counters>>

--------------------------------------------------------------------------------
(* The client.                                                             *)

Ask(c, m) == [c EXCEPT !.asks = Append(@, m)]

AttemptConnection(c) ==
  Ask([c EXCEPT !.parsed = -1, !.highest = -1, !.held = {}], [ask |-> "connect"])

AttemptAuthentication(c) == Ask([c EXCEPT !.held = {}], [ask |-> "authenticate", map |-> c.map])

RequestSnapshot(c) == Ask([c EXCEPT !.held = {}], [ask |-> "snapshot"])

QuitNetworkGame(c) == Ask([c EXCEPT !.state = "disconnected"], [ask |-> "quit"])

\* "due" tells whether an attempt to connect need not wait for a running delay.
ProcessCommand(c, p, due) ==
  CASE p.do = "authenticate" ->
         AttemptAuthentication([c EXCEPT !.state = "authenticating", !.map = MapOf[p.game]])
    [] p.do = "mapload" ->
         RequestSnapshot([c EXCEPT !.state = "requesting",
                                   !.game = IF c.map = MapOf[p.game] THEN p.game ELSE 0])
    [] p.do = "begin" -> [c EXCEPT !.state = "receiving"]
    [] p.do = "end" -> [c EXCEPT !.state = "active"]
    [] p.do = "update" -> c
    [] p.do = "load" -> [c EXCEPT !.game = p.game]
    [] p.do = "mapauthenticate" -> Ask(c, [ask |-> "level", map |-> MapOf[p.game]])
    [] p.do = "mapnew" ->
         IF due THEN AttemptConnection([c EXCEPT !.state = "attempting"])
         ELSE [c EXCEPT !.state = "attempting"]
    [] p.do = "error" -> QuitNetworkGame(c)
    [] p.do = "kicked" -> [c EXCEPT !.state = "disconnected"]

\* The packet is counted as parsed once its command is done, whatever that reset.
ParseNext(c, due) ==
  LET next == {p \in c.held : p.n = c.parsed + 1}
  IN  IF next = {} \/ c.state = "disconnected" THEN c
      ELSE LET p == CHOOSE p \in next : TRUE
           IN  [ProcessCommand([c EXCEPT !.held = @ \ {p}], p, due) EXCEPT !.parsed = @ + 1]

Store(c, p) ==
  [c EXCEPT !.held = IF p.n > c.parsed /\ \A q \in @ : q.n # p.n THEN @ \cup {p} ELSE @,
            !.highest = IF p.n > @ THEN p.n ELSE @]

\* ("once" is ParseNext's argument looked at one time only.)
ParseAll(c, due) ==
  LET after[i \in 0..Cardinality(c.held)] ==
        IF i = 0 THEN c
        ELSE CHOOSE e \in {ParseNext(once, due) : once \in {after[i - 1]}} : TRUE
  IN  after[Cardinality(c.held)]

Receive ==
  /\ down # <<>> /\ down' = Tail(down)
  /\ \E due \in IF Head(down).do = "mapnew" THEN BOOLEAN ELSE {TRUE} :
       ClientDoes(IF client.state = "disconnected" THEN Asking(client)
                  ELSE ParseAll(Store(Asking(client), Head(down)), due))
  /\ UNCHANGED <<server, counters>>

\* What is asked for again, once neither it nor the asking is under way.
CheckForMissingPackets ==
  /\ client.state \in {"authenticating", "requesting", "receiving", "active"}
  /\ Missing # {} /\ \A i \in DOMAIN down : down[i].n \notin Missing
  /\ \A i \in DOMAIN up : up[i].ask # "missing"
  /\ ClientDoes(Ask(Asking(client), [ask |-> "missing", numbers |-> Missing]))
  /\ UNCHANGED <<server, down, counters>>

\* Something of its kind goes wrong, as far as the bound allows.
Fault(kind) == kind \in Kinds /\ faults < MaxFaults /\ faults' = faults + 1

Repeat(c) ==
  CASE c.state = "attempting" -> AttemptConnection(c)
    [] c.state = "authenticating" -> AttemptAuthentication(c)
    [] c.state = "requesting" -> RequestSnapshot(c)

\* The delay is over: what was asked, or its answer, was lost or is late.
Tick ==
  /\ client.state \in {"attempting", "authenticating", "requesting"}
  /\ Len(server.sent) < MaxSent
  /\ \/ Quiet /\ UNCHANGED counters
     \/ ~Quiet /\ Fault("late") /\ UNCHANGED connects
  /\ ClientDoes(Repeat(Asking(client)))
  /\ UNCHANGED <<server, down>>

\* The player connects, what an earlier connection sent being long gone.
Connect ==
  /\ client.state = "disconnected" /\ Quiet
  /\ connects < MaxConnects /\ connects' = connects + 1
  /\ ClientDoes(AttemptConnection([Asking(client) EXCEPT !.state = "attempting"]))
  /\ UNCHANGED <<server, down, faults>>

Quit ==
  /\ client.state # "disconnected"
  /\ ClientDoes(QuitNetworkGame(Asking(client)))
  /\ UNCHANGED <<server, down, counters>>

--------------------------------------------------------------------------------
(* The network.                                                            *)

Lose ==
  /\ Fault("lost") /\ UNCHANGED <<server, client, connects>>
  /\ \/ \E i \in DOMAIN up : up' = RemoveAt(up, i) /\ UNCHANGED down
     \/ \E i \in DOMAIN down : down' = RemoveAt(down, i) /\ UNCHANGED up

ArriveTwice ==
  /\ Fault("twice") /\ UNCHANGED <<server, client, connects>>
  /\ \/ \E i \in DOMAIN up : up' = InsertAt(up, i, up[i]) /\ UNCHANGED down
     \/ \E i \in DOMAIN down : down' = InsertAt(down, i, down[i]) /\ UNCHANGED up

Swapped(queue, i) == [queue EXCEPT ![i] = queue[i + 1], ![i + 1] = queue[i]]

Overtake ==
  /\ Fault("overtaken") /\ UNCHANGED <<server, client, connects>>
  /\ \/ \E i \in 1..(Len(up) - 1) : up' = Swapped(up, i) /\ UNCHANGED down
     \/ \E i \in 1..(Len(down) - 1) : down' = Swapped(down, i) /\ UNCHANGED up

ServerTicks == StopIgnoring \/ AskAgain \/ TimeOut \/ GameTalks

Next ==
  \/ GetPackets \/ NextLevel \/ ServerTicks
  \/ Receive \/ CheckForMissingPackets \/ Tick \/ Connect \/ Quit
  \/ Lose \/ ArriveTwice \/ Overtake

Spec == Init /\ [][Next]_vars

\* Both programs run, and what is under way arrives or is lost.  What a clock starts
\* happens whenever its time has come, however much is sent meanwhile.
FairSpec ==
  /\ Spec
  /\ WF_vars(GetPackets) /\ WF_vars(Receive) /\ WF_vars(CheckForMissingPackets)
  /\ SF_vars(Tick) /\ SF_vars(ServerTicks)

--------------------------------------------------------------------------------
(* Properties.                                                             *)

Loads(p) == p.do \in {"mapload", "load"}
Shows(p) == p.do \in {"begin", "end", "update"}

\* In what the server tells a slot, a level is there to be loaded before anything of it is
\* shown: no level change between a client's proof, its question and the answer
\* has it sent a snapshot, or the game's updates, of a level it was not given.
LoadedBeforeShown ==
  \A i \in DOMAIN server.sent : Shows(server.sent[i]) =>
    \E j \in 1..(i - 1) : Loads(server.sent[j]) /\ server.sent[j].game = server.sent[i].game

Waits == client.state \in {"attempting", "authenticating", "requesting", "receiving"}

\* The server holds a slot for the client, or is yet to be asked for one.
Counted == server.state # "free" \/ client.state = "attempting"

\* What it would fill a gap with is not given to a client whose level is outdated.
AsksInVain == server.state = "outdated" /\ Missing # {}

\* Whoever connects, and is neither let go nor refused what it misses, gets into the game
\* or is out of it in the end, whatever was lost, came twice or changed meanwhile.
Settles == Waits ~> ~Waits \/ ~Counted \/ AsksInVain

\* A client in the game whom a level change has left behind gets to the level that is on,
\* unless he leaves, is let go or has his slot started over, whatever the network did to
\* what he is asked and to what he answers.
FollowsLevel ==
  client.state = "active" /\ server.state = "needs_authentication"
    ~> client.game = server.game \/ client.state # "active" \/ server.state \notin Spawned

===============================================================================
