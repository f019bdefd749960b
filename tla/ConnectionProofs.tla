--------------------------- MODULE ConnectionProofs ---------------------------
(***************************************************************************)
(* What the server tells a slot, for any levels, any number of level        *)
(* changes, and a network that loses, repeats and reorders as it likes.     *)
(*                                                                         *)
(* Nothing is assumed of the datagrams that reach the server: whatever the  *)
(* client asks, and whenever, a slot is authenticated or in the game only   *)
(* once it has been given the level that is on, and what shows a level goes *)
(* to such a slot only.                                                    *)
(***************************************************************************)
EXTENDS Connection, SequenceTheorems, TLAPS

Dos == {"authenticate", "mapload", "begin", "end", "update", "load", "mapauthenticate",
        "mapnew", "error", "kicked"}
Packets == [n : Nat, do : Dos, game : Nat]
SlotStates == {"free", "connected", "authenticated", "outdated"} \cup Spawned

Given(sent, game) == \E j \in DOMAIN sent : Loads(sent[j]) /\ sent[j].game = game

LoadsFirst(sent) ==
  \A i \in DOMAIN sent : Shows(sent[i]) =>
    \E j \in 1..(i - 1) : Loads(sent[j]) /\ sent[j].game = sent[i].game

\* A slot, as a handler has it; of the datagrams it sends nothing need be known.
Record(state, sent, game, ignoring, told) ==
  [state |-> state, sent |-> sent, game |-> game, ignoring |-> ignoring, told |-> told]
Slot(s) == \E a, b, c, d, e : s = Record(a, b, c, d, e)
Is(s, state, sent, game) == Slot(s) /\ s.state = state /\ s.sent = sent /\ s.game = game

\* The slot's inductive invariant: one that counts as authenticated, or as in the game, was
\* given the level that is on.
Good(s) ==
  /\ Slot(s) /\ s.state \in SlotStates /\ s.sent \in Seq(Packets) /\ s.game \in Nat
  /\ s.state \in {"authenticated", "spawned"} => Given(s.sent, s.game)
  /\ LoadsFirst(s.sent)

SlotInv == Good(Handling(server))

--------------------------------------------------------------------------------
(* One packet more.                                                        *)

\* A packet more leaves what was given given, and the order is kept if what it shows was.
LEMMA OneMore ==
  ASSUME NEW sent \in Seq(Packets), NEW p \in Packets, LoadsFirst(sent),
         Shows(p) => Given(sent, p.game)
  PROVE  /\ Append(sent, p) \in Seq(Packets) /\ LoadsFirst(Append(sent, p))
         /\ \A game : Given(sent, game) => Given(Append(sent, p), game)
         /\ Loads(p) => Given(Append(sent, p), p.game)
<1> DEFINE more == Append(sent, p)
<1>1. /\ more \in Seq(Packets) /\ DOMAIN more = 1..(Len(sent) + 1) /\ DOMAIN sent = 1..Len(sent)
      /\ \A i \in 1..Len(sent) : more[i] = sent[i]
      /\ more[Len(sent) + 1] = p /\ Len(sent) \in Nat
  OBVIOUS
<1> HIDE DEF more
<1>2. LoadsFirst(more)
  <2> SUFFICES ASSUME NEW i \in DOMAIN more, Shows(more[i])
               PROVE  \E j \in 1..(i - 1) : Loads(more[j]) /\ more[j].game = more[i].game
    BY DEF LoadsFirst
  <2>1. CASE i \in 1..Len(sent)
    <3>1. PICK j \in 1..(i - 1) : Loads(sent[j]) /\ sent[j].game = sent[i].game
      BY <1>1, <2>1 DEF LoadsFirst
    <3>2. j \in 1..Len(sent)
      BY <2>1, <1>1
    <3> QED BY <1>1, <2>1, <3>1, <3>2
  <2>2. CASE i = Len(sent) + 1
    <3>1. PICK j \in DOMAIN sent : Loads(sent[j]) /\ sent[j].game = p.game
      BY <1>1, <2>2 DEF Given
    <3>2. j \in 1..(i - 1)
      BY <1>1, <2>2
    <3> QED BY <1>1, <2>2, <3>1, <3>2
  <2> QED BY <1>1, <2>1, <2>2
<1>3. ASSUME NEW game, Given(sent, game) PROVE Given(more, game)
  <2>1. PICK j \in DOMAIN sent : Loads(sent[j]) /\ sent[j].game = game
    BY <1>3 DEF Given
  <2>2. j \in DOMAIN more /\ more[j] = sent[j]
    BY <1>1
  <2> QED BY <2>1, <2>2 DEF Given
<1>4. Loads(p) => Given(more, p.game)
  <2>1. Len(sent) + 1 \in DOMAIN more
    BY <1>1
  <2> QED BY <1>1, <2>1 DEF Given
<1> QED BY <1>1, <1>2, <1>3, <1>4 DEF more

\* A slot with one field changed.
LEMMA Changed ==
  ASSUME NEW s, NEW state, NEW sent, NEW game, Is(s, state, sent, game), NEW x
  PROVE  /\ Is([s EXCEPT !.state = x], x, sent, game)
         /\ Is([s EXCEPT !.sent = x], state, x, game)
         /\ Is([s EXCEPT !.game = x], state, sent, x)
         /\ Is([s EXCEPT !.ignoring = x], state, sent, game)
         /\ Is([s EXCEPT !.told = x], state, sent, game)
<1>1. PICK a, b, c, d, e : s = Record(a, b, c, d, e)
  BY Zenon DEF Slot, Is
<1>2. state = a /\ sent = b /\ game = c
  BY <1>1 DEF Record, Is
<1>3. ASSUME NEW f, NEW g, NEW h, NEW i, NEW j, NEW r, r = Record(f, g, h, i, j)
      PROVE  Is(r, f, g, h)
  <2>1. Slot(r)
    BY <1>3, Zenon DEF Slot
  <2>2. r.state = f /\ r.sent = g /\ r.game = h
    BY <1>3 DEF Record
  <2> QED BY <2>1, <2>2 DEF Is
<1>4. [s EXCEPT !.state = x] = Record(x, b, c, d, e)
  BY <1>1 DEF Record
<1>5. [s EXCEPT !.sent = x] = Record(a, x, c, d, e)
  BY <1>1 DEF Record
<1>6. [s EXCEPT !.game = x] = Record(a, b, x, d, e)
  BY <1>1 DEF Record
<1>7. [s EXCEPT !.ignoring = x] = Record(a, b, c, x, e)
  BY <1>1 DEF Record
<1>8. [s EXCEPT !.told = x] = Record(a, b, c, d, x)
  BY <1>1 DEF Record
<1> QED BY <1>2, <1>3, <1>4, <1>5, <1>6, <1>7, <1>8

\* What sending leaves of a slot.
LEMMA Sent ==
  ASSUME NEW s, NEW state, NEW sent, NEW game, Is(s, state, sent, game), NEW what
  PROVE  Is(Send(s, what), state,
            Append(sent, [n |-> Len(sent), do |-> what, game |-> game]), game)
<1> DEFINE p == [n |-> Len(sent), do |-> what, game |-> game]
           t == [s EXCEPT !.sent = Append(sent, p)]
<1>1. s.sent = sent /\ s.game = game
  BY DEF Is
<1>2. Send(s, what) = [t EXCEPT !.told = Append(s.told, p)]
  BY <1>1 DEF Send
<1>3. Is(t, state, Append(sent, p), game)
  BY Changed
<1> HIDE DEF t, p
<1>4. Is([t EXCEPT !.told = Append(s.told, p)], state, Append(sent, p), game)
  BY <1>3, Changed
<1> QED BY <1>2, <1>4 DEF p

\* A slot is sent anything that shows no level, or that shows the one it was given.
LEMMA SendGood ==
  ASSUME NEW s, Good(s), NEW what \in Dos,
         what \in {"begin", "end", "update"} => Given(s.sent, s.game)
  PROVE  /\ Good(Send(s, what))
         /\ Send(s, what).state = s.state /\ Send(s, what).game = s.game
         /\ Given(s.sent, s.game) => Given(Send(s, what).sent, s.game)
         /\ what \in {"mapload", "load"} => Given(Send(s, what).sent, s.game)
<1> DEFINE p == [n |-> Len(s.sent), do |-> what, game |-> s.game]
           r == Send(s, what)
<1>1. p \in Packets /\ p.do = what /\ p.game = s.game
  BY DEF Good, Packets
<1>2. Is(r, s.state, Append(s.sent, p), s.game)
  <2>1. Is(s, s.state, s.sent, s.game)
    BY DEF Good, Is
  <2> QED BY <2>1, Sent
<1> HIDE DEF p, r
<1>3. /\ Append(s.sent, p) \in Seq(Packets) /\ LoadsFirst(Append(s.sent, p))
      /\ \A game : Given(s.sent, game) => Given(Append(s.sent, p), game)
      /\ Loads(p) => Given(Append(s.sent, p), s.game)
  BY <1>1, OneMore DEF Good, Shows
<1>4. Good(r)
  BY <1>2, <1>3 DEF Good, Is
<1>5. what \in {"mapload", "load"} => Given(r.sent, s.game)
  BY <1>1, <1>2, <1>3 DEF Loads, Is
<1> QED BY <1>2, <1>3, <1>4, <1>5 DEF r, Is

\* A state of a slot that promises nothing of a level, or what the slot was given.
LEMMA StateGood ==
  ASSUME NEW s, Good(s), NEW state \in SlotStates,
         state \in {"authenticated", "spawned"} => Given(s.sent, s.game)
  PROVE  /\ Good([s EXCEPT !.state = state])
         /\ [s EXCEPT !.state = state].sent = s.sent /\ [s EXCEPT !.state = state].game = s.game
         /\ [s EXCEPT !.state = state].state = state
<1>0. Is(s, s.state, s.sent, s.game)
  BY DEF Good, Is
<1>1. Is([s EXCEPT !.state = state], state, s.sent, s.game)
  BY <1>0, Changed
<1>2. Good([s EXCEPT !.state = state])
  BY <1>1 DEF Good, Is
<1> QED BY <1>1, <1>2 DEF Is

\* What a handler makes of a slot.
Keeps(r, s) == Good(r) /\ r.game = s.game

\* An address ignored, and datagrams outside the slot's packets, are neither here nor there.
LEMMA AsideGood ==
  ASSUME NEW s, Good(s), NEW ignoring, NEW told
  PROVE  Keeps([s EXCEPT !.ignoring = ignoring], s) /\ Keeps([s EXCEPT !.told = told], s)
<1>1. ASSUME NEW r, Is(r, s.state, s.sent, s.game) PROVE Keeps(r, s)
  BY <1>1 DEF Is, Good, Keeps
<1>2. Is(s, s.state, s.sent, s.game)
  BY DEF Good, Is
<1>3. /\ Is([s EXCEPT !.ignoring = ignoring], s.state, s.sent, s.game)
      /\ Is([s EXCEPT !.told = told], s.state, s.sent, s.game)
  BY <1>2, Changed
<1> QED BY <1>1, <1>3

\* A slot let go has nothing left of what it was told.
LEMMA DisconnectGood ==
  ASSUME NEW s, Slot(s), s.game \in Nat
  PROVE  Keeps(DisconnectClient(s), s)
<1> DEFINE t == [s EXCEPT !.state = "free"]
           r == DisconnectClient(s)
<1>1. r = [t EXCEPT !.sent = <<>>]
  BY DEF DisconnectClient
<1>2. Is(t, "free", s.sent, s.game)
  <2>1. Is(s, s.state, s.sent, s.game)
    BY DEF Is
  <2> QED BY <2>1, Changed
<1> HIDE DEF t, r
<1>3. Is(r, "free", <<>>, s.game)
  BY <1>1, <1>2, Changed
<1>4. LoadsFirst(<<>>) /\ <<>> \in Seq(Packets)
  BY DEF LoadsFirst
<1>5. Good(r)
  BY <1>3, <1>4 DEF Good, Is, SlotStates
<1> QED BY <1>3, <1>5 DEF r, Keeps, Is

\* An error, a kick and a new map's notice are said, and the slot is let go.
LEMMA ErrorGood ==
  ASSUME NEW s, Slot(s), s.game \in Nat
  PROVE  Keeps(ClientError(s), s)
<1> DEFINE said == Send(s, "error")
           r == [said EXCEPT !.ignoring = TRUE]
<1>0. Is(s, s.state, s.sent, s.game)
  BY DEF Is
<1>1. PICK sent : Is(said, s.state, sent, s.game)
  BY <1>0, Sent
<1> HIDE DEF said
<1>2. Is(r, s.state, sent, s.game)
  BY <1>1, Changed
<1> HIDE DEF r
<1>3. Keeps(DisconnectClient(r), s)
  BY <1>2, DisconnectGood DEF Keeps, Is
<1> QED BY <1>3 DEF ClientError, r, said

LEMMA LetGoGood ==
  ASSUME NEW s, Good(s)
  PROVE  Keeps(KickPlayer(s), s) /\ Keeps(ReconnectNewLevel(s), s)
<1>1. Slot(s) /\ s.game \in Nat /\ Keeps(s, s)
  BY DEF Keeps, Good
<1>2. ASSUME NEW what PROVE Keeps(DisconnectClient(Send(s, what)), s)
  <2>1. Is(s, s.state, s.sent, s.game)
    BY <1>1 DEF Is
  <2>2. Slot(Send(s, what)) /\ Send(s, what).game = s.game
    BY <2>1, Sent DEF Is
  <2> QED BY <1>1, <2>2, DisconnectGood DEF Keeps
<1> QED BY <1>1, <1>2 DEF KickPlayer, ReconnectNewLevel

\* A slot that is set up starts with nothing told.
LEMMA SetupGood ==
  ASSUME NEW s, Good(s), NEW verdict
  PROVE  Keeps(SetupNewConnection(s, verdict), s)
<1> DEFINE opened == [s EXCEPT !.sent = <<>>]
           slot == [opened EXCEPT !.state = "connected"]
<1>1. Keeps(ConnectionError(s), s)
  BY AsideGood DEF ConnectionError
<1>2. Is(opened, s.state, <<>>, s.game) /\ s.game \in Nat
  <2>1. Is(s, s.state, s.sent, s.game) /\ s.game \in Nat
    BY DEF Is, Good
  <2> QED BY <2>1, Changed
<1> HIDE DEF opened
<1>3. Is(slot, "connected", <<>>, s.game)
  BY <1>2, Changed
<1> HIDE DEF slot
<1>4. LoadsFirst(<<>>) /\ <<>> \in Seq(Packets)
  BY DEF LoadsFirst
<1>5. Good(slot)
  BY <1>2, <1>3, <1>4 DEF Good, Is, SlotStates
<1>6. Keeps(Send(slot, "authenticate"), s)
  BY <1>3, <1>5, SendGood DEF Keeps, Dos, Is
<1>7. Keeps(ClientError(opened), s)
  BY <1>2, ErrorGood DEF Keeps, Is
<1> QED BY <1>1, <1>6, <1>7 DEF SetupNewConnection, opened, slot

\* A slot that is given the level may be in any state of it.
LEMMA LoadGood ==
  ASSUME NEW s, Good(s), NEW state \in SlotStates, NEW what \in {"mapload", "load"}
  PROVE  Keeps(Send([s EXCEPT !.state = state], what), s)
<1> DEFINE t == [s EXCEPT !.state = state]
           p == [n |-> Len(s.sent), do |-> what, game |-> s.game]
           r == Send(t, what)
<1>1. Is(s, s.state, s.sent, s.game) /\ s.sent \in Seq(Packets) /\ s.game \in Nat
  BY DEF Good, Is
<1>2. Is(t, state, s.sent, s.game)
  BY <1>1, Changed
<1> HIDE DEF t
<1>3. Is(r, state, Append(s.sent, p), s.game)
  BY <1>2, Sent
<1>4. p \in Packets /\ Loads(p) /\ ~Shows(p) /\ p.game = s.game
  BY <1>1 DEF Packets, Loads, Shows, Dos
<1> HIDE DEF p, r
<1>5. /\ Append(s.sent, p) \in Seq(Packets) /\ LoadsFirst(Append(s.sent, p))
      /\ Given(Append(s.sent, p), s.game)
  BY <1>1, <1>4, OneMore DEF Good
<1>6. Good(r)
  BY <1>1, <1>3, <1>5 DEF Good, Is
<1> QED BY <1>3, <1>6 DEF Keeps, Is, r, t

LEMMA AuthenticateGood ==
  ASSUME NEW s, Good(s), NEW map
  PROVE  /\ Keeps(AuthenticateClientLevel(s, map), s)
         /\ Keeps(AuthenticateLevel(s, map), s)
<1>1. Keeps(s, s) /\ Keeps(ClientError(s), s) /\ s.state \in SlotStates
  BY ErrorGood DEF Good, Keeps
<1>2. ASSUME NEW state \in SlotStates, NEW what \in {"mapload", "load"}
      PROVE  Keeps(Send([s EXCEPT !.state = state], what), s)
  BY LoadGood
<1>3. Keeps(Send(s, "mapauthenticate"), s)
  BY SendGood DEF Keeps, Dos
<1>4. Keeps(AuthenticateClientLevel(s, map), s)
  <2> DEFINE state == IF s.state \in Spawned THEN s.state ELSE "authenticated"
  <2>1. state \in SlotStates
    BY <1>1 DEF SlotStates
  <2> HIDE DEF state
  <2>2. Keeps(Send([s EXCEPT !.state = state], "mapload"), s)
    BY <1>2, <2>1
  <2> QED BY <1>1, <2>2 DEF AuthenticateClientLevel, state
<1>5. Keeps(AuthenticateLevel(s, map), s)
  <2> DEFINE state == IF s.state \in Spawned THEN "spawned" ELSE s.state
  <2>1. state \in SlotStates
    BY <1>1 DEF SlotStates, Spawned
  <2> HIDE DEF state
  <2>2. Keeps(Send([s EXCEPT !.state = state], "load"), s)
    BY <1>2, <2>1
  <2> QED BY <1>1, <1>3, <2>2 DEF AuthenticateLevel, state
<1> QED BY <1>4, <1>5

\* The snapshot goes to a slot that was given the level.
LEMMA SnapshotGood ==
  ASSUME NEW s, Good(s), s.state # "free"
  PROVE  Keeps(ConnectNewPlayer(s), s)
<1>1. CASE s.state \in {"authenticated", "spawned"}
  <2> DEFINE t == [s EXCEPT !.state = "spawned"]
             b == Send(t, "begin")
  <2>1. Given(s.sent, s.game) /\ "spawned" \in SlotStates
    BY <1>1 DEF Good, SlotStates, Spawned
  <2>2. Good(t) /\ t.sent = s.sent /\ t.game = s.game
    BY <2>1, StateGood
  <2> HIDE DEF t
  <2>3. Good(b) /\ b.game = s.game /\ Given(b.sent, b.game)
    BY <2>1, <2>2, SendGood DEF Dos
  <2> HIDE DEF b
  <2>4. Keeps(Send(b, "end"), s)
    BY <2>3, SendGood DEF Keeps, Dos
  <2> QED BY <1>1, <2>4 DEF ConnectNewPlayer, b, t
<1>2. Keeps(Send(s, "authenticate"), s) /\ Keeps(Send(s, "mapauthenticate"), s)
  BY SendGood DEF Keeps, Dos
<1>3. Keeps(ClientError(s), s)
  BY ErrorGood DEF Good
<1>4. s.state \in {"connected", "authenticated", "outdated", "needs_authentication", "spawned"}
  BY DEF Good, SlotStates, Spawned
<1>5. CASE s.state = "outdated"
  BY <1>2, <1>5 DEF ConnectNewPlayer
<1>6. CASE s.state = "connected"
  BY <1>3, <1>6 DEF ConnectNewPlayer
<1>7. CASE s.state = "needs_authentication"
  BY <1>2, <1>7 DEF ConnectNewPlayer
<1> QED BY <1>1, <1>4, <1>5, <1>6, <1>7

LEMMA MissingGood ==
  ASSUME NEW s, Good(s), NEW numbers
  PROVE  Keeps(MissingPacket(s, numbers), s)
<1> DEFINE found == Kept(s.sent, numbers)
           resent == [s EXCEPT !.told = s.told \o found]
<1>1. Keeps(resent, s)
  BY AsideGood
<1>2. MissingPacket(s, numbers) \in {resent, KickPlayer(resent)}
  BY DEF MissingPacket
<1> HIDE DEF resent, found
<1>3. Keeps(KickPlayer(resent), s)
  BY <1>1, LetGoGood DEF Keeps
<1> QED BY <1>1, <1>2, <1>3

\* Whatever datagram comes, from whichever state.
LEMMA DatagramGood ==
  ASSUME NEW s, Good(s), NEW m, NEW verdict
  PROVE  /\ Keeps(DetermineConnectionType(s, m, verdict), s)
         /\ s.state # "free" => Keeps(ParsePacket(s, m, verdict), s)
<1>1. Keeps(s, s) /\ Keeps(SetupNewConnection(s, verdict), s)
  BY SetupGood DEF Keeps
<1>2. Keeps([s EXCEPT !.ignoring = TRUE], s)
  BY AsideGood
<1>3. Keeps(AuthenticateClientLevel(s, m.map), s) /\ Keeps(AuthenticateLevel(s, m.map), s)
  BY AuthenticateGood
<1>4. Keeps(DisconnectClient(s), s)
  BY DisconnectGood DEF Good
<1>5. Keeps(MissingPacket(s, m.numbers), s)
  BY MissingGood
<1>6. s.state # "free" => Keeps(ConnectNewPlayer(s), s)
  BY SnapshotGood
<1>7. Keeps(DetermineConnectionType(s, m, verdict), s)
  BY <1>1, <1>2 DEF DetermineConnectionType
<1>8. s.state # "free" => Keeps(ParsePacket(s, m, verdict), s)
  BY <1>1, <1>3, <1>4, <1>5, <1>6 DEF ParsePacket
<1> QED BY <1>7, <1>8

\* The level changes: none in the game, and none about to be, was given the new one.
LEMMA LoadNewLevelGood ==
  ASSUME NEW s, Good(s)
  PROVE  Good(LoadNewLevel([s EXCEPT !.game = s.game + 1]))
<1> DEFINE n == [s EXCEPT !.game = s.game + 1]
<1>1. /\ Is(s, s.state, s.sent, s.game) /\ s.sent \in Seq(Packets) /\ s.game \in Nat
      /\ s.state \in SlotStates /\ LoadsFirst(s.sent)
  BY DEF Good, Is
<1>2. Is(n, s.state, s.sent, s.game + 1)
  BY <1>1, Changed
<1> HIDE DEF n
<1>3. ASSUME NEW state \in SlotStates, state \notin {"authenticated", "spawned"}
      PROVE  Good([n EXCEPT !.state = state])
  <2>1. Is([n EXCEPT !.state = state], state, s.sent, s.game + 1)
    BY <1>2, Changed
  <2> QED BY <1>1, <1>3, <2>1 DEF Good, Is
<1>4. CASE s.state \in Spawned
  <2>1. Good([n EXCEPT !.state = "needs_authentication"])
    BY <1>3 DEF SlotStates, Spawned
  <2>2. Good(Send([n EXCEPT !.state = "needs_authentication"], "mapauthenticate"))
    BY <2>1, SendGood DEF Dos
  <2>3. n.state \in Spawned
    BY <1>2, <1>4 DEF Is
  <2>4. LoadNewLevel(n) = Send([n EXCEPT !.state = "needs_authentication"], "mapauthenticate")
    BY <2>3 DEF LoadNewLevel, Spawned
  <2> QED BY <2>2, <2>4 DEF n
<1>5. CASE s.state = "authenticated"
  <2>1. Good([n EXCEPT !.state = "outdated"])
    BY <1>3 DEF SlotStates
  <2> QED BY <1>2, <1>5, <2>1 DEF LoadNewLevel, Is, Spawned, n
<1>6. CASE s.state \notin {"authenticated"} \cup Spawned
  <2>1. Good(n)
    BY <1>1, <1>2, <1>6 DEF Good, Is, Spawned
  <2> QED BY <1>2, <1>6, <2>1 DEF LoadNewLevel, Is, n
<1> QED BY <1>4, <1>5, <1>6

--------------------------------------------------------------------------------
(* The specification's steps.                                              *)

LEMMA DoesGood ==
  ASSUME NEW r, Good(r), ServerDoes(r)
  PROVE  SlotInv'
<1>1. server' = [state |-> r.state, sent |-> r.sent, game |-> r.game, ignoring |-> r.ignoring]
  BY DEF ServerDoes
<1>2. Handling(server)' = Record(r.state, r.sent, r.game, r.ignoring, <<>>)
  BY <1>1 DEF Handling, Record
<1>3. Slot(Handling(server)')
  BY <1>2, Zenon DEF Slot
<1>4. /\ Handling(server)'.state = r.state /\ Handling(server)'.sent = r.sent
      /\ Handling(server)'.game = r.game
  BY <1>2 DEF Record
<1> QED BY <1>3, <1>4 DEF SlotInv, Good

\* Neither is a slot touched when its address is no longer ignored.
LEMMA PeaceGood ==
  ASSUME SlotInv, server' = [server EXCEPT !.ignoring = FALSE]
  PROVE  SlotInv'
<1> DEFINE s == Handling(server)
           t == Record(s.state, s.sent, s.game, server'.ignoring, <<>>)
<1>1. Handling(server)' = Record(server'.state, server'.sent, server'.game, server'.ignoring, <<>>)
  BY DEF Handling, Record
<1>2. server'.state = s.state /\ server'.sent = s.sent /\ server'.game = s.game
  BY DEF Handling
<1>3. Good(s)
  BY DEF SlotInv
<1>4. Handling(server)' = t
  BY <1>1, <1>2
<1>5. t.state = s.state /\ t.sent = s.sent /\ t.game = s.game
  BY DEF Record
<1>6. Slot(t)
  BY Zenon DEF Slot
<1> HIDE DEF s, t
<1>7. Good(t)
  BY <1>3, <1>5, <1>6 DEF Good
<1> QED BY <1>4, <1>7 DEF SlotInv

LEMMA InitGood == Init => SlotInv
<1> SUFFICES ASSUME Init PROVE SlotInv
  OBVIOUS
<1>1. Handling(server) = Record("free", <<>>, 1, FALSE, <<>>)
  BY DEF Init, Handling, Record
<1>2. Slot(Handling(server))
  BY <1>1, Zenon DEF Slot
<1>3. Handling(server).state = "free" /\ Handling(server).sent = <<>> /\ Handling(server).game = 1
  BY <1>1 DEF Record
<1> QED BY <1>2, <1>3 DEF SlotInv, Good, SlotStates, LoadsFirst

LEMMA NextGood == SlotInv /\ [Next]_vars => SlotInv'
<1> SUFFICES ASSUME SlotInv, [Next]_vars PROVE SlotInv'
  OBVIOUS
<1> DEFINE s == Handling(server)
<1>1. Good(s) /\ s.state = server.state /\ s.game = server.game
  BY DEF SlotInv, Handling
<1>2. CASE UNCHANGED server
  BY <1>2 DEF SlotInv
<1> HIDE DEF s
<1>3. CASE GetPackets
  <2>1. PICK verdict :
          ServerDoes(IF server.state = "free"
                     THEN DetermineConnectionType(s, Head(up), verdict)
                     ELSE ParsePacket(s, Head(up), verdict))
    BY <1>3 DEF GetPackets, s
  <2> DEFINE r == IF server.state = "free" THEN DetermineConnectionType(s, Head(up), verdict)
                  ELSE ParsePacket(s, Head(up), verdict)
  <2>2. Good(r)
    BY <1>1, DatagramGood DEF Keeps
  <2> QED BY <2>1, <2>2, DoesGood
<1>4. CASE NextLevel
  <2>1. PICK t \in {s, ReconnectNewLevel(s)} : ServerDoes(LoadNewLevel([t EXCEPT !.game = t.game + 1]))
    BY <1>4 DEF NextLevel, s
  <2>2. Good(t)
    BY <1>1, <2>1, LetGoGood DEF Keeps
  <2> QED BY <2>1, <2>2, LoadNewLevelGood, DoesGood
<1>5. CASE StopIgnoring
  <2>1. server' = [server EXCEPT !.ignoring = FALSE]
    BY <1>5 DEF StopIgnoring
  <2>2. SlotInv'
    BY <1>1, <2>1, PeaceGood
  <2> QED BY <2>2
<1>6. CASE AskAgain
  <2>1. ServerDoes(Send(s, "mapauthenticate"))
    BY <1>6 DEF AskAgain, s
  <2>2. Good(Send(s, "mapauthenticate"))
    BY <1>1, SendGood DEF Dos
  <2> QED BY <2>1, <2>2, DoesGood
<1>7. CASE TimeOut
  <2>1. ServerDoes(DisconnectClient(s))
    BY <1>7 DEF TimeOut, s
  <2>2. Good(DisconnectClient(s))
    BY <1>1, DisconnectGood DEF Keeps, Good
  <2> QED BY <2>1, <2>2, DoesGood
<1>8. CASE GameTalks
  <2>1. ServerDoes(Send(s, "update")) /\ s.state = "spawned"
    BY <1>1, <1>8 DEF GameTalks, s
  <2>2. Given(s.sent, s.game)
    BY <1>1, <2>1 DEF Good
  <2>3. Good(Send(s, "update"))
    BY <1>1, <2>2, SendGood DEF Dos
  <2> QED BY <2>1, <2>3, DoesGood
<1>9. CASE Receive \/ CheckForMissingPackets \/ Tick \/ Connect \/ Quit
  BY <1>2, <1>9 DEF Receive, CheckForMissingPackets, Tick, Connect, Quit
<1>10. CASE Lose \/ ArriveTwice \/ Overtake
  BY <1>2, <1>10 DEF Lose, ArriveTwice, Overtake
<1>11. CASE UNCHANGED vars
  BY <1>2, <1>11 DEF vars
<1> QED BY <1>3, <1>4, <1>5, <1>6, <1>7, <1>8, <1>9, <1>10, <1>11 DEF Next, ServerTicks

\* The slot's inductive invariant holds in every reachable state.
THEOREM SlotInvariance == Spec => []SlotInv
BY InitGood, NextGood, PTL DEF Spec

\* A level is there to be loaded before the server shows anything of it.
THEOREM LoadsComeFirst == Spec => []LoadedBeforeShown
<1>1. SlotInv => LoadedBeforeShown
  BY DEF SlotInv, Good, Handling, LoadsFirst, LoadedBeforeShown
<1> QED BY <1>1, SlotInvariance, PTL

================================================================================
