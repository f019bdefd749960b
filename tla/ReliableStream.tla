---------------------------- MODULE ReliableStream ----------------------------
(***************************************************************************)
(* The reliable packets of one client, from the server's game to the       *)
(* client's (network/packetarchive.cpp, sv_main.cpp, cl_main.cpp).         *)
(*                                                                         *)
(* The server numbers and archives each packet and sends at most           *)
(* sv_maxpacketspertick of them in a tick; the rest wait unnumbered.  The  *)
(* client keeps what arrives in a ring of bytes and applies the numbers in *)
(* order.  Four times a second it asks again for the numbers it has not    *)
(* got below the highest it has seen.  Datagrams are lost, repeated and    *)
(* overtake each other, both ways.                                         *)
(*                                                                         *)
(* One client that is in the game, and one connection: the handshake that  *)
(* makes it, timeouts and the quit messages are not here.                  *)
(***************************************************************************)
EXTENDS PacketArchive, SequencesExt

CONSTANTS RingSize,        \* bytes of g_ReceivedPacketBuffer
          SizeOf,          \* SizeOf[id]: the size of the packet written id-th
          Limits,          \* the values sv_maxpacketspertick takes
          ResendTics,      \* TICRATE / 4
          Lossy,           \* FALSE: what is lost just never arrives
          MaxScheduled     \* bound on the numbers waiting to be sent again

MaxWrites == MaxStored - 1

ASSUME StreamAssumption ==
  /\ RingSize \in Nat /\ MaxPacketSize <= RingSize
  /\ SizeOf \in [0..MaxWrites -> PacketSizes]
  /\ Limits \subseteq Nat \ {0} /\ Limits # {}
  /\ Lossy \in BOOLEAN
  /\ {ResendTics, MaxScheduled} \subseteq Nat

VARIABLES
  \* the server's OutgoingPacketBuffer, besides the archive
  unsent,        \* _unsentPackets
  scheduled,     \* _scheduledPacketIndices
  sentThisTick,  \* _packetsSentThisTick
  limit,         \* sv_maxpacketspertick
  lossWait,      \* tics before another CLC_MISSINGPACKET is heard
  server,        \* "serving", or "kicked" once it has dropped the client
  \* the client
  ring,          \* g_ReceivedPacketBuffer: the packet each byte belongs to
  slots,         \* g_lPacketBeginning, g_lPacketSize, g_lPacketSequence
  slot,          \* g_ulPacketNum
  cursor,        \* g_lCurrentPosition
  lastParsed,    \* g_lLastParsedSequence
  highest,       \* g_lHighestReceivedSequence
  missingTics,   \* g_lMissingPacketTicks
  client,        \* "playing", or "quit" once it has given up
  \* the network
  net,           \* reliable packets on their way
  requests,      \* CLC_MISSINGPACKETs on their way
  \* history
  written,       \* packets the server's game has written
  lowered,       \* whether the limit was lowered below what this tick had sent
  parsed         \* packets the client's game has applied, in order

outVars == <<archiveVars, unsent, scheduled, sentThisTick>>
serverVars == <<outVars, limit, lossWait, server, written, lowered>>
clientVars == <<ring, slots, slot, cursor, lastParsed, highest, missingTics, client, parsed>>
vars == <<serverVars, clientVars, net, requests>>

Slots == 0..(PACKET_BUFFER_SIZE - 1)
Least(a, b) == IF a < b THEN a ELSE b
Most(a, b) == IF a < b THEN b ELSE a

\* A CLC_MISSINGPACKET lists numbers in ascending order.
Requests ==
  {ns \in UNION {[1..k -> 0..MaxWrites] : k \in 0..(PACKET_BUFFER_SIZE - 1)} :
     \A i, j \in DOMAIN ns : i < j => ns[i] < ns[j]}

NoSlot == [begin |-> 0, size |-> 0, sequence |-> None]
Packet(id) == [id |-> id, size |-> SizeOf[id]]

Init ==
  /\ ArchiveInit
  /\ unsent = <<>> /\ scheduled = <<>> /\ sentThisTick = 0
  /\ limit \in Limits /\ lossWait = 0 /\ server = "serving"
  /\ ring = [b \in 0..(RingSize - 1) |-> None]
  /\ slots = [i \in Slots |-> NoSlot] /\ slot = 0 /\ cursor = 0
  /\ lastParsed = None /\ highest = None /\ missingTics = 0 /\ client = "playing"
  /\ net = {} /\ requests = {}
  /\ written = 0 /\ lowered = FALSE /\ parsed = <<>>

--------------------------------------------------------------------------------
(* The server's outgoing packets.                                          *)

\* TArray::Delete(0, n): its count is compared as an unsigned number, so a
\* negative one deletes everything.
DeleteFirst(s, n) == IF n < 0 THEN <<>> ELSE SubSeq(s, n + 1, Len(s))

\* The archive once the packets are stored, in order.
StoreAll(a, ps) ==
  LET after[i \in 0..Len(ps)] == IF i = 0 THEN a ELSE StorePacket(after[i - 1], ps[i])
  IN  after[Len(ps)]

\* SendPacket right after StorePacket, and SendPacket of an older number.
Fresh(a, ps) ==
  {[sequence |-> a.sequenceNumber + i - 1, body |-> ps[i]] : i \in DOMAIN ps}
Copies(a, ns) ==
  {[sequence |-> n, body |-> ReadBack(a, n)] : n \in {m \in ns : Found(a, m)}}

\* Storing and sending packets for the first time.
Launch(ps) ==
  /\ archive' = StoreAll(archive, ps)
  /\ stored' = stored \o ps

ScheduleUnsentPacket(p) ==
  \/ /\ unsent = <<>> /\ sentThisTick < limit
     /\ Launch(<<p>>)
     /\ net' = net \cup Fresh(archive, <<p>>)
     /\ sentThisTick' = sentThisTick + 1
     /\ UNCHANGED unsent
  \/ /\ ~(unsent = <<>> /\ sentThisTick < limit)
     /\ unsent' = Append(unsent, p)
     /\ UNCHANGED <<archive, stored, net, sentThisTick>>

\* The game fills a packet, which SERVER_SendOutPackets or, before the tick's
\* end, SERVER_CheckClientBuffer hands over.
SendClientPacket ==
  /\ server = "serving" /\ written < MaxWrites
  /\ ScheduleUnsentPacket(Packet(written))
  /\ written' = written + 1
  /\ UNCHANGED <<base, scheduled, limit, lossWait, server, lowered, clientVars, requests>>

\* SERVER_KickPlayer: the notice is written, all that waits is sent, resent
\* numbers first, and the client's slot is freed.  "asked" are the numbers
\* sent again before the kick in the same step, "sent" the packets sent in this
\* tick by then.
KickPlayer(asked, sent) ==
  LET notice == Packet(written)
      atOnce == unsent = <<>> /\ sent < limit
      rest == Append(unsent, notice)
      before == IF atOnce THEN StorePacket(archive, notice) ELSE archive
      launched == StoreAll(archive, rest)
  IN  /\ server' = "kicked"
      /\ written' = written + 1
      /\ net' = net \cup Copies(archive, asked) \cup Copies(before, ToSet(scheduled))
                    \cup Fresh(archive, rest)
      /\ archive' = Clear(launched)
      /\ stored' = stored \o rest
      /\ base' = Len(stored')
      /\ unsent' = <<>> /\ scheduled' = <<>> /\ sentThisTick' = 0
      /\ lowered' = FALSE

\* The packets that are to be sent in SavedPackets.Tick: the numbers to send
\* again go first, and new packets get what the limit has left.
ResendsNow == Least(limit - sentThisTick, Len(scheduled))
UnsentNow == Least(limit - sentThisTick - Most(ResendsNow, 0), Len(unsent))
ResentNow == ToSet(SubSeq(scheduled, 1, ResendsNow))

\* A bug: the count of packets sent is left for the next tick.
TickKeepsCount ==
  /\ \A n \in ResentNow : Found(archive, n)
  /\ scheduled' = DeleteFirst(scheduled, ResendsNow)
  /\ LET now == SubSeq(unsent, 1, UnsentNow)
     IN  /\ Launch(now)
         /\ net' = net \cup Copies(archive, ResentNow) \cup Fresh(archive, now)
         /\ sentThisTick' = sentThisTick + Most(ResendsNow, 0) + Most(UnsentNow, 0)
  /\ unsent' = DeleteFirst(unsent, UnsentNow)
  /\ lowered' = FALSE
  /\ UNCHANGED <<base, server, written>>

\* A bug: the packets left over are cleared with those that were sent.
TickClears ==
  /\ \A n \in ResentNow : Found(archive, n)
  /\ scheduled' = DeleteFirst(scheduled, ResendsNow)
  /\ LET now == SubSeq(unsent, 1, UnsentNow)
     IN  /\ Launch(now)
         /\ net' = net \cup Copies(archive, ResentNow) \cup Fresh(archive, now)
  /\ unsent' = <<>> /\ sentThisTick' = 0
  /\ lowered' = FALSE
  /\ UNCHANGED <<base, server, written>>

TickSends ==
  /\ \A n \in ResentNow : Found(archive, n)
  /\ scheduled' = DeleteFirst(scheduled, ResendsNow)
  /\ LET now == SubSeq(unsent, 1, UnsentNow)
     IN  /\ Launch(now)
         /\ net' = net \cup Copies(archive, ResentNow) \cup Fresh(archive, now)
  /\ unsent' = DeleteFirst(unsent, UnsentNow)
  /\ sentThisTick' = 0
  /\ lowered' = FALSE
  /\ UNCHANGED <<base, server, written>>

TickKicks ==
  /\ \E i \in 1..ResendsNow :
        /\ ~Found(archive, scheduled[i])
        /\ \A j \in 1..(i - 1) : Found(archive, scheduled[j])
        /\ KickPlayer({}, sentThisTick + i)

\* A bug: gametic does not move on.
TickStands ==
  /\ server = "serving"
  /\ TickSends \/ TickKicks
  /\ UNCHANGED <<lossWait, limit, clientVars, requests>>

\* A tick of the server: gametic moves on and the waiting packets go out.
ServerTick ==
  /\ server = "serving"
  /\ TickSends \/ TickKicks
  /\ lossWait' = Most(lossWait - 1, 0)
  /\ UNCHANGED <<limit, clientVars, requests>>

\* An administrator sets sv_maxpacketspertick, in the middle of a tick.
SetMaxPackets(l) ==
  /\ server = "serving"
  /\ limit' = l /\ lowered' = (lowered \/ l < sentThisTick)
  /\ UNCHANGED <<outVars, lossWait, server, written, clientVars, net, requests>>

\* A CLC_MISSINGPACKET so soon after another is read and dropped.
IgnoreRequest ==
  /\ lossWait > 0
  /\ UNCHANGED <<outVars, lossWait, server, written, lowered, net>>

\* The numbers are sent again while the limit allows and none waits, and the
\* rest is queued.  MaxScheduled bounds the queue.
ResendAsked(ns) ==
  LET atOnce == IF scheduled = <<>> THEN Least(Most(limit - sentThisTick, 0), Len(ns)) ELSE 0
  IN  /\ lossWait = 0 /\ \A n \in ToSet(ns) : Found(archive, n)
      /\ Len(scheduled) + Len(ns) <= MaxScheduled
      /\ net' = net \cup Copies(archive, ToSet(SubSeq(ns, 1, atOnce)))
      /\ sentThisTick' = sentThisTick + atOnce
      /\ scheduled' = scheduled \o SubSeq(ns, atOnce + 1, Len(ns))
      /\ lossWait' = ResendTics + 1
      /\ UNCHANGED <<archiveVars, unsent, server, written, lowered>>

\* A number that is asked for and no longer archived ends the client's game.
KickForLost(ns) ==
  /\ lossWait = 0
  /\ \E i \in DOMAIN ns :
        /\ ~Found(archive, ns[i])
        /\ \A j \in 1..(i - 1) : Found(archive, ns[j])
        /\ KickPlayer(ToSet(SubSeq(ns, 1, i - 1)),
                      sentThisTick + IF scheduled = <<>> THEN i ELSE 0)
  /\ UNCHANGED lossWait

\* server_MissingPacket.  A network that loses datagrams does not also repeat an
\* old request for ever.
MissingPacket(ns) ==
  /\ server = "serving" /\ ns \in requests
  /\ IgnoreRequest \/ ResendAsked(ns) \/ KickForLost(ns)
  /\ requests' = IF Lossy THEN requests \ {ns} ELSE requests
  /\ UNCHANGED <<limit, clientVars>>

--------------------------------------------------------------------------------
(* The client's received packets.                                          *)

Held == {slots[i].sequence : i \in Slots} \ {None}

\* CLIENT_GetNextPacket finds the number after the last parsed, as often as it
\* can: the packets that now follow, as the ring's bytes have them.
ParseAll(received, in) ==
  LET has == {in[i].sequence : i \in Slots}
      last == CHOOSE n \in lastParsed..(lastParsed + PACKET_BUFFER_SIZE) :
                /\ \A m \in (lastParsed + 1)..n : m \in has
                /\ n + 1 \notin has
      Content(n) ==
        LET at == in[CHOOSE i \in Slots : in[i].sequence = n]
            bytes == {received[b] : b \in at.begin..(at.begin + at.size - 1)}
        IN  IF \E id \in bytes : bytes = {id} THEN CHOOSE id \in bytes : TRUE ELSE None
  IN  /\ lastParsed' = last
      /\ parsed' = parsed \o [k \in 1..(last - lastParsed) |-> Content(lastParsed + k)]

\* ComputeOverwritesSlot
Overwrites(s, begin, size) ==
  s.size > 0 /\ size > 0 /\ begin < s.begin + s.size /\ s.begin < begin + size

\* The packet takes bytes from "begin" on and the next slot, among slots "kept".
PutReceived(d, begin, kept) ==
  /\ slots' = [kept EXCEPT ![slot] =
                 [begin |-> begin, size |-> d.body.size, sequence |-> d.sequence]]
  /\ ring' = [b \in DOMAIN ring |->
                IF b \in begin..(begin + d.body.size - 1) THEN d.body.id ELSE ring[b]]
  /\ cursor' = begin + d.body.size
  /\ highest' = Most(highest, d.sequence)

Begin(size) == IF cursor + size >= RingSize THEN 0 ELSE cursor

\* A bug: slots whose bytes are written over are still trusted.
StoreOver(d) ==
  /\ PutReceived(d, Begin(d.body.size), slots)
  /\ slot' = (slot + 1) % PACKET_BUFFER_SIZE

\* CLIENT_ReadPacketHeader, for a number no slot has: slots that lose bytes to
\* the packet are forgotten.
StoreReceived(d) ==
  LET size == d.body.size
      kept == [i \in Slots |->
                 IF i # slot /\ slots[i].sequence # None /\ Overwrites(slots[i], Begin(size), size)
                 THEN [slots[i] EXCEPT !.sequence = None] ELSE slots[i]]
  IN  /\ PutReceived(d, Begin(size), kept)
      /\ slot' = (slot + 1) % PACKET_BUFFER_SIZE

\* CLIENT_GetPackets, for one reliable packet.
Receive(d) ==
  /\ client = "playing" /\ d \in net
  /\ IF d.sequence \in Held
     THEN UNCHANGED <<ring, slots, slot, cursor, highest>>
     ELSE StoreReceived(d)
  /\ ParseAll(ring', slots')
  /\ UNCHANGED <<serverVars, missingTics, client, net, requests>>

Awaited == (lastParsed + 1)..(highest - 1)

\* CLIENT_CheckForMissingPackets, once a tic: between requests it only counts
\* down, a gap of PACKET_BUFFER_SIZE ends the game, and what is missing below
\* the highest number is asked for.
CountDown ==
  /\ missingTics > 0
  /\ missingTics' = missingTics - 1
  /\ UNCHANGED <<lastParsed, highest, client, requests>>

NothingMissing ==
  /\ missingTics = 0 /\ lastParsed = highest
  /\ missingTics' = ResendTics
  /\ UNCHANGED <<lastParsed, highest, client, requests>>

GiveUp ==
  /\ missingTics = 0 /\ highest - lastParsed >= PACKET_BUFFER_SIZE
  /\ client' = "quit"
  /\ lastParsed' = None /\ highest' = None /\ missingTics' = 0
  /\ UNCHANGED requests

AskAgain ==
  /\ missingTics = 0 /\ lastParsed # highest
  /\ highest - lastParsed < PACKET_BUFFER_SIZE
  /\ \E ns \in Requests : ToSet(ns) = Awaited \ Held /\ requests' = requests \cup {ns}
  /\ missingTics' = ResendTics
  /\ UNCHANGED <<lastParsed, highest, client>>

CheckForMissingPackets ==
  /\ client = "playing"
  /\ CountDown \/ NothingMissing \/ GiveUp \/ AskAgain
  /\ UNCHANGED <<serverVars, ring, slots, slot, cursor, parsed, net>>

--------------------------------------------------------------------------------
\* What arrives may arrive again, until the network has lost the last copy.
LosePacket(d) ==
  /\ Lossy
  /\ net' = net \ {d}
  /\ UNCHANGED <<serverVars, clientVars, requests>>

LoseRequest(r) ==
  /\ Lossy
  /\ requests' = requests \ {r}
  /\ UNCHANGED <<serverVars, clientVars, net>>

Next ==
  \/ SendClientPacket \/ ServerTick
  \/ \E l \in Limits : SetMaxPackets(l)
  \/ \E r \in requests : MissingPacket(r) \/ LoseRequest(r)
  \/ \E d \in net : Receive(d) \/ LosePacket(d)
  \/ CheckForMissingPackets

Spec == Init /\ [][Next]_vars

\* The server and the client tick.  The packet the client waits for arrives if
\* it is sent again and again, and so does a request for it, at a time the
\* server hears it.
FairSpec ==
  /\ Spec /\ WF_vars(ServerTick) /\ WF_vars(CheckForMissingPackets)
  /\ SF_vars(\E d \in net : d.sequence = lastParsed + 1 /\ Receive(d))
  /\ SF_vars(\E r \in requests : lastParsed + 1 \in ToSet(r) /\ lossWait = 0 /\ MissingPacket(r))

--------------------------------------------------------------------------------
\* The packets that are numbered, and those that wait for a number.
Outgoing == stored \o unsent
Ids(ps) == [k \in 1..Len(ps) |-> ps[k].id]

\* The client's game applies the packets the server's game wrote, whole, each
\* once and in order, whatever the network lost, repeated or reordered and
\* whatever the ring wrote over; it is owed all of them but those that a tick
\* drops for which the limit was lowered.
Delivery == INSTANCE OrderedDelivery WITH owed <- Ids(Outgoing)
ImplementsDelivery == Delivery!Spec

\* Written, and neither numbered nor waiting.
Dropped == {n \in 0..(written - 1) : \A k \in 1..Len(Outgoing) : Outgoing[k].id # n}

\* A packet falls out of the queue, where no gap in the numbers would show it,
\* only in a tick whose limit was lowered below what it had sent, and then
\* with all that wait: the delete of a negative number (packetarchive.cpp:325).
DropsOnlyLowered ==
  [][Dropped' # Dropped => lowered /\ sentThisTick > limit /\ unsent' = <<>>]_vars

\* A client is kicked only when a number it asked for has left the archive.
KickMeansLost ==
  [][server = "serving" /\ server' = "kicked"
     => \E n \in ToSet(scheduled) \cup UNION {ToSet(r) : r \in requests} :
           n + PACKET_BUFFER_SIZE < archive.sequenceNumber]_vars

--------------------------------------------------------------------------------
Ended == server = "kicked" \/ client = "quit"

\* A number below one the client has seen is applied in the end.
GapsFill == \A n \in 0..(MaxWrites - 1) : highest > n ~> (lastParsed >= n \/ Ended)

\* A packet that waits for its number gets it and is sent, or falls with a
\* lowered limit: numbers sent again do not keep it waiting for ever.
WrittenIsSent ==
  \A n \in 0..(MaxWrites - 1) :
    written > n ~> \/ \E k \in DOMAIN stored : stored[k].id = n
                   \/ n \in Dropped \/ Ended

--------------------------------------------------------------------------------
(* The inductive invariants the properties follow from.                    *)

TypeInv ==
  /\ unsent \in Seq(Packets) /\ stored \in Seq(Packets) /\ scheduled \in Seq(Nat)
  /\ requests \subseteq Requests
  /\ sentThisTick \in Nat /\ limit \in Limits
  /\ written \in Nat /\ lowered \in BOOLEAN /\ (server = "serving" => written <= MaxWrites)

\* Nobody speaks of a number that is not given, and what is on its way under a
\* number is the packet stored under it.
IsOf(d, ps) == d.sequence \in 0..(Len(ps) - 1) /\ d.body = ps[d.sequence + 1]

SentInv ==
  /\ \A d \in net : IsOf(d, stored)
  /\ highest \in None..(Len(stored) - 1)
  /\ \A i \in DOMAIN scheduled : scheduled[i] < Len(stored)
  /\ \A r \in requests : \A i \in DOMAIN r : r[i] < Len(stored)

\* What keeps packets from falling out of the queue: the count of packets sent
\* stays within the limit until that is lowered, so that what is deleted is what
\* was sent.  What is kept is in the order of writing.
QueueInv ==
  /\ ~lowered => sentThisTick <= limit
  /\ \A k \in 1..Len(Outgoing) : Outgoing[k] = Packet(Outgoing[k].id) /\ Outgoing[k].id < written
  /\ \A j, k \in 1..Len(Outgoing) : j < k => Outgoing[j].id < Outgoing[k].id

\* A slot that has a number has all the bytes of the packet stored under it.
SlotWhole(s, ps, bytes) ==
  /\ s.sequence \in 0..(Len(ps) - 1)
  /\ s.size = ps[s.sequence + 1].size
  /\ \A b \in s.begin..(s.begin + s.size - 1) :
        b \in DOMAIN bytes /\ bytes[b] = ps[s.sequence + 1].id

\* What is applied is what was stored, in order.
ClientInv ==
  /\ ring \in [0..(RingSize - 1) -> Int] /\ cursor \in Nat /\ slot \in Slots
  /\ slots \in [Slots -> [begin : Nat, size : Nat, sequence : Int]]
  /\ \A i \in Slots : slots[i].sequence # None => SlotWhole(slots[i], stored, ring)
  /\ parsed \in Seq(Int) /\ Len(parsed) <= Len(stored)
  /\ \A k \in 1..Len(parsed) : parsed[k] = stored[k].id
  /\ client = "playing" => lastParsed = Len(parsed) - 1
================================================================================
