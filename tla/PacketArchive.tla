----------------------------- MODULE PacketArchive -----------------------------
(***************************************************************************)
(* The archive of a client's sent packets (network/packetarchive.cpp).     *)
(*                                                                         *)
(* Each reliable packet gets the next sequence number and its bytes go     *)
(* into a buffer that starts over when the next packet would not fit       *)
(* before its end.  A table of PACKET_BUFFER_SIZE records says where each  *)
(* number's bytes begin.  Nothing frees bytes: a packet is lost when a     *)
(* later one takes its record or writes over its bytes, and only the first *)
(* of the two is ever noticed.                                             *)
(***************************************************************************)
EXTENDS Integers, Sequences

CONSTANTS PACKET_BUFFER_SIZE, \* records kept, 2048 in the build
          MaxPacketSize,      \* what Initialize is given, sv_maxpacketsize
          Room,               \* what SERVER_CheckClientBuffer leaves free, 5
          MaxStored           \* bound on the packets stored

\* A packet of Room bytes less than the maximum is the largest written, and
\* the bytes left free over all records make up for those the buffer's end
\* wastes.
ASSUME ArchiveAssumption ==
  /\ {PACKET_BUFFER_SIZE, MaxPacketSize, Room, MaxStored} \subseteq Nat \ {0}
  /\ Room < MaxPacketSize
  /\ MaxPacketSize <= (PACKET_BUFFER_SIZE + 1) * Room

VARIABLES archive, \* sequenceNumber, pbStream's offset, records, pbData
          stored,  \* history: every packet stored, in order
          base     \* history: how many were stored before the last Clear

archiveVars == <<archive, stored, base>>

BufferSize == MaxPacketSize * PACKET_BUFFER_SIZE

\* A packet is a name for its content and a size; a byte is the name of the
\* packet it belongs to.
None == -1
PacketSizes == 1..(MaxPacketSize - Room)
Packets == [id : 0..(MaxStored - 1), size : PacketSizes]

NoRecord == [position |-> 0, size |-> 0, sequenceNumber |-> 0]

\* Clear leaves every record as that of packet 0, with no bytes.
Clear(a) == [a EXCEPT !.sequenceNumber = 0, !.end = 0,
                      !.records = [i \in 0..(PACKET_BUFFER_SIZE - 1) |-> NoRecord]]

Empty == [sequenceNumber |-> 0, end |-> 0,
          records |-> [i \in 0..(PACKET_BUFFER_SIZE - 1) |-> NoRecord],
          data |-> [b \in 0..(BufferSize - 1) |-> None]]

--------------------------------------------------------------------------------
\* The bytes the buffer's writer does not reach are left alone.
StoreWhole(a, p) ==
  [a EXCEPT !.sequenceNumber = @ + 1, !.end = @ + p.size,
            !.records[a.sequenceNumber % PACKET_BUFFER_SIZE] =
               [position |-> a.end, size |-> p.size, sequenceNumber |-> a.sequenceNumber],
            !.data = [b \in DOMAIN @ |->
                        IF b \in a.end..(a.end + p.size - 1) THEN p.id ELSE @[b]]]

\* A bug: the next packet starts on the last byte of this one.
StoreShort(a, p) == [StoreWhole(a, p) EXCEPT !.end = @ - 1]

\* A bug: one record is never used.
StoreFewer(a, p) ==
  [StoreWhole(a, p) EXCEPT
     !.records = [a.records EXCEPT ![a.sequenceNumber % (PACKET_BUFFER_SIZE - 1)] =
                    [position |-> a.end, size |-> p.size, sequenceNumber |-> a.sequenceNumber]]]

StorePacket(a, p) ==
  StoreWhole([a EXCEPT !.end = IF @ + p.size >= BufferSize THEN 0 ELSE @], p)

\* The record the number hashes to, or else any record with the number.
FindPacket(a, n) ==
  LET i == n % PACKET_BUFFER_SIZE
  IN  IF a.records[i].sequenceNumber = n THEN {i}
      ELSE {j \in DOMAIN a.records : a.records[j].sequenceNumber = n}

Found(a, n) == FindPacket(a, n) # {}

\* What is read back: the packet's name if all its bytes are still one
\* packet's, None if they are torn.
ReadBack(a, n) ==
  LET r == a.records[CHOOSE i \in FindPacket(a, n) : TRUE]
      bytes == {a.data[b] : b \in r.position..(r.position + r.size - 1)}
  IN  [id |-> IF \E id \in bytes : bytes = {id} THEN CHOOSE id \in bytes : TRUE ELSE None,
       size |-> r.size]

--------------------------------------------------------------------------------
ArchiveInit == archive = Empty /\ stored = <<>> /\ base = 0

\* The numbered packet the archive was given, and the numbers it was given.
Given(n) == stored[base + n + 1]
Numbers == 0..(Len(stored) - base - 1)
KeptNumbers == {n \in Numbers : n + PACKET_BUFFER_SIZE >= archive.sequenceNumber}

\* MaxStored bounds the run.
Store(size) ==
  LET p == [id |-> Len(stored), size |-> size]
  IN  /\ Len(stored) < MaxStored
      /\ archive' = StorePacket(archive, p)
      /\ stored' = Append(stored, p)
      /\ UNCHANGED base

ClearArchive ==
  /\ archive' = Clear(archive)
  /\ base' = Len(stored)
  /\ UNCHANGED stored

ArchiveNext == (\E size \in PacketSizes : Store(size)) \/ ClearArchive

ArchiveSpec == ArchiveInit /\ [][ArchiveNext]_archiveVars

--------------------------------------------------------------------------------
\* Any of the last PACKET_BUFFER_SIZE packets can be sent again with just the
\* bytes it had, whatever sizes came before and after it: the comment on
\* SavedPackets in sv_main.h promises it, and the buffer has no other guard
\* against a later packet's bytes than its size.
LastPacketsWhole ==
  \A n \in KeptNumbers : Found(archive, n) /\ ReadBack(archive, n) = Given(n)

================================================================================
