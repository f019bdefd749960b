------------------------- MODULE ReliableStreamProofs -------------------------
(***************************************************************************)
(* The reliable stream, for every number of records, size of ring and      *)
(* packet that the assumptions allow, every order of losses and repeats,   *)
(* every limit and any number of packets.                                  *)
(*                                                                         *)
(* First the archive: it gives back any of the last PACKET_BUFFER_SIZE      *)
(* packets whole.  Its invariant counts bytes from above: a packet that is *)
(* not overtaken has no more than MostBytes(k) bytes behind it when k       *)
(* packets, itself the first, were stored since; once the buffer has       *)
(* started over, the end is as far short of it as those k packets and the  *)
(* bytes wasted leave it.                                                  *)
(*                                                                         *)
(* Then the stream: what is on its way, in the client's ring and applied is *)
(* what was stored under the number (StreamInv), so only a lost number     *)
(* kicks; every step leaves the queue, adds what is written at its end or,  *)
(* in a tick whose limit was lowered, cuts off all that waits (QueueInv);  *)
(* and so the stream implements OrderedDelivery.                           *)
(*                                                                         *)
(* Last the client's ring: where it is as long as the build's, a slot's     *)
(* bytes stay its own until its turn comes again (RingInv).                *)
(***************************************************************************)
EXTENDS ReliableStream, Recursion, SequenceTheorems

\* The largest packet, and the most that k packets take.
Largest == MaxPacketSize - Room
MostBytes(k) == k * Largest

RecordOf(a, n) == a.records[n % PACKET_BUFFER_SIZE]

Bytes(a, n) == RecordOf(a, n).position..(RecordOf(a, n).position + RecordOf(a, n).size - 1)

\* The record is the packet's and so are the bytes it names.
Intact(a, p, n) ==
  /\ RecordOf(a, n).sequenceNumber = n
  /\ RecordOf(a, n).size = p.size
  /\ \A b \in Bytes(a, n) : b \in 0..(BufferSize - 1) /\ a.data[b] = p.id

\* What keeps the end away from the packet's bytes.
Ahead(a, n) ==
  /\ RecordOf(a, n).position + RecordOf(a, n).size <= a.end
  /\ a.end <= RecordOf(a, n).position + MostBytes(a.sequenceNumber - n)

StartedOver(a, n) ==
  a.end + BufferSize <= RecordOf(a, n).position + MostBytes(a.sequenceNumber - n + 1)

\* A record is that of the last packet with its remainder, or of none yet.
LastOfItsKind(a, i) ==
  LET m == a.records[i].sequenceNumber
  IN  \/ m % PACKET_BUFFER_SIZE = i /\ a.sequenceNumber <= m + PACKET_BUFFER_SIZE
      \/ m = 0 /\ a.sequenceNumber <= i

ArchiveType ==
  [sequenceNumber : Nat, end : 0..(BufferSize - 1),
   records : [0..(PACKET_BUFFER_SIZE - 1) -> [position : Nat, size : Nat, sequenceNumber : Nat]],
   data : [0..(BufferSize - 1) -> Int]]

Kept(a) == {n \in 0..(a.sequenceNumber - 1) : n + PACKET_BUFFER_SIZE >= a.sequenceNumber}

\* The archive was given the packets ps, and has what it should of them.
Holds(a, ps) ==
  /\ a \in ArchiveType /\ ps \in Seq(Packets) /\ a.sequenceNumber = Len(ps)
  /\ \A n \in Kept(a) : Intact(a, ps[n + 1], n) /\ (Ahead(a, n) \/ StartedOver(a, n))
  /\ \A i \in 0..(PACKET_BUFFER_SIZE - 1) : LastOfItsKind(a, i)

\* The packets stored since the last Clear.
Since == SubSeq(stored, base + 1, Len(stored))

ArchiveInv == stored \in Seq(Packets) /\ base \in 0..Len(stored) /\ Holds(archive, Since)

-------------------------------------------------------------------------------
(* Arithmetic.                                                             *)

\* Multiples of p lie at least p apart.
LEMMA MultiplesApart ==
  ASSUME NEW p \in Nat \ {0}, NEW x \in Int, NEW y \in Int
  PROVE  /\ p * x \in Int
         /\ x < y => p * x + p <= p * y
<1>1. p * x \in Int /\ p * y \in Int /\ p * (y - x) = p * y - p * x
  BY SMTT(30)
<1>2. \A d \in Int : d >= 1 => p * d >= p
  BY SMTT(30)
<1>3. ASSUME x < y PROVE p * (y - x) >= p
  BY <1>2, <1>3
<1> QED BY <1>1, <1>3

\* The remainder is what a multiple leaves.
LEMMA Remainder ==
  ASSUME NEW p \in Nat \ {0}, NEW n \in Nat
  PROVE  n % p \in 0..(p - 1) /\ \E a \in Int : n = p * a + (n % p)
<1>1. n = p * (n \div p) + (n % p) /\ n \div p \in Int
  BY SMTT(30)
<1>2. n % p \in 0..(p - 1)
  BY SMTT(30)
<1>3. \E a \in Int : n = p * a + (n % p)
  BY <1>1, Zenon
<1> QED BY <1>2, <1>3

\* Two numbers less than p apart have records of their own.
LEMMA ModApart ==
  ASSUME NEW p \in Nat \ {0}, NEW n \in Nat, NEW m \in Nat, n < m, m < n + p
  PROVE  n % p # m % p
<1> DEFINE r == n % p
           s == m % p
<1>1. r \in 0..(p - 1) /\ s \in 0..(p - 1) /\ \E a \in Int : n = p * a + r
  BY Remainder
<1>2. \E b \in Int : m = p * b + s
  BY Remainder
<1> HIDE DEF r, s
<1>3. PICK a \in Int, b \in Int : n = p * a + r /\ m = p * b + s
  BY <1>1, <1>2
<1> SUFFICES ASSUME r = s PROVE FALSE
  BY DEF r, s
<1>4. (a < b => p * a + p <= p * b) /\ p * a \in Int
  BY MultiplesApart
<1>5. (b < a => p * b + p <= p * a) /\ p * b \in Int
  BY MultiplesApart
<1> DEFINE pa == p * a
           pb == p * b
<1>6. /\ pa \in Int /\ pb \in Int /\ n = pa + r /\ m = pb + s
      /\ (a < b => pa + p <= pb) /\ (b < a => pb + p <= pa) /\ (a = b => pa = pb)
  BY <1>3, <1>4, <1>5
<1> HIDE DEF pa, pb
<1> QED BY <1>1, <1>6

\* A number and the number p further have the same remainder.
LEMMA Period ==
  ASSUME NEW p \in Nat \ {0}, NEW n \in Nat
  PROVE  (n + p) % p = n % p
<1> DEFINE r == n % p
           s == (n + p) % p
<1>1. r \in 0..(p - 1) /\ \E a \in Int : n = p * a + r
  BY Remainder
<1>2. s \in 0..(p - 1) /\ \E b \in Int : n + p = p * b + s
  <2> DEFINE k == n + p
  <2>1. k \in Nat
    OBVIOUS
  <2> HIDE DEF k
  <2>2. k % p \in 0..(p - 1) /\ \E b \in Int : k = p * b + (k % p)
    BY <2>1, Remainder
  <2> QED BY <2>2 DEF k
<1> HIDE DEF r, s
<1>3. PICK a \in Int, b \in Int : n = p * a + r /\ n + p = p * b + s
  BY <1>1, <1>2
<1>4. p * a \in Int /\ (a + 1 < b => p * (a + 1) + p <= p * b) /\ p * (a + 1) \in Int
  BY MultiplesApart
<1>5. p * b \in Int /\ (b < a + 1 => p * b + p <= p * (a + 1))
  BY MultiplesApart
<1>6. p * (a + 1) = p * a + p
  BY SMTT(30)
<1> DEFINE pa == p * a
           pb == p * b
           pc == p * (a + 1)
<1>7. /\ pa \in Int /\ pb \in Int /\ pc = pa + p /\ n = pa + r /\ n + p = pb + s
      /\ (a + 1 < b => pc + p <= pb) /\ (b < a + 1 => pb + p <= pc) /\ (b = a + 1 => pb = pc)
  BY <1>3, <1>4, <1>5, <1>6
<1> HIDE DEF pa, pb, pc
<1>8. r = s
  BY <1>1, <1>2, <1>7
<1> QED BY <1>8 DEF r, s

\* The buffer holds one packet more of the largest size than there are records.
LEMMA Sizes ==
  /\ PACKET_BUFFER_SIZE \in Nat \ {0} /\ Largest \in Nat \ {0} /\ BufferSize \in Nat
  /\ MostBytes(PACKET_BUFFER_SIZE) + Largest <= BufferSize
  /\ Largest < BufferSize
<1> DEFINE k == PACKET_BUFFER_SIZE
           m == MaxPacketSize
<1>1. k \in Nat \ {0} /\ m \in Nat \ {0} /\ Room \in Nat \ {0} /\ Room < m /\ m <= (k + 1) * Room
  BY ArchiveAssumption
<1> HIDE DEF k, m
<1>2. (k + 1) * Room = k * Room + Room /\ k * (m - Room) = k * m - k * Room
      /\ k * Room \in Nat /\ k * m \in Nat /\ m * k = k * m
  BY <1>1, SMTT(30)
<1>3. \A x \in Nat \ {0} : k * x >= 1 /\ k * x \in Nat
  BY <1>1, SMTT(30)
<1>4. k * (m - Room) >= 1 /\ k * (m - Room) \in Nat
  BY <1>1, <1>3
<1>5. k * (m - Room) + (m - Room) <= m * k
  BY <1>1, <1>2
<1>6. (m - Room) < m * k /\ m * k \in Nat
  BY <1>1, <1>2, <1>4, <1>5
<1> QED BY <1>1, <1>5, <1>6 DEF k, m, MostBytes, Largest, BufferSize

\* One packet more takes the largest size more.
LEMMA MostStep ==
  ASSUME NEW k \in Nat
  PROVE  /\ MostBytes(k) \in Nat /\ MostBytes(k + 1) = MostBytes(k) + Largest
         /\ k <= PACKET_BUFFER_SIZE => MostBytes(k) + Largest <= BufferSize
<1> DEFINE l == Largest
           q == PACKET_BUFFER_SIZE
<1>1. l \in Nat /\ q \in Nat /\ q * l + l <= BufferSize /\ BufferSize \in Nat
  BY Sizes DEF MostBytes
<1> HIDE DEF l, q
<1>2. k * l \in Nat /\ (k + 1) * l = k * l + l /\ q * l \in Nat
  BY <1>1, SMTT(30)
<1>3. k <= q => k * l <= q * l
  BY <1>1, SMTT(30)
<1> QED BY <1>1, <1>2, <1>3 DEF MostBytes, l, q

-------------------------------------------------------------------------------
(* What the archive holds.                                                 *)

\* A cleared archive, and an empty one, holds nothing.
LEMMA NothingHeld ==
  ASSUME NEW a \in ArchiveType, a.sequenceNumber = 0,
         \A i \in 0..(PACKET_BUFFER_SIZE - 1) : a.records[i].sequenceNumber = 0
  PROVE  Holds(a, <<>>)
<1>1. Kept(a) = {}
  BY DEF Kept
<1>2. \A i \in 0..(PACKET_BUFFER_SIZE - 1) : LastOfItsKind(a, i)
  BY DEF LastOfItsKind
<1> QED BY <1>1, <1>2 DEF Holds

LEMMA EmptyHolds == Holds(Empty, <<>>)
<1>1. Empty \in ArchiveType
  BY Sizes DEF Empty, NoRecord, None, ArchiveType
<1>2. /\ Empty.sequenceNumber = 0
      /\ \A i \in 0..(PACKET_BUFFER_SIZE - 1) : Empty.records[i].sequenceNumber = 0
  BY DEF Empty, NoRecord
<1> QED BY <1>1, <1>2, NothingHeld

LEMMA ClearHolds == ASSUME NEW a \in ArchiveType PROVE Holds(Clear(a), <<>>)
<1> DEFINE none == [j \in 0..(PACKET_BUFFER_SIZE - 1) |-> NoRecord]
<1>1. /\ none \in [0..(PACKET_BUFFER_SIZE - 1) -> [position : Nat, size : Nat, sequenceNumber : Nat]]
      /\ \A i \in 0..(PACKET_BUFFER_SIZE - 1) : none[i].sequenceNumber = 0
  BY DEF NoRecord
<1>2. Clear(a) = [a EXCEPT !.sequenceNumber = 0, !.end = 0, !.records = none]
  BY DEF Clear
<1> HIDE DEF none
<1>3. 0 \in 0..(BufferSize - 1)
  BY Sizes
<1>4. Clear(a) \in ArchiveType
  <2>1. none \in [0..(PACKET_BUFFER_SIZE - 1) -> [position : Nat, size : Nat, sequenceNumber : Nat]]
    BY <1>1
  <2>2. Clear(a) = [sequenceNumber |-> 0, end |-> 0, records |-> none, data |-> a.data]
    BY <1>2 DEF ArchiveType
  <2>3. a.data \in [0..(BufferSize - 1) -> Int]
    BY DEF ArchiveType
  <2> QED BY <1>3, <2>1, <2>2, <2>3 DEF ArchiveType
<1>5. Clear(a).sequenceNumber = 0 /\ Clear(a).records = none
  BY <1>2 DEF ArchiveType
<1> QED BY <1>1, <1>4, <1>5, NothingHeld

\* The next packet's bytes start at the end, or at 0 when they would reach
\* the buffer's last byte.
Start(a, p) == IF a.end + p.size >= BufferSize THEN 0 ELSE a.end

\* What storing a packet changes, field by field.
Stores(a, p, b) ==
  /\ b.sequenceNumber = a.sequenceNumber + 1
  /\ b.end = Start(a, p) + p.size
  /\ b.records = [a.records EXCEPT ![a.sequenceNumber % PACKET_BUFFER_SIZE] =
                    [position |-> Start(a, p), size |-> p.size,
                     sequenceNumber |-> a.sequenceNumber]]
  /\ b.data = [c \in DOMAIN a.data |->
                 IF c \in Start(a, p)..(Start(a, p) + p.size - 1) THEN p.id
                 ELSE a.data[c]]

LEMMA StoreFields ==
  ASSUME NEW a \in ArchiveType, NEW p PROVE Stores(a, p, StorePacket(a, p))
<1> DEFINE x == [a EXCEPT !.end = Start(a, p)]
           b == StorePacket(a, p)
<1>1. x = [sequenceNumber |-> a.sequenceNumber, end |-> Start(a, p),
           records |-> a.records, data |-> a.data]
  BY DEF ArchiveType
<1>2. /\ x.sequenceNumber = a.sequenceNumber /\ x.end = Start(a, p)
      /\ x.records = a.records /\ x.data = a.data
      /\ x \in [sequenceNumber : {a.sequenceNumber}, end : {Start(a, p)},
                records : {a.records}, data : {a.data}]
  BY <1>1
<1>3. b = StoreWhole(x, p)
  BY DEF StorePacket, Start
<1> HIDE DEF x, b
<1>4. /\ b.sequenceNumber = x.sequenceNumber + 1
      /\ b.end = x.end + p.size
      /\ b.records = [x.records EXCEPT ![x.sequenceNumber % PACKET_BUFFER_SIZE] =
                        [position |-> x.end, size |-> p.size,
                         sequenceNumber |-> x.sequenceNumber]]
      /\ b.data = [c \in DOMAIN x.data |->
                     IF c \in x.end..(x.end + p.size - 1) THEN p.id ELSE x.data[c]]
  BY <1>2, <1>3 DEF StoreWhole
<1>5. Stores(a, p, b)
  BY <1>2, <1>3, <1>4 DEF Stores
<1> QED BY <1>5 DEF b

\* The archive keeps its type: the bytes fit where they start.
LEMMA StoreType ==
  ASSUME NEW a \in ArchiveType, NEW p \in Packets
  PROVE  /\ StorePacket(a, p) \in ArchiveType
         /\ Start(a, p) \in Nat /\ Start(a, p) + p.size < BufferSize
         /\ p.size \in 1..Largest /\ p.id \in Int
<1>1. /\ p.size \in 1..Largest /\ p.id \in Int
      /\ a.end \in 0..(BufferSize - 1) /\ a.sequenceNumber \in Nat
  BY DEF ArchiveType, Packets, PacketSizes, Largest
<1>2. Start(a, p) \in Nat /\ Start(a, p) + p.size < BufferSize
  BY <1>1, Sizes DEF Start
<1> DEFINE start == Start(a, p)
           i == a.sequenceNumber % PACKET_BUFFER_SIZE
           r == [position |-> start, size |-> p.size, sequenceNumber |-> a.sequenceNumber]
           d == [c \in DOMAIN a.data |-> IF c \in start..(start + p.size - 1) THEN p.id ELSE a.data[c]]
           x == [a EXCEPT !.end = start]
<1>3. start \in 0..(BufferSize - 1) /\ start + p.size \in 0..(BufferSize - 1)
      /\ a.sequenceNumber + 1 \in Nat /\ p.size \in Nat
  BY <1>1, <1>2, Sizes
<1>4. d \in [0..(BufferSize - 1) -> Int]
  BY <1>1 DEF ArchiveType
<1>5. x \in ArchiveType /\ x.end = start /\ x.sequenceNumber = a.sequenceNumber
      /\ x.records = a.records /\ x.data = a.data
  <2> HIDE DEF start
  <2> QED BY <1>3 DEF ArchiveType
<1>6. [a.records EXCEPT ![i] = r] \in
        [0..(PACKET_BUFFER_SIZE - 1) -> [position : Nat, size : Nat, sequenceNumber : Nat]]
  <2>1. r \in [position : Nat, size : Nat, sequenceNumber : Nat]
    BY <1>1, <1>2, <1>3
  <2> HIDE DEF i, r
  <2> QED BY <2>1 DEF ArchiveType
<1>7. StorePacket(a, p) = StoreWhole(x, p)
  BY DEF StorePacket, Start
<1>8. StoreWhole(x, p) = [x EXCEPT !.sequenceNumber = a.sequenceNumber + 1,
                                   !.end = start + p.size,
                                   !.records[i] = r, !.data = d]
  BY <1>5 DEF StoreWhole
<1> HIDE DEF x, i, r, d, start
<1>9. [x.records EXCEPT ![i] = r] \in
        [0..(PACKET_BUFFER_SIZE - 1) -> [position : Nat, size : Nat, sequenceNumber : Nat]]
  BY <1>5, <1>6
<1>10. StoreWhole(x, p) \in ArchiveType
  BY <1>3, <1>4, <1>5, <1>8, <1>9 DEF ArchiveType
<1> QED BY <1>1, <1>2, <1>7, <1>10

\* A record keeps to the last packet with its remainder.
LEMMA StoreKeepsLast ==
  ASSUME NEW a, NEW ps, Holds(a, ps), NEW p \in Packets, NEW b, b = StorePacket(a, p),
         NEW i \in 0..(PACKET_BUFFER_SIZE - 1)
  PROVE  LastOfItsKind(b, i)
<1> DEFINE q == PACKET_BUFFER_SIZE
           seq == a.sequenceNumber
           m == a.records[i].sequenceNumber
<1>1. a \in ArchiveType /\ seq \in Nat /\ m \in Nat /\ q \in Nat \ {0} /\ i \in 0..(q - 1)
  BY Sizes DEF Holds, ArchiveType
<1>2. seq % q \in 0..(q - 1) /\ m % q \in 0..(q - 1)
  BY <1>1, Remainder
<1>3. /\ b.sequenceNumber = seq + 1
      /\ b.records = [a.records EXCEPT ![seq % q] =
                        [position |-> Start(a, p), size |-> p.size, sequenceNumber |-> seq]]
  <2>1. Stores(a, p, b)
    BY <1>1, StoreFields
  <2> QED BY <2>1 DEF Stores
<1>4. CASE i = seq % q
  <2>1. b.records[i].sequenceNumber = seq
    BY <1>1, <1>2, <1>3, <1>4 DEF ArchiveType
  <2> HIDE DEF seq, q
  <2>2. seq % q = i /\ seq + 1 <= seq + q
    BY <1>1, <1>4
  <2> QED BY <1>3, <2>1, <2>2 DEF LastOfItsKind, q
<1>5. CASE i # seq % q
  <2>1. b.records[i].sequenceNumber = m
    BY <1>1, <1>2, <1>3, <1>5 DEF ArchiveType
  <2>2. LastOfItsKind(a, i)
    BY DEF Holds
  <2>3. \/ m % q = i /\ seq <= m + q
        \/ m = 0 /\ seq <= i
    BY <2>2 DEF LastOfItsKind
  <2>4. ASSUME m % q = i, seq = m + q PROVE FALSE
    <3>1. (m + q) % q = m % q
      <4> HIDE DEF m, q
      <4> QED BY <1>1, Period
    <3> QED BY <1>5, <2>4, <3>1
  <2>5. ASSUME seq = i PROVE FALSE
    <3>1. \A x \in 0..(q - 1) : x % q = x
      <4> HIDE DEF q
      <4> QED BY <1>1, SMTT(30)
    <3> QED BY <1>1, <1>5, <2>5, <3>1
  <2> HIDE DEF seq, m, q
  <2>6. \/ m % q = i /\ seq + 1 <= m + q
        \/ m = 0 /\ seq + 1 <= i
    BY <1>1, <2>3, <2>4, <2>5
  <2> QED BY <1>3, <2>1, <2>6 DEF LastOfItsKind, q
<1> QED BY <1>4, <1>5

\* The bytes of the packets still kept are not written over.
LEMMA StoreKeepsWhole ==
  ASSUME NEW a, NEW ps, Holds(a, ps), NEW p \in Packets, NEW b, b = StorePacket(a, p),
         NEW n \in Kept(b)
  PROVE  /\ Intact(b, Append(ps, p)[n + 1], n)
         /\ Ahead(b, n) \/ StartedOver(b, n)
<1> DEFINE seq == a.sequenceNumber
           start == Start(a, p)
           size == p.size
           given == Append(ps, p)[n + 1]
<1>1. /\ a \in ArchiveType /\ ps \in Seq(Packets) /\ seq = Len(ps) /\ seq \in Nat
  BY DEF Holds, ArchiveType
<1>3. /\ b \in ArchiveType
      /\ start \in Nat /\ start + size < BufferSize /\ size \in 1..Largest
      /\ a.end \in 0..(BufferSize - 1)
  <2>1. /\ StorePacket(a, p) \in ArchiveType
        /\ Start(a, p) \in Nat /\ Start(a, p) + p.size < BufferSize
        /\ p.size \in 1..Largest
    BY <1>1, StoreType
  <2> QED BY <1>1, <2>1 DEF ArchiveType
<1>4. /\ b.sequenceNumber = seq + 1
      /\ b.end = start + size
      /\ b.records = [a.records EXCEPT ![seq % PACKET_BUFFER_SIZE] =
                        [position |-> start, size |-> size, sequenceNumber |-> seq]]
      /\ b.data = [c \in DOMAIN a.data |->
                     IF c \in start..(start + size - 1) THEN p.id ELSE a.data[c]]
  <2>1. Stores(a, p, b)
    BY <1>1, StoreFields
  <2> QED BY <2>1 DEF Stores
<1>6. \/ start = a.end
      \/ start = 0 /\ a.end + size >= BufferSize
  BY DEF Start
<1> HIDE DEF start
<1>7. n \in 0..seq /\ n + PACKET_BUFFER_SIZE >= seq + 1
  BY <1>1, <1>4 DEF Kept
<1>8. n % PACKET_BUFFER_SIZE \in 0..(PACKET_BUFFER_SIZE - 1)
      /\ seq % PACKET_BUFFER_SIZE \in 0..(PACKET_BUFFER_SIZE - 1)
  BY <1>1, <1>7, Sizes, Remainder
<1>9. \A c \in 0..(BufferSize - 1) :
        b.data[c] = IF c \in start..(start + size - 1) THEN p.id ELSE a.data[c]
  BY <1>1, <1>4 DEF ArchiveType
<1>10. CASE n = seq
  <2>1. RecordOf(b, n) = [position |-> start, size |-> size, sequenceNumber |-> seq]
    BY <1>1, <1>4, <1>8, <1>10 DEF RecordOf, ArchiveType
  <2>2. given = p
    BY <1>1, <1>10
  <2>3. Bytes(b, n) = start..(start + size - 1)
    BY <2>1 DEF Bytes
  <2> HIDE DEF given
  <2>4. Intact(b, given, n)
    BY <1>3, <1>9, <1>10, <2>1, <2>2, <2>3, Sizes DEF Intact
  <2>5. MostBytes(1) = Largest /\ b.sequenceNumber - n = 1
    BY <1>1, <1>4, <1>10, Sizes DEF MostBytes
  <2>6. Ahead(b, n)
    BY <1>3, <1>4, <2>1, <2>5, Sizes DEF Ahead
  <2> QED BY <2>4, <2>6 DEF given
<1>11. CASE n < seq
  <2> DEFINE k == seq - n
             r == RecordOf(a, n)
  <2>1. n \in Kept(a) /\ k \in Nat /\ k + 1 <= PACKET_BUFFER_SIZE /\ k >= 1
    BY <1>1, <1>7, <1>11, Sizes DEF Kept
  <2>2. Intact(a, ps[n + 1], n) /\ (Ahead(a, n) \/ StartedOver(a, n))
    BY <2>1 DEF Holds
  <2>3. RecordOf(b, n) = r /\ r \in [position : Nat, size : Nat, sequenceNumber : Nat]
    <3>1. n % PACKET_BUFFER_SIZE # seq % PACKET_BUFFER_SIZE
      <4>1. /\ n \in Nat /\ seq \in Nat /\ PACKET_BUFFER_SIZE \in Nat \ {0}
            /\ n < seq /\ seq < n + PACKET_BUFFER_SIZE
        BY <1>1, <1>7, <1>11, Sizes
      <4> HIDE DEF seq
      <4> QED BY ONLY <4>1, ModApart
    <3> QED BY <1>1, <1>4, <1>8, <3>1 DEF RecordOf, ArchiveType
  <2>4. given = ps[n + 1] /\ given \in Packets
    BY <1>1, <1>7, <1>11
  <2> HIDE DEF given
  <2>5. Bytes(b, n) = Bytes(a, n) /\ r.size >= 1
    BY <2>2, <2>3, <2>4 DEF Bytes, Intact, Packets, PacketSizes
  <2>6. r.position + r.size <= BufferSize
    <3>1. r.position + r.size - 1 \in Bytes(a, n)
      BY <2>3, <2>5 DEF Bytes
    <3> QED BY <2>2, <2>3, <3>1, Sizes DEF Intact
  <2> DEFINE now == MostBytes(k)
             next == MostBytes(k + 1)
             last == MostBytes(k + 1 + 1)
  <2>7. /\ now \in Nat /\ next = now + Largest /\ last = next + Largest
        /\ next + Largest <= BufferSize
    BY <2>1, MostStep
  <2>8. b.sequenceNumber - n = k + 1
    BY <1>1, <1>4, <1>7
  <2>9. \/ r.position + r.size <= a.end /\ a.end <= r.position + now
        \/ a.end + BufferSize <= r.position + next
    BY <2>2 DEF Ahead, StartedOver
  <2> HIDE DEF now, next, last, k, r, seq
  <2>10. \/ /\ r.position + r.size <= start
            /\ start + size <= r.position + next
         \/ /\ start + size + BufferSize <= r.position + last
            /\ start + size <= r.position
    BY <1>3, <1>6, <2>3, <2>5, <2>6, <2>7, <2>9, Sizes
  <2>11. \A c \in Bytes(a, n) : c \notin start..(start + size - 1)
    BY <1>3, <2>3, <2>10 DEF Bytes, r
  <2>12. Intact(b, given, n)
    BY <1>9, <2>2, <2>3, <2>4, <2>5, <2>11 DEF Intact, r
  <2>13. Ahead(b, n) \/ StartedOver(b, n)
    <3>1. b.end = start + size /\ MostBytes(b.sequenceNumber - n) = next
          /\ MostBytes(b.sequenceNumber - n + 1) = last
      BY <1>4, <2>8 DEF next, last, k, seq
    <3> QED BY <1>3, <2>3, <2>10, <3>1 DEF Ahead, StartedOver, r
  <2> QED BY <2>12, <2>13 DEF given
<1> QED BY <1>1, <1>7, <1>10, <1>11

\* So it holds one packet more.
LEMMA StoreHolds ==
  ASSUME NEW a, NEW ps, Holds(a, ps), NEW p \in Packets
  PROVE  Holds(StorePacket(a, p), Append(ps, p))
<1> DEFINE b == StorePacket(a, p)
           given == Append(ps, p)
<1>1. a \in ArchiveType /\ ps \in Seq(Packets) /\ a.sequenceNumber = Len(ps)
  BY DEF Holds
<1>2. b \in ArchiveType
  BY <1>1, StoreType
<1>3. given \in Seq(Packets) /\ Len(given) = Len(ps) + 1
  BY <1>1
<1>4. b.sequenceNumber = Len(given)
  <2>1. b.sequenceNumber = a.sequenceNumber + 1
    BY <1>1, StoreFields DEF Stores
  <2> QED BY <1>1, <1>3, <2>1
<1>5. \A n \in Kept(b) : Intact(b, given[n + 1], n) /\ (Ahead(b, n) \/ StartedOver(b, n))
  BY StoreKeepsWhole
<1>6. \A i \in 0..(PACKET_BUFFER_SIZE - 1) : LastOfItsKind(b, i)
  BY StoreKeepsLast
<1> HIDE DEF b, given
<1>7. Holds(b, given)
  BY <1>2, <1>3, <1>4, <1>5, <1>6 DEF Holds
<1> QED BY <1>7 DEF b, given

\* What is found is a number still kept.
LEMMA FoundIsKept ==
  ASSUME NEW a, NEW ps, Holds(a, ps), NEW n \in 0..(a.sequenceNumber - 1), Found(a, n)
  PROVE  n \in Kept(a)
<1>1. PICK i \in 0..(PACKET_BUFFER_SIZE - 1) : a.records[i].sequenceNumber = n
  <2>1. a \in ArchiveType /\ n \in Nat
    BY DEF Holds, ArchiveType
  <2>2. n % PACKET_BUFFER_SIZE \in 0..(PACKET_BUFFER_SIZE - 1)
    BY <2>1, Sizes, Remainder
  <2> QED BY <2>1, <2>2 DEF Found, FindPacket, ArchiveType
<1>2. LastOfItsKind(a, i) /\ a.sequenceNumber \in Nat
  BY DEF Holds, ArchiveType
<1> QED BY <1>1, <1>2, Sizes DEF LastOfItsKind, Kept

\* A kept number is found under its own record, and its bytes are its packet's.
LEMMA KeptIsWhole ==
  ASSUME NEW a, NEW ps, Holds(a, ps), NEW n \in Kept(a)
  PROVE  Found(a, n) /\ ReadBack(a, n) = ps[n + 1]
<1> DEFINE r == RecordOf(a, n)
           bytes == {a.data[b] : b \in r.position..(r.position + r.size - 1)}
           given == ps[n + 1]
<1>1. Intact(a, given, n) /\ a \in ArchiveType
  BY DEF Holds
<1>2. FindPacket(a, n) = {n % PACKET_BUFFER_SIZE}
  BY <1>1 DEF FindPacket, Intact, RecordOf
<1>3. n \in Nat /\ n % PACKET_BUFFER_SIZE \in 0..(PACKET_BUFFER_SIZE - 1)
  <2>1. n \in Nat
    BY DEF Kept
  <2> QED BY <2>1, Sizes, Remainder
<1>4. r \in [position : Nat, size : Nat, sequenceNumber : Nat]
  BY <1>1, <1>3 DEF RecordOf, ArchiveType
<1>5. given \in Packets
  BY DEF Holds, Kept
<1> HIDE DEF given
<1>6. bytes = {given.id}
  <2>1. r.size >= 1
    BY <1>1, <1>5 DEF Intact, Packets, PacketSizes
  <2>2. r.position \in Bytes(a, n)
    BY <1>4, <2>1 DEF Bytes
  <2> QED BY <1>1, <2>2 DEF Intact, Bytes
<1>7. (CHOOSE i \in FindPacket(a, n) : TRUE) = n % PACKET_BUFFER_SIZE
  BY <1>2
<1>8. ReadBack(a, n) =
        [id |-> IF \E id \in bytes : bytes = {id} THEN CHOOSE id \in bytes : TRUE ELSE None,
         size |-> r.size]
  BY <1>7 DEF ReadBack, RecordOf
<1>9. (\E id \in bytes : bytes = {id}) /\ (CHOOSE id \in bytes : TRUE) = given.id
  BY <1>6
<1>10. ReadBack(a, n) = [id |-> given.id, size |-> given.size]
  BY <1>1, <1>8, <1>9 DEF Intact
<1> QED BY <1>2, <1>5, <1>10 DEF Found, Packets, given

-------------------------------------------------------------------------------
(* The archive's theorems.                                                 *)

\* What a sequence has after a place grows with it.
LEMMA TailGrows ==
  ASSUME NEW S, NEW s \in Seq(S), NEW e \in S, NEW k \in 0..Len(s)
  PROVE  SubSeq(Append(s, e), k + 1, Len(Append(s, e))) = Append(SubSeq(s, k + 1, Len(s)), e)
<1> DEFINE n == Len(s)
           t == Append(s, e)
           l == SubSeq(t, k + 1, Len(t))
           r == SubSeq(s, k + 1, n)
<1>1. n \in Nat /\ t \in Seq(S) /\ Len(t) = n + 1 /\ t[n + 1] = e
      /\ \A i \in 1..n : t[i] = s[i]
  OBVIOUS
<1>5. k \in 0..n
  OBVIOUS
<1>2. l \in Seq(S) /\ Len(l) = n + 1 - k /\ \A i \in 1..(n + 1 - k) : l[i] = t[k + i]
  <2> HIDE DEF n, t
  <2>1. Len(t) \in Nat /\ k + 1 \in 1..(Len(t) + 1)
    BY <1>1, <1>5
  <2>2. l \in Seq(S) /\ Len(l) = Len(t) - k
    BY <1>1, <2>1
  <2>3. \A i \in 1..(Len(t) - k) : l[i] = t[k + i]
    BY <1>1, <2>1
  <2> QED BY <1>1, <2>2, <2>3
<1>3. r \in Seq(S) /\ Len(r) = n - k /\ \A i \in 1..(n - k) : r[i] = s[k + i]
  BY <1>1
<1> HIDE DEF n, t, l, r
<1>4. Append(r, e) \in Seq(S) /\ Len(Append(r, e)) = n + 1 - k
      /\ \A i \in 1..(n - k) : Append(r, e)[i] = s[k + i]
      /\ Append(r, e)[n + 1 - k] = e
  BY <1>1, <1>3 DEF n
<1>6. \A i \in 1..(n + 1 - k) : l[i] = Append(r, e)[i]
  <2>1. ASSUME NEW i \in 1..(n - k) PROVE l[i] = Append(r, e)[i]
    BY <1>1, <1>2, <1>4, <1>5, <2>1
  <2>2. l[n + 1 - k] = Append(r, e)[n + 1 - k]
    BY <1>1, <1>2, <1>4, <1>5
  <2>3. ASSUME NEW i \in 1..(n + 1 - k) PROVE i \in 1..(n - k) \/ i = n + 1 - k
    BY <1>1, <1>5
  <2> QED BY <2>1, <2>2, <2>3
<1>7. l = Append(r, e)
  BY <1>2, <1>4, <1>6, SeqEqual
<1> QED BY <1>7 DEF l, r, t, n

\* An empty archive keeps nothing yet.
LEMMA ArchiveStart == ArchiveInit => ArchiveInv
<1> SUFFICES ASSUME ArchiveInit PROVE ArchiveInv OBVIOUS
<1>1. Since = <<>> /\ stored \in Seq(Packets) /\ base \in 0..Len(stored)
  BY DEF ArchiveInit, Since
<1> QED BY <1>1, EmptyHolds DEF ArchiveInit, ArchiveInv

\* A cleared one keeps nothing more.
LEMMA ArchiveCleared == ArchiveInv /\ ClearArchive => ArchiveInv'
<1> SUFFICES ASSUME ArchiveInv, ClearArchive PROVE ArchiveInv' OBVIOUS
<1>1. archive \in ArchiveType /\ stored \in Seq(Packets) /\ Len(stored) \in Nat
  BY DEF ArchiveInv, Holds
<1>2. archive' = Clear(archive) /\ stored' = stored /\ base' = Len(stored)
  BY DEF ClearArchive
<1>3. Since' = <<>>
  BY <1>1, <1>2 DEF Since
<1>4. Holds(Clear(archive), <<>>)
  BY <1>1, ClearHolds
<1> QED BY <1>1, <1>2, <1>3, <1>4 DEF ArchiveInv

\* One that is given a packet has it too.
LEMMA ArchiveStored == ASSUME ArchiveInv, NEW size \in PacketSizes, Store(size) PROVE ArchiveInv'
<1> DEFINE p == [id |-> Len(stored), size |-> size]
<1>1. /\ stored \in Seq(Packets) /\ base \in 0..Len(stored) /\ Len(stored) \in Nat
      /\ Len(stored) < MaxStored /\ Holds(archive, Since)
      /\ archive' = StorePacket(archive, p) /\ stored' = Append(stored, p) /\ base' = base
  BY DEF ArchiveInv, Store
<1>2. p \in Packets
  BY <1>1, ArchiveAssumption DEF Packets
<1> HIDE DEF p
<1>3. stored' \in Seq(Packets) /\ base' \in 0..Len(stored')
  BY <1>1, <1>2
<1>4. Since' = Append(Since, p)
  BY <1>1, <1>2, TailGrows DEF Since
<1>5. Holds(StorePacket(archive, p), Append(Since, p))
  BY <1>1, <1>2, StoreHolds
<1> QED BY <1>1, <1>3, <1>4, <1>5 DEF ArchiveInv

\* The count of bytes behind each kept packet is right in every state.
THEOREM ArchiveInvariant == ArchiveSpec => []ArchiveInv
<1>1. ArchiveInv /\ UNCHANGED archiveVars => ArchiveInv'
  BY DEF archiveVars, ArchiveInv, Since
<1>2. ArchiveInv /\ ArchiveNext => ArchiveInv'
  BY ArchiveCleared, ArchiveStored DEF ArchiveNext
<1> QED BY ArchiveStart, <1>1, <1>2, PTL DEF ArchiveSpec

\* Any of the last PACKET_BUFFER_SIZE packets is found and read back whole, for
\* every packet size and number of records the assumption allows.
THEOREM KeptWhole == ArchiveSpec => []LastPacketsWhole
<1>1. ASSUME ArchiveInv, NEW n \in KeptNumbers
      PROVE  Found(archive, n) /\ ReadBack(archive, n) = Given(n)
  <2>1. /\ stored \in Seq(Packets) /\ base \in 0..Len(stored) /\ Len(stored) \in Nat
        /\ Holds(archive, Since)
    BY <1>1 DEF ArchiveInv
  <2>2. Len(Since) = Len(stored) - base /\ n \in 0..(Len(stored) - base - 1)
    BY <2>1 DEF Since, KeptNumbers, Numbers
  <2>3. Since[n + 1] = Given(n)
    BY <2>1, <2>2 DEF Since, Given
  <2>4. n \in Kept(archive)
    BY <2>1, <2>2 DEF Holds, Kept, KeptNumbers
  <2>5. Found(archive, n) /\ ReadBack(archive, n) = Since[n + 1]
    BY <2>1, <2>4, KeptIsWhole
  <2> QED BY <2>3, <2>5
<1>2. ArchiveInv => LastPacketsWhole
  BY <1>1 DEF LastPacketsWhole
<1> QED BY ArchiveInvariant, <1>2, PTL

-------------------------------------------------------------------------------
(* Storing several packets.                                                *)

\* What the recursion in StoreAll has as values.
StoresUpTo(after, a, ps) ==
  /\ after[0] = a
  /\ \A i \in 1..Len(ps) : after[i] = StorePacket(after[i - 1], ps[i])
  /\ StoreAll(a, ps) = after[Len(ps)]

LEMMA StoreAllRuns ==
  ASSUME NEW a \in ArchiveType, NEW ps \in Seq(Packets)
  PROVE  \E after : StoresUpTo(after, a, ps)
<1> DEFINE n == Len(ps)
           in == [i \in 0..n |-> ArchiveType]
           step == [i \in 1..n |-> [x \in ArchiveType |-> StorePacket(x, ps[i])]]
           Runs(f) == f = [i \in 0..n |-> IF i = 0 THEN a ELSE StorePacket(f[i - 1], ps[i])]
           run == CHOOSE f : Runs(f)
<1>1. n \in Nat /\ a \in in[0] /\ \A i \in 1..n : ps[i] \in Packets
  OBVIOUS
<1>2. \A i \in 1..n : \A x \in in[i - 1] : step[i][x] \in in[i]
  <2>1. \A i \in 1..n : \A x \in ArchiveType : StorePacket(x, ps[i]) \in ArchiveType
    BY <1>1, StoreType
  <2> QED BY <1>1, <2>1
<1>3. PICK f : Recursion(f, n, a, step, in)
  <2> HIDE DEF n, in, step
  <2> QED BY <1>1, <1>2, RecursionExists
<1>4. Runs(f)
  <2>1. f = [i \in 0..n |-> IF i = 0 THEN a ELSE step[i][f[i - 1]]]
    BY <1>3 DEF Recursion
  <2>3. \A i \in 0..n : f[i] \in ArchiveType
    BY <1>3 DEF Recursion
  <2>2. ASSUME NEW i \in 1..n PROVE step[i][f[i - 1]] = StorePacket(f[i - 1], ps[i])
    <3>1. f[i - 1] \in ArchiveType
      BY <1>1, <2>3
    <3> QED BY <3>1
  <2> HIDE DEF step
  <2> QED BY <1>1, <2>1, <2>2
<1>5. Runs(run) /\ StoreAll(a, ps) = run[n]
  <2>1. StoreAll(a, ps) = run[n]
    BY DEF StoreAll
  <2> HIDE DEF Runs
  <2> QED BY <1>4, <2>1
<1>6. PICK after : Runs(after) /\ StoreAll(a, ps) = after[n]
  <2> HIDE DEF Runs, run
  <2> QED BY <1>5
<1>7. after[0] = a
  BY <1>1, <1>6
<1>8. ASSUME NEW i \in 1..n PROVE after[i] = StorePacket(after[i - 1], ps[i])
  <2>1. i \in 0..n /\ i # 0
    BY <1>1
  <2> QED BY <1>6, <2>1, Zenon
<1> QED BY <1>6, <1>7, <1>8 DEF StoresUpTo

\* The first i of more packets, after those there are.
First(ps, more, i) == ps \o SubSeq(more, 1, i)

LEMMA FirstGrows ==
  ASSUME NEW S, NEW ps \in Seq(S), NEW more \in Seq(S), NEW i \in 1..Len(more)
  PROVE  First(ps, more, i) = Append(First(ps, more, i - 1), more[i])
<1> DEFINE r == SubSeq(more, 1, i - 1)
           e == more[i]
<1>1. r \in Seq(S) /\ e \in S /\ <<e>> \in Seq(S) /\ ps \o r \in Seq(S)
  OBVIOUS
<1>2. SubSeq(more, 1, i) = r \o <<e>>
  BY SubSeqRecursiveSecond
<1> HIDE DEF r, e
<1>3. ps \o (r \o <<e>>) = (ps \o r) \o <<e>>
  BY <1>1, ConcatAssociative
<1>4. Append(ps \o r, e) = (ps \o r) \o <<e>>
  BY <1>1, AppendIsConcat
<1> QED BY <1>2, <1>3, <1>4 DEF First, r, e

\* Several packets more are held one after the other.
LEMMA StoreAllHolds ==
  ASSUME NEW a, NEW ps, Holds(a, ps), NEW more \in Seq(Packets)
  PROVE  Holds(StoreAll(a, more), ps \o more)
<1> DEFINE n == Len(more)
<1>1. a \in ArchiveType /\ ps \in Seq(Packets) /\ n \in Nat
  BY DEF Holds
<1>2. PICK after : StoresUpTo(after, a, more)
  BY <1>1, StoreAllRuns
<1> DEFINE T == {i \in 0..n : Holds(after[i], First(ps, more, i))}
<1>3. First(ps, more, 0) = ps /\ First(ps, more, n) = ps \o more
  BY <1>1 DEF First
<1>4. 0 \in T
  BY <1>1, <1>2, <1>3 DEF StoresUpTo
<1>5. ASSUME NEW i \in 1..n, i - 1 \in T PROVE i \in T
  <2>1. Holds(after[i - 1], First(ps, more, i - 1)) /\ more[i] \in Packets /\ i \in 0..n
    BY <1>1, <1>5
  <2>2. Holds(StorePacket(after[i - 1], more[i]), Append(First(ps, more, i - 1), more[i]))
    BY <2>1, StoreHolds
  <2>3. after[i] = StorePacket(after[i - 1], more[i])
    BY <1>2 DEF StoresUpTo
  <2>4. First(ps, more, i) = Append(First(ps, more, i - 1), more[i])
    BY <1>1, FirstGrows
  <2> QED BY <2>1, <2>2, <2>3, <2>4
<1> HIDE DEF T
<1>6. 0..n \subseteq T
  BY <1>1, <1>4, <1>5, UpTo
<1>7. Holds(after[n], First(ps, more, n))
  BY <1>1, <1>6 DEF T
<1> QED BY <1>2, <1>3, <1>7 DEF StoresUpTo

-------------------------------------------------------------------------------
(* The stream's invariant, for any limits.                                 *)

\* While the server has the client, its archive holds all that was stored.
StreamInv ==
  /\ TypeInv /\ SentInv /\ ClientInv
  /\ server = "serving" => base = 0 /\ Holds(archive, stored)

\* A request is a sequence of numbers.
LEMMA RequestType == ASSUME NEW r \in Requests PROVE r \in Seq(Nat)
<1>1. PICK k \in 0..(PACKET_BUFFER_SIZE - 1) : r \in [1..k -> 0..MaxWrites]
  BY DEF Requests
<1>2. MaxWrites \in Int
  BY ArchiveAssumption DEF MaxWrites
<1>3. r \in [1..k -> Nat] /\ k \in Nat
  BY <1>1, <1>2, ArchiveAssumption
<1> QED BY <1>3

\* The limit and the bound on writes are numbers, and a packet is a packet.
LEMMA Ranges ==
  /\ Limits \subseteq Nat /\ MaxWrites \in Nat
  /\ ResendTics \in Nat /\ MaxScheduled \in Nat
  /\ \A id \in 0..MaxWrites : Packet(id) \in Packets
<1>1. MaxWrites \in Nat /\ MaxWrites = MaxStored - 1
  BY ArchiveAssumption DEF MaxWrites
<1>2. ASSUME NEW id \in 0..MaxWrites PROVE Packet(id) \in Packets
  BY <1>1, StreamAssumption DEF Packet, Packets
<1> QED BY <1>1, <1>2, StreamAssumption

\* Deleting from a queue's front, whatever number is given.
LEMMA Deleted ==
  ASSUME NEW S, NEW s \in Seq(S), NEW n \in Int, n <= Len(s)
  PROVE  /\ SubSeq(s, 1, n) \in Seq(S)
         /\ DeleteFirst(s, n) \in Seq(S)
         /\ \A i \in DOMAIN DeleteFirst(s, n) : \E j \in DOMAIN s : DeleteFirst(s, n)[i] = s[j]
         /\ \A e \in ToSet(SubSeq(s, 1, n)) : \E j \in DOMAIN s : e = s[j]
<1>1. SubSeq(s, 1, n) \in Seq(S)
  OBVIOUS
<1>2. ASSUME NEW e \in ToSet(SubSeq(s, 1, n)) PROVE \E j \in DOMAIN s : e = s[j]
  <2>1. PICK i \in DOMAIN SubSeq(s, 1, n) : e = SubSeq(s, 1, n)[i]
    BY DEF ToSet
  <2>2. i \in DOMAIN s /\ SubSeq(s, 1, n)[i] = s[i]
    OBVIOUS
  <2> QED BY <2>1, <2>2
<1>3. CASE n < 0
  BY <1>1, <1>2, <1>3 DEF DeleteFirst
<1>4. CASE n >= 0
  <2> DEFINE rest == SubSeq(s, n + 1, Len(s))
  <2>1. DeleteFirst(s, n) = rest
    BY <1>4 DEF DeleteFirst
  <2>2. rest \in Seq(S) /\ Len(rest) = Len(s) - n /\ \A i \in 1..(Len(s) - n) : rest[i] = s[n + i]
    BY <1>4
  <2> HIDE DEF rest
  <2>3. ASSUME NEW i \in DOMAIN rest PROVE \E j \in DOMAIN s : rest[i] = s[j]
    <3>1. i \in 1..(Len(s) - n) /\ n + i \in DOMAIN s
      BY <1>4, <2>2
    <3> QED BY <2>2, <3>1
  <2> QED BY <1>1, <1>2, <2>1, <2>2, <2>3
<1> QED BY <1>3, <1>4

\* The packets ps with others after them.
Extends(qs, ps) ==
  /\ Len(ps) \in Nat /\ Len(qs) \in Nat /\ Len(ps) <= Len(qs)
  /\ \A n \in 1..Len(ps) : qs[n] = ps[n]

LEMMA ConcatExtends ==
  ASSUME NEW ps \in Seq(Packets), NEW more \in Seq(Packets)
  PROVE  /\ ps \o more \in Seq(Packets) /\ Extends(ps \o more, ps)
         /\ Len(ps \o more) = Len(ps) + Len(more)
         /\ \A i \in 1..Len(more) : (ps \o more)[Len(ps) + i] = more[i]
BY DEF Extends

LEMMA ExtendsKeeps ==
  ASSUME NEW ps, NEW qs, Extends(qs, ps), NEW d, IsOf(d, ps)
  PROVE  IsOf(d, qs)
BY DEF Extends, IsOf

\* A copy that is sent again is of the packet stored under its number.
LEMMA CopiesAreOf ==
  ASSUME NEW a, NEW ps, Holds(a, ps), NEW ns, \A n \in ns : n \in 0..(Len(ps) - 1),
         NEW d \in Copies(a, ns)
  PROVE  IsOf(d, ps)
<1>1. PICK n \in ns : Found(a, n) /\ d = [sequence |-> n, body |-> ReadBack(a, n)]
  BY DEF Copies
<1>2. n \in 0..(a.sequenceNumber - 1) /\ a.sequenceNumber = Len(ps)
  BY DEF Holds
<1>3. n \in Kept(a)
  BY <1>1, <1>2, FoundIsKept
<1>4. ReadBack(a, n) = ps[n + 1]
  BY <1>3, KeptIsWhole
<1> QED BY <1>1, <1>2, <1>4 DEF IsOf

\* So is one that is sent for the first time.
LEMMA FreshAreOf ==
  ASSUME NEW a, NEW ps, Holds(a, ps), NEW more \in Seq(Packets), NEW d \in Fresh(a, more)
  PROVE  IsOf(d, ps \o more)
<1>1. PICK i \in 1..Len(more) : d = [sequence |-> a.sequenceNumber + i - 1, body |-> more[i]]
  BY DEF Fresh
<1>2. ps \in Seq(Packets) /\ a.sequenceNumber = Len(ps) /\ Len(ps) \in Nat /\ Len(more) \in Nat
  BY DEF Holds
<1>3. d.sequence = Len(ps) + i - 1 /\ d.body = more[i]
  BY <1>1, <1>2
<1>4. Len(ps \o more) = Len(ps) + Len(more) /\ (ps \o more)[Len(ps) + i] = more[i]
  BY <1>2, ConcatExtends
<1> HIDE DEF IsOf
<1>5. d.sequence \in 0..(Len(ps \o more) - 1) /\ d.sequence + 1 = Len(ps) + i
  BY <1>2, <1>3, <1>4
<1> QED BY <1>3, <1>4, <1>5 DEF IsOf

\* What the server's steps leave to show of what is sent.
LEMMA SentKeeps ==
  ASSUME SentInv, Extends(stored', stored), highest' = highest, requests' \subseteq requests,
         \A d \in net' : d \in net \/ IsOf(d, stored'),
         \A i \in DOMAIN scheduled' : scheduled'[i] \in Nat /\ scheduled'[i] < Len(stored),
         \A r \in requests : r \in Seq(Nat)
  PROVE  SentInv'
<1>1. \A d \in net' : IsOf(d, stored')
  BY ExtendsKeeps DEF SentInv
<1>2. \A r \in requests' : \A i \in DOMAIN r : r[i] < Len(stored')
  BY DEF SentInv, Extends
<1>3. highest' \in None..(Len(stored') - 1) /\ \A i \in DOMAIN scheduled' : scheduled'[i] < Len(stored')
  BY DEF SentInv, Extends, None
<1> QED BY <1>1, <1>2, <1>3 DEF SentInv

\* And of what the client has.
LEMMA ClientKeeps ==
  ASSUME ClientInv, Extends(stored', stored), UNCHANGED clientVars
  PROVE  ClientInv'
<1>1. /\ UNCHANGED <<ring, slots, slot, cursor, lastParsed, client, parsed>>
      /\ Len(stored) \in Nat /\ Len(stored') \in Nat /\ Len(stored) <= Len(stored')
      /\ \A n \in 1..Len(stored) : stored'[n] = stored[n]
  BY DEF clientVars, Extends
<1>2. ASSUME NEW i \in Slots, slots[i].sequence # None PROVE SlotWhole(slots'[i], stored', ring')
  <2>1. SlotWhole(slots[i], stored, ring)
    BY <1>2 DEF ClientInv
  <2>2. /\ slots[i].sequence \in 0..(Len(stored') - 1)
        /\ stored'[slots[i].sequence + 1] = stored[slots[i].sequence + 1]
    BY <1>1, <2>1 DEF SlotWhole
  <2> QED BY <1>1, <2>1, <2>2 DEF SlotWhole
<1>3. Len(parsed) <= Len(stored') /\ \A k \in 1..Len(parsed) : parsed[k] = stored'[k].id
  <2>1. /\ parsed \in Seq(Int) /\ Len(parsed) <= Len(stored)
        /\ \A k \in 1..Len(parsed) : parsed[k] = stored[k].id
    BY DEF ClientInv
  <2>2. Len(parsed) \in Nat
    BY <2>1
  <2> QED BY <1>1, <2>1, <2>2
<1> QED BY <1>1, <1>2, <1>3 DEF ClientInv

-------------------------------------------------------------------------------
(* The steps of the server.                                                *)

\* What a step of the server must leave so that the invariant still holds.
LEMMA ServerKeeps ==
  ASSUME StreamInv, TypeInv', Extends(stored', stored), UNCHANGED clientVars,
         server' = "serving" => base' = 0 /\ Holds(archive', stored'),
         requests' \subseteq requests,
         \A d \in net' : d \in net \/ IsOf(d, stored'),
         \A i \in DOMAIN scheduled' : scheduled'[i] \in Nat /\ scheduled'[i] < Len(stored)
  PROVE  StreamInv'
<1>1. SentInv /\ ClientInv /\ highest' = highest
  BY DEF StreamInv, clientVars
<1>2. \A r \in requests : r \in Seq(Nat)
  BY RequestType DEF StreamInv, TypeInv
<1>3. SentInv'
  BY <1>1, <1>2, SentKeeps
<1>4. ClientInv'
  BY <1>1, ClientKeeps
<1> QED BY <1>3, <1>4 DEF StreamInv

\* The numbers that wait to be sent again, and those of a request.
LEMMA NumbersGiven ==
  ASSUME StreamInv
  PROVE  /\ \A i \in DOMAIN scheduled : scheduled[i] \in 0..(Len(stored) - 1)
         /\ \A r \in requests : \A i \in DOMAIN r : r[i] \in 0..(Len(stored) - 1)
<1>1. scheduled \in Seq(Nat) /\ Len(stored) \in Nat /\ \A r \in requests : r \in Seq(Nat)
  BY RequestType DEF StreamInv, TypeInv
<1>2. \A i \in DOMAIN scheduled : scheduled[i] < Len(stored)
  BY DEF StreamInv, SentInv
<1>3. \A r \in requests : \A i \in DOMAIN r : r[i] < Len(stored)
  BY DEF StreamInv, SentInv
<1>4. \A i \in DOMAIN scheduled : scheduled[i] \in Nat
  BY <1>1
<1>5. \A r \in requests : \A i \in DOMAIN r : r[i] \in Nat
  BY <1>1
<1>6. \A i \in DOMAIN scheduled : scheduled[i] \in 0..(Len(stored) - 1)
  BY <1>1, <1>2, <1>4
<1>7. ASSUME NEW r \in requests, NEW i \in DOMAIN r PROVE r[i] \in 0..(Len(stored) - 1)
  <2>1. r[i] \in Nat /\ r[i] < Len(stored)
    BY <1>3, <1>5
  <2> QED BY <1>1, <2>1
<1> QED BY <1>6, <1>7

\* Writing a packet, at once or into the queue.
LEMMA WriteStep == StreamInv /\ SendClientPacket => StreamInv'
<1> SUFFICES ASSUME StreamInv, SendClientPacket PROVE StreamInv' OBVIOUS
<1> DEFINE p == Packet(written)
<1>1. /\ written \in Nat /\ written < MaxWrites /\ server = "serving"
      /\ stored \in Seq(Packets) /\ unsent \in Seq(Packets)
      /\ base = 0 /\ Holds(archive, stored)
  BY DEF StreamInv, TypeInv, SendClientPacket
<1>2. /\ written' = written + 1
      /\ UNCHANGED <<base, scheduled, limit, server, lowered, clientVars, requests>>
  BY DEF SendClientPacket
<1>3. p \in Packets /\ <<p>> \in Seq(Packets) /\ written + 1 <= MaxWrites
  BY <1>1, Ranges
<1>4. \A i \in DOMAIN scheduled' : scheduled'[i] \in Nat /\ scheduled'[i] < Len(stored)
  BY <1>2, NumbersGiven
<1> HIDE DEF p
<1>5. CASE unsent = <<>> /\ sentThisTick < limit
  <2>1. /\ archive' = StoreAll(archive, <<p>>) /\ stored' = stored \o <<p>>
        /\ sentThisTick' = sentThisTick + 1 /\ unsent' = unsent
        /\ net' = net \cup Fresh(archive, <<p>>)
    BY <1>5 DEF SendClientPacket, ScheduleUnsentPacket, Launch, p
  <2>2. stored' \in Seq(Packets) /\ Extends(stored', stored)
    BY <1>1, <1>3, <2>1, ConcatExtends
  <2>3. Holds(archive', stored')
    BY <1>1, <1>3, <2>1, StoreAllHolds
  <2>4. \A d \in net' : d \in net \/ IsOf(d, stored')
    BY <1>1, <1>3, <2>1, FreshAreOf
  <2>5. TypeInv'
    BY <1>1, <1>2, <1>3, <2>1, <2>2, Ranges DEF StreamInv, TypeInv
  <2> QED BY <1>1, <1>2, <1>4, <2>2, <2>3, <2>4, <2>5, ServerKeeps
<1>6. CASE ~(unsent = <<>> /\ sentThisTick < limit)
  <2>1. unsent' = Append(unsent, p) /\ UNCHANGED <<archive, stored, net, sentThisTick>>
    BY <1>6 DEF SendClientPacket, ScheduleUnsentPacket, p
  <2>2. unsent' \in Seq(Packets)
    BY <1>1, <1>3, <2>1
  <2>3. Extends(stored', stored)
    BY <1>1, <2>1 DEF Extends
  <2>4. TypeInv'
    BY <1>1, <1>2, <1>3, <2>1, <2>2, Ranges DEF StreamInv, TypeInv
  <2>5. requests' \subseteq requests /\ UNCHANGED clientVars /\ net' = net /\ server' = server
    BY <1>2, <2>1
  <2> QED BY <1>1, <1>2, <1>4, <2>1, <2>3, <2>4, <2>5, ServerKeeps
<1> QED BY <1>5, <1>6

\* A kick numbers everything that waits, the notice too, and what it sends again
\* is as it was stored.
LEMMA KickStep ==
  ASSUME StreamInv, server = "serving", NEW asked, NEW sent, KickPlayer(asked, sent),
         \A n \in asked : n \in 0..(Len(stored) - 1),
         UNCHANGED <<limit, clientVars>>, requests' \subseteq requests
  PROVE  StreamInv'
<1> DEFINE notice == Packet(written)
           rest == Append(unsent, notice)
           atOnce == unsent = <<>> /\ sent < limit
           before == IF atOnce THEN StorePacket(archive, notice) ELSE archive
<1>1. /\ stored \in Seq(Packets) /\ unsent \in Seq(Packets) /\ written \in Nat
      /\ written <= MaxWrites /\ Holds(archive, stored) /\ requests \subseteq Requests
  BY DEF StreamInv, TypeInv
<1>2. notice \in Packets
  BY <1>1, Ranges
<1> HIDE DEF notice
<1>3. rest \in Seq(Packets) /\ rest # <<>> /\ Len(rest) = Len(unsent) + 1
  BY <1>1, <1>2
<1>4. /\ server' = "kicked" /\ written' = written + 1
      /\ net' = net \cup Copies(archive, asked) \cup Copies(before, ToSet(scheduled))
                    \cup Fresh(archive, rest)
      /\ stored' = stored \o rest
      /\ unsent' = <<>> /\ scheduled' = <<>> /\ sentThisTick' = 0 /\ lowered' = FALSE
  BY DEF KickPlayer, notice
<1> HIDE DEF rest
<1>5. stored' \in Seq(Packets) /\ Extends(stored', stored)
  BY <1>1, <1>3, <1>4, ConcatExtends
<1>6. ASSUME NEW d \in Copies(archive, asked) PROVE IsOf(d, stored')
  BY <1>1, <1>5, CopiesAreOf, ExtendsKeeps
<1>7. ASSUME NEW d \in Fresh(archive, rest) PROVE IsOf(d, stored')
  BY <1>1, <1>3, <1>4, FreshAreOf
<1>8. ASSUME NEW d \in Copies(before, ToSet(scheduled)) PROVE IsOf(d, stored')
  <2>1. \A n \in ToSet(scheduled) : n \in 0..(Len(stored) - 1)
    BY NumbersGiven DEF ToSet
  <2>2. CASE ~atOnce
    BY <1>1, <1>5, <1>8, <2>1, <2>2, CopiesAreOf, ExtendsKeeps
  <2>3. CASE atOnce
    <3> DEFINE qs == Append(stored, notice)
    <3>1. Holds(before, qs)
      BY <1>1, <1>2, <2>3, StoreHolds
    <3>2. stored' = qs
      <4>1. rest = <<notice>>
        BY <2>3 DEF rest
      <4>2. qs = stored \o <<notice>>
        BY <1>1, <1>2, AppendIsConcat
      <4> QED BY <1>4, <4>1, <4>2
    <3>3. Len(stored) \in Nat /\ Len(qs) = Len(stored) + 1
      BY <1>1, <1>2
    <3> HIDE DEF qs, before
    <3>4. \A n \in ToSet(scheduled) : n \in 0..(Len(qs) - 1)
      BY <2>1, <3>3
    <3>5. IsOf(d, qs)
      BY <1>8, <3>1, <3>4, CopiesAreOf
    <3> QED BY <3>2, <3>5
  <2> QED BY <2>2, <2>3
<1>9. \A d \in net' : d \in net \/ IsOf(d, stored')
  BY <1>4, <1>6, <1>7, <1>8
<1>10. TypeInv'
  <2>1. lowered' \in BOOLEAN
    BY <1>4
  <2> HIDE DEF before, atOnce
  <2> QED BY <1>1, <1>4, <1>5, <2>1 DEF StreamInv, TypeInv
<1>11. server' # "serving" /\ scheduled' = <<>> /\ DOMAIN scheduled' = {} /\ UNCHANGED clientVars
  BY <1>4
<1> QED BY <1>5, <1>9, <1>10, <1>11, ServerKeeps

\* A tick, however the limit stands.
LEMMA TickStep == StreamInv /\ ServerTick => StreamInv'
<1> SUFFICES ASSUME StreamInv, ServerTick PROVE StreamInv' OBVIOUS
<1>1. UNCHANGED <<limit, clientVars, requests>> /\ server = "serving"
  BY DEF ServerTick
<1>2. CASE TickKicks
  <2>1. PICK i \in 1..ResendsNow : KickPlayer({}, sentThisTick + i)
    BY <1>2 DEF TickKicks
  <2> QED BY <1>1, <2>1, KickStep
<1>3. CASE TickSends
  <2> DEFINE now == SubSeq(unsent, 1, UnsentNow)
  <2>1. /\ scheduled \in Seq(Nat) /\ unsent \in Seq(Packets) /\ stored \in Seq(Packets)
        /\ limit \in Nat /\ sentThisTick \in Nat /\ base = 0 /\ Holds(archive, stored)
        /\ Len(scheduled) \in Nat /\ Len(unsent) \in Nat
    BY <1>1, Ranges DEF StreamInv, TypeInv
  <2>2. ResendsNow \in Int /\ ResendsNow <= Len(scheduled)
    BY <2>1 DEF ResendsNow, Least
  <2>3. UnsentNow \in Int /\ UnsentNow <= Len(unsent)
    BY <2>1, <2>2 DEF UnsentNow, Least, Most
  <2>4. /\ scheduled' = DeleteFirst(scheduled, ResendsNow)
        /\ archive' = StoreAll(archive, now) /\ stored' = stored \o now
        /\ net' = net \cup Copies(archive, ResentNow) \cup Fresh(archive, now)
        /\ unsent' = DeleteFirst(unsent, UnsentNow)
        /\ sentThisTick' = 0 /\ lowered' = FALSE /\ UNCHANGED <<base, server, written>>
    BY <1>3 DEF TickSends, Launch
  <2>5. now \in Seq(Packets) /\ unsent' \in Seq(Packets)
    BY <2>1, <2>3, <2>4, Deleted
  <2> HIDE DEF now
  <2>6. /\ scheduled' \in Seq(Nat)
        /\ \A i \in DOMAIN scheduled' : \E j \in DOMAIN scheduled : scheduled'[i] = scheduled[j]
        /\ \A n \in ResentNow : \E j \in DOMAIN scheduled : n = scheduled[j]
    BY <2>1, <2>2, <2>4, Deleted DEF ResentNow
  <2>7. \A j \in DOMAIN scheduled : scheduled[j] \in 0..(Len(stored) - 1)
    BY NumbersGiven
  <2>8. stored' \in Seq(Packets) /\ Extends(stored', stored)
    BY <2>1, <2>4, <2>5, ConcatExtends
  <2>9. Holds(archive', stored')
    BY <2>1, <2>4, <2>5, StoreAllHolds
  <2>10. ASSUME NEW d \in Copies(archive, ResentNow) PROVE IsOf(d, stored')
    <3>1. \A n \in ResentNow : n \in 0..(Len(stored) - 1)
      BY <2>6, <2>7
    <3> QED BY <2>1, <2>8, <3>1, CopiesAreOf, ExtendsKeeps
  <2>11. \A d \in net' : d \in net \/ IsOf(d, stored')
    BY <2>1, <2>4, <2>5, <2>10, FreshAreOf
  <2>12. TypeInv'
    BY <1>1, <2>4, <2>5, <2>6, <2>8 DEF StreamInv, TypeInv
  <2>13. \A i \in DOMAIN scheduled' : scheduled'[i] \in Nat /\ scheduled'[i] < Len(stored)
    <3>1. ASSUME NEW i \in DOMAIN scheduled'
          PROVE  scheduled'[i] \in Nat /\ scheduled'[i] < Len(stored)
      <4>1. PICK j \in DOMAIN scheduled : scheduled'[i] = scheduled[j]
        BY <2>6
      <4>2. scheduled[j] \in 0..(Len(stored) - 1) /\ Len(stored) \in Nat
        BY <2>1, <2>7
      <4> QED BY <4>1, <4>2
    <3> QED BY <3>1
  <2>14. base' = 0 /\ requests' \subseteq requests /\ UNCHANGED clientVars
    BY <1>1, <2>1, <2>4
  <2> QED BY <2>8, <2>9, <2>11, <2>12, <2>13, <2>14, ServerKeeps
<1> QED BY <1>2, <1>3 DEF ServerTick

\* A request that is heard queues numbers, drops them or ends in a kick.
LEMMA RequestStep == ASSUME StreamInv, NEW ns \in requests, MissingPacket(ns) PROVE StreamInv'
<1>1. /\ ns \in Seq(Nat) /\ server = "serving" /\ requests' \subseteq requests
      /\ UNCHANGED <<limit, clientVars>>
  BY RequestType DEF MissingPacket, StreamInv, TypeInv
<1>2. \A i \in DOMAIN ns : ns[i] \in 0..(Len(stored) - 1)
  BY NumbersGiven
<1>3. /\ stored \in Seq(Packets) /\ scheduled \in Seq(Nat) /\ limit \in Nat
      /\ sentThisTick \in Nat /\ base = 0 /\ Holds(archive, stored) /\ Len(ns) \in Nat
      /\ requests \subseteq Requests
  BY <1>1, Ranges DEF StreamInv, TypeInv
<1>4. \A i \in DOMAIN scheduled : scheduled[i] \in Nat /\ scheduled[i] < Len(stored)
  BY <1>3, NumbersGiven
<1>5. CASE IgnoreRequest
  <2>1. UNCHANGED <<archive, stored, base, unsent, scheduled, sentThisTick, server, written, lowered, net>>
    BY <1>5 DEF IgnoreRequest, outVars, archiveVars
  <2>2. TypeInv'
    BY <1>1, <1>3, <2>1 DEF StreamInv, TypeInv
  <2>3. Extends(stored', stored) /\ base' = 0 /\ Holds(archive', stored')
    BY <1>3, <2>1 DEF Extends
  <2> QED BY <1>1, <1>4, <2>1, <2>2, <2>3, ServerKeeps
<1>6. CASE ResendAsked(ns)
  <2> DEFINE atOnce == IF scheduled = <<>> THEN Least(Most(limit - sentThisTick, 0), Len(ns)) ELSE 0
             later == SubSeq(ns, atOnce + 1, Len(ns))
  <2>1. atOnce \in 0..Len(ns)
    BY <1>3 DEF Least, Most
  <2>2. /\ net' = net \cup Copies(archive, ToSet(SubSeq(ns, 1, atOnce)))
        /\ sentThisTick' = sentThisTick + atOnce
        /\ scheduled' = scheduled \o later
        /\ UNCHANGED <<archiveVars, unsent, server, written, lowered>>
    BY <1>6 DEF ResendAsked
  <2> HIDE DEF atOnce
  <2>3. later \in Seq(Nat) /\ Len(later) = Len(ns) - atOnce
        /\ \A i \in 1..(Len(ns) - atOnce) : later[i] = ns[atOnce + i]
    BY <1>1, <1>3, <2>1
  <2>4. \A n \in ToSet(SubSeq(ns, 1, atOnce)) : n \in 0..(Len(stored) - 1)
    BY <1>1, <1>2, <1>3, <2>1, Deleted
  <2>5. \A i \in DOMAIN later : later[i] \in Nat /\ later[i] < Len(stored)
    <3>1. ASSUME NEW i \in DOMAIN later PROVE later[i] \in Nat /\ later[i] < Len(stored)
      <4>1. i \in 1..(Len(ns) - atOnce) /\ atOnce + i \in DOMAIN ns
        BY <1>1, <1>3, <2>1, <2>3
      <4>2. ns[atOnce + i] \in 0..(Len(stored) - 1) /\ Len(stored) \in Nat
        BY <1>2, <1>3, <4>1
      <4> QED BY <2>3, <4>1, <4>2
    <3> QED BY <3>1
  <2> HIDE DEF later
  <2>6. /\ scheduled' \in Seq(Nat)
        /\ \A i \in DOMAIN scheduled' : scheduled'[i] \in Nat /\ scheduled'[i] < Len(stored)
    BY <1>3, <1>4, <2>2, <2>3, <2>5, SMTT(30)
  <2>7. \A d \in net' : d \in net \/ IsOf(d, stored')
    BY <1>3, <2>2, <2>4, CopiesAreOf DEF archiveVars
  <2>8. TypeInv'
    <3>1. sentThisTick' \in Nat
      BY <1>3, <2>1, <2>2
    <3> QED BY <1>1, <1>3, <2>2, <2>6, <3>1 DEF StreamInv, TypeInv, archiveVars
  <2>9. Extends(stored', stored) /\ base' = 0 /\ Holds(archive', stored')
    BY <1>3, <2>2 DEF Extends, archiveVars
  <2> QED BY <1>1, <2>6, <2>7, <2>8, <2>9, ServerKeeps
<1>7. CASE KickForLost(ns)
  <2>1. PICK i \in DOMAIN ns :
          KickPlayer(ToSet(SubSeq(ns, 1, i - 1)), sentThisTick + IF scheduled = <<>> THEN i ELSE 0)
    BY <1>7 DEF KickForLost
  <2>2. i - 1 \in Int /\ i - 1 <= Len(ns)
    BY <1>1
  <2>3. \A n \in ToSet(SubSeq(ns, 1, i - 1)) : n \in 0..(Len(stored) - 1)
    BY <1>1, <1>2, <2>2, Deleted
  <2> QED BY <1>1, <2>1, <2>3, KickStep
<1> QED BY <1>5, <1>6, <1>7 DEF MissingPacket

-------------------------------------------------------------------------------
(* The steps of the client.                                                *)

\* As many slots as there are cannot have all of one number more.
LEMMA SomeMissing ==
  ASSUME NEW in, NEW low \in Nat
  PROVE  \E m \in low..(low + PACKET_BUFFER_SIZE) : m \notin {in[i].sequence : i \in Slots}
<1> DEFINE q == PACKET_BUFFER_SIZE
           f == [i \in Slots |-> in[i].sequence]
           has == {in[i].sequence : i \in Slots}
           wanted == low..(low + q)
<1>1. q \in Nat \ {0} /\ Slots = 0..(q - 1)
  BY Sizes DEF Slots
<1>2. IsFiniteSet(Slots) /\ Cardinality(Slots) = q
  BY <1>1, FS_Interval
<1>3. f \in Surjection(Slots, has)
  BY DEF Surjection
<1>4. IsFiniteSet(has) /\ Cardinality(has) <= q
  <2> HIDE DEF f, has, q
  <2> QED BY <1>2, <1>3, FS_Surjection
<1>5. IsFiniteSet(wanted) /\ Cardinality(wanted) = q + 1
  BY <1>1, FS_Interval
<1> SUFFICES ASSUME wanted \subseteq has PROVE FALSE
  OBVIOUS
<1>6. Cardinality(wanted) <= Cardinality(has)
  <2> HIDE DEF wanted, has
  <2> QED BY <1>4, FS_Subset
<1>7. Cardinality(has) \in Nat
  <2> HIDE DEF has
  <2> QED BY <1>4, FS_CardinalityType
<1> HIDE DEF wanted, has, q
<1> QED BY <1>1, <1>4, <1>5, <1>6, <1>7

\* The last number that is there with all before it.
LEMMA LastInRow ==
  ASSUME NEW has, NEW k \in Nat, NEW low \in Nat, \E m \in low..(low + k) : m \notin has
  PROVE  \E n \in (low - 1)..(low - 1 + k) : (\A m \in low..n : m \in has) /\ n + 1 \notin has
<1> DEFINE S == {m \in Nat : low <= m /\ m \notin has}
<1>1. S \subseteq Nat /\ S # {}
  OBVIOUS
<1> HIDE DEF S
<1>2. PICK n \in S : \A m \in S : n <= m
  BY <1>1, Smallest
<1>3. n \in Nat /\ low <= n /\ n \notin has
  BY <1>2 DEF S
<1>4. n <= low + k
  BY <1>2 DEF S
<1>5. \A m \in low..(n - 1) : m \in has
  <2>1. ASSUME NEW m \in low..(n - 1), m \notin has PROVE FALSE
    <3>1. m \in S
      BY <1>3, <2>1 DEF S
    <3> QED BY <1>2, <1>3, <3>1
  <2> QED BY <2>1
<1>6. n - 1 \in (low - 1)..(low - 1 + k) /\ (n - 1) + 1 = n
  BY <1>3, <1>4
<1> QED BY <1>3, <1>5, <1>6

\* Storing a received packet leaves whole whatever slots keep their number: the
\* ring has room for any packet, and a slot that loses bytes loses its number.
LEMMA ReceivedWhole ==
  ASSUME StreamInv, NEW d, IsOf(d, stored), StoreReceived(d), UNCHANGED stored
  PROVE  /\ ring' \in [0..(RingSize - 1) -> Int] /\ cursor' \in Nat /\ slot' \in Slots
         /\ slots' \in [Slots -> [begin : Nat, size : Nat, sequence : Int]]
         /\ \A i \in Slots : slots'[i].sequence # None => SlotWhole(slots'[i], stored', ring')
         /\ highest' \in None..(Len(stored) - 1)
<1> DEFINE p == stored[d.sequence + 1]
           size == d.body.size
           begin == Begin(size)
           kept == [i \in Slots |->
                      IF i # slot /\ slots[i].sequence # None /\ Overwrites(slots[i], begin, size)
                      THEN [slots[i] EXCEPT !.sequence = None] ELSE slots[i]]
           put == [begin |-> begin, size |-> size, sequence |-> d.sequence]
           Entries == [begin : Nat, size : Nat, sequence : Int]
<1>1. /\ stored \in Seq(Packets) /\ ring \in [0..(RingSize - 1) -> Int] /\ cursor \in Nat
      /\ slot \in Slots /\ slots \in [Slots -> Entries] /\ Len(stored) \in Nat
      /\ highest \in None..(Len(stored) - 1)
  BY DEF StreamInv, TypeInv, ClientInv, SentInv
<1>2. /\ d.sequence \in 0..(Len(stored) - 1) /\ d.body = p /\ p \in Packets
  BY <1>1 DEF IsOf
<1> HIDE DEF p
<1>3. /\ size = p.size /\ size \in Nat /\ size >= 1 /\ size <= RingSize - 1 /\ p.id \in Int
      /\ RingSize \in Nat /\ d.body.id = p.id
  <2>1. p.size \in PacketSizes /\ p.id \in Int
    BY <1>2 DEF Packets
  <2>2. /\ MaxPacketSize \in Nat /\ Room \in Nat \ {0} /\ Room < MaxPacketSize
        /\ RingSize \in Nat /\ MaxPacketSize <= RingSize
    BY StreamAssumption, ArchiveAssumption
  <2>3. p.size \in Nat /\ p.size >= 1 /\ p.size <= RingSize - 1
    BY <2>1, <2>2 DEF PacketSizes
  <2>4. d.body.size = p.size /\ d.body.id = p.id
    BY <1>2
  <2> QED BY <2>1, <2>2, <2>3, <2>4
<1>4. begin \in Nat /\ begin + size <= RingSize
  BY <1>1, <1>3, SMTT(30) DEF Begin
<1>5. /\ slots' = [kept EXCEPT ![slot] = put]
      /\ ring' = [b \in DOMAIN ring |-> IF b \in begin..(begin + size - 1) THEN d.body.id ELSE ring[b]]
      /\ cursor' = begin + size
      /\ highest' = Most(highest, d.sequence)
      /\ slot' = (slot + 1) % PACKET_BUFFER_SIZE
  BY DEF StoreReceived, PutReceived
<1> HIDE DEF begin, size
<1>6. /\ DOMAIN ring = 0..(RingSize - 1) /\ DOMAIN ring' = 0..(RingSize - 1)
      /\ \A b \in 0..(RingSize - 1) :
           ring'[b] = IF b \in begin..(begin + size - 1) THEN p.id ELSE ring[b]
  BY <1>1, <1>3, <1>5
<1>7. ring' \in [0..(RingSize - 1) -> Int]
  BY <1>1, <1>3, <1>5
<1>8. slot' \in Slots
  <2>1. slot + 1 \in Nat /\ PACKET_BUFFER_SIZE \in Nat \ {0}
    BY <1>1, Sizes DEF Slots
  <2> DEFINE k == slot + 1
  <2> HIDE DEF k
  <2>2. k % PACKET_BUFFER_SIZE \in 0..(PACKET_BUFFER_SIZE - 1)
    BY <2>1, Remainder DEF k
  <2> QED BY <1>5, <2>2 DEF k, Slots
<1>9. highest' \in None..(Len(stored) - 1)
  BY <1>1, <1>2, <1>5 DEF Most, None
<1>10. ASSUME NEW i \in Slots
       PROVE  /\ slots[i] \in Entries /\ [slots[i] EXCEPT !.sequence = None] \in Entries
              /\ [slots[i] EXCEPT !.sequence = None].sequence = None
  <2> DEFINE s == slots[i]
  <2>1. s \in Entries
    BY <1>1
  <2> HIDE DEF s
  <2>2. [s EXCEPT !.sequence = None] \in Entries /\ [s EXCEPT !.sequence = None].sequence = None
    BY <2>1 DEF None
  <2> QED BY <2>1, <2>2 DEF s
<1>11. kept \in [Slots -> Entries] /\ put \in Entries
  <2>1. kept \in [Slots -> Entries]
    BY <1>10
  <2>2. put \in Entries
    BY <1>2, <1>3, <1>4
  <2> QED BY <2>1, <2>2
<1>12. /\ slots' \in [Slots -> Entries] /\ slots'[slot] = put
       /\ \A i \in Slots : i # slot => slots'[i] = kept[i]
  <2> HIDE DEF kept, put
  <2> QED BY <1>1, <1>5, <1>11
<1>13. SlotWhole(slots'[slot], stored', ring')
  <2>1. \A b \in begin..(begin + size - 1) : b \in DOMAIN ring' /\ ring'[b] = p.id
    BY <1>3, <1>4, <1>6
  <2>2. /\ slots'[slot].begin = begin /\ slots'[slot].size = size
        /\ slots'[slot].sequence = d.sequence
    BY <1>12
  <2> HIDE DEF put, kept
  <2> DEFINE s == slots'[slot]
  <2>3. /\ s.sequence \in 0..(Len(stored') - 1) /\ s.size = stored'[s.sequence + 1].size
        /\ \A b \in s.begin..(s.begin + s.size - 1) :
             b \in DOMAIN ring' /\ ring'[b] = stored'[s.sequence + 1].id
    BY <1>2, <1>3, <2>1, <2>2 DEF p
  <2>4. slot \in Slots
    BY <1>1
  <2> QED BY <2>3 DEF SlotWhole
<1>14. ASSUME NEW i \in Slots, i # slot, slots'[i].sequence # None PROVE SlotWhole(slots'[i], stored', ring')
  <2>1. slots'[i] = kept[i]
    BY <1>12, <1>14
  <2>2. /\ slots[i].sequence # None /\ slots'[i] = slots[i]
        /\ ~Overwrites(slots[i], begin, size)
    <3>1. [slots[i] EXCEPT !.sequence = None].sequence = None
      BY <1>10
    <3> QED BY <1>14, <2>1, <3>1
  <2> DEFINE s == slots[i]
  <2>3. SlotWhole(s, stored, ring)
    BY <2>2 DEF StreamInv, ClientInv
  <2>4. s \in Entries /\ stored[s.sequence + 1] \in Packets
    BY <1>1, <2>3 DEF SlotWhole
  <2>5. s.size \in Nat /\ s.size >= 1 /\ s.begin \in Nat
    BY <2>3, <2>4 DEF SlotWhole, Packets, PacketSizes
  <2>6. \A b \in s.begin..(s.begin + s.size - 1) : b \notin begin..(begin + size - 1)
    BY <1>3, <1>4, <2>2, <2>5 DEF Overwrites
  <2>7. \A b \in s.begin..(s.begin + s.size - 1) :
          b \in DOMAIN ring' /\ ring'[b] = stored[s.sequence + 1].id
    BY <1>6, <2>3, <2>6 DEF SlotWhole
  <2> QED BY <2>2, <2>3, <2>7 DEF SlotWhole
<1>15. \A i \in Slots : slots'[i].sequence # None => SlotWhole(slots'[i], stored', ring')
  <2> SUFFICES ASSUME NEW i \in Slots, slots'[i].sequence # None PROVE SlotWhole(slots'[i], stored', ring')
    OBVIOUS
  <2>1. CASE i = slot
    BY <1>13, <2>1
  <2>2. CASE i # slot
    BY <1>14, <2>2
  <2> QED BY <2>1, <2>2
<1>16. cursor' \in Nat
  BY <1>3, <1>4, <1>5
<1> HIDE DEF kept, put
<1> QED BY <1>7, <1>8, <1>9, <1>12, <1>15, <1>16


\* What the client reads out of a slot that is whole.
ContentOf(n, received, in) ==
  LET at == in[CHOOSE i \in Slots : in[i].sequence = n]
      bytes == {received[b] : b \in at.begin..(at.begin + at.size - 1)}
  IN  IF \E id \in bytes : bytes = {id} THEN CHOOSE id \in bytes : TRUE ELSE None

LEMMA ContentIsStored ==
  ASSUME NEW ps \in Seq(Packets), NEW in \in [Slots -> [begin : Nat, size : Nat, sequence : Int]],
         NEW received, \A i \in Slots : in[i].sequence # None => SlotWhole(in[i], ps, received),
         NEW n \in Nat, n \in {in[i].sequence : i \in Slots}
  PROVE  n \in 0..(Len(ps) - 1) /\ ContentOf(n, received, in) = ps[n + 1].id
<1> DEFINE j == CHOOSE i \in Slots : in[i].sequence = n
           at == in[j]
           bytes == {received[b] : b \in at.begin..(at.begin + at.size - 1)}
<1>1. j \in Slots /\ at.sequence = n
  OBVIOUS
<1> HIDE DEF j
<1>2. SlotWhole(at, ps, received)
  BY <1>1 DEF None
<1>3. n \in 0..(Len(ps) - 1) /\ ps[n + 1] \in Packets /\ at.size = ps[n + 1].size
      /\ \A b \in at.begin..(at.begin + at.size - 1) : received[b] = ps[n + 1].id
  BY <1>1, <1>2 DEF SlotWhole
<1>4. at.begin \in Nat /\ at.size \in Nat /\ at.size >= 1
  BY <1>1, <1>3, SMTT(30) DEF Packets, PacketSizes
<1>5. at.begin \in at.begin..(at.begin + at.size - 1)
  BY <1>4
<1>6. bytes = {ps[n + 1].id}
  BY <1>3, <1>5
<1>7. ContentOf(n, received, in) =
        IF \E id \in bytes : bytes = {id} THEN CHOOSE id \in bytes : TRUE ELSE None
  BY DEF ContentOf, j
<1> HIDE DEF bytes
<1> QED BY <1>3, <1>6, <1>7

\* k more of the stored packets are applied.
Applies(t, s, ps, k) == t = s \o [i \in 1..k |-> ps[Len(s) + i].id]

\* The client applies what follows, as it was stored.
LEMMA ParsesStored ==
  ASSUME NEW ps \in Seq(Packets), NEW in \in [Slots -> [begin : Nat, size : Nat, sequence : Int]],
         NEW received, \A i \in Slots : in[i].sequence # None => SlotWhole(in[i], ps, received),
         parsed \in Seq(Int), lastParsed = Len(parsed) - 1, Len(parsed) <= Len(ps),
         ParseAll(received, in)
  PROVE  \E k \in Nat :
           /\ Len(parsed) + k <= Len(ps) /\ lastParsed' = Len(parsed) + k - 1
           /\ Applies(parsed', parsed, ps, k)
<1> DEFINE q == PACKET_BUFFER_SIZE
           has == {in[i].sequence : i \in Slots}
           m == Len(parsed)
           EndsRow(n) == (\A x \in (lastParsed + 1)..n : x \in has) /\ n + 1 \notin has
           last == CHOOSE n \in lastParsed..(lastParsed + q) : EndsRow(n)
           k == last - lastParsed
<1>1. m \in Nat /\ q \in Nat /\ lastParsed + 1 = m /\ Len(ps) \in Nat
  BY Sizes
<1>2. \E n \in lastParsed..(lastParsed + q) : EndsRow(n)
  <2> HIDE DEF has, m, q
  <2>1. \E x \in m..(m + q) : x \notin has
    BY <1>1, SomeMissing DEF has, q
  <2>2. \E n \in (m - 1)..(m - 1 + q) : (\A x \in m..n : x \in has) /\ n + 1 \notin has
    BY <1>1, <2>1, LastInRow
  <2>3. m - 1 = lastParsed
    BY <1>1 DEF m
  <2> QED BY <1>1, <2>2, <2>3
<1>3. last \in lastParsed..(lastParsed + q) /\ EndsRow(last)
  <2> HIDE DEF EndsRow, has, q
  <2> QED BY <1>2
<1>4. lastParsed' = last /\ parsed' = parsed \o [i \in 1..k |-> ContentOf(lastParsed + i, received, in)]
  BY DEF ParseAll, ContentOf
<1> HIDE DEF last
<1>5. \A x \in m..last : x \in has
  BY <1>1, <1>3
<1>6. k \in Nat /\ last = m + k - 1
  BY <1>1, <1>3
<1> HIDE DEF k, has, m, EndsRow
<1>7. ASSUME NEW x \in m..last
      PROVE  x \in 0..(Len(ps) - 1) /\ ContentOf(x, received, in) = ps[x + 1].id
  <2>1. x \in has /\ x \in Nat
    BY <1>1, <1>3, <1>5
  <2> QED BY <2>1, ContentIsStored DEF has
<1>8. m + k <= Len(ps)
  <2>1. CASE k = 0
    BY <1>1, <2>1 DEF m
  <2>2. CASE k # 0
    <3>1. last \in m..last
      BY <1>1, <1>6, <2>2
    <3> QED BY <1>1, <1>6, <1>7, <3>1
  <2> QED BY <2>1, <2>2
<1>9. \A i \in 1..k : ContentOf(lastParsed + i, received, in) = ps[m + i].id
  <2> SUFFICES ASSUME NEW i \in 1..k PROVE ContentOf(lastParsed + i, received, in) = ps[m + i].id
    OBVIOUS
  <2> DEFINE x == lastParsed + i
  <2>1. x \in m..last /\ x + 1 = m + i
    <3>1. lastParsed = m - 1
      BY <1>1 DEF m
    <3>2. x = (m - 1) + i
      BY <3>1
    <3>3. i \in Int /\ 1 <= i /\ i <= k
      BY <1>6
    <3> HIDE DEF x
    <3> QED BY <1>1, <1>6, <3>2, <3>3
  <2> HIDE DEF x
  <2>2. ContentOf(x, received, in) = ps[x + 1].id
    BY <1>7, <2>1
  <2> QED BY <2>1, <2>2 DEF x
<1>10. parsed' = parsed \o [i \in 1..k |-> ps[m + i].id]
  BY <1>4, <1>9
<1>11. Applies(parsed', parsed, ps, k)
  BY <1>10 DEF Applies, m
<1> QED BY <1>4, <1>6, <1>8, <1>11 DEF m

\* What is applied is what is stored first.
IsFirstOf(s, ps) ==
  s \in Seq(Int) /\ Len(s) <= Len(ps) /\ \A i \in 1..Len(s) : s[i] = ps[i].id

LEMMA ParsedGrows ==
  ASSUME NEW ps \in Seq(Packets), NEW s, IsFirstOf(s, ps), NEW k \in Nat, Len(s) + k <= Len(ps),
         NEW t, Applies(t, s, ps, k)
  PROVE  IsFirstOf(t, ps) /\ Len(t) = Len(s) + k
<1> DEFINE m == Len(s)
           more == [i \in 1..k |-> ps[m + i].id]
<1>1. /\ m \in Nat /\ Len(ps) \in Nat /\ \A i \in 1..Len(ps) : ps[i].id \in Int
      /\ s \in Seq(Int) /\ \A i \in 1..m : s[i] = ps[i].id
  <2>1. \A p \in Packets : p.id \in Int
    BY DEF Packets
  <2> QED BY <2>1 DEF IsFirstOf
<1>2. \A i \in 1..k : m + i \in 1..Len(ps)
  BY <1>1
<1>3. more \in Seq(Int) /\ Len(more) = k /\ \A i \in 1..k : more[i] = ps[m + i].id
  BY <1>1, <1>2
<1> HIDE DEF more
<1>4. t = s \o more
  BY DEF more, Applies
<1>5. /\ t \in Seq(Int) /\ Len(t) = m + k
      /\ \A i \in 1..(m + k) : t[i] = IF i <= m THEN s[i] ELSE more[i - m]
  <2>1. /\ s \o more \in Seq(Int) /\ Len(s \o more) = Len(s) + Len(more)
        /\ \A i \in 1..(Len(s) + Len(more)) :
             (s \o more)[i] = IF i <= Len(s) THEN s[i] ELSE more[i - Len(s)]
    BY <1>1, <1>3, ConcatProperties
  <2> QED BY <1>3, <1>4, <2>1
<1>6. \A i \in 1..(m + k) : i > m => i - m \in 1..k /\ m + (i - m) = i
  BY <1>1
<1> HIDE DEF m
<1>7. ASSUME NEW i \in 1..(m + k) PROVE t[i] = ps[i].id
  <2>1. CASE i <= m
    <3>1. i \in 1..m
      BY <1>1, <2>1
    <3> QED BY <1>1, <1>5, <2>1, <3>1
  <2>2. CASE i > m
    <3>1. ~(i <= m)
      BY <1>1, <2>2
    <3>2. more[i - m] = ps[m + (i - m)].id
      BY <1>3, <1>6, <2>2
    <3> QED BY <1>5, <1>6, <2>2, <3>1, <3>2
  <2>3. i <= m \/ i > m
    BY <1>1
  <2> QED BY <2>1, <2>2, <2>3
<1>8. Len(t) <= Len(ps)
  BY <1>5 DEF m
<1> QED BY <1>5, <1>7, <1>8 DEF m, IsFirstOf

\* A packet that arrives is whole in its slot, and what follows is applied.
LEMMA ReceiveStep ==
  ASSUME StreamInv, NEW d \in net, Receive(d)
  PROVE  StreamInv' /\ Len(parsed) <= Len(parsed')
<1>1. /\ stored \in Seq(Packets) /\ IsOf(d, stored) /\ client = "playing"
      /\ lastParsed = Len(parsed) - 1 /\ parsed \in Seq(Int) /\ Len(parsed) <= Len(stored)
      /\ IsFirstOf(parsed, stored)
  BY DEF StreamInv, TypeInv, SentInv, ClientInv, Receive, IsFirstOf
<1>2. /\ UNCHANGED <<archive, stored, base, unsent, scheduled, sentThisTick, limit, server, written, lowered>>
      /\ UNCHANGED <<client, net, requests>>
      /\ ParseAll(ring', slots')
  BY DEF Receive, serverVars, outVars, archiveVars
<1>3. /\ ring' \in [0..(RingSize - 1) -> Int] /\ cursor' \in Nat /\ slot' \in Slots
      /\ slots' \in [Slots -> [begin : Nat, size : Nat, sequence : Int]]
      /\ \A i \in Slots : slots'[i].sequence # None => SlotWhole(slots'[i], stored', ring')
      /\ highest' \in None..(Len(stored) - 1)
  <2>1. CASE d.sequence \in Held
    <3>1. UNCHANGED <<ring, slots, slot, cursor, highest>>
      BY <2>1 DEF Receive
    <3> QED BY <1>2, <3>1 DEF StreamInv, ClientInv, SentInv
  <2>2. CASE d.sequence \notin Held
    <3>1. StoreReceived(d)
      BY <2>2 DEF Receive
    <3> QED BY <1>1, <1>2, <3>1, ReceivedWhole
  <2> QED BY <2>1, <2>2
<1>4. PICK k \in Nat :
        /\ Len(parsed) + k <= Len(stored) /\ lastParsed' = Len(parsed) + k - 1
        /\ Applies(parsed', parsed, stored, k)
  BY <1>1, <1>2, <1>3, ParsesStored
<1>5. IsFirstOf(parsed', stored) /\ Len(parsed') = Len(parsed) + k
  BY <1>1, <1>4, ParsedGrows
<1>6. lastParsed' = Len(parsed') - 1
  BY <1>4, <1>5
<1>7. ClientInv'
  BY <1>2, <1>3, <1>5, <1>6 DEF ClientInv, IsFirstOf
<1>8. SentInv'
  BY <1>2, <1>3 DEF StreamInv, SentInv
<1>9. TypeInv'
  BY <1>2 DEF StreamInv, TypeInv
<1>10. StreamInv'
  BY <1>2, <1>7, <1>8, <1>9 DEF StreamInv
<1>11. Len(parsed) <= Len(parsed')
  <2>1. Len(parsed) \in Nat
    BY <1>1
  <2> QED BY <1>5, <2>1
<1> QED BY <1>10, <1>11

\* The client asks for numbers below the highest it has seen.
LEMMA CheckStep == StreamInv /\ CheckForMissingPackets => StreamInv'
<1> SUFFICES ASSUME StreamInv, CheckForMissingPackets PROVE StreamInv' OBVIOUS
<1>1. /\ UNCHANGED <<archive, stored, base, unsent, scheduled, sentThisTick, limit, server, written, lowered>>
      /\ UNCHANGED <<ring, slots, slot, cursor, parsed, net>>
  BY DEF CheckForMissingPackets, serverVars, outVars, archiveVars
<1>2. stored \in Seq(Packets) /\ Len(stored) \in Nat /\ highest \in None..(Len(stored) - 1)
      /\ requests \subseteq Requests
  BY DEF StreamInv, SentInv, TypeInv
<1>3. /\ highest' \in None..(Len(stored) - 1)
      /\ client' = "playing" => client = "playing" /\ lastParsed' = lastParsed
  BY <1>2 DEF CheckForMissingPackets, CountDown, NothingMissing, GiveUp, AskAgain, None
<1>4. /\ requests' \subseteq Requests
      /\ \A r \in requests' : r \in requests \/ \A i \in DOMAIN r : r[i] < Len(stored)
  <2>1. CASE CountDown \/ NothingMissing \/ GiveUp
    BY <1>2, <2>1 DEF CountDown, NothingMissing, GiveUp
  <2>2. CASE AskAgain
    <3>1. PICK ns \in Requests : ToSet(ns) = Awaited \ Held /\ requests' = requests \cup {ns}
      BY <2>2 DEF AskAgain
    <3>2. \A i \in DOMAIN ns : ns[i] \in Awaited
      BY <3>1 DEF ToSet
    <3>3. \A n \in Awaited : n < Len(stored)
      BY <1>2 DEF Awaited, None
    <3> QED BY <1>2, <3>1, <3>2, <3>3
  <2> QED BY <2>1, <2>2 DEF CheckForMissingPackets
<1>5. TypeInv'
  BY <1>1, <1>4 DEF StreamInv, TypeInv
<1>6. SentInv'
  BY <1>1, <1>3, <1>4 DEF StreamInv, SentInv
<1>7. ClientInv'
  BY <1>1, <1>3 DEF StreamInv, ClientInv
<1> QED BY <1>1, <1>5, <1>6, <1>7 DEF StreamInv

-------------------------------------------------------------------------------
\* Nothing is sent or received at first.
LEMMA StreamStart == Init => StreamInv
<1> SUFFICES ASSUME Init PROVE StreamInv OBVIOUS
<1>1. TypeInv
  <2>1. lowered \in BOOLEAN
    BY DEF Init
  <2> QED BY <2>1, Ranges DEF Init, ArchiveInit, TypeInv
<1>2. SentInv
  BY DEF Init, ArchiveInit, SentInv, None
<1>3. ClientInv
  <2>1. slots \in [Slots -> [begin : Nat, size : Nat, sequence : Int]]
        /\ \A i \in Slots : slots[i].sequence = None
    BY DEF Init, NoSlot, None
  <2>2. ring \in [0..(RingSize - 1) -> Int] /\ slot \in Slots /\ cursor \in Nat
    BY Sizes DEF Init, None, Slots
  <2>3. parsed = <<>> /\ stored = <<>> /\ lastParsed = -1
    BY DEF Init, ArchiveInit, None
  <2> QED BY <2>1, <2>2, <2>3 DEF ClientInv
<1>4. base = 0 /\ Holds(archive, stored)
  BY EmptyHolds DEF Init, ArchiveInit
<1> QED BY <1>1, <1>2, <1>3, <1>4 DEF StreamInv

\* Every step keeps it.
LEMMA StreamNext == StreamInv /\ [Next]_vars => StreamInv'
<1> SUFFICES ASSUME StreamInv, [Next]_vars PROVE StreamInv' OBVIOUS
<1> DEFINE Rest == <<archive, stored, base, unsent, scheduled, sentThisTick, server, written,
                     ring, slots, slot, cursor, lastParsed, highest, client, parsed>>
<1>1. ASSUME UNCHANGED Rest, limit' \in Limits, lowered' \in BOOLEAN, net' \subseteq net, requests' \subseteq requests
      PROVE  StreamInv'
  <2>1. TypeInv'
    BY <1>1 DEF StreamInv, TypeInv
  <2>2. SentInv'
    BY <1>1 DEF StreamInv, SentInv
  <2>3. ClientInv'
    BY <1>1 DEF StreamInv, ClientInv
  <2> QED BY <1>1, <2>1, <2>2, <2>3 DEF StreamInv
<1>2. limit \in Limits /\ lowered \in BOOLEAN
  BY DEF StreamInv, TypeInv
<1> HIDE DEF Rest
<1>3. CASE SendClientPacket BY <1>3, WriteStep
<1>4. CASE ServerTick BY <1>4, TickStep
<1>5. ASSUME NEW l \in Limits, SetMaxPackets(l) PROVE StreamInv'
  BY <1>1, <1>2, <1>5 DEF SetMaxPackets, outVars, archiveVars, clientVars, Rest
<1>6. ASSUME NEW r \in requests, MissingPacket(r) PROVE StreamInv'
  BY <1>6, RequestStep
<1>7. ASSUME NEW r \in requests, LoseRequest(r) PROVE StreamInv'
  BY <1>1, <1>2, <1>7 DEF LoseRequest, serverVars, outVars, archiveVars, clientVars, Rest
<1>8. ASSUME NEW d \in net, Receive(d) PROVE StreamInv'
  BY <1>8, ReceiveStep
<1>9. ASSUME NEW d \in net, LosePacket(d) PROVE StreamInv'
  BY <1>1, <1>2, <1>9 DEF LosePacket, serverVars, outVars, archiveVars, clientVars, Rest
<1>10. CASE CheckForMissingPackets BY <1>10, CheckStep
<1>11. CASE UNCHANGED vars
  BY <1>1, <1>2, <1>11 DEF vars, serverVars, outVars, archiveVars, clientVars, Rest
<1> QED BY <1>3, <1>4, <1>5, <1>6, <1>7, <1>8, <1>9, <1>10, <1>11 DEF Next

\* What is on its way, in the archive, in the ring and applied is what was
\* stored, for every limit, ring and archive, lowered limits among them.
THEOREM StreamInvariant == Spec => []StreamInv
BY StreamStart, StreamNext, PTL DEF Spec

\* A kick of the server's is for a number that is gone: one it was asked for, or
\* one that waited to be sent again, from more than the archive's size ago.  No
\* interleaving of writing, resending and kicking needs a limit for it.
THEOREM KicksOnlyForLost == Spec => KickMeansLost
<1> DEFINE Asked == ToSet(scheduled) \cup UNION {ToSet(r) : r \in requests}
<1>1. ASSUME StreamInv, server = "serving", NEW n \in Nat, n \in 0..(Len(stored) - 1), ~Found(archive, n)
      PROVE  n + PACKET_BUFFER_SIZE < archive.sequenceNumber
  <2>1. Holds(archive, stored)
    BY <1>1 DEF StreamInv
  <2>2. n \in 0..(archive.sequenceNumber - 1) /\ archive.sequenceNumber \in Nat
    BY <1>1, <2>1 DEF Holds, ArchiveType
  <2>3. n \notin Kept(archive)
    BY <1>1, <2>1, KeptIsWhole
  <2> QED BY <2>2, <2>3, Sizes DEF Kept
<1>2. ASSUME StreamInv, [Next]_vars, server = "serving", server' = "kicked"
      PROVE  \E n \in Asked : n + PACKET_BUFFER_SIZE < archive.sequenceNumber
  <2>1. CASE ServerTick
    <3>1. PICK i \in 1..ResendsNow : ~Found(archive, scheduled[i])
      BY <1>2, <2>1 DEF ServerTick, TickSends, TickKicks
    <3>2. scheduled \in Seq(Nat) /\ limit \in Nat /\ sentThisTick \in Nat
      BY <1>2, Ranges DEF StreamInv, TypeInv
    <3>3. i \in DOMAIN scheduled
      BY <3>1, <3>2 DEF ResendsNow, Least
    <3>4. scheduled[i] \in Asked /\ scheduled[i] \in 0..(Len(stored) - 1) /\ scheduled[i] \in Nat
      BY <1>2, <3>2, <3>3, NumbersGiven DEF ToSet
    <3> QED BY <1>1, <1>2, <3>1, <3>4
  <2>2. ASSUME NEW r \in requests, MissingPacket(r)
        PROVE  \E n \in Asked : n + PACKET_BUFFER_SIZE < archive.sequenceNumber
    <3>1. KickForLost(r)
      BY <1>2, <2>2 DEF MissingPacket, IgnoreRequest, ResendAsked
    <3>2. PICK i \in DOMAIN r : ~Found(archive, r[i])
      BY <3>1 DEF KickForLost
    <3>3. r[i] \in 0..(Len(stored) - 1)
      BY <1>2, NumbersGiven
    <3>4. r[i] \in Asked /\ r[i] \in Nat
      BY <3>3 DEF ToSet
    <3> QED BY <1>1, <1>2, <3>2, <3>3, <3>4
  <2>3. ASSUME server' = server PROVE FALSE
    BY <1>2, <2>3
  <2>4. CASE SendClientPacket
    BY <2>3, <2>4 DEF SendClientPacket
  <2>5. ASSUME NEW l \in Limits, SetMaxPackets(l) PROVE FALSE
    BY <2>3, <2>5 DEF SetMaxPackets
  <2>6. ASSUME NEW r \in requests, LoseRequest(r) PROVE FALSE
    BY <2>3, <2>6 DEF LoseRequest, serverVars
  <2>7. ASSUME NEW d \in net, Receive(d) \/ LosePacket(d) PROVE FALSE
    BY <2>3, <2>7 DEF Receive, LosePacket, serverVars
  <2>8. CASE CheckForMissingPackets \/ UNCHANGED vars
    BY <2>3, <2>8 DEF CheckForMissingPackets, vars, serverVars
  <2> QED BY <1>2, <2>1, <2>2, <2>4, <2>5, <2>6, <2>7, <2>8 DEF Next
<1>3. StreamInv /\ [Next]_vars
      => [server = "serving" /\ server' = "kicked"
          => \E n \in Asked : n + PACKET_BUFFER_SIZE < archive.sequenceNumber]_vars
  BY <1>2
<1> QED BY <1>3, StreamInvariant, PTL DEF Spec, KickMeansLost

-------------------------------------------------------------------------------
(* The queue, and what a lowered limit costs it.                           *)

\* Sending the first n of the queue and deleting them loses none.
LEMMA SplitQueue ==
  ASSUME NEW s \in Seq(Packets), NEW t \in Seq(Packets), NEW n \in 0..Len(t)
  PROVE  (s \o SubSeq(t, 1, n)) \o DeleteFirst(t, n) = s \o t
<1> DEFINE l == SubSeq(t, 1, n)
           r == SubSeq(t, n + 1, Len(t))
<1>1. l \in Seq(Packets) /\ r \in Seq(Packets) /\ DeleteFirst(t, n) = r
  BY DEF DeleteFirst
<1>2. l \o r = SubSeq(t, 1, Len(t)) /\ SubSeq(t, 1, Len(t)) = t
  <2>1. 1 \in 1..(Len(t) + 1) /\ n \in (1 - 1)..Len(t) /\ Len(t) \in n..Len(t)
    OBVIOUS
  <2> QED BY <2>1, ConcatAdjacentSubSeq, SubSeqFull
<1> HIDE DEF l, r
<1>3. (s \o l) \o r = s \o (l \o r)
  BY <1>1, ConcatAssociative, SMTT(30)
<1> QED BY <1>1, <1>2, <1>3 DEF l

\* The packets of a queue have numbers.
LEMMA IdsAreNumbers ==
  ASSUME NEW q \in Seq(Packets)
  PROVE  Len(q) \in Nat /\ \A k \in 1..Len(q) : q[k].id \in Nat
<1>1. \A e \in Packets : e.id \in Nat
  BY ArchiveAssumption DEF Packets
<1> QED BY <1>1

\* A packet added after those that wait comes after all.
LEMMA AddToQueue ==
  ASSUME NEW s \in Seq(Packets), NEW t \in Seq(Packets), NEW p \in Packets
  PROVE  s \o Append(t, p) = Append(s \o t, p)
<1> DEFINE one == <<p>>
<1>1. one \in Seq(Packets) /\ s \o t \in Seq(Packets)
  OBVIOUS
<1>2. Append(t, p) = t \o one /\ Append(s \o t, p) = (s \o t) \o one
  BY <1>1, AppendIsConcat
<1> HIDE DEF one
<1>3. s \o (t \o one) = (s \o t) \o one
  BY <1>1, ConcatAssociative, SMTT(30)
<1> QED BY <1>2, <1>3

\* What a step does to the queue: nothing, a packet more at its end, or, with
\* more sent than the limit allows, the loss of all that wait.
Stays == Outgoing' = Outgoing /\ written' = written
Grows == Outgoing' = Append(Outgoing, Packet(written)) /\ written' = written + 1
Falls ==
  /\ sentThisTick > limit /\ unsent' = <<>>
  /\ Outgoing' = stored /\ written' = written

LEMMA WriteGrows == StreamInv /\ SendClientPacket => Grows
<1> SUFFICES ASSUME StreamInv, SendClientPacket PROVE Grows OBVIOUS
<1> DEFINE p == Packet(written)
<1>1. /\ stored \in Seq(Packets) /\ unsent \in Seq(Packets) /\ written \in Nat
      /\ written < MaxWrites /\ written' = written + 1
  BY DEF StreamInv, TypeInv, SendClientPacket
<1>2. p \in Packets
  BY <1>1, Ranges
<1>3. CASE unsent = <<>> /\ sentThisTick < limit
  <2>1. stored' = stored \o <<p>> /\ unsent' = <<>>
    BY <1>3 DEF SendClientPacket, ScheduleUnsentPacket, Launch
  <2> HIDE DEF p
  <2>2. stored \o <<p>> = Append(stored, p) /\ Append(stored, p) \in Seq(Packets)
    BY <1>1, <1>2, AppendIsConcat
  <2>3. Outgoing' = Append(stored, p)
    BY <2>1, <2>2, ConcatEmptySeq DEF Outgoing
  <2>4. Outgoing = stored
    BY <1>1, <1>3, ConcatEmptySeq DEF Outgoing
  <2> QED BY <1>1, <2>3, <2>4 DEF Grows, p
<1>4. CASE ~(unsent = <<>> /\ sentThisTick < limit)
  <2>1. unsent' = Append(unsent, p) /\ stored' = stored
    BY <1>4 DEF SendClientPacket, ScheduleUnsentPacket
  <2> HIDE DEF p
  <2>2. Outgoing' = Append(Outgoing, p)
    BY <1>1, <1>2, <2>1, AddToQueue DEF Outgoing
  <2> QED BY <1>1, <2>2 DEF Grows, p
<1> QED BY <1>3, <1>4

\* A kick's notice comes last.
LEMMA KickGrows ==
  ASSUME StreamInv, server = "serving", NEW asked, NEW sent, KickPlayer(asked, sent)
  PROVE  Grows
<1> DEFINE p == Packet(written)
<1>1. /\ stored \in Seq(Packets) /\ unsent \in Seq(Packets) /\ written \in Nat
      /\ written <= MaxWrites
  BY DEF StreamInv, TypeInv
<1>2. p \in Packets
  BY <1>1, Ranges
<1>3. written' = written + 1 /\ unsent' = <<>> /\ stored' = stored \o Append(unsent, p)
  BY DEF KickPlayer
<1> HIDE DEF p
<1>4. stored' = Append(Outgoing, p) /\ Append(Outgoing, p) \in Seq(Packets)
  BY <1>1, <1>2, <1>3, AddToQueue DEF Outgoing
<1>5. Outgoing' = Append(Outgoing, p)
  BY <1>3, <1>4, ConcatEmptySeq DEF Outgoing
<1> QED BY <1>3, <1>5 DEF Grows, p

\* A tick within the limit deletes what it sends; one that is over it has a
\* negative budget, sends nothing and deletes everything.
LEMMA TickStaysOrFalls == StreamInv /\ TickSends => Stays \/ Falls
<1> SUFFICES ASSUME StreamInv, TickSends PROVE Stays \/ Falls OBVIOUS
<1>1. /\ limit \in Nat /\ sentThisTick \in Nat /\ Len(scheduled) \in Nat /\ Len(unsent) \in Nat
      /\ stored \in Seq(Packets) /\ unsent \in Seq(Packets)
  BY Ranges DEF StreamInv, TypeInv
<1>2. /\ stored' = stored \o SubSeq(unsent, 1, UnsentNow)
      /\ unsent' = DeleteFirst(unsent, UnsentNow) /\ written' = written
  BY DEF TickSends, Launch
<1>3. CASE sentThisTick <= limit
  <2>1. ResendsNow \in Nat /\ ResendsNow <= limit - sentThisTick
    BY <1>1, <1>3 DEF ResendsNow, Least
  <2>2. limit - sentThisTick - Most(ResendsNow, 0) \in Nat
    BY <1>1, <2>1 DEF Most
  <2>3. UnsentNow \in 0..Len(unsent)
    BY <1>1, <2>2 DEF UnsentNow, Least
  <2> QED BY <1>1, <1>2, <2>3, SplitQueue DEF Outgoing, Stays
<1>4. CASE sentThisTick > limit
  <2>1. ResendsNow \in Int /\ ResendsNow < 0
    BY <1>1, <1>4 DEF ResendsNow, Least
  <2>2. UnsentNow \in Int /\ UnsentNow < 0
    BY <1>1, <1>4, <2>1 DEF UnsentNow, Least, Most
  <2>3. SubSeq(unsent, 1, UnsentNow) = <<>> /\ DeleteFirst(unsent, UnsentNow) = <<>>
    BY <1>1, <2>2 DEF DeleteFirst
  <2> QED BY <1>1, <1>2, <1>4, <2>3, ConcatEmptySeq DEF Outgoing, Falls
<1> QED BY <1>1, <1>3, <1>4

\* Every step does one of the three.
LEMMA QueueSteps == StreamInv /\ [Next]_vars => Stays \/ Grows \/ Falls
<1> SUFFICES ASSUME StreamInv, [Next]_vars PROVE Stays \/ Grows \/ Falls OBVIOUS
<1>1. ASSUME UNCHANGED <<stored, unsent, written>> PROVE Stays
  BY <1>1 DEF Outgoing, Stays
<1>2. CASE SendClientPacket BY <1>2, WriteGrows
<1>3. CASE ServerTick
  BY <1>3, KickGrows, TickStaysOrFalls DEF ServerTick, TickKicks
<1>4. ASSUME NEW l \in Limits, SetMaxPackets(l) PROVE Stays
  BY <1>1, <1>4 DEF SetMaxPackets, outVars, archiveVars
<1>5. ASSUME NEW r \in requests, MissingPacket(r) PROVE Stays \/ Grows
  <2>1. CASE IgnoreRequest \/ ResendAsked(r)
    BY <1>1, <2>1 DEF IgnoreRequest, ResendAsked, outVars, archiveVars
  <2>2. CASE KickForLost(r)
    BY <1>5, <2>2, KickGrows DEF KickForLost, MissingPacket
  <2> QED BY <1>5, <2>1, <2>2 DEF MissingPacket
<1>6. ASSUME UNCHANGED serverVars PROVE Stays
  BY <1>1, <1>6 DEF serverVars, outVars, archiveVars
<1>7. ASSUME NEW r \in requests, LoseRequest(r) PROVE Stays
  BY <1>6, <1>7 DEF LoseRequest
<1>8. ASSUME NEW d \in net, Receive(d) \/ LosePacket(d) PROVE Stays
  BY <1>6, <1>8 DEF Receive, LosePacket
<1>9. CASE CheckForMissingPackets \/ UNCHANGED vars
  BY <1>6, <1>9 DEF CheckForMissingPackets, vars
<1> QED BY <1>2, <1>3, <1>4, <1>5, <1>7, <1>8, <1>9 DEF Next

\* The count of packets sent goes over the limit only with a limit lowered
\* below it.
WithinLimit == ~lowered => sentThisTick <= limit

LEMMA LimitNext == StreamInv /\ WithinLimit /\ [Next]_vars => WithinLimit'
<1> SUFFICES ASSUME StreamInv, WithinLimit, [Next]_vars PROVE WithinLimit' OBVIOUS
<1>1. limit \in Nat /\ sentThisTick \in Nat /\ limit' \in Nat /\ lowered \in BOOLEAN
  <2>1. StreamInv'
    BY StreamNext
  <2> QED BY <2>1, Ranges DEF StreamInv, TypeInv
<1>2. ASSUME sentThisTick' = 0 PROVE WithinLimit'
  BY <1>1, <1>2 DEF WithinLimit
<1>3. ASSUME UNCHANGED <<sentThisTick, limit, lowered>> PROVE WithinLimit'
  BY <1>3 DEF WithinLimit
<1>4. CASE SendClientPacket
  BY <1>1, <1>4 DEF SendClientPacket, ScheduleUnsentPacket, WithinLimit
<1>5. CASE ServerTick
  BY <1>2, <1>5 DEF ServerTick, TickSends, TickKicks, KickPlayer
<1>6. ASSUME NEW l \in Limits, SetMaxPackets(l) PROVE WithinLimit'
  <2>1. ASSUME ~lowered' PROVE ~lowered /\ ~(l < sentThisTick)
    BY <1>6, <2>1 DEF SetMaxPackets
  <2>2. limit' = l /\ sentThisTick' = sentThisTick /\ l \in Nat
    BY <1>6, Ranges DEF SetMaxPackets, outVars
  <2>3. ~(l < sentThisTick) => sentThisTick' <= limit'
    BY <1>1, <2>2
  <2> QED BY <2>1, <2>3 DEF WithinLimit
<1>7. ASSUME NEW r \in requests, MissingPacket(r) PROVE WithinLimit'
  <2>1. CASE IgnoreRequest
    BY <1>3, <1>7, <2>1 DEF MissingPacket, IgnoreRequest, outVars
  <2>2. CASE ResendAsked(r)
    <3> DEFINE atOnce == IF scheduled = <<>> THEN Least(Most(limit - sentThisTick, 0), Len(r)) ELSE 0
    <3>1. Len(r) \in Nat
      BY RequestType DEF StreamInv, TypeInv
    <3>2. atOnce \in Nat /\ (sentThisTick <= limit => atOnce <= limit - sentThisTick)
      BY <1>1, <3>1 DEF Least, Most
    <3>3. sentThisTick' = sentThisTick + atOnce /\ UNCHANGED <<limit, lowered>>
      BY <1>7, <2>2 DEF ResendAsked, MissingPacket
    <3> HIDE DEF atOnce
    <3> QED BY <1>1, <3>2, <3>3 DEF WithinLimit
  <2>3. CASE KickForLost(r)
    BY <1>2, <2>3 DEF KickForLost, KickPlayer
  <2> QED BY <1>7, <2>1, <2>2, <2>3 DEF MissingPacket
<1>8. ASSUME UNCHANGED serverVars PROVE WithinLimit'
  BY <1>3, <1>8 DEF serverVars, outVars
<1>9. ASSUME NEW r \in requests, LoseRequest(r) PROVE WithinLimit'
  BY <1>8, <1>9 DEF LoseRequest
<1>10. ASSUME NEW d \in net, Receive(d) \/ LosePacket(d) PROVE WithinLimit'
  BY <1>8, <1>10 DEF Receive, LosePacket
<1>11. CASE CheckForMissingPackets \/ UNCHANGED vars
  BY <1>8, <1>11 DEF CheckForMissingPackets, vars
<1> QED BY <1>4, <1>5, <1>6, <1>7, <1>9, <1>10, <1>11 DEF Next

\* The packets of a queue are the game's, in the order of writing.
Ordered(q, w) ==
  /\ \A k \in 1..Len(q) : q[k] = Packet(q[k].id) /\ q[k].id < w
  /\ \A j, k \in 1..Len(q) : j < k => q[j].id < q[k].id

LEMMA OrderedGrows ==
  ASSUME NEW q \in Seq(Packets), NEW w \in Nat, w <= MaxWrites, Ordered(q, w)
  PROVE  Ordered(Append(q, Packet(w)), w + 1)
<1> DEFINE p == Packet(w)
           more == Append(q, p)
<1>1. p \in Packets /\ p.id = w /\ p = Packet(p.id)
  BY Ranges DEF Packet
<1> HIDE DEF p
<1>2. /\ Len(more) = Len(q) + 1 /\ more[Len(q) + 1] = p /\ Len(q) \in Nat
      /\ \A k \in 1..Len(q) : more[k] = q[k]
  BY <1>1
<1> HIDE DEF more
<1>3. \A k \in 1..Len(q) : q[k].id \in Nat
  BY IdsAreNumbers
<1>4. ASSUME NEW k \in 1..Len(more) PROVE more[k] = Packet(more[k].id) /\ more[k].id < w + 1
  <2>1. CASE k \in 1..Len(q)
    BY <1>2, <1>3, <2>1 DEF Ordered
  <2>2. CASE k = Len(q) + 1
    BY <1>1, <1>2, <2>2
  <2> QED BY <1>2, <2>1, <2>2
<1>5. ASSUME NEW j \in 1..Len(more), NEW k \in 1..Len(more), j < k
      PROVE  more[j].id < more[k].id
  <2>1. j \in 1..Len(q)
    BY <1>2, <1>5
  <2>2. CASE k \in 1..Len(q)
    BY <1>2, <1>5, <2>1, <2>2 DEF Ordered
  <2>3. CASE k = Len(q) + 1
    BY <1>1, <1>2, <2>1, <2>3 DEF Ordered
  <2> QED BY <1>2, <2>2, <2>3
<1> QED BY <1>4, <1>5 DEF Ordered, more, p

\* What is numbered comes first.
LEMMA StoredFirst ==
  ASSUME StreamInv
  PROVE  /\ Outgoing \in Seq(Packets) /\ stored \in Seq(Packets)
         /\ Len(stored) \in Nat /\ Len(Outgoing) \in Nat /\ Len(stored) <= Len(Outgoing)
         /\ \A k \in 1..Len(stored) : Outgoing[k] = stored[k]
<1>1. stored \in Seq(Packets) /\ unsent \in Seq(Packets)
  BY DEF StreamInv, TypeInv
<1>2. Outgoing \in Seq(Packets) /\ Extends(Outgoing, stored)
  BY <1>1, ConcatExtends DEF Outgoing
<1> QED BY <1>1, <1>2 DEF Extends

\* Only for a client it still has does the server write.
LEMMA OnlyServing ==
  ASSUME StreamInv, [Next]_vars, written' # written PROVE written <= MaxWrites
<1>1. server = "serving"
  <2>1. CASE SendClientPacket \/ ServerTick
    BY <2>1 DEF SendClientPacket, ServerTick
  <2>2. ASSUME NEW l \in Limits, SetMaxPackets(l) PROVE FALSE
    BY <2>2 DEF SetMaxPackets
  <2>3. ASSUME NEW r \in requests, MissingPacket(r) PROVE server = "serving"
    BY <2>3 DEF MissingPacket
  <2>4. ASSUME UNCHANGED serverVars PROVE FALSE
    BY <2>4 DEF serverVars
  <2>5. ASSUME NEW r \in requests, LoseRequest(r) PROVE FALSE
    BY <2>4, <2>5 DEF LoseRequest
  <2>6. ASSUME NEW d \in net, Receive(d) \/ LosePacket(d) PROVE FALSE
    BY <2>4, <2>6 DEF Receive, LosePacket
  <2>7. CASE CheckForMissingPackets \/ UNCHANGED vars
    BY <2>4, <2>7 DEF CheckForMissingPackets, vars
  <2> QED BY <2>1, <2>2, <2>3, <2>5, <2>6, <2>7 DEF Next
<1> QED BY <1>1 DEF StreamInv, TypeInv

LEMMA OrderNext ==
  StreamInv /\ Ordered(Outgoing, written) /\ [Next]_vars => Ordered(Outgoing, written)'
<1> SUFFICES ASSUME StreamInv, Ordered(Outgoing, written), [Next]_vars
             PROVE  Ordered(Outgoing', written')
  BY DEF Ordered
<1>1. CASE Stays
  BY <1>1 DEF Stays
<1>2. CASE Grows
  <2>1. Outgoing \in Seq(Packets) /\ written \in Nat
    BY StoredFirst DEF StreamInv, TypeInv
  <2>2. written <= MaxWrites
    <3>1. written # written'
      BY <1>2, <2>1 DEF Grows
    <3> QED BY <3>1, OnlyServing
  <2> QED BY <1>2, <2>1, <2>2, OrderedGrows DEF Grows
<1>3. CASE Falls
  <2>1. /\ Len(stored) \in Nat /\ Len(Outgoing) \in Nat /\ Len(stored) <= Len(Outgoing)
        /\ \A k \in 1..Len(stored) : k \in 1..Len(Outgoing) /\ Outgoing[k] = stored[k]
    BY StoredFirst
  <2>2. Ordered(stored, written)
    BY <2>1 DEF Ordered
  <2> QED BY <1>3, <2>2 DEF Falls
<1> QED BY <1>1, <1>2, <1>3, QueueSteps

\* The queue's invariant, for every limit and every time it is set.
THEOREM QueueInvariant == Spec => [](StreamInv /\ QueueInv)
<1>1. QueueInv <=> WithinLimit /\ Ordered(Outgoing, written)
  BY DEF QueueInv, WithinLimit, Ordered
<1>2. Init => WithinLimit /\ Ordered(Outgoing, written)
  <2> SUFFICES ASSUME Init PROVE WithinLimit /\ Ordered(Outgoing, written) OBVIOUS
  <2>1. stored \o unsent = <<>> /\ sentThisTick = 0 /\ limit \in Nat
    BY Ranges DEF Init, ArchiveInit
  <2> QED BY <2>1 DEF WithinLimit, Ordered, Outgoing
<1>3. StreamInv /\ WithinLimit /\ Ordered(Outgoing, written) /\ [Next]_vars
      => WithinLimit' /\ Ordered(Outgoing, written)'
  BY LimitNext, OrderNext
<1> QED BY <1>1, <1>2, <1>3, StreamInvariant, PTL DEF Spec

\* A packet falls out of the queue only in a tick whose limit was lowered below
\* what it had sent, and then all that wait do.
THEOREM DropsAreLowered == Spec => DropsOnlyLowered
<1>1. ASSUME StreamInv, QueueInv, [Next]_vars, Dropped' # Dropped
      PROVE  lowered /\ sentThisTick > limit /\ unsent' = <<>>
  <2>1. CASE Stays
    BY <1>1, <2>1 DEF Stays, Dropped
  <2>2. CASE Grows
    <3> DEFINE p == Packet(written)
    <3>1. Outgoing \in Seq(Packets) /\ written \in Nat /\ p.id = written
      BY <1>1, StoredFirst DEF StreamInv, TypeInv, Packet
    <3>2. Outgoing' = Append(Outgoing, p) /\ written' = written + 1
      BY <2>2 DEF Grows
    <3> HIDE DEF p
    <3>3. /\ Len(Outgoing') = Len(Outgoing) + 1 /\ Outgoing'[Len(Outgoing) + 1] = p
          /\ Len(Outgoing) \in Nat /\ \A k \in 1..Len(Outgoing) : Outgoing'[k] = Outgoing[k]
      BY <3>1, <3>2
    <3>4. ASSUME NEW n \in Nat
          PROVE  (n < written' /\ \A k \in 1..Len(Outgoing') : Outgoing'[k].id # n)
                 <=> (n < written /\ \A k \in 1..Len(Outgoing) : Outgoing[k].id # n)
      <4>1. (\A k \in 1..Len(Outgoing') : Outgoing'[k].id # n)
            <=> n # written /\ \A k \in 1..Len(Outgoing) : Outgoing[k].id # n
        BY <3>1, <3>3
      <4> QED BY <3>1, <3>2, <4>1
    <3>5. Dropped' = Dropped
      BY <3>1, <3>2, <3>4 DEF Dropped
    <3> QED BY <1>1, <3>5
  <2>3. CASE Falls
    <3>1. limit \in Nat /\ sentThisTick \in Nat /\ lowered \in BOOLEAN
      BY <1>1, Ranges DEF StreamInv, TypeInv
    <3> QED BY <1>1, <2>3, <3>1 DEF Falls, QueueInv
  <2> QED BY <1>1, <2>1, <2>2, <2>3, QueueSteps
<1>2. StreamInv /\ QueueInv /\ [Next]_vars
      => [Dropped' # Dropped => lowered /\ sentThisTick > limit /\ unsent' = <<>>]_vars
  BY <1>1
<1> QED BY <1>2, QueueInvariant, PTL DEF Spec, DropsOnlyLowered

-------------------------------------------------------------------------------
(* The stream delivers in order.                                           *)

\* The ids of a queue's first packets are the first of its ids.
LEMMA FirstIds ==
  ASSUME NEW q \in Seq(Packets), NEW s \in Seq(Int), Len(s) <= Len(q),
         \A k \in 1..Len(s) : s[k] = q[k].id
  PROVE  s = SubSeq(Ids(q), 1, Len(s))
<1>1. Len(s) \in Nat /\ Len(q) \in Nat /\ \A k \in 1..Len(q) : q[k].id \in Int
  BY IdsAreNumbers
<1>2. Ids(q) \in Seq(Int) /\ Len(Ids(q)) = Len(q) /\ \A k \in 1..Len(q) : Ids(q)[k] = q[k].id
  BY <1>1 DEF Ids
<1>3. /\ SubSeq(Ids(q), 1, Len(s)) \in Seq(Int) /\ Len(SubSeq(Ids(q), 1, Len(s))) = Len(s)
      /\ \A k \in 1..Len(s) : SubSeq(Ids(q), 1, Len(s))[k] = Ids(q)[k]
  BY <1>1, <1>2
<1>4. \A k \in 1..Len(s) : s[k] = SubSeq(Ids(q), 1, Len(s))[k]
  BY <1>1, <1>2, <1>3
<1> QED BY <1>3, <1>4, SeqEqual

\* A packet written is owed after the others.
LEMMA GrowingWrites ==
  ASSUME StreamInv, Grows, parsed' = parsed PROVE Delivery!Write
<1> DEFINE p == Packet(written)
<1>1. Outgoing \in Seq(Packets) /\ written \in Nat /\ p.id = written
  BY StoredFirst DEF StreamInv, TypeInv, Packet
<1>2. Outgoing' = Append(Outgoing, p) /\ written' = written + 1
  BY DEF Grows
<1> HIDE DEF p
<1>3. /\ Len(Outgoing') = Len(Outgoing) + 1 /\ Outgoing'[Len(Outgoing) + 1] = p
      /\ Len(Outgoing) \in Nat /\ \A k \in 1..Len(Outgoing) : Outgoing'[k] = Outgoing[k]
  BY <1>1, <1>2
<1>4. Ids(Outgoing) \in Seq(Int) /\ Len(Ids(Outgoing)) = Len(Outgoing)
      /\ \A k \in 1..Len(Outgoing) : Ids(Outgoing)[k] = Outgoing[k].id
  <2>1. \A k \in 1..Len(Outgoing) : Outgoing[k].id \in Int
    BY <1>1, IdsAreNumbers
  <2> QED BY <1>3, <2>1 DEF Ids
<1>5. Ids(Outgoing') = Append(Ids(Outgoing), written)
  <2> DEFINE more == Append(Ids(Outgoing), written)
  <2>1. /\ more \in Seq(Int) /\ Len(more) = Len(Outgoing) + 1 /\ more[Len(Outgoing) + 1] = written
        /\ \A k \in 1..Len(Outgoing) : more[k] = Outgoing[k].id
    BY <1>1, <1>3, <1>4
  <2> HIDE DEF more
  <2>2. more = [k \in 1..(Len(Outgoing) + 1) |-> more[k]]
    BY <1>3, <2>1
  <2>3. ASSUME NEW k \in 1..(Len(Outgoing) + 1) PROVE more[k] = Outgoing'[k].id
    <3>1. k \in 1..Len(Outgoing) \/ k = Len(Outgoing) + 1
      BY <1>3
    <3> QED BY <1>1, <1>3, <2>1, <3>1
  <2> QED BY <1>3, <2>2, <2>3 DEF Ids, more
<1> QED BY <1>2, <1>5 DEF Delivery!Write, Ids

\* What falls out of the queue was not applied.
LEMMA FallingDrops ==
  ASSUME StreamInv, QueueInv, Falls, parsed' = parsed PROVE Delivery!Drop
<1> DEFINE m == Len(stored)
<1>1. /\ Outgoing \in Seq(Packets) /\ stored \in Seq(Packets) /\ m \in Nat /\ m <= Len(Outgoing)
      /\ \A k \in 1..m : Outgoing[k] = stored[k]
  BY StoredFirst
<1>2. /\ \A k \in 1..m : stored[k].id \in Int
      /\ Ids(stored) \in Seq(Int) /\ Len(Ids(stored)) = m
      /\ \A k \in 1..m : Ids(stored)[k] = stored[k].id
  <2>1. \A k \in 1..m : stored[k].id \in Int
    BY <1>1, IdsAreNumbers
  <2> QED BY <1>1, <2>1 DEF Ids
<1>3. \A k \in 1..Len(Ids(stored)) : Ids(stored)[k] = Outgoing[k].id
  BY <1>1, <1>2
<1>4. Ids(stored) = SubSeq(Ids(Outgoing), 1, Len(Ids(stored)))
  BY <1>1, <1>2, <1>3, FirstIds
<1>5. Ids(Outgoing') = SubSeq(Ids(Outgoing), 1, m)
  BY <1>2, <1>4 DEF Falls
<1>6. Len(Ids(Outgoing)) = Len(Outgoing) /\ Len(Outgoing) \in Nat
  BY <1>1 DEF Ids
<1>7. Len(parsed) \in Nat /\ Len(parsed) <= m
  BY DEF StreamInv, ClientInv
<1>8. lowered
  <2>1. limit \in Nat /\ sentThisTick \in Nat /\ lowered \in BOOLEAN
    BY Ranges DEF StreamInv, TypeInv
  <2> QED BY <2>1 DEF Falls, QueueInv
<1>9. m \in Len(parsed)..Len(Ids(Outgoing))
  <2> HIDE DEF m
  <2> QED BY <1>1, <1>6, <1>7
<1> QED BY <1>5, <1>8, <1>9 DEF Delivery!Drop, Falls, Ids

\* What a received packet lets the client apply are the packets owed next.
LEMMA ReceiveApplies ==
  ASSUME StreamInv, NEW d \in net, Receive(d)
  PROVE  [Delivery!Next]_<<written, Ids(Outgoing), parsed>>
<1>1. StreamInv' /\ Len(parsed) <= Len(parsed')
  BY ReceiveStep
<1>2. stored' = stored /\ unsent' = unsent /\ written' = written
  BY DEF Receive, serverVars, outVars, archiveVars
<1>3. Outgoing' = Outgoing /\ Ids(Outgoing)' = Ids(Outgoing)
  BY <1>2 DEF Outgoing, Ids
<1>4. /\ parsed \in Seq(Int) /\ parsed' \in Seq(Int)
      /\ Len(parsed') <= Len(stored)
      /\ \A k \in 1..Len(parsed) : parsed[k] = stored[k].id
      /\ \A k \in 1..Len(parsed') : parsed'[k] = stored[k].id
  BY <1>1, <1>2 DEF StreamInv, ClientInv
<1> DEFINE m == Len(parsed)
           n == Len(parsed')
<1>5. m \in Nat /\ n \in Nat /\ m <= n
  BY <1>1, <1>4
<1>6. /\ Outgoing \in Seq(Packets) /\ Len(Outgoing) \in Nat /\ Len(stored) \in Nat
      /\ Len(stored) <= Len(Outgoing) /\ \A k \in 1..Len(stored) : Outgoing[k] = stored[k]
  BY StoredFirst
<1>7. n <= Len(Outgoing) /\ n <= Len(stored)
  <2>1. n <= Len(stored)
    BY <1>4
  <2> HIDE DEF n
  <2> QED BY <1>5, <1>6, <2>1
<1>8. \A k \in 1..n : parsed'[k] = Outgoing[k].id
  <2> HIDE DEF m
  <2>1. \A k \in 1..n : k \in 1..Len(stored)
    <3> HIDE DEF n
    <3> QED BY <1>5, <1>6, <1>7
  <2> QED BY <1>4, <1>6, <2>1
<1>9. parsed' = SubSeq(Ids(Outgoing), 1, n)
  BY <1>4, <1>6, <1>7, <1>8, FirstIds
<1>10. Len(Ids(Outgoing)) = Len(Outgoing)
  BY <1>6 DEF Ids
<1>11. CASE m = n
  <2>1. parsed' = parsed
    <3>1. \A k \in 1..m : parsed[k] = parsed'[k]
      BY <1>4, <1>11
    <3> QED BY <1>4, <1>11, <3>1, SeqEqual
  <2> QED BY <1>2, <1>3, <2>1
<1>12. CASE m # n
  <2>1. n \in (m + 1)..Len(Ids(Outgoing))
    <3> HIDE DEF m, n
    <3> QED BY <1>5, <1>6, <1>7, <1>10, <1>12
  <2> HIDE DEF n
  <2>2. Delivery!Apply
    BY <1>2, <1>3, <1>9, <2>1 DEF Delivery!Apply
  <2> QED BY <2>2 DEF Delivery!Next
<1> QED BY <1>11, <1>12

\* Only a packet that is received moves what is applied.
LEMMA ParsedStays ==
  ASSUME [Next]_vars, parsed' # parsed PROVE \E d \in net : Receive(d)
<1>1. CASE SendClientPacket \/ ServerTick
  BY <1>1 DEF SendClientPacket, ServerTick, clientVars
<1>2. ASSUME NEW l \in Limits, SetMaxPackets(l) PROVE FALSE
  BY <1>2 DEF SetMaxPackets, clientVars
<1>3. ASSUME NEW r \in requests, MissingPacket(r) \/ LoseRequest(r) PROVE FALSE
  BY <1>3 DEF MissingPacket, LoseRequest, clientVars
<1>4. ASSUME NEW d \in net, LosePacket(d) PROVE FALSE
  BY <1>4 DEF LosePacket, clientVars
<1>5. CASE CheckForMissingPackets \/ UNCHANGED vars
  BY <1>5 DEF CheckForMissingPackets, vars, clientVars
<1> QED BY <1>1, <1>2, <1>3, <1>4, <1>5 DEF Next

\* Every step of the stream is a step of the delivery, or none.
LEMMA DeliveryStep ==
  StreamInv /\ QueueInv /\ [Next]_vars => [Delivery!Next]_<<written, Ids(Outgoing), parsed>>
<1> SUFFICES ASSUME StreamInv, QueueInv, [Next]_vars
             PROVE  [Delivery!Next]_<<written, Ids(Outgoing), parsed>>
  OBVIOUS
<1>1. CASE \E d \in net : Receive(d)
  BY <1>1, ReceiveApplies
<1>2. CASE parsed' = parsed
  <2>1. CASE Stays
    BY <1>2, <2>1 DEF Stays, Ids
  <2>2. CASE Grows
    BY <1>2, <2>2, GrowingWrites DEF Delivery!Next
  <2>3. CASE Falls
    BY <1>2, <2>3, FallingDrops DEF Delivery!Next
  <2> QED BY <2>1, <2>2, <2>3, QueueSteps
<1> QED BY <1>1, <1>2, ParsedStays

\* The client's game applies what the server's game wrote, whole, each packet
\* once and in order, but for those that fall with a lowered limit, over a
\* network that loses, repeats and reorders: the stream implements
\* OrderedDelivery, for every size of archive and ring and every limit that the
\* assumptions allow.
THEOREM DeliversInOrder == Spec => ImplementsDelivery
<1>1. Init => Delivery!Init
  BY DEF Init, ArchiveInit, Delivery!Init, Outgoing, Ids
<1>2. StreamInv /\ QueueInv /\ [Next]_vars => [Delivery!Next]_<<written, Ids(Outgoing), parsed>>
  BY DeliveryStep
<1> QED BY <1>1, <1>2, QueueInvariant, PTL DEF Spec, ImplementsDelivery, Delivery!Spec

-------------------------------------------------------------------------------
(* The ring, where it is as long as the build's: MAX_UDP_PACKET, which     *)
(* sv_maxpacketsize is kept within, for each slot (cl_main.cpp:531).       *)

LongRing == BufferSize <= RingSize

\* A received packet's slot is forgotten.
Forgets == \E i \in Slots : slots[i].sequence # None /\ slots'[i].sequence = None

\* The packets stored since slot i was filled, its own among them.
Age(i, next) == IF i < next THEN next - i ELSE next + PACKET_BUFFER_SIZE - i

\* What keeps the cursor away from the slot's bytes while k packets, its own
\* the first, were stored: they lie behind it, or it has started over.
KeptClear(s, at, k) ==
  \/ s.begin + s.size <= at /\ at <= s.begin + MostBytes(k)
  \/ at + RingSize <= s.begin + MostBytes(k + 1)

RingInv == \A i \in Slots : slots[i].sequence # None => KeptClear(slots[i], cursor, Age(i, slot))

\* A slot is a packet older with each that is stored, until its own turn.
LEMMA Ages ==
  ASSUME NEW next \in Slots, NEW i \in Slots, NEW after, after = (next + 1) % PACKET_BUFFER_SIZE
  PROVE  /\ Age(i, next) \in 1..PACKET_BUFFER_SIZE
         /\ Age(next, after) = 1
         /\ i # next => Age(i, next) < PACKET_BUFFER_SIZE /\ Age(i, after) = Age(i, next) + 1
<1> DEFINE q == PACKET_BUFFER_SIZE
<1>1. q \in Nat \ {0} /\ next \in 0..(q - 1) /\ i \in 0..(q - 1)
  BY Sizes DEF Slots
<1>2. after = IF next + 1 < q THEN next + 1 ELSE 0
  <2> HIDE DEF q
  <2>1. \A n \in 1..q : n % q = IF n < q THEN n ELSE 0
    BY <1>1, SMTT(30)
  <2> QED BY <1>1, <2>1 DEF q
<1> HIDE DEF q
<1> QED BY <1>1, <1>2 DEF Age, q

\* A packet that is stored next misses the bytes of every slot but the one it
\* takes, and the cursor stays clear of them.
LEMMA CursorMoves ==
  ASSUME LongRing, NEW k \in 1..(PACKET_BUFFER_SIZE - 1), NEW size \in 1..Largest,
         NEW at \in Nat, NEW start, start = IF at + size >= RingSize THEN 0 ELSE at,
         NEW s \in [begin : Nat, size : Nat, sequence : Int], s.begin < RingSize,
         KeptClear(s, at, k)
  PROVE  ~Overwrites(s, start, size) /\ KeptClear(s, start + size, k + 1)
<1> DEFINE most == MostBytes(k)
           next == MostBytes(k + 1)
           last == MostBytes(k + 1 + 1)
<1>1. /\ Largest \in Nat \ {0} /\ PACKET_BUFFER_SIZE \in Nat /\ RingSize \in Nat /\ BufferSize \in Nat
      /\ BufferSize <= RingSize
  BY Sizes, StreamAssumption DEF LongRing
<1>2. most \in Nat /\ next = most + Largest
  BY MostStep
<1>3. next \in Nat /\ last = next + Largest /\ next + Largest <= RingSize
  <2> DEFINE m == k + 1
  <2>1. m \in Nat /\ m <= PACKET_BUFFER_SIZE
    BY <1>1
  <2> HIDE DEF m
  <2>2. /\ MostBytes(m) \in Nat /\ MostBytes(m + 1) = MostBytes(m) + Largest
        /\ MostBytes(m) + Largest <= BufferSize
    BY <2>1, MostStep
  <2> QED BY <1>1, <2>2 DEF m
<1>4. s.begin \in Nat /\ s.size \in Nat /\ size \in Nat /\ size <= Largest /\ size >= 1
  BY <1>1
<1>5. \/ s.begin + s.size <= at /\ at <= s.begin + most
      \/ at + RingSize <= s.begin + next
  BY DEF KeptClear
<1> HIDE DEF most, next, last
<1>6. CASE start = at /\ s.begin + s.size <= at /\ at <= s.begin + most
  <2>1. ~Overwrites(s, start, size)
    BY <1>4, <1>6 DEF Overwrites
  <2>2. s.begin + s.size <= start + size /\ start + size <= s.begin + next
    BY <1>1, <1>2, <1>4, <1>6
  <2> QED BY <2>1, <2>2 DEF KeptClear, next
<1>7. CASE start = 0 /\ at + size >= RingSize /\ s.begin + s.size <= at /\ at <= s.begin + most
  <2>1. ~Overwrites(s, start, size)
    BY <1>1, <1>2, <1>3, <1>4, <1>7 DEF Overwrites
  <2>2. start + size + RingSize <= s.begin + last
    BY <1>1, <1>2, <1>3, <1>4, <1>7
  <2> QED BY <2>1, <2>2 DEF KeptClear, last
<1>8. CASE at + RingSize <= s.begin + next
  <2>1. start = at
    BY <1>1, <1>3, <1>4, <1>8
  <2>2. ~Overwrites(s, start, size)
    BY <1>1, <1>3, <1>4, <1>8, <2>1 DEF Overwrites
  <2>3. start + size + RingSize <= s.begin + last
    BY <1>1, <1>3, <1>4, <1>8, <2>1
  <2> QED BY <2>2, <2>3 DEF KeptClear, last
<1> QED BY <1>5, <1>6, <1>7, <1>8

\* Storing a received packet forgets no slot.
LEMMA StoringForgetsNone ==
  ASSUME LongRing, StreamInv, RingInv, NEW d, IsOf(d, stored), StoreReceived(d)
  PROVE  RingInv' /\ ~Forgets
<1> DEFINE size == d.body.size
           start == Begin(size)
           kept == [i \in Slots |->
                      IF i # slot /\ slots[i].sequence # None /\ Overwrites(slots[i], start, size)
                      THEN [slots[i] EXCEPT !.sequence = None] ELSE slots[i]]
           put == [begin |-> start, size |-> size, sequence |-> d.sequence]
           Entries == [begin : Nat, size : Nat, sequence : Int]
<1>1. /\ stored \in Seq(Packets) /\ cursor \in Nat /\ slot \in Slots /\ slots \in [Slots -> Entries]
      /\ ring \in [0..(RingSize - 1) -> Int] /\ Len(stored) \in Nat /\ RingSize \in Nat
  BY StreamAssumption DEF StreamInv, TypeInv, ClientInv
<1>2. size \in 1..Largest /\ d.sequence \in Nat
  <2>1. d.body \in Packets /\ d.sequence \in Nat
    BY <1>1 DEF IsOf
  <2> QED BY <2>1 DEF Packets, PacketSizes, Largest
<1>3. start = IF cursor + size >= RingSize THEN 0 ELSE cursor
  BY DEF Begin
<1>4. /\ slots' = [kept EXCEPT ![slot] = put] /\ cursor' = start + size
      /\ slot' = (slot + 1) % PACKET_BUFFER_SIZE
  BY DEF StoreReceived, PutReceived
<1> HIDE DEF start, size
<1>5. ASSUME NEW i \in Slots, i # slot, slots[i].sequence # None
      PROVE  kept[i] = slots[i] /\ KeptClear(slots[i], cursor', Age(i, slot'))
  <2> DEFINE s == slots[i]
             k == Age(i, slot)
  <2>1. SlotWhole(s, stored, ring)
    BY <1>5 DEF StreamInv, ClientInv
  <2>2. s \in Entries /\ stored[s.sequence + 1] \in Packets
    BY <1>1, <2>1 DEF SlotWhole
  <2>3. s.begin \in Nat /\ s.size \in Nat /\ s.size >= 1
    BY <2>1, <2>2 DEF SlotWhole, Packets, PacketSizes
  <2>4. s.begin < RingSize
    BY <1>1, <2>1, <2>3, SMTT(30) DEF SlotWhole
  <2>5. k \in 1..(PACKET_BUFFER_SIZE - 1) /\ Age(i, slot') = k + 1
    <3>1. k \in 1..PACKET_BUFFER_SIZE /\ k < PACKET_BUFFER_SIZE /\ Age(i, slot') = k + 1
      BY <1>1, <1>4, <1>5, Ages
    <3> HIDE DEF k
    <3> QED BY <3>1, Sizes
  <2>6. KeptClear(s, cursor, k)
    BY <1>5 DEF RingInv
  <2> HIDE DEF s, k
  <2>7. ~Overwrites(s, start, size) /\ KeptClear(s, start + size, k + 1)
    BY <1>1, <1>2, <1>3, <2>2, <2>4, <2>5, <2>6, CursorMoves
  <2> QED BY <1>4, <2>5, <2>7 DEF s
<1>6. ASSUME NEW i \in Slots, slots[i].sequence = None PROVE kept[i] = slots[i]
  BY <1>6
<1>7. /\ slots'[slot] = put
      /\ \A i \in Slots : i # slot => slots'[i] = slots[i]
  <2>1. DOMAIN kept = Slots
    OBVIOUS
  <2>2. \A i \in Slots : i # slot => kept[i] = slots[i]
    BY <1>5, <1>6
  <2> HIDE DEF kept, put
  <2> QED BY <1>1, <1>4, <2>1, <2>2
<1>8. put.sequence # None /\ KeptClear(put, cursor', Age(slot, slot'))
  <2>1. Age(slot, slot') = 1
    BY <1>1, <1>4, Ages
  <2>2. MostBytes(1) = Largest /\ Largest \in Nat
    BY Sizes DEF MostBytes
  <2>3. start \in Nat
    BY <1>1, <1>3
  <2>4. start + size <= cursor' /\ cursor' <= start + MostBytes(1)
    BY <1>2, <1>4, <2>2, <2>3
  <2>5. put.begin = start /\ put.size = size /\ put.sequence = d.sequence
    OBVIOUS
  <2>6. put.sequence # None
    BY <1>2, <2>5 DEF None
  <2> HIDE DEF put
  <2>7. KeptClear(put, cursor', 1)
    BY <2>4, <2>5 DEF KeptClear
  <2> QED BY <2>1, <2>6, <2>7
<1> HIDE DEF put, kept
<1>9. ASSUME NEW i \in Slots, slots'[i].sequence # None PROVE KeptClear(slots'[i], cursor', Age(i, slot'))
  <2>1. CASE i = slot
    BY <1>7, <1>8, <2>1
  <2>2. CASE i # slot
    BY <1>5, <1>7, <1>9, <2>2
  <2> QED BY <2>1, <2>2
<1>10. ASSUME NEW i \in Slots, slots[i].sequence # None PROVE slots'[i].sequence # None
  <2>1. CASE i = slot
    BY <1>7, <1>8, <2>1
  <2>2. CASE i # slot
    BY <1>7, <1>10, <2>2
  <2> QED BY <2>1, <2>2
<1> QED BY <1>9, <1>10 DEF RingInv, Forgets

LEMMA RingNext == LongRing /\ StreamInv /\ RingInv /\ [Next]_vars => RingInv' /\ ~Forgets
<1> SUFFICES ASSUME LongRing, StreamInv, RingInv, [Next]_vars PROVE RingInv' /\ ~Forgets OBVIOUS
<1>1. ASSUME UNCHANGED <<slots, slot, cursor>> PROVE RingInv' /\ ~Forgets
  BY <1>1 DEF RingInv, Forgets
<1>2. CASE SendClientPacket \/ ServerTick
  BY <1>1, <1>2 DEF SendClientPacket, ServerTick, clientVars
<1>3. ASSUME NEW l \in Limits, SetMaxPackets(l) PROVE RingInv' /\ ~Forgets
  BY <1>1, <1>3 DEF SetMaxPackets, clientVars
<1>4. ASSUME NEW r \in requests, MissingPacket(r) \/ LoseRequest(r) PROVE RingInv' /\ ~Forgets
  BY <1>1, <1>4 DEF MissingPacket, LoseRequest, clientVars
<1>5. ASSUME NEW d \in net, Receive(d) PROVE RingInv' /\ ~Forgets
  <2>1. CASE d.sequence \in Held
    BY <1>1, <1>5, <2>1 DEF Receive
  <2>2. CASE d.sequence \notin Held
    <3>1. StoreReceived(d) /\ IsOf(d, stored)
      BY <1>5, <2>2 DEF Receive, StreamInv, SentInv
    <3> QED BY <3>1, StoringForgetsNone
  <2> QED BY <2>1, <2>2
<1>6. ASSUME NEW d \in net, LosePacket(d) PROVE RingInv' /\ ~Forgets
  BY <1>1, <1>6 DEF LosePacket, clientVars
<1>7. CASE CheckForMissingPackets \/ UNCHANGED vars
  BY <1>1, <1>7 DEF CheckForMissingPackets, vars, clientVars
<1> QED BY <1>2, <1>3, <1>4, <1>5, <1>6, <1>7 DEF Next

\* In the build's ring no packet is written over while its slot is its own:
\* the branch that forgets a slot guards shorter rings (cl_main.cpp:1405), and
\* what was received is never asked for again for want of room.
THEOREM RingIsLongEnough == ASSUME LongRing PROVE Spec => [][~Forgets]_vars
<1>1. Init => RingInv
  BY DEF Init, NoSlot, RingInv
<1>2. StreamInv /\ RingInv /\ [Next]_vars => RingInv'
  BY RingNext
<1>3. StreamInv /\ RingInv /\ [Next]_vars => [~Forgets]_vars
  BY RingNext
<1> QED BY <1>1, <1>2, <1>3, StreamInvariant, PTL DEF Spec
==============================================================================
