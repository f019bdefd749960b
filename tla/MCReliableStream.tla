--------------------------- MODULE MCReliableStream ---------------------------
(* ReliableStream with few packets, for TLC.                               *)
EXTENDS ReliableStream

\* Packets of one byte and of two, so that bytes overlap in part.
MixedSizes == [id \in 0..MaxWrites |-> 1 + (id % 2)]
\* Packets of the largest size: the archive starts over with the fourth.
LargestSizes == [id \in 0..MaxWrites |-> MaxPacketSize - Room]

================================================================================
