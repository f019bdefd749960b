----------------------------- MODULE CallVoteProofs -----------------------------
(***************************************************************************)
(* What CallVote's properties rest on, for any number of slots, addresses   *)
(* and motions.  Short of a majority neither count is past half of the      *)
(* slots, because no more clients than slots may vote; the lists are no     *)
(* longer than the counts.  The record of the vote under way is the last    *)
(* one, so neither it nor what is struck from it touches those voted down.  *)
(***************************************************************************)
EXTENDS CallVote, FiniteSetTheorems, SequenceTheorems, TLAPS

Half == Cardinality(Player) \div 2

LEMMA HalfType == Cardinality(Player) \in Nat /\ Half \in Nat /\ Cells = Half + 1
<1>1. Cardinality(Player) \in Nat
  BY CallVoteAssumption, FS_CardinalityType
<1> QED
  BY <1>1 DEF Half, Cells

LEMMA VotersType ==
  ASSUME NEW voters \in SUBSET Player
  PROVE  IsFiniteSet(voters) /\ Cardinality(voters) \in Nat
BY CallVoteAssumption, FS_Subset, FS_CardinalityType

\* No more may vote than there are slots.
LEMMA EligibleBound ==
  CountNumEligibleVoters \in Nat /\ CountNumEligibleVoters \div 2 <= Half
<1> DEFINE eligible == {p \in present : noCall = 0 \/ (noCall = 2 /\ p \notin watching)}
<1>1. eligible \in SUBSET Player
  BY DEF present
<1>2. Cardinality(eligible) \in Nat /\ Cardinality(eligible) <= Cardinality(Player)
  BY <1>1, CallVoteAssumption, FS_Subset, FS_CardinalityType
<1> QED
  BY <1>2, HalfType DEF CountNumEligibleVoters, Half

\* A list that takes a voter is one longer at most.
LEMMA ListedBound ==
  ASSUME NEW voters \in SUBSET Player, NEW p \in Player
  PROVE  /\ Listed(voters, p) \in SUBSET Player
         /\ Listed(voters, p) \subseteq voters \cup {p}
         /\ Cardinality(Listed(voters, p)) <= Cardinality(voters) + 1
BY VotersType, FS_AddElement DEF Listed

\* What a change of the last record leaves of the list.
LEMMA LastRecord ==
  ASSUME NEW s \in Seq(VoteRecord), s # <<>>, NEW r \in VoteRecord
  PROVE  LET t == [s EXCEPT ![Len(s)] = r]
         IN  /\ t \in Seq(VoteRecord) /\ t # <<>> /\ Len(t) = Len(s) /\ t[Len(t)] = r
             /\ \A i \in DOMAIN s : i # Len(s) => i \in DOMAIN t /\ t[i] = s[i]
<1>1. Len(s) \in 1..Len(s) /\ DOMAIN s = 1..Len(s)
  BY EmptySeq, LenProperties
<1> QED
  BY <1>1, ExceptSeq, LenProperties

LEMMA NewRecord ==
  ASSUME NEW s \in Seq(VoteRecord), NEW r \in VoteRecord
  PROVE  LET t == Append(s, r)
         IN  /\ t \in Seq(VoteRecord) /\ t # <<>> /\ Len(t) = Len(s) + 1 /\ t[Len(t)] = r
             /\ \A j \in 1..Len(s) : t[j] = s[j]
<1>1. Append(s, r)[Len(s) + 1] = r /\ Len(Append(s, r)) = Len(s) + 1
  BY AppendProperties
<1> QED
  BY <1>1, AppendProperties

LEMMA LastType == TypeOK /\ previous # <<>> => Len(previous) \in DOMAIN previous
                                               /\ previous[Len(previous)] \in VoteRecord
BY LenProperties, ElementOfSeq DEF TypeOK

--------------------------------------------------------------------------------
(* Each kind of step keeps the invariant.                                  *)

LEMMA InitInv == Init => VoteInv
<1> SUFFICES ASSUME Init PROVE VoteInv
  OBVIOUS
<1> USE DEF Init
<1>1. TypeOK
  BY EmptySeq DEF TypeOK
<1> QED
  BY <1>1 DEF VoteInv, BallotInv, OneBallotPerAddress, RecordInv, InVoteInv,
              PassedByMajority, RejectedInv

\* Where neither the vote nor the record changes, only the clients have to be looked at.
LEMMA ClientsInv ==
  ASSUME VoteInv, UNCHANGED <<vote, previous, now, calls, rejected>>,
         address' \in [Player -> Address \cup {None}],
         state = "INVOTE" => \A p \in yesVoters \cup noVoters : address'[p] = address[p]
  PROVE  VoteInv'
<1> USE DEF VoteInv, vote, ballots
<1>1. TypeOK'
  BY DEF TypeOK
<1>2. BallotInv' /\ OneBallotPerAddress'
  BY DEF TypeOK, BallotInv, OneBallotPerAddress, present
<1>3. RecordInv' /\ InVoteInv' /\ PassedByMajority'
  BY DEF RecordInv, InVoteInv, PassedByMajority
<1>4. RejectedInv'
  BY DEF RejectedInv, OnRecord
<1> QED
  BY <1>1, <1>2, <1>3, <1>4

\* A vote called off is struck from the record, and no other one is.
LEMMA CancelInv ==
  ASSUME VoteInv, state = "INVOTE", Cancel, UNCHANGED <<now, rejected>>,
         address' \in [Player -> Address \cup {None}]
  PROVE  VoteInv'
<1> DEFINE n == Len(previous)
           r == [previous[n] EXCEPT !.struck = TRUE]
<1> USE DEF VoteInv, Cancel, ballots
<1>1. previous # <<>> /\ n \in DOMAIN previous /\ previous[n] \in VoteRecord
  BY LastType DEF RecordInv
<1>2. r \in VoteRecord /\ r.struck = TRUE
  BY <1>1 DEF VoteRecord
<1>3. previous' = [previous EXCEPT ![n] = r]
  BY <1>1
<1>4. /\ previous' \in Seq(VoteRecord) /\ previous' # <<>> /\ Len(previous') = n
      /\ previous'[n] = r
      /\ \A i \in DOMAIN previous : i # n => i \in DOMAIN previous' /\ previous'[i] = previous[i]
  BY <1>1, <1>2, <1>3, LastRecord DEF TypeOK
<1>5. TypeOK'
  BY <1>4 DEF TypeOK
<1>6. BallotInv' /\ OneBallotPerAddress' /\ InVoteInv' /\ PassedByMajority'
  BY DEF BallotInv, OneBallotPerAddress, InVoteInv, PassedByMajority
<1>7. RecordInv'
  BY <1>2, <1>4 DEF RecordInv
<1>8. RejectedInv'
  BY <1>4 DEF RejectedInv, OnRecord
<1> QED
  BY <1>5, <1>6, <1>7, <1>8

\* A vote that is cleared leaves its record as it is.
LEMMA ClearVoteInv ==
  ASSUME VoteInv, ClearVote, UNCHANGED <<previous, clients, now, rejected>>
  PROVE  VoteInv'
<1> USE DEF VoteInv, ClearVote, clients
<1>1. TypeOK'
  BY DEF TypeOK
<1>2. BallotInv' /\ OneBallotPerAddress' /\ RecordInv' /\ InVoteInv' /\ PassedByMajority'
  BY DEF BallotInv, OneBallotPerAddress, RecordInv, InVoteInv, PassedByMajority
<1>3. RejectedInv'
  BY DEF RejectedInv, OnRecord
<1> QED
  BY <1>1, <1>2, <1>3

\* A tally settles the vote with the verdict of the counts, or finds no majority.
LEMMA TallyVerdict ==
  ASSUME VoteInv, state = "INVOTE", NEW y \in Nat, NEW n \in Nat, NEW t,
         TallyVotes(y, n, t), numYes' = y, numNo' = n,
         UNCHANGED <<cancelled, previous, now, rejected, address>>,
         yesVoters' \cup noVoters' \subseteq present,
         Cardinality(yesVoters') <= y, Cardinality(noVoters') <= n
  PROVE  TypeOK' /\ BallotInv' /\ RecordInv' /\ InVoteInv' /\ PassedByMajority' /\ RejectedInv'
<1> USE DEF VoteInv, TallyVotes, Majority
<1>1. state' \in {"INVOTE", "VOTECOMPLETED"} /\ passed' \in BOOLEAN
  <2>1. CASE Majority(y, n) \/ t = 0
    <3>1. state' = "VOTECOMPLETED" /\ passed' = (y > n)
      BY <2>1
    <3>2. (y > n) \in BOOLEAN
      OBVIOUS
    <3> QED
      BY ONLY <3>1, <3>2
  <2>2. CASE ~(Majority(y, n) \/ t = 0)
    BY <2>2 DEF TypeOK
  <2> QED
    BY <2>1, <2>2
<1>2. TypeOK'
  BY <1>1 DEF TypeOK, present
<1>3. BallotInv'
  <2>1. CASE state' = "VOTECOMPLETED"
    BY <2>1 DEF BallotInv
  <2>2. CASE state' = "INVOTE"
    <3>1. ~(y > CountNumEligibleVoters \div 2) /\ ~(n > CountNumEligibleVoters \div 2)
      BY <2>2
    <3>2. y <= Half /\ n <= Half
      BY <3>1, EligibleBound, HalfType
    <3> QED
      BY <2>2, <3>2 DEF BallotInv, Half, present
  <2> QED
    BY <1>1, <2>1, <2>2
<1>4. RecordInv' /\ InVoteInv' /\ PassedByMajority'
  BY DEF RecordInv, InVoteInv, PassedByMajority
<1>5. RejectedInv'
  BY DEF RejectedInv, OnRecord
<1> QED
  BY <1>2, <1>3, <1>4, <1>5

LEMMA VoteYesInv ==
  ASSUME VoteInv, NEW p \in Player, VoteYes(p)
  PROVE  VoteInv'
<1> USE DEF VoteYes, clients
<1>1. /\ yesVoters' \in SUBSET Player /\ yesVoters' \subseteq yesVoters \cup {p}
      /\ Cardinality(yesVoters') <= numYes + 1 /\ Cardinality(noVoters') <= numNo
      /\ numYes \in Nat /\ numNo \in Nat
  <2>1. /\ yesVoters \in SUBSET Player /\ numYes \in Nat /\ numNo \in Nat
        /\ Cardinality(yesVoters) <= numYes /\ Cardinality(noVoters) <= numNo
    BY DEF VoteInv, TypeOK, BallotInv
  <2>2. Cardinality(yesVoters) \in Nat /\ Cardinality(Listed(yesVoters, p)) \in Nat
    BY <2>1, ListedBound, VotersType
  <2> QED
    BY <2>1, <2>2, ListedBound
<1>2. yesVoters' \cup noVoters' \subseteq present
  BY <1>1 DEF VoteInv, BallotInv
<1>3. TypeOK' /\ BallotInv' /\ RecordInv' /\ InVoteInv' /\ PassedByMajority' /\ RejectedInv'
  BY <1>1, <1>2, TallyVerdict
<1>4. OneBallotPerAddress'
  BY <1>1 DEF VoteInv, OneBallotPerAddress, HasNotVoted
<1> QED
  BY <1>3, <1>4 DEF VoteInv

LEMMA VoteNoInv ==
  ASSUME VoteInv, NEW p \in Player, VoteNo(p)
  PROVE  VoteInv'
<1> USE DEF VoteNo, clients
<1>1. CASE p = caller
  BY <1>1, CancelInv DEF VoteInv, TypeOK
<1>2. CASE p # caller
  <2>1. /\ noVoters' \in SUBSET Player /\ noVoters' \subseteq noVoters \cup {p}
        /\ Cardinality(noVoters') <= numNo + 1 /\ Cardinality(yesVoters') <= numYes
        /\ numYes \in Nat /\ numNo \in Nat
    <3>1. /\ noVoters \in SUBSET Player /\ numYes \in Nat /\ numNo \in Nat
          /\ Cardinality(yesVoters) <= numYes /\ Cardinality(noVoters) <= numNo
      BY DEF VoteInv, TypeOK, BallotInv
    <3>2. Cardinality(noVoters) \in Nat /\ Cardinality(Listed(noVoters, p)) \in Nat
      BY <3>1, ListedBound, VotersType
    <3> QED
      BY <1>2, <3>1, <3>2, ListedBound
  <2>2. yesVoters' \cup noVoters' \subseteq present
    BY <1>2, <2>1 DEF VoteInv, BallotInv
  <2>3. TypeOK' /\ BallotInv' /\ RecordInv' /\ InVoteInv' /\ PassedByMajority' /\ RejectedInv'
    BY <1>2, <2>1, <2>2, TallyVerdict
  <2>4. OneBallotPerAddress'
    BY <1>2, <2>1 DEF VoteInv, OneBallotPerAddress, HasNotVoted
  <2> QED
    BY <2>3, <2>4 DEF VoteInv
<1> QED
  BY <1>1, <1>2

LEMMA TickInVoteInv ==
  ASSUME VoteInv, TickInVote
  PROVE  VoteInv'
<1> USE DEF TickInVote, clients, ballots
<1>1. CASE Cancel
  BY <1>1, CancelInv DEF VoteInv, TypeOK
<1>2. CASE ~Cancel /\ countdown' = 0
  <2>1. TypeOK' /\ BallotInv' /\ RecordInv' /\ InVoteInv' /\ PassedByMajority' /\ RejectedInv'
    BY <1>2, TallyVerdict DEF VoteInv, TypeOK, BallotInv
  <2>2. OneBallotPerAddress'
    BY <1>2 DEF VoteInv, OneBallotPerAddress
  <2> QED
    BY <2>1, <2>2 DEF VoteInv
<1>3. CASE ~Cancel /\ countdown' # 0
  BY <1>3, ClientsInv DEF VoteInv, TypeOK, BallotInv, OneBallotPerAddress, present, RecordInv,
                          InVoteInv, PassedByMajority, RejectedInv, OnRecord
<1> QED
  BY <1>1, <1>2, <1>3

\* A new record joins what is kept of the list, where all that was voted down lately is.
LEMMA CallVoteInv ==
  ASSUME VoteInv, NEW p \in Player, NEW m \in Motion, CallVote(p, m)
  PROVE  VoteInv'
<1> USE DEF CallVote, clients, ballots
<1>1. PICK from \in 1..(Len(previous) + 1), garbage \in BOOLEAN :
        /\ \A i \in 1..(from - 1) : now - previous[i].at > 2
        /\ previous' = Append(SubSeq(previous, from, Len(previous)),
                              [motion |-> m, struck |-> FALSE, address |-> address[p],
                               passed |-> garbage, at |-> now])
  OBVIOUS
<1> DEFINE kept == SubSeq(previous, from, Len(previous))
           new == [motion |-> m, struck |-> FALSE, address |-> address[p],
                   passed |-> garbage, at |-> now]
<1>2. /\ previous \in Seq(VoteRecord) /\ Len(previous) \in Nat
      /\ DOMAIN previous = 1..Len(previous)
      /\ \A i \in 1..Len(previous) : previous[i] \in VoteRecord
  BY LenProperties, ElementOfSeq DEF VoteInv, TypeOK
<1>3. /\ kept \in Seq(VoteRecord) /\ Len(kept) = Len(previous) - from + 1
      /\ \A j \in 1..Len(kept) : kept[j] = previous[from + j - 1]
  BY <1>2, SubSeqProperties
<1>4. new \in VoteRecord
  BY DEF VoteInv, TypeOK, VoteRecord, present
<1>5. /\ previous' \in Seq(VoteRecord) /\ previous' # <<>> /\ Len(previous') = Len(kept) + 1
      /\ previous'[Len(previous')] = new
      /\ \A j \in 1..Len(kept) : previous'[j] = kept[j]
  <2>1. previous' = Append(kept, new)
    BY <1>1
  <2> HIDE DEF kept, new
  <2> QED
    BY ONLY <2>1, <1>3, <1>4, NewRecord
<1>6. TypeOK'
  BY <1>5 DEF VoteInv, TypeOK
<1>7. BallotInv' /\ OneBallotPerAddress'
  <2>1. /\ yesVoters' = {} /\ noVoters' = {} /\ numYes' = 0 /\ numNo' = 0
        /\ state' = "INVOTE"
    BY DEF VoteInv, BallotInv
  <2>2. Cardinality({}) = 0 /\ 0 <= Half
    BY HalfType, FS_EmptySet
  <2> QED
    BY <2>1, <2>2 DEF BallotInv, OneBallotPerAddress, Half
<1>8. RecordInv' /\ InVoteInv' /\ PassedByMajority'
  BY <1>5 DEF RecordInv, InVoteInv, PassedByMajority
<1>9. RejectedInv'
  <2> SUFFICES ASSUME NEW r \in rejected, now - r.at < 2
               PROVE  OnRecord(r)'
    BY DEF VoteInv, RejectedInv
  <2>1. r.at \in Nat /\ now \in Nat
    BY DEF VoteInv, RejectedInv, TypeOK
  <2>2. PICK i \in DOMAIN previous : /\ previous[i].motion = r.motion /\ previous[i].at = r.at
                                     /\ ~previous[i].passed /\ ~previous[i].struck
    BY DEF VoteInv, RejectedInv, OnRecord
  <2>3. i \in from..Len(previous)
    BY <1>1, <1>2, <2>1, <2>2
  <2>4. i - from + 1 \in 1..Len(kept) /\ from + (i - from + 1) - 1 = i
    BY <1>2, <1>3, <2>3
  <2>5. previous'[i - from + 1] = previous[i]
    BY <1>3, <1>5, <2>4
  <2>6. i - from + 1 \in DOMAIN previous' /\ i - from + 1 # Len(previous')
    <3>1. DOMAIN previous' = 1..(Len(kept) + 1) /\ Len(kept) \in Nat
      BY <1>3, <1>5, LenProperties
    <3> HIDE DEF kept
    <3> QED
      BY ONLY <1>5, <2>4, <3>1
  <2> QED
    BY <2>2, <2>5, <2>6 DEF OnRecord
<1> QED
  BY <1>6, <1>7, <1>8, <1>9 DEF VoteInv

\* The verdict goes on the last record: those voted down before are on others, and this
\* one, if it was voted down, was not struck.
LEMMA TickCompletedInv ==
  ASSUME VoteInv, TickCompleted
  PROVE  VoteInv'
<1> DEFINE n == Len(previous)
           verdict == [previous[n] EXCEPT !.passed = passed]
<1> USE DEF TickCompleted, ClearVote, clients
<1>1. previous # <<>> /\ n \in DOMAIN previous /\ previous[n] \in VoteRecord
  BY LastType DEF VoteInv, RecordInv
<1>2. /\ verdict \in VoteRecord /\ verdict.passed = passed /\ verdict.struck = previous[n].struck
      /\ verdict.motion = previous[n].motion /\ verdict.at = previous[n].at /\ verdict.at \in Nat
  BY <1>1 DEF VoteRecord, VoteInv, TypeOK
<1>3. previous' = [previous EXCEPT ![n] = verdict]
  BY <1>1
<1>4. /\ previous' \in Seq(VoteRecord) /\ previous' # <<>> /\ Len(previous') = n
      /\ previous'[n] = verdict
      /\ \A i \in DOMAIN previous : i # n => i \in DOMAIN previous' /\ previous'[i] = previous[i]
  BY <1>1, <1>2, <1>3, LastRecord DEF VoteInv, TypeOK
<1>5. n \in DOMAIN previous'
  BY <1>1, <1>4, LenProperties DEF VoteInv, TypeOK
<1>6. TypeOK'
  BY <1>4 DEF VoteInv, TypeOK
<1>7. BallotInv' /\ OneBallotPerAddress' /\ RecordInv' /\ InVoteInv' /\ PassedByMajority'
  BY DEF BallotInv, OneBallotPerAddress, RecordInv, InVoteInv, PassedByMajority
<1>8. RejectedInv'
  <2> SUFFICES ASSUME NEW r \in rejected'
               PROVE  r.at \in Nat /\ (now - r.at < 2 => OnRecord(r)')
    BY DEF RejectedInv
  <2>1. CASE r \in rejected
    BY <1>4, <2>1 DEF VoteInv, RejectedInv, OnRecord
  <2>2. CASE r \notin rejected
    <3>1. ~passed /\ ~cancelled /\ r.motion = verdict.motion /\ r.at = verdict.at
      BY <1>2, <2>2
    <3>2. ~verdict.passed /\ ~verdict.struck
      BY <1>2, <3>1 DEF VoteInv, RecordInv
    <3> QED
      BY <1>2, <1>4, <1>5, <3>1, <3>2 DEF OnRecord
  <2> QED
    BY <2>1, <2>2
<1> QED
  BY <1>6, <1>7, <1>8 DEF VoteInv

LEMMA DisconnectInv ==
  ASSUME VoteInv, NEW p \in Player, Disconnect(p)
  PROVE  VoteInv'
<1> USE DEF Disconnect
<1>1. address' \in [Player -> Address \cup {None}]
  BY DEF VoteInv, TypeOK
<1>2. CASE state = "INVOTE" /\ Cancel
  BY <1>1, <1>2, CancelInv
<1>3. CASE state = "INVOTE" /\ ~Cancel
  <2>1. /\ yesVoters' = yesVoters \ {p} /\ noVoters' = noVoters \ {p}
        /\ UNCHANGED <<state, passed, cancelled, numYes, numNo, previous, now, rejected>>
    BY <1>3 DEF DisconnectedVoter
  <2>2. /\ yesVoters \in SUBSET Player /\ noVoters \in SUBSET Player
        /\ numYes \in Nat /\ numNo \in Nat
    BY DEF VoteInv, TypeOK
  <2>3. Cardinality(yesVoters') <= Cardinality(yesVoters) /\ Cardinality(noVoters') <= Cardinality(noVoters)
    BY <2>1, <2>2, VotersType, FS_RemoveElement
  <2>4. Cardinality(yesVoters') <= numYes /\ Cardinality(noVoters') <= numNo
    <3>1. /\ Cardinality(yesVoters) \in Nat /\ Cardinality(noVoters) \in Nat
          /\ Cardinality(yesVoters') \in Nat /\ Cardinality(noVoters') \in Nat
      BY <2>1, <2>2, VotersType
    <3>2. Cardinality(yesVoters) <= numYes /\ Cardinality(noVoters) <= numNo
      BY <1>3 DEF VoteInv, BallotInv
    <3> QED
      BY <2>2, <2>3, <3>1, <3>2
  <2>5. TypeOK'
    BY <1>1, <2>1 DEF VoteInv, TypeOK
  <2>6. BallotInv'
    BY <1>3, <2>1, <2>4 DEF VoteInv, TypeOK, BallotInv, present
  <2>7. OneBallotPerAddress'
    BY <2>1, <2>2 DEF VoteInv, TypeOK, OneBallotPerAddress
  <2>8. RecordInv' /\ InVoteInv' /\ PassedByMajority' /\ RejectedInv'
    BY <1>3, <2>1 DEF VoteInv, RecordInv, InVoteInv, PassedByMajority, RejectedInv, OnRecord
  <2> QED
    BY <2>5, <2>6, <2>7, <2>8 DEF VoteInv
<1>4. CASE state # "INVOTE"
  BY <1>1, <1>4, ClientsInv DEF DisconnectedVoter
<1> QED
  BY <1>2, <1>3, <1>4

LEMMA ConnectInv ==
  ASSUME VoteInv, NEW p \in Player, NEW a \in Address, Connect(p, a)
  PROVE  VoteInv'
<1>1. address' \in [Player -> Address \cup {None}]
  BY DEF Connect, VoteInv, TypeOK
<1>2. state = "INVOTE" => \A q \in yesVoters \cup noVoters : address'[q] = address[q]
  BY DEF Connect, VoteInv, TypeOK, BallotInv, present
<1> QED
  BY <1>1, <1>2, ClientsInv DEF Connect

LEMMA ElapseInv ==
  ASSUME VoteInv, Elapse
  PROVE  VoteInv'
<1> USE DEF Elapse, VoteInv, vote, ballots, clients
<1>1. TypeOK'
  BY DEF TypeOK
<1>2. BallotInv' /\ OneBallotPerAddress' /\ RecordInv' /\ InVoteInv' /\ PassedByMajority'
  BY DEF BallotInv, OneBallotPerAddress, RecordInv, InVoteInv, PassedByMajority
<1>3. RejectedInv'
  BY DEF TypeOK, RejectedInv, OnRecord
<1> QED
  BY <1>1, <1>2, <1>3

LEMMA NextInv == VoteInv /\ [Next]_vars => VoteInv'
<1> SUFFICES ASSUME VoteInv, [Next]_vars PROVE VoteInv'
  OBVIOUS
<1>1. ASSUME NEW p \in Player, VoteYes(p) PROVE VoteInv'
  BY <1>1, VoteYesInv
<1>2. ASSUME NEW p \in Player, VoteNo(p) PROVE VoteInv'
  BY <1>2, VoteNoInv
<1>3. ASSUME NEW p \in Player, Disconnect(p) PROVE VoteInv'
  BY <1>3, DisconnectInv
<1>4. ASSUME NEW p \in Player, NEW m \in Motion, CallVote(p, m) PROVE VoteInv'
  BY <1>4, CallVoteInv
<1>5. ASSUME NEW p \in Player, NEW a \in Address, Connect(p, a) PROVE VoteInv'
  BY <1>5, ConnectInv
<1>6. CASE TickInVote
  BY <1>6, TickInVoteInv
<1>7. CASE TickCompleted
  BY <1>7, TickCompletedInv
<1>8. CASE LevelChange \/ NewGame
  BY <1>8, ClearVoteInv DEF LevelChange, NewGame
<1>9. CASE Elapse
  BY <1>9, ElapseInv
<1>10. address \in [Player -> Address \cup {None}]
  BY DEF VoteInv, TypeOK
<1>11. ASSUME NEW p \in Player, ChangeSides(p) PROVE VoteInv'
  BY <1>10, <1>11, ClientsInv DEF ChangeSides
<1>12. ASSUME NEW n \in NoCalls, SetNoCall(n) PROVE VoteInv'
  BY <1>10, <1>12, ClientsInv DEF SetNoCall, clients
<1>13. CASE UNCHANGED vars
  BY <1>10, <1>13, ClientsInv DEF vars, clients
<1> QED
  BY <1>1, <1>2, <1>3, <1>4, <1>5, <1>6, <1>7, <1>8, <1>9, <1>11, <1>12, <1>13 DEF Next

--------------------------------------------------------------------------------
(* The results.                                                            *)

\* The invariant, and with it what the counts, the lists and the records are.
THEOREM VoteInvariant == Spec => []VoteInv
BY InitInv, NextInv, PTL DEF Spec

\* A tally short of a majority leaves a free cell on both lists, since a list is no longer
\* than its count and there are more cells than half of the slots.
LEMMA RoomFollows == VoteInv => RoomForBallot
<1> SUFFICES ASSUME VoteInv, state = "INVOTE"
             PROVE  Cardinality(yesVoters) < Cells /\ Cardinality(noVoters) < Cells
  BY DEF RoomForBallot
<1>1. /\ Cardinality(yesVoters) <= numYes /\ Cardinality(noVoters) <= numNo
      /\ numYes <= Half /\ numNo <= Half /\ numYes \in Nat /\ numNo \in Nat
  BY DEF VoteInv, BallotInv, TypeOK, Half
<1>2. Cardinality(yesVoters) \in Nat /\ Cardinality(noVoters) \in Nat
  BY VotersType DEF VoteInv, TypeOK
<1> QED
  BY <1>1, <1>2, HalfType

\* Every ballot that is counted has a cell, whoever left and came back.
THEOREM EveryBallotHasRoom == Spec => []RoomForBallot
BY VoteInvariant, RoomFollows, PTL

\* No address is on the lists twice.
THEOREM OneBallotEach == Spec => []OneBallotPerAddress
<1>1. VoteInv => OneBallotPerAddress
  BY DEF VoteInv
<1> QED
  BY <1>1, VoteInvariant, PTL

\* Only a vote with more yes than no runs its command, and none that was called off.
THEOREM NoneRunsWithoutMajority == Spec => []PassedByMajority
<1>1. VoteInv => PassedByMajority
  BY DEF VoteInv
<1> QED
  BY <1>1, VoteInvariant, PTL

\* A step that calls a vote finds on record whatever was voted down lately.
LEMMA CallsAreNew ==
  VoteInv /\ [Next]_vars =>
    (calls' # calls =>
       \A r \in rejected : r.motion = previous'[Len(previous')].motion => now - r.at >= 2)
<1> SUFFICES ASSUME VoteInv, Next, calls' # calls, NEW r \in rejected,
                    r.motion = previous'[Len(previous')].motion, ~(now - r.at >= 2)
             PROVE  FALSE
  BY DEF vars
<1>1. PICK p \in Player, m \in Motion : CallVote(p, m)
  BY DEF Next, VoteYes, VoteNo, Disconnect, ChangeSides, Connect, SetNoCall, TickInVote,
         TickCompleted, LevelChange, NewGame, Elapse
<1>2. PICK from \in 1..(Len(previous) + 1), garbage \in BOOLEAN :
        /\ \A i \in 1..(from - 1) : now - previous[i].at > 2
        /\ \A i \in from..Len(previous) : ~Refuses(previous[i], p, m)
        /\ previous' = Append(SubSeq(previous, from, Len(previous)),
                              [motion |-> m, struck |-> FALSE, address |-> address[p],
                               passed |-> garbage, at |-> now])
  BY <1>1 DEF CallVote
<1> DEFINE kept == SubSeq(previous, from, Len(previous))
           new == [motion |-> m, struck |-> FALSE, address |-> address[p],
                   passed |-> garbage, at |-> now]
<1>3. /\ previous \in Seq(VoteRecord) /\ Len(previous) \in Nat
      /\ DOMAIN previous = 1..Len(previous)
      /\ \A i \in 1..Len(previous) : previous[i] \in VoteRecord
  BY LenProperties, ElementOfSeq DEF VoteInv, TypeOK
<1>4. kept \in Seq(VoteRecord)
  BY <1>3, SubSeqProperties
<1>5. new \in VoteRecord /\ new.motion = m
  BY <1>1 DEF VoteInv, TypeOK, VoteRecord, present, CallVote
<1>6. previous'[Len(previous')] = new
  <2>1. previous' = Append(kept, new)
    BY <1>2
  <2> HIDE DEF kept, new
  <2> QED
    BY ONLY <2>1, <1>4, <1>5, NewRecord
<1>7. r.motion = m /\ r.at \in Nat /\ now \in Nat
  BY <1>5, <1>6 DEF VoteInv, RejectedInv, TypeOK
<1>8. PICK i \in DOMAIN previous : /\ previous[i].motion = r.motion /\ previous[i].at = r.at
                                   /\ ~previous[i].passed /\ ~previous[i].struck
  BY <1>7 DEF VoteInv, RejectedInv, OnRecord
<1>9. i \in from..Len(previous)
  BY <1>2, <1>3, <1>7, <1>8, SMTT(30)
<1>10. Refuses(previous[i], p, m)
  BY <1>7, <1>8 DEF Refuses
<1> QED
  BY <1>2, <1>9, <1>10

\* What was voted down is not asked again too soon, by any client, in any slot.
THEOREM VotedDownStaysDown == Spec => NotAskedAgain
BY VoteInvariant, CallsAreNew, PTL DEF Spec, NotAskedAgain

================================================================================
