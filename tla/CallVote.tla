------------------------------- MODULE CallVote -------------------------------
(***************************************************************************)
(* Call voting on the server (callvote.cpp): a player calls a vote on a     *)
(* motion, the others vote yes or no, a majority or the countdown settles   *)
(* it, and a vote that passed runs its command some seconds later.  Players *)
(* connect, disconnect, watch and join meanwhile, the level may change, and *)
(* what was voted on lately may not be called again (g_PreviousVotes).      *)
(*                                                                         *)
(* The lists of who voted are cells in the code; which cell a voter has is  *)
(* left out, how many there are is not.  Time is counted in cooldowns, and   *)
(* sv_votecooldown is not 0: a server that limits nothing remembers nothing. *)
(***************************************************************************)
EXTENDS Integers, Sequences, FiniteSets

CONSTANTS Player,     \* the client slots
          None,       \* no client, and no address
          Address,    \* the network addresses, without their ports
          Motion,     \* what may be voted on: a type of vote with its parameter
          Kick,       \* the motions to kick a player, one type; the others are another
          Mootable,   \* the motions that may turn pointless: a flag, a player
          NoCalls,    \* the values of sv_nocallvote looked at: 0 all may vote, 1 nobody
                      \* may call one, 2 spectators may not vote
          CountTicks, \* VOTE_COUNTDOWN_TIME, in ticks of the model
          MaxCalls,   \* bound on the votes called
          MaxTime     \* bound on the cooldowns that pass

ASSUME CallVoteAssumption ==
  /\ IsFiniteSet(Player) /\ None \notin Player \cup Address
  /\ Kick \subseteq Motion /\ Mootable \subseteq Motion
  /\ NoCalls \subseteq 0..2
  /\ CountTicks \in Nat \ {0} /\ MaxCalls \in Nat /\ MaxTime \in Nat

VARIABLES
  state,      \* g_VoteState
  caller,     \* g_ulVoteCaller
  countdown,  \* g_ulVoteCountdownTicks
  passed,     \* g_bVotePassed: what the last vote that ended left it as
  cancelled,  \* g_bVoteCancelled
  yesVoters,  \* the occupied cells of g_ulPlayersWhoVotedYes
  noVoters,   \* and of g_ulPlayersWhoVotedNo
  numYes,     \* g_ulNumYesVotes
  numNo,      \* g_ulNumNoVotes
  previous,   \* g_PreviousVotes
  address,    \* the address of each slot's client, None for a free slot
  watching,   \* the clients who spectate
  noCall,     \* sv_nocallvote
  now,        \* the time
  calls,      \* history: how many votes were called
  rejected    \* history: the motions voted down, and when each had been called

ballots == <<yesVoters, noVoters, numYes, numNo>>
vote == <<state, caller, countdown, passed, cancelled, ballots>>
clients == <<address, watching>>
vars == <<vote, previous, clients, noCall, now, calls, rejected>>

present == {p \in Player : address[p] # None}

Cells == Cardinality(Player) \div 2 + 1

Init ==
  /\ state = "NOVOTE" /\ caller = None /\ countdown = 0
  /\ passed = FALSE /\ cancelled = FALSE
  /\ yesVoters = {} /\ noVoters = {} /\ numYes = 0 /\ numNo = 0
  /\ previous = <<>>
  /\ address = [p \in Player |-> None] /\ watching = {}
  /\ noCall \in NoCalls /\ now = 0
  /\ calls = 0 /\ rejected = {}

--------------------------------------------------------------------------------
(* Counting.                                                               *)

MayVoteHere(p) == noCall # 2 \/ p \notin watching

CountNumEligibleVoters ==
  Cardinality({p \in present : noCall = 0 \/ (noCall = 2 /\ p \notin watching)})

Majority(yes, no) ==
  yes > CountNumEligibleVoters \div 2 \/ no > CountNumEligibleVoters \div 2

\* A bug: only the countdown settles a vote.
TallyAtTheEnd(yes, no, ticks) ==
  IF ticks = 0 THEN state' = "VOTECOMPLETED" /\ passed' = (yes > no)
  ELSE UNCHANGED <<state, passed>>

\* The vote ends with a majority, or with the countdown.
TallyVotes(yes, no, ticks) ==
  IF Majority(yes, no) \/ ticks = 0
  THEN state' = "VOTECOMPLETED" /\ passed' = (yes > no)
  ELSE UNCHANGED <<state, passed>>

ClearVote ==
  /\ state' = "NOVOTE" /\ caller' = None /\ countdown' = 0 /\ cancelled' = FALSE
  /\ yesVoters' = {} /\ noVoters' = {} /\ numYes' = 0 /\ numNo' = 0
  /\ UNCHANGED passed

\* A bug: a vote called off keeps the verdict of the one before it.
CancelKeepsVerdict ==
  /\ previous' = [previous EXCEPT ![Len(previous)].struck = TRUE]
  /\ state' = "VOTECOMPLETED"
  /\ UNCHANGED <<caller, passed, cancelled, ballots>>

\* The vote is called off, and its type may be called again.
Cancel ==
  /\ previous' = [previous EXCEPT ![Len(previous)].struck = TRUE]
  /\ cancelled' = TRUE /\ passed' = FALSE /\ state' = "VOTECOMPLETED"
  /\ UNCHANGED <<caller, ballots>>

--------------------------------------------------------------------------------
(* Calling a vote.                                                         *)

\* A bug: what was voted down is only remembered for its caller.
RefusesOwn(r, p, m) ==
  /\ r.address = address[p]
  /\ \/ now - r.at < 1
     \/ ~r.struck /\ r.motion = m /\ now - r.at < 2

\* One vote per cooldown and address; one of each type, unless it was a kick that
\* passed, and one of each motion that failed, per two cooldowns.
Refuses(r, p, m) ==
  \/ r.address = address[p] /\ now - r.at < 1
  \/ /\ ~r.struck /\ now - r.at < 2
     /\ \/ r.address = address[p] /\ (m \in Kick) = (r.motion \in Kick) /\ ~(m \in Kick /\ r.passed)
        \/ r.motion = m /\ ~r.passed

\* Votes too old to matter are taken off the front of the list.  The record does not say
\* yet whether the vote passed: that field starts out as whatever the memory held.
CallVote(p, m) ==
  /\ calls < MaxCalls
  /\ p \in present /\ noCall # 1 /\ MayVoteHere(p)
  /\ state = "NOVOTE"
  /\ \E from \in 1..(Len(previous) + 1), garbage \in BOOLEAN :
       LET kept == SubSeq(previous, from, Len(previous))
       IN  /\ \A i \in 1..(from - 1) : now - previous[i].at > 2
           /\ kept # <<>> => now - previous[from].at <= 2
           /\ \A i \in from..Len(previous) : ~Refuses(previous[i], p, m)
           /\ previous' = Append(kept, [motion |-> m, struck |-> FALSE, address |-> address[p],
                                        passed |-> garbage, at |-> now])
  /\ state' = "INVOTE" /\ caller' = p /\ countdown' = CountTicks /\ cancelled' = FALSE
  /\ calls' = calls + 1
  /\ UNCHANGED <<passed, ballots, clients, noCall, now, rejected>>

--------------------------------------------------------------------------------
(* Voting.                                                                 *)

\* A bug: a voter who comes back in another slot is not recognised.
SlotHasNotVoted(p) == p \notin yesVoters \cup noVoters

\* Nobody from this address has, as far as the lists tell.
HasNotVoted(p) == \A q \in yesVoters \cup noVoters : address[q] # address[p]

\* A free cell takes the voter.
Listed(voters, p) == IF Cardinality(voters) < Cells THEN voters \cup {p} ELSE voters

VoteYes(p) ==
  /\ state = "INVOTE" /\ p \in present /\ MayVoteHere(p) /\ HasNotVoted(p)
  /\ yesVoters' = Listed(yesVoters, p) /\ numYes' = numYes + 1
  /\ TallyVotes(numYes + 1, numNo, countdown)
  /\ UNCHANGED <<caller, countdown, cancelled, noVoters, numNo,
                 previous, clients, noCall, now, calls, rejected>>

\* The caller's own no calls the vote off.
VoteNo(p) ==
  /\ state = "INVOTE" /\ p \in present
  /\ IF p = caller
     THEN Cancel /\ UNCHANGED countdown
     ELSE /\ MayVoteHere(p) /\ HasNotVoted(p)
          /\ noVoters' = Listed(noVoters, p) /\ numNo' = numNo + 1
          /\ TallyVotes(numYes, numNo + 1, countdown)
          /\ UNCHANGED <<caller, countdown, cancelled, yesVoters, numYes, previous>>
  /\ UNCHANGED <<clients, noCall, now, calls, rejected>>

--------------------------------------------------------------------------------
(* Time passes.                                                            *)

\* A tick while the vote is open: it may find that the motion has turned pointless.
TickInVote ==
  /\ state = "INVOTE" /\ countdown > 0 /\ countdown' = countdown - 1
  /\ \/ previous[Len(previous)].motion \in Mootable /\ Cancel
     \/ /\ IF countdown' = 0 THEN TallyVotes(numYes, numNo, 0) ELSE UNCHANGED <<state, passed>>
        /\ UNCHANGED <<caller, cancelled, ballots, previous>>
  /\ UNCHANGED <<clients, noCall, now, calls, rejected>>

\* The last tick of a vote that ended: the verdict is noted, and a vote that passed
\* runs its command.
TickCompleted ==
  /\ state = "VOTECOMPLETED"
  /\ LET last == previous[Len(previous)]
     IN  rejected' = IF passed \/ cancelled THEN rejected
                     ELSE rejected \cup {[motion |-> last.motion, at |-> last.at]}
  /\ previous' = [previous EXCEPT ![Len(previous)].passed = passed]
  /\ ClearVote
  /\ UNCHANGED <<clients, noCall, now, calls>>

\* A vote takes seconds and a cooldown minutes: cooldowns pass between votes.
Elapse ==
  /\ state = "NOVOTE" /\ now < MaxTime /\ now' = now + 1
  /\ UNCHANGED <<vote, previous, clients, noCall, calls, rejected>>

--------------------------------------------------------------------------------
(* What happens around a vote.                                             *)

Connect(p, a) ==
  /\ p \notin present /\ address' = [address EXCEPT ![p] = a]
  /\ watching' \in {watching, watching \cup {p}}
  /\ UNCHANGED <<vote, previous, noCall, now, calls, rejected>>

\* The caller's leaving calls the vote off; another voter's takes him off the lists,
\* and what he voted stays counted.
DisconnectedVoter(p) ==
  \/ state = "INVOTE" /\ caller = p /\ Cancel /\ UNCHANGED countdown
  \/ /\ state = "INVOTE" /\ caller # p
     /\ yesVoters' = yesVoters \ {p} /\ noVoters' = noVoters \ {p}
     /\ UNCHANGED <<state, caller, countdown, passed, cancelled, numYes, numNo, previous>>
  \/ state # "INVOTE" /\ UNCHANGED <<vote, previous>>

Disconnect(p) ==
  /\ p \in present
  /\ DisconnectedVoter(p)
  /\ address' = [address EXCEPT ![p] = None] /\ watching' = watching \ {p}
  /\ UNCHANGED <<noCall, now, calls, rejected>>

\* A player joins or watches.
ChangeSides(p) ==
  /\ p \in present
  /\ watching' = IF p \in watching THEN watching \ {p} ELSE watching \cup {p}
  /\ UNCHANGED <<vote, previous, address, noCall, now, calls, rejected>>

SetNoCall(n) ==
  /\ noCall' = n /\ n # noCall
  /\ UNCHANGED <<vote, previous, clients, now, calls, rejected>>

\* An intermission or the next level clears an open vote, a new game any vote.
LevelChange ==
  /\ state = "INVOTE" /\ ClearVote
  /\ UNCHANGED <<previous, clients, noCall, now, calls, rejected>>

NewGame == ClearVote /\ UNCHANGED <<previous, clients, noCall, now, calls, rejected>>

Next ==
  \/ \E p \in Player : \/ VoteYes(p) \/ VoteNo(p) \/ Disconnect(p) \/ ChangeSides(p)
                       \/ \E m \in Motion : CallVote(p, m)
                       \/ \E a \in Address : Connect(p, a)
  \/ \E n \in NoCalls : SetNoCall(n)
  \/ TickInVote \/ TickCompleted \/ LevelChange \/ NewGame \/ Elapse

Spec == Init /\ [][Next]_vars

--------------------------------------------------------------------------------
(* Properties.                                                             *)

\* While a vote is open both lists have a free cell for the next voter, whoever came,
\* went and came back: no ballot is counted that no list shows.
RoomForBallot ==
  state = "INVOTE" => Cardinality(yesVoters) < Cells /\ Cardinality(noVoters) < Cells

\* The lists hold one voter of an address at most, and on one of them.  The counts are no
\* such thing: a voter who leaves comes off his list, his ballot stays counted, and his
\* address may vote again (callvote.cpp:1026).
OneBallotPerAddress ==
  state = "INVOTE" =>
    /\ yesVoters \cap noVoters = {}
    /\ \A p, q \in yesVoters \cup noVoters : address[p] = address[q] => p = q

\* A vote that will run its command had more yes than no, was not called off by its
\* caller, by his leaving or by a tick, and did not inherit the last vote's verdict.
PassedByMajority ==
  state = "VOTECOMPLETED" /\ passed =>
    numYes > numNo /\ ~cancelled /\ ~previous[Len(previous)].struck

\* What was voted down is not called again within two cooldowns, by anybody, whatever
\* votes were cleared, called off or passed in between.
NotAskedAgain ==
  [][calls' # calls =>
       \A r \in rejected : r.motion = previous'[Len(previous')].motion => now - r.at >= 2]_vars

--------------------------------------------------------------------------------
(* What the properties follow from.                                        *)

VoteRecord == [motion : Motion, struck : BOOLEAN, address : Address, passed : BOOLEAN, at : Nat]

TypeOK ==
  /\ state \in {"NOVOTE", "INVOTE", "VOTECOMPLETED"}
  /\ passed \in BOOLEAN /\ cancelled \in BOOLEAN
  /\ yesVoters \subseteq Player /\ noVoters \subseteq Player
  /\ numYes \in Nat /\ numNo \in Nat
  /\ previous \in Seq(VoteRecord) /\ now \in Nat
  /\ address \in [Player -> Address \cup {None}]

\* Short of a majority neither count is more than half of the slots, and no list is longer
\* than its count.
BallotInv ==
  /\ state = "NOVOTE" => yesVoters = {} /\ noVoters = {} /\ numYes = 0 /\ numNo = 0
  /\ state = "INVOTE" =>
       /\ yesVoters \cup noVoters \subseteq present
       /\ Cardinality(yesVoters) <= numYes /\ Cardinality(noVoters) <= numNo
       /\ numYes <= Cardinality(Player) \div 2 /\ numNo <= Cardinality(Player) \div 2

\* The last record is that of the vote under way, struck when it was called off.
RecordInv ==
  state # "NOVOTE" => previous # <<>> /\ (previous[Len(previous)].struck <=> cancelled)

InVoteInv == state = "INVOTE" => ~cancelled

\* What was voted down lately is on record, and not as the vote under way.
OnRecord(r) ==
  \E i \in DOMAIN previous :
    /\ previous[i].motion = r.motion /\ previous[i].at = r.at
    /\ ~previous[i].passed /\ ~previous[i].struck
    /\ state # "NOVOTE" => i # Len(previous)

RejectedInv == \A r \in rejected : r.at \in Nat /\ (now - r.at < 2 => OnRecord(r))

VoteInv ==
  /\ TypeOK /\ BallotInv /\ OneBallotPerAddress
  /\ RecordInv /\ InVoteInv /\ PassedByMajority /\ RejectedInv

===============================================================================
