--------------------------- MODULE JoinQueueProofs ---------------------------
(***************************************************************************)
(* The line of waiting players, for any number of slots and of seats and    *)
(* any traffic to the watcher.                                              *)
(***************************************************************************)
EXTENDS JoinQueue, Recursion, TLAPS

-----------------------------------------------------------------------------
(* Lines.                                                                  *)

\* Where a player is in a line, the first time if he is there more than once.
LEMMA Positions ==
  ASSUME NEW q \in Seq(Player), NEW p
  PROVE  /\ PositionInLine(q, p) \in 0..Len(q)
         /\ PositionInLine(q, p) = 0 => \A i \in 1..Len(q) : q[i] # p
         /\ PositionInLine(q, p) # 0 => q[PositionInLine(q, p)] = p
<1> DEFINE at == {i \in 1..Len(q) : q[i] = p}
<1>1. PositionInLine(q, p) = IF at # {} THEN Min(at) ELSE 0
  BY DEF PositionInLine, SelectInSeq
<1>2. at # {} => Min(at) \in at
  <2> SUFFICES ASSUME at # {} PROVE Min(at) \in at
    OBVIOUS
  <2>1. at \subseteq Nat
    OBVIOUS
  <2> HIDE DEF at
  <2>2. \E n \in at : \A m \in at : n =< m
    BY <2>1, Smallest
  <2> QED BY <2>2 DEF Min
<1>3. at \subseteq 1..Len(q) /\ Len(q) \in Nat
  OBVIOUS
<1> QED BY <1>1, <1>2, <1>3

\* In a line without repeats, it is the only place.
LEMMA OnlyPosition ==
  ASSUME NEW q \in Seq(Player), \A i, j \in 1..Len(q) : q[i] = q[j] => i = j,
         NEW i \in 1..Len(q)
  PROVE  PositionInLine(q, q[i]) = i
<1>1. PositionInLine(q, q[i]) # 0
  BY Positions
<1> QED BY <1>1, Positions

\* A line without the player at a position.
LEMMA Removal ==
  ASSUME NEW q \in Seq(Player), NEW at \in 1..Len(q)
  PROVE  /\ RemoveAt(q, at) \in Seq(Player) /\ Len(RemoveAt(q, at)) = Len(q) - 1
         /\ \A i \in 1..(Len(q) - 1) : RemoveAt(q, at)[i] = IF i < at THEN q[i] ELSE q[i + 1]
<1> DEFINE before == SubSeq(q, 1, at - 1)
           after == SubSeq(q, at + 1, Len(q))
<1>1. /\ before \in Seq(Player) /\ Len(before) = at - 1
      /\ \A i \in 1..(at - 1) : before[i] = q[i]
  OBVIOUS
<1>2. /\ after \in Seq(Player) /\ Len(after) = Len(q) - at
      /\ \A i \in 1..(Len(q) - at) : after[i] = q[at + i]
  OBVIOUS
<1>3. RemoveAt(q, at) = before \o after
  BY DEF RemoveAt
<1> HIDE DEF before, after
<1>4. RemoveAt(q, at) \in Seq(Player) /\ Len(RemoveAt(q, at)) = Len(q) - 1
  BY <1>1, <1>2, <1>3
<1>5. ASSUME NEW i \in 1..(Len(q) - 1)
      PROVE  RemoveAt(q, at)[i] = IF i < at THEN q[i] ELSE q[i + 1]
  <2>1. CASE i < at
    BY <1>1, <1>2, <1>3, <2>1
  <2>2. CASE ~(i < at)
    <3>1. i - (at - 1) \in 1..Len(after) /\ Len(before) = at - 1 /\ i > Len(before)
      BY <1>1, <1>2, <2>2
    <3>2. (before \o after)[i] = after[i - Len(before)]
      BY <1>1, <1>2, <3>1
    <3>3. after[i - (at - 1)] = q[i + 1]
      BY <1>2, <3>1
    <3> QED BY <1>3, <2>2, <3>1, <3>2, <3>3
  <2> QED BY <2>1, <2>2
<1> QED BY <1>4, <1>5

\* The client's line stays a line.
LEMMA ApplyType ==
  ASSUME NEW q \in Seq(Player), NEW c \in Commands
  PROVE  Apply(q, c) \in Seq(Player)
<1>1. CASE c \in [do : {"push"}, player : Player]
  BY <1>1 DEF Apply
<1>2. CASE c \in [do : {"remove"}, at : Nat \ {0}]
  BY <1>2, Removal DEF Apply
<1>3. CASE c \in [do : {"spawn"}]
  BY <1>3, Removal, Positions DEF Apply
<1>4. CASE c \in [do : {"sync"}, line : Seq(Player)]
  BY <1>4 DEF Apply
<1> QED BY <1>1, <1>2, <1>3, <1>4 DEF Commands

-----------------------------------------------------------------------------
(* Commands applied to a line, one after the other.                        *)

\* The lines while commands are applied, from the first to the last.
RunsOver(after, line, cs) ==
  /\ after \in [0..Len(cs) -> Seq(Player)]
  /\ after[0] = line /\ \A i \in 1..Len(cs) : after[i] = Apply(after[i - 1], cs[i])
  /\ Applied(line, cs) = after[Len(cs)]

\* Applying commands is a recursion over them.
LEMMA CommandsRun ==
  ASSUME NEW line \in Seq(Player), NEW cs \in Seq(Commands)
  PROVE  \E after : RunsOver(after, line, cs)
<1> DEFINE n == Len(cs)
           S == Seq(Player)
           in == [i \in 0..n |-> S]
           step == [i \in 1..n |-> [x \in S |-> Apply(x, cs[i])]]
           Runs(f) == f = [i \in 0..n |-> IF i = 0 THEN line ELSE Apply(f[i - 1], cs[i])]
           run == CHOOSE f : Runs(f)
<1>1. n \in Nat /\ in \in [0..n -> SUBSET S] /\ line \in in[0]
  OBVIOUS
<1>2. \A i \in 1..n : \A x \in S : Apply(x, cs[i]) \in S
  BY ApplyType
<1> HIDE DEF S
<1>3. \A i \in 1..n : \A x \in in[i - 1] : step[i][x] \in in[i]
  BY <1>1, <1>2
<1>4. PICK f : Recursion(f, n, line, step, in)
  <2> HIDE DEF n, in, step
  <2> QED BY <1>1, <1>3, RecursionExists
<1>5. Runs(f)
  <2>1. f = [i \in 0..n |-> IF i = 0 THEN line ELSE step[i][f[i - 1]]]
    BY <1>4 DEF Recursion
  <2>2. \A i \in 0..n : f[i] \in S
    BY <1>4 DEF Recursion
  <2>3. \A i \in 1..n : step[i][f[i - 1]] = Apply(f[i - 1], cs[i])
    BY <1>1, <2>2
  <2> HIDE DEF step
  <2> QED BY <1>1, <2>1, <2>3, SMTT(30)
<1>6. Runs(run) /\ Applied(line, cs) = run[n]
  <2>1. Applied(line, cs) = run[n]
    BY DEF Applied
  <2> HIDE DEF Runs
  <2> QED BY <1>5, <2>1
<1>7. PICK after : Runs(after) /\ Applied(line, cs) = after[n]
  <2> HIDE DEF Runs, run
  <2> QED BY <1>6
<1>8. after[0] = line /\ \A i \in 1..n : after[i] = Apply(after[i - 1], cs[i])
  <2>1. after[0] = line
    BY <1>1, <1>7
  <2>2. ASSUME NEW i \in 1..n PROVE after[i] = Apply(after[i - 1], cs[i])
    <3>1. i \in 0..n /\ i # 0
      BY <1>1
    <3> QED BY <1>7, <3>1, Zenon
  <2> QED BY <2>1, <2>2
<1>9. after \in [0..n -> S]
  <2> DEFINE T == {i \in 0..n : after[i] \in S}
  <2>1. 0 \in T /\ \A i \in 1..n : i - 1 \in T => i \in T
    BY <1>1, <1>2, <1>8
  <2> HIDE DEF T
  <2>2. 0..n \subseteq T
    BY <1>1, <2>1, UpTo
  <2> QED BY <1>7, <2>2 DEF T
<1> QED BY <1>7, <1>8, <1>9 DEF RunsOver, S

\* No command, and one.
LEMMA AppliedFew ==
  ASSUME NEW line \in Seq(Player)
  PROVE  /\ Applied(line, <<>>) = line
         /\ \A c \in Commands : Applied(line, <<c>>) = Apply(line, c)
<1>1. Applied(line, <<>>) = line
  <2>1. <<>> \in Seq(Commands)
    OBVIOUS
  <2>2. PICK f : RunsOver(f, line, <<>>)
    BY <2>1, CommandsRun
  <2> QED BY <2>2 DEF RunsOver
<1>2. ASSUME NEW c \in Commands PROVE Applied(line, <<c>>) = Apply(line, c)
  <2> DEFINE cs == <<c>>
  <2>1. cs \in Seq(Commands) /\ Len(cs) = 1 /\ cs[1] = c
    OBVIOUS
  <2> HIDE DEF cs
  <2>2. PICK f : RunsOver(f, line, cs)
    BY <2>1, CommandsRun
  <2>3. f[1] = Apply(f[0], c) /\ f[0] = line
    BY <2>1, <2>2 DEF RunsOver
  <2> QED BY <2>1, <2>2, <2>3 DEF RunsOver, cs
<1> QED BY <1>1, <1>2

\* What is applied in two parts.
LEMMA AppliedInTwo ==
  ASSUME NEW line \in Seq(Player), NEW a \in Seq(Commands), NEW b \in Seq(Commands)
  PROVE  /\ Applied(line, a) \in Seq(Player)
         /\ Applied(line, a \o b) = Applied(Applied(line, a), b)
<1> DEFINE m == Len(a)
           n == Len(b)
           ab == a \o b
<1>1. /\ m \in Nat /\ n \in Nat /\ ab \in Seq(Commands) /\ Len(ab) = m + n
      /\ \A i \in 1..m : ab[i] = a[i]
      /\ \A i \in 1..n : ab[m + i] = b[i]
  OBVIOUS
<1> HIDE DEF ab
<1>2. PICK f : RunsOver(f, line, a)
  BY CommandsRun
<1>3. Applied(line, a) \in Seq(Player)
  BY <1>1, <1>2 DEF RunsOver
<1>4. PICK g : RunsOver(g, Applied(line, a), b)
  BY <1>3, CommandsRun
<1>5. PICK h : RunsOver(h, line, ab)
  BY <1>1, CommandsRun
<1> DEFINE T == {i \in 0..m : h[i] = f[i]}
           U == {i \in 0..n : h[m + i] = g[i]}
<1>6. 0 \in T /\ \A i \in 1..m : i - 1 \in T => i \in T
  <2>1. h[0] = f[0]
    BY <1>2, <1>5 DEF RunsOver
  <2>2. \A i \in 1..m : h[i] = Apply(h[i - 1], a[i]) /\ f[i] = Apply(f[i - 1], a[i])
    BY <1>1, <1>2, <1>5 DEF RunsOver
  <2> HIDE DEF m
  <2> QED BY <1>1, <2>1, <2>2
<1>7. h[m] = f[m]
  <2> HIDE DEF T, m
  <2>1. 0..m \subseteq T
    BY <1>1, <1>6, UpTo
  <2> QED BY <1>1, <2>1 DEF T
<1>8. 0 \in U /\ \A i \in 1..n : i - 1 \in U => i \in U
  <2>1. h[m + 0] = g[0]
    BY <1>1, <1>2, <1>4, <1>7 DEF RunsOver
  <2>2. \A i \in 1..n : h[m + i] = Apply(h[m + (i - 1)], b[i]) /\ g[i] = Apply(g[i - 1], b[i])
    <3> SUFFICES ASSUME NEW i \in 1..n
                 PROVE  h[m + i] = Apply(h[m + (i - 1)], b[i]) /\ g[i] = Apply(g[i - 1], b[i])
      OBVIOUS
    <3>1. m + i \in 1..Len(ab) /\ (m + i) - 1 = m + (i - 1)
      BY <1>1
    <3> QED BY <1>1, <1>4, <1>5, <3>1 DEF RunsOver
  <2> HIDE DEF m, n
  <2> QED BY <1>1, <2>1, <2>2
<1>9. h[m + n] = g[n]
  <2> HIDE DEF U, m, n
  <2>1. 0..n \subseteq U
    BY <1>1, <1>8, UpTo
  <2> QED BY <1>1, <2>1 DEF U
<1> QED BY <1>1, <1>3, <1>4, <1>5, <1>9 DEF RunsOver, ab

-----------------------------------------------------------------------------
(* The states handlers pass on, and what holds of each since the request or *)
(* the event began, with the line as "queue" still has it.                 *)

States ==
  [seats : 1..MaxSeats, stage : {"level", "intermission", "loading"}, round : Rounds,
   ending : BOOLEAN, role : [Player -> Roles], queue : Seq(Player), told : Seq(Commands)]

\* Nobody is in line twice.
Once(s) == \A i, j \in 1..Len(s.queue) : s.queue[i] = s.queue[j] => i = j

\* Those in line watch, but for one who is about to leave it.  A stranded line may
\* hold players.
Waits(roles, p) == roles[p] = "spectating" \/ (stranded /\ roles[p] # "out")
WatchBut(s, p) == \A i \in 1..Len(s.queue) : Waits(s.role, s.queue[i]) \/ s.queue[i] = p
Watch(s) == \A i \in 1..Len(s.queue) : Waits(s.role, s.queue[i])

\* The line is in its old order.
InOrder(s) ==
  \A i, j \in 1..Len(s.queue) : i < j => ~AheadOf(s.queue[j], s.queue[i])

NewIn(s) == SeatedIn(s.role) \ Seated

\* Whoever was ahead of one who has sat down since is not in line any more.
Passed(s) ==
  stranded \/ \A p \in NewIn(s), q \in Player :
                AheadOf(q, p) => \A i \in 1..Len(s.queue) : s.queue[i] # q

\* Nobody has sat down beyond the last seat.
Within(s) == NewIn(s) # {} => Cardinality(SeatedIn(s.role)) <= s.seats

\* The clients have been told all that changed in the line.
Spoken(s) == stranded \/ Applied(queue, s.told) = s.queue

HandledBut(s, p) == s \in States /\ Once(s) /\ WatchBut(s, p) /\ InOrder(s) /\ Passed(s) /\ Within(s)
Handled(s) == s \in States /\ Once(s) /\ Watch(s) /\ InOrder(s) /\ Passed(s) /\ Within(s)

\* Nobody waits who could join.
Served(s) == stranded \/ (s.queue # <<>> => PreventPlayersFromJoining(s))

\* What popping the line leaves alone.
SameGame(s, t) ==
  t.seats = s.seats /\ t.stage = s.stage /\ t.round = s.round /\ t.ending = s.ending

\* The seats taken are counted one by one.
LEMMA SeatsCount ==
  ASSUME NEW roles \in [Player -> Roles]
  PROVE  /\ IsFiniteSet(SeatedIn(roles)) /\ Cardinality(SeatedIn(roles)) \in Nat
         /\ \A p \in Player, r \in {"playing", "dead"} :
              /\ SeatedIn([roles EXCEPT ![p] = r]) = SeatedIn(roles) \cup {p}
              /\ p \notin SeatedIn(roles) =>
                   Cardinality(SeatedIn([roles EXCEPT ![p] = r])) = Cardinality(SeatedIn(roles)) + 1
         /\ \A p \in Player, r \in {"out", "spectating"} :
              /\ SeatedIn([roles EXCEPT ![p] = r]) = SeatedIn(roles) \ {p}
              /\ Cardinality(SeatedIn([roles EXCEPT ![p] = r])) >= Cardinality(SeatedIn(roles)) - 1
<1>1. IsFiniteSet(SeatedIn(roles))
  BY JoinQueueAssumption, FS_Subset DEF SeatedIn
<1>2. \A S : IsFiniteSet(S) => Cardinality(S) \in Nat
  BY FS_CardinalityType
<1>3. ASSUME NEW p \in Player, NEW r \in {"playing", "dead"}
      PROVE  /\ SeatedIn([roles EXCEPT ![p] = r]) = SeatedIn(roles) \cup {p}
             /\ p \notin SeatedIn(roles) =>
                  Cardinality(SeatedIn([roles EXCEPT ![p] = r])) = Cardinality(SeatedIn(roles)) + 1
  <2>1. SeatedIn([roles EXCEPT ![p] = r]) = SeatedIn(roles) \cup {p}
    BY DEF SeatedIn
  <2> QED BY <1>1, <2>1, FS_AddElement
<1>4. ASSUME NEW p \in Player, NEW r \in {"out", "spectating"}
      PROVE  /\ SeatedIn([roles EXCEPT ![p] = r]) = SeatedIn(roles) \ {p}
             /\ Cardinality(SeatedIn([roles EXCEPT ![p] = r])) >= Cardinality(SeatedIn(roles)) - 1
  <2>1. SeatedIn([roles EXCEPT ![p] = r]) = SeatedIn(roles) \ {p}
    BY DEF SeatedIn
  <2>2. Cardinality(SeatedIn(roles) \ {p}) =
          IF p \in SeatedIn(roles) THEN Cardinality(SeatedIn(roles)) - 1 ELSE Cardinality(SeatedIn(roles))
    BY <1>1, FS_RemoveElement
  <2> DEFINE k == Cardinality(SeatedIn(roles))
  <2>3. k \in Nat /\ Cardinality(SeatedIn(roles) \ {p}) \in {k, k - 1}
    BY <1>1, <1>2, <2>2
  <2> HIDE DEF k
  <2>4. Cardinality(SeatedIn(roles) \ {p}) >= k - 1
    BY <2>3
  <2> QED BY <2>1, <2>4 DEF k
<1> QED BY <1>1, <1>2, <1>3, <1>4

\* Dropping the entry at a position changes the line and tells so.
LEMMA RemovalFields ==
  ASSUME NEW s \in States, NEW at \in 1..Len(s.queue),
         NEW t, t = RemovePlayerAtPosition(s, at)
  PROVE  /\ t \in States /\ SameGame(s, t) /\ t.role = s.role
         /\ t.queue = RemoveAt(s.queue, at)
         /\ t.told = Append(s.told, [do |-> "remove", at |-> at])
         /\ Spoken(s) /\ queue \in Seq(Player) => Spoken(t)
<1> DEFINE c == [do |-> "remove", at |-> at]
<1>1. /\ s.queue \in Seq(Player) /\ s.told \in Seq(Commands) /\ at \in Nat \ {0}
      /\ s.seats \in 1..MaxSeats /\ s.stage \in {"level", "intermission", "loading"}
      /\ s.round \in Rounds /\ s.ending \in BOOLEAN /\ s.role \in [Player -> Roles]
  BY DEF States
<1>2. c \in Commands
  BY <1>1 DEF Commands
<1>3. RemoveAt(s.queue, at) \in Seq(Player) /\ Append(s.told, c) \in Seq(Commands)
  BY <1>1, <1>2, Removal
<1>4. t = [seats |-> s.seats, stage |-> s.stage, round |-> s.round, ending |-> s.ending,
           role |-> s.role, queue |-> RemoveAt(s.queue, at), told |-> Append(s.told, c)]
  <2> DEFINE x == [s EXCEPT !.queue = RemoveAt(s.queue, at)]
  <2>1. x = [seats |-> s.seats, stage |-> s.stage, round |-> s.round, ending |-> s.ending,
             role |-> s.role, queue |-> RemoveAt(s.queue, at), told |-> s.told]
    BY DEF States
  <2>2. t = [x EXCEPT !.told = Append(x.told, c)]
    BY DEF RemovePlayerAtPosition, Tell
  <2> HIDE DEF x, c
  <2> QED BY <2>1, <2>2
<1> HIDE DEF c
<1>5. /\ t \in States /\ SameGame(s, t) /\ t.role = s.role
      /\ t.queue = RemoveAt(s.queue, at) /\ t.told = Append(s.told, c)
  BY <1>1, <1>3, <1>4 DEF States, SameGame
<1>6. ASSUME Spoken(s), queue \in Seq(Player) PROVE Spoken(t)
  <2>0. <<c>> \in Seq(Commands)
    BY <1>2
  <2>1. Applied(queue, s.told \o <<c>>) = Applied(Applied(queue, s.told), <<c>>)
    BY <1>1, <1>6, <2>0, AppliedInTwo
  <2>2. s.told \o <<c>> = Append(s.told, c)
    BY <1>1, <1>2
  <2>3. Applied(s.queue, <<c>>) = Apply(s.queue, c)
    BY <1>1, <1>2, AppliedFew
  <2>4. Apply(s.queue, c) = RemoveAt(s.queue, at)
    BY <1>1 DEF Apply, c
  <2> QED BY <1>5, <1>6, <2>1, <2>2, <2>3, <2>4 DEF Spoken
<1> QED BY <1>5, <1>6 DEF c

\* t's line is s's without the entry at a position, who is nowhere else in it.
Shorter(s, t, at) ==
  /\ Len(t.queue) = Len(s.queue) - 1
  /\ \A i \in 1..Len(t.queue) : \E j \in 1..Len(s.queue) : j # at /\ t.queue[i] = s.queue[j]
  /\ \A i \in 1..Len(t.queue) : t.queue[i] # s.queue[at]

\* The line that is left has no repeats and no new order.
LEMMA ShorterLine ==
  ASSUME NEW s \in States, NEW t \in States, NEW at \in 1..Len(s.queue),
         t.queue = RemoveAt(s.queue, at), Once(s)
  PROVE  Shorter(s, t, at) /\ Once(t) /\ (InOrder(s) => InOrder(t))
<1> DEFINE q == s.queue
           r == t.queue
           Old(i) == IF i < at THEN i ELSE i + 1
<1>1. q \in Seq(Player) /\ Len(q) \in Nat /\ at \in 1..Len(q)
  BY DEF States
<1>2. Len(r) = Len(q) - 1 /\ \A i \in 1..Len(r) : r[i] = q[Old(i)]
  BY <1>1, Removal
<1> HIDE DEF q, r
<1>3. /\ \A i \in 1..Len(r) : Old(i) \in 1..Len(q) /\ Old(i) # at
      /\ \A i, j \in 1..Len(r) : (Old(i) = Old(j) => i = j) /\ (i < j => Old(i) < Old(j))
  BY <1>1, <1>2
<1> HIDE DEF Old
<1>4. \A i, j \in 1..Len(q) : q[i] = q[j] => i = j
  BY DEF Once, q
<1>5. \A i, j \in 1..Len(r) : r[i] = r[j] => i = j
  BY <1>2, <1>3, <1>4, SMTT(30)
<1>6. \A i \in 1..Len(r) : r[i] # q[at]
  BY <1>1, <1>2, <1>3, <1>4
<1>7. ASSUME InOrder(s) PROVE InOrder(t)
  <2>1. \A i, j \in 1..Len(q) : i < j => ~AheadOf(q[j], q[i])
    BY <1>7 DEF InOrder, q
  <2>2. \A i, j \in 1..Len(r) : i < j => ~AheadOf(r[j], r[i])
    BY <1>2, <1>3, <2>1
  <2> QED BY <2>2 DEF InOrder, r
<1> QED BY <1>2, <1>3, <1>5, <1>6, <1>7 DEF q, r, Once, Shorter

\* A player who may not stay in line leaves it, if he is in it.
LEMMA LeaveLine ==
  ASSUME NEW s, NEW p \in Player, HandledBut(s, p), queue \in Seq(Player),
         NEW t, t = RemovePlayerFromQueue(s, p)
  PROVE  /\ Handled(t) /\ SameGame(s, t) /\ t.role = s.role /\ (Spoken(s) => Spoken(t))
         /\ \A i \in 1..Len(t.queue) : t.queue[i] # p
         /\ s.queue = <<>> => t = s
<1> DEFINE at == PositionInLine(s.queue, p)
<1>1. /\ s \in States /\ s.queue \in Seq(Player) /\ Once(s) /\ InOrder(s) /\ Passed(s) /\ Within(s)
      /\ WatchBut(s, p)
  BY DEF HandledBut, States
<1>2. /\ at \in 0..Len(s.queue) /\ (at = 0 => \A i \in 1..Len(s.queue) : s.queue[i] # p)
      /\ (at # 0 => s.queue[at] = p)
  BY <1>1, Positions
<1>3. t = IF at = 0 THEN s ELSE RemovePlayerAtPosition(s, at)
  BY DEF RemovePlayerFromQueue
<1> HIDE DEF at
<1>4. CASE at = 0
  BY <1>1, <1>2, <1>3, <1>4 DEF Handled, Watch, WatchBut, SameGame
<1>5. CASE at # 0
  <2>1. at \in 1..Len(s.queue)
    BY <1>1, <1>2, <1>5
  <2>2. /\ t \in States /\ SameGame(s, t) /\ t.role = s.role /\ t.queue = RemoveAt(s.queue, at)
        /\ (Spoken(s) => Spoken(t))
    BY <1>1, <1>3, <1>5, <2>1, RemovalFields
  <2>3. Shorter(s, t, at) /\ Once(t) /\ InOrder(t)
    BY <1>1, <2>1, <2>2, ShorterLine
  <2>4. Watch(t) /\ \A i \in 1..Len(t.queue) : t.queue[i] # p
    BY <1>1, <1>2, <1>5, <2>2, <2>3 DEF Watch, WatchBut, Shorter
  <2>5. NewIn(t) = NewIn(s) /\ SeatedIn(t.role) = SeatedIn(s.role) /\ t.seats = s.seats
    BY <2>2 DEF NewIn, SameGame
  <2>6. Passed(t)
    BY <1>1, <2>3, <2>5 DEF Passed, Shorter
  <2>7. Within(t)
    BY <1>1, <2>5 DEF Within
  <2>8. s.queue # <<>>
    BY <2>1
  <2> QED BY <2>2, <2>3, <2>4, <2>6, <2>7, <2>8 DEF Handled
<1> QED BY <1>4, <1>5

\* What a handler sets, it sets alone.
LEMMA Sets ==
  ASSUME NEW s \in States, NEW t
  PROVE  /\ \A roles \in [Player -> Roles] : t = [s EXCEPT !.role = roles] =>
              /\ t \in States /\ SameGame(s, t)
              /\ t.role = roles /\ t.queue = s.queue /\ t.told = s.told
         /\ \A r \in Rounds : t = [s EXCEPT !.round = r] =>
              /\ t \in States /\ t.round = r
              /\ t.seats = s.seats /\ t.stage = s.stage /\ t.ending = s.ending
              /\ t.role = s.role /\ t.queue = s.queue /\ t.told = s.told
         /\ \A e \in BOOLEAN : t = [s EXCEPT !.ending = e] =>
              /\ t \in States /\ t.ending = e
              /\ t.seats = s.seats /\ t.stage = s.stage /\ t.round = s.round
              /\ t.role = s.role /\ t.queue = s.queue /\ t.told = s.told
         /\ \A n \in 1..MaxSeats : t = [s EXCEPT !.seats = n] =>
              /\ t \in States /\ t.seats = n
              /\ t.stage = s.stage /\ t.round = s.round /\ t.ending = s.ending
              /\ t.role = s.role /\ t.queue = s.queue /\ t.told = s.told
         /\ \A g \in {"level", "intermission", "loading"} : t = [s EXCEPT !.stage = g] =>
              /\ t \in States /\ t.stage = g
              /\ t.seats = s.seats /\ t.round = s.round /\ t.ending = s.ending
              /\ t.role = s.role /\ t.queue = s.queue /\ t.told = s.told
<1>1. ASSUME NEW roles \in [Player -> Roles], t = [s EXCEPT !.role = roles]
      PROVE  /\ t \in States /\ SameGame(s, t)
             /\ t.role = roles /\ t.queue = s.queue /\ t.told = s.told
  <2>1. t = [seats |-> s.seats, stage |-> s.stage, round |-> s.round, ending |-> s.ending,
             role |-> roles, queue |-> s.queue, told |-> s.told]
    BY <1>1 DEF States
  <2> QED BY <2>1 DEF States, SameGame
<1>2. ASSUME NEW r \in Rounds, t = [s EXCEPT !.round = r]
      PROVE  /\ t \in States /\ t.round = r
             /\ t.seats = s.seats /\ t.stage = s.stage /\ t.ending = s.ending
             /\ t.role = s.role /\ t.queue = s.queue /\ t.told = s.told
  <2>1. t = [seats |-> s.seats, stage |-> s.stage, round |-> r, ending |-> s.ending,
             role |-> s.role, queue |-> s.queue, told |-> s.told]
    BY <1>2 DEF States
  <2> QED BY <2>1 DEF States
<1>3. ASSUME NEW e \in BOOLEAN, t = [s EXCEPT !.ending = e]
      PROVE  /\ t \in States /\ t.ending = e
             /\ t.seats = s.seats /\ t.stage = s.stage /\ t.round = s.round
             /\ t.role = s.role /\ t.queue = s.queue /\ t.told = s.told
  <2>1. t = [seats |-> s.seats, stage |-> s.stage, round |-> s.round, ending |-> e,
             role |-> s.role, queue |-> s.queue, told |-> s.told]
    BY <1>3 DEF States
  <2> QED BY <2>1 DEF States
<1>4. ASSUME NEW n \in 1..MaxSeats, t = [s EXCEPT !.seats = n]
      PROVE  /\ t \in States /\ t.seats = n
             /\ t.stage = s.stage /\ t.round = s.round /\ t.ending = s.ending
             /\ t.role = s.role /\ t.queue = s.queue /\ t.told = s.told
  <2>1. t = [seats |-> n, stage |-> s.stage, round |-> s.round, ending |-> s.ending,
             role |-> s.role, queue |-> s.queue, told |-> s.told]
    BY <1>4 DEF States
  <2> QED BY <2>1 DEF States
<1>5. ASSUME NEW g \in {"level", "intermission", "loading"}, t = [s EXCEPT !.stage = g]
      PROVE  /\ t \in States /\ t.stage = g
             /\ t.seats = s.seats /\ t.round = s.round /\ t.ending = s.ending
             /\ t.role = s.role /\ t.queue = s.queue /\ t.told = s.told
  <2>1. t = [seats |-> s.seats, stage |-> g, round |-> s.round, ending |-> s.ending,
             role |-> s.role, queue |-> s.queue, told |-> s.told]
    BY <1>5 DEF States
  <2> QED BY <2>1 DEF States
<1> QED BY <1>1, <1>2, <1>3, <1>4, <1>5

\* What the clients are told changes nothing else.
LEMMA Tells ==
  ASSUME NEW s \in States, NEW c \in Commands, NEW t, t = Tell(s, c)
  PROVE  /\ t \in States /\ SameGame(s, t) /\ t.role = s.role /\ t.queue = s.queue
         /\ t.told = Append(s.told, c)
<1>1. t = [seats |-> s.seats, stage |-> s.stage, round |-> s.round, ending |-> s.ending,
           role |-> s.role, queue |-> s.queue, told |-> Append(s.told, c)]
  BY DEF Tell, States
<1>2. Append(s.told, c) \in Seq(Commands)
  BY DEF States
<1> QED BY <1>1, <1>2 DEF States, SameGame

\* A player spawns, and the watcher's client, which takes its own player out of
\* its copy, finds him in it only if he is in line.
LEMMA SpawnFields ==
  ASSUME NEW s \in States, NEW p \in Player, queue \in Seq(Player), NEW t, t = Spawn(s, p)
  PROVE  /\ t \in States /\ SameGame(s, t) /\ t.role = [s.role EXCEPT ![p] = "playing"]
         /\ t.queue = s.queue
         /\ Spoken(s) /\ (stranded \/ \A i \in 1..Len(s.queue) : s.queue[i] # p) => Spoken(t)
<1> DEFINE roles == [s.role EXCEPT ![p] = "playing"]
           c == [do |-> "spawn"]
<1>1. /\ s.role \in [Player -> Roles] /\ s.queue \in Seq(Player) /\ s.told \in Seq(Commands)
      /\ c \in Commands
  BY DEF States, Commands
<1>2. roles \in [Player -> Roles]
  BY <1>1 DEF Roles
<1>3. PICK u : u = [s EXCEPT !.role = roles]
  OBVIOUS
<1>4. t = IF p = Watcher THEN Tell(u, c) ELSE u
  BY <1>3 DEF Spawn
<1> HIDE DEF roles, c
<1>5. u \in States /\ SameGame(s, u) /\ u.role = roles /\ u.queue = s.queue /\ u.told = s.told
  BY <1>2, <1>3, Sets
<1>6. CASE p # Watcher
  BY <1>4, <1>5, <1>6 DEF Spoken, roles
<1>7. CASE p = Watcher
  <2>1. /\ t \in States /\ SameGame(u, t) /\ t.role = u.role /\ t.queue = u.queue
        /\ t.told = Append(u.told, c)
    BY <1>1, <1>4, <1>5, <1>7, Tells
  <2>2. ASSUME Spoken(s), ~stranded, \A i \in 1..Len(s.queue) : s.queue[i] # p PROVE Spoken(t)
    <3>0. <<c>> \in Seq(Commands)
      BY <1>1
    <3>1. s.told \o <<c>> = Append(s.told, c)
      <4>1. \A d \in Seq(Commands) : d \o <<c>> = Append(d, c)
        BY <1>1
      <4> QED BY <1>1, <4>1
    <3>2. Applied(queue, s.told \o <<c>>) = Applied(Applied(queue, s.told), <<c>>)
      BY <1>1, <3>0, AppliedInTwo
    <3>3. Applied(s.queue, <<c>>) = Apply(s.queue, c)
      BY <1>1, AppliedFew
    <3>4. PositionInLine(s.queue, Watcher) = 0
      BY <1>1, <1>7, <2>2, Positions
    <3>5. Apply(s.queue, c) = s.queue
      BY <3>4 DEF Apply, c
    <3> QED BY <1>5, <2>1, <2>2, <3>1, <3>2, <3>3, <3>5 DEF Spoken
  <2>3. SameGame(s, t)
    BY <1>5, <2>1 DEF SameGame
  <2> QED BY <1>5, <2>1, <2>2, <2>3 DEF Spoken, roles
<1> QED BY <1>6, <1>7

\* The one at a position takes a seat and leaves the line.
LEMMA SeatFields ==
  ASSUME NEW s \in States, Once(s), Watch(s), NEW at \in 1..Len(s.queue), queue \in Seq(Player),
         NEW t, t = PlayerJoinsAtPosition(s, at)
  PROVE  /\ t \in States /\ SameGame(s, t)
         /\ s.queue[at] \in Player
         /\ SeatedIn(t.role) = SeatedIn(s.role) \cup {s.queue[at]}
         /\ Cardinality(SeatedIn(t.role)) <= Cardinality(SeatedIn(s.role)) + 1
         /\ ~stranded => Cardinality(SeatedIn(t.role)) = Cardinality(SeatedIn(s.role)) + 1
         /\ Once(t) /\ Watch(t) /\ (InOrder(s) => InOrder(t)) /\ (Spoken(s) => Spoken(t))
         /\ Shorter(s, t, at)
<1> DEFINE p == s.queue[at]
<1>1. p \in Player /\ s.queue \in Seq(Player) /\ s.role \in [Player -> Roles]
  BY DEF States
<1>2. PICK u : u = RemovePlayerAtPosition(s, at)
  OBVIOUS
<1>3. t = Spawn(u, p)
  BY <1>2 DEF PlayerJoinsAtPosition
<1> HIDE DEF p
<1>4. /\ u \in States /\ SameGame(s, u) /\ u.role = s.role /\ u.queue = RemoveAt(s.queue, at)
      /\ (Spoken(s) => Spoken(u))
  BY <1>2, RemovalFields
<1>5. Shorter(s, u, at) /\ Once(u) /\ (InOrder(s) => InOrder(u))
  BY <1>4, ShorterLine
<1>6. \A i \in 1..Len(u.queue) : u.queue[i] # p
  BY <1>5 DEF Shorter, p
<1>7. /\ t \in States /\ SameGame(u, t) /\ t.role = [s.role EXCEPT ![p] = "playing"]
      /\ t.queue = u.queue /\ (Spoken(u) => Spoken(t))
  <2>1. /\ t \in States /\ SameGame(u, t) /\ t.role = [u.role EXCEPT ![p] = "playing"]
        /\ t.queue = u.queue
        /\ (Spoken(u) /\ (stranded \/ \A i \in 1..Len(u.queue) : u.queue[i] # p) => Spoken(t))
    BY <1>1, <1>3, <1>4, SpawnFields
  <2> QED BY <1>4, <1>6, <2>1
<1>8. Once(t) /\ Shorter(s, t, at) /\ (InOrder(u) => InOrder(t))
  <2>1. t.queue = u.queue
    BY <1>7
  <2>2. Once(t) /\ Shorter(s, t, at)
    <3>1. Once(t)
      BY <1>5, <2>1, SMTT(30) DEF Once
    <3>2. Shorter(s, t, at)
      BY <1>5, <2>1, Zenon DEF Shorter
    <3> QED BY <3>1, <3>2
  <2>3. InOrder(u) => InOrder(t)
    BY <2>1, SMTT(30) DEF InOrder
  <2> QED BY <2>2, <2>3
<1>9. Watch(t)
  <2>1. \A j \in 1..Len(s.queue) : s.queue[j] \in Player /\ Waits(s.role, s.queue[j])
    BY <1>1 DEF Watch
  <2>2. \A x \in Player : x # p => t.role[x] = s.role[x]
    BY <1>1, <1>7
  <2>3. \A x \in Player : x # p /\ Waits(s.role, x) => Waits(t.role, x)
    BY <2>2 DEF Waits
  <2>4. ASSUME NEW i \in 1..Len(t.queue) PROVE Waits(t.role, t.queue[i])
    <3>1. t.queue[i] # p
      BY <1>6, <1>7
    <3>2. PICK j \in 1..Len(s.queue) : t.queue[i] = s.queue[j]
      BY <1>8 DEF Shorter
    <3> QED BY <2>1, <2>3, <3>1, <3>2
  <2> QED BY <2>4 DEF Watch
<1>10. ~stranded => p \notin SeatedIn(s.role)
  BY <1>1 DEF Watch, Waits, SeatedIn, p
<1>11. /\ SeatedIn(t.role) = SeatedIn(s.role) \cup {p}
       /\ (p \notin SeatedIn(s.role) =>
             Cardinality(SeatedIn(t.role)) = Cardinality(SeatedIn(s.role)) + 1)
       /\ Cardinality(SeatedIn(s.role)) \in Nat
  <2>1. "playing" \in {"playing", "dead"}
    OBVIOUS
  <2>2. /\ SeatedIn([s.role EXCEPT ![p] = "playing"]) = SeatedIn(s.role) \cup {p}
        /\ (p \notin SeatedIn(s.role) =>
              Cardinality(SeatedIn([s.role EXCEPT ![p] = "playing"])) = Cardinality(SeatedIn(s.role)) + 1)
        /\ Cardinality(SeatedIn(s.role)) \in Nat
    BY <1>1, <2>1, SeatsCount
  <2> QED BY <1>7, <2>2
<1>12. Cardinality(SeatedIn(t.role)) <= Cardinality(SeatedIn(s.role)) + 1
  <2>1. CASE p \notin SeatedIn(s.role)
    BY <1>11, <2>1
  <2>2. CASE p \in SeatedIn(s.role)
    <3>1. SeatedIn(t.role) = SeatedIn(s.role)
      BY <1>11, <2>2
    <3>2. Cardinality(SeatedIn(t.role)) = Cardinality(SeatedIn(s.role))
      BY <3>1
    <3> HIDE DEF p
    <3>3. \A n \in Nat : n <= n + 1
      OBVIOUS
    <3> QED BY <1>11, <3>2, <3>3, Zenon
  <2> QED BY <2>1, <2>2
<1>13. SameGame(s, t)
  BY <1>4, <1>7 DEF SameGame
<1> QED BY <1>1, <1>4, <1>5, <1>7, <1>8, <1>9, <1>10, <1>11, <1>12, <1>13 DEF p

\* The first in line joins, if he still may.
LEMMA JoinStep ==
  ASSUME NEW s, Handled(s), TypeInv, NEW t, t = FirstJoins(s)
  PROVE  /\ Handled(t) /\ SameGame(s, t) /\ (Spoken(s) => Spoken(t))
         /\ SeatedIn(s.role) \subseteq SeatedIn(t.role)
         /\ PreventPlayersFromJoining(s) \/ s.queue = <<>> => t = s
         /\ ~PreventPlayersFromJoining(s) /\ s.queue # <<>> =>
              /\ Len(t.queue) = Len(s.queue) - 1
              /\ (stranded \/ Cardinality(SeatedIn(t.role)) = Cardinality(SeatedIn(s.role)) + 1)
<1>1. CASE PreventPlayersFromJoining(s) \/ s.queue = <<>>
  <2>1. t = s
    BY <1>1 DEF FirstJoins
  <2> QED BY <1>1, <2>1 DEF SameGame
<1>2. CASE ~PreventPlayersFromJoining(s) /\ s.queue # <<>>
  <2>1. PICK at \in 1..Len(s.queue) : at = 1 /\ t = PlayerJoinsAtPosition(s, at)
    <3>1. s.queue \in Seq(Player)
      BY DEF Handled, States
    <3>2. 1 \in 1..Len(s.queue) /\ t = PlayerJoinsAtPosition(s, 1)
      BY <1>2, <3>1 DEF FirstJoins
    <3> QED BY <3>2
  <2>2. /\ s \in States /\ Once(s) /\ Watch(s) /\ InOrder(s) /\ Passed(s) /\ Within(s)
        /\ s.queue \in Seq(Player) /\ queue \in Seq(Player)
    BY DEF Handled, States, TypeInv
  <2> DEFINE p == s.queue[at]
  <2>3. /\ t \in States /\ SameGame(s, t)
        /\ SeatedIn(t.role) = SeatedIn(s.role) \cup {p}
        /\ Cardinality(SeatedIn(t.role)) <= Cardinality(SeatedIn(s.role)) + 1
        /\ (~stranded => Cardinality(SeatedIn(t.role)) = Cardinality(SeatedIn(s.role)) + 1)
        /\ Once(t) /\ Watch(t) /\ InOrder(t) /\ (Spoken(s) => Spoken(t))
        /\ Shorter(s, t, at)
    <3>1. t = PlayerJoinsAtPosition(s, at) /\ at \in 1..Len(s.queue)
      BY <2>1
    <3>2. /\ t \in States /\ SameGame(s, t) /\ Once(t) /\ Watch(t) /\ (InOrder(s) => InOrder(t))
          /\ (Spoken(s) => Spoken(t)) /\ Shorter(s, t, at)
      BY <2>2, <3>1, SeatFields
    <3>3. /\ SeatedIn(t.role) = SeatedIn(s.role) \cup {s.queue[at]}
          /\ Cardinality(SeatedIn(t.role)) <= Cardinality(SeatedIn(s.role)) + 1
          /\ (~stranded => Cardinality(SeatedIn(t.role)) = Cardinality(SeatedIn(s.role)) + 1)
      BY <2>2, <3>1, SeatFields
    <3> QED BY <2>2, <3>2, <3>3
  <2> HIDE DEF p
  <2>4. Within(t)
    <3>1. Cardinality(SeatedIn(s.role)) \in Nat /\ s.seats \in Nat
      <4>1. s.role \in [Player -> Roles] /\ s.seats \in 1..MaxSeats
        BY <2>2 DEF States
      <4> QED BY <4>1, SeatsCount, JoinQueueAssumption
    <3>2. Cardinality(SeatedIn(s.role)) < s.seats
      BY <1>2, <3>1 DEF PreventPlayersFromJoining, Full
    <3>3. Cardinality(SeatedIn(t.role)) \in Nat
      <4>1. t.role \in [Player -> Roles]
        BY <2>3 DEF States
      <4> QED BY <4>1, SeatsCount
    <3>4. t.seats = s.seats
      BY <2>3 DEF SameGame
    <3> QED BY <2>3, <3>1, <3>2, <3>3, <3>4 DEF Within
  <2>5. Passed(t)
    <3> SUFFICES ASSUME ~stranded, NEW x \in NewIn(t), NEW y \in Player, AheadOf(y, x), NEW i \in 1..Len(t.queue)
                 PROVE  t.queue[i] # y
      BY DEF Passed
    <3>1. PICK j \in 1..Len(s.queue) : j # at /\ t.queue[i] = s.queue[j]
      BY <2>3 DEF Shorter
    <3>2. CASE x = p
      BY <2>1, <2>2, <3>1, <3>2 DEF InOrder, p
    <3>3. CASE x # p
      BY <2>2, <2>3, <3>1, <3>3 DEF Passed, NewIn
    <3> QED BY <3>2, <3>3
  <2> QED BY <1>2, <2>2, <2>3, <2>4, <2>5 DEF Handled, Shorter
<1> QED BY <1>1, <1>2

-----------------------------------------------------------------------------
(* The line popped.                                                        *)

\* The states while the line is popped, each with the first in line joined to
\* the one before.
Pops(popped, s, count) ==
  /\ popped[0] = s /\ \A i \in 1..count : popped[i] = FirstJoins(popped[i - 1])
  /\ PopQueue(s, count) = popped[count]

\* Popping is a recursion over the number popped; nobody has gone from the line.
LEMMA PopRuns ==
  ASSUME NEW s, Handled(s), TypeInv, NEW count \in Nat, ~PreventPlayersFromJoining(s)
  PROVE  \E popped : Pops(popped, s, count)
<1> DEFINE S == {x \in States : Handled(x)}
           in == [i \in 0..count |-> S]
           step == [i \in 1..count |-> [x \in S |-> FirstJoins(x)]]
           Runs(f) == f = [i \in 0..count |-> IF i = 0 THEN CheckSanity(s) ELSE FirstJoins(f[i - 1])]
           run == CHOOSE f : Runs(f)
<1>1. CheckSanity(s) = s /\ s \in S
  <2>1. s.queue \in Seq(Player) /\ \A i \in 1..Len(s.queue) : s.role[s.queue[i]] # "out"
    BY DEF Handled, Watch, Waits, States
  <2> QED BY <2>1 DEF CheckSanity, Handled
<1>2. \A x \in S : FirstJoins(x) \in S
  BY JoinStep DEF Handled
<1> HIDE DEF S
<1>3. s \in in[0] /\ \A i \in 1..count : \A x \in in[i - 1] : step[i][x] \in in[i]
  BY <1>1, <1>2
<1>4. PICK f : Recursion(f, count, s, step, in)
  <2> HIDE DEF in, step
  <2> QED BY <1>3, RecursionExists
<1>5. Runs(f)
  <2>1. f = [i \in 0..count |-> IF i = 0 THEN s ELSE step[i][f[i - 1]]]
    BY <1>4 DEF Recursion
  <2>2. \A i \in 0..count : f[i] \in S
    BY <1>4 DEF Recursion
  <2>3. \A i \in 1..count : step[i][f[i - 1]] = FirstJoins(f[i - 1])
    BY <2>2
  <2> HIDE DEF step
  <2> QED BY <1>1, <2>1, <2>3
<1>6. Runs(run) /\ PopQueue(s, count) = run[count]
  <2>1. PopQueue(s, count) = run[count]
    BY DEF PopQueue
  <2> HIDE DEF Runs
  <2> QED BY <1>5, <2>1
<1>7. PICK popped : Runs(popped) /\ PopQueue(s, count) = popped[count]
  <2> HIDE DEF Runs, run
  <2> QED BY <1>6
<1>8. popped[0] = s
  BY <1>1, <1>7
<1>9. ASSUME NEW i \in 1..count PROVE popped[i] = FirstJoins(popped[i - 1])
  <2>1. i \in 0..count /\ i # 0
    OBVIOUS
  <2> QED BY <1>7, <2>1, Zenon
<1> QED BY <1>7, <1>8, <1>9 DEF Pops

\* What holds after a pop, however many were asked for.
Popped(s, t) ==
  /\ Handled(t) /\ SameGame(s, t) /\ (Spoken(s) => Spoken(t))
  /\ SeatedIn(s.role) \subseteq SeatedIn(t.role)
  /\ PreventPlayersFromJoining(s) \/ s.queue = <<>> => t = s

\* Popping hands on a state like the one it was given, and as many pops as
\* there are players in line serve them all.
LEMMA PopStep ==
  ASSUME NEW s, Handled(s), TypeInv, NEW count \in Nat, NEW t, t = PopQueue(s, count)
  PROVE  Popped(s, t) /\ (count = Len(s.queue) => Served(t))
         /\ (count = 1 /\ ~PreventPlayersFromJoining(s) => t = FirstJoins(s))
<1>1. CASE PreventPlayersFromJoining(s)
  <2>1. t = s
    BY <1>1 DEF PopQueue
  <2> QED BY <1>1, <2>1 DEF Popped, Served, SameGame
<1>2. CASE ~PreventPlayersFromJoining(s)
  <2>1. PICK popped : Pops(popped, s, count)
    BY <1>2, PopRuns
  <2>2. /\ popped[0] = s /\ t = popped[count]
        /\ \A i \in 1..count : popped[i] = FirstJoins(popped[i - 1])
    BY <2>1 DEF Pops
  <2> DEFINE n == Len(s.queue)
             Left(i) == \/ PreventPlayersFromJoining(popped[i]) \/ popped[i].queue = <<>>
                        \/ Len(popped[i].queue) <= n - i
             T == {i \in 0..count : Popped(s, popped[i]) /\ Left(i)}
  <2>3. s.queue \in Seq(Player) /\ n \in Nat
    BY DEF Handled, States
  <2> HIDE DEF n
  <2>4. 0 \in T
    <3>1. Popped(s, s)
      BY DEF Popped, SameGame
    <3>2. Left(0)
      BY <2>2, <2>3 DEF n
    <3> QED BY <2>2, <3>1, <3>2
  <2>5. ASSUME NEW i \in 1..count, i - 1 \in T PROVE i \in T
    <3> DEFINE x == popped[i - 1]
               y == popped[i]
    <3>1. Popped(s, x) /\ Left(i - 1) /\ y = FirstJoins(x) /\ Handled(x)
      BY <2>2, <2>5 DEF Popped
    <3>2. /\ Handled(y) /\ SameGame(x, y) /\ (Spoken(x) => Spoken(y))
          /\ SeatedIn(x.role) \subseteq SeatedIn(y.role)
          /\ PreventPlayersFromJoining(x) \/ x.queue = <<>> => y = x
          /\ ~PreventPlayersFromJoining(x) /\ x.queue # <<>> => Len(y.queue) = Len(x.queue) - 1
      <4> HIDE DEF x, y
      <4> QED BY <3>1, JoinStep
    <3>3. Popped(s, y)
      BY <3>1, <3>2 DEF Popped, SameGame
    <3>4. Left(i)
      <4>1. x.queue \in Seq(Player) /\ Len(x.queue) \in Nat
        BY <3>1 DEF Handled, States
      <4>2. CASE PreventPlayersFromJoining(x) \/ x.queue = <<>>
        BY <3>2, <4>2
      <4>3. CASE ~(PreventPlayersFromJoining(x) \/ x.queue = <<>>)
        <5>1. Len(y.queue) = Len(x.queue) - 1 /\ Len(x.queue) <= n - (i - 1)
          BY <3>1, <3>2, <4>3
        <5>2. Len(y.queue) <= n - i
          <6> HIDE DEF x, y
          <6> QED BY <2>3, <4>1, <5>1
        <5> QED BY <5>2
      <4> QED BY <4>2, <4>3
    <3> QED BY <3>3, <3>4
  <2>6. Popped(s, t) /\ Left(count)
    <3>1. 0..count \subseteq T
      <4> HIDE DEF T
      <4> QED BY <2>4, <2>5, UpTo
    <3> QED BY <2>2, <3>1
  <2>7. count = n => Served(t)
    <3> SUFFICES ASSUME count = n, ~PreventPlayersFromJoining(t), t.queue # <<>> PROVE FALSE
      BY DEF Served
    <3>1. Len(t.queue) <= 0
      BY <2>2, <2>3, <2>6
    <3>2. t.queue \in Seq(Player)
      BY <2>6 DEF Popped, Handled, States
    <3> QED BY <3>1, <3>2
  <2>8. count = 1 => t = FirstJoins(s)
    BY <2>2
  <2> QED BY <2>6, <2>7, <2>8 DEF n
<1> QED BY <1>1, <1>2

-----------------------------------------------------------------------------
(* The rounds of survival.                                                 *)

\* What bears on the line and the seats is the same.
SameLine(s, t) ==
  /\ t \in States /\ t.seats = s.seats /\ t.queue = s.queue /\ t.told = s.told
  /\ SeatedIn(t.role) = SeatedIn(s.role)
  /\ \A p \in Player : Waits(s.role, p) => Waits(t.role, p)

\* A state with the same line and the same seats taken is handled as well.
LEMMA StaysHandled ==
  ASSUME NEW s, NEW t, Handled(s), SameLine(s, t)
  PROVE  Handled(t) /\ (Spoken(s) => Spoken(t))
<1>1. s \in States /\ s.queue \in Seq(Player)
  BY DEF Handled, States
<1>2. Once(t) /\ InOrder(t)
  BY DEF Handled, SameLine, Once, InOrder
<1>3. Watch(t)
  BY <1>1 DEF Handled, SameLine, Watch
<1>4. Passed(t) /\ Within(t)
  BY DEF Handled, SameLine, Passed, Within, NewIn
<1>5. Spoken(s) => Spoken(t)
  BY DEF SameLine, Spoken
<1> QED BY <1>2, <1>3, <1>4, <1>5 DEF Handled, SameLine

\* A round, a delay or a stage that begins or ends leaves line and seats alone.
LEMMA SameLineSets ==
  ASSUME NEW s \in States, NEW t
  PROVE  /\ \A r \in Rounds : t = [s EXCEPT !.round = r] =>
              /\ SameLine(s, t) /\ t.role = s.role
              /\ t.round = r /\ t.stage = s.stage /\ t.ending = s.ending
         /\ \A e \in BOOLEAN : t = [s EXCEPT !.ending = e] =>
              /\ SameLine(s, t) /\ t.role = s.role
              /\ t.ending = e /\ t.stage = s.stage /\ t.round = s.round
         /\ \A g \in {"level", "intermission", "loading"} : t = [s EXCEPT !.stage = g] =>
              /\ SameLine(s, t) /\ t.role = s.role
              /\ t.stage = g /\ t.round = s.round /\ t.ending = s.ending
<1>1. ASSUME NEW r \in Rounds, t = [s EXCEPT !.round = r]
      PROVE  /\ SameLine(s, t) /\ t.role = s.role
             /\ t.round = r /\ t.stage = s.stage /\ t.ending = s.ending
  <2>1. /\ t \in States /\ t.round = r
        /\ t.seats = s.seats /\ t.stage = s.stage /\ t.ending = s.ending
        /\ t.role = s.role /\ t.queue = s.queue /\ t.told = s.told
    BY <1>1, Sets
  <2> QED BY <2>1 DEF SameLine
<1>2. ASSUME NEW e \in BOOLEAN, t = [s EXCEPT !.ending = e]
      PROVE  /\ SameLine(s, t) /\ t.role = s.role
             /\ t.ending = e /\ t.stage = s.stage /\ t.round = s.round
  <2>1. /\ t \in States /\ t.ending = e
        /\ t.seats = s.seats /\ t.stage = s.stage /\ t.round = s.round
        /\ t.role = s.role /\ t.queue = s.queue /\ t.told = s.told
    BY <1>2, Sets
  <2> QED BY <2>1 DEF SameLine
<1>3. ASSUME NEW g \in {"level", "intermission", "loading"}, t = [s EXCEPT !.stage = g]
      PROVE  /\ SameLine(s, t) /\ t.role = s.role
             /\ t.stage = g /\ t.round = s.round /\ t.ending = s.ending
  <2>1. /\ t \in States /\ t.stage = g
        /\ t.seats = s.seats /\ t.round = s.round /\ t.ending = s.ending
        /\ t.role = s.role /\ t.queue = s.queue /\ t.told = s.told
    BY <1>3, Sets
  <2> QED BY <2>1 DEF SameLine
<1> QED BY <1>1, <1>2, <1>3

\* The dead who play again kept their seats.
LEMMA RespawnStep ==
  ASSUME NEW s \in States, NEW t, t = RespawnDeadPlayers(s)
  PROVE  SameLine(s, t) /\ SameGame(s, t)
<1> DEFINE roles == [p \in Player |-> IF s.role[p] = "dead" THEN "playing" ELSE s.role[p]]
<1>1. s.role \in [Player -> Roles]
  BY DEF States
<1>2. roles \in [Player -> Roles]
  BY <1>1 DEF Roles
<1>3. SeatedIn(roles) = SeatedIn(s.role)
  BY <1>1 DEF SeatedIn
<1>4. \A p \in Player : Waits(s.role, p) => Waits(roles, p)
  BY DEF Waits
<1>5. t = [s EXCEPT !.role = roles]
  BY DEF RespawnDeadPlayers
<1> HIDE DEF roles
<1>6. t \in States /\ SameGame(s, t) /\ t.role = roles /\ t.queue = s.queue /\ t.told = s.told
  BY <1>2, <1>5, Sets
<1> QED BY <1>3, <1>4, <1>6 DEF SameLine, SameGame

\* The round is waited for again: the dead respawn and the line is popped.
LEMMA WaitStep ==
  ASSUME NEW s, Handled(s), TypeInv, NEW t, t = WaitForPlayers(s)
  PROVE  /\ Handled(t) /\ Served(t) /\ (Spoken(s) => Spoken(t))
         /\ t.round = "waiting" /\ t.stage = s.stage /\ t.seats = s.seats /\ t.ending = s.ending
         /\ (s.queue = <<>> => t.queue = <<>> /\ SeatedIn(t.role) = SeatedIn(s.role))
<1> DEFINE u == [s EXCEPT !.round = "waiting"]
           v == RespawnDeadPlayers(u)
<1>1. t = PopQueue(v, Len(v.queue))
  BY DEF WaitForPlayers, PopAll
<1>2. s \in States /\ "waiting" \in Rounds
  BY DEF Handled, Rounds
<1>3. /\ SameLine(s, u) /\ u.round = "waiting" /\ u.stage = s.stage /\ u.ending = s.ending
      /\ u.seats = s.seats
  BY <1>2, SameLineSets DEF SameLine
<1>4. SameLine(u, v) /\ SameGame(u, v)
  <2> HIDE DEF u
  <2> QED BY <1>3, RespawnStep DEF SameLine
<1> HIDE DEF u, v
<1>5. Handled(u) /\ (Spoken(s) => Spoken(u))
  BY <1>3, StaysHandled
<1>6. Handled(v) /\ (Spoken(u) => Spoken(v)) /\ Len(v.queue) \in Nat
  <2>1. Handled(v) /\ (Spoken(u) => Spoken(v))
    BY <1>4, <1>5, StaysHandled
  <2>2. v.queue \in Seq(Player)
    BY <2>1 DEF Handled, States
  <2> QED BY <2>1, <2>2
<1>7. Popped(v, t) /\ Served(t)
  BY <1>1, <1>6, PopStep
<1> QED BY <1>3, <1>4, <1>5, <1>6, <1>7 DEF Popped, SameGame, SameLine

\* The mission failed: nobody may join until it is over.
LEMMA FailStep ==
  ASSUME NEW s, Handled(s), NEW t, t = FailMission(s)
  PROVE  /\ Handled(t) /\ (Spoken(s) => Spoken(t)) /\ SameLine(s, t)
         /\ t.round = "failed" /\ t.stage = s.stage /\ t.role = s.role
<1> DEFINE u == [s EXCEPT !.round = "failed"]
<1>1. t = [u EXCEPT !.ending = TRUE]
  BY DEF FailMission
<1>2. s \in States /\ "failed" \in Rounds
  BY DEF Handled, Rounds
<1>3. SameLine(s, u) /\ u.role = s.role /\ u.round = "failed" /\ u.stage = s.stage
  BY <1>2, SameLineSets
<1> HIDE DEF u
<1>4. SameLine(u, t) /\ t.role = u.role /\ t.round = "failed" /\ t.stage = u.stage
  <2>1. u \in States /\ TRUE \in BOOLEAN
    BY <1>3 DEF SameLine
  <2> QED BY <1>1, <1>3, <2>1, SameLineSets
<1>5. SameLine(s, t)
  BY <1>3, <1>4 DEF SameLine
<1> QED BY <1>3, <1>4, <1>5, StaysHandled

-----------------------------------------------------------------------------
(* What a request or an event starts from.                                 *)

\* The state a handler is given.
LEMMA NowFields ==
  ASSUME TypeInv, LineOfWatchers
  PROVE  /\ Now \in States /\ Handled(Now) /\ Spoken(Now)
         /\ Now.seats = seats /\ Now.stage = stage /\ Now.round = round /\ Now.ending = ending
         /\ Now.role = role /\ Now.queue = queue /\ Now.told = <<>>
         /\ \A p \in Player : HandledBut(Now, p)
<1>1. /\ Now.seats = seats /\ Now.stage = stage /\ Now.round = round /\ Now.ending = ending
      /\ Now.role = role /\ Now.queue = queue /\ Now.told = <<>>
  BY DEF Now
<1>2. Now \in States
  BY DEF TypeInv, Now, States
<1>3. Once(Now) /\ Watch(Now) /\ NewIn(Now) = {}
  BY <1>1 DEF LineOfWatchers, Once, Watch, Waits, NewIn, Seated
<1>4. InOrder(Now)
  <2>1. \A i \in 1..Len(queue) : PositionInLine(queue, queue[i]) = i
    BY OnlyPosition DEF TypeInv, LineOfWatchers
  <2> QED BY <1>1, <2>1 DEF InOrder, AheadOf
<1>5. Passed(Now) /\ Within(Now)
  BY <1>3 DEF Passed, Within
<1>6. Spoken(Now)
  BY <1>1, AppliedFew DEF Spoken, TypeInv
<1>7. \A p : WatchBut(Now, p)
  BY <1>3 DEF WatchBut, Watch
<1> QED BY <1>1, <1>2, <1>3, <1>4, <1>5, <1>6, <1>7 DEF Handled, HandledBut

\* One player's part changes.
Recast(p, r) == [Now EXCEPT !.role[p] = r]

LEMMA RoleSet ==
  ASSUME TypeInv, LineOfWatchers, NEW p \in Player, NEW r \in Roles, NEW t, t = Recast(p, r)
  PROVE  /\ t \in States /\ SameGame(Now, t) /\ t.role = [role EXCEPT ![p] = r]
         /\ t.queue = queue /\ t.told = <<>> /\ Spoken(t)
         /\ Once(t) /\ WatchBut(t, p) /\ InOrder(t)
         /\ (stranded /\ r # "out") \/ (\A i \in 1..Len(queue) : queue[i] # p) => Watch(t)
<1> DEFINE roles == [role EXCEPT ![p] = r]
<1>1. /\ Now \in States /\ Handled(Now) /\ Spoken(Now) /\ Now.role = role /\ Now.queue = queue
      /\ Now.told = <<>>
  BY NowFields
<1>2. roles \in [Player -> Roles] /\ queue \in Seq(Player) /\ role \in [Player -> Roles]
  BY DEF TypeInv
<1>3. t = [Now EXCEPT !.role = roles]
  BY <1>1 DEF Recast
<1>4. \A x \in Player : x # p => roles[x] = role[x]
  BY <1>2
<1> HIDE DEF roles
<1>5. t \in States /\ SameGame(Now, t) /\ t.role = roles /\ t.queue = queue /\ t.told = <<>>
  <2>1. PICK s \in States : s = Now
    BY <1>1
  <2>2. /\ t \in States /\ SameGame(s, t) /\ t.role = roles /\ t.queue = s.queue /\ t.told = s.told
    BY <1>2, <1>3, <2>1, Sets
  <2> QED BY <1>1, <2>1, <2>2
<1>6. Once(t) /\ InOrder(t) /\ Spoken(t)
  BY <1>1, <1>5 DEF Handled, Once, InOrder, Spoken
<1>7. \A i \in 1..Len(queue) : queue[i] \in Player /\ Waits(role, queue[i])
  BY <1>2 DEF LineOfWatchers, Waits
<1>8. /\ \A x \in Player : x # p /\ Waits(role, x) => Waits(roles, x)
      /\ stranded /\ r # "out" => Waits(roles, p)
  BY <1>2, <1>4 DEF Waits, roles
<1>9. /\ WatchBut(t, p)
      /\ (stranded /\ r # "out") \/ (\A i \in 1..Len(queue) : queue[i] # p) => Watch(t)
  BY <1>5, <1>7, <1>8 DEF WatchBut, Watch
<1> QED BY <1>5, <1>6, <1>9 DEF roles

\* A player gives up his seat, or has none.
LEMMA GivesUpSeat ==
  ASSUME TypeInv, LineOfWatchers, NEW p \in Player, NEW r \in {"out", "spectating"},
         NEW s, s = Recast(p, r)
  PROVE  /\ HandledBut(s, p) /\ SameGame(Now, s) /\ s.queue = queue /\ Spoken(s)
         /\ Cardinality(SeatedIn(s.role)) \in Nat /\ Cardinality(SeatedIn(role)) \in Nat
         /\ Cardinality(SeatedIn(s.role)) >= Cardinality(SeatedIn(role)) - 1
<1>1. r \in Roles
  BY DEF Roles
<1>2. /\ s \in States /\ SameGame(Now, s) /\ s.role = [role EXCEPT ![p] = r]
      /\ s.queue = queue /\ Spoken(s) /\ Once(s) /\ WatchBut(s, p) /\ InOrder(s)
  BY <1>1, RoleSet
<1>3. role \in [Player -> Roles] /\ s.role \in [Player -> Roles]
  BY <1>2 DEF TypeInv, States
<1>4. /\ SeatedIn(s.role) = SeatedIn(role) \ {p}
      /\ Cardinality(SeatedIn(s.role)) >= Cardinality(SeatedIn(role)) - 1
  <2>1. /\ SeatedIn([role EXCEPT ![p] = r]) = SeatedIn(role) \ {p}
        /\ Cardinality(SeatedIn([role EXCEPT ![p] = r])) >= Cardinality(SeatedIn(role)) - 1
    BY <1>3, SeatsCount
  <2> QED BY <1>2, <2>1
<1>5. Cardinality(SeatedIn(s.role)) \in Nat /\ Cardinality(SeatedIn(role)) \in Nat
  BY <1>3, SeatsCount
<1>6. NewIn(s) = {}
  BY <1>4 DEF NewIn, Seated
<1>7. Passed(s) /\ Within(s)
  BY <1>6 DEF Passed, Within
<1> QED BY <1>2, <1>4, <1>5, <1>7 DEF HandledBut

\* A player who gave up his seat is gone from the line too, and one who waits
\* takes the seat: nobody is left who could join.
LEMMA LeftStep ==
  ASSUME TypeInv, LineOfWatchers, NoIdleSeat, NEW p \in Player, NEW r \in {"out", "spectating"},
         NEW s, s = Recast(p, r), NEW t, t = PlayerLeftGame(s, p, TRUE)
  PROVE  Handled(t) /\ Spoken(t) /\ Served(t) /\ t.stage = stage
<1> DEFINE left == RemovePlayerFromQueue(s, p)
           settled == IF mode = "survival" /\ SeatedIn(left.role) = {}
                      THEN IF left.queue # <<>> THEN FailMission(left) ELSE WaitForPlayers(left)
                      ELSE left
<1>1. t = PopQueue(settled, 1)
  BY DEF PlayerLeftGame
<1>2. /\ HandledBut(s, p) /\ SameGame(Now, s) /\ s.queue = queue /\ Spoken(s)
      /\ Cardinality(SeatedIn(s.role)) \in Nat /\ Cardinality(SeatedIn(role)) \in Nat
      /\ Cardinality(SeatedIn(s.role)) >= Cardinality(SeatedIn(role)) - 1
  BY GivesUpSeat
<1>3. queue \in Seq(Player) /\ seats \in Nat /\ stage \in {"level", "intermission"}
  BY JoinQueueAssumption DEF TypeInv
<1>4. left = RemovePlayerFromQueue(s, p)
  OBVIOUS
<1> HIDE DEF left
<1>5. /\ Handled(left) /\ SameGame(s, left) /\ left.role = s.role /\ Spoken(left)
      /\ (s.queue = <<>> => left = s)
  BY <1>2, <1>3, <1>4, LeaveLine
<1>6. Now.seats = seats /\ Now.stage = stage /\ Now.round = round /\ Now.role = role
  BY NowFields
<1>7. left.stage = stage /\ left.seats = seats /\ left.round = round
  BY <1>2, <1>5, <1>6 DEF SameGame
<1>8. CASE mode = "survival" /\ SeatedIn(left.role) = {} /\ left.queue # <<>>
  <2>1. settled = FailMission(left)
    BY <1>8
  <2> HIDE DEF settled
  <2>2. Handled(settled) /\ Spoken(settled) /\ settled.round = "failed" /\ settled.stage = stage
    BY <1>5, <1>7, <2>1, FailStep
  <2>3. PreventPlayersFromJoining(settled)
    BY <1>3, <1>8, <2>2 DEF PreventPlayersFromJoining
  <2>4. t = settled
    BY <1>1, <2>3 DEF PopQueue
  <2> QED BY <2>2, <2>3, <2>4 DEF Served
<1>9. CASE mode = "survival" /\ SeatedIn(left.role) = {} /\ left.queue = <<>>
  <2>1. settled = WaitForPlayers(left)
    BY <1>9
  <2> HIDE DEF settled
  <2>2. Handled(settled) /\ Spoken(settled) /\ settled.queue = <<>> /\ settled.stage = stage
    BY <1>5, <1>7, <1>9, <2>1, WaitStep
  <2>3. Popped(settled, t)
    BY <1>1, <2>2, PopStep
  <2> QED BY <2>2, <2>3 DEF Served, Popped
<1>10. CASE ~(mode = "survival" /\ SeatedIn(left.role) = {})
  <2>1. settled = left
    BY <1>10
  <2> HIDE DEF settled
  <2>2. /\ Popped(left, t)
        /\ (~PreventPlayersFromJoining(left) => t = FirstJoins(left))
    BY <1>1, <1>5, <2>1, PopStep
  <2>3. Handled(t) /\ Spoken(t) /\ SameGame(left, t)
    BY <1>5, <2>2 DEF Popped
  <2>4. CASE PreventPlayersFromJoining(left) \/ left.queue = <<>>
    BY <1>7, <2>2, <2>3, <2>4 DEF Popped, Served
  <2>5. CASE ~PreventPlayersFromJoining(left) /\ left.queue # <<>> /\ ~stranded
    <3>1. Cardinality(SeatedIn(t.role)) = Cardinality(SeatedIn(left.role)) + 1
      BY <1>5, <2>2, <2>5, JoinStep
    <3>2. queue # <<>>
      BY <1>2, <1>5, <2>5
    <3>3. PreventPlayersFromJoining(Now) /\ ~PreventPlayersFromJoining(left)
      BY <2>5, <3>2 DEF NoIdleSeat, OpenSlotsFill
    <3>4. Full(Now)
      BY <1>6, <1>7, <3>3 DEF PreventPlayersFromJoining
    <3>5. Cardinality(SeatedIn(role)) >= seats
      BY <1>6, <3>4 DEF Full
    <3>6. Cardinality(SeatedIn(t.role)) >= seats /\ t.seats = seats
      <4>1. SeatedIn(left.role) = SeatedIn(s.role) /\ t.seats = seats
        BY <1>5, <1>7, <2>3 DEF SameGame
      <4> DEFINE a == Cardinality(SeatedIn(s.role))
                 b == Cardinality(SeatedIn(role))
                 c == Cardinality(SeatedIn(t.role))
      <4>2. a \in Nat /\ b \in Nat /\ a >= b - 1 /\ b >= seats /\ c = a + 1
        BY <1>2, <3>1, <3>5, <4>1
      <4> HIDE DEF a, b, c
      <4>3. c >= seats
        BY <1>3, <4>2
      <4> QED BY <4>1, <4>3 DEF c
    <3>7. PreventPlayersFromJoining(t)
      BY <3>6 DEF PreventPlayersFromJoining, Full
    <3> QED BY <1>7, <2>3, <3>7 DEF Served, SameGame
  <2>6. CASE stranded
    BY <1>7, <2>3, <2>6 DEF Served, SameGame
  <2> QED BY <2>4, <2>5, <2>6
<1> QED BY <1>8, <1>9, <1>10

\* A watcher goes to the end of the line, unless he is in it.
LEMMA AddStep ==
  ASSUME TypeInv, LineOfWatchers, NEW p \in Player, role[p] = "spectating",
         NEW t, t = AddPlayer(Now, p)
  PROVE  /\ Handled(t) /\ Spoken(t) /\ SameGame(Now, t) /\ t.role = role
<1>1. /\ Now \in States /\ Handled(Now) /\ Spoken(Now) /\ Now.role = role /\ Now.queue = queue
      /\ Now.told = <<>>
      /\ Now.seats = seats /\ Now.stage = stage /\ Now.round = round /\ Now.ending = ending
  BY NowFields
<1>2. queue \in Seq(Player)
  BY DEF TypeInv
<1>3. CASE PositionInLine(queue, p) # 0
  <2>1. t = Now
    BY <1>1, <1>3 DEF AddPlayer
  <2> QED BY <1>1, <2>1 DEF SameGame
<1>4. CASE PositionInLine(queue, p) = 0
  <2> DEFINE c == [do |-> "push", player |-> p]
             q == Append(queue, p)
  <2>1. t = [seats |-> seats, stage |-> stage, round |-> round, ending |-> ending,
             role |-> role, queue |-> q, told |-> <<c>>]
    <3> DEFINE x == [Now EXCEPT !.queue = q]
    <3> HIDE DEF q
    <3>1. x = [seats |-> seats, stage |-> stage, round |-> round, ending |-> ending,
               role |-> role, queue |-> q, told |-> <<>>]
      BY DEF Now
    <3>2. t = [x EXCEPT !.told = Append(x.told, c)]
      BY <1>1, <1>4 DEF AddPlayer, Tell, q
    <3>3. Append(<<>>, c) = <<c>>
      OBVIOUS
    <3> HIDE DEF x, c
    <3> QED BY <3>1, <3>2, <3>3
  <2>2. c \in Commands
    BY DEF Commands
  <2>3. /\ q \in Seq(Player) /\ Len(q) = Len(queue) + 1 /\ Len(queue) \in Nat
        /\ q[Len(queue) + 1] = p /\ \A i \in 1..Len(queue) : q[i] = queue[i]
    BY <1>2
  <2>4. Apply(queue, c) = q
    BY <1>4 DEF Apply
  <2> HIDE DEF c, q
  <2>5. /\ t.seats = seats /\ t.stage = stage /\ t.round = round /\ t.ending = ending
        /\ t.role = role /\ t.queue = q /\ t.told = <<c>>
    BY <2>1
  <2>6. t \in States
    <3>1. <<c>> \in Seq(Commands)
      BY <2>2
    <3> QED BY <2>1, <2>3, <3>1 DEF States, TypeInv
  <2>7. \A i \in 1..Len(queue) : queue[i] # p /\ queue[i] \in Player /\ Waits(role, queue[i])
    BY <1>2, <1>4, Positions DEF LineOfWatchers, Waits
  <2>8. Watch(t)
    BY <2>3, <2>5, <2>7 DEF Watch, Waits
  <2>9. Once(t)
    <3>1. \A i, j \in 1..Len(queue) : queue[i] = queue[j] => i = j
      BY DEF LineOfWatchers
    <3> QED BY <2>3, <2>5, <2>7, <3>1 DEF Once
  <2>10. InOrder(t)
    <3>1. \A i, j \in 1..Len(queue) : i < j => ~AheadOf(queue[j], queue[i])
      BY <1>1 DEF Handled, InOrder
    <3>2. \A x : ~AheadOf(p, x)
      BY <1>4 DEF AheadOf
    <3> QED BY <2>3, <2>5, <3>1, <3>2 DEF InOrder
  <2>11. Passed(t) /\ Within(t)
    BY <2>5 DEF Passed, Within, NewIn, Seated
  <2>12. Spoken(t)
    BY <1>2, <2>2, <2>4, <2>5, AppliedFew DEF Spoken
  <2>13. SameGame(Now, t)
    BY <1>1, <2>5 DEF SameGame
  <2> QED BY <2>5, <2>6, <2>8, <2>9, <2>10, <2>11, <2>12, <2>13 DEF Handled
<1> QED BY <1>3, <1>4

-----------------------------------------------------------------------------
(* What is kept when a handled state becomes the server's.                 *)

\* Nobody who sits down leaves anybody behind who was in line before him.
NoneOvertaken ==
  stranded \/ \A p, q \in Player : Sits(p) /\ AheadOf(q, p) => PositionInLine(queue', q) = 0

\* Nobody sits down on a seat that is not there.
NoneOverfull == (\E p \in Player : Sits(p)) => Cardinality(SeatedIn(role')) <= seats'

\* The server's half of the invariant.
ServerInv ==
  /\ mode \in Modes /\ seats \in 1..MaxSeats
  /\ stage \in {"level", "intermission"} /\ round \in Rounds /\ ending \in BOOLEAN
  /\ role \in [Player -> Roles] /\ queue \in Seq(Player)
  /\ stranded \in BOOLEAN /\ (stranded => mode = "team")
  /\ LineOfWatchers /\ NoIdleSeat

\* The client's half.
ClientInv ==
  /\ seen \in {"away", "loading", "spawned"}
  /\ wire \in Seq(Commands) /\ copy \in Seq(Player) /\ CopyFollows

\* What the game or a request may leave behind.
Settled(s) ==
  s \in States /\ Once(s) /\ Watch(s) /\ Served(s) /\ s.stage \in {"level", "intermission"}

LEMMA ServerStep ==
  ASSUME mode \in Modes, stranded \in BOOLEAN, stranded => mode = "team", stranded' = stranded,
         NEW s, Settled(s), Become(s)
  PROVE  ServerInv'
<1>1. /\ mode' \in Modes /\ seats' = s.seats /\ stage' = s.stage /\ round' = s.round
      /\ ending' = s.ending /\ role' = s.role /\ queue' = s.queue /\ mode' = mode
  BY DEF Become
<1>2. /\ seats' \in 1..MaxSeats /\ stage' \in {"level", "intermission"} /\ round' \in Rounds
      /\ ending' \in BOOLEAN /\ role' \in [Player -> Roles] /\ queue' \in Seq(Player)
  BY <1>1 DEF Settled, States
<1>3. LineOfWatchers'
  BY <1>1 DEF Settled, Once, Watch, Waits, LineOfWatchers
<1>4. NoIdleSeat'
  BY <1>1 DEF Settled, Served, NoIdleSeat, OpenSlotsFill, PreventPlayersFromJoining, Full, Now
<1> QED BY <1>1, <1>2, <1>3, <1>4 DEF ServerInv

\* Whoever sat down left nobody behind.
LEMMA FairStep ==
  ASSUME NEW s, s \in States, Become(s)
  PROVE  (Passed(s) => NoneOvertaken) /\ (Within(s) => NoneOverfull)
<1>1. role' = s.role /\ queue' = s.queue /\ seats' = s.seats /\ s.queue \in Seq(Player)
  BY DEF Become, States
<1>2. \A p \in Player : Sits(p) <=> p \in NewIn(s)
  BY <1>1 DEF Sits, NewIn, SeatedIn
<1>3. ASSUME Passed(s) PROVE NoneOvertaken
  <2> SUFFICES ASSUME ~stranded, NEW p \in Player, NEW q \in Player, Sits(p), AheadOf(q, p)
               PROVE  PositionInLine(s.queue, q) = 0
    BY <1>1 DEF NoneOvertaken
  <2>1. \A i \in 1..Len(s.queue) : s.queue[i] # q
    BY <1>2, <1>3 DEF Passed
  <2>2. s.queue \in Seq(Player)
    BY <1>1
  <2> QED BY <2>1, <2>2, Positions
<1>4. ASSUME Within(s) PROVE NoneOverfull
  BY <1>1, <1>2, <1>4 DEF Within, NoneOverfull
<1> QED BY <1>3, <1>4

\* The watcher is told what changed, behind what it has been told before.
LEMMA ClientStep ==
  ASSUME QueueInv, NEW s, s \in States, Spoken(s), queue' = s.queue, Broadcast(s),
         UNCHANGED <<seen, copy, stranded>>
  PROVE  ClientInv'
<1>1. /\ wire \in Seq(Commands) /\ copy \in Seq(Player) /\ s.told \in Seq(Commands)
      /\ seen \in {"away", "loading", "spawned"}
  BY DEF QueueInv, TypeInv, States
<1>2. wire' \in Seq(Commands)
  BY <1>1 DEF Broadcast
<1>3. ASSUME seen = "spawned", ~stranded PROVE Applied(copy, wire') = s.queue
  <2>1. wire' = wire \o s.told
    BY <1>3 DEF Broadcast
  <2>2. Applied(copy, wire \o s.told) = Applied(Applied(copy, wire), s.told)
    BY <1>1, AppliedInTwo
  <2>3. Applied(copy, wire) = queue
    BY <1>3 DEF QueueInv, CopyFollows
  <2> QED BY <1>3, <2>1, <2>2, <2>3 DEF Spoken
<1>4. CopyFollows'
  BY <1>3 DEF CopyFollows
<1> QED BY <1>1, <1>2, <1>4 DEF ClientInv

\* A client in the level is sent the line as it is.
LEMMA SyncStep ==
  ASSUME QueueInv, seen' = "spawned", wire' = <<[do |-> "sync", line |-> queue]>>, copy' = <<>>,
         queue' = queue
  PROVE  ClientInv'
<1> DEFINE c == [do |-> "sync", line |-> queue]
<1>1. queue \in Seq(Player) /\ c \in Commands /\ <<>> \in Seq(Player)
  BY DEF QueueInv, TypeInv, Commands
<1>2. Apply(<<>>, c) = queue
  BY DEF Apply
<1> HIDE DEF c
<1>3. <<c>> \in Seq(Commands) /\ wire' = <<c>>
  BY <1>1 DEF c
<1>4. Applied(<<>>, <<c>>) = Apply(<<>>, c)
  BY <1>1, AppliedFew
<1>5. CopyFollows'
  BY <1>2, <1>3, <1>4 DEF CopyFollows
<1> QED BY <1>1, <1>3, <1>5 DEF ClientInv

\* A client out of the level holds no copy to go by.
LEMMA AwayStep ==
  ASSUME QueueInv, seen' \in {"away", "loading"}, wire' = <<>>, copy' = <<>>
  PROVE  ClientInv'
<1>1. wire' \in Seq(Commands) /\ copy' \in Seq(Player)
  OBVIOUS
<1>2. CopyFollows'
  BY DEF CopyFollows
<1> QED BY <1>1, <1>2 DEF ClientInv

\* A step that keeps the invariant, passes nobody and sells no seat twice.
Right == QueueInv' /\ NoneOvertaken /\ NoneOverfull

\* A handled state, told to the clients, is right.
LEMMA UpdateStep ==
  ASSUME QueueInv, NEW s, Handled(s), Spoken(s), Served(s),
         s.stage \in {"level", "intermission"},
         Become(s), Broadcast(s), UNCHANGED <<seen, copy, stranded>>
  PROVE  Right
<1>1. /\ s \in States /\ Settled(s) /\ Passed(s) /\ Within(s) /\ mode \in Modes
      /\ stranded \in BOOLEAN /\ (stranded => mode = "team")
  BY DEF Handled, Settled, QueueInv, TypeInv
<1>2. ServerInv'
  BY <1>1, ServerStep
<1>3. NoneOvertaken /\ NoneOverfull
  BY <1>1, FairStep
<1>4. queue' = s.queue
  BY DEF Become
<1>5. ClientInv'
  BY <1>1, <1>4, ClientStep
<1> QED BY <1>2, <1>3, <1>5 DEF Right, QueueInv, ServerInv, ClientInv, TypeInv

-----------------------------------------------------------------------------
(* The requests.                                                           *)

\* A client for whom there is a seat, or who sat before, sits: nobody is in line,
\* unless the line is stranded.
LEMMA TakesSeat ==
  ASSUME TypeInv, LineOfWatchers, NoIdleSeat, NEW p \in Player,
         ~PreventPlayersFromJoining(Now) \/ p \in Seated,
         NEW s, s = Recast(p, "playing")
  PROVE  /\ Handled(s) /\ Spoken(s) /\ Served(s) /\ s.stage = stage
         /\ stranded \/ \A i \in 1..Len(s.queue) : s.queue[i] # p
<1>1. "playing" \in Roles
  BY DEF Roles
<1>2. /\ s \in States /\ SameGame(Now, s) /\ s.role = [role EXCEPT ![p] = "playing"]
      /\ s.queue = queue /\ s.told = <<>> /\ Spoken(s) /\ Once(s) /\ InOrder(s)
      /\ (stranded \/ (\A i \in 1..Len(queue) : queue[i] # p) => Watch(s))
  BY <1>1, RoleSet
<1>3. /\ Now.seats = seats /\ Now.stage = stage /\ Now.round = round /\ Now.role = role
      /\ Now.queue = queue
  BY NowFields
<1>4. stranded \/ \A i \in 1..Len(queue) : queue[i] # p
  <2> SUFFICES ASSUME ~stranded PROVE \A i \in 1..Len(queue) : queue[i] # p
    OBVIOUS
  <2>1. CASE ~PreventPlayersFromJoining(Now)
    BY <2>1 DEF NoIdleSeat, OpenSlotsFill
  <2>2. CASE p \in Seated
    BY <2>2 DEF LineOfWatchers, Seated, SeatedIn
  <2> QED BY <2>1, <2>2
<1>5. role \in [Player -> Roles] /\ seats \in Nat
  BY JoinQueueAssumption DEF TypeInv
<1>6. /\ SeatedIn(s.role) = SeatedIn(role) \cup {p}
      /\ (p \notin SeatedIn(role) => Cardinality(SeatedIn(s.role)) = Cardinality(SeatedIn(role)) + 1)
      /\ Cardinality(SeatedIn(role)) \in Nat
  <2>1. "playing" \in {"playing", "dead"}
    OBVIOUS
  <2>2. /\ SeatedIn([role EXCEPT ![p] = "playing"]) = SeatedIn(role) \cup {p}
        /\ (p \notin SeatedIn(role) =>
              Cardinality(SeatedIn([role EXCEPT ![p] = "playing"])) = Cardinality(SeatedIn(role)) + 1)
    BY <1>5, <2>1, SeatsCount
  <2>3. Cardinality(SeatedIn(role)) \in Nat
    BY <1>5, SeatsCount
  <2> QED BY <1>2, <2>2, <2>3
<1>7. NewIn(s) \subseteq {p} /\ (p \in Seated => NewIn(s) = {})
  BY <1>6 DEF NewIn, Seated
<1>8. Passed(s)
  <2>1. CASE ~PreventPlayersFromJoining(Now) /\ ~stranded
    <3>1. queue = <<>>
      BY <2>1 DEF NoIdleSeat, OpenSlotsFill
    <3> QED BY <1>2, <3>1 DEF Passed
  <2>2. CASE p \in Seated \/ stranded
    BY <1>7, <2>2 DEF Passed
  <2> QED BY <2>1, <2>2
<1>9. Within(s)
  <2>1. CASE p \notin Seated
    <3>1. ~Full(Now)
      BY <2>1 DEF PreventPlayersFromJoining
    <3>2. Cardinality(SeatedIn(role)) < seats
      BY <1>3, <1>5, <1>6, <3>1 DEF Full
    <3>3. Cardinality(SeatedIn(s.role)) = Cardinality(SeatedIn(role)) + 1
      BY <1>6, <2>1 DEF Seated
    <3>4. s.seats = seats
      BY <1>2, <1>3 DEF SameGame
    <3> QED BY <1>5, <1>6, <3>2, <3>3, <3>4 DEF Within
  <2>2. CASE p \in Seated
    BY <1>7, <2>2 DEF Within
  <2> QED BY <2>1, <2>2
<1>10. Served(s)
  <2> SUFFICES ASSUME ~stranded PROVE Served(s)
    BY DEF Served
  <2>1. CASE ~PreventPlayersFromJoining(Now)
    BY <1>2, <2>1 DEF NoIdleSeat, OpenSlotsFill, Served
  <2>2. CASE p \in Seated
    <3>1. SeatedIn(s.role) = SeatedIn(role)
      BY <1>6, <2>2 DEF Seated
    <3> QED BY <1>2, <1>3, <3>1 DEF NoIdleSeat, OpenSlotsFill, Served, PreventPlayersFromJoining, Full, SameGame
  <2> QED BY <2>1, <2>2
<1> QED BY <1>2, <1>3, <1>4, <1>8, <1>9, <1>10 DEF Handled, SameGame

\* The same player spawns, and the clients are told.
LEMMA SpawnsNow ==
  ASSUME TypeInv, LineOfWatchers, NoIdleSeat, NEW p \in Player,
         ~PreventPlayersFromJoining(Now) \/ p \in Seated,
         NEW s, s = Spawn(Now, p)
  PROVE  Handled(s) /\ Spoken(s) /\ Served(s) /\ s.stage = stage
<1>1. PICK z : z = Now
  OBVIOUS
<1>2. PICK x : x = Recast(p, "playing")
  OBVIOUS
<1>3. z \in States /\ Spoken(z) /\ z.queue = queue /\ z.role = role /\ queue \in Seq(Player)
  BY <1>1, NowFields DEF TypeInv
<1>4. /\ Handled(x) /\ Served(x) /\ x.stage = stage
      /\ stranded \/ \A i \in 1..Len(x.queue) : x.queue[i] # p
  BY <1>2, TakesSeat
<1>5. x.role = [role EXCEPT ![p] = "playing"] /\ x.queue = queue /\ SameGame(z, x)
  <2>1. "playing" \in Roles
    BY DEF Roles
  <2> QED BY <1>1, <1>2, <2>1, RoleSet
<1>6. s \in States /\ SameGame(z, s) /\ s.role = x.role /\ s.queue = x.queue /\ Spoken(s)
  <2>1. /\ s \in States /\ SameGame(z, s) /\ s.role = [z.role EXCEPT ![p] = "playing"]
        /\ s.queue = z.queue
        /\ (Spoken(z) /\ (stranded \/ \A i \in 1..Len(z.queue) : z.queue[i] # p) => Spoken(s))
    <3>1. s = Spawn(z, p)
      BY <1>1
    <3> QED BY <1>3, <3>1, SpawnFields
  <2> QED BY <1>3, <1>4, <1>5, <2>1
<1>7. s.seats = x.seats /\ s.stage = x.stage /\ s.round = x.round
  BY <1>5, <1>6 DEF SameGame
<1>8. Handled(s)
  BY <1>4, <1>6, <1>7 DEF Handled, Once, Watch, InOrder, Passed, Within, NewIn
<1>9. Served(s)
  BY <1>4, <1>6, <1>7 DEF Served, PreventPlayersFromJoining, Full
<1> QED BY <1>4, <1>6, <1>7, <1>8, <1>9

\* A client that connects takes a free seat, if nobody waits for it, or watches.
LEMMA ConnectStep ==
  ASSUME QueueInv, NEW p \in Player, Connect(p)
  PROVE  Right
<1>1. /\ TypeInv /\ LineOfWatchers /\ NoIdleSeat /\ mode \in Modes
      /\ stranded \in BOOLEAN /\ (stranded => mode = "team") /\ stranded' = stranded
  BY DEF QueueInv, TypeInv, Connect
<1>2. PICK r \in {"spectating", "playing"} :
        /\ Become(Recast(p, r)) /\ (r = "playing" => ~PreventPlayersFromJoining(Now))
  BY DEF Connect, Recast
<1>3. PICK s : s = Recast(p, r)
  OBVIOUS
<1>4. Become(s)
  BY <1>2, <1>3
<1>5. role[p] = "out"
  BY DEF Connect
<1>6. /\ Handled(s) /\ Served(s) /\ s.stage = stage /\ s.queue = queue
  <2>1. CASE r = "playing"
    <3>1. Handled(s) /\ Served(s) /\ s.stage = stage
      BY <1>1, <1>2, <1>3, <2>1, TakesSeat
    <3>2. s.queue = queue
      <4>1. "playing" \in Roles
        BY DEF Roles
      <4> QED BY <1>1, <1>3, <2>1, <4>1, RoleSet
    <3> QED BY <3>1, <3>2
  <2>2. CASE r = "spectating"
    <3>1. HandledBut(s, p) /\ SameGame(Now, s) /\ s.queue = queue
      BY <1>1, <1>3, <2>2, GivesUpSeat
    <3>2. \A i \in 1..Len(s.queue) : s.queue[i] # p
      BY <1>1, <1>5, <3>1 DEF LineOfWatchers
    <3>3. Handled(s)
      BY <3>1, <3>2 DEF HandledBut, Handled, WatchBut, Watch
    <3>4. s.role = [role EXCEPT ![p] = "spectating"] /\ role \in [Player -> Roles]
      <4>1. "spectating" \in Roles
        BY DEF Roles
      <4>2. s.role = [role EXCEPT ![p] = "spectating"]
        BY <1>1, <1>3, <2>2, <4>1, RoleSet
      <4> QED BY <1>1, <4>2 DEF TypeInv
    <3>5. SeatedIn(s.role) = SeatedIn(role)
      BY <1>5, <3>4 DEF SeatedIn
    <3>6. Now.role = role /\ Now.seats = seats /\ Now.stage = stage /\ Now.round = round
      BY <1>1, NowFields
    <3>7. Served(s)
      BY <1>1, <3>1, <3>5, <3>6 DEF NoIdleSeat, OpenSlotsFill, Served, PreventPlayersFromJoining, Full, SameGame
    <3> QED BY <3>1, <3>3, <3>6, <3>7 DEF SameGame
  <2> QED BY <1>2, <2>1, <2>2
<1>7. s \in States /\ Settled(s) /\ Passed(s) /\ Within(s) /\ queue' = queue
  BY <1>1, <1>4, <1>6 DEF Handled, Settled, TypeInv, Become
<1>8. ServerInv' /\ NoneOvertaken /\ NoneOverfull
  BY <1>1, <1>4, <1>7, ServerStep, FairStep
<1>9. ClientInv'
  <2>1. CASE p = Watcher
    BY <1>7, <2>1, SyncStep DEF Connect
  <2>2. CASE p # Watcher
    <3>1. UNCHANGED <<seen, wire, copy>>
      BY <2>2 DEF Connect
    <3> QED BY <1>1, <1>7, <3>1 DEF ClientInv, QueueInv, TypeInv, CopyFollows
  <2> QED BY <2>1, <2>2
<1> QED BY <1>8, <1>9 DEF Right, QueueInv, ServerInv, ClientInv, TypeInv

\* A client that leaves gives up its seat, or its place in line.
LEMMA DisconnectStep ==
  ASSUME QueueInv, NEW p \in Player, Disconnect(p)
  PROVE  Right
<1>1. /\ TypeInv /\ LineOfWatchers /\ NoIdleSeat /\ mode \in Modes
      /\ stage \in {"level", "intermission"}
      /\ stranded \in BOOLEAN /\ (stranded => mode = "team")
  BY DEF QueueInv, TypeInv
<1>2. PICK s : /\ s = PlayerLeftGame(Recast(p, "out"), p, TRUE)
               /\ IF p = Watcher
                  THEN /\ Become(s) /\ seen' = "away" /\ wire' = <<>> /\ copy' = <<>>
                       /\ UNCHANGED stranded
                  ELSE Update(s)
  BY DEF Disconnect, Recast
<1>3. PICK x : x = Recast(p, "out")
  OBVIOUS
<1>4. s = PlayerLeftGame(x, p, TRUE)
  BY <1>2, <1>3
<1>5. Handled(s) /\ Spoken(s) /\ Served(s) /\ s.stage = stage
  <2>1. "out" \in {"out", "spectating"}
    OBVIOUS
  <2> QED BY <1>1, <1>3, <1>4, <2>1, LeftStep
<1>6. CASE p = Watcher
  <2>1. s \in States /\ Settled(s) /\ Passed(s) /\ Within(s)
    BY <1>1, <1>5 DEF Handled, Settled
  <2>2. Become(s) /\ seen' = "away" /\ wire' = <<>> /\ copy' = <<>> /\ stranded' = stranded
    BY <1>2, <1>6
  <2>3. ServerInv' /\ NoneOvertaken /\ NoneOverfull
    BY <1>1, <2>1, <2>2, ServerStep, FairStep
  <2>4. ClientInv'
    BY <2>2, AwayStep
  <2> QED BY <2>3, <2>4 DEF Right, QueueInv, ServerInv, ClientInv, TypeInv
<1>7. CASE p # Watcher
  <2>1. Become(s) /\ Broadcast(s) /\ UNCHANGED <<seen, copy, stranded>>
    BY <1>2, <1>7 DEF Update
  <2> QED BY <1>1, <1>5, <2>1, UpdateStep
<1> QED BY <1>6, <1>7

\* A spectator leaves the line; whoever plays starts to watch, and his seat goes
\* to the first in line.
LEMMA SpectateStep ==
  ASSUME QueueInv, NEW p \in Player, Spectate(p)
  PROVE  Right
<1>1. TypeInv /\ LineOfWatchers /\ NoIdleSeat /\ stage \in {"level", "intermission"}
      /\ queue \in Seq(Player)
  BY DEF QueueInv, TypeInv
<1>2. CASE role[p] = "spectating"
  <2>1. PICK s : /\ s = RemovePlayerFromQueue(Now, p)
                 /\ Become(s) /\ Broadcast(s) /\ UNCHANGED <<seen, copy, stranded>>
    BY <1>2 DEF Spectate, Update
  <2>2. PICK x : x = Now
    OBVIOUS
  <2>3. /\ HandledBut(x, p) /\ Spoken(x) /\ x.queue = queue /\ x.role = role /\ x.seats = seats
        /\ x.stage = stage /\ x.round = round /\ s = RemovePlayerFromQueue(x, p)
    BY <1>1, <2>1, <2>2, NowFields
  <2>4. Handled(s) /\ SameGame(x, s) /\ s.role = x.role /\ Spoken(s) /\ (x.queue = <<>> => s = x)
    BY <1>1, <2>3, LeaveLine
  <2>5. Served(s)
    BY <1>1, <2>2, <2>3, <2>4
       DEF NoIdleSeat, OpenSlotsFill, Served, PreventPlayersFromJoining, Full, SameGame
  <2>6. s.stage = stage
    BY <2>3, <2>4 DEF SameGame
  <2> QED BY <1>1, <2>1, <2>4, <2>5, <2>6, UpdateStep
<1>3. CASE role[p] # "spectating"
  <2>1. PICK s : /\ s = PlayerLeftGame(Recast(p, "spectating"), p, TRUE)
                 /\ Become(s) /\ Broadcast(s) /\ UNCHANGED <<seen, copy, stranded>>
    BY <1>3 DEF Spectate, Update, Recast
  <2>2. PICK x : x = Recast(p, "spectating")
    OBVIOUS
  <2>3. s = PlayerLeftGame(x, p, TRUE) /\ "spectating" \in {"out", "spectating"}
    BY <2>1, <2>2
  <2>4. Handled(s) /\ Spoken(s) /\ Served(s) /\ s.stage = stage
    BY <1>1, <2>2, <2>3, LeftStep
  <2> QED BY <1>1, <2>1, <2>4, UpdateStep
<1> QED BY <1>2, <1>3

\* What AddStep adds, in the state the server has then.
LEMMA AddUpdate ==
  ASSUME QueueInv, NEW p \in Player, role[p] = "spectating", PreventPlayersFromJoining(Now),
         Update(AddPlayer(Now, p))
  PROVE  Right
<1>1. TypeInv /\ LineOfWatchers /\ stage \in {"level", "intermission"}
  BY DEF QueueInv, TypeInv
<1>2. PICK s : /\ s = AddPlayer(Now, p)
               /\ Become(s) /\ Broadcast(s) /\ UNCHANGED <<seen, copy, stranded>>
  BY DEF Update
<1>3. Handled(s) /\ Spoken(s) /\ SameGame(Now, s) /\ s.role = role
  BY <1>1, <1>2, AddStep
<1>4. Now.seats = seats /\ Now.stage = stage /\ Now.round = round /\ Now.role = role
  BY <1>1, NowFields
<1>5. PreventPlayersFromJoining(s) /\ s.stage = stage
  BY <1>3, <1>4 DEF PreventPlayersFromJoining, Full, SameGame
<1> QED BY <1>1, <1>2, <1>3, <1>5, UpdateStep DEF Served

\* A spectator who asks to join does, or goes in line.
LEMMA RequestStep ==
  ASSUME QueueInv, NEW p \in Player, RequestJoin(p)
  PROVE  Right
<1>1. TypeInv /\ LineOfWatchers /\ NoIdleSeat /\ stage \in {"level", "intermission"}
  BY DEF QueueInv, TypeInv
<1>2. CASE PreventPlayersFromJoining(Now)
  BY <1>2, AddUpdate DEF RequestJoin
<1>3. CASE ~PreventPlayersFromJoining(Now)
  <2>1. PICK s : /\ s = Spawn(Now, p)
                 /\ Become(s) /\ Broadcast(s) /\ UNCHANGED <<seen, copy, stranded>>
    BY <1>3 DEF RequestJoin, Update
  <2>2. Handled(s) /\ Spoken(s) /\ Served(s) /\ s.stage = stage
    BY <1>1, <1>3, <2>1, SpawnsNow
  <2> QED BY <1>1, <2>1, <2>2, UpdateStep
<1> QED BY <1>2, <1>3

\* A player who chooses a team plays, and is taken out of the line, where he is
\* only if it is stranded.
LEMMA ChangeTeamStep ==
  ASSUME QueueInv, NEW p \in Player, ChangeTeam(p)
  PROVE  Right
<1>1. TypeInv /\ LineOfWatchers /\ NoIdleSeat /\ stage \in {"level", "intermission"}
      /\ mode = "team" /\ queue \in Seq(Player) /\ role \in [Player -> Roles] /\ role[p] # "out"
  BY DEF QueueInv, TypeInv, ChangeTeam
<1>2. CASE role[p] = "spectating" /\ PreventPlayersFromJoining(Now)
  BY <1>2, AddUpdate DEF ChangeTeam
<1>3. CASE ~(role[p] = "spectating" /\ PreventPlayersFromJoining(Now))
  <2>1. PICK s : /\ s = PlayerLeftGame(Spawn(Now, p), p, FALSE)
                 /\ Become(s) /\ Broadcast(s) /\ UNCHANGED <<seen, copy, stranded>>
    BY <1>3 DEF ChangeTeam, Update
  <2>2. PICK x : x = Spawn(Now, p)
    OBVIOUS
  <2>3. ~PreventPlayersFromJoining(Now) \/ p \in Seated
    BY <1>1, <1>3 DEF Seated, SeatedIn, Roles
  <2>4. Handled(x) /\ Spoken(x) /\ Served(x) /\ x.stage = stage
    BY <1>1, <2>2, <2>3, SpawnsNow
  <2>5. HandledBut(x, p)
    BY <2>4 DEF Handled, HandledBut, Watch, WatchBut
  <2>6. s = RemovePlayerFromQueue(x, p)
    BY <1>1, <2>1, <2>2 DEF PlayerLeftGame
  <2>7. /\ Handled(s) /\ SameGame(x, s) /\ s.role = x.role /\ Spoken(s)
        /\ (x.queue = <<>> => s = x)
    BY <1>1, <2>4, <2>5, <2>6, LeaveLine
  <2>8. Served(s)
    BY <2>4, <2>7 DEF Served, PreventPlayersFromJoining, Full, SameGame
  <2>9. s.stage = stage
    BY <2>4, <2>7 DEF SameGame
  <2> QED BY <1>1, <2>1, <2>7, <2>8, <2>9, UpdateStep
<1> QED BY <1>2, <1>3

\* A script seats a player from the middle of the line, if there is a seat: what
\* keeps the others waiting is not a lack of seats, and still holds.
LEMMA SkipStep ==
  ASSUME QueueInv, NEW p \in Player, SkipJoinQueue(p)
  PROVE  QueueInv' /\ NoneOverfull
         /\ \A x \in Player : Sits(x) => x = p
<1>1. TypeInv /\ LineOfWatchers /\ NoIdleSeat /\ stage \in {"level", "intermission"}
      /\ mode \in Modes /\ queue \in Seq(Player) /\ role \in [Player -> Roles] /\ seats \in Nat
      /\ stranded \in BOOLEAN /\ (stranded => mode = "team")
  BY JoinQueueAssumption DEF QueueInv, TypeInv
<1> DEFINE at == PositionInLine(queue, p)
<1>2. at \in 1..Len(queue) /\ queue[at] = p
  BY <1>1, Positions DEF SkipJoinQueue
<1>3. PICK s : /\ s = PlayerJoinsAtPosition(Now, at)
               /\ Become(s) /\ Broadcast(s) /\ UNCHANGED <<seen, copy, stranded>>
  BY DEF SkipJoinQueue, Update
<1> HIDE DEF at
<1>4. PICK x : x = Now
  OBVIOUS
<1>5. /\ x \in States /\ Handled(x) /\ Spoken(x) /\ x.seats = seats /\ x.stage = stage
      /\ x.round = round /\ x.role = role /\ x.queue = queue
  BY <1>1, <1>4, NowFields
<1>6. Once(x) /\ Watch(x) /\ at \in 1..Len(x.queue) /\ s = PlayerJoinsAtPosition(x, at)
  BY <1>2, <1>3, <1>4, <1>5 DEF Handled
<1>7. /\ s \in States /\ SameGame(x, s) /\ Once(s) /\ Watch(s) /\ Spoken(s)
  BY <1>1, <1>5, <1>6, SeatFields
<1>8. /\ SeatedIn(s.role) = SeatedIn(x.role) \cup {x.queue[at]}
      /\ Cardinality(SeatedIn(s.role)) <= Cardinality(SeatedIn(x.role)) + 1
  BY <1>1, <1>5, <1>6, SeatFields
<1>9. s.stage = stage
  BY <1>5, <1>7 DEF SameGame
<1>10. Served(s)
  <2> SUFFICES ASSUME ~stranded PROVE PreventPlayersFromJoining(s)
    BY DEF Served
  <2>1. PreventPlayersFromJoining(x) /\ ~Full(x)
    <3>1. queue # <<>>
      BY <1>2
    <3> QED BY <1>1, <1>4, <3>1 DEF NoIdleSeat, OpenSlotsFill, SkipJoinQueue
  <2> QED BY <1>5, <1>7, <2>1 DEF PreventPlayersFromJoining, SameGame
<1>11. Settled(s) /\ queue' = s.queue
  BY <1>1, <1>3, <1>7, <1>9, <1>10 DEF Settled, Become
<1>12. Within(s)
  <2>1. Cardinality(SeatedIn(role)) \in Nat /\ Cardinality(SeatedIn(s.role)) \in Nat
    <3>1. s.role \in [Player -> Roles]
      BY <1>7 DEF States
    <3> QED BY <1>1, <3>1, SeatsCount
  <2>2. Cardinality(SeatedIn(role)) < seats
    BY <1>1, <1>4, <1>5, <2>1 DEF SkipJoinQueue, Full
  <2> QED BY <1>1, <1>5, <1>7, <1>8, <2>1, <2>2 DEF Within, SameGame
<1>13. ServerInv' /\ NoneOverfull
  BY <1>1, <1>3, <1>7, <1>11, <1>12, ServerStep, FairStep
<1>14. ClientInv'
  BY <1>3, <1>7, <1>11, ClientStep
<1>15. ASSUME NEW y \in Player, Sits(y) PROVE y = p
  BY <1>2, <1>3, <1>5, <1>8, <1>15 DEF Sits, Become, Seated
<1> QED BY <1>13, <1>14, <1>15 DEF QueueInv, ServerInv, ClientInv, TypeInv

\* The operator changes how many seats there are.
LEMMA SeatsStep ==
  ASSUME QueueInv, NEW n \in 1..MaxSeats, SetMaxPlayers(n)
  PROVE  Right
<1>1. TypeInv /\ LineOfWatchers /\ stage \in {"level", "intermission"}
  BY DEF QueueInv, TypeInv
<1> DEFINE x == [Now EXCEPT !.seats = n]
<1>2. PICK s : /\ s = PopQueue(x, Len(x.queue))
               /\ Become(s) /\ Broadcast(s) /\ UNCHANGED <<seen, copy, stranded>>
  BY DEF SetMaxPlayers, Update, PopAll
<1>3. PICK y : y = x
  OBVIOUS
<1>4. PICK z : z = Now
  OBVIOUS
<1>5. y = [z EXCEPT !.seats = n] /\ s = PopQueue(y, Len(y.queue))
  BY <1>2, <1>3, <1>4
<1> HIDE DEF x
<1>6. /\ z \in States /\ Handled(z) /\ Spoken(z) /\ z.stage = stage /\ z.role = role
  BY <1>1, <1>4, NowFields
<1>7. /\ y \in States /\ y.seats = n /\ y.stage = z.stage /\ y.role = z.role
      /\ y.queue = z.queue /\ y.told = z.told
  BY <1>5, <1>6, Sets
<1>8. Handled(y) /\ Spoken(y)
  BY <1>6, <1>7 DEF Handled, Spoken, Once, Watch, InOrder, Passed, Within, NewIn, Seated
<1>9. Len(y.queue) \in Nat
  <2>1. y.queue \in Seq(Player)
    BY <1>7 DEF States
  <2> QED BY <2>1
<1>10. Popped(y, s) /\ Served(s)
  BY <1>1, <1>5, <1>8, <1>9, PopStep
<1>11. Handled(s) /\ Spoken(s) /\ s.stage = stage
  BY <1>6, <1>7, <1>8, <1>10 DEF Popped, SameGame
<1> QED BY <1>1, <1>2, <1>10, <1>11, UpdateStep

-----------------------------------------------------------------------------
(* The game.                                                               *)

\* A step that leaves line and seats alone and keeps out whoever was kept out.
LEMMA SameLineUpdate ==
  ASSUME QueueInv, NEW s, SameLine(Now, s), s.stage \in {"level", "intermission"},
         PreventPlayersFromJoining(Now) => PreventPlayersFromJoining(s),
         Become(s), Broadcast(s), UNCHANGED <<seen, copy, stranded>>
  PROVE  Right
<1>1. TypeInv /\ LineOfWatchers /\ NoIdleSeat
  BY DEF QueueInv
<1>2. PICK x : x = Now
  OBVIOUS
<1>3. Handled(x) /\ Spoken(x) /\ x.queue = queue /\ SameLine(x, s)
  BY <1>1, <1>2, NowFields
<1>4. Handled(s) /\ Spoken(s)
  BY <1>3, StaysHandled
<1>5. Served(s)
  BY <1>1, <1>3 DEF SameLine, Served, NoIdleSeat, OpenSlotsFill
<1> QED BY <1>4, <1>5, UpdateStep

\* The last life of a player is lost.
LEMMA DieStep ==
  ASSUME QueueInv, NEW p \in Player, Die(p)
  PROVE  Right
<1>1. TypeInv /\ LineOfWatchers /\ role \in [Player -> Roles]
  BY DEF QueueInv, TypeInv
<1>2. PICK s : /\ s = Recast(p, "dead")
               /\ Become(s) /\ Broadcast(s) /\ UNCHANGED <<seen, copy, stranded>>
  BY DEF Die, Update, Recast
<1>3. "dead" \in Roles
  BY DEF Roles
<1>4. /\ s \in States /\ SameGame(Now, s) /\ s.role = [role EXCEPT ![p] = "dead"]
      /\ s.queue = queue /\ s.told = <<>>
  BY <1>1, <1>2, <1>3, RoleSet
<1>5. /\ Now.seats = seats /\ Now.stage = stage /\ Now.round = round /\ Now.role = role
      /\ Now.queue = queue /\ Now.told = <<>>
  BY <1>1, NowFields
<1>6. SeatedIn(s.role) = SeatedIn(role)
  BY <1>1, <1>4 DEF SeatedIn, Die
<1>7. \A x \in Player : Waits(role, x) => Waits(s.role, x)
  BY <1>1, <1>4 DEF Die, Waits
<1>8. SameLine(Now, s)
  BY <1>4, <1>5, <1>6, <1>7 DEF SameLine, SameGame
<1>9. s.stage = "level" /\ (PreventPlayersFromJoining(Now) => PreventPlayersFromJoining(s))
  BY <1>4, <1>5, <1>6 DEF Die, SameGame, PreventPlayersFromJoining, Full
<1> QED BY <1>2, <1>8, <1>9, SameLineUpdate

\* A countdown begins, a round begins or a mission fails.
LEMMA TickStep ==
  ASSUME QueueInv, SurvivalTick
  PROVE  Right
<1>1. TypeInv /\ LineOfWatchers /\ mode = "survival" /\ stage = "level"
  BY DEF QueueInv, SurvivalTick
<1>2. PICK z : z = Now
  OBVIOUS
<1>3. /\ z \in States /\ Handled(z) /\ Spoken(z) /\ z.seats = seats /\ z.stage = stage
      /\ z.round = round /\ z.role = role /\ z.queue = queue
  BY <1>1, <1>2, NowFields
<1>4. CASE round = "waiting" /\ Update([Now EXCEPT !.round = "countdown"])
  <2>1. PICK s : /\ s = [z EXCEPT !.round = "countdown"]
                 /\ Become(s) /\ Broadcast(s) /\ UNCHANGED <<seen, copy, stranded>>
    BY <1>2, <1>4 DEF Update
  <2>2. "countdown" \in Rounds
    BY DEF Rounds
  <2>3. SameLine(z, s) /\ s.stage = z.stage /\ s.round = "countdown"
    BY <1>3, <2>1, <2>2, SameLineSets
  <2>4. PreventPlayersFromJoining(z) => PreventPlayersFromJoining(s)
    BY <1>3, <1>4, <2>3 DEF PreventPlayersFromJoining, Full, SameLine
  <2> QED BY <1>1, <1>2, <1>3, <2>1, <2>3, <2>4, SameLineUpdate
<1>5. CASE Update(RespawnDeadPlayers([Now EXCEPT !.round = "inprogress"]))
  <2>1. PICK s : /\ s = RespawnDeadPlayers([z EXCEPT !.round = "inprogress"])
                 /\ Become(s) /\ Broadcast(s) /\ UNCHANGED <<seen, copy, stranded>>
    BY <1>2, <1>5 DEF Update
  <2>2. "inprogress" \in Rounds
    BY DEF Rounds
  <2>3. PICK y : y = [z EXCEPT !.round = "inprogress"]
    OBVIOUS
  <2>4. SameLine(z, y) /\ y.stage = z.stage /\ y.round = "inprogress"
    BY <1>3, <2>2, <2>3, SameLineSets
  <2>5. y \in States /\ s = RespawnDeadPlayers(y)
    BY <2>1, <2>3, <2>4 DEF SameLine
  <2>6. SameLine(y, s) /\ SameGame(y, s)
    BY <2>5, RespawnStep
  <2>7. SameLine(z, s) /\ s.stage = "level" /\ s.round = "inprogress"
    BY <1>1, <1>3, <2>4, <2>6 DEF SameLine, SameGame
  <2>8. PreventPlayersFromJoining(s)
    BY <1>1, <2>7 DEF PreventPlayersFromJoining
  <2> QED BY <1>2, <2>1, <2>7, <2>8, SameLineUpdate
<1>6. CASE Update(FailMission(Now))
  <2>1. PICK s : /\ s = FailMission(z)
                 /\ Become(s) /\ Broadcast(s) /\ UNCHANGED <<seen, copy, stranded>>
    BY <1>2, <1>6 DEF Update
  <2>2. SameLine(z, s) /\ s.round = "failed" /\ s.stage = z.stage
    BY <1>3, <2>1, FailStep
  <2>3. PreventPlayersFromJoining(s)
    BY <1>1, <1>3, <2>2 DEF PreventPlayersFromJoining
  <2> QED BY <1>1, <1>2, <1>3, <2>1, <2>2, <2>3, SameLineUpdate
<1> QED BY <1>4, <1>5, <1>6 DEF SurvivalTick

\* The level is over.
LEMMA EndStep ==
  ASSUME QueueInv, EndLevel
  PROVE  Right
<1>1. TypeInv /\ LineOfWatchers
  BY DEF QueueInv
<1>2. PICK z : z = Now
  OBVIOUS
<1>3. z \in States
  BY <1>1, <1>2, NowFields
<1>4. PICK s : /\ s = [z EXCEPT !.stage = "intermission"]
               /\ Become(s) /\ Broadcast(s) /\ UNCHANGED <<seen, copy, stranded>>
  BY <1>2 DEF EndLevel, Update
<1>5. SameLine(z, s) /\ s.stage = "intermission"
  BY <1>3, <1>4, SameLineSets
<1>6. PreventPlayersFromJoining(s)
  BY <1>5 DEF PreventPlayersFromJoining
<1> QED BY <1>2, <1>4, <1>5, <1>6, SameLineUpdate

\* Served while players may join, a line stays served when the countdown begins
\* and when play does.
LEMMA RoundStep ==
  ASSUME NEW s, Handled(s), Served(s), NEW r \in Rounds, NEW t, t = [s EXCEPT !.round = r],
         r \in {"countdown", "inprogress"}, s.round = "waiting"
  PROVE  /\ Handled(t) /\ Served(t) /\ (Spoken(s) => Spoken(t))
         /\ t.stage = s.stage /\ t.round = r /\ t.role = s.role
<1>1. SameLine(s, t) /\ t.role = s.role /\ t.round = r /\ t.stage = s.stage
  BY SameLineSets DEF Handled
<1>2. Handled(t) /\ (Spoken(s) => Spoken(t))
  BY <1>1, StaysHandled
<1>3. Served(t)
  BY <1>1 DEF Served, PreventPlayersFromJoining, Full, SameLine
<1> QED BY <1>1, <1>2, <1>3

\* A failed mission is restarted.
LEMMA RestartStep ==
  ASSUME QueueInv, RestartMission
  PROVE  Right
<1>1. TypeInv /\ LineOfWatchers /\ mode = "survival" /\ stage = "level"
  BY DEF QueueInv, RestartMission
<1>2. PICK z : z = Now
  OBVIOUS
<1>3. z \in States /\ Handled(z) /\ Spoken(z) /\ z.stage = stage
  BY <1>1, <1>2, NowFields
<1>4. PICK over : over = [z EXCEPT !.ending = FALSE]
  OBVIOUS
<1>5. PICK w : w = WaitForPlayers(over)
  OBVIOUS
<1>6. PICK s : /\ s = w \/ s = [w EXCEPT !.round = "inprogress"]
               /\ Update(IF s.round = "waiting" /\ Active(s) # {} THEN [s EXCEPT !.round = "countdown"]
                         ELSE IF s.round = "inprogress" /\ Active(s) = {} THEN FailMission(s)
                         ELSE s)
  BY <1>2, <1>4, <1>5 DEF RestartMission, RefreshLives
<1>7. SameLine(z, over) /\ over.stage = z.stage
  BY <1>3, <1>4, SameLineSets
<1>8. Handled(over) /\ Spoken(over)
  BY <1>3, <1>7, StaysHandled
<1>9. Handled(w) /\ Served(w) /\ Spoken(w) /\ w.round = "waiting" /\ w.stage = "level"
  BY <1>1, <1>3, <1>5, <1>7, <1>8, WaitStep
<1>10. "countdown" \in Rounds /\ "inprogress" \in Rounds
  BY DEF Rounds
<1>11. /\ Handled(s) /\ Served(s) /\ Spoken(s) /\ s.stage = "level"
       /\ s.round = "waiting" \/ s.round = "inprogress"
  <2>1. CASE s = w
    BY <1>9, <2>1
  <2>2. CASE s = [w EXCEPT !.round = "inprogress"]
    BY <1>9, <1>10, <2>2, RoundStep
  <2> QED BY <1>6, <2>1, <2>2
<1>12. PICK t : /\ t = IF s.round = "waiting" /\ Active(s) # {} THEN [s EXCEPT !.round = "countdown"]
                       ELSE IF s.round = "inprogress" /\ Active(s) = {} THEN FailMission(s)
                       ELSE s
                /\ Become(t) /\ Broadcast(t) /\ UNCHANGED <<seen, copy, stranded>>
  BY <1>6 DEF Update
<1>13. Handled(t) /\ Served(t) /\ Spoken(t) /\ t.stage = "level"
  <2>1. CASE s.round = "waiting" /\ Active(s) # {}
    <3>1. t = [s EXCEPT !.round = "countdown"]
      BY <1>12, <2>1
    <3> QED BY <1>10, <1>11, <2>1, <3>1, RoundStep
  <2>2. CASE s.round = "inprogress" /\ Active(s) = {}
    <3>1. t = FailMission(s)
      BY <1>12, <2>2
    <3>2. Handled(t) /\ Spoken(t) /\ t.round = "failed" /\ t.stage = "level"
      BY <1>11, <3>1, FailStep
    <3> QED BY <1>1, <3>2 DEF Served, PreventPlayersFromJoining
  <2>3. CASE ~(s.round = "waiting" /\ Active(s) # {}) /\ ~(s.round = "inprogress" /\ Active(s) = {})
    BY <1>11, <1>12, <2>3
  <2> QED BY <2>1, <2>2, <2>3
<1> QED BY <1>12, <1>13, UpdateStep

\* While a level loads, only a lack of seats keeps players out.
SeatsGone(s) == s.queue = <<>> \/ Full(s)

\* The line is popped as the load begins.
LEMMA LoadStep ==
  ASSUME TypeInv, LineOfWatchers, NEW s, s = LevelLoads(Now)
  PROVE  Handled(s) /\ s.stage = "loading" /\ (stranded \/ SeatsGone(s))
<1>1. PICK z : z = Now
  OBVIOUS
<1>2. z \in States /\ Handled(z)
  BY <1>1, NowFields
<1>3. PICK x : x = [z EXCEPT !.stage = "loading"]
  OBVIOUS
<1>4. PICK y : y = [x EXCEPT !.ending = FALSE]
  OBVIOUS
<1>5. PICK u : u = RespawnDeadPlayers(y)
  OBVIOUS
<1>6. s = PopQueue(u, Len(u.queue))
  BY <1>1, <1>3, <1>4, <1>5 DEF LevelLoads, PopAll
<1>7. SameLine(z, x) /\ x.stage = "loading"
  BY <1>2, <1>3, SameLineSets
<1>8. SameLine(x, y) /\ y.stage = "loading"
  <2>1. x \in States
    BY <1>7 DEF SameLine
  <2> QED BY <1>4, <1>7, <2>1, SameLineSets
<1>9. SameLine(y, u) /\ u.stage = "loading"
  <2>1. y \in States
    BY <1>8 DEF SameLine
  <2> QED BY <1>5, <1>8, <2>1, RespawnStep DEF SameGame
<1>10. Handled(u)
  BY <1>2, <1>7, <1>8, <1>9, StaysHandled
<1>11. Len(u.queue) \in Nat
  <2>1. u.queue \in Seq(Player)
    BY <1>10 DEF Handled, States
  <2> QED BY <2>1
<1>12. Popped(u, s) /\ Served(s)
  BY <1>6, <1>10, <1>11, PopStep
<1>13. s.stage = "loading"
  BY <1>9, <1>12 DEF Popped, SameGame
<1> QED BY <1>12, <1>13 DEF Popped, Served, SeatsGone, PreventPlayersFromJoining

\* In a team game all who are in the game watch as the level is set up, and the
\* line is as the pop left it, if it is kept.
LEMMA TeamWatchStep ==
  ASSUME mode = "team", NEW s, Handled(s), NEW stay, KeepsSeat(s, stay),
         NEW keepQueue \in BOOLEAN, NEW t, t = SpawnOrWatch(s, stay, keepQueue)
  PROVE  /\ t \in States /\ Once(t) /\ \A i \in 1..Len(t.queue) : t.role[t.queue[i]] # "out"
         /\ SeatedIn(t.role) = {} /\ (~keepQueue => t.queue = <<>>)
<1> DEFINE roles == [p \in Player |-> IF p \in SeatedIn(s.role) \ stay THEN "spectating" ELSE s.role[p]]
<1>1. s \in States /\ s.role \in [Player -> Roles] /\ s.queue \in Seq(Player) /\ stay = {}
  BY DEF Handled, States, KeepsSeat
<1>2. roles \in [Player -> Roles] /\ \A p \in Player : s.role[p] # "out" => roles[p] # "out"
  BY <1>1 DEF Roles
<1>3. SeatedIn(roles) = {}
  BY <1>1 DEF SeatedIn
<1>4. PICK u : u = [s EXCEPT !.role = roles]
  OBVIOUS
<1>5. t = IF ~keepQueue THEN [u EXCEPT !.queue = <<>>] ELSE u
  BY <1>4 DEF SpawnOrWatch
<1> HIDE DEF roles
<1>6. u \in States /\ u.role = roles /\ u.queue = s.queue
  BY <1>1, <1>2, <1>4, Sets
<1>7. CASE ~keepQueue
  <2>1. t = [seats |-> u.seats, stage |-> u.stage, round |-> u.round, ending |-> u.ending,
             role |-> u.role, queue |-> <<>>, told |-> u.told]
    BY <1>5, <1>6, <1>7 DEF States
  <2>2. t \in States /\ t.queue = <<>> /\ t.role = roles
    BY <1>6, <2>1 DEF States
  <2> QED BY <1>3, <2>2 DEF Once
<1>8. CASE keepQueue
  <2>1. t = u
    BY <1>5, <1>8
  <2>2. \A i \in 1..Len(s.queue) : s.queue[i] \in Player /\ s.role[s.queue[i]] # "out"
    BY <1>1 DEF Handled, Watch, Waits
  <2>3. \A i \in 1..Len(s.queue) : roles[s.queue[i]] # "out"
    BY <1>2, <2>2
  <2> QED BY <1>3, <1>6, <1>8, <2>1, <2>3 DEF Handled, Once
<1> QED BY <1>7, <1>8

\* Whoever loses a seat as the level is set up watches: the seats left are taken,
\* as before, or nobody is in line for them.
LEMMA WatchStep ==
  ASSUME NEW s, Handled(s), s.stage = "loading", SeatsGone(s), NEW stay, KeepsSeat(s, stay),
         NEW keepQueue \in BOOLEAN, mode # "team", NEW t, t = SpawnOrWatch(s, stay, keepQueue)
  PROVE  Handled(t) /\ t.stage = "loading" /\ SeatsGone(t)
<1> DEFINE roles == [p \in Player |-> IF p \in SeatedIn(s.role) \ stay THEN "spectating" ELSE s.role[p]]
<1>1. /\ s \in States /\ s.role \in [Player -> Roles] /\ s.seats \in Nat /\ s.queue \in Seq(Player)
  BY JoinQueueAssumption DEF Handled, States
<1>2. roles \in [Player -> Roles] /\ "spectating" \in Roles
  BY <1>1 DEF Roles
<1>3. stay \subseteq SeatedIn(s.role)
  BY DEF KeepsSeat
<1>4. SeatedIn(roles) = stay
  BY <1>1, <1>3 DEF SeatedIn
<1>5. \A p \in Player : Waits(s.role, p) => Waits(roles, p)
  BY DEF Waits
<1>6. PICK u : u = [s EXCEPT !.role = roles]
  OBVIOUS
<1>7. t = IF ~keepQueue /\ Full(u) THEN [u EXCEPT !.queue = <<>>] ELSE u
  BY <1>6 DEF SpawnOrWatch
<1> HIDE DEF roles
<1>8. u \in States /\ SameGame(s, u) /\ u.role = roles /\ u.queue = s.queue
  BY <1>1, <1>2, <1>6, Sets
<1>9. /\ IsFiniteSet(SeatedIn(s.role)) /\ Cardinality(SeatedIn(s.role)) \in Nat
  BY <1>1, SeatsCount
<1>10. IF Cardinality(SeatedIn(s.role)) > s.seats THEN Cardinality(stay) = s.seats
       ELSE stay = SeatedIn(s.role)
  BY DEF KeepsSeat
<1>11. Once(u) /\ InOrder(u) /\ Watch(u)
  BY <1>1, <1>5, <1>8 DEF Handled, Once, InOrder, Watch
<1>12. NewIn(u) \subseteq NewIn(s)
  BY <1>3, <1>4, <1>8 DEF NewIn
<1>13. Passed(u)
  BY <1>8, <1>12 DEF Handled, Passed
<1>14. Within(u)
  <2>1. CASE Cardinality(SeatedIn(s.role)) > s.seats
    BY <1>1, <1>4, <1>8, <1>10, <2>1 DEF Within, SameGame
  <2>2. CASE ~(Cardinality(SeatedIn(s.role)) > s.seats)
    BY <1>1, <1>4, <1>8, <1>9, <1>10, <2>2 DEF Within, SameGame
  <2> QED BY <2>1, <2>2
<1>15. Handled(u) /\ u.stage = "loading"
  BY <1>8, <1>11, <1>13, <1>14 DEF Handled, SameGame
<1>16. u.queue # <<>> => Full(u)
  <2> SUFFICES ASSUME u.queue # <<>> PROVE Full(u)
    OBVIOUS
  <2>1. Cardinality(SeatedIn(s.role)) >= s.seats
    BY <1>8 DEF SeatsGone, Full
  <2>2. Cardinality(stay) >= s.seats
    BY <1>1, <1>9, <1>10, <2>1
  <2> QED BY <1>4, <1>8, <2>2 DEF Full, SameGame
<1>17. CASE ~keepQueue /\ Full(u)
  <2>1. t = [seats |-> u.seats, stage |-> u.stage, round |-> u.round, ending |-> u.ending,
             role |-> u.role, queue |-> <<>>, told |-> u.told]
    BY <1>7, <1>8, <1>17 DEF States
  <2>2. t \in States /\ t.queue = <<>> /\ t.role = u.role /\ t.seats = u.seats /\ t.stage = "loading"
    BY <1>8, <1>15, <2>1 DEF States
  <2>3. Once(t) /\ Watch(t) /\ InOrder(t) /\ Passed(t)
    BY <2>2 DEF Once, Watch, InOrder, Passed
  <2>4. Within(t)
    BY <1>14, <2>2 DEF Within, NewIn
  <2> QED BY <2>2, <2>3, <2>4 DEF Handled, SeatsGone
<1>18. CASE ~(~keepQueue /\ Full(u))
  <2>1. t = u
    BY <1>7, <1>18
  <2> QED BY <1>15, <1>16, <2>1 DEF SeatsGone
<1> QED BY <1>17, <1>18

\* The round of survival begins anew, and nobody loses or gains what the line and
\* the seats were agreed on.
LEMMA EnterStep ==
  ASSUME TypeInv, ~stranded, NEW s, Handled(s), s.stage = "loading", SeatsGone(s),
         NEW t, t = EnterLevel(s)
  PROVE  Handled(t) /\ t.stage = "loading" /\ SeatsGone(t)
<1>1. CASE mode = "survival" /\ (s.round = "countdown" \/ (s.round = "failed" /\ SeatedIn(s.role) = {}))
  <2>1. t = WaitForPlayers(s)
    BY <1>1 DEF EnterLevel
  <2>2. Handled(t) /\ Served(t) /\ t.stage = "loading"
    BY <2>1, WaitStep
  <2> QED BY <2>2 DEF Served, SeatsGone, PreventPlayersFromJoining
<1>2. CASE t = [s EXCEPT !.round = "countdown"]
  <2>1. "countdown" \in Rounds /\ s \in States
    BY DEF Rounds, Handled
  <2>2. SameLine(s, t) /\ t.stage = s.stage
    BY <1>2, <2>1, SameLineSets
  <2>3. Handled(t)
    BY <2>2, StaysHandled
  <2> QED BY <2>2, <2>3 DEF SameLine, SeatsGone, Full
<1>3. CASE t = s
  BY <1>3
<1> QED BY <1>1, <1>2, <1>3 DEF EnterLevel

\* The next level is entered.
LEMMA WorldStep ==
  ASSUME QueueInv, WorldDone
  PROVE  Right
<1>1. /\ TypeInv /\ LineOfWatchers /\ mode \in Modes /\ seen \in {"away", "loading", "spawned"}
      /\ stranded \in BOOLEAN /\ (stranded => mode = "team")
  BY DEF QueueInv, TypeInv
<1>2. PICK popped \in {LevelLoads(Now)}, stay \in SUBSET Player, keepQueue \in BOOLEAN :
        /\ KeepsSeat(popped, stay)
        /\ \E s \in {EnterLevel(SpawnOrWatch(popped, stay, keepQueue))} :
             /\ Become([s EXCEPT !.stage = "level"])
             /\ stranded' = (mode = "team" /\ keepQueue /\ s.queue # <<>>)
  BY DEF WorldDone
<1>3. keepQueue \in BOOLEAN
  BY <1>2
<1>4. PICK x : x = SpawnOrWatch(popped, stay, keepQueue)
  OBVIOUS
<1>5. PICK y : y = EnterLevel(x)
  OBVIOUS
<1>6. PICK t : t = [y EXCEPT !.stage = "level"]
  OBVIOUS
<1>7. Become(t) /\ stranded' = (mode = "team" /\ keepQueue /\ y.queue # <<>>)
  BY <1>2, <1>4, <1>5, <1>6
<1>8. Handled(popped) /\ popped.stage = "loading" /\ (stranded \/ SeatsGone(popped))
  BY <1>1, <1>2, LoadStep
<1>9. seen' \in {"away", "loading"} /\ wire' = <<>> /\ copy' = <<>>
  BY <1>1 DEF WorldDone
<1>10. ClientInv'
  BY <1>9, AwayStep
<1>11. CASE mode # "team"
  <2>1. ~stranded /\ stranded' = stranded
    BY <1>1, <1>7, <1>11
  <2>2. Handled(x) /\ x.stage = "loading" /\ SeatsGone(x)
    BY <1>2, <1>3, <1>4, <1>8, <1>11, <2>1, WatchStep
  <2>3. Handled(y) /\ SeatsGone(y)
    BY <1>1, <1>5, <2>1, <2>2, EnterStep
  <2>4. SameLine(y, t) /\ t.stage = "level"
    BY <1>6, <2>3, SameLineSets DEF Handled
  <2>5. Handled(t)
    BY <2>3, <2>4, StaysHandled
  <2>6. Served(t)
    BY <2>3, <2>4 DEF SameLine, SeatsGone, Served, PreventPlayersFromJoining, Full
  <2>7. t \in States /\ Settled(t) /\ Passed(t) /\ Within(t)
    BY <2>4, <2>5, <2>6 DEF Handled, Settled
  <2>8. ServerInv' /\ NoneOvertaken /\ NoneOverfull
    BY <1>1, <1>7, <2>1, <2>7, ServerStep, FairStep
  <2> QED BY <1>10, <2>8 DEF Right, QueueInv, ServerInv, ClientInv, TypeInv
<1>12. CASE mode = "team"
  <2>1. /\ x \in States /\ Once(x) /\ \A i \in 1..Len(x.queue) : x.role[x.queue[i]] # "out"
        /\ SeatedIn(x.role) = {} /\ (~keepQueue => x.queue = <<>>)
    BY <1>2, <1>3, <1>4, <1>8, <1>12, TeamWatchStep
  <2>2. y = x
    BY <1>5, <1>12 DEF EnterLevel
  <2>3. SameLine(x, t) /\ t.role = x.role /\ t.stage = "level"
    BY <1>6, <2>1, <2>2, SameLineSets
  <2>4. t \in States /\ t.queue = x.queue
    BY <2>3 DEF SameLine
  <2>5. /\ seats' = t.seats /\ stage' = "level" /\ round' = t.round /\ ending' = t.ending
        /\ role' = x.role /\ queue' = x.queue /\ mode' = mode
    BY <1>7, <2>3, <2>4 DEF Become
  <2>6. stranded' \in BOOLEAN /\ (stranded' => mode' = "team") /\ (~stranded' => queue' = <<>>)
    <3>1. stranded' = (keepQueue /\ queue' # <<>>)
      BY <1>7, <1>12, <2>2, <2>5, Zenon
    <3>2. ~keepQueue => queue' = <<>>
      BY <2>1, <2>5
    <3>3. stranded' \in BOOLEAN
      BY <1>3, <3>1
    <3> QED BY <1>12, <2>5, <3>1, <3>2, <3>3, Zenon
  <2>7. /\ seats' \in 1..MaxSeats /\ stage' \in {"level", "intermission"} /\ round' \in Rounds
        /\ ending' \in BOOLEAN /\ role' \in [Player -> Roles] /\ queue' \in Seq(Player)
    <3>1. /\ t.seats \in 1..MaxSeats /\ t.round \in Rounds /\ t.ending \in BOOLEAN
          /\ t.role \in [Player -> Roles] /\ t.queue \in Seq(Player)
      BY <2>4 DEF States
    <3> QED BY <2>3, <2>4, <2>5, <3>1, Zenon
  <2>8. LineOfWatchers'
    BY <2>1, <2>5, <2>6 DEF Once, LineOfWatchers
  <2>9. NoIdleSeat'
    BY <2>6 DEF NoIdleSeat, OpenSlotsFill
  <2>10. NoneOvertaken /\ NoneOverfull
    BY <2>1, <2>5 DEF NoneOvertaken, NoneOverfull, Sits
  <2>11. ServerInv'
    BY <1>1, <2>5, <2>6, <2>7, <2>8, <2>9 DEF ServerInv
  <2> QED BY <1>10, <2>10, <2>11 DEF Right, QueueInv, ServerInv, ClientInv, TypeInv
<1> QED BY <1>11, <1>12

-----------------------------------------------------------------------------
(* The client.                                                             *)

\* Whatever leaves the server alone seats nobody.
LEMMA NobodySits ==
  ASSUME role' = role
  PROVE  NoneOvertaken /\ NoneOverfull
BY DEF NoneOvertaken, NoneOverfull, Sits, Seated

\* The watcher has loaded the level.
LEMMA LevelStep ==
  ASSUME QueueInv, AuthenticateLevel
  PROVE  Right
<1>1. ClientInv'
  BY SyncStep DEF AuthenticateLevel
<1>2. UNCHANGED <<mode, seats, stage, round, ending, role, queue, stranded>>
  BY DEF AuthenticateLevel
<1>3. ServerInv'
  BY <1>2 DEF ServerInv, QueueInv, TypeInv, LineOfWatchers, NoIdleSeat, OpenSlotsFill,
              PreventPlayersFromJoining, Full, Now
<1> QED BY <1>1, <1>2, <1>3, NobodySits DEF Right, QueueInv, ServerInv, ClientInv, TypeInv

\* The watcher applies the command that reached it.
LEMMA ReceiveStep ==
  ASSUME QueueInv, Receive
  PROVE  Right
<1>1. /\ wire # <<>> /\ wire \in Seq(Commands) /\ copy \in Seq(Player) /\ copy' = Apply(copy, Head(wire))
      /\ wire' = Tail(wire) /\ UNCHANGED <<mode, seats, stage, round, ending, role, queue, seen, stranded>>
  BY DEF QueueInv, TypeInv, Receive
<1> DEFINE c == Head(wire)
           rest == Tail(wire)
<1>2. c \in Commands /\ <<c>> \in Seq(Commands) /\ rest \in Seq(Commands) /\ wire = <<c>> \o rest
  BY <1>1
<1> HIDE DEF c, rest
<1>3. Applied(copy, <<c>>) = Apply(copy, c)
  BY <1>1, <1>2, AppliedFew
<1>4. Applied(copy, <<c>> \o rest) = Applied(Applied(copy, <<c>>), rest) /\ Apply(copy, c) \in Seq(Player)
  BY <1>1, <1>2, <1>3, AppliedInTwo
<1>5. copy' \in Seq(Player) /\ wire' \in Seq(Commands) /\ Applied(copy', wire') = Applied(copy, wire)
  BY <1>1, <1>2, <1>3, <1>4 DEF c, rest
<1>6. ClientInv'
  BY <1>1, <1>5 DEF ClientInv, QueueInv, TypeInv, CopyFollows
<1>7. ServerInv'
  BY <1>1 DEF ServerInv, QueueInv, TypeInv, LineOfWatchers, NoIdleSeat, OpenSlotsFill,
              PreventPlayersFromJoining, Full, Now
<1> QED BY <1>1, <1>6, <1>7, NobodySits DEF Right, QueueInv, ServerInv, ClientInv, TypeInv

\* Nothing happens.
LEMMA IdleStep ==
  ASSUME QueueInv, UNCHANGED vars
  PROVE  Right
<1>1. ServerInv'
  BY DEF vars, ServerInv, QueueInv, TypeInv, LineOfWatchers, NoIdleSeat, OpenSlotsFill,
         PreventPlayersFromJoining, Full, Now
<1>2. ClientInv'
  BY DEF vars, ClientInv, QueueInv, TypeInv, CopyFollows
<1>3. NoneOvertaken /\ NoneOverfull
  BY NobodySits DEF vars
<1> QED BY <1>1, <1>2, <1>3 DEF Right, QueueInv, ServerInv, ClientInv, TypeInv

-----------------------------------------------------------------------------
(* The theorems, for any number of clients, of seats and of commands on     *)
(* their way.                                                               *)

LEMMA InitQueue == Init => QueueInv
<1> SUFFICES ASSUME Init PROVE QueueInv
  OBVIOUS
<1>1. /\ role \in [Player -> Roles] /\ queue \in Seq(Player) /\ wire \in Seq(Commands)
      /\ copy \in Seq(Player)
  BY DEF Init, Roles
<1>2. TypeInv
  BY <1>1 DEF Init, TypeInv, Rounds
<1> QED BY <1>2 DEF Init, QueueInv, LineOfWatchers, NoIdleSeat, OpenSlotsFill, CopyFollows

\* Every step keeps the invariant and sells no seat twice, and only a script's
\* skip, or a request beside a stranded line, passes anybody.
LEMMA NextStep ==
  ASSUME QueueInv, [Next]_vars
  PROVE  /\ QueueInv' /\ NoneOverfull
         /\ \/ NoneOvertaken
            \/ \E p \in Player : SkipJoinQueue(p) /\ \A x \in Player : Sits(x) => x = p
<1>1. ASSUME NEW p \in Player, Connect(p) PROVE Right
  BY <1>1, ConnectStep
<1>2. ASSUME NEW p \in Player, Disconnect(p) PROVE Right
  BY <1>2, DisconnectStep
<1>3. ASSUME NEW p \in Player, Spectate(p) PROVE Right
  BY <1>3, SpectateStep
<1>4. ASSUME NEW p \in Player, RequestJoin(p) PROVE Right
  BY <1>4, RequestStep
<1>5. ASSUME NEW p \in Player, ChangeTeam(p) PROVE Right
  BY <1>5, ChangeTeamStep
<1>6. ASSUME NEW p \in Player, SkipJoinQueue(p)
      PROVE  QueueInv' /\ NoneOverfull /\ \A x \in Player : Sits(x) => x = p
  BY <1>6, SkipStep
<1>7. ASSUME NEW n \in 1..MaxSeats, SetMaxPlayers(n) PROVE Right
  BY <1>7, SeatsStep
<1>8. ASSUME NEW p \in Player, Die(p) PROVE Right
  BY <1>8, DieStep
<1>9. SurvivalTick \/ RestartMission \/ EndLevel \/ WorldDone => Right
  BY TickStep, RestartStep, EndStep, WorldStep
<1>10. AuthenticateLevel \/ Receive \/ UNCHANGED vars => Right
  BY LevelStep, ReceiveStep, IdleStep
<1>11. Right \/ \E p \in Player : SkipJoinQueue(p)
  BY <1>1, <1>2, <1>3, <1>4, <1>5, <1>7, <1>8, <1>9, <1>10 DEF Next, Requests, Game
<1> QED BY <1>6, <1>11 DEF Right

\* The line's inductive invariant: who is in line is there once and in the game;
\* and, unless the line is stranded, he watches, nobody waits who could join, and
\* the watcher's copy follows.
THEOREM QueueInvariant == Spec => []QueueInv
<1>1. QueueInv /\ [Next]_vars => QueueInv'
  BY NextStep
<1> QED BY InitQueue, <1>1, PTL DEF Spec

\* Nobody waits in line while he could join, unless the line is stranded.
THEOREM NoSeatIdle == Spec => []NoIdleSeat
<1>1. QueueInv => NoIdleSeat
  BY DEF QueueInv
<1> QED BY QueueInvariant, <1>1, PTL

\* A client's copy of the line, once what is on its way has been applied to it, is
\* the server's line, unless the line is stranded.
THEOREM CopyIsTheLine == Spec => []CopyFollows
<1>1. QueueInv => CopyFollows
  BY DEF QueueInv
<1> QED BY QueueInvariant, <1>1, PTL

\* Whoever is in line is there once and in the game, so that CheckSanity finds
\* nothing to clean up; and he watches, unless the line is stranded.
THEOREM OnlyWatchersWait == Spec => []LineOfWatchers
<1>1. QueueInv => LineOfWatchers
  BY DEF QueueInv
<1> QED BY QueueInvariant, <1>1, PTL

\* Only a script's skip, or a request beside a stranded line, seats a player past
\* others in line.
THEOREM NobodyOvertakes == Spec => NoOvertaking
<1> DEFINE Fair == \A p, q \in Player :
             Sits(p) /\ AheadOf(q, p) /\ PositionInLine(queue', q) # 0
             => stranded \/ SkipJoinQueue(p)
<1>1. QueueInv /\ [Next]_vars => [Fair]_vars
  BY NextStep DEF NoneOvertaken
<1> HIDE DEF Fair
<1>2. Spec => [][Fair]_vars
  BY QueueInvariant, <1>1, PTL DEF Spec
<1> QED BY <1>2 DEF NoOvertaking, Fair

\* A step that seats somebody leaves no more players than there are seats.
THEOREM SeatsAreThere == Spec => NeverOverfull
<1>1. QueueInv /\ [Next]_vars => [(\E p \in Player : Sits(p)) => Cardinality(SeatedIn(role')) <= seats']_vars
  BY NextStep DEF NoneOverfull
<1> QED BY QueueInvariant, <1>1, PTL DEF Spec, NeverOverfull

==============================================================================
