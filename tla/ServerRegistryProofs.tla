------------------------ MODULE ServerRegistryProofs ------------------------
(***************************************************************************)
(* A server is listed in time, for every heartbeat, timeout and number of  *)
(* starts, changes and losses.                                             *)
(*                                                                         *)
(* The invariant is a clock.  Between announcements, the steps a server    *)
(* has waited and those to its next announcement make one heartbeat for    *)
(* each announcement that came to nothing, and one came to nothing only    *)
(* because a datagram was lost: HeardInTime.  An announcement whose        *)
(* exchange is under way is Pending and has a heartbeat on account.  What  *)
(* else could end an exchange, the daemon forgetting the server it waits   *)
(* for, does not: AskedInTime.  An entry of an earlier self of the server  *)
(* is as old as the wait and goes first: OutlivesOld.                      *)
(***************************************************************************)
EXTENDS ServerRegistry, TLAPS

BanParts == [version : Nat, part : Nat]

Entries ==
  [in : {"unverified", "listed"}, string : Nat, number : Numbers, age : Nat,
   hasLatest : BOOLEAN, verifiedLatest : BOOLEAN]

Datagrams ==
  [type : {"announce", "receipt"}, string : Nat]
    \cup [type : {"verify", "verification"}, string : Nat, number : Numbers]
    \cup [type : {"banlistpart"}, string : Nat, bans : BanParts]

TypeInv ==
  /\ entry \in {Unknown} \cup Entries
  /\ net \subseteq Datagrams
  /\ server \in [up : BOOLEAN, string : Nat, announceIn : 0..Heartbeat, bans : SUBSET BanParts]
  /\ version \in Nat /\ away \in Nat /\ missed \in Nat
  /\ passed \in BOOLEAN /\ stale \in BOOLEAN

-------------------------------------------------------------------------------
(* The invariant.                                                          *)

Own(x) == x.string = server.string
Foreign == Known /\ ~Own(entry)

\* Strings are made up anew, so none is of a server yet to start.
StringsRise ==
  /\ Known => entry.string <= server.string
  /\ \A m \in net : m.string <= server.string

\* The loop comes round once in every step and forgets the silent.
Young == Known => entry.age <= Timeout /\ (passed => entry.age < Timeout)

\* Only a server that is up and not listed waits.
Counted == ~server.up \/ Listed => away = 0

\* What an earlier self said arrives before the server has waited.
OldIsNew == \A m \in net : m.type \in {"announce", "verification"} /\ ~Own(m) => away = 0

\* An exchange begins the moment the next announcement is a heartbeat away.
JustAnnounced ==
  server.up => \A m \in net : m.type = "announce" /\ Own(m) => server.announceIn = Heartbeat

\* A start knows of the entry its earlier self has or is about to have.
StaleKnown ==
  server.up /\ ~stale => ~Foreign /\ \A m \in net : m.type = "announce" => Own(m)

\* A datagram of an exchange that ends with the server on the list.
Leads(m) ==
  /\ Own(m)
  /\ \/ m.type = "announce"
     \/ /\ m.type \in {"verify", "verification"}
        /\ entry.in = "unverified" /\ Own(entry) /\ m.number = entry.number

Pending == server.up /\ server.announceIn = Heartbeat /\ \E m \in net : Leads(m)

\* The heartbeats that losses and an exchange under way account for.
Allowed == (IF missed = 0 THEN 0 ELSE Heartbeat) + (IF Pending THEN Heartbeat ELSE 0)

\* The server the daemon waits for has been asked not long ago.
AskedInTime ==
  missed < 2 /\ server.up /\ entry.in = "unverified" /\ Own(entry)
    => entry.age + server.announceIn <= Allowed

\* An entry of an earlier self has been silent for as long as the server waits.
OutlivesOld == server.up /\ Foreign => away <= entry.age

\* With no such entry, the server has waited as long as losses account for.
HeardInTime ==
  missed < 2 /\ server.up /\ ~Foreign
    => away + server.announceIn <= (IF stale THEN Timeout ELSE 0) + Heartbeat + Allowed

Clock == AskedInTime /\ OutlivesOld /\ HeardInTime

RegistryInv ==
  /\ TypeInv /\ StringsRise /\ Young /\ Counted /\ OldIsNew /\ JustAnnounced /\ StaleKnown
  /\ Clock

-------------------------------------------------------------------------------
(* Types.                                                                  *)

\* The timeout holds two heartbeats.
LEMMA Times ==
  /\ Heartbeat \in Nat \ {0} /\ Timeout \in Nat \ {0} /\ Parts \in Nat \ {0}
  /\ Heartbeat + Heartbeat <= Timeout
BY RegistryAssumption

\* An entry is known if it waits to be verified or is listed.
LEMMA EntryKinds ==
  ASSUME TypeInv
  PROVE  /\ Known => entry \in Entries /\ entry.in \in {"unverified", "listed"}
         /\ ~Known => entry = Unknown /\ entry.in = "none"
BY DEF TypeInv, Known, Entries, Unknown

\* What the datagrams of each type carry.
LEMMA DatagramKinds ==
  ASSUME TypeInv, NEW m \in net
  PROVE  /\ m.string \in Nat
         /\ m.type \in {"announce", "receipt", "verify", "verification", "banlistpart"}
         /\ m.type \in {"verify", "verification"} => m.number \in Numbers
         /\ m.type = "banlistpart" => m.bans \in BanParts
<1>1. m \in Datagrams
  BY DEF TypeInv
<1>2. CASE m \in [type : {"announce", "receipt"}, string : Nat]
  BY <1>2
<1>3. CASE m \in [type : {"verify", "verification"}, string : Nat, number : Numbers]
  BY <1>3
<1>4. CASE m \in [type : {"banlistpart"}, string : Nat, bans : BanParts]
  BY <1>4
<1> QED BY <1>1, <1>2, <1>3, <1>4 DEF Datagrams

\* What is sent is a datagram.
LEMMA SentKinds ==
  /\ \A s \in Nat : Announcement(s) \in Datagrams /\ Receipt(s) \in Datagrams
  /\ \A s \in Nat, n \in Numbers : Verification(s, n) \in Datagrams
  /\ \A e \in Entries : VerifyRequest(e) \in Datagrams
  /\ \A e \in Entries : version \in Nat => BanlistParts(e) \subseteq Datagrams
<1>1. \A s \in Nat : Announcement(s) \in Datagrams /\ Receipt(s) \in Datagrams
  BY DEF Announcement, Receipt, Datagrams
<1>2. \A s \in Nat, n \in Numbers : Verification(s, n) \in Datagrams
  BY DEF Verification, Datagrams
<1>3. \A e \in Entries : VerifyRequest(e) \in Datagrams
  BY DEF VerifyRequest, Datagrams, Entries
<1>4. ASSUME NEW e \in Entries, version \in Nat
      PROVE  BanlistParts(e) \subseteq Datagrams
  <2>1. BanList(version) \subseteq BanParts
    BY <1>4, Times DEF BanList, BanParts
  <2>2. e.string \in Nat
    BY DEF Entries
  <2>3. \A p \in BanList(version) :
          [type |-> "banlistpart", string |-> e.string, bans |-> p] \in Datagrams
    BY <2>1, <2>2 DEF Datagrams
  <2> QED BY <2>3 DEF BanlistParts
<1> QED BY <1>1, <1>2, <1>3, <1>4

\* The fields of the server.
LEMMA ServerFields ==
  ASSUME TypeInv
  PROVE  /\ server.up \in BOOLEAN /\ server.string \in Nat
         /\ server.announceIn \in 0..Heartbeat /\ server.announceIn \in Nat
BY Times DEF TypeInv

\* Where no time passes and nothing is lost, an exchange only has to go on.
LEMMA ClockKept ==
  ASSUME RegistryInv,
         UNCHANGED <<away, missed, stale>>, Known' = Known,
         server'.up = server.up, server'.string = server.string,
         server'.announceIn = server.announceIn,
         entry'.in = entry.in, entry'.string = entry.string, entry'.age = entry.age,
         Pending /\ ~Foreign => Pending'
  PROVE  Clock'
<1>1. server.announceIn \in Nat /\ away \in Nat /\ missed \in Nat
  BY ServerFields DEF RegistryInv, TypeInv
<1>2. Foreign' = Foreign /\ Own(entry)' = Own(entry)
  BY DEF Foreign, Own
<1>3. Allowed \in Nat /\ Allowed' \in Nat /\ (~Foreign => Allowed <= Allowed')
  BY Times DEF Allowed
<1>4. AskedInTime'
  <2>1. SUFFICES ASSUME missed < 2, server.up, entry.in = "unverified", Own(entry)
                 PROVE  entry.age + server.announceIn <= Allowed'
    BY <1>2 DEF AskedInTime
  <2>2. ~Foreign /\ entry.age \in Nat
    BY <2>1, EntryKinds DEF RegistryInv, Foreign, Entries
  <2> QED BY <1>1, <1>3, <2>1, <2>2 DEF RegistryInv, Clock, AskedInTime
<1>5. OutlivesOld'
  BY <1>2 DEF RegistryInv, Clock, OutlivesOld
<1>6. HeardInTime'
  <2>1. SUFFICES ASSUME missed < 2, server.up, ~Foreign
                 PROVE  away + server.announceIn
                          <= (IF stale THEN Timeout ELSE 0) + Heartbeat + Allowed'
    BY <1>2 DEF HeardInTime
  <2> QED BY <1>1, <1>3, <2>1, Times DEF RegistryInv, Clock, HeardInTime
<1> QED BY <1>4, <1>5, <1>6 DEF Clock

-------------------------------------------------------------------------------
(* The daemon's answers.                                                   *)

\* An announcement of a listed server: either it is listed itself, and does not
\* wait, or its entry is an earlier self's.
LEMMA RenewsStep ==
  ASSUME RegistryInv, NEW m \in net, ReceiveAnnouncement(m), Renews(m)
  PROVE  RegistryInv'
<1>1. /\ m.type = "announce" /\ entry.in = "listed" /\ Known /\ entry \in Entries
      /\ net' = net \ {m}
      /\ UNCHANGED <<server, version, passed, away, stale>>
  BY EntryKinds DEF RegistryInv, ReceiveAnnouncement, Renews
<1>2. /\ entry' \in Entries /\ entry'.in = "listed" /\ entry'.string = entry.string /\ Known'
      /\ \/ entry'.age = 0 /\ missed' = 0 /\ m.string = entry.string
         \/ entry' = entry /\ missed' = missed /\ m.string # entry.string
  BY <1>1 DEF Renews, Entries, Known, Unknown
<1>3. TypeInv'
  BY <1>1, <1>2 DEF RegistryInv, TypeInv
<1>4. StringsRise' /\ Young' /\ Counted' /\ OldIsNew' /\ JustAnnounced' /\ StaleKnown'
  BY <1>1, <1>2, Times
  DEF RegistryInv, StringsRise, Young, Counted, OldIsNew, JustAnnounced, StaleKnown,
      Own, Foreign, Listed, Heeds, Entries
<1>5. Clock'
  <2>1. server.announceIn \in 0..Heartbeat /\ away \in Nat
    BY DEF RegistryInv, TypeInv
  <2>2. Own(entry) /\ server.up => away = 0
    BY <1>1 DEF RegistryInv, Counted, Listed, Heeds, Own
  <2>3. ~Own(entry) /\ m.string = entry.string => away = 0
    BY <1>1 DEF RegistryInv, OldIsNew, Own
  <2>4. AskedInTime'
    BY <1>2 DEF AskedInTime
  <2>5. OutlivesOld'
    BY <1>1, <1>2, <2>3 DEF RegistryInv, Clock, OutlivesOld, Foreign, Own
  <2>6. Allowed' >= 0 /\ Allowed' \in Nat
    BY Times DEF Allowed
  <2>7. HeardInTime'
    BY <1>1, <1>2, <2>1, <2>2, <2>6, Times DEF HeardInTime, Foreign, Own
  <2> QED BY <2>4, <2>5, <2>7 DEF Clock
<1> QED BY <1>3, <1>4, <1>5 DEF RegistryInv

\* A new entry is the server's own and its exchange is under way, or an earlier
\* self's, before the server has waited.
LEMMA AsksNewStep ==
  ASSUME RegistryInv, NEW m \in net, ReceiveAnnouncement(m), AsksNew(m)
  PROVE  RegistryInv'
<1>1. /\ m.type = "announce" /\ ~Known /\ entry.in = "none"
      /\ UNCHANGED <<server, version, passed, away, stale, missed>>
  BY EntryKinds DEF RegistryInv, ReceiveAnnouncement, AsksNew, Known
<1>2. PICK n \in Numbers :
        /\ entry' = [in |-> "unverified", string |-> m.string, number |-> n, age |-> 0,
                     hasLatest |-> TRUE, verifiedLatest |-> FALSE]
        /\ net' = (net \ {m}) \cup {VerifyRequest(entry')}
  BY DEF AsksNew
<1>3. m.string \in Nat
  BY DatagramKinds DEF RegistryInv
<1>4. /\ entry' \in Entries /\ entry'.in = "unverified" /\ entry'.string = m.string
      /\ entry'.age = 0 /\ entry'.number = n /\ Known'
  BY <1>2, <1>3 DEF Entries, Known, Unknown
<1> DEFINE v == VerifyRequest(entry')
<1>5. v.type = "verify" /\ v.string = m.string /\ v.number = entry'.number /\ v \in Datagrams
  BY <1>4, SentKinds DEF VerifyRequest
<1> HIDE DEF v
<1>6. net' = (net \ {m}) \cup {v}
  BY <1>2 DEF v
<1>7. TypeInv'
  BY <1>1, <1>4, <1>5, <1>6 DEF RegistryInv, TypeInv
<1>8. StringsRise' /\ Young' /\ Counted' /\ OldIsNew' /\ JustAnnounced' /\ StaleKnown'
  BY <1>1, <1>4, <1>5, <1>6, Times
  DEF RegistryInv, StringsRise, Young, Counted, OldIsNew, JustAnnounced, StaleKnown,
      Own, Foreign, Listed, Heeds
<1>9. Clock'
  <2>1. server.announceIn \in 0..Heartbeat /\ away \in Nat /\ missed \in Nat
    BY DEF RegistryInv, TypeInv
  <2>2. ~Own(m) => away = 0
    BY <1>1 DEF RegistryInv, OldIsNew
  <2>3. Own(m) /\ server.up => server.announceIn = Heartbeat
    BY <1>1 DEF RegistryInv, JustAnnounced
  <2>4. Own(m) /\ server.up => Pending'
    BY <1>1, <1>4, <1>5, <1>6, <2>3 DEF Pending, Leads, Own
  <2>5. AskedInTime'
    BY <1>1, <1>4, <2>1, <2>3, <2>4, Times DEF AskedInTime, Allowed, Own
  <2>6. OutlivesOld'
    BY <1>1, <1>4, <2>2 DEF OutlivesOld, Foreign, Own
  <2>7. HeardInTime'
    BY <1>1, <1>4, <2>1, <2>4, Times
    DEF RegistryInv, Clock, HeardInTime, Allowed, Foreign, Own
  <2> QED BY <2>5, <2>6, <2>7 DEF Clock
<1> QED BY <1>7, <1>8, <1>9 DEF RegistryInv

\* An exchange that is repeated goes on.
LEMMA AsksAgainStep ==
  ASSUME RegistryInv, NEW m \in net, ReceiveAnnouncement(m), AsksAgain(m)
  PROVE  RegistryInv'
<1> DEFINE v == VerifyRequest(entry)
<1>1. /\ m.type = "announce" /\ entry.in = "unverified" /\ entry \in Entries
      /\ net' = (net \ {m}) \cup {v}
      /\ UNCHANGED <<entry, server, version, passed, away, stale, missed>>
  BY EntryKinds DEF RegistryInv, ReceiveAnnouncement, AsksAgain
<1>2. v.type = "verify" /\ v.string = entry.string /\ v.number = entry.number /\ v \in Datagrams
  BY <1>1, SentKinds DEF VerifyRequest
<1>3. Known
  BY <1>1 DEF Known, Unknown
<1> HIDE DEF v
<1>4. TypeInv'
  BY <1>1, <1>2 DEF RegistryInv, TypeInv
<1>5. StringsRise' /\ Young' /\ Counted' /\ OldIsNew' /\ JustAnnounced' /\ StaleKnown'
  BY <1>1, <1>2, <1>3
  DEF RegistryInv, StringsRise, Young, Counted, OldIsNew, JustAnnounced, StaleKnown,
      Own, Foreign, Listed, Heeds, Known
<1>6. Pending /\ ~Foreign => Pending'
  BY <1>1, <1>2, <1>3 DEF Pending, Leads, Own, Foreign
<1>7. Clock'
  BY <1>1, <1>6, ClockKept DEF Known
<1> QED BY <1>4, <1>5, <1>7 DEF RegistryInv

\* The number repeated ends the wait; one for another entry was on nobody's way.
LEMMA VerificationStep ==
  ASSUME RegistryInv, NEW m \in net, ReceiveVerification(m)
  PROVE  RegistryInv'
<1>1. m.type = "verification" /\ UNCHANGED <<server, version, passed, stale>>
  BY DEF ReceiveVerification
<1>2. CASE ~(entry.in = "unverified" /\ entry.string = m.string /\ entry.number = m.number)
  <2>1. net' = net \ {m} /\ UNCHANGED <<entry, missed, away>>
    BY <1>2 DEF ReceiveVerification
  <2>2. Pending => Pending'
    BY <1>1, <1>2, <2>1 DEF Pending, Leads, Own
  <2>3. TypeInv'
    BY <1>1, <2>1 DEF RegistryInv, TypeInv
  <2>4. StringsRise' /\ Young' /\ Counted' /\ OldIsNew' /\ JustAnnounced' /\ StaleKnown'
    BY <1>1, <2>1
    DEF RegistryInv, StringsRise, Young, Counted, OldIsNew, JustAnnounced, StaleKnown,
        Own, Foreign, Listed, Heeds, Known
  <2>5. Clock'
    BY <1>1, <2>1, <2>2, ClockKept DEF Known
  <2> QED BY <2>3, <2>4, <2>5 DEF RegistryInv
<1>3. CASE entry.in = "unverified" /\ entry.string = m.string /\ entry.number = m.number
  <2>1. /\ entry' = BanlistSent([entry EXCEPT !.in = "listed", !.age = 0])
        /\ net' = (net \ {m}) \cup BanlistParts(entry)
        /\ missed' = 0 /\ away' = IF Heeds(entry) THEN 0 ELSE away
    BY <1>3 DEF ReceiveVerification
  <2>2. Known /\ entry \in Entries
    BY <1>3, EntryKinds DEF RegistryInv
  <2>3. /\ entry' \in Entries /\ entry'.in = "listed" /\ entry'.string = entry.string
        /\ entry'.age = 0 /\ Known'
    <3>1. [entry EXCEPT !.in = "listed", !.age = 0] \in Entries
      BY <2>2 DEF Entries
    <3>2. /\ [entry EXCEPT !.in = "listed", !.age = 0].in = "listed"
          /\ [entry EXCEPT !.in = "listed", !.age = 0].string = entry.string
          /\ [entry EXCEPT !.in = "listed", !.age = 0].age = 0
      BY <2>2 DEF Entries
    <3>3. \A e \in Entries : /\ BanlistSent(e) \in Entries /\ BanlistSent(e).in = e.in
                            /\ BanlistSent(e).string = e.string /\ BanlistSent(e).age = e.age
      BY DEF BanlistSent, Entries
    <3>4. /\ entry' \in Entries /\ entry'.in = "listed" /\ entry'.string = entry.string
          /\ entry'.age = 0
      BY <2>1, <3>1, <3>2, <3>3
    <3> QED BY <3>4 DEF Known, Unknown
  <2>4. away' = 0
    BY <1>1, <1>3, <2>1 DEF RegistryInv, OldIsNew, Counted, Own, Heeds
  <2>5. \A d \in BanlistParts(entry) : d.type = "banlistpart" /\ d.string = entry.string
    BY DEF BanlistParts
  <2>6. TypeInv'
    <3>1. net' \subseteq Datagrams
      BY <2>1, <2>2, SentKinds DEF RegistryInv, TypeInv
    <3> QED BY <1>1, <2>1, <2>3, <2>4, <3>1 DEF RegistryInv, TypeInv
  <2>7. StringsRise' /\ Young' /\ Counted' /\ OldIsNew' /\ JustAnnounced' /\ StaleKnown'
    BY <1>1, <2>1, <2>2, <2>3, <2>4, <2>5, Times
    DEF RegistryInv, StringsRise, Young, Counted, OldIsNew, JustAnnounced, StaleKnown, Own, Foreign
  <2>8. Clock'
    <3>1. server.announceIn \in 0..Heartbeat
      BY DEF RegistryInv, TypeInv
    <3>2. AskedInTime' /\ OutlivesOld'
      BY <2>3, <2>4 DEF AskedInTime, OutlivesOld
    <3>3. HeardInTime'
      BY <1>1, <2>4, <3>1, Times DEF HeardInTime, Allowed
    <3> QED BY <3>2, <3>3 DEF Clock
  <2> QED BY <2>6, <2>7, <2>8 DEF RegistryInv
<1> QED BY <1>2, <1>3

\* A receipt is no part of an exchange.
LEMMA ReceiptStep ==
  ASSUME RegistryInv, NEW m \in net, ReceiveReceipt(m)
  PROVE  RegistryInv'
<1>1. /\ m.type = "receipt" /\ net' = net \ {m}
      /\ UNCHANGED <<server, version, passed, away, stale, missed>>
      /\ entry' = IF entry.in = "listed" /\ entry.string = m.string
                  THEN [entry EXCEPT !.verifiedLatest = TRUE] ELSE entry
  BY DEF ReceiveReceipt
<1>2. /\ entry' \in {Unknown} \cup Entries /\ Known' = Known
      /\ entry'.in = entry.in /\ entry'.string = entry.string
      /\ entry'.age = entry.age /\ entry'.number = entry.number
  <2>1. CASE entry.in = "listed" /\ entry.string = m.string
    <3>1. Known /\ entry \in Entries
      BY <2>1, EntryKinds DEF RegistryInv
    <3>2. /\ entry' \in Entries /\ entry'.in = entry.in /\ entry'.string = entry.string
          /\ entry'.age = entry.age /\ entry'.number = entry.number
      BY <1>1, <2>1, <3>1 DEF Entries
    <3> QED BY <2>1, <3>1, <3>2 DEF Known, Unknown
  <2>2. CASE ~(entry.in = "listed" /\ entry.string = m.string)
    BY <1>1, <2>2 DEF RegistryInv, TypeInv, Known
  <2> QED BY <2>1, <2>2
<1>3. TypeInv'
  BY <1>1, <1>2 DEF RegistryInv, TypeInv
<1>4. StringsRise' /\ Young' /\ Counted' /\ OldIsNew' /\ JustAnnounced' /\ StaleKnown'
  BY <1>1, <1>2
  DEF RegistryInv, StringsRise, Young, Counted, OldIsNew, JustAnnounced, StaleKnown,
      Own, Foreign, Listed, Heeds
<1>5. Pending => Pending'
  BY <1>1, <1>2 DEF Pending, Leads, Own
<1>6. Clock'
  BY <1>1, <1>2, <1>5, ClockKept
<1> QED BY <1>3, <1>4, <1>6 DEF RegistryInv

-------------------------------------------------------------------------------
(* The server's steps.                                                     *)

\* What is asked of the server is answered, and what asks its earlier self is not.
LEMMA AnswerStep ==
  ASSUME RegistryInv, NEW m \in net, HandleVerificationRequest(m)
  PROVE  RegistryInv'
<1> DEFINE v == Verification(server.string, m.number)
<1>1. /\ m.type = "verify" /\ UNCHANGED <<entry, server, version, passed, away, stale, missed>>
      /\ net' = (net \ {m}) \cup (IF Heeds(m) THEN {v} ELSE {})
  BY DEF HandleVerificationRequest, daemonVars
<1>2. v.type = "verification" /\ v.string = server.string /\ v.number = m.number /\ v \in Datagrams
  BY <1>1, DatagramKinds, ServerFields, SentKinds DEF RegistryInv, Verification
<1> HIDE DEF v
<1>3. TypeInv'
  BY <1>1, <1>2 DEF RegistryInv, TypeInv
<1>4. StringsRise' /\ Young' /\ Counted' /\ OldIsNew' /\ JustAnnounced' /\ StaleKnown'
  BY <1>1, <1>2, ServerFields
  DEF RegistryInv, StringsRise, Young, Counted, OldIsNew, JustAnnounced, StaleKnown,
      Own, Foreign, Listed, Heeds, Known
<1>5. Pending => Pending'
  BY <1>1, <1>2 DEF Pending, Leads, Own, Heeds
<1>6. Clock'
  BY <1>1, <1>5, ClockKept DEF Known
<1> QED BY <1>3, <1>4, <1>6 DEF RegistryInv

\* A part of the ban list changes nothing of an exchange.
LEMMA BanlistStep ==
  ASSUME RegistryInv, NEW m \in net, ReadBanlistPart(m)
  PROVE  RegistryInv'
<1> DEFINE r == Receipt(server.string)
<1>1. /\ m.type = "banlistpart" /\ UNCHANGED <<entry, version, passed, away, stale, missed>>
      /\ net' \subseteq (net \ {m}) \cup {r} /\ net \ {m} \subseteq net'
      /\ \/ server' = server
         \/ server' = [server EXCEPT !.bans = {m.bans} \cup IF m.bans.part = 0 THEN {} ELSE @]
  BY DEF ReadBanlistPart, daemonVars
<1>2. r.type = "receipt" /\ r.string = server.string /\ r \in Datagrams
  BY ServerFields, SentKinds DEF RegistryInv, Receipt
<1> HIDE DEF r
<1>3. /\ server' \in [up : BOOLEAN, string : Nat, announceIn : 0..Heartbeat, bans : SUBSET BanParts]
      /\ server'.up = server.up /\ server'.string = server.string
      /\ server'.announceIn = server.announceIn
  <2>1. m.bans \in BanParts
    BY <1>1, DatagramKinds DEF RegistryInv
  <2> QED BY <1>1, <2>1 DEF RegistryInv, TypeInv
<1>4. TypeInv'
  BY <1>1, <1>2, <1>3 DEF RegistryInv, TypeInv
<1>5. StringsRise' /\ Young' /\ Counted' /\ OldIsNew' /\ JustAnnounced' /\ StaleKnown'
  BY <1>1, <1>2, <1>3, ServerFields
  DEF RegistryInv, StringsRise, Young, Counted, OldIsNew, JustAnnounced, StaleKnown,
      Own, Foreign, Listed, Heeds, Known
<1>6. Pending => Pending'
  BY <1>1, <1>3 DEF Pending, Leads, Own
<1>7. Clock'
  BY <1>1, <1>3, <1>6, ClockKept DEF Known
<1> QED BY <1>4, <1>5, <1>7 DEF RegistryInv

\* An announcement starts an exchange, a heartbeat after the one before.
LEMMA AnnounceStep == ASSUME RegistryInv, Announce PROVE RegistryInv'
<1> DEFINE v == Announcement(server.string)
<1>1. /\ server.up /\ server.announceIn = 0
      /\ server' = [server EXCEPT !.announceIn = Heartbeat]
      /\ net' = net \cup {v}
      /\ UNCHANGED <<entry, version, passed, away, stale, missed>>
  BY DEF Announce, daemonVars
<1>2. v.type = "announce" /\ v.string = server.string /\ v \in Datagrams
  BY ServerFields, SentKinds DEF RegistryInv, Announcement
<1> HIDE DEF v
<1>3. /\ server' \in [up : BOOLEAN, string : Nat, announceIn : 0..Heartbeat, bans : SUBSET BanParts]
      /\ server'.up = server.up /\ server'.string = server.string
      /\ server'.announceIn = Heartbeat
  <2>1. Heartbeat \in 0..Heartbeat
    BY Times
  <2> QED BY <1>1, <2>1 DEF RegistryInv, TypeInv
<1>4. TypeInv'
  BY <1>1, <1>2, <1>3 DEF RegistryInv, TypeInv
<1>5. StringsRise' /\ Young' /\ Counted' /\ OldIsNew' /\ JustAnnounced' /\ StaleKnown'
  BY <1>1, <1>2, <1>3, ServerFields
  DEF RegistryInv, StringsRise, Young, Counted, OldIsNew, JustAnnounced, StaleKnown,
      Own, Foreign, Listed, Heeds, Known
<1>6. Clock'
  <2>1. Pending' /\ ~Pending
    BY <1>1, <1>2, <1>3, Times DEF Pending, Leads, Own
  <2>2. Foreign' = Foreign /\ Own(entry)' = Own(entry) /\ away \in Nat
    BY <1>1, <1>3 DEF Foreign, Own, Known, RegistryInv, TypeInv
  <2>3. AskedInTime'
    <3>1. SUFFICES ASSUME missed < 2, server.up, entry.in = "unverified", Own(entry)
                   PROVE  entry.age + Heartbeat <= Allowed'
      BY <1>1, <1>3, <2>2 DEF AskedInTime
    <3>2. entry.age \in Nat
      BY <3>1, EntryKinds DEF RegistryInv, Entries
    <3> QED BY <1>1, <2>1, <3>1, <3>2, Times DEF RegistryInv, Clock, AskedInTime, Allowed
  <2>4. OutlivesOld'
    BY <1>1, <1>3, <2>2 DEF RegistryInv, Clock, OutlivesOld
  <2>5. HeardInTime'
    <3>1. SUFFICES ASSUME missed < 2, server.up, ~Foreign
                   PROVE  away + Heartbeat
                            <= (IF stale THEN Timeout ELSE 0) + Heartbeat + Allowed'
      BY <1>1, <1>3, <2>2 DEF HeardInTime
    <3> QED BY <1>1, <2>1, <2>2, <3>1, Times DEF RegistryInv, Clock, HeardInTime, Allowed
  <2> QED BY <2>3, <2>4, <2>5 DEF Clock
<1> QED BY <1>4, <1>5, <1>6 DEF RegistryInv

\* A server that is down does not wait.
LEMMA StopStep == ASSUME RegistryInv, Stop PROVE RegistryInv'
<1>1. /\ server' = [server EXCEPT !.up = FALSE] /\ away' = 0
      /\ UNCHANGED <<entry, version, passed, net, stale, missed>>
  BY DEF Stop, daemonVars
<1>2. /\ server' \in [up : BOOLEAN, string : Nat, announceIn : 0..Heartbeat, bans : SUBSET BanParts]
      /\ ~server'.up /\ server'.string = server.string
  BY <1>1 DEF RegistryInv, TypeInv
<1>3. TypeInv'
  BY <1>1, <1>2 DEF RegistryInv, TypeInv
<1>4. StringsRise' /\ Young' /\ Counted' /\ OldIsNew' /\ JustAnnounced' /\ StaleKnown'
  BY <1>1, <1>2
  DEF RegistryInv, StringsRise, Young, Counted, OldIsNew, JustAnnounced, StaleKnown, Known
<1>5. Clock'
  BY <1>2 DEF Clock, AskedInTime, OutlivesOld, HeardInTime
<1> QED BY <1>3, <1>4, <1>5 DEF RegistryInv

\* Whatever there was when the server starts is its earlier self's.
LEMMA StartStep == ASSUME RegistryInv, Start PROVE RegistryInv'
<1>1. /\ server' = [up |-> TRUE, string |-> server.string + 1, announceIn |-> 0, bans |-> {}]
      /\ away' = 0 /\ missed' = 0 /\ stale' = (Known \/ net # {})
      /\ UNCHANGED <<entry, version, passed, net>>
  BY DEF Start, daemonVars
<1>2. server.string \in Nat
  BY ServerFields DEF RegistryInv
<1>3. /\ server' \in [up : BOOLEAN, string : Nat, announceIn : 0..Heartbeat, bans : SUBSET BanParts]
      /\ server'.up /\ server'.string = server.string + 1 /\ server'.announceIn = 0
  BY <1>1, <1>2, Times
<1>4. Known => entry.string <= server'.string /\ entry.string # server'.string
  BY <1>2, <1>3, EntryKinds DEF RegistryInv, StringsRise, Entries
<1>5. ASSUME NEW m \in net PROVE m.string <= server'.string /\ m.string # server'.string
  BY <1>2, <1>3, DatagramKinds DEF RegistryInv, StringsRise
<1>8. TypeInv'
  BY <1>1, <1>3 DEF RegistryInv, TypeInv
<1>9. StringsRise' /\ Young' /\ Counted' /\ OldIsNew' /\ JustAnnounced' /\ StaleKnown'
  <2>1. StringsRise' /\ Young' /\ Counted' /\ OldIsNew'
    BY <1>1, <1>4, <1>5 DEF RegistryInv, StringsRise, Young, Counted, OldIsNew, Known
  <2>2. JustAnnounced'
    BY <1>1, <1>5 DEF JustAnnounced, Own
  <2>3. StaleKnown'
    BY <1>1 DEF StaleKnown, Foreign, Known
  <2> QED BY <2>1, <2>2, <2>3
<1>10. Clock'
  <2>1. ~(entry'.in = "unverified" /\ Own(entry)')
    BY <1>1, <1>4 DEF Own, Known, Unknown
  <2>2. AskedInTime' /\ OutlivesOld'
    <3>1. Foreign' => entry.age \in Nat
      BY <1>1, EntryKinds DEF RegistryInv, Foreign, Known, Entries
    <3> QED BY <1>1, <2>1, <3>1 DEF AskedInTime, OutlivesOld
  <2>3. HeardInTime'
    BY <1>1, <1>3, Times DEF HeardInTime, Allowed
  <2> QED BY <2>2, <2>3 DEF Clock
<1> QED BY <1>8, <1>9, <1>10 DEF RegistryInv

-------------------------------------------------------------------------------
(* Losses, the daemon's loop and time.                                     *)

\* A loss that ends an exchange accounts for its heartbeat.
LEMMA LossStep == ASSUME RegistryInv, NEW m \in net, LoseDatagram(m) PROVE RegistryInv'
<1>1. /\ net' = net \ {m} /\ missed' = missed + 1
      /\ UNCHANGED <<entry, version, passed, server, away, stale>>
  BY DEF LoseDatagram, daemonVars
<1>2. TypeInv'
  BY <1>1 DEF RegistryInv, TypeInv
<1>3. StringsRise' /\ Young' /\ Counted' /\ OldIsNew' /\ JustAnnounced' /\ StaleKnown'
  BY <1>1
  DEF RegistryInv, StringsRise, Young, Counted, OldIsNew, JustAnnounced, StaleKnown,
      Own, Foreign, Listed, Heeds, Known
<1>4. Clock'
  <2>1. /\ missed \in Nat /\ away \in Nat /\ server.announceIn \in Nat
        /\ Foreign' = Foreign /\ Own(entry)' = Own(entry)
    BY <1>1, ServerFields DEF RegistryInv, TypeInv, Foreign, Own, Known
  <2>2. Allowed \in Nat /\ Allowed' \in Nat /\ (missed' < 2 => missed = 0 /\ Allowed <= Allowed')
    BY <1>1, <2>1, Times DEF Allowed
  <2>3. AskedInTime'
    <3>1. SUFFICES ASSUME missed' < 2, server.up, entry.in = "unverified", Own(entry)
                   PROVE  entry.age + server.announceIn <= Allowed'
      BY <1>1, <2>1 DEF AskedInTime
    <3>2. entry.age \in Nat
      BY <3>1, EntryKinds DEF RegistryInv, Entries
    <3> QED BY <2>1, <2>2, <3>1, <3>2 DEF RegistryInv, Clock, AskedInTime
  <2>4. OutlivesOld'
    BY <1>1, <2>1 DEF RegistryInv, Clock, OutlivesOld
  <2>5. HeardInTime'
    <3>1. SUFFICES ASSUME missed' < 2, server.up, ~Foreign
                   PROVE  away + server.announceIn
                            <= (IF stale THEN Timeout ELSE 0) + Heartbeat + Allowed'
      BY <1>1, <2>1 DEF HeardInTime
    <3> QED BY <2>1, <2>2, <3>1, Times DEF RegistryInv, Clock, HeardInTime
  <2> QED BY <2>3, <2>4, <2>5 DEF Clock
<1> QED BY <1>2, <1>3, <1>4 DEF RegistryInv

\* What a round of the loop leaves of an entry.
LEMMA PassEffect ==
  ASSUME RegistryInv, NEW changed \in BOOLEAN, Pass(changed)
  PROVE  /\ UNCHANGED <<server, away, missed, stale>> /\ passed' = TRUE /\ version' \in Nat
         /\ net \subseteq net' /\ net' \subseteq Datagrams
         /\ \A m \in net' : m \in net \/ (m.type = "banlistpart" /\ Known /\ m.string = entry.string)
         /\ \/ TimedOut /\ entry' = Unknown
            \/ ~Known /\ entry' = Unknown
            \/ /\ Known /\ ~TimedOut /\ entry' \in Entries
               /\ entry'.in = entry.in /\ entry'.string = entry.string
               /\ entry'.age = entry.age /\ entry'.number = entry.number
<1>1. /\ UNCHANGED <<server, away, missed, stale>> /\ passed' = TRUE
      /\ net' = net \cup CheckSends
      /\ entry' = IF changed THEN Reloaded(Swept(Checked)) ELSE Swept(Checked)
  BY DEF Pass
<1>2. version' \in Nat
  BY DEF RegistryInv, TypeInv, Pass
<1>3. CheckSends \subseteq Datagrams
  BY EntryKinds, SentKinds DEF RegistryInv, TypeInv, CheckSends
<1>4. \A m \in CheckSends : m.type = "banlistpart" /\ Known /\ m.string = entry.string
  BY DEF CheckSends, BanlistParts
<1>5. CASE TimedOut \/ ~Known
  <2>1. Checked = Unknown
    BY <1>5 DEF Checked, Known
  <2>2. Swept(Unknown) = Unknown /\ Reloaded(Unknown) = Unknown
    BY DEF Swept, Reloaded, Unknown
  <2>3. entry' = Unknown
    BY <1>1, <2>1, <2>2
  <2> QED BY <1>1, <1>2, <1>3, <1>4, <1>5, <2>3 DEF RegistryInv, TypeInv
<1>6. CASE Known /\ ~TimedOut
  <2> DEFINE Same(e) == /\ e \in Entries /\ e.in = entry.in /\ e.string = entry.string
                        /\ e.age = entry.age /\ e.number = entry.number
  <2>1. entry \in Entries
    BY <1>6, EntryKinds DEF RegistryInv
  <2>2. \A e \in Entries : Same(e) => Same(BanlistSent(e)) /\ Same(Swept(e)) /\ Same(Reloaded(e))
    BY DEF BanlistSent, Swept, Reloaded, Entries
  <2>3. Same(Checked)
    BY <1>6, <2>1, <2>2 DEF Checked
  <2>4. Same(Swept(Checked)) /\ Same(Reloaded(Swept(Checked)))
    BY <2>2, <2>3
  <2>5. Same(entry')
    BY <1>1, <2>4
  <2> QED BY <1>1, <1>2, <1>3, <1>4, <1>6, <2>5 DEF RegistryInv, TypeInv
<1> QED BY <1>5, <1>6

\* Only the silent are forgotten: none whose exchange is under way, and an earlier
\* self once the server has waited as long as that takes.
LEMMA PassStep ==
  ASSUME RegistryInv, NEW changed \in BOOLEAN, Pass(changed)
  PROVE  RegistryInv'
<1>1. /\ UNCHANGED <<server, away, missed, stale>> /\ passed' = TRUE /\ version' \in Nat
      /\ net \subseteq net' /\ net' \subseteq Datagrams
      /\ \A m \in net' : m \in net \/ (m.type = "banlistpart" /\ Known /\ m.string = entry.string)
  BY PassEffect
<1>2. \/ TimedOut /\ entry' = Unknown
      \/ ~Known /\ entry' = Unknown
      \/ /\ Known /\ ~TimedOut /\ entry' \in Entries
         /\ entry'.in = entry.in /\ entry'.string = entry.string
         /\ entry'.age = entry.age /\ entry'.number = entry.number
  BY PassEffect
<1>3. Known' => Known /\ ~TimedOut
  BY <1>2 DEF Known
<1>4. TypeInv'
  BY <1>1, <1>2 DEF RegistryInv, TypeInv
<1>5. StringsRise' /\ OldIsNew' /\ JustAnnounced' /\ StaleKnown'
  BY <1>1, <1>2, <1>3
  DEF RegistryInv, StringsRise, OldIsNew, JustAnnounced, StaleKnown, Own, Foreign
<1>6. Young'
  <2>1. Known => entry.age \in Nat
    BY EntryKinds DEF RegistryInv, Entries
  <2> QED BY <1>2, <1>3, <2>1, Times DEF RegistryInv, Young, TimedOut
<1>7. Counted'
  BY <1>1, <1>2 DEF RegistryInv, Counted, Listed, Heeds, Unknown
<1>8. Clock'
  <2>1. CASE Known' \/ ~Known
    <3>1. /\ Known' = Known /\ entry'.in = entry.in
          /\ entry' = entry \/ (entry'.string = entry.string /\ entry'.age = entry.age
                               /\ entry'.number = entry.number)
      BY <1>2, <2>1 DEF Known
    <3>2. Pending => Pending'
      BY <1>1, <3>1 DEF Pending, Leads, Own
    <3> QED BY <1>1, <3>1, <3>2, ClockKept
  <2>2. CASE Known /\ ~Known'
    <3>1. TimedOut /\ entry' = Unknown /\ entry'.in = "none"
      BY <1>2, <2>2, EntryKinds DEF RegistryInv, Known, Unknown
    <3>2. entry.age \in Nat /\ entry.age >= Timeout /\ entry.age <= Timeout
      BY <2>2, <3>1, EntryKinds DEF RegistryInv, Entries, TimedOut, Young
    <3>3. away \in Nat /\ missed \in Nat /\ server.announceIn \in 0..Heartbeat
      BY DEF RegistryInv, TypeInv
    <3>4. AskedInTime' /\ OutlivesOld'
      BY <2>2, <3>1 DEF AskedInTime, OutlivesOld, Foreign
    <3>5. HeardInTime'
      <4>1. SUFFICES ASSUME missed < 2, server.up
                     PROVE  away + server.announceIn
                              <= (IF stale THEN Timeout ELSE 0) + Heartbeat + Allowed'
        BY <1>1 DEF HeardInTime
      <4>2. Allowed' \in Nat
        BY Times DEF Allowed
      <4>3. CASE Foreign
        <5>1. stale /\ away <= entry.age
          BY <4>1, <4>3 DEF RegistryInv, StaleKnown, Clock, OutlivesOld
        <5> QED BY <3>2, <3>3, <4>2, <5>1, Times
      <4>4. CASE entry.in = "listed" /\ ~Foreign
        <5>1. away = 0
          BY <2>2, <4>1, <4>4 DEF RegistryInv, Counted, Listed, Heeds, Foreign, Own
        <5> QED BY <3>3, <4>2, <5>1, Times
      <4>5. CASE entry.in = "unverified" /\ ~Foreign
        <5>1. entry.age + server.announceIn <= Allowed
          BY <2>2, <4>1, <4>5 DEF RegistryInv, Clock, AskedInTime, Foreign
        <5>2. ~Pending
          <6>1. SUFFICES ASSUME Pending PROVE FALSE
            OBVIOUS
          <6>2. /\ server.announceIn = Heartbeat
                /\ Allowed \in Nat /\ Allowed <= Heartbeat + Heartbeat
            BY <6>1, Times DEF Pending, Allowed
          <6> QED BY <3>2, <5>1, <6>2, Times
        <5>3. Allowed <= Allowed' /\ Allowed \in Nat
          BY <1>1, <5>2, Times DEF Allowed
        <5>4. away + server.announceIn <= (IF stale THEN Timeout ELSE 0) + Heartbeat + Allowed
          BY <4>1, <4>5 DEF RegistryInv, Clock, HeardInTime
        <5> QED BY <3>3, <4>2, <5>3, <5>4, Times
      <4> QED BY <2>2, <4>3, <4>4, <4>5, EntryKinds DEF RegistryInv
    <3> QED BY <3>4, <3>5 DEF Clock
  <2> QED BY <2>1, <2>2
<1> QED BY <1>4, <1>5, <1>6, <1>7, <1>8 DEF RegistryInv

\* A daemon that starts again knows of nobody, and nobody has waited for it.
LEMMA RestartStep == ASSUME RegistryInv, RestartDaemon PROVE RegistryInv'
<1>1. /\ version' = version + 1 /\ entry' = Unknown /\ passed' = FALSE
      /\ net' = {m \in net : m.type \in {"verify", "banlistpart"}}
      /\ away' = 0 /\ missed' = 0 /\ stale' = FALSE /\ UNCHANGED server
  BY DEF RestartDaemon
<1>2. ~Known' /\ entry'.in = "none"
  BY <1>1 DEF Known, Unknown
<1>3. TypeInv'
  <2>1. net' \subseteq Datagrams
    BY <1>1 DEF RegistryInv, TypeInv
  <2>2. version' \in Nat /\ missed' \in Nat /\ away' \in Nat
    BY <1>1 DEF RegistryInv, TypeInv
  <2> QED BY <1>1, <2>1, <2>2 DEF RegistryInv, TypeInv
<1>4. StringsRise' /\ Young' /\ Counted' /\ OldIsNew' /\ JustAnnounced' /\ StaleKnown'
  BY <1>1, <1>2
  DEF RegistryInv, StringsRise, Young, Counted, OldIsNew, JustAnnounced, StaleKnown, Foreign
<1>5. Clock'
  <2>1. server.announceIn \in 0..Heartbeat
    BY DEF RegistryInv, TypeInv
  <2>2. AskedInTime' /\ OutlivesOld'
    BY <1>2 DEF AskedInTime, OutlivesOld, Foreign
  <2>3. Allowed' \in Nat
    BY Times DEF Allowed
  <2>4. HeardInTime'
    BY <1>1, <2>1, <2>3, Times DEF HeardInTime
  <2> QED BY <2>2, <2>4 DEF Clock
<1> QED BY <1>3, <1>4, <1>5 DEF RegistryInv

\* Ten seconds bring the next announcement ten seconds nearer, and no exchange is
\* under way across them.
LEMMA ElapseStep == ASSUME RegistryInv, Elapse PROVE RegistryInv'
<1>1. /\ net = {} /\ net' = {} /\ passed /\ passed' = FALSE
      /\ (server.up => server.announceIn > 0)
      /\ entry' = IF Known THEN [entry EXCEPT !.age = @ + 1] ELSE entry
      /\ server' = IF server.up THEN [server EXCEPT !.announceIn = @ - 1] ELSE server
      /\ stale' = (stale /\ ~Listed) /\ UNCHANGED <<version, missed>>
      /\ away' = IF Listed \/ ~server.up THEN 0
                 ELSE IF away > 2 * Timeout THEN away ELSE away + 1
  BY DEF Elapse
<1>2. /\ away \in Nat /\ missed \in Nat /\ server.announceIn \in 0..Heartbeat
      /\ server.up \in BOOLEAN
  BY DEF RegistryInv, TypeInv
<1>3. away' \in Nat /\ away' <= away + 1 /\ (Listed \/ ~server.up => away' = 0)
  BY <1>1, <1>2
<1>4. /\ Known => /\ entry' \in Entries /\ entry'.age = entry.age + 1 /\ entry.age \in Nat
                  /\ entry'.in = entry.in /\ entry'.string = entry.string
      /\ ~Known => entry' = entry
      /\ Known' = Known
  <2>1. CASE Known
    <3>1. entry \in Entries /\ entry.in \in {"unverified", "listed"}
      BY <2>1, EntryKinds DEF RegistryInv
    <3>2. /\ entry' \in Entries /\ entry'.age = entry.age + 1 /\ entry.age \in Nat
          /\ entry'.in = entry.in /\ entry'.string = entry.string
      BY <1>1, <2>1, <3>1 DEF Entries
    <3> QED BY <2>1, <3>1, <3>2 DEF Known, Unknown
  <2>2. CASE ~Known
    BY <1>1, <2>2 DEF Known
  <2> QED BY <2>1, <2>2
<1>5. /\ server' \in [up : BOOLEAN, string : Nat, announceIn : 0..Heartbeat, bans : SUBSET BanParts]
      /\ server'.up = server.up /\ server'.string = server.string
      /\ server.up => server'.announceIn = server.announceIn - 1
  <2>1. server.up => server.announceIn - 1 \in 0..Heartbeat
    BY <1>1, <1>2, Times
  <2> QED BY <1>1, <2>1 DEF RegistryInv, TypeInv
<1>6. TypeInv'
  BY <1>1, <1>3, <1>4, <1>5 DEF RegistryInv, TypeInv
<1>7. Foreign' = Foreign /\ Listed' = Listed /\ (Known => Own(entry)' = Own(entry))
  BY <1>4, <1>5 DEF Foreign, Own, Listed, Heeds, Known
<1>8. StringsRise' /\ Young' /\ Counted' /\ OldIsNew' /\ JustAnnounced'
  BY <1>1, <1>3, <1>4, <1>5, <1>7, Times
  DEF RegistryInv, StringsRise, Young, Counted, OldIsNew, JustAnnounced
<1>9. StaleKnown'
  BY <1>1, <1>5, <1>7 DEF RegistryInv, StaleKnown, Listed, Heeds, Foreign, Own
<1>10. Clock'
  <2>1. Allowed' = Allowed /\ Allowed \in Nat
    BY <1>1, Times DEF Allowed, Pending
  <2>2. AskedInTime'
    <3>1. SUFFICES ASSUME missed < 2, server.up, entry'.in = "unverified", Own(entry)'
                   PROVE  entry'.age + server'.announceIn <= Allowed
      BY <1>1, <1>5, <2>1 DEF AskedInTime
    <3>2. Known
      BY <1>4, <3>1, EntryKinds DEF RegistryInv
    <3>3. entry.age + server.announceIn <= Allowed
      BY <1>4, <1>7, <3>1, <3>2 DEF RegistryInv, Clock, AskedInTime
    <3> QED BY <1>2, <1>4, <1>5, <2>1, <3>1, <3>2, <3>3
  <2>3. OutlivesOld'
    <3>1. SUFFICES ASSUME server.up, Foreign PROVE away' <= entry'.age
      BY <1>5, <1>7 DEF OutlivesOld
    <3>2. Known /\ away <= entry.age
      BY <3>1 DEF RegistryInv, Clock, OutlivesOld, Foreign
    <3> QED BY <1>2, <1>3, <1>4, <3>2
  <2>4. HeardInTime'
    <3>1. SUFFICES ASSUME missed < 2, server.up, ~Foreign
                   PROVE  away' + server'.announceIn
                            <= (IF stale' THEN Timeout ELSE 0) + Heartbeat + Allowed
      BY <1>1, <1>5, <1>7, <2>1 DEF HeardInTime
    <3>2. CASE Listed
      BY <1>2, <1>3, <1>5, <2>1, <3>1, <3>2, Times
    <3>3. CASE ~Listed
      <4>1. away + server.announceIn <= (IF stale THEN Timeout ELSE 0) + Heartbeat + Allowed
        BY <3>1 DEF RegistryInv, Clock, HeardInTime
      <4>2. stale' = stale
        BY <1>1, <3>3 DEF RegistryInv, TypeInv
      <4> QED BY <1>2, <1>3, <1>5, <2>1, <3>1, <4>1, <4>2, Times
    <3> QED BY <3>2, <3>3
  <2> QED BY <2>2, <2>3, <2>4 DEF Clock
<1> QED BY <1>6, <1>8, <1>9, <1>10 DEF RegistryInv

-------------------------------------------------------------------------------
(* The theorems.                                                           *)

\* The clock is right at first.
LEMMA InitStep == Init => RegistryInv
<1> SUFFICES ASSUME Init PROVE RegistryInv OBVIOUS
<1>1. /\ ~Known /\ entry.in = "none" /\ net = {} /\ away = 0 /\ missed = 0
      /\ server.announceIn = 0 /\ entry = Unknown
  BY DEF Init, Known, Unknown
<1>2. TypeInv
  <2>1. server \in [up : BOOLEAN, string : Nat, announceIn : 0..Heartbeat, bans : SUBSET BanParts]
    BY Times DEF Init
  <2> QED BY <2>1 DEF Init, TypeInv
<1>3. StringsRise /\ Young /\ Counted /\ OldIsNew /\ JustAnnounced /\ StaleKnown
  BY <1>1 DEF StringsRise, Young, Counted, OldIsNew, JustAnnounced, StaleKnown, Foreign
<1>4. Clock
  BY <1>1, Times DEF Clock, AskedInTime, OutlivesOld, HeardInTime, Foreign, Allowed
<1> QED BY <1>2, <1>3, <1>4 DEF RegistryInv

\* The clock runs right whatever is lost, started again or changed.
THEOREM RegistryInvariant == Spec => []RegistryInv
<1>1. RegistryInv /\ [Next]_vars => RegistryInv'
  <2> SUFFICES ASSUME RegistryInv, [Next]_vars PROVE RegistryInv' OBVIOUS
  <2>1. ASSUME NEW m \in net, Receive(m) PROVE RegistryInv'
    BY <2>1, RenewsStep, AsksNewStep, AsksAgainStep, VerificationStep, ReceiptStep,
       AnswerStep, BanlistStep
    DEF Receive, ReceiveAnnouncement
  <2>2. ASSUME NEW m \in net, LoseDatagram(m) PROVE RegistryInv'
    BY <2>2, LossStep
  <2>3. ASSUME NEW changed \in BOOLEAN, Pass(changed) PROVE RegistryInv'
    BY <2>3, PassStep
  <2>4. CASE UNCHANGED vars
    BY <2>4
    DEF vars, daemonVars, RegistryInv, TypeInv, StringsRise, Young, Counted, OldIsNew,
        JustAnnounced, StaleKnown, Clock, AskedInTime, OutlivesOld, HeardInTime, Allowed,
        Pending, Leads, Foreign, Own, Listed, Heeds, Known
  <2> QED BY <2>1, <2>2, <2>3, <2>4, AnnounceStep, StopStep, StartStep, RestartStep, ElapseStep
      DEF Next
<1> QED BY InitStep, <1>1, PTL DEF Spec

\* A server is listed within the daemon's timeout, and within two if an entry of
\* its earlier self has to go first, though one datagram is lost, for every
\* heartbeat of which the timeout holds two.
THEOREM ListedWithinTimeout == Spec => []ListedInTime
<1>1. RegistryInv => ListedInTime
  <2>1. SUFFICES ASSUME RegistryInv, missed < 2
                 PROVE  away <= IF stale THEN 2 * Timeout ELSE Timeout
    BY DEF ListedInTime
  <2>2. away \in Nat /\ server.announceIn \in 0..Heartbeat /\ missed \in Nat
    BY <2>1 DEF RegistryInv, TypeInv
  <2>3. CASE ~server.up
    BY <2>1, <2>3, Times DEF RegistryInv, Counted
  <2>4. CASE server.up /\ Foreign
    <3>1. stale /\ away <= entry.age /\ entry.age <= Timeout /\ entry.age \in Nat
      BY <2>1, <2>4, EntryKinds
      DEF RegistryInv, StaleKnown, Clock, OutlivesOld, Young, Foreign, Entries
    <3> QED BY <2>2, <3>1, Times
  <2>5. CASE server.up /\ ~Foreign
    <3>1. away + server.announceIn <= (IF stale THEN Timeout ELSE 0) + Heartbeat + Allowed
      BY <2>1, <2>5 DEF RegistryInv, Clock, HeardInTime
    <3>2. /\ Allowed \in Nat
          /\ Allowed <= Heartbeat \/ (Allowed <= Heartbeat + Heartbeat /\ server.announceIn = Heartbeat)
      BY Times DEF Allowed, Pending
    <3> QED BY <2>2, <3>1, <3>2, Times
  <2> QED BY <2>3, <2>4, <2>5
<1> QED BY RegistryInvariant, <1>1, PTL

===============================================================================
