---------------------------- MODULE ServerRegistry ----------------------------
(***************************************************************************)
(* A game server and the daemon that lists it (server-registry/main.cpp,   *)
(* sv_serverregistry.cpp, sv_ban.cpp).                                     *)
(*                                                                         *)
(* The server announces itself every 30 seconds.  The daemon asks one it   *)
(* does not know to repeat a number, lists it once it has, and forgets it  *)
(* after 60 seconds without an announcement.  A listed server is sent the  *)
(* ban list, and again until its receipt comes, and after each change.     *)
(* What the server says carries a string it made up as it started, and     *)
(* what the daemon knows it by is its address: after a restart the two     *)
(* disagree until the old entry is forgotten.                              *)
(*                                                                         *)
(* One server, alone at its address; the limits on announcements from one  *)
(* address, blocked addresses and launchers are not here.  Time goes in    *)
(* steps of ten seconds, and a datagram arrives within its step or never.  *)
(***************************************************************************)
EXTENDS Integers, FiniteSets

CONSTANTS Heartbeat,   \* steps between announcements, 3
          Timeout,     \* steps until a silent server is forgotten, 6
          Resend,      \* steps after which a list without receipt is resent, 2
          Numbers,     \* the values of ServerVerificationInt
          Parts,       \* packets the ban list takes
          MaxStarts,   \* bound on the server's starts
          MaxVersions, \* bound on the versions of the ban list
          MaxLosses    \* bound on the datagrams lost

ASSUME RegistryAssumption ==
  /\ {Heartbeat, Timeout, Resend, Parts, MaxStarts, MaxVersions} \subseteq Nat \ {0}
  /\ 2 * Heartbeat <= Timeout
  /\ MaxLosses \in Nat /\ Numbers # {}

VARIABLES
  \* the daemon
  entry,   \* the server's in g_Servers or g_UnverifiedServers, or Unknown
  version, \* of g_BannedIPs and g_BannedIPExemptions
  unswept, \* steps since lastBanlistVerificationTimeout
  passed,  \* whether the main loop has come round in this step
  \* the server
  server,  \* whether it is up, its string, the steps to its next announcement,
           \* and what it has of the registry's bans
  \* the network
  net,     \* datagrams on their way
  lost,    \* how many were lost
  \* history
  away,    \* steps the server has been up and not listed
  missed,  \* datagrams lost since the server was last heard or either started
  stale    \* whether its earlier self had an entry, or was about to, as it started

daemonVars == <<entry, version, unswept, passed>>
vars == <<daemonVars, server, net, lost, away, missed, stale>>

Unknown == [in |-> "none"]
Known == entry # Unknown

\* The server ignores what comes with another string than its own.
Heeds(m) == server.up /\ m.string = server.string
Listed == entry.in = "listed" /\ Heeds(entry)

Announcement(string) == [type |-> "announce", string |-> string]
VerifyRequest(e) == [type |-> "verify", string |-> e.string, number |-> e.number]
Verification(string, n) == [type |-> "verification", string |-> string, number |-> n]
Receipt(string) == [type |-> "receipt", string |-> string]

\* A part of a ban list; a server's bans are the parts it has read.
BanList(v) == [version : {v}, part : 0..(Parts - 1)]
BanlistParts(e) == {[type |-> "banlistpart", string |-> e.string, bans |-> p] : p \in BanList(version)}

Init ==
  /\ entry = Unknown /\ version = 1 /\ unswept = 0 /\ passed = FALSE
  /\ server = [up |-> TRUE, string |-> 1, announceIn |-> 0, bans |-> {}]
  /\ net = {} /\ lost = 0 /\ away = 0 /\ missed = 0 /\ stale = FALSE

--------------------------------------------------------------------------------
(* The daemon's answers.                                                   *)

\* A listed server's announcement counts if it is still the one that was listed.
Renews(m) ==
  /\ entry.in = "listed"
  /\ IF m.string = entry.string
     THEN entry' = [entry EXCEPT !.age = 0] /\ missed' = 0
     ELSE UNCHANGED <<entry, missed>>
  /\ net' = net \ {m}

\* A new server is asked to repeat a number.
AsksNew(m) ==
  /\ entry = Unknown
  /\ \E n \in Numbers :
       LET e == [in |-> "unverified", string |-> m.string, number |-> n, age |-> 0,
                 hasLatest |-> TRUE, verifiedLatest |-> FALSE]
       IN  entry' = e /\ net' = (net \ {m}) \cup {VerifyRequest(e)}
  /\ UNCHANGED missed

\* A bug: a server that is waited for is not asked again.
AsksOnce(m) ==
  /\ entry.in = "unverified"
  /\ net' = net \ {m}
  /\ UNCHANGED <<entry, missed>>

\* One that has not answered yet is asked for the same number again.
AsksAgain(m) ==
  /\ entry.in = "unverified"
  /\ net' = (net \ {m}) \cup {VerifyRequest(entry)}
  /\ UNCHANGED <<entry, missed>>

ReceiveAnnouncement(m) ==
  /\ m \in net /\ m.type = "announce"
  /\ Renews(m) \/ AsksNew(m) \/ AsksAgain(m)
  /\ UNCHANGED <<version, unswept, passed, server, lost, away, stale>>

\* SERVERREGISTRY_SendBanlistToServer, but for the sending.
BanlistSent(e) == [e EXCEPT !.hasLatest = TRUE, !.verifiedLatest = FALSE]

\* The number repeated puts the server on the list, and it gets the bans.
ReceiveVerification(m) ==
  /\ m \in net /\ m.type = "verification"
  /\ IF entry.in = "unverified" /\ entry.string = m.string /\ entry.number = m.number
     THEN /\ entry' = BanlistSent([entry EXCEPT !.in = "listed", !.age = 0])
          /\ net' = (net \ {m}) \cup BanlistParts(entry)
          /\ missed' = 0 /\ away' = IF Heeds(entry) THEN 0 ELSE away
     ELSE net' = net \ {m} /\ UNCHANGED <<entry, missed, away>>
  /\ UNCHANGED <<version, unswept, passed, server, lost, stale>>

\* A receipt does not say which list was received.
ReceiveReceipt(m) ==
  /\ m \in net /\ m.type = "receipt"
  /\ entry' = IF entry.in = "listed" /\ entry.string = m.string
              THEN [entry EXCEPT !.verifiedLatest = TRUE] ELSE entry
  /\ net' = net \ {m}
  /\ UNCHANGED <<version, unswept, passed, server, lost, away, missed, stale>>

--------------------------------------------------------------------------------
(* The daemon's main loop.                                                 *)

\* SERVERREGISTRY_CheckTimeouts forgets the silent and sends lists.
TimedOut == Known /\ entry.age >= Timeout
Checked ==
  IF TimedOut THEN Unknown
  ELSE IF Known /\ ~entry.hasLatest THEN BanlistSent(entry) ELSE entry
CheckSends == IF Known /\ ~TimedOut /\ ~entry.hasLatest THEN BanlistParts(entry) ELSE {}

\* A bug: a list that was sent has arrived.
SweptSent(e) == e

\* What has no receipt is sent again.
Swept(e) ==
  IF e.in = "listed" /\ unswept >= Resend /\ ~e.verifiedLatest
  THEN [e EXCEPT !.hasLatest = FALSE] ELSE e

\* SERVERREGISTRY_InitializeBans has read other lists.
Reloaded(e) ==
  IF e.in = "listed" THEN [e EXCEPT !.hasLatest = FALSE, !.verifiedLatest = FALSE] ELSE e

\* Once round the loop; the lists are read again every quarter of an hour,
\* which falls anywhere.
Pass(changed) ==
  /\ changed => version < MaxVersions
  /\ entry' = IF changed THEN Reloaded(Swept(Checked)) ELSE Swept(Checked)
  /\ net' = net \cup CheckSends
  /\ version' = IF changed THEN version + 1 ELSE version
  /\ unswept' = IF unswept >= Resend THEN 0 ELSE unswept
  /\ passed' = TRUE
  /\ UNCHANGED <<server, lost, away, missed, stale>>

\* The daemon is started again, with nothing but its files.
RestartDaemon ==
  /\ version < MaxVersions
  /\ version' = version + 1
  /\ entry' = Unknown /\ unswept' = 0 /\ passed' = FALSE
  /\ net' = {m \in net : m.type \in {"verify", "banlistpart"}}
  /\ away' = 0 /\ missed' = 0 /\ stale' = FALSE
  /\ UNCHANGED <<server, lost>>

--------------------------------------------------------------------------------
(* The server.                                                             *)

\* SERVER_SERVERREGISTRY_Tick, when gametic is a multiple of thirty seconds.
Announce ==
  /\ server.up /\ server.announceIn = 0
  /\ server' = [server EXCEPT !.announceIn = Heartbeat]
  /\ net' = net \cup {Announcement(server.string)}
  /\ UNCHANGED <<daemonVars, lost, away, missed, stale>>

HandleVerificationRequest(m) ==
  /\ m \in net /\ m.type = "verify"
  /\ net' = (net \ {m}) \cup
            (IF Heeds(m) THEN {Verification(server.string, m.number)} ELSE {})
  /\ UNCHANGED <<daemonVars, server, lost, away, missed, stale>>

\* SERVERBAN_ReadServerRegistryBanlistPart: the first part clears what there
\* was, and the last one is receipted, whatever came between them.
ReadBanlistPart(m) ==
  /\ m \in net /\ m.type = "banlistpart"
  /\ IF Heeds(m)
     THEN /\ server' = [server EXCEPT !.bans = {m.bans} \cup IF m.bans.part = 0 THEN {} ELSE @]
          /\ net' = (net \ {m}) \cup
                    (IF m.bans.part = Parts - 1 THEN {Receipt(server.string)} ELSE {})
     ELSE net' = net \ {m} /\ UNCHANGED server
  /\ UNCHANGED <<daemonVars, lost, away, missed, stale>>

Stop ==
  /\ server.up
  /\ server' = [server EXCEPT !.up = FALSE]
  /\ away' = 0
  /\ UNCHANGED <<daemonVars, net, lost, missed, stale>>

\* Started again, the server has another string and no bans; its tic is 0.
Start ==
  /\ ~server.up /\ server.string < MaxStarts
  /\ server' = [up |-> TRUE, string |-> server.string + 1, announceIn |-> 0, bans |-> {}]
  /\ away' = 0 /\ missed' = 0
  /\ stale' = (Known \/ net # {})
  /\ UNCHANGED <<daemonVars, net, lost>>

--------------------------------------------------------------------------------
Receive(m) ==
  \/ ReceiveAnnouncement(m) \/ ReceiveVerification(m) \/ ReceiveReceipt(m)
  \/ HandleVerificationRequest(m) \/ ReadBanlistPart(m)

LoseDatagram(m) ==
  /\ lost < MaxLosses
  /\ net' = net \ {m} /\ lost' = lost + 1 /\ missed' = missed + 1
  /\ UNCHANGED <<daemonVars, server, away, stale>>

\* Ten seconds go by.  "away" counts as far as the properties look.
Elapse ==
  /\ net = {} /\ passed /\ (server.up => server.announceIn > 0)
  /\ passed' = FALSE
  /\ unswept' = IF unswept < Resend THEN unswept + 1 ELSE unswept
  /\ entry' = IF Known THEN [entry EXCEPT !.age = @ + 1] ELSE entry
  /\ server' = IF server.up THEN [server EXCEPT !.announceIn = @ - 1] ELSE server
  /\ away' = IF Listed \/ ~server.up THEN 0 ELSE IF away > 2 * Timeout THEN away ELSE away + 1
  /\ stale' = (stale /\ ~Listed)
  /\ UNCHANGED <<version, net, lost, missed>>

Next ==
  \/ \E m \in net : Receive(m) \/ LoseDatagram(m)
  \/ \E changed \in BOOLEAN : Pass(changed)
  \/ Announce \/ Stop \/ Start \/ RestartDaemon \/ Elapse

Spec == Init /\ [][Next]_vars

\* Time passes, the server's tics and the daemon's loop come round, and what is
\* not lost arrives.
FairSpec ==
  /\ Spec /\ WF_vars(Elapse) /\ WF_vars(Announce) /\ WF_vars(Pass(FALSE))
  /\ WF_vars(\E m \in net : Receive(m))

--------------------------------------------------------------------------------
\* A server is listed within a minute of its start or the daemon's, and within two
\* if an entry of its earlier self has to time out first, though one datagram is
\* lost: federated-server-registry/README.md says that the daemon "survives a
\* restart by simply repopulating within a minute", and main.cpp:756 that asking
\* again "buys a second attempt inside the window".
ListedInTime == missed < 2 => away <= IF stale THEN 2 * Timeout ELSE Timeout

\* In the end a server that stays up is listed and has the whole of the ban list the
\* daemon has, or has sent a receipt that the daemon takes for one of it (main.cpp:828):
\* whatever was lost, changed or restarted, the daemon does not stop sending its list
\* (main.cpp:1307) before one or the other.
NewestListReaches ==
  <>[](server.up => Listed /\ (server.bans = BanList(version) \/ entry.verifiedLatest))
================================================================================
