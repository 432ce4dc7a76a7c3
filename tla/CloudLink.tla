------------------------------ MODULE CloudLink ------------------------------
(***************************************************************************)
(* The link to the manager (cloud_link.py) beside the internet watch: the  *)
(* connection with its retries, the sender of snapshots, the reader that   *)
(* carries out commands, and what the manager has been told. How long each *)
(* wait lasts is left out: a timer may end at any moment.                  *)
(***************************************************************************)
EXTENDS InternetWatch

CONSTANTS
  MaxCommands,     \* bound: commands the manager sends
  MaxHouse,        \* bound: changes made in the house
  MaxStops         \* bound: restarts and reloads

ASSUME LinkAssumption ==
  MaxCommands \in Nat /\ MaxHouse \in Nat /\ MaxStops \in Nat

VARIABLES
  link,      \* the task _run: "off", "dialing", "auth", "connected", "waiting",
             \* "rejected" (returned for a bad token) or "ended" (an exception)
  socket,    \* "none", "live", "cut": the last is not noticed at once
  wake,      \* _wake is set
  nudge,     \* _nudge is set
  sender,    \* the task of that name, with the snapshot it holds
  reader,    \* the loop of that name, with the snapshot it holds
  inbox,     \* commands on the socket that the reader has not taken
  home,      \* how often the home has changed
  manager,   \* what the manager knows: [seen, told, asked, answered]
  stops, bootAt    \* stops so far; when Home Assistant last came up

linkVars == <<link, socket, wake, nudge, sender, reader, inbox, home, manager>>
vars == <<watchVars, linkVars, stops, bootAt>>

Connected == link = "connected"
Starts(list) == {list[i].start : i \in 1..Len(list)}

\* Mutant of Snapshot: only an outage that is open is reported.
SnapshotOfNow ==
  [home |-> home, outages |-> IF watch.open = Closed THEN {} ELSE {watch.open.start}]

\* collect_snapshot, as far as the manager's knowledge goes. Before its first
\* round the watch reports nothing (internet_watch.current).
Snapshot ==
  [home |-> home, outages |-> IF watch.checked THEN Starts(watch.outages) ELSE {}]
NoSnapshot == [home |-> 0, outages |-> {}]
Idle(stage) == [at |-> stage, snap |-> NoSnapshot]

\* A frame on a socket that is cut is lost, whoever thinks it was sent.
Deliver(snap) ==
  manager' = IF socket = "live"
             THEN [manager EXCEPT !.seen = snap.home, !.told = @ \cup snap.outages]
             ELSE manager

LinkInit ==
  /\ link = "off" /\ socket = "none"
  /\ wake = FALSE /\ nudge = FALSE
  /\ sender = Idle("none") /\ reader = Idle("none")
  /\ inbox = 0 /\ home = 0
  /\ manager = [seen |-> 0, told |-> {}, asked |-> 0, answered |-> 0]

Init == WatchInit /\ LinkInit /\ stops = 0 /\ bootAt = 0

-----------------------------------------------------------------------------
(* The world: the line, the server, the house, the process.                *)

MayCut == now < Calm
Cut == IF socket = "live" THEN "cut" ELSE socket

LineGoes ==
  /\ line = "up" /\ MayCut
  /\ line' = "down" /\ socket' = Cut
  /\ UNCHANGED <<now, watch, stored, loop, was, stops, bootAt,
                 link, wake, nudge, sender, reader, inbox, home, manager>>

LineReturns ==
  /\ line = "down"
  /\ line' = "up"
  /\ UNCHANGED <<now, watch, stored, loop, was, linkVars, stops, bootAt>>

ServerCloses ==
  /\ socket = "live" /\ MayCut
  /\ socket' = "cut"
  /\ UNCHANGED <<watchVars, stops, bootAt,
                 link, wake, nudge, sender, reader, inbox, home, manager>>

\* A change that sends no SIGNAL_SNAPSHOT_NOW, as most do not.
HouseChanges ==
  /\ home < MaxHouse
  /\ home' = home + 1
  /\ UNCHANGED <<watchVars, stops, bootAt,
                 link, socket, wake, nudge, sender, reader, inbox, manager>>

ManagerAsks ==
  /\ Connected /\ socket = "live" /\ manager.asked < MaxCommands
  /\ manager' = [manager EXCEPT !.asked = @ + 1]
  /\ inbox' = inbox + 1
  /\ UNCHANGED <<watchVars, stops, bootAt,
                 link, socket, wake, nudge, sender, reader, home>>

Reset ==
  /\ socket' = "none" /\ sender' = Idle("none") /\ reader' = Idle("none") /\ inbox' = 0
  /\ nudge' = FALSE /\ wake' = FALSE

\* The process stops, or the entry is unloaded: stop cancels the link's task,
\* the command it is at included, and the loop of the watch goes with it.
Stop ==
  /\ link # "off" /\ stops < MaxStops /\ now < Calm
  /\ link' = "off" /\ loop' = "off" /\ stops' = stops + 1
  /\ Reset
  /\ UNCHANGED <<now, line, watch, stored, was, home, manager, bootAt>>

\* async_setup_entry starts the link and then the watch. Home Assistant has
\* been away for a moment.
Boot ==
  /\ link = "off"
  /\ link' = "dialing" /\ loop' = "loading"
  /\ now' = Later /\ bootAt' = now'
  /\ watch' = Loaded(NothingStored) /\ was' = "unknown"
  /\ UNCHANGED <<line, stored, socket, wake, nudge, sender, reader, inbox, home,
                 manager, stops>>

-----------------------------------------------------------------------------
(* The watch's loop, with the signals it sends to the link.                *)

WatchRound ==
  /\ \E reached \in BOOLEAN : Round(reached, Connected)
  /\ UNCHANGED <<linkVars, stops, bootAt>>

WatchSaved ==
  /\ RoundSaved
  /\ wake' = (wake \/ Announces) /\ nudge' = (nudge \/ Announces)
  /\ UNCHANGED <<link, socket, sender, reader, inbox, home, manager, stops, bootAt>>

WatchLoad ==
  /\ Load
  /\ UNCHANGED <<linkVars, stops, bootAt>>

-----------------------------------------------------------------------------
(* _run.                                                                   *)

\* Whatever goes wrong while connecting ends in a wait, wake cleared first.
Wait ==
  /\ link' = "waiting" /\ wake' = FALSE
  /\ socket' = "none" /\ sender' = Idle("none") /\ reader' = Idle("none") /\ inbox' = 0

Dial ==
  /\ link = "dialing" /\ line = "up"
  /\ link' = "auth" /\ socket' = "live"
  /\ UNCHANGED <<watchVars, stops, bootAt, wake, nudge, sender, reader, inbox, home, manager>>

\* The line is down, or the server does not answer.
DialFails ==
  /\ link = "dialing" /\ (line = "down" \/ now < Calm)
  /\ Wait
  /\ UNCHANGED <<watchVars, stops, bootAt, nudge, home, manager>>

\* auth_ok: the sender starts with a snapshot, the reader listens.
AuthOk ==
  /\ link = "auth" /\ socket = "live"
  /\ link' = "connected"
  /\ sender' = Idle("collecting") /\ reader' = Idle("idle")
  /\ UNCHANGED <<watchVars, stops, bootAt, socket, wake, nudge, inbox, home, manager>>

\* A token the manager does not accept: the task returns.
AuthRejected ==
  /\ link = "auth" /\ socket = "live" /\ now < Calm
  /\ link' = "rejected" /\ socket' = "none"
  /\ UNCHANGED <<watchVars, stops, bootAt, wake, nudge, sender, reader, inbox, home, manager>>

\* receive_json on a socket that was closed raises TypeError, which _run does
\* not catch.
AuthLost ==
  /\ link = "auth" /\ socket = "cut"
  /\ link' = "ended" /\ socket' = "none"
  /\ UNCHANGED <<watchVars, stops, bootAt, wake, nudge, sender, reader, inbox, home, manager>>

\* The reader runs out of messages, or its send raises. A command that is
\* being carried out is finished first.
Lost ==
  /\ Connected /\ socket = "cut" /\ reader.at # "doing"
  /\ Wait
  /\ UNCHANGED <<watchVars, stops, bootAt, nudge, home, manager>>

\* Mutant of WaitEnds: there is no timer.
WaitEndsWoken ==
  /\ link = "waiting" /\ wake
  /\ link' = "dialing"
  /\ UNCHANGED <<watchVars, stops, bootAt, socket, wake, nudge, sender, reader, inbox,
                 home, manager>>

\* The wait ends when its timer does, or at once when wake is set.
WaitEnds ==
  /\ link = "waiting"
  /\ link' = "dialing"
  /\ UNCHANGED <<watchVars, stops, bootAt, socket, wake, nudge, sender, reader, inbox,
                 home, manager>>

-----------------------------------------------------------------------------
(* _snapshot_loop: the sender and the reader, on one socket.               *)

senderRest == <<watchVars, stops, bootAt, link, socket, wake, reader, inbox, home>>
readerRest == <<watchVars, stops, bootAt, link, socket, wake, nudge, sender>>

SenderCollects ==
  /\ sender.at = "collecting"
  /\ sender' = [at |-> "sending", snap |-> Snapshot]
  /\ UNCHANGED <<senderRest, nudge, manager>>

\* What was asked for while it collected and sent is forgotten.
SenderSends ==
  /\ sender.at = "sending"
  /\ Deliver(sender.snap)
  /\ nudge' = FALSE
  /\ sender' = Idle("sleeping")
  /\ UNCHANGED senderRest

\* Mutant of SenderWakes: no snapshot unless somebody asks for one.
SenderWakesNudged ==
  /\ sender.at = "sleeping" /\ nudge
  /\ sender' = Idle("collecting")
  /\ UNCHANGED <<senderRest, nudge, manager>>

\* A minute has passed, or nudge is set.
SenderWakes ==
  /\ sender.at = "sleeping"
  /\ sender' = Idle("collecting")
  /\ UNCHANGED <<senderRest, nudge, manager>>

ReaderTakes ==
  /\ reader.at = "idle" /\ inbox > 0
  /\ inbox' = inbox - 1 /\ reader' = Idle("doing")
  /\ UNCHANGED <<readerRest, home, manager>>

\* A command that is refused, by execute_command or because the names in the
\* household cannot be read, changes nothing.
Executed ==
  /\ reader.at = "doing"
  /\ home' \in {home, home + 1} /\ reader' = Idle("answering")
  /\ UNCHANGED <<readerRest, inbox, manager>>

ReaderAnswers ==
  /\ reader.at = "answering"
  /\ manager' = [manager EXCEPT !.answered = IF socket = "live" THEN @ + 1 ELSE @]
  /\ reader' = Idle("collecting")
  /\ UNCHANGED <<readerRest, inbox, home>>

ReaderCollects ==
  /\ reader.at = "collecting"
  /\ reader' = [at |-> "sending", snap |-> Snapshot]
  /\ UNCHANGED <<readerRest, inbox, home, manager>>

ReaderSends ==
  /\ reader.at = "sending"
  /\ Deliver(reader.snap)
  /\ reader' = Idle("idle")
  /\ UNCHANGED <<readerRest, inbox, home>>

-----------------------------------------------------------------------------
World == LineGoes \/ LineReturns \/ ServerCloses \/ HouseChanges \/ ManagerAsks \/ Stop

Next ==
  \/ World \/ Boot
  \/ WatchRound \/ WatchSaved \/ WatchLoad
  \/ Dial \/ DialFails \/ AuthOk \/ AuthRejected \/ AuthLost \/ Lost \/ WaitEnds
  \/ SenderCollects \/ SenderSends \/ SenderWakes
  \/ ReaderTakes \/ Executed \/ ReaderAnswers \/ ReaderCollects \/ ReaderSends

Spec == Init /\ [][Next]_vars

\* The event loop gets round to every task that can run, and every timer ends.
\* Nothing of the World has to happen.
Fairness ==
  /\ WF_vars(Boot)
  /\ WF_vars(WatchRound) /\ WF_vars(WatchSaved) /\ WF_vars(WatchLoad)
  /\ WF_vars(Dial) /\ WF_vars(DialFails)
  /\ WF_vars(AuthOk) /\ WF_vars(AuthLost) /\ WF_vars(Lost) /\ WF_vars(WaitEnds)
  /\ WF_vars(SenderCollects) /\ WF_vars(SenderSends) /\ WF_vars(SenderWakes)
  /\ WF_vars(ReaderTakes) /\ WF_vars(Executed) /\ WF_vars(ReaderAnswers)
  /\ WF_vars(ReaderCollects) /\ WF_vars(ReaderSends)

FairSpec == Spec /\ Fairness

-----------------------------------------------------------------------------
Records == {watch.outages, stored.outages}

\* The record is a history: outages are in order and apart from each other,
\* each lasts, and one that is open began after those that ended.
OutagesApart ==
  /\ \A list \in Records :
       /\ Len(list) <= MaxOutages
       /\ \A i \in 1..Len(list) : list[i].start < list[i].end
       /\ \A i \in 1..Len(list) - 1 : list[i].end < list[i + 1].start
  /\ watch.open # Closed => \A s \in Starts(watch.outages) : s < watch.open.start
  /\ loop # "loading" /\ link # "off" => (watch.state = "up" => watch.open = Closed)

\* "An outage still open when Home Assistant restarts is carried over and
\* marked across_restart": nothing that spans the last start goes unmarked.
RestartsMarked ==
  /\ \A list \in Records : \A i \in 1..Len(list) :
       list[i].start < bootAt /\ bootAt <= list[i].end => list[i].across
  /\ loop \in {"asleep", "saving"} /\ watch.open # Closed /\ watch.open.start < bootAt
       => watch.open.across

\* An outage on record as open is not replaced by another before it is among
\* those that ended ("Each outage is kept, with when it started and ended").
EveryOutageKept ==
  [][stored.open # Closed /\ stored'.open.start # stored.open.start
       => stored.open.start \in Starts(stored'.outages)]_vars

\* "Reconnects with exponential backoff on any failure": only a token that is
\* rejected makes the link give up.
AlwaysRetries == link # "ended"

\* The line comes to stay up, and the link has not given up: for a token that
\* was rejected, or in the way that AlwaysRetries is about.
Reachable == <>[](line = "up" /\ link \notin {"rejected", "ended"})

\* The home is connected again and again, whatever broke before.
LinkReturns == Reachable => []<>Connected

\* "one it could not report while it lasted is reported when the line is back"
EveryOutageTold ==
  Reachable => <>[](Starts(stored.outages) \subseteq manager.told)

\* In the end the manager shows the home as it is, also when an older snapshot
\* was sent after a newer one.
ManagerCatchesUp == Reachable => <>[](manager.seen = home)
=============================================================================
