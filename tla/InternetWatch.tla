---------------------------- MODULE InternetWatch ----------------------------
(***************************************************************************)
(* The home's own internet check (internet_watch.py): InternetState, its   *)
(* record of outages, and the loop that runs a round every 30 seconds.     *)
(* A moment is one round. CloudLink runs this loop beside the link: a      *)
(* round asks whether the link is up, and the loop's signals reach it.     *)
(***************************************************************************)
EXTENDS Integers, Sequences, FiniteSets

CONSTANTS
  MaxTime,       \* bound: the clock stops there, rounds go on
  Calm,          \* bound: from this moment the line and the probes hold still
  DownAfter,     \* DOWN_AFTER_ROUNDS: 2
  MaxOutages     \* MAX_OUTAGES

ASSUME WatchAssumption ==
  /\ DownAfter \in Nat /\ DownAfter > 1
  /\ MaxOutages \in Nat /\ MaxOutages > 0
  /\ Calm \in Nat /\ MaxTime \in Nat /\ Calm + DownAfter < MaxTime

VARIABLES
  now,       \* rounds of the clock
  line,      \* "up", "down": what the street outside does
  watch,     \* InternetState in memory; its state is "up", "down", "blocked"
             \* or "unknown"
  stored,    \* [open, outages] in Home Assistant's storage
  loop,      \* the loop: "off", "loading", "asleep", "saving"
  was        \* its local: the state before the round

watchVars == <<now, line, watch, stored, loop, was>>

\* No outage is open.
Closed == [start |-> -1, across |-> FALSE]

\* Mutant of Loaded: an outage carried over is not marked.
LoadedUnmarked(record) ==
  [state   |-> IF record.open = Closed THEN "unknown" ELSE "down",
   checked |-> FALSE, failed |-> 0,
   open    |-> record.open,
   outages |-> record.outages]

\* An InternetState made from what is stored: an open outage is carried over.
Loaded(record) ==
  [state   |-> IF record.open = Closed THEN "unknown" ELSE "down",
   checked |-> FALSE,
   failed  |-> 0,
   open    |-> IF record.open = Closed THEN Closed ELSE [record.open EXCEPT !.across = TRUE],
   outages |-> record.outages]

\* The newest MaxOutages; none gets older than KEEP_DAYS here.
Pruned(list) ==
  IF Len(list) <= MaxOutages THEN list
  ELSE SubSeq(list, Len(list) - MaxOutages + 1, Len(list))

Ended(w) ==
  IF w.open = Closed THEN w.outages
  ELSE Append(w.outages, [start |-> w.open.start, end |-> now, across |-> w.open.across])

\* Mutant of ObservedReached: failed rounds before it still count.
ObservedReachedCounting(w) ==
  [w EXCEPT !.state = "up", !.checked = TRUE,
            !.open = Closed, !.outages = Pruned(Ended(w))]

\* observe: a round that reached the internet ends whatever outage is open.
ObservedReached(w) ==
  [w EXCEPT !.state = "up", !.checked = TRUE, !.failed = 0,
            !.open = Closed, !.outages = Pruned(Ended(w))]

\* Failed rounds beyond DownAfter make no further difference.
Counted(w) == IF w.failed < DownAfter THEN w.failed + 1 ELSE w.failed

\* observe: a round that failed is "blocked" while the link is up, and counts
\* towards an outage that began DownAfter - 1 rounds ago while it is not.
ObservedFailed(w, linkUp) ==
  LET seen == [w EXCEPT !.checked = TRUE, !.failed = Counted(w)] IN
  IF linkUp THEN [seen EXCEPT !.state = "blocked"]
  ELSE IF seen.failed < DownAfter \/ w.state = "down" THEN seen
  ELSE [seen EXCEPT !.state = "down",
                    !.open = [start |-> now - (DownAfter - 1), across |-> FALSE]]

Later == IF now < MaxTime THEN now + 1 ELSE now

\* One round of the loop. Where the state changed, the record is saved. A
\* round can fail although the line is up: dropped, or the probes blocked.
Round(reached, linkUp) ==
  /\ loop = "asleep"
  /\ reached => line = "up"
  /\ now >= Calm /\ line = "up" => reached
  /\ now' = Later
  /\ was' = watch.state
  /\ watch' = IF reached THEN ObservedReached(watch) ELSE ObservedFailed(watch, linkUp)
  /\ loop' = IF watch'.state # watch.state THEN "saving" ELSE "asleep"
  /\ UNCHANGED <<line, stored>>

\* The record is on disk: Announces says whether the loop then signals that
\* the internet is back.
Announces == was \in {"down", "unknown"} /\ watch.state = "up"

RoundSaved ==
  /\ loop = "saving"
  /\ stored' = [open |-> watch.open, outages |-> watch.outages]
  /\ loop' = "asleep" /\ was' = watch.state
  /\ UNCHANGED <<now, line, watch>>

\* async_start has read the record.
Load ==
  /\ loop = "loading"
  /\ watch' = Loaded(stored)
  /\ loop' = "asleep"
  /\ UNCHANGED <<now, line, stored, was>>

NothingStored == [open |-> Closed, outages |-> <<>>]

WatchInit ==
  /\ now = 0
  /\ line = "up"
  /\ stored = NothingStored
  /\ watch = Loaded(NothingStored)
  /\ loop = "off"
  /\ was = "unknown"
=============================================================================
