--------------------------- MODULE CloudLink_proofs ---------------------------
(***************************************************************************)
(* Proofs about the record the internet watch keeps while CloudLink runs   *)
(* it: outages are in order and apart, and one that spans a restart is     *)
(* marked, however rounds, stops, loads and the line interleave.           *)
(***************************************************************************)
EXTENDS CloudLink, SequenceTheorems, TLAPS

Open == [start : Nat \cup {-1}, across : BOOLEAN]
Outage == [start : Nat, end : Nat, across : BOOLEAN]
Loops == {"off", "loading", "asleep", "saving"}

-----------------------------------------------------------------------------
(***************************************************************************)
(* The parts of the invariant.                                             *)
(***************************************************************************)
RecordTypes ==
  /\ now \in 0..MaxTime /\ line \in {"up", "down"} /\ bootAt \in Nat /\ loop \in Loops
  /\ watch \in [state : {"up", "down", "blocked", "unknown"}, checked : BOOLEAN,
                failed : 0..DownAfter, open : Open, outages : Seq(Outage)]
  /\ stored \in [open : Open, outages : Seq(Outage)]

\* Outages in order and apart.
History(list) ==
  /\ Len(list) <= MaxOutages
  /\ \A i \in 1..Len(list) : list[i].start < list[i].end
  /\ \A i \in 1..Len(list) - 1 : list[i].end < list[i + 1].start

\* What an outage on record says of the clock, the line and the last start.
Past(o) ==
  /\ o.end <= now
  /\ o.end >= Calm => line = "up"
  /\ o.start < bootAt /\ bootAt <= o.end => o.across

\* An outage that is open began before now, and after those that ended.
OpenLast(open, list) ==
  open # Closed => /\ open.start \in Nat /\ open.start < now
                   /\ \A i \in 1..Len(list) : list[i].end < open.start

RecordInv ==
  /\ History(watch.outages) /\ History(stored.outages)
  /\ \A i \in 1..Len(watch.outages) : Past(watch.outages[i])
  /\ \A i \in 1..Len(stored.outages) : Past(stored.outages[i])
  /\ OpenLast(watch.open, watch.outages) /\ OpenLast(stored.open, stored.outages)
  /\ watch.state = "up" => watch.open = Closed

\* The clock stands still while the home is off; nothing fails before the start.
ClockInv ==
  /\ link = "off" => loop = "off" /\ now <= Calm
  /\ bootAt <= now /\ bootAt <= Calm + 1
  /\ loop # "off" => bootAt > 0 /\ bootAt + watch.failed <= now

\* Rounds that failed in a row came after every outage that ended (while any round
\* can fail), and what was open at the last start is marked.
LoopInv ==
  /\ loop = "loading" => /\ watch.open = Closed /\ watch.outages = <<>> /\ watch.failed = 0
                         /\ \A i \in 1..Len(stored.outages) : stored.outages[i].end < bootAt
  /\ loop \in {"asleep", "saving"} =>
       /\ \A i \in 1..Len(watch.outages) :
            watch.outages[i].end >= Calm \/ watch.outages[i].end + watch.failed < now
       /\ watch.open # Closed /\ watch.open.start < bootAt => watch.open.across

Inv == RecordTypes /\ RecordInv /\ ClockInv /\ LoopInv

-----------------------------------------------------------------------------
LEMMA Numbers ==
  /\ DownAfter \in Nat /\ DownAfter > 1 /\ MaxOutages \in Nat /\ MaxOutages > 0
  /\ Calm \in Nat /\ MaxTime \in Nat /\ Calm + DownAfter < MaxTime
BY WatchAssumption

LEMMA InvInit ==
  ASSUME Init
  PROVE  Inv
<1>1. Closed \in Open /\ <<>> \in Seq(Outage) /\ Len(<<>>) = 0
  BY DEF Closed, Open
<1>2. /\ stored.open = Closed /\ stored.outages = <<>> /\ now = 0 /\ bootAt = 0
      /\ line = "up" /\ loop = "off" /\ link = "off"
  BY DEF Init, WatchInit, LinkInit, NothingStored
<1>3. stored \in [open : Open, outages : Seq(Outage)]
  BY <1>1 DEF Init, WatchInit, NothingStored
<1>4. watch = [state |-> "unknown", checked |-> FALSE, failed |-> 0, open |-> Closed,
               outages |-> <<>>]
  BY DEF Init, WatchInit, NothingStored, Loaded
<1>5. RecordTypes
  BY <1>1, <1>2, <1>3, <1>4, Numbers DEF RecordTypes, Loops
<1>6. RecordInv
  BY <1>1, <1>2, <1>4, Numbers DEF RecordInv, History, OpenLast
<1>7. ClockInv /\ LoopInv
  BY <1>2, Numbers DEF ClockInv, LoopInv
<1> QED BY <1>5, <1>6, <1>7 DEF Inv

\* Steps that touch neither the record nor the loop nor the clock. The line goes
\* only before Calm, and the home is not switched off.
LEMMA QuietStep ==
  ASSUME Inv, UNCHANGED <<now, watch, stored, loop, bootAt>>, line' \in {"up", "down"},
         now >= Calm => line' = line \/ line' = "up", link' = "off" => link = "off"
  PROVE  Inv'
<1>1. ASSUME NEW o \in Outage, Past(o) PROVE Past(o)'
  BY <1>1, Numbers DEF Past, Outage, Inv, RecordTypes
<1>2. watch.outages \in Seq(Outage) /\ stored.outages \in Seq(Outage)
  BY DEF Inv, RecordTypes
<1>3. RecordTypes'
  BY DEF Inv, RecordTypes
<1>4. RecordInv'
  <2>1. \A i \in 1..Len(watch.outages) : Past(watch.outages[i])'
    BY <1>1, <1>2 DEF Inv, RecordInv
  <2>2. \A i \in 1..Len(stored.outages) : Past(stored.outages[i])'
    BY <1>1, <1>2 DEF Inv, RecordInv
  <2> QED BY <2>1, <2>2 DEF Inv, RecordInv, History, OpenLast, Past
<1>5. ClockInv' /\ LoopInv'
  BY DEF Inv, ClockInv, LoopInv
<1> QED BY <1>3, <1>4, <1>5 DEF Inv

LEMMA StopStep ==
  ASSUME Inv, Stop
  PROVE  Inv'
<1>1. /\ UNCHANGED <<now, line, watch, stored, bootAt>> /\ loop' = "off" /\ link' = "off"
      /\ now < Calm
  BY DEF Stop
<1>2. RecordTypes'
  BY <1>1 DEF Inv, RecordTypes, Loops
<1>3. RecordInv'
  BY <1>1 DEF Inv, RecordInv, Past, OpenLast, History
<1>4. ClockInv' /\ LoopInv'
  BY <1>1, Numbers DEF Inv, RecordTypes, ClockInv, LoopInv
<1> QED BY <1>2, <1>3, <1>4 DEF Inv

\* Home Assistant has been away for a moment, so all that ended, ended before.
LEMMA BootStep ==
  ASSUME Inv, Boot
  PROVE  Inv'
<1>1. /\ UNCHANGED <<line, stored>> /\ loop' = "loading" /\ link' = "dialing"
      /\ now' = Later /\ bootAt' = now' /\ link = "off" /\ loop = "off"
  BY DEF Boot, Inv, ClockInv
<1>2. watch' = [state |-> "unknown", checked |-> FALSE, failed |-> 0, open |-> Closed,
                outages |-> <<>>]
  BY DEF Boot, NothingStored, Loaded
<1>3. now \in Nat /\ now <= Calm /\ now' = now + 1 /\ now' \in 0..MaxTime /\ bootAt' \in Nat
  BY <1>1, Numbers DEF Inv, RecordTypes, ClockInv, Later
<1>4. Closed \in Open /\ <<>> \in Seq(Outage) /\ Len(<<>>) = 0
  BY DEF Closed, Open
<1>5. RecordTypes'
  BY <1>1, <1>2, <1>3, <1>4, Numbers DEF Inv, RecordTypes, Loops
<1>6. stored.outages \in Seq(Outage) /\ stored.open \in Open
  BY DEF Inv, RecordTypes
<1>7. \A i \in 1..Len(stored.outages) : Past(stored.outages[i])' /\ stored.outages[i].end < bootAt'
  <2>1. ASSUME NEW o \in Outage, Past(o) PROVE Past(o)' /\ o.end < bootAt'
    BY <1>1, <1>3, <2>1, Numbers DEF Past, Outage
  <2>2. \A i \in 1..Len(stored.outages) : stored.outages[i] \in Outage
    BY <1>6
  <2>3. \A i \in 1..Len(stored.outages) : Past(stored.outages[i])
    BY DEF Inv, RecordInv
  <2>4. \A o \in Outage : Past(o) => Past(o)' /\ o.end < bootAt'
    BY <2>1
  <2>5. stored' = stored
    BY <1>1
  <2> QED BY <2>2, <2>3, <2>4, <2>5
<1>8. OpenLast(stored.open, stored.outages)'
  BY <1>1, <1>3, <1>6 DEF Inv, RecordInv, OpenLast
<1>9. RecordInv'
  BY <1>1, <1>2, <1>4, <1>7, <1>8, Numbers DEF Inv, RecordInv, History, OpenLast
<1>10. ClockInv' /\ LoopInv'
  BY <1>1, <1>2, <1>3, <1>7, Numbers DEF ClockInv, LoopInv
<1> QED BY <1>5, <1>9, <1>10 DEF Inv

\* The record is read: an open outage is carried over and marked.
LEMMA LoadStep ==
  ASSUME Inv, WatchLoad
  PROVE  Inv'
<1>1. /\ UNCHANGED <<now, line, stored, bootAt, link>> /\ loop = "loading" /\ loop' = "asleep"
      /\ watch' = Loaded(stored)
  BY DEF WatchLoad, Load, linkVars
<1>2. stored.open \in Open /\ stored.outages \in Seq(Outage) /\ now \in Nat /\ bootAt \in Nat
      /\ Closed \in Open
  BY DEF Inv, RecordTypes, Closed, Open
<1>3. /\ watch'.outages = stored.outages /\ watch'.failed = 0 /\ watch'.checked = FALSE
      /\ watch'.state = IF stored.open = Closed THEN "unknown" ELSE "down"
      /\ watch'.open = IF stored.open = Closed THEN Closed ELSE [stored.open EXCEPT !.across = TRUE]
  BY <1>1 DEF Loaded
<1>4. /\ watch'.open \in Open /\ watch'.open.start = stored.open.start
      /\ watch'.open # Closed => stored.open # Closed /\ watch'.open.across
  BY <1>2, <1>3 DEF Open, Closed
<1>5. watch' \in [state : {"up", "down", "blocked", "unknown"}, checked : BOOLEAN,
                  failed : 0..DownAfter, open : Open, outages : Seq(Outage)]
  <2>1. 0 \in 0..DownAfter
    BY Numbers
  <2> QED BY <1>1, <1>2, <1>3, <1>4, <2>1 DEF Loaded
<1>6. RecordTypes'
  BY <1>1, <1>5 DEF Inv, RecordTypes, Loops
<1>7. RecordInv'
  BY <1>1, <1>3, <1>4 DEF Inv, RecordInv, OpenLast, Past, History
<1>8. \A i \in 1..Len(stored.outages) : stored.outages[i].end < now
  <2>1. ASSUME NEW o \in Outage, o.end < bootAt PROVE o.end < now
    BY <1>2, <2>1 DEF Inv, ClockInv, Outage
  <2> QED BY <1>1, <1>2, <2>1 DEF Inv, LoopInv
<1>9. \A i \in 1..Len(stored.outages) : stored.outages[i].end + watch'.failed < now
  <2>1. \A i \in 1..Len(stored.outages) : stored.outages[i] \in Outage
    BY <1>2
  <2>2. \A o \in Outage : o.end + 0 = o.end
    BY DEF Outage
  <2> QED BY <1>3, <1>8, <2>1, <2>2
<1>10. ClockInv' /\ LoopInv'
  BY <1>1, <1>2, <1>3, <1>4, <1>9 DEF Inv, ClockInv, LoopInv, RecordTypes
<1> QED BY <1>6, <1>7, <1>10 DEF Inv

LEMMA SavedStep ==
  ASSUME Inv, WatchSaved
  PROVE  Inv'
<1>1. /\ UNCHANGED <<now, line, watch, bootAt, link>> /\ loop = "saving" /\ loop' = "asleep"
      /\ stored' = [open |-> watch.open, outages |-> watch.outages]
  BY DEF WatchSaved, RoundSaved
<1>2. RecordTypes'
  BY <1>1 DEF Inv, RecordTypes, Loops
<1>3. stored'.open = watch.open /\ stored'.outages = watch.outages
  BY <1>1
<1>4. RecordInv'
  BY <1>1, <1>3 DEF Inv, RecordInv, Past, OpenLast, History
<1>5. ClockInv' /\ LoopInv'
  BY <1>1 DEF Inv, ClockInv, LoopInv
<1> QED BY <1>2, <1>4, <1>5 DEF Inv


-----------------------------------------------------------------------------
(***************************************************************************)
(* A round.                                                                *)
(***************************************************************************)
\* What pruning leaves: the newest, in their order.
LEMMA PrunedKeeps ==
  ASSUME NEW list \in Seq(Outage), Len(list) <= MaxOutages + 1
  PROVE  /\ Pruned(list) \in Seq(Outage) /\ Len(Pruned(list)) <= MaxOutages
         /\ \E k \in Nat : /\ Len(Pruned(list)) = Len(list) - k
                           /\ \A i \in 1..Len(Pruned(list)) : Pruned(list)[i] = list[i + k]
<1>1. CASE Len(list) <= MaxOutages
  BY <1>1 DEF Pruned
<1>2. CASE Len(list) = MaxOutages + 1
  <2> DEFINE m == Len(list) - MaxOutages + 1
  <2>1. m = 2 /\ Len(list) \in Nat /\ m <= Len(list)
    BY <1>2, Numbers
  <2>2. Pruned(list) = SubSeq(list, 2, Len(list))
    BY <1>2, <2>1, Numbers DEF Pruned
  <2>3. \A i \in 2..Len(list) : list[i] \in Outage
    BY <2>1
  <2>4. /\ SubSeq(list, 2, Len(list)) \in Seq(Outage)
        /\ Len(SubSeq(list, 2, Len(list))) = Len(list) - 1
        /\ \A i \in 1..Len(list) - 1 : SubSeq(list, 2, Len(list))[i] = list[i + 1]
    <3>1. /\ SubSeq(list, 2, Len(list)) \in Seq(Outage)
          /\ Len(SubSeq(list, 2, Len(list)))
               = IF 2 <= Len(list) THEN Len(list) - 2 + 1 ELSE 0
          /\ \A i \in 1..Len(list) - 2 + 1 : SubSeq(list, 2, Len(list))[i] = list[2 + i - 1]
      BY <2>1, <2>3, SubSeqProperties
    <3> QED BY <2>1, <3>1
  <2> QED BY <1>2, <2>1, <2>2, <2>4, Numbers
<1> QED BY <1>1, <1>2, Numbers

\* What is past stays past.
LEMMA LaterPast ==
  ASSUME Inv, UNCHANGED <<line, bootAt>>, now' \in Nat, now <= now'
  PROVE  /\ \A i \in 1..Len(watch.outages) : \A o \in {watch.outages[i]} : Past(o)'
         /\ \A i \in 1..Len(stored.outages) : \A o \in {stored.outages[i]} : Past(o)'
<1>1. \A o \in Outage : Past(o) => Past(o)'
  BY DEF Past, Outage, Inv, RecordTypes
<1>2. watch.outages \in Seq(Outage) /\ stored.outages \in Seq(Outage)
  BY DEF Inv, RecordTypes
<1> QED BY <1>1, <1>2 DEF Inv, RecordInv

\* The outage that a round ends is one of the history.
LEMMA EndedIsHistory ==
  ASSUME Inv, loop = "asleep", line = "up", UNCHANGED <<line, bootAt>>, now' = Later
  PROVE  LET list == Ended(watch) IN
         /\ list \in Seq(Outage) /\ Len(list) <= MaxOutages + 1
         /\ \A i \in 1..Len(list) : list[i].start < list[i].end
         /\ \A i \in 1..Len(list) - 1 : list[i].end < list[i + 1].start
         /\ \A i \in 1..Len(list) : /\ list[i].end <= now'
                                    /\ list[i].end >= Calm => line' = "up"
                                    /\ list[i].start < bootAt' /\ bootAt' <= list[i].end
                                         => list[i].across
                                    /\ list[i].end >= Calm \/ list[i].end < now'
<1> DEFINE old == watch.outages
           o == [start |-> watch.open.start, end |-> now, across |-> watch.open.across]
           Fine(x) == /\ x.end <= now'
                      /\ x.end >= Calm => line' = "up"
                      /\ x.start < bootAt' /\ bootAt' <= x.end => x.across
                      /\ x.end >= Calm \/ x.end < now'
<1>1. /\ old \in Seq(Outage) /\ watch.open \in Open /\ now \in Nat /\ now <= MaxTime
      /\ bootAt \in Nat
  BY DEF Inv, RecordTypes
<1>2. now' \in Nat /\ now <= now' /\ (now < Calm => now < now')
  BY <1>1, Numbers DEF Later
<1>3. \A x \in Outage : Past(x) => Fine(x)
  BY <1>1, <1>2, Numbers DEF Past, Outage
<1>4. \A i \in 1..Len(old) : old[i] \in Outage /\ Fine(old[i])
  BY <1>1, <1>3 DEF Inv, RecordInv
<1>5. History(old)
  BY DEF Inv, RecordInv
<1>6. CASE watch.open = Closed
  BY <1>1, <1>4, <1>5, <1>6, Numbers DEF Ended, History
<1>7. CASE watch.open # Closed
  <2>1. watch.open.start \in Nat /\ watch.open.start < now
        /\ \A i \in 1..Len(old) : old[i].end < watch.open.start
    BY <1>7 DEF Inv, RecordInv, OpenLast
  <2>2. o \in Outage /\ o.start = watch.open.start /\ o.end = now /\ o.across = watch.open.across
    BY <1>1, <2>1 DEF Outage, Open
  <2>3. o.start < bootAt => o.across
    BY <1>7, <2>2 DEF Inv, LoopInv
  <2> HIDE DEF o
  <2>4. Fine(o)
    BY <1>1, <1>2, <2>2, <2>3, Numbers
  <2>5. Ended(watch) = Append(old, o)
    BY <1>7 DEF Ended, o
  <2> HIDE DEF Fine, old
  <2>6. /\ Append(old, o) \in Seq(Outage) /\ Len(Append(old, o)) = Len(old) + 1
        /\ \A i \in 1..Len(old) : Append(old, o)[i] = old[i]
        /\ Append(old, o)[Len(old) + 1] = o
    BY <1>1, <2>2, AppendProperties
  <2> DEFINE list == Append(old, o)
  <2> HIDE DEF list
  <2>7. /\ list \in Seq(Outage) /\ Len(list) = Len(old) + 1 /\ Len(old) \in Nat
        /\ \A i \in 1..Len(list) : IF i = Len(list) THEN list[i] = o
                                   ELSE i \in 1..Len(old) /\ list[i] = old[i]
    BY <1>1, <2>6 DEF list
  <2>8. \A i \in 1..Len(list) : Fine(list[i])
    BY <1>4, <2>4, <2>7
  <2>9. \A i \in 1..Len(list) : list[i].start < list[i].end
    BY <1>5, <2>1, <2>2, <2>7 DEF History
  <2>10. \A i \in 1..Len(list) - 1 : list[i].end < list[i + 1].start
    <3> SUFFICES ASSUME NEW i \in 1..Len(list) - 1 PROVE list[i].end < list[i + 1].start
      OBVIOUS
    <3>1. i \in 1..Len(old) /\ list[i] = old[i]
      BY <2>7
    <3>2. CASE i + 1 = Len(list)
      BY <2>1, <2>2, <2>7, <3>1, <3>2 DEF old
    <3>3. CASE i + 1 # Len(list)
      <4>1. i \in 1..Len(old) - 1 /\ list[i + 1] = old[i + 1]
        BY <2>7, <3>1, <3>3
      <4> QED BY <1>5, <3>1, <4>1 DEF History
    <3> QED BY <3>2, <3>3
  <2>11. Len(list) <= MaxOutages + 1
    BY <1>5, <2>7, Numbers DEF History
  <2> QED BY <2>5, <2>7, <2>8, <2>9, <2>10, <2>11 DEF list, Fine
<1> QED BY <1>6, <1>7

LEMMA ReachedStep ==
  ASSUME Inv, Round(TRUE, Connected), UNCHANGED <<bootAt, link>>
  PROVE  Inv'
<1>1. /\ loop = "asleep" /\ line = "up" /\ now' = Later /\ watch' = ObservedReached(watch)
      /\ loop' \in {"asleep", "saving"} /\ UNCHANGED <<line, stored, bootAt, link>>
  BY DEF Round
<1>2. /\ now \in Nat /\ now <= MaxTime /\ bootAt \in Nat /\ stored.outages \in Seq(Outage)
      /\ stored.open \in Open
  BY DEF Inv, RecordTypes
<1>3. now' \in 0..MaxTime /\ now <= now' /\ now' \in Nat
  BY <1>1, <1>2, Numbers DEF Later
<1> DEFINE ended == Ended(watch)
           list == Pruned(ended)
<1>4. /\ ended \in Seq(Outage) /\ Len(ended) <= MaxOutages + 1
      /\ \A i \in 1..Len(ended) : ended[i].start < ended[i].end
      /\ \A i \in 1..Len(ended) - 1 : ended[i].end < ended[i + 1].start
      /\ \A i \in 1..Len(ended) : /\ \A o \in {ended[i]} : Past(o)'
                                  /\ ended[i].end >= Calm \/ ended[i].end < now'
  BY <1>1, EndedIsHistory DEF Past
<1>5. PICK k \in Nat : /\ Len(list) = Len(ended) - k
                       /\ \A i \in 1..Len(list) : list[i] = ended[i + k]
  BY <1>4, PrunedKeeps
<1>6. list \in Seq(Outage) /\ Len(list) <= MaxOutages
  BY <1>4, PrunedKeeps
<1>7. /\ watch'.outages = list /\ watch'.failed = 0 /\ watch'.open = Closed
      /\ watch'.state = "up"
      /\ watch' \in [state : {"up", "down", "blocked", "unknown"}, checked : BOOLEAN,
                     failed : 0..DownAfter, open : Open, outages : Seq(Outage)]
  <2>1. Closed \in Open /\ 0 \in 0..DownAfter
    BY Numbers DEF Closed, Open
  <2>2. watch \in [state : {"up", "down", "blocked", "unknown"}, checked : BOOLEAN,
                   failed : 0..DownAfter, open : Open, outages : Seq(Outage)]
    BY DEF Inv, RecordTypes
  <2> HIDE DEF ended
  <2>3. watch' = [watch EXCEPT !.state = "up", !.checked = TRUE, !.failed = 0,
                               !.open = Closed, !.outages = list]
    BY <1>1 DEF ObservedReached, ended
  <2> HIDE DEF list
  <2> QED BY <1>6, <2>1, <2>2, <2>3
<1> HIDE DEF ended, list
<1>8. /\ Len(list) \in Nat /\ Len(ended) \in Nat
      /\ \A i \in 1..Len(list) : i + k \in 1..Len(ended)
      /\ \A i \in 1..Len(list) - 1 : i + k \in 1..Len(ended) - 1 /\ i \in 1..Len(list)
                                     /\ i + 1 \in 1..Len(list) /\ (i + 1) + k = (i + k) + 1
  BY <1>4, <1>5, <1>6
<1>9. /\ History(list)
      /\ \A i \in 1..Len(list) : /\ \A o \in {list[i]} : Past(o)'
                                 /\ list[i].end >= Calm \/ list[i].end < now'
  <2>1. \A i \in 1..Len(list) : list[i].start < list[i].end
    BY <1>4, <1>5, <1>8
  <2>2. \A i \in 1..Len(list) - 1 : list[i].end < list[i + 1].start
    BY <1>4, <1>5, <1>8
  <2>3. \A i \in 1..Len(list) : /\ \A o \in {ended[i + k]} : Past(o)'
                                /\ ended[i + k].end >= Calm \/ ended[i + k].end < now'
    BY <1>4, <1>8
  <2> QED BY <1>5, <1>6, <2>1, <2>2, <2>3 DEF History
<1>10. RecordTypes'
  BY <1>1, <1>3, <1>7 DEF Inv, RecordTypes, Loops
<1>11. OpenLast(stored.open, stored.outages)' /\ \A i \in 1..Len(stored.outages) : Past(stored.outages[i])'
  BY <1>1, <1>2, <1>3, LaterPast DEF Inv, RecordInv, OpenLast
<1>12. RecordInv'
  BY <1>1, <1>7, <1>9, <1>11 DEF Inv, RecordInv, OpenLast
<1>13. \A i \in 1..Len(list) : list[i].end >= Calm \/ list[i].end + 0 < now'
  <2>1. \A i \in 1..Len(list) : list[i] \in Outage
    BY <1>6
  <2>2. \A o \in Outage : o.end + 0 = o.end
    BY DEF Outage
  <2> QED BY <1>9, <2>1, <2>2
<1>14. ClockInv' /\ LoopInv'
  BY <1>1, <1>2, <1>3, <1>7, <1>13 DEF Inv, ClockInv, LoopInv, RecordTypes
<1> QED BY <1>10, <1>12, <1>14 DEF Inv

\* A round that failed after an outage ended came later than it: nothing fails while
\* the line holds. So an outage that begins now began after those, and after the start.
LEMMA FailedStep ==
  ASSUME Inv, Round(FALSE, Connected), UNCHANGED <<bootAt, link>>
  PROVE  Inv'
<1>1. /\ loop = "asleep" /\ now' = Later /\ watch' = ObservedFailed(watch, Connected)
      /\ loop' \in {"asleep", "saving"} /\ UNCHANGED <<line, stored, bootAt, link>>
      /\ ~(now >= Calm /\ line = "up")
  BY DEF Round
<1>2. /\ now \in Nat /\ now <= MaxTime /\ bootAt \in Nat /\ stored.outages \in Seq(Outage)
      /\ stored.open \in Open /\ watch.outages \in Seq(Outage) /\ watch.open \in Open
      /\ watch.failed \in 0..DownAfter /\ DownAfter - 1 \in Nat
  BY Numbers DEF Inv, RecordTypes
<1>3. /\ now' \in 0..MaxTime /\ now <= now' /\ now' \in Nat
      /\ now < MaxTime => now' = now + 1
  BY <1>1, <1>2, Numbers DEF Later
<1>4. /\ Counted(watch) \in 0..DownAfter /\ Counted(watch) <= watch.failed + 1
      /\ Counted(watch) >= DownAfter => watch.failed >= DownAfter - 1
  BY <1>2, Numbers DEF Counted
<1> DEFINE begun == [start |-> now - (DownAfter - 1), across |-> FALSE]
<1>5. /\ bootAt > 0 /\ bootAt + watch.failed <= now /\ bootAt <= Calm + 1
      /\ \A i \in 1..Len(watch.outages) :
           watch.outages[i].end >= Calm \/ watch.outages[i].end + watch.failed < now
      /\ watch.open # Closed /\ watch.open.start < bootAt => watch.open.across
  BY <1>1 DEF Inv, ClockInv, LoopInv
\* No outage ended at a moment from which nothing fails.
<1>6. \A i \in 1..Len(watch.outages) :
        /\ watch.outages[i] \in Outage
        /\ watch.outages[i].end < Calm /\ watch.outages[i].end + watch.failed < now
  <2>1. \A x \in Outage : Past(x) => x.end < Calm
    BY <1>1, <1>2, Numbers DEF Past, Outage
  <2>2. \A x \in Outage : x.end < Calm => ~(x.end >= Calm)
    BY Numbers DEF Outage
  <2>3. \A i \in 1..Len(watch.outages) : watch.outages[i] \in Outage /\ Past(watch.outages[i])
    BY <1>2 DEF Inv, RecordInv
  <2> QED BY <1>5, <2>1, <2>2, <2>3
<1>7. /\ watch'.outages = watch.outages /\ watch'.failed = Counted(watch)
      /\ watch'.state = "up" => watch.state = "up" /\ watch'.open = watch.open
      /\ watch'.open = watch.open \/ (watch'.open = begun /\ watch.failed >= DownAfter - 1)
      /\ watch'.state \in {"up", "down", "blocked", "unknown"} /\ watch'.checked \in BOOLEAN
      /\ watch' \in [state : {"up", "down", "blocked", "unknown"}, checked : BOOLEAN,
                     failed : 0..DownAfter, open : {watch.open, begun}, outages : Seq(Outage)]
  <2>1. watch \in [state : {"up", "down", "blocked", "unknown"}, checked : BOOLEAN,
                   failed : 0..DownAfter, open : Open, outages : Seq(Outage)]
    BY DEF Inv, RecordTypes
  <2> DEFINE count == Counted(watch)
             seen == [watch EXCEPT !.checked = TRUE, !.failed = count]
  <2>0. count \in 0..DownAfter
    BY <1>4 DEF count
  <2> HIDE DEF begun, count
  <2>2. /\ seen.outages = watch.outages /\ seen.failed = count
        /\ seen.open = watch.open /\ seen.state = watch.state /\ seen.checked = TRUE
        /\ seen \in [state : {"up", "down", "blocked", "unknown"}, checked : BOOLEAN,
                     failed : 0..DownAfter, open : {watch.open, begun}, outages : Seq(Outage)]
    BY <2>0, <2>1
  <2>3. CASE Connected
    <3>1. watch' = [seen EXCEPT !.state = "blocked"]
      BY <1>1, <2>3 DEF ObservedFailed, count
    <3> HIDE DEF seen
    <3> QED BY <2>2, <3>1 DEF count
  <2>4. CASE ~Connected /\ (seen.failed < DownAfter \/ watch.state = "down")
    <3>1. watch' = seen
      BY <1>1, <2>4 DEF ObservedFailed, count
    <3> HIDE DEF seen
    <3> QED BY <2>1, <2>2, <3>1 DEF count
  <2>5. CASE ~Connected /\ ~(seen.failed < DownAfter \/ watch.state = "down")
    <3>1. watch' = [seen EXCEPT !.state = "down", !.open = begun]
      BY <1>1, <2>5 DEF ObservedFailed, count, begun
    <3>2. watch.failed >= DownAfter - 1
      <4>1. ~(count < DownAfter)
        BY <2>2, <2>5
      <4>2. count >= DownAfter
        BY <2>0, <4>1, Numbers
      <4> QED BY <1>4, <4>2 DEF count
    <3> HIDE DEF seen
    <3> QED BY <2>2, <3>1, <3>2 DEF count
  <2> QED BY <2>3, <2>4, <2>5
<1>8. watch.failed >= DownAfter - 1 =>
        /\ begun \in Open /\ begun.start \in Nat /\ begun.start < now /\ ~(begun.start < bootAt)
        /\ \A i \in 1..Len(watch.outages) : watch.outages[i].end < begun.start
  <2>1. watch.failed >= DownAfter - 1 =>
          /\ begun \in Open /\ begun.start \in Nat /\ begun.start < now
          /\ ~(begun.start < bootAt)
    BY <1>2, <1>5, Numbers DEF Open
  <2>2. watch.failed >= DownAfter - 1 =>
          \A x \in Outage : x.end + watch.failed < now => x.end < begun.start
    BY <1>2, Numbers DEF Outage
  <2> QED BY <1>6, <2>1, <2>2
<1> HIDE DEF begun
<1>9. watch'.open \in Open
  BY <1>2, <1>7, <1>8
<1>10. RecordTypes'
  <2>1. watch' \in [state : {"up", "down", "blocked", "unknown"}, checked : BOOLEAN,
                    failed : 0..DownAfter, open : Open, outages : Seq(Outage)]
    BY <1>7, <1>9
  <2> QED BY <1>1, <1>3, <2>1 DEF Inv, RecordTypes, Loops
<1>11. OpenLast(watch.open, watch.outages)'
  <2>1. CASE watch'.open = watch.open
    BY <1>2, <1>3, <1>7, <2>1 DEF Inv, RecordInv, OpenLast
  <2>2. CASE watch'.open = begun /\ watch.failed >= DownAfter - 1
    BY <1>2, <1>3, <1>7, <1>8, <2>2 DEF OpenLast
  <2> QED BY <1>7, <2>1, <2>2
<1>12. /\ \A i \in 1..Len(stored.outages) : Past(stored.outages[i])'
       /\ \A i \in 1..Len(watch'.outages) : \A o \in {watch'.outages[i]} : Past(o)'
       /\ OpenLast(stored.open, stored.outages)'
  BY <1>1, <1>2, <1>3, <1>7, LaterPast DEF Inv, RecordInv, OpenLast
<1>13. RecordInv'
  BY <1>1, <1>7, <1>11, <1>12 DEF Inv, RecordInv, History
<1> DEFINE count == Counted(watch)
<1>14. /\ \A t \in Nat : t < Calm /\ t + watch.failed < now => t + count < now'
       /\ bootAt + count <= now'
  <2> HIDE DEF count
  <2>1. count \in 0..DownAfter /\ count <= watch.failed + 1
    BY <1>4 DEF count
  <2>2. CASE now < MaxTime
    BY <1>2, <1>3, <1>5, <2>1, <2>2
  <2>3. CASE now = MaxTime
    <3>1. now' = now
      BY <1>2, <1>3, <2>3, Numbers
    <3> QED BY <1>2, <1>5, <2>1, <2>3, <3>1, Numbers
  <2> QED BY <1>2, <2>2, <2>3, Numbers
<1>15. /\ \A i \in 1..Len(watch.outages) : watch.outages[i].end + watch'.failed < now'
       /\ bootAt + watch'.failed <= now'
  <2>1. \A x \in Outage : x.end \in Nat
    BY DEF Outage
  <2> QED BY <1>6, <1>7, <1>14, <2>1
<1>16. ClockInv' /\ LoopInv'
  <2>1. ClockInv'
    BY <1>1, <1>2, <1>3, <1>5, <1>15 DEF Inv, ClockInv
  <2>2. watch'.open # Closed /\ watch'.open.start < bootAt => watch'.open.across
    BY <1>5, <1>7, <1>8
  <2>3. LoopInv'
    BY <1>1, <1>7, <1>15, <2>2 DEF LoopInv
  <2> QED BY <2>1, <2>3
<1> QED BY <1>10, <1>13, <1>16 DEF Inv


-----------------------------------------------------------------------------
(***************************************************************************)
(* Every step, and what the invariant says of the record.                  *)
(***************************************************************************)
LEMMA InvNext ==
  ASSUME Inv, [Next]_vars
  PROVE  Inv'
<1>1. line \in {"up", "down"} /\ Calm \in Nat /\ now \in Nat
  BY Numbers DEF Inv, RecordTypes
<1>2. CASE UNCHANGED vars
  BY <1>1, <1>2, QuietStep DEF vars, watchVars, linkVars
<1>3. CASE LineGoes
  <2>1. ~(now >= Calm)
    BY <1>1, <1>3 DEF LineGoes, MayCut
  <2> QED BY <1>3, <2>1, QuietStep DEF LineGoes
<1>4. CASE LineReturns
  BY <1>4, QuietStep DEF LineReturns, linkVars
<1>5. CASE ServerCloses \/ HouseChanges \/ ManagerAsks
  BY <1>1, <1>5, QuietStep DEF ServerCloses, HouseChanges, ManagerAsks, watchVars
<1>6. CASE Stop
  BY <1>6, StopStep
<1>7. CASE Boot
  BY <1>7, BootStep
<1>8. CASE WatchRound
  <2>1. UNCHANGED <<bootAt, link>> /\ (Round(TRUE, Connected) \/ Round(FALSE, Connected))
    BY <1>8 DEF WatchRound, linkVars
  <2> QED BY <2>1, ReachedStep, FailedStep
<1>9. CASE WatchSaved
  BY <1>9, SavedStep
<1>10. CASE WatchLoad
  BY <1>10, LoadStep
<1>11. CASE Dial \/ DialFails \/ AuthOk \/ AuthRejected \/ AuthLost \/ Lost \/ WaitEnds
  <2>1. UNCHANGED <<now, line, watch, stored, loop, bootAt>> /\ link' # "off"
    BY <1>11 DEF Dial, DialFails, AuthOk, AuthRejected, AuthLost, Lost, WaitEnds, Wait, watchVars
  <2> QED BY <1>1, <2>1, QuietStep
<1>12. CASE SenderCollects \/ SenderSends \/ SenderWakes
  <2>1. UNCHANGED <<now, line, watch, stored, loop, bootAt, link>>
    BY <1>12 DEF SenderCollects, SenderSends, SenderWakes, senderRest, watchVars
  <2> QED BY <1>1, <2>1, QuietStep
<1>13. CASE ReaderTakes \/ Executed \/ ReaderAnswers \/ ReaderCollects \/ ReaderSends
  <2>1. UNCHANGED <<now, line, watch, stored, loop, bootAt, link>>
    BY <1>13 DEF ReaderTakes, Executed, ReaderAnswers, ReaderCollects, ReaderSends, readerRest,
                 watchVars
  <2> QED BY <1>1, <2>1, QuietStep
<1> QED BY <1>2, <1>3, <1>4, <1>5, <1>6, <1>7, <1>8, <1>9, <1>10, <1>11, <1>12, <1>13
        DEF Next, World

LEMMA InvAlways == Spec => []Inv
<1>1. Init => Inv
  BY InvInit
<1>2. Inv /\ [Next]_vars => Inv'
  BY InvNext
<1> QED BY <1>1, <1>2, PTL DEF Spec

\* The record of outages is a history, in memory and on disk, at any moment: each outage
\* lasts, they follow one another, and an open one came after them (internet_watch.py).
THEOREM RecordIsHistory == Spec => []OutagesApart
<1>1. ASSUME Inv PROVE OutagesApart
  <2>1. watch.outages \in Seq(Outage) /\ watch.open \in Open
    BY <1>1 DEF Inv, RecordTypes
  <2>2. \A list \in Records : History(list)
    BY <1>1 DEF Inv, RecordInv, Records
  <2>3. watch.open # Closed => \A s \in Starts(watch.outages) : s < watch.open.start
    <3> SUFFICES ASSUME watch.open # Closed, NEW i \in 1..Len(watch.outages)
                 PROVE  watch.outages[i].start < watch.open.start
      BY DEF Starts
    <3>1. watch.outages[i] \in Outage
      BY <2>1
    <3>2. /\ watch.outages[i].start < watch.outages[i].end
          /\ watch.outages[i].end < watch.open.start /\ watch.open.start \in Nat
      BY <1>1 DEF Inv, RecordInv, History, OpenLast
    <3> QED BY <3>1, <3>2 DEF Outage
  <2>4. watch.state = "up" => watch.open = Closed
    BY <1>1 DEF Inv, RecordInv
  <2> QED BY <2>2, <2>3, <2>4 DEF OutagesApart, History
<1> QED BY <1>1, InvAlways, PTL

\* An outage that spans the last start of Home Assistant is marked as such, whether it has
\* ended since or is still open ("carried over and marked across_restart").
THEOREM RestartsAreMarked == Spec => []RestartsMarked
<1>1. ASSUME Inv PROVE RestartsMarked
  <2>1. \A list \in Records : \A i \in 1..Len(list) : \A o \in {list[i]} : Past(o)
    BY <1>1 DEF Inv, RecordInv, Records
  <2>2. loop \in {"asleep", "saving"} /\ watch.open # Closed /\ watch.open.start < bootAt
          => watch.open.across
    BY <1>1 DEF Inv, LoopInv
  <2> QED BY <2>1, <2>2 DEF RestartsMarked, Past
<1> QED BY <1>1, InvAlways, PTL
=============================================================================
