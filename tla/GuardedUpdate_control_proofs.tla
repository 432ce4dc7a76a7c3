--------------------- MODULE GuardedUpdate_control_proofs ---------------------
(***************************************************************************)
(* Who is at work on a guarded update, proved for every value of the       *)
(* bounds when nothing about the install is out of the ordinary (Calm):    *)
(* the set-up of the entry, the command handler and the driver task never  *)
(* work on the job at the same time, and the file is about the job in      *)
(* memory. From it: a live job is driven, it is not displaced, and the     *)
(* history is told in order.                                               *)
(***************************************************************************)
EXTENDS GuardedUpdate_disk_proofs

\* Set-up reads the file before a command comes, a write is over before the
\* questions are, and an operation nobody waits for does not land.
Calm == ~EarlyCommands /\ ~SlowDisk /\ ~LateLanding

-----------------------------------------------------------------------------
(***************************************************************************)
(* Control.                                                                *)
(***************************************************************************)

\* This process has read the file.
Known == sp \in {"save", "up"} \/ cur # 0

\* A live task drives the job in hass.data, and the file is about that job.
DriverAlone ==
  /\ pc # "off" => drv = cur /\ disk.cur = cur /\ disk.job.state \in Live
  /\ pc \notin {"off", "stepSaving"} => Active

\* No command is under way while the entry is set up, none gets past the busy
\* check while a job is active, and none is accepted under a live driver.
HandlerApart ==
  /\ sp \in {"down", "load"} => hpc = "idle"
  /\ hpc \in {"asking", "checking"} => ~Active
  /\ hpc = "saving" => pc = "off" /\ jobs[cur].state = "accepted"

\* Set-up saves only a job that nobody drives.
SetupApart ==
  /\ sp = "down" => cur = 0
  /\ sp = "save" => Active /\ pc = "off" /\ hpc = "idle"

\* A process that has read the file holds the job that is on it, as long as
\* that job is alive in either, and a job it saw end has ended on the file.
FileKnown ==
  Known =>
    /\ cur = 0 => disk.cur = 0
    /\ disk.job.state \in Live => disk.cur = cur
    /\ disk.cur = cur /\ Active => disk.job.state \in Live
    /\ pc = "off" /\ ~Active => disk.job.state \notin Live

\* A job that is not on the file yet was just accepted.
Unsaved == cur # 0 /\ disk.cur # cur => jobs[cur].state = "accepted"

ControlInv ==
  DriverAlone /\ HandlerApart /\ SetupApart /\ FileKnown /\ Unsaved /\ AlwaysDriven

\* While the driver is at work nobody else is.
LEMMA AtWork ==
  ASSUME TypeInv, ControlInv, pc \notin {"off", "stepSaving"}
  PROVE  /\ drv = cur /\ cur \in Ids /\ disk.cur = cur
         /\ jobs[cur].state \in Live /\ disk.job.state \in Live
         /\ hpc = "idle" /\ sp # "save" /\ sp # "down"
BY DEF TypeInv, TypeOK, ControlInv, DriverAlone, HandlerApart, SetupApart, Active, Ids

\* The driver goes on, with whatever it changes in the job and the file.
LEMMA WorkControl ==
  ASSUME TypeInv, ControlInv, pc \notin {"off", "stepSaving"}, pc' # "off",
         UNCHANGED <<sp, hpc, cur, drv>>,
         disk' = disk \/ disk' = [cur |-> cur, job |-> jobs[cur], hist |-> hist],
         pc' # "stepSaving" => jobs'[cur].state \in Live
  PROVE  ControlInv'
<1>1. /\ drv = cur /\ cur \in Ids /\ disk.cur = cur
      /\ jobs[cur].state \in Live /\ disk.job.state \in Live
      /\ hpc = "idle" /\ sp # "save" /\ sp # "down"
  BY AtWork
<1>2. disk'.cur = cur /\ disk'.job.state \in Live
  BY <1>1
<1> QED BY <1>1, <1>2
        DEF ControlInv, DriverAlone, HandlerApart, SetupApart, FileKnown, Unsaved,
            AlwaysDriven, Known, Active, Ids

LEMMA StutterControl ==
  ASSUME ControlInv, UNCHANGED <<sp, cur, jobs, disk, pc, drv, hpc>>
  PROVE  ControlInv'
BY DEF ControlInv, DriverAlone, HandlerApart, SetupApart, FileKnown, Unsaved,
       AlwaysDriven, Known, Active

LEMMA ControlInit == Init => ControlInv
BY BoundsAssumption
   DEF Init, Unstarted, ControlInv, DriverAlone, HandlerApart, SetupApart, FileKnown,
       Unsaved, AlwaysDriven, Known, Active, NoJob, Live

LEMMA ControlSetup ==
  TypeInv /\ NoteInv /\ ControlInv /\ (Setup \/ Reload) => ControlInv'
<1> SUFFICES ASSUME TypeInv, NoteInv, ControlInv, Setup \/ Reload PROVE ControlInv'
  OBVIOUS
<1> USE DEF ControlInv, DriverAlone, HandlerApart, SetupApart, FileKnown, Unsaved,
            AlwaysDriven, Known, Active
<1>1. CASE Boot
  BY <1>1 DEF Boot, memory, driver, handler, TypeInv
<1>2. CASE SetupLoad
  <2> DEFINE c    == IF cur = 0 THEN disk.cur ELSE cur
             read == IF cur = 0 THEN [jobs EXCEPT ![c] = disk.job] ELSE jobs
  <2>1. /\ c \in 0..MaxJobs /\ read \in [0..MaxJobs -> JobType] /\ read[0] = NoJob
        /\ cur = 0 => read[c] = disk.job
        /\ cur # 0 => read = jobs
    BY BoundsAssumption DEF TypeInv, TypeOK
  <2> DEFINE resumed == [read EXCEPT ![c].resumes[read[c].state] = @ + 1]
  <2>2. /\ cur' = c /\ UNCHANGED <<disk, pc, drv, hpc>>
        /\ IF read[c].state \in Live /\ pc = "off"
           THEN jobs' = resumed /\ sp' = "save"
           ELSE jobs' = read /\ sp' = "up"
    BY <1>2 DEF SetupLoad, driver, handler
  <2>3. jobs'[c].state = read[c].state
    <3> HIDE DEF c, read
    <3>1. resumed[c] = [read[c] EXCEPT !.resumes[read[c].state] = @ + 1]
      BY <2>1
    <3>2. read[c] \in JobType
      BY <2>1
    <3> HIDE DEF resumed
    <3>3. resumed[c].state = read[c].state
      BY <3>1, <3>2 DEF JobType
    <3> QED BY <2>2, <3>3
  <2>4. sp = "load" /\ hpc = "idle" /\ (pc # "off" => cur # 0)
    BY <1>2 DEF SetupLoad, TypeInv
  <2>5. CASE cur = 0
    <3>1. c = disk.cur /\ read[c] = disk.job /\ pc = "off"
      BY <2>1, <2>4, <2>5
    <3> HIDE DEF c, read, resumed
    <3> QED BY <2>2, <2>3, <2>4, <3>1
  <2>6. CASE cur # 0
    <3>1. c = cur /\ read[c] = jobs[cur]
      BY <2>1, <2>6
    <3> HIDE DEF c, read, resumed
    <3> QED BY <2>2, <2>3, <2>4, <2>6, <3>1
  <2> QED BY <2>5, <2>6
<1>3. CASE SetupSaved
  <2>1. /\ sp = "save" /\ sp' = "up" /\ UNCHANGED <<cur, jobs, hpc>>
        /\ disk'.cur = cur /\ disk'.job = jobs[cur]
        /\ pc' = "start" /\ drv' = cur
    BY <1>3 DEF SetupSaved, Save, Memory, Spawn, memory, handler
  <2> QED BY <2>1
<1>4. CASE Reload
  BY <1>4 DEF Reload, memory, driver
<1> QED BY <1>1, <1>2, <1>3, <1>4 DEF Setup

LEMMA ControlHandle ==
  Calm /\ TypeInv /\ NoteInv /\ ControlInv /\ Handle => ControlInv'
<1> SUFFICES ASSUME Calm, TypeInv, NoteInv, ControlInv, Handle PROVE ControlInv'
  OBVIOUS
<1> USE DEF memory, driver, supervisor, counters
<1>1. ASSUME NEW kind \in Asked, NEW target \in Versions, HandleStart(kind, target)
      PROVE  ControlInv'
  BY <1>1
  DEF HandleStart, Connected, Calm, ControlInv, DriverAlone, HandlerApart, SetupApart,
      FileKnown, Unsaved, AlwaysDriven, Known, Active
<1>2. CASE HandleInfo \/ HandleRefuse
  BY <1>2
  DEF HandleInfo, HandleRefuse, ControlInv, DriverAlone, HandlerApart, SetupApart,
      FileKnown, Unsaved, AlwaysDriven, Known, Active
<1>3. CASE HandleAccept
  <2>1. nextId \in Ids /\ jobs'[nextId].state = "accepted"
    BY <1>3, AcceptedJobs
  <2>2. /\ cur' = nextId /\ hpc' = "saving"
        /\ UNCHANGED <<sp, disk, pc, drv>>
    BY <1>3 DEF HandleAccept
  <2>4. jobs'[cur'].state = "accepted" /\ cur' # 0
    BY <2>1, <2>2 DEF Ids
  <2>5. pc = "off" /\ sp \notin {"down", "load"} /\ sp # "save"
    BY <1>3 DEF HandleAccept, Calm, ControlInv, DriverAlone, HandlerApart, SetupApart
  <2>6. disk.job.state \notin Live /\ disk.cur < nextId
    BY <1>3, <2>5, BoundsAssumption
    DEF HandleAccept, ControlInv, HandlerApart, FileKnown, Known, TypeInv, TypeOK
  <2> QED BY <2>1, <2>2, <2>4, <2>5, <2>6
          DEF ControlInv, Ids, DriverAlone, HandlerApart, SetupApart, FileKnown, Unsaved,
              AlwaysDriven, Known, Active, Live
<1>4. CASE HandleSaved
  <2>1. /\ disk'.cur = cur /\ disk'.job = jobs[cur] /\ hpc = "saving" /\ hpc' = "idle"
        /\ UNCHANGED <<sp, cur, jobs>> /\ Spawn
    BY <1>4 DEF HandleSaved, Save, Memory
  <2>2. pc = "off" /\ Active
    BY <2>1 DEF ControlInv, HandlerApart, Active, Live
  <2>3. pc' = "start" /\ drv' = cur
    BY <2>1, <2>2 DEF Spawn
  <2>4. sp = "up"
    BY <2>1, <2>2 DEF ControlInv, HandlerApart, SetupApart, TypeInv, TypeOK
  <2> QED BY <2>1, <2>2, <2>3, <2>4
          DEF ControlInv, DriverAlone, HandlerApart, SetupApart, FileKnown, Unsaved,
              AlwaysDriven, Known, Active
<1> QED BY <1>1, <1>2, <1>3, <1>4 DEF Handle

\* The process stops: what is left is the file.
LEMMA ControlStop ==
  ASSUME TypeInv, Stop
  PROVE  ControlInv'
BY BoundsAssumption
   DEF Stop, ControlInv, DriverAlone, HandlerApart, SetupApart, FileKnown, Unsaved,
       AlwaysDriven, Known, Active, NoJob, Live

LEMMA ControlSupervise ==
  TypeInv /\ ControlInv /\ (Supervise \/ Restart) => ControlInv'
<1> SUFFICES ASSUME TypeInv, ControlInv, Supervise \/ Restart PROVE ControlInv'
  OBVIOUS
<1>1. CASE Refused \/ NoAnswer \/ Answered
  BY <1>1, AtWork, WorkControl
  DEF Refused, NoAnswer, Answered, Goto, Elsewhere, memory, handler, supervisor
<1>2. CASE Fizzle
  BY <1>2, StutterControl DEF Fizzle, memory, driver, handler
<1>3. CASE Apply \/ Restart
  BY <1>3, ControlStop DEF Apply, Restart
<1> QED BY <1>1, <1>2, <1>3 DEF Supervise

LEMMA StepControl ==
  ASSUME TypeInv, ControlInv, pc \notin {"off", "stepSaving"}, NEW s, Step(s),
         UNCHANGED disk, Elsewhere
  PROVE  ControlInv'
BY WorkControl DEF Step, Elsewhere, handler

LEMMA GotoControl ==
  ASSUME TypeInv, ControlInv, pc \notin {"off", "stepSaving"}, NEW place, Goto(place),
         place \notin {"off", "stepSaving"}, UNCHANGED disk \/ Save, Elsewhere
  PROVE  ControlInv'
<1>1. jobs'[cur].state \in Live
  BY AtWork DEF Goto, memory
<1> QED BY <1>1, WorkControl DEF Goto, Elsewhere, memory, handler, Save, Memory

LEMMA ControlDrive == TypeInv /\ NoteInv /\ ControlInv /\ Drive => ControlInv'
<1> SUFFICES ASSUME TypeInv, NoteInv, ControlInv, Drive PROVE ControlInv'
  OBVIOUS
<1>1. CASE Started \/ WaitRanOut \/ BackupMade \/ SentSaved \/ Send
  BY <1>1, GotoControl DEF Started, WaitRanOut, BackupMade, SentSaved, Send
<1>2. CASE BackupConfirmed \/ BackupFailed \/ Unexpected \/ Judge
  BY <1>2, StepControl DEF BackupConfirmed, BackupFailed, Unexpected, Judge
<1>3. CASE Dispatch
  BY <1>3, StepControl, GotoControl DEF Dispatch
<1>4. CASE GiveUp
  BY <1>4, WorkControl DEF GiveUp, Elsewhere, handler
<1>5. CASE NoteSent
  <2>1. PICK m : jobs' = [jobs EXCEPT ![drv] = Noted(jobs[drv], m)]
    BY <1>5 DEF NoteSent
  <2>2. /\ pc = "note" /\ pc' = "sentSaving" /\ UNCHANGED <<sp, hpc, cur, drv, disk>>
    BY <1>5 DEF NoteSent, Elsewhere, handler
  <2>3. jobs[drv] \in JobType /\ drv = cur /\ cur \in 0..MaxJobs
        /\ jobs[cur].state \in Live /\ jobs \in [0..MaxJobs -> JobType]
    BY <2>2, AtWork DEF TypeInv, TypeOK
  <2>4. Noted(jobs[drv], m).state = jobs[drv].state
    BY <2>3 DEF Noted, JobType
  <2>5. jobs'[cur].state \in Live
    BY <2>1, <2>3, <2>4
  <2> QED BY <2>2, <2>5, WorkControl
<1>6. CASE AfterRefusal
  <2>1. CASE /\ jobs' = [jobs EXCEPT ![drv].method = "os_version"]
             /\ pc' = "sentSaving"
             /\ UNCHANGED <<cur, hist, drv>>
    <3>1. /\ pc = "refused" /\ UNCHANGED <<sp, hpc, cur, drv, disk>>
      BY <1>6, <2>1 DEF AfterRefusal, Elsewhere, handler
    <3>2. jobs[drv] \in JobType /\ drv = cur /\ cur \in 0..MaxJobs
          /\ jobs[cur].state \in Live /\ jobs \in [0..MaxJobs -> JobType]
      BY <3>1, AtWork DEF TypeInv, TypeOK
    <3>3. jobs'[cur].state \in Live
      BY <2>1, <3>2 DEF JobType
    <3> QED BY <2>1, <3>1, <3>3, WorkControl
  <2>2. ASSUME NEW s, Step(s) PROVE ControlInv'
    BY <1>6, <2>2, StepControl DEF AfterRefusal
  <2>3. CASE Goto("judge")
    BY <1>6, <2>3, GotoControl DEF AfterRefusal
  <2> QED BY <1>6, <2>1, <2>2, <2>3 DEF AfterRefusal
<1>7. CASE StepSaved
  <2>1. /\ pc = "stepSaving" /\ UNCHANGED <<sp, hpc, cur, jobs>>
        /\ disk'.cur = cur /\ disk'.job = jobs[cur]
        /\ IF jobs[drv].state \in TERMINAL THEN pc' = "off" ELSE pc' = "loop" /\ drv' = drv
    BY <1>7 DEF StepSaved, Elsewhere, Save, Memory, memory, handler, job
  <2>2. drv = cur /\ cur \in Ids /\ sp # "save" /\ hpc # "saving"
    BY <2>1 DEF ControlInv, DriverAlone, SetupApart, HandlerApart, TypeInv
  <2>3. jobs[cur].state \in Live \cup TERMINAL
    BY <2>1, <2>2 DEF NoteInv, TypeInv, TypeOK, JobType, Ids
  <2>4. jobs[cur].state \in TERMINAL => ~Active
    BY DEF Active, TERMINAL, Live
  <2> QED BY <2>1, <2>2, <2>3, <2>4
          DEF ControlInv, DriverAlone, HandlerApart, SetupApart, FileKnown, Unsaved,
              AlwaysDriven, Known, Active
<1> QED BY <1>1, <1>2, <1>3, <1>4, <1>5, <1>6, <1>7 DEF Drive

LEMMA ControlNext ==
  Calm /\ TypeInv /\ NoteInv /\ ControlInv /\ [Next]_vars => ControlInv'
<1> SUFFICES ASSUME Calm, TypeInv, NoteInv, ControlInv, [Next]_vars PROVE ControlInv'
  OBVIOUS
<1>1. CASE Next
  BY <1>1, ControlSetup, ControlHandle, ControlDrive, ControlSupervise DEF Next
<1>2. CASE UNCHANGED vars
  BY <1>2, StutterControl DEF vars
<1> QED BY <1>1, <1>2

LEMMA ControlInvariant == ASSUME Calm PROVE Spec => []ControlInv
<1>1. TypeInv /\ NoteInv /\ ControlInv /\ [Next]_vars => ControlInv'
  BY ControlNext
<1> QED BY <1>1, ControlInit, TypeInvariant, NoteInvariant, PTL DEF Spec

\* While the entry is up and no command is being accepted, an unfinished job
\* has a live task driving it.
THEOREM JobsAreDriven == ASSUME Calm PROVE Spec => []AlwaysDriven
<1>1. ControlInv => AlwaysDriven
  BY DEF ControlInv
<1> QED BY <1>1, ControlInvariant, PTL

\* A job on disk gives way to another only when it has ended.
THEOREM OneAtATime == ASSUME Calm PROVE Spec => NeverDisplaced
<1>1. ASSUME TypeInv, ControlInv, Next, disk.job.state \in Live
      PROVE  disk'.cur = disk.cur
  <2>1. disk' = disk \/ disk' = Memory
    BY <1>1
    DEF Next, Setup, Handle, Drive, Supervise, Boot, SetupLoad, SetupSaved, Reload,
        HandleStart, HandleInfo, HandleRefuse, HandleAccept, HandleSaved,
        Started, GiveUp, Dispatch, StepSaved, BackupMade, BackupConfirmed, BackupFailed,
        NoteSent, SentSaved, Send, WaitRanOut, AfterRefusal, Judge, Unexpected,
        Refused, NoAnswer, Answered, Apply, Fizzle, Restart, Stop, Save
  <2>2. CASE disk' = disk
    BY <2>2
  <2>3. CASE disk' = Memory /\ disk' # disk
    <3>1. SetupSaved \/ HandleSaved \/ StepSaved \/ SentSaved
      BY <1>1, <2>3
      DEF Next, Setup, Handle, Drive, Supervise, Boot, SetupLoad, Reload,
          HandleStart, HandleInfo, HandleRefuse, HandleAccept,
          Started, GiveUp, Dispatch, BackupMade, BackupConfirmed, BackupFailed,
          NoteSent, Send, WaitRanOut, AfterRefusal, Judge, Unexpected,
          Refused, NoAnswer, Answered, Apply, Fizzle, Restart, Stop
    <3>2. Known
      BY <1>1, <3>1 DEF SetupSaved, HandleSaved, StepSaved, SentSaved, Known, ControlInv,
                  HandlerApart, TypeInv, TypeOK
    <3> QED BY <1>1, <2>3, <3>2 DEF ControlInv, FileKnown, Memory
  <2> QED BY <2>1, <2>2, <2>3
<1>2. TypeInv /\ ControlInv /\ [Next]_vars =>
        [disk.job.state \in Live => disk'.cur = disk.cur]_vars
  BY <1>1
<1> QED BY <1>2, ControlInvariant, TypeInvariant, PTL DEF Spec, NeverDisplaced

-----------------------------------------------------------------------------
(***************************************************************************)
(* The history. A list that is longest in memory is cut and saved, and     *)
(* read back by another process: so the same is claimed of both copies,    *)
(* each about the job it goes with. That a job which is still alive is     *)
(* newer than all it holds is what keeps it in order when that job ends.   *)
(***************************************************************************)

\* h is the history that goes with job id in this state.
HistoryOf(h, id, state) ==
  /\ Len(h) <= HistoryCap
  /\ \A i, k \in 1..Len(h) : i < k => h[i].id > h[k].id
  /\ \A i \in 1..Len(h) : h[i].id <= id /\ (state \in Live => h[i].id < id)
  /\ HistoryCap > 0 /\ state \in TERMINAL =>
       Len(h) > 0 /\ h[1] = [id |-> id, state |-> state]

HistoryInv ==
  /\ HistoryOf(hist, cur, jobs[cur].state)
  /\ HistoryOf(disk.hist, disk.cur, disk.job.state)

LEMMA HistoryIds ==
  ASSUME NEW h \in HistoryType
  PROVE  \A i \in 1..Len(h) : h[i].id \in Ids
<1> DEFINE E == [id : Ids, state : TERMINAL]
<1>1. \A e \in E : e.id \in Ids
  OBVIOUS
<1>2. h \in Seq(E)
  BY DEF HistoryType
<1> HIDE DEF E
<1>3. \A i \in 1..Len(h) : h[i] \in E
  BY <1>2
<1> QED BY <1>1, <1>3

\* The job that ends is put at the head, and the oldest one falls off.
LEMMA RememberHistory ==
  ASSUME hist \in HistoryType, NEW id \in Ids, NEW live \in Live,
         HistoryOf(hist, id, live), NEW s \in TERMINAL
  PROVE  HistoryOf(Remember(id, s), id, s)
<1> DEFINE e   == [id |-> id, state |-> s]
           all == <<e>> \o hist
           h   == Remember(id, s)
<1>1. /\ Len(hist) \in Nat /\ Len(all) = Len(hist) + 1 /\ all[1] = e
      /\ \A i \in 2..Len(all) : all[i] = hist[i - 1]
  BY DEF HistoryType
<1>2. \A i \in 1..Len(hist) : hist[i].id \in Ids
  BY HistoryIds
<1>3. h = IF Len(all) > HistoryCap THEN SubSeq(all, 1, HistoryCap) ELSE all
  BY DEF Remember
<1> HIDE DEF all, h
<1>4. /\ Len(h) = IF Len(all) > HistoryCap THEN HistoryCap ELSE Len(all)
      /\ \A i \in 1..Len(h) : h[i] = all[i]
  BY <1>1, <1>3, LimitsAssumption
<1>5. \A i \in 1..Len(h) : i = 1 \/ (i - 1 \in 1..Len(hist) /\ h[i] = hist[i - 1])
  BY <1>1, <1>4, LimitsAssumption
<1>6. Len(h) \in Nat /\ Len(h) <= HistoryCap
  BY <1>1, <1>4, LimitsAssumption
<1>7. 1 \in 1..Len(h) => h[1] = e
  BY <1>1, <1>4
<1> HIDE DEF e
<1>8. e.id = id
  BY DEF e
<1>9. \A i \in 1..Len(h) : h[i].id = id \/ (h[i].id < id /\ h[i].id \in Ids)
  BY <1>2, <1>5, <1>6, <1>7, <1>8 DEF HistoryOf
<1>10. ASSUME NEW i \in 1..Len(h), NEW k \in 1..Len(h), i < k
       PROVE  h[i].id > h[k].id
  <2>1. k - 1 \in 1..Len(hist) /\ h[k] = hist[k - 1]
    BY <1>5, <1>6, <1>10
  <2>2. CASE i = 1
    BY <1>2, <1>7, <1>8, <2>1, <2>2 DEF HistoryOf, Ids
  <2>3. CASE i # 1
    <3>1. i - 1 \in 1..Len(hist) /\ h[i] = hist[i - 1] /\ i - 1 < k - 1
      BY <1>5, <1>10, <2>3
    <3> QED BY <2>1, <3>1 DEF HistoryOf
  <2> QED BY <2>2, <2>3
<1>11. HistoryCap > 0 => Len(h) > 0 /\ h[1] = e
  BY <1>1, <1>4, <1>7, LimitsAssumption
<1>12. s \notin Live
  BY DEF TERMINAL, Live
<1> QED BY <1>6, <1>9, <1>10, <1>11, <1>12 DEF HistoryOf, h, e, Ids

\* A history goes with a job that moves on without ending.
LEMMA HistoryGoesOn ==
  ASSUME NEW h, NEW id, NEW s, NEW t \in Live, HistoryOf(h, id, s), s \in Live
  PROVE  HistoryOf(h, id, t)
BY DEF HistoryOf, Live, TERMINAL

LEMMA HistoryInit == Init => HistoryInv
<1> SUFFICES ASSUME Init PROVE HistoryInv
  OBVIOUS
<1>1. /\ hist = <<>> /\ disk.hist = <<>> /\ cur = 0 /\ disk.cur = 0
      /\ jobs[cur].state = "none" /\ disk.job.state = "none"
  BY BoundsAssumption DEF Init, Unstarted, NoJob
<1> QED BY <1>1, LimitsAssumption DEF HistoryInv, HistoryOf, TERMINAL

LEMMA HistoryNext ==
  TypeInv /\ NoteInv /\ ControlInv /\ HistoryInv /\ [Next]_vars => HistoryInv'
<1> SUFFICES ASSUME TypeInv, NoteInv, ControlInv, HistoryInv, [Next]_vars
             PROVE  HistoryInv'
  OBVIOUS
<1>1. CASE UNCHANGED <<hist, cur, jobs>> /\ disk' \in {disk, Memory}
  BY <1>1 DEF HistoryInv, Memory
<1>2. CASE Stop
  <2>1. hist' = <<>> /\ cur' = 0 /\ jobs'[cur'].state = "none" /\ disk' = disk
    BY <1>2, BoundsAssumption DEF Stop, NoJob
  <2> QED BY <2>1, LimitsAssumption DEF HistoryInv, HistoryOf, TERMINAL, Live
<1>3. CASE SetupLoad
  <2> DEFINE c    == IF cur = 0 THEN disk.cur ELSE cur
             read == IF cur = 0 THEN [jobs EXCEPT ![c] = disk.job] ELSE jobs
             resumed == [read EXCEPT ![c].resumes[read[c].state] = @ + 1]
  <2>1. /\ c \in 0..MaxJobs /\ read \in [0..MaxJobs -> JobType]
        /\ cur = 0 => read[c] = disk.job
        /\ cur # 0 => read = jobs
    BY DEF TypeInv, TypeOK
  <2>2. /\ cur' = c /\ disk' = disk /\ jobs' \in {read, resumed}
        /\ hist' = IF cur = 0 THEN disk.hist ELSE hist
    BY <1>3 DEF SetupLoad
  <2>3. jobs'[c].state = read[c].state
    <3> HIDE DEF c, read
    <3>1. read[c] \in JobType /\ resumed[c] = [read[c] EXCEPT !.resumes[read[c].state] = @ + 1]
      BY <2>1
    <3> HIDE DEF resumed
    <3>2. resumed[c].state = read[c].state
      BY <3>1 DEF JobType
    <3> QED BY <2>2, <3>2
  <2>4. HistoryOf(hist', c, read[c].state)
    BY <2>1, <2>2 DEF HistoryInv
  <2> QED BY <2>2, <2>3, <2>4 DEF HistoryInv
<1>4. CASE HandleAccept
  <2>1. cur' = nextId /\ UNCHANGED <<hist, disk>> /\ nextId \in Ids
    BY <1>4, AcceptedJobs DEF HandleAccept
  <2>3. jobs'[cur'].state = "accepted"
    BY <1>4, <2>1, AcceptedJobs
  <2>4. \A i \in 1..Len(hist) : hist[i].id <= cur /\ hist[i].id \in Nat
    BY HistoryIds DEF HistoryInv, HistoryOf, TypeInv, TypeOK, Ids
  <2>5. HistoryOf(hist, nextId, "accepted")
    BY <2>1, <2>4 DEF HistoryInv, HistoryOf, TypeInv, TypeOK, TERMINAL, Ids
  <2> QED BY <2>1, <2>3, <2>5 DEF HistoryInv
<1>5. ASSUME pc \notin {"off", "stepSaving"}, UNCHANGED <<cur, disk>>,
             NEW s, jobs'[cur].state = s, s \in Live, hist' = hist
      PROVE  HistoryInv'
  <2>1. jobs[cur].state \in Live
    BY <1>5, AtWork
  <2> QED BY <1>5, <2>1, HistoryGoesOn DEF HistoryInv
<1>6. ASSUME pc \notin {"off", "stepSaving"}, UNCHANGED <<cur, disk>>,
             NEW s \in TERMINAL, jobs'[cur].state = s, hist' = Remember(cur, s)
      PROVE  HistoryInv'
  <2>1. jobs[cur].state \in Live /\ cur \in Ids
    BY <1>6, AtWork
  <2>2. HistoryOf(hist', cur, s)
    BY <1>6, <2>1, RememberHistory DEF HistoryInv, TypeInv, TypeOK
  <2> QED BY <1>6, <2>2 DEF HistoryInv
<1>7. ASSUME pc \notin {"off", "stepSaving"}, UNCHANGED disk,
             NEW s \in Live \cup TERMINAL, Step(s)
      PROVE  HistoryInv'
  <2>1. drv = cur /\ cur \in Ids /\ jobs[cur] \in JobType
    BY <1>7, AtWork DEF TypeInv, TypeOK, Ids
  <2>2. jobs'[cur].state = s
    BY <1>7, <2>1, MovedState DEF Step, TypeInv, TypeOK, Ids
  <2>3. CASE s \in TERMINAL
    BY <1>6, <1>7, <2>1, <2>2, <2>3 DEF Step, MovedHistory
  <2>4. CASE s \notin TERMINAL
    BY <1>5, <1>7, <2>1, <2>2, <2>4 DEF Step, MovedHistory
  <2> QED BY <2>3, <2>4
<1>8. CASE BackupConfirmed \/ BackupFailed \/ Unexpected \/ Judge
  BY <1>7, <1>8
  DEF BackupConfirmed, BackupFailed, Unexpected, FaultOf, Judge, VerdictOnUpdate,
      VerdictOnHealth, VerdictOnRollback, VerdictOnRestore, Live, TERMINAL
<1>9. CASE Dispatch
  <2>1. CASE Step("backing_up")
    BY <1>7, <1>9, <2>1 DEF Dispatch, Live
  <2>2. ASSUME NEW place, Goto(place) PROVE HistoryInv'
    BY <1>1, <1>9, <2>2 DEF Dispatch, Goto, memory
  <2> QED BY <1>9, <2>1, <2>2 DEF Dispatch
<1>10. CASE GiveUp
  <2> DEFINE s == GiveUpAs(jobs[cur].state)
             m == Moved(jobs[cur], s)
             j == [m EXCEPT !.gaveUp = TRUE]
  <2>1. pc = "loop" /\ UNCHANGED <<cur, disk>> /\ s \in TERMINAL
    BY <1>10 DEF GiveUp, GiveUpAs, TERMINAL
  <2>2. drv = cur /\ cur \in Ids /\ jobs[cur] \in JobType
    BY <2>1, AtWork DEF TypeInv, TypeOK, Ids
  <2>3. m \in JobType /\ m.state = s
    BY <2>1, <2>2, MovedType, MovedState
  <2>4. j.state = s
    <3> HIDE DEF m, s
    <3> QED BY <2>3 DEF JobType
  <2>5. jobs'[cur] = j /\ hist' = Remember(cur, s)
    BY <1>10, <2>1, <2>2 DEF GiveUp, MovedHistory, job, TypeInv, TypeOK, Ids
  <2> HIDE DEF j, m, s
  <2> QED BY <1>6, <2>1, <2>4, <2>5
<1>11. CASE NoteSent \/ AfterRefusal
  <2>1. pc \in {"note", "refused"} /\ UNCHANGED disk
    BY <1>11 DEF NoteSent, AfterRefusal
  <2>2. /\ drv = cur /\ cur \in Ids /\ jobs[cur] \in JobType /\ jobs[cur].state \in Live
        /\ jobs \in [0..MaxJobs -> JobType]
    BY <2>1, AtWork DEF TypeInv, TypeOK, Ids
  <2>3. CASE NoteSent
    <3>1. PICK m : jobs' = [jobs EXCEPT ![drv] = Noted(jobs[drv], m)]
      BY <2>3 DEF NoteSent
    <3>2. Noted(jobs[cur], m).state = jobs[cur].state
      BY <2>2 DEF Noted, JobType
    <3>3. jobs'[cur].state \in Live /\ UNCHANGED <<cur, hist>>
      BY <2>2, <2>3, <3>1, <3>2 DEF NoteSent, Ids
    <3> QED BY <1>5, <2>1, <3>3
  <2>4. CASE /\ jobs' = [jobs EXCEPT ![drv].method = "os_version"]
             /\ UNCHANGED <<cur, hist, drv>>
    <3>1. jobs'[cur].state \in Live
      BY <2>2, <2>4 DEF JobType, Ids
    <3> QED BY <1>5, <2>1, <2>4, <3>1
  <2>5. ASSUME NEW s \in {"failed", "restoring", "rollback_failed"}, Step(s)
        PROVE  HistoryInv'
    BY <1>7, <2>1, <2>5 DEF Live, TERMINAL
  <2>6. CASE Goto("judge")
    BY <1>1, <2>1, <2>6 DEF Goto, memory
  <2> QED BY <1>11, <2>3, <2>4, <2>5, <2>6 DEF AfterRefusal
<1>12. \/ UNCHANGED <<hist, cur, jobs>> /\ disk' \in {disk, Memory}
       \/ Stop \/ SetupLoad \/ HandleAccept
       \/ BackupConfirmed \/ BackupFailed \/ Unexpected \/ Judge
       \/ Dispatch \/ GiveUp \/ NoteSent \/ AfterRefusal
  BY DEF vars, Next, Setup, Handle, Drive, Supervise, Boot, SetupSaved, Reload,
         HandleStart, HandleInfo, HandleRefuse, HandleSaved, Started, StepSaved,
         BackupMade, SentSaved, Send, WaitRanOut, Refused, NoAnswer, Answered, Apply,
         Fizzle, Restart, Goto, Save, memory
<1> QED BY <1>1, <1>2, <1>3, <1>4, <1>8, <1>9, <1>10, <1>11, <1>12

\* The history on disk: jobs that ended, newest first, each once, headed by
\* the job on disk as soon as it has ended, in the outcome it ended in.
THEOREM HistoryIsTold == ASSUME Calm PROVE Spec => []HistoryTold
<1>1. HistoryInv => HistoryTold
  BY DEF HistoryInv, HistoryOf, HistoryTold
<1> QED BY <1>1, HistoryInit, HistoryNext, TypeInvariant, NoteInvariant,
           ControlInvariant, PTL DEF Spec
=============================================================================
