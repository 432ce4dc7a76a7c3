--------------------- MODULE GuardedUpdate_promise_proofs ---------------------
(***************************************************************************)
(* What a guarded update promises the home, proved for every value of the  *)
(* bounds when the install is Calm: its backup, its way back, the truth of *)
(* its outcome, and that it implements UpdatePromise.                      *)
(*                                                                         *)
(* The invariant is DataInv: what every copy of the job, in memory and on  *)
(* the file, claims of the home. It needs ControlInv, because it is the    *)
(* driver alone that moves versions, and only from a state in which the    *)
(* copy on the file is the one it holds.                                   *)
(***************************************************************************)
EXTENDS GuardedUpdate_control_proofs

-----------------------------------------------------------------------------
(***************************************************************************)
(* Data.                                                                   *)
(***************************************************************************)

\* The job has its backup, and it holds the version to go back to.
Backed(j, copy) ==
  /\ copy # NoVersion
  /\ j.kind = "core" => copy = j.previous

\* The word a job ended with is true of what is installed.
Truthful(j, on) ==
  /\ j.state = "succeeded" => on[j.kind] = j.target
  /\ j.state = "rolled_back" => on[j.kind] = j.previous
  /\ j.state = "failed" /\ ~j.gaveUp => on[j.kind] = j.previous

\* What a copy of a job, in memory or on the file, claims of the home: of the
\* versions it is on, and of the Core version in the job's backup.
Sound(j, on, copy) ==
  /\ j.kind \in Kinds /\ j.target \in Versions /\ j.previous \in Versions
  /\ j.previous < j.target
  /\ j.state \in BeforeUpdate => on[j.kind] = j.previous
  /\ j.state \in Changed \cup {"succeeded"} => Backed(j, copy)
  /\ j.state = "restoring" => j.kind = "core"
  /\ Truthful(j, on)

SameTask(j, k) == j.kind = k.kind /\ j.target = k.target /\ j.previous = k.previous

Copies ==
  /\ cur # 0 => Sound(jobs[cur], inst, backups[cur])
  /\ disk.cur # 0 => Sound(disk.job, inst, backups[disk.cur])
  /\ cur # 0 /\ disk.cur = cur => SameTask(disk.job, jobs[cur])
  /\ cur # 0 /\ disk.cur # cur => backups[cur] = NoVersion
  /\ \A i \in Ids : i >= nextId => backups[i] = NoVersion

\* What the driver has made sure of where it is.
Ready ==
  /\ pc = "confirm" => Backed(jobs[cur], backups[cur])
  /\ pc \in {"send", "await", "waiting"} => disk.job = jobs[cur]
  /\ pc \in {"await", "waiting"} => jobs[cur].state \in Sending
  /\ pc \in {"sentSaving", "send"} /\ CallOf(jobs[cur]) = "boot_slot" =>
       spare = jobs[cur].previous

\* What the handler read is still what is installed.
Asking ==
  /\ \A k \in Kinds : inst[k] \in Versions
  /\ hpc \in {"asking", "checking"} => req.kind \in Kinds /\ req.target \in Versions
  /\ hpc = "checking" => req.previous = inst[req.kind] /\ req.previous < req.target

\* The operation under way is the one the driver waits for.
Operating ==
  op # NoOp =>
    /\ pc \in {"await", "waiting"}
    /\ op.id = cur /\ op.call = CallOf(jobs[cur])
    /\ op.kind = jobs[cur].kind /\ op.back = jobs[cur].previous
    /\ op.version = IF op.call = "update" THEN jobs[cur].target ELSE jobs[cur].previous

DataInv == Copies /\ Ready /\ Asking /\ Operating

\* Sound looks at six fields.
LEMMA SameSound ==
  ASSUME NEW j, NEW k, NEW on, NEW copy, Sound(j, on, copy),
         SameTask(k, j), k.state = j.state, k.gaveUp = j.gaveUp
  PROVE  Sound(k, on, copy)
BY Zenon DEF Sound, SameTask, Backed, Truthful

LEMMA MovedSame ==
  ASSUME NEW j \in JobType, NEW s
  PROVE  SameTask(Moved(j, s), j)
BY DEF SameTask, Moved, JobType

\* A step to s leaves the job sound, if s is what the home is in.
LEMMA MovedSound ==
  ASSUME NEW j \in JobType, NEW on, NEW copy, Sound(j, on, copy), NEW s,
         s \in BeforeUpdate => j.state \in BeforeUpdate,
         s \in Changed \cup {"succeeded"} => Backed(j, copy),
         s = "restoring" => j.kind = "core",
         s = "succeeded" => on[j.kind] = j.target,
         s \in {"rolled_back", "failed"} => on[j.kind] = j.previous
  PROVE  Sound(Moved(j, s), on, copy)
<1>1. Moved(j, s).state = s /\ SameTask(Moved(j, s), j)
  BY MovedState, MovedSame
<1> HIDE DEF Moved
<1> QED BY <1>1 DEF Sound, SameTask, Backed, Truthful

\* Nothing the copies and the handler are about changes.
LEMMA GotoData ==
  ASSUME DataInv, UNCHANGED <<cur, jobs, disk, inst, spare, backups, nextId, hpc, req>>,
         Ready', op' = NoOp \/ (op' = op /\ pc' = pc) \/ (op' = op /\ pc' = "waiting")
  PROVE  DataInv'
BY DEF DataInv, Copies, Asking, Operating

LEMMA DataInit == Init => DataInv
<1> SUFFICES ASSUME Init PROVE DataInv
  OBVIOUS
<1>1. /\ cur = 0 /\ disk.cur = 0 /\ pc = "off" /\ hpc = "idle" /\ op = NoOp
      /\ backups = [i \in Ids |-> NoVersion]
  BY DEF Init, Unstarted
<1>2. ASSUME NEW k \in Kinds
      PROVE  inst[k] \in Versions
  <2>1. k \in {"core", "os"}
    BY KindsAssumption
  <2>2. inst[k] \in Versions \cup {NoVersion} /\ (inst[k] = NoVersion <=> k \notin Kinds)
    BY <2>1 DEF Init, Unstarted
  <2> QED BY <2>2
<1>3. Copies /\ Ready /\ Operating
  BY <1>1 DEF Copies, Ready, Operating
<1>4. Asking
  BY <1>1, <1>2 DEF Asking
<1> QED BY <1>3, <1>4 DEF DataInv

\* A save: the file's copy becomes the one in memory.
LEMMA SaveData ==
  ASSUME DataInv, Save, UNCHANGED <<cur, jobs, inst, spare, backups, nextId>>,
         op' = op, Ready', hpc' \in {"idle", hpc}, req' = req \/ hpc' = "idle",
         pc \notin {"await", "waiting"}
  PROVE  DataInv'
<1>1. disk'.cur = cur /\ disk'.job = jobs[cur]
  BY DEF Save, Memory
<1>2. Copies'
  BY <1>1 DEF DataInv, Copies, SameTask
<1>3. Asking' /\ Operating'
  BY DEF DataInv, Asking, Operating
<1> QED BY <1>2, <1>3 DEF DataInv

LEMMA DataSetup ==
  TypeInv /\ ControlInv /\ DataInv /\ (Setup \/ Reload) => DataInv'
<1> SUFFICES ASSUME TypeInv, ControlInv, DataInv, Setup \/ Reload PROVE DataInv'
  OBVIOUS
<1> USE DEF memory, driver, handler, supervisor, counters
<1>1. CASE Boot
  <2>1. Ready'
    BY <1>1 DEF Boot, DataInv, Ready
  <2> QED BY <1>1, <2>1, GotoData DEF Boot
<1>2. CASE SetupLoad
  <2> DEFINE c    == IF cur = 0 THEN disk.cur ELSE cur
             read == IF cur = 0 THEN [jobs EXCEPT ![c] = disk.job] ELSE jobs
  <2>1. /\ c \in 0..MaxJobs /\ read \in [0..MaxJobs -> JobType]
        /\ cur = 0 => read[c] = disk.job
        /\ cur # 0 => read = jobs
    BY DEF TypeInv, TypeOK
  <2> DEFINE resumed == [read EXCEPT ![c].resumes[read[c].state] = @ + 1]
  <2>2. /\ cur' = c /\ UNCHANGED <<disk, pc, drv, hpc, req, inst, spare, op, backups, nextId>>
        /\ IF read[c].state \in Live /\ pc = "off" THEN jobs' = resumed ELSE jobs' = read
    BY <1>2 DEF SetupLoad
  <2>3. jobs'[c].state = read[c].state /\ jobs'[c].gaveUp = read[c].gaveUp
        /\ SameTask(jobs'[c], read[c])
    <3> HIDE DEF c, read
    <3>1. read[c] \in JobType
      BY <2>1
    <3> DEFINE again == [read[c].resumes EXCEPT ![read[c].state] = @ + 1]
    <3>2. resumed[c] = [read[c] EXCEPT !.resumes = again]
      BY <2>1, <3>1 DEF JobType
    <3> HIDE DEF resumed, again
    <3>3. CASE jobs' = resumed
      <4>1. resumed[c].gaveUp = read[c].gaveUp
        BY <3>1, <3>2, Zenon DEF JobType
      <4>2. resumed[c].state = read[c].state /\ SameTask(resumed[c], read[c])
        BY <3>1, <3>2 DEF JobType, SameTask
      <4> QED BY <3>3, <4>1, <4>2
    <3>4. CASE jobs' = read
      BY <3>4 DEF SameTask
    <3> QED BY <2>2, <3>3, <3>4
  <2>4. c # 0 => Sound(read[c], inst, backups[c])
    BY <2>1 DEF DataInv, Copies
  <2>5. c # 0 => Sound(jobs'[c], inst, backups[c])
    BY <2>3, <2>4, SameSound
  <2>8. c # 0 /\ disk.cur = c => SameTask(disk.job, jobs'[c])
    BY <2>1, <2>3 DEF DataInv, Copies, SameTask
  <2>9. c # 0 /\ disk.cur # c => backups[c] = NoVersion
    BY DEF DataInv, Copies
  <2>10. pc # "off" => jobs' = jobs /\ c = cur
    BY <2>1, <2>2 DEF TypeInv
  <2> HIDE DEF c, read, resumed
  <2>11. Copies'
    BY <2>2, <2>5, <2>8, <2>9 DEF DataInv, Copies
  <2>12. Ready'
    <3>1. CASE pc = "off"
      BY <2>2, <3>1 DEF Ready
    <3>2. CASE pc # "off"
      <4>1. jobs' = jobs /\ cur' = cur /\ pc' = pc /\ disk' = disk /\ spare' = spare
            /\ backups' = backups
        BY <2>2, <2>10, <3>2
      <4> QED BY <4>1 DEF DataInv, Ready
    <3> QED BY <3>1, <3>2
  <2>13. Asking'
    BY <2>2 DEF DataInv, Asking
  <2>14. Operating'
    BY <2>2, <2>10 DEF DataInv, Operating
  <2> QED BY <2>11, <2>12, <2>13, <2>14 DEF DataInv
<1>3. CASE SetupSaved
  <2>1. pc = "off" /\ pc' = "start"
    BY <1>3 DEF SetupSaved, Spawn, ControlInv, SetupApart
  <2>2. Ready'
    BY <2>1 DEF Ready
  <2> QED BY <1>3, <2>1, <2>2, SaveData DEF SetupSaved
<1>4. CASE Reload
  BY <1>4
  DEF Reload, DataInv, Copies, Ready, Asking, Operating
<1> QED BY <1>1, <1>2, <1>3, <1>4 DEF Setup

LEMMA DataHandle ==
  Calm /\ TypeInv /\ ControlInv /\ DataInv /\ Handle => DataInv'
<1> SUFFICES ASSUME Calm, TypeInv, ControlInv, DataInv, Handle PROVE DataInv'
  OBVIOUS
<1> USE DEF memory, driver, supervisor, counters
<1>1. ASSUME NEW kind \in Asked, NEW target \in Versions, HandleStart(kind, target)
      PROVE  DataInv'
  <2>1. UNCHANGED <<cur, jobs, disk, inst, spare, op, backups, nextId, pc>>
    BY <1>1 DEF HandleStart
  <2>2. Copies' /\ Ready' /\ Operating'
    BY <2>1 DEF DataInv, Copies, Ready, Operating
  <2>3. Asking'
    BY <1>1, <2>1, KindsAssumption DEF HandleStart, DataInv, Asking
  <2> QED BY <2>2, <2>3 DEF DataInv
<1>2. CASE HandleInfo \/ HandleRefuse
  <2>1. UNCHANGED <<cur, jobs, disk, inst, spare, op, backups, nextId, pc>>
    BY <1>2 DEF HandleInfo, HandleRefuse
  <2>2. Copies' /\ Ready' /\ Operating'
    BY <2>1 DEF DataInv, Copies, Ready, Operating
  <2>3. Asking'
    <3>1. CASE HandleRefuse
      BY <2>1, <3>1 DEF HandleRefuse, DataInv, Asking
    <3>2. CASE HandleInfo
      <4>1. /\ req'.kind = req.kind /\ req'.target = req.target
            /\ req'.previous = inst[req.kind] /\ inst[req.kind] < req.target
            /\ hpc = "asking" /\ hpc' = "checking"
        BY <3>2 DEF HandleInfo, TypeInv, TypeOK
      <4> QED BY <2>1, <4>1 DEF DataInv, Asking
    <3> QED BY <1>2, <3>1, <3>2
  <2> QED BY <2>2, <2>3 DEF DataInv
<1>3. CASE HandleAccept
  <2>1. nextId \in Ids /\ nextId' = nextId + 1 /\ disk.cur # nextId
    BY <1>3 DEF HandleAccept, TypeInv, TypeOK, Ids
  <2>2. /\ cur' = nextId /\ hpc' = "saving"
        /\ UNCHANGED <<sp, disk, pc, drv, req, inst, spare, op, backups>>
    BY <1>3 DEF HandleAccept
  <2>3. /\ NewJob.state = "accepted" /\ NewJob.kind = req.kind
        /\ NewJob.target = req.target /\ NewJob.previous = req.previous
    BY DEF NewJob, NoJob
  <2>4. jobs'[cur'] = NewJob
    BY <1>3, <2>2, AcceptedJobs
  <2>5. pc = "off" /\ op = NoOp
    BY <1>3 DEF HandleAccept, Calm, ControlInv, DriverAlone, HandlerApart, DataInv, Operating
  <2>6. hpc = "checking"
    BY <1>3 DEF HandleAccept
  <2>7. Sound(NewJob, inst, backups[nextId])
    BY <2>3, <2>6 DEF DataInv, Asking, Sound, Truthful, Changed
  <2>9. backups'[cur'] = NoVersion /\ disk'.cur # cur'
    BY <2>1, <2>2 DEF DataInv, Copies, Ids
  <2>10. \A i \in Ids : i >= nextId' => backups'[i] = NoVersion
    BY <2>1, <2>2 DEF DataInv, Copies, Ids
  <2>11. Copies'
    BY <2>2, <2>4, <2>7, <2>9, <2>10 DEF DataInv, Copies
  <2>12. Ready' /\ Operating' /\ Asking'
    BY <2>2, <2>5 DEF Ready, Operating, DataInv, Asking
  <2> QED BY <2>11, <2>12 DEF DataInv
<1>4. CASE HandleSaved
  <2>1. pc = "off" /\ pc' \in {"off", "start"}
    BY <1>4 DEF HandleSaved, Spawn, ControlInv, HandlerApart
  <2>2. Ready'
    BY <2>1 DEF Ready
  <2> QED BY <1>4, <2>1, <2>2, SaveData DEF HandleSaved
<1> QED BY <1>1, <1>2, <1>3, <1>4 DEF Handle

\* When the operation under way moves a version, the file says which step of
\* which job does it, so nothing that was claimed becomes false.
LEMMA MovedVersion ==
  ASSUME TypeInv, ControlInv, DataInv, op # NoOp,
         inst' \in {inst, [inst EXCEPT ![op.kind] = op.version]}
  PROVE  /\ Sound(disk.job, inst', backups[disk.cur])
         /\ \A k \in Kinds : inst'[k] \in Versions
<1>1. /\ pc \in {"await", "waiting"} /\ disk.job = jobs[cur] /\ disk.job.state \in Sending
      /\ op.version \in {disk.job.target, disk.job.previous}
    BY DEF DataInv, Operating, Ready
<1>2. cur \in Ids /\ disk.cur = cur
  BY <1>1, AtWork
<1>3. Sound(disk.job, inst, backups[disk.cur])
  BY <1>2 DEF DataInv, Copies, Ids
<1>4. \A k \in Kinds : inst'[k] \in Versions
  BY <1>1, <1>3, KindsAssumption DEF DataInv, Asking, Sound, TypeInv, TypeOK
<1>5. Sound(disk.job, inst', backups[disk.cur])
  BY <1>1, <1>3 DEF Sound, Truthful, Sending, BeforeUpdate
<1> QED BY <1>4, <1>5

\* The process stops, and the claims of the file hold.
LEMMA StopData ==
  ASSUME TypeInv, DataInv, Stop, UNCHANGED <<backups, nextId>>, op' = NoOp,
         disk.cur # 0 => Sound(disk.job, inst', backups[disk.cur]),
         \A k \in Kinds : inst'[k] \in Versions
  PROVE  DataInv'
<1>1. cur' = 0 /\ disk' = disk /\ pc' = "off" /\ hpc' = "idle"
  BY DEF Stop
<1> QED BY <1>1 DEF DataInv, Copies, Ready, Asking, Operating

LEMMA DataSupervise ==
  Calm /\ TypeInv /\ ControlInv /\ DataInv /\ (Supervise \/ Restart) => DataInv'
<1> SUFFICES ASSUME Calm, TypeInv, ControlInv, DataInv, Supervise \/ Restart PROVE DataInv'
  OBVIOUS
<1> USE DEF memory, driver, handler, supervisor, counters, Elsewhere
<1>1. CASE Refused
  <2>1. /\ pc = "await" /\ pc' = "refused" /\ op' = NoOp
        /\ UNCHANGED <<sp, cur, jobs, disk, spare, backups, nextId, hpc, req>>
    BY <1>1 DEF Refused, Goto
  <2>2. Ready'
    BY <2>1 DEF Ready
  <2>3. CASE UNCHANGED inst
    BY <2>1, <2>2, <2>3, GotoData
  <2>4. CASE op.call = "update" /\ op.kind = "core"
             /\ inst' = [inst EXCEPT !["core"] = op.version]
    <3>1. op # NoOp
      BY <2>4 DEF NoOp
    <3>2. Sound(disk.job, inst', backups[disk.cur]) /\ \A k \in Kinds : inst'[k] \in Versions
      BY <2>1, <2>4, <3>1, MovedVersion
    <3>3. disk.job = jobs[cur] /\ disk.cur = cur /\ cur # 0 /\ hpc = "idle"
      BY <2>1, AtWork DEF DataInv, Ready, Ids
    <3>4. Copies'
      BY <2>1, <3>2, <3>3 DEF Copies, DataInv
    <3> QED BY <2>1, <2>2, <3>2, <3>3, <3>4 DEF DataInv, Asking, Operating
  <2> QED BY <1>1, <2>3, <2>4 DEF Refused
<1>2. CASE NoAnswer \/ Answered \/ Fizzle
  <2>1. /\ UNCHANGED <<sp, cur, jobs, disk, spare, inst, backups, nextId, hpc, req>>
        /\ \/ op' = NoOp /\ pc' \in {pc, "judge"}
           \/ op' = op /\ pc = "await" /\ pc' = "waiting"
    BY <1>2 DEF NoAnswer, Answered, Fizzle, Goto, Calm
  <2>2. Ready'
    BY <2>1 DEF DataInv, Ready
  <2> QED BY <2>1, <2>2, GotoData
<1>3. CASE Apply
  <2>1. op # NoOp /\ Stop /\ op' = NoOp /\ UNCHANGED <<backups, nextId, disk>>
        /\ inst' \in {inst, [inst EXCEPT ![op.kind] = op.version]}
    BY <1>3 DEF Apply, Landed, BackedOut, Stop
  <2> QED BY <2>1, MovedVersion, StopData
<1>4. CASE Restart
  <2>1. Stop /\ op' = NoOp /\ UNCHANGED <<backups, nextId, disk, inst>>
    BY <1>4 DEF Restart, Calm, Stop
  <2>2. disk.cur # 0 => Sound(disk.job, inst', backups[disk.cur])
    BY <2>1 DEF DataInv, Copies
  <2>3. \A k \in Kinds : inst'[k] \in Versions
    BY <2>1 DEF DataInv, Asking
  <2> QED BY <2>1, <2>2, <2>3, StopData
<1> QED BY <1>1, <1>2, <1>3, <1>4 DEF Supervise

\* The driver changed its job, and nothing else is under way.
LEMMA WorkData ==
  ASSUME TypeInv, ControlInv, DataInv, pc \notin {"off", "stepSaving"},
         UNCHANGED <<cur, disk, inst, spare, op, backups, nextId, hpc, req>>,
         op = NoOp, Ready',
         SameTask(jobs'[cur], jobs[cur]), Sound(jobs'[cur], inst, backups[cur])
  PROVE  DataInv'
<1>1. cur # 0 /\ disk.cur = cur /\ hpc = "idle"
  BY AtWork DEF Ids
<1>2. Copies'
  BY <1>1 DEF DataInv, Copies, SameTask
<1> QED BY <1>1, <1>2 DEF DataInv, Asking, Operating

\* `_step` to s, when the home is in what s says.
LEMMA StepData ==
  ASSUME TypeInv, ControlInv, DataInv, pc \notin {"off", "stepSaving", "await", "waiting"},
         NEW s, Step(s), Elsewhere, UNCHANGED <<disk, supervisor>>,
         s \in BeforeUpdate => jobs[cur].state \in BeforeUpdate,
         s \in Changed \cup {"succeeded"} => Backed(jobs[cur], backups[cur]),
         s = "restoring" => jobs[cur].kind = "core",
         s = "succeeded" => inst[jobs[cur].kind] = jobs[cur].target,
         s \in {"rolled_back", "failed"} => inst[jobs[cur].kind] = jobs[cur].previous
  PROVE  DataInv'
<1>1. drv = cur /\ cur \in Ids /\ op = NoOp
  BY AtWork DEF DataInv, Operating
<1>2. jobs[cur] \in JobType /\ Sound(jobs[cur], inst, backups[cur])
  BY <1>1 DEF TypeInv, TypeOK, DataInv, Copies, Ids
<1>3. jobs'[cur] = Moved(jobs[cur], s)
  BY <1>1 DEF Step, TypeInv, TypeOK, Ids
<1>4. SameTask(jobs'[cur], jobs[cur]) /\ Sound(jobs'[cur], inst, backups[cur])
  BY <1>2, <1>3, MovedSame, MovedSound
<1>5. Ready'
  BY DEF Step, Ready
<1> QED BY <1>1, <1>4, <1>5, WorkData DEF Step, Elsewhere, handler, supervisor

\* What is read of the version is the version, unless nothing is read.
LEMMA ReadRight ==
  ASSUME DataInv, NEW j, j.kind \in Kinds, NEW seen \in Readings(j.kind), seen \in Versions
  PROVE  inst[j.kind] = seen
BY VersionsAssumption DEF Readings

LEMMA DataDrive ==
  Calm /\ TypeInv /\ CallInv /\ NoteInv /\ ControlInv /\ DataInv /\ Drive => DataInv'
<1> SUFFICES ASSUME Calm, TypeInv, CallInv, NoteInv, ControlInv, DataInv, Drive
             PROVE  DataInv'
  OBVIOUS
<1> DEFINE J == jobs[cur]
<1> HIDE DEF J
<1>a. ASSUME pc \notin {"off", "stepSaving"}
      PROVE  /\ drv = cur /\ cur \in Ids /\ J \in JobType /\ J.state \in Live
             /\ job = J /\ J = jobs[cur]
             /\ Sound(J, inst, backups[cur])
             /\ disk.cur = cur /\ hpc = "idle" /\ SameTask(disk.job, J)
  BY <1>a, AtWork DEF J, job, TypeInv, TypeOK, DataInv, Copies, Ids
<1>b. pc \notin {"await", "waiting"} => op = NoOp
  BY DEF DataInv, Operating
<1>1. CASE Started \/ Dispatch \/ WaitRanOut
  <2>1. UNCHANGED <<inst, spare, op, backups, nextId, disk, sp, hpc, req>>
    BY <1>1 DEF Started, Dispatch, WaitRanOut, Elsewhere, handler, supervisor
  <2>2. ASSUME Started \/ WaitRanOut \/ (Dispatch /\ pc' \in {"backup", "judge", "note"}),
               pc' \in {"loop", "judge", "backup", "note"}, UNCHANGED memory
        PROVE  DataInv'
    <3>1. Ready'
      BY <2>2 DEF Ready
    <3>2. op' = NoOp
      BY <1>b, <2>1, <2>2 DEF Started, WaitRanOut, Dispatch, Calm
    <3> QED BY <2>1, <2>2, <3>1, <3>2, GotoData DEF memory
  <2>3. CASE Started \/ WaitRanOut
    BY <2>2, <2>3 DEF Started, WaitRanOut, Goto
  <2>4. CASE Dispatch
    <3>1. CASE job.state = "accepted" /\ Step("backing_up")
      BY <1>a, <2>4, <3>1, StepData DEF Dispatch, BeforeUpdate, Changed
    <3>2. ASSUME NEW place \in {"backup", "judge", "note"}, Goto(place) PROVE DataInv'
      BY <2>2, <2>4, <3>2 DEF Goto
    <3> QED BY <2>4, <3>1, <3>2 DEF Dispatch
  <2> QED BY <1>1, <2>3, <2>4
<1>2. CASE GiveUp
  <2> DEFINE s == GiveUpAs(J.state)
             m == Moved(J, s)
             j == [m EXCEPT !.gaveUp = TRUE]
  <2>1. pc = "loop" /\ s \in {"failed", "rollback_failed"}
    BY <1>2 DEF GiveUp, GiveUpAs
  <2>2. m \in JobType /\ m.state = s /\ SameTask(m, J)
    BY <1>a, <2>1, MovedType, MovedState, MovedSame DEF TERMINAL
  <2>3. jobs'[cur] = j
    BY <1>a, <1>2, <2>1 DEF GiveUp, TypeInv, TypeOK, Ids
  <2>4. j.gaveUp /\ j.state = m.state /\ SameTask(j, m)
    <3> HIDE DEF m
    <3>1. j.gaveUp
      BY <2>2, Zenon DEF JobType
    <3>2. j.state = m.state /\ SameTask(j, m)
      BY <2>2 DEF JobType, SameTask
    <3> QED BY <3>1, <3>2
  <2> HIDE DEF m, j, s
  <2>5. SameTask(jobs'[cur], J)
    BY <2>2, <2>3, <2>4 DEF SameTask
  <2>6. Sound(jobs'[cur], inst, backups[cur])
    <3>1. jobs'[cur].state \in {"failed", "rollback_failed"} /\ jobs'[cur].gaveUp
      BY <2>1, <2>2, <2>3, <2>4
    <3>2. Truthful(jobs'[cur], inst)
      BY <3>1, Zenon DEF Truthful
    <3> HIDE DEF Truthful
    <3>3. Sound(J, inst, backups[cur])
      BY <1>a, <2>1
    <3> QED BY <2>5, <3>1, <3>2, <3>3 DEF Sound, SameTask, BeforeUpdate, Changed
  <2>7. Ready'
    BY <1>2 DEF GiveUp, Ready
  <2>8. UNCHANGED <<cur, disk, inst, spare, op, backups, nextId, hpc, req>>
    BY <1>2 DEF GiveUp, Elsewhere, handler, supervisor
  <2> QED BY <1>a, <1>b, <2>1, <2>5, <2>6, <2>7, <2>8, WorkData
<1>3. CASE StepSaved
  <2>1. pc' \in {"off", "loop"} /\ pc = "stepSaving"
    BY <1>3 DEF StepSaved
  <2>2. Ready'
    BY <2>1 DEF Ready
  <2> QED BY <1>3, <2>1, <2>2, SaveData
          DEF StepSaved, Elsewhere, memory, handler, supervisor
<1>4. CASE BackupMade
  <2>1. /\ pc = "backup" /\ pc' = "confirm"
        /\ backups' = [backups EXCEPT ![drv] = inst["core"]]
        /\ UNCHANGED <<cur, jobs, disk, inst, spare, op, nextId, hpc, req>>
    BY <1>4 DEF BackupMade, Goto, Elsewhere, memory, handler
  <2>2. J.state = "backing_up" /\ drv = cur /\ cur \in Ids /\ disk.cur = cur
        /\ hpc = "idle" /\ SameTask(disk.job, J) /\ Sound(J, inst, backups[cur]) /\ cur < nextId
    BY <1>a, <2>1 DEF CallInv, DriverFits, TypeInv
  <2>3. backups'[cur] = inst["core"]
    BY <2>1, <2>2 DEF TypeInv, TypeOK
  <2>4. inst["core"] \in Versions
    BY KindsAssumption DEF DataInv, Asking
  <2>5. Backed(J, backups'[cur])
    BY <2>2, <2>3, <2>4, VersionsAssumption DEF Backed, Sound, BeforeUpdate
  <2>6. Sound(J, inst, backups'[cur])
    BY <2>2, <2>5 DEF Sound
  <2>7. Sound(disk.job, inst, backups'[cur])
    <3>1. Backed(disk.job, backups'[cur])
      BY <2>2, <2>5 DEF Backed, SameTask
    <3>2. Sound(disk.job, inst, backups[cur])
      BY <2>2 DEF DataInv, Copies, Ids
    <3> QED BY <3>1, <3>2 DEF Sound
  <2>8. \A i \in Ids : i >= nextId => backups'[i] = NoVersion
    BY <2>1, <2>2 DEF DataInv, Copies, TypeInv, TypeOK, Ids
  <2>9. Copies'
    BY <2>1, <2>2, <2>6, <2>7, <2>8 DEF Copies, J
  <2>10. Ready'
    BY <2>1, <2>5 DEF Ready, J
  <2>11. Asking' /\ Operating'
    BY <1>b, <2>1 DEF DataInv, Asking, Operating
  <2> QED BY <2>9, <2>10, <2>11 DEF DataInv
<1>5. CASE BackupConfirmed
  <2>1. Backed(J, backups[cur]) /\ pc = "confirm"
    BY <1>5 DEF BackupConfirmed, DataInv, Ready, J
  <2> QED BY <1>5, <2>1, StepData DEF BackupConfirmed, BeforeUpdate, J
<1>6. CASE BackupFailed \/ Unexpected
  <2>1. /\ pc \in {"backup", "confirm", "judge"}
        /\ pc \in {"backup", "confirm"} => J.state = "backing_up"
    BY <1>a, <1>6 DEF BackupFailed, Unexpected, CallInv, DriverFits
  <2>2. PICK s : /\ Step(s) /\ s \in {"failed", "rollback_failed"}
                 /\ s = "failed" => J.state \in BeforeUpdate
    BY <1>a, <1>6, <2>1 DEF BackupFailed, Unexpected, FaultOf, BeforeUpdate, Live, Changed
  <2>3. s = "failed" => inst[J.kind] = J.previous
    BY <1>a, <2>1, <2>2 DEF Sound
  <2> QED BY <1>6, <2>1, <2>2, <2>3, StepData
          DEF BackupFailed, Unexpected, BeforeUpdate, Changed, J
<1>7. CASE NoteSent
  <2>1. PICK m : /\ jobs' = [jobs EXCEPT ![drv] = Noted(jobs[drv], m)]
                 /\ IF job.state = "rolling_back" THEN m \in RollbackMethods(job) ELSE TRUE
    BY <1>7 DEF NoteSent
  <2>2. /\ pc = "note" /\ pc' = "sentSaving"
        /\ UNCHANGED <<cur, disk, inst, spare, op, backups, nextId, hpc, req>>
    BY <1>7 DEF NoteSent, Elsewhere, handler, supervisor
  <2> DEFINE j == Noted(J, m)
  <2>3. jobs'[cur] = j
    BY <1>a, <2>1, <2>2 DEF TypeInv, TypeOK, Ids
  <2>4. j.state = J.state /\ j.method = m /\ SameTask(j, J)
    BY <1>a, <2>2 DEF Noted, JobType, SameTask
  <2>5. j.gaveUp = J.gaveUp
    BY <1>a, <2>2, Zenon DEF Noted, JobType
  <2> HIDE DEF j
  <2>6. Sound(j, inst, backups[cur])
    BY <1>a, <2>2, <2>4, <2>5, SameSound
  <2>7. J.state \in Sending
    BY <1>a, <2>2 DEF CallInv, DriverFits, ToSend, TypeInv
  <2>8. CallOf(j) = "boot_slot" => spare = j.previous
    <3>1. CASE J.state = "rolling_back"
      BY <1>a, <2>1, <2>2, <2>4, <3>1 DEF RollbackMethods, CallOf, SameTask
    <3>2. CASE J.state # "rolling_back"
      BY <2>4, <2>7, <3>2 DEF CallOf, Sending
    <3> QED BY <3>1, <3>2
  <2>9. Ready'
    BY <2>2, <2>3, <2>8 DEF Ready, CallOf
  <2>10. SameTask(jobs'[cur], jobs[cur]) /\ Sound(jobs'[cur], inst, backups[cur])
    BY <1>a, <2>2, <2>3, <2>4, <2>6
  <2> QED BY <1>b, <2>2, <2>9, <2>10, WorkData
<1>8. CASE SentSaved
  <2>1. pc = "sentSaving" /\ pc' = "send" /\ disk'.job = jobs[cur]
        /\ UNCHANGED <<cur, jobs, inst, spare, op, backups, nextId, hpc, req>>
    BY <1>8 DEF SentSaved, Goto, Save, Memory, Elsewhere, memory, handler, supervisor
  <2>2. Ready'
    BY <2>1 DEF DataInv, Ready, CallOf
  <2> QED BY <1>8, <2>1, <2>2, SaveData DEF SentSaved
<1>9. CASE Send
  <2>1. /\ pc = "send" /\ pc' = "await" /\ drv' = drv
        /\ op' = [call |-> CallOf(J), kind |-> J.kind,
                  version |-> VersionOf(J, cur), id |-> cur, back |-> J.previous]
        /\ UNCHANGED <<cur, jobs, disk, inst, spare, backups, nextId, hpc, req>>
    BY <1>a, <1>b, <1>9 DEF Send, Goto, Elsewhere, memory, handler
  <2>2. J.state \in Sending
    BY <1>a, <2>1 DEF CallInv, DriverFits
  <2>3. Ready'
    BY <2>1, <2>2 DEF DataInv, Ready, J
  <2>4. VersionOf(J, cur) = IF CallOf(J) = "update" THEN J.target ELSE J.previous
    <3>1. CASE J.state = "updating"
      BY <3>1 DEF VersionOf, CallOf
    <3>2. CASE J.state = "restoring"
      <4>1. J.kind = "core" /\ Backed(J, backups[cur])
        BY <1>a, <2>1, <3>2 DEF Sound, Changed
      <4> QED BY <3>2, <4>1 DEF VersionOf, CallOf, Backed
    <3>3. CASE J.state = "rolling_back"
      <4>1. CallOf(J) = "boot_slot" => spare = J.previous
        BY <2>1 DEF DataInv, Ready, J
      <4> QED BY <3>3, <4>1 DEF VersionOf, CallOf
    <3> QED BY <2>2, <3>1, <3>2, <3>3 DEF Sending
  <2>5. Operating'
    <3>1. /\ op'.id = cur' /\ op'.call = CallOf(jobs'[cur']) /\ op'.kind = jobs'[cur'].kind
          /\ op'.back = jobs'[cur'].previous
          /\ op'.version = IF op'.call = "update" THEN jobs'[cur'].target
                           ELSE jobs'[cur'].previous
      BY <2>1, <2>4 DEF J
    <3> QED BY <2>1, <3>1 DEF Operating, CallOf
  <2>6. Copies' /\ Asking'
    BY <2>1 DEF DataInv, Copies, Asking
  <2> QED BY <2>3, <2>5, <2>6 DEF DataInv
<1>10. CASE AfterRefusal
  <2>1. pc = "refused" /\ J.state \in Sending
    BY <1>a, <1>10 DEF AfterRefusal, CallInv, DriverFits
  <2>2. Backed(J, backups[cur]) /\ J.previous \in Versions /\ J.kind \in Kinds
    BY <1>a, <2>1 DEF Sound, Sending, Changed
  <2>3. CASE \E seen \in Readings(job.kind) :
               IF seen = job.previous THEN Step("failed") ELSE Goto("judge")
    <3>1. CASE Goto("judge")
      <4>1. Ready'
        BY <3>1 DEF Goto, Ready
      <4> QED BY <1>b, <1>10, <2>1, <3>1, <4>1, GotoData
              DEF AfterRefusal, Goto, Elsewhere, memory, handler, supervisor
    <3>2. CASE Step("failed") /\ J.previous \in Readings(J.kind)
      <4>1. inst[J.kind] = J.previous
        BY <2>2, <3>2, ReadRight
      <4> QED BY <1>10, <2>1, <3>2, <4>1, StepData
              DEF AfterRefusal, BeforeUpdate, Changed, J
    <3> QED BY <1>a, <2>1, <2>3, <3>1, <3>2
  <2>4. CASE /\ jobs' = [jobs EXCEPT ![drv].method = "os_version"]
             /\ pc' = "sentSaving"
             /\ UNCHANGED <<cur, hist, drv>>
             /\ job.state = "rolling_back"
    <3> DEFINE j == [J EXCEPT !.method = "os_version"]
    <3>1. jobs'[cur] = j
      BY <1>a, <2>1, <2>4 DEF TypeInv, TypeOK, Ids
    <3>2. j.state = "rolling_back" /\ j.method = "os_version" /\ SameTask(j, J)
      BY <1>a, <2>1, <2>4 DEF JobType, SameTask
    <3>3. j.gaveUp = J.gaveUp
      BY <1>a, <2>1, Zenon DEF JobType
    <3> HIDE DEF j
    <3>4. Sound(j, inst, backups[cur])
      BY <1>a, <2>1, <2>4, <3>2, <3>3, SameSound
    <3>5. Ready'
      BY <2>4, <3>1, <3>2 DEF Ready, CallOf
    <3>6. UNCHANGED <<cur, disk, inst, spare, op, backups, nextId, hpc, req>>
      BY <1>10, <2>4 DEF AfterRefusal, Elsewhere, handler, supervisor
    <3> QED BY <1>a, <1>b, <2>1, <3>1, <3>2, <3>4, <3>5, <3>6, WorkData
  <2>5. CASE \/ Step("rollback_failed")
             \/ Step("restoring") /\ CanRestore(job)
    BY <1>a, <1>10, <2>1, <2>2, <2>5, StepData
    DEF AfterRefusal, CanRestore, BeforeUpdate, Changed, J
  <2> QED BY <1>10, <2>3, <2>4, <2>5 DEF AfterRefusal
<1>11. CASE Judge
  <2>1. pc = "judge"
    BY <1>11 DEF Judge
  <2>2. PICK seen, again, ok :
          /\ seen \in Readings(J.kind) /\ again \in Readings(J.kind)
          /\ \/ J.state = "updating" /\ Step(VerdictOnUpdate(seen))
             \/ /\ J.state = "checking" /\ ok \in Healthy(again, J.target)
                /\ Step(VerdictOnHealth(ok))
             \/ /\ J.state = "rolling_back" /\ ok \in Healthy(again, J.previous)
                /\ Step(VerdictOnRollback(seen, ok))
             \/ /\ J.state = "restoring" /\ ok \in Healthy(again, J.previous)
                /\ Step(VerdictOnRestore(seen, ok))
    BY <1>a, <1>11, <2>1 DEF Judge
  <2>3. /\ J.state \in Changed
        /\ J.previous \in Versions /\ J.target \in Versions /\ J.kind \in Kinds
    BY <1>a, <2>1, <2>2 DEF Sound, Changed
  <2>4. Backed(J, backups[cur])
    BY <1>a, <2>1, <2>3 DEF Sound
  <2>5. PICK s : /\ Step(s)
                 /\ s \notin BeforeUpdate /\ s # "failed"
                 /\ s = "succeeded" => again = J.target
                 /\ s = "rolled_back" => seen = J.previous
                 /\ s = "restoring" => J.kind = "core"
    <3>1. CASE J.state = "updating"
      BY <1>a, <2>1, <2>2, <3>1 DEF VerdictOnUpdate, BeforeUpdate
    <3>2. CASE J.state = "checking"
      <4>1. ok => again = J.target
        BY <2>2, <3>2 DEF Healthy
      <4> QED BY <2>2, <3>2, <4>1 DEF VerdictOnHealth, BeforeUpdate
    <3>3. CASE J.state = "rolling_back"
      BY <1>a, <2>1, <2>2, <3>3 DEF VerdictOnRollback, CanRestore, BeforeUpdate
    <3>4. CASE J.state = "restoring"
      BY <1>a, <2>1, <2>2, <3>4 DEF VerdictOnRestore, BeforeUpdate
    <3> QED BY <2>2, <3>1, <3>2, <3>3, <3>4
  <2>6. /\ s = "succeeded" => inst[J.kind] = J.target
        /\ s = "rolled_back" => inst[J.kind] = J.previous
    BY <2>2, <2>3, <2>5, ReadRight
  <2> QED BY <1>11, <2>1, <2>4, <2>5, <2>6, StepData DEF Judge, J
<1> QED BY <1>1, <1>2, <1>3, <1>4, <1>5, <1>6, <1>7, <1>8, <1>9, <1>10, <1>11 DEF Drive

LEMMA DataNext ==
  Calm /\ TypeInv /\ CallInv /\ NoteInv /\ ControlInv /\ DataInv /\ [Next]_vars => DataInv'
<1> SUFFICES ASSUME Calm, TypeInv, CallInv, NoteInv, ControlInv, DataInv, [Next]_vars
             PROVE  DataInv'
  OBVIOUS
<1>1. CASE Next
  BY <1>1, DataSetup, DataHandle, DataDrive, DataSupervise DEF Next
<1>2. CASE UNCHANGED vars
  <2>1. UNCHANGED <<cur, jobs, disk, inst, spare, backups, nextId, hpc, req, op, pc>>
    BY <1>2 DEF vars
  <2>2. Ready'
    BY <2>1 DEF DataInv, Ready
  <2> QED BY <2>1, <2>2, GotoData
<1> QED BY <1>1, <1>2

LEMMA DataInvariant == ASSUME Calm PROVE Spec => []DataInv
<1>1. TypeInv /\ CallInv /\ NoteInv /\ ControlInv /\ DataInv /\ [Next]_vars => DataInv'
  BY DataNext
<1> QED BY <1>1, DataInit, TypeInvariant, CallInit, CallNext, NoteInvariant,
           ControlInvariant, PTL DEF Spec

\* No backup, no update; and the backup of a Core update holds the version
\* the job must be able to go back to.
THEOREM UpdatesAreBackedUp == ASSUME Calm PROVE Spec => []BackedUp
<1>1. ASSUME ControlInv, DataInv, TypeInv
      PROVE  BackedUp
  <2> SUFFICES ASSUME op.call = "update"
               PROVE  Backed([kind |-> op.kind, previous |-> op.back], backups[op.id])
    BY DEF BackedUp, Backed
  <2>1. op # NoOp
    BY DEF NoOp
  <2>2. /\ pc \in {"await", "waiting"} /\ op.id = cur /\ CallOf(jobs[cur]) = "update"
        /\ op.kind = jobs[cur].kind /\ op.back = jobs[cur].previous
        /\ jobs[cur].state \in Sending
    BY <1>1, <2>1 DEF DataInv, Operating, Ready
  <2>3. cur # 0
    BY <1>1, <2>2 DEF TypeInv
  <2>4. Backed(jobs[cur], backups[cur])
    BY <1>1, <2>2, <2>3 DEF DataInv, Copies, Sound, Sending, Changed
  <2> QED BY <2>2, <2>4 DEF Backed
<1> QED BY <1>1, TypeInvariant, ControlInvariant, DataInvariant, PTL

\* Whichever way back is taken, it ends on the version the job began with.
THEOREM RollbacksGoBack == ASSUME Calm PROVE Spec => []OnlyGoesBack
<1>1. DataInv => OnlyGoesBack
  BY DEF DataInv, Operating, OnlyGoesBack, NoOp
<1> QED BY <1>1, DataInvariant, PTL

\* The outcome on disk is true of what is installed.
THEOREM OutcomesAreTrue == ASSUME Calm PROVE Spec => []OutcomeTrue
<1>1. ASSUME TypeInv, DataInv
      PROVE  OutcomeTrue
  <2>1. CASE disk.cur = 0
    <3>1. disk.job.state = "none"
      BY <1>1, <2>1 DEF TypeInv, NoJob
    <3> QED BY <3>1 DEF OutcomeTrue
  <2>2. CASE disk.cur # 0
    BY <1>1, <2>2, Zenon DEF DataInv, Copies, Sound, Truthful, OutcomeTrue
  <2> QED BY <2>1, <2>2
<1> QED BY <1>1, TypeInvariant, DataInvariant, PTL

-----------------------------------------------------------------------------
(***************************************************************************)
(* Refinement: each step of the job machine is a step of UpdatePromise, or *)
(* none. Every save is none, but the one that puts a job on the file and   *)
(* the one that puts its outcome there.                                    *)
(***************************************************************************)

PhaseOf(j) ==
  CASE j.state = "none"                  -> "idle"
    [] j.state \in Live                  -> "open"
    [] j.state \in TERMINAL /\ j.gaveUp  -> "given_up"
    [] OTHER                             -> j.state

TaskOf(j) == [kind |-> j.kind, from |-> j.previous, to |-> j.target]

LEMMA PhaseLive ==
  ASSUME NEW j, j.state \in Live PROVE PhaseOf(j) = "open"
<1>1. j.state # "none" /\ j.state \notin TERMINAL
  BY DEF Live, TERMINAL
<1> QED BY <1>1, Zenon DEF PhaseOf

LEMMA PhaseEnded ==
  ASSUME NEW j \in JobType, j.state \in TERMINAL
  PROVE  PhaseOf(j) \in {"given_up", j.state} /\ (PhaseOf(j) = "given_up" \/ ~j.gaveUp)
<1>1. j.state \notin Live /\ j.state # "none"
  BY DEF TERMINAL, Live
<1>2. CASE j.gaveUp
  <2>1. PhaseOf(j) = "given_up"
    BY <1>1, <1>2, Zenon DEF PhaseOf
  <2> QED BY <2>1
<1>3. CASE ~j.gaveUp
  <2>1. PhaseOf(j) = j.state
    BY <1>1, <1>3, Zenon DEF PhaseOf
  <2> QED BY <1>3, <2>1, Zenon
<1> QED BY <1>2, <1>3, Zenon

LEMMA PhaseNotOpen ==
  ASSUME NEW j \in JobType, j.state \notin Live
  PROVE  PhaseOf(j) # "open"
<1>1. CASE j.state \in TERMINAL
  BY <1>1, PhaseEnded DEF TERMINAL
<1>2. CASE j.state = "none"
  BY <1>2 DEF PhaseOf
<1> QED BY <1>1, <1>2 DEF JobType

LEMMA Abstracted ==
  Promise!vars = <<PhaseOf(disk.job), TaskOf(disk.job),
                   disk.cur # 0 /\ backups[disk.cur] # NoVersion, inst>>
BY DEF Promise!vars, Phase, PhaseOf, TaskOf

LEMMA PromiseInit == Init => Promise!Init
<1> SUFFICES ASSUME Init PROVE Promise!Init
  OBVIOUS
<1>1. disk.job = NoJob /\ disk.cur = 0
  BY DEF Init
<1>2. Phase = "idle"
  <2>1. disk.job.state = "none" /\ "none" \notin Live /\ "none" \notin TERMINAL
    BY <1>1 DEF NoJob, Live, TERMINAL
  <2> QED BY <2>1, Zenon DEF Phase
<1>3. [kind |-> disk.job.kind, from |-> disk.job.previous, to |-> disk.job.target]
        \in Promise!Tasks
  BY <1>1 DEF NoJob, Promise!Tasks
<1>4. inst \in [{"core", "os"} -> Versions \cup {NoVersion}]
  BY DEF Init, Unstarted
<1> QED BY <1>1, <1>2, <1>3, <1>4 DEF Promise!Init

\* What the steps of UpdatePromise say, with its variables written out.
LEMMA PromiseStutter ==
  ASSUME PhaseOf(disk'.job) = PhaseOf(disk.job), TaskOf(disk'.job) = TaskOf(disk.job),
         disk'.cur = disk.cur, UNCHANGED <<backups, inst>>
  PROVE  UNCHANGED Promise!vars
BY DEF Promise!vars, Phase, PhaseOf, TaskOf

\* A save of a job that is alive: the file takes up the accepted job, or
\* nothing that UpdatePromise sees changes.
LEMMA SavedAlive ==
  ASSUME TypeInv, ControlInv, DataInv, Known, Save, UNCHANGED <<backups, inst>>,
         jobs[cur].state \in Live
  PROVE  [Promise!Next]_(Promise!vars)
<1>1. disk'.cur = cur /\ disk'.job = jobs[cur]
  BY DEF Save, Memory
<1>2. cur \in Ids /\ jobs[cur] \in JobType /\ disk.job \in JobType
  BY DEF TypeInv, TypeOK, Ids, NoJob, Live
<1>3. Sound(jobs[cur], inst, backups[cur])
  BY <1>2 DEF DataInv, Copies, Ids
<1>4. PhaseOf(disk'.job) = "open"
  BY <1>1, PhaseLive
<1>5. CASE disk.cur = cur
  <2>1. disk.job.state \in Live
    BY <1>5 DEF ControlInv, FileKnown, Active
  <2>2. PhaseOf(disk.job) = "open"
    BY <2>1, PhaseLive
  <2>3. SameTask(disk.job, jobs[cur])
    BY <1>2, <1>5 DEF DataInv, Copies, Ids
  <2> QED BY <1>1, <1>4, <1>5, <2>2, <2>3, PromiseStutter DEF SameTask, TaskOf
<1>6. CASE disk.cur # cur
  <2>1. disk.job.state \notin Live
    BY <1>6 DEF ControlInv, FileKnown
  <2>2. PhaseOf(disk.job) # "open"
    BY <1>2, <2>1, PhaseNotOpen
  <2>3. jobs[cur].state = "accepted" /\ backups[cur] = NoVersion
    BY <1>2, <1>6 DEF ControlInv, Unsaved, DataInv, Copies, Ids
  <2>4. /\ inst[jobs[cur].kind] = jobs[cur].previous
        /\ jobs[cur].previous < jobs[cur].target
    BY <1>3, <2>3 DEF Sound, BeforeUpdate
  <2>5. TaskOf(jobs[cur]) \in Promise!Tasks
    BY <1>2 DEF TaskOf, JobType, Promise!Tasks
  <2>6. Phase # "open" /\ Phase' = "open"
    BY <1>4, <2>2 DEF Phase, PhaseOf
  <2>7. (disk'.cur # 0 /\ backups'[disk'.cur] # NoVersion) = FALSE
    BY <1>1, <2>3
  <2>8. [kind |-> disk'.job.kind, from |-> disk'.job.previous, to |-> disk'.job.target]
          = TaskOf(jobs[cur])
    BY <1>1 DEF TaskOf
  <2>9. Promise!Open
    BY <2>4, <2>5, <2>6, <2>7, <2>8 DEF Promise!Open, TaskOf
  <2> QED BY <2>9 DEF Promise!Next
<1> QED BY <1>5, <1>6

\* The save of the outcome closes the job with a word that fits.
LEMMA SavedEnded ==
  ASSUME TypeInv, ControlInv, DataInv, StepSaved, jobs[cur].state \in TERMINAL
  PROVE  Promise!Next
<1>1. /\ disk'.cur = cur /\ disk'.job = jobs[cur] /\ pc = "stepSaving"
      /\ UNCHANGED <<backups, inst>>
  BY DEF StepSaved, Save, Memory, supervisor
<1>2. disk.cur = cur /\ cur \in Ids /\ disk.job.state \in Live
  BY <1>1 DEF ControlInv, DriverAlone, TypeInv, TypeOK, Ids
<1>3. jobs[cur] \in JobType /\ SameTask(disk.job, jobs[cur])
      /\ Sound(jobs[cur], inst, backups[cur])
  BY <1>2 DEF DataInv, Copies, TypeInv, TypeOK, Ids
<1> DEFINE word == PhaseOf(jobs[cur])
           j == jobs[cur]
<1>4. word \in {"given_up", j.state} /\ (word = "given_up" \/ ~j.gaveUp)
  BY <1>3, PhaseEnded
<1>5. word \in Promise!Words
  BY <1>4 DEF Promise!Words, TERMINAL
<1>6. /\ j.state = "succeeded" => inst[j.kind] = j.target /\ backups[cur] # NoVersion
      /\ j.state = "rolled_back" => inst[j.kind] = j.previous
      /\ j.state = "failed" /\ ~j.gaveUp => inst[j.kind] = j.previous
  <2>1. j.state = "succeeded" => backups[cur] # NoVersion
    BY <1>3 DEF Sound, Backed
  <2>2. Truthful(j, inst)
    BY <1>3, Zenon DEF Sound
  <2> QED BY <2>1, <2>2, Zenon DEF Truthful
<1>7. /\ word = "succeeded" => inst[j.kind] = j.target /\ backups[cur] # NoVersion
      /\ word \in {"rolled_back", "failed"} => inst[j.kind] = j.previous
  BY <1>4, <1>6 DEF TERMINAL
<1>8. disk.job.kind = j.kind /\ disk.job.target = j.target /\ disk.job.previous = j.previous
  BY <1>3 DEF SameTask
<1> HIDE DEF word, j
<1>9. Promise!Fits(word)
  BY <1>2, <1>7, <1>8 DEF Promise!Fits, Ids
<1>10. Phase = "open"
  BY <1>2, PhaseLive DEF Phase, PhaseOf
<1>11. Phase' = word
  BY <1>1, Zenon DEF Phase, PhaseOf, word
<1>12. Promise!Close(word)
  BY <1>1, <1>2, <1>8, <1>9, <1>10, <1>11 DEF Promise!Close, j
<1> QED BY <1>5, <1>12 DEF Promise!Next

LEMMA PromiseNext ==
  ASSUME Calm, TypeInv, CallInv, NoteInv, ControlInv, DataInv, [Next]_vars
  PROVE  [Promise!Next]_(Promise!vars)
<1>1. CASE UNCHANGED <<disk, backups, inst>>
  BY <1>1, PromiseStutter
<1>2. CASE SetupSaved \/ HandleSaved
  <2>1. Known /\ jobs[cur].state \in Live /\ Save /\ UNCHANGED <<backups, inst>>
    BY <1>2
    DEF SetupSaved, HandleSaved, supervisor, Known, ControlInv, SetupApart, HandlerApart,
        Active, Live, TypeInv, TypeOK
  <2> QED BY <2>1, SavedAlive
<1>3. CASE SentSaved
  <2>1. pc = "sentSaving" /\ Save /\ UNCHANGED <<backups, inst>>
    BY <1>3 DEF SentSaved, supervisor
  <2>2. Known /\ jobs[cur].state \in Live
    BY <2>1, AtWork DEF Known, Ids
  <2> QED BY <2>1, <2>2, SavedAlive
<1>4. CASE StepSaved
  <2>1. pc = "stepSaving" /\ Save /\ UNCHANGED <<backups, inst>>
    BY <1>4 DEF StepSaved, supervisor
  <2>2. Known /\ jobs[cur].state \in Live \cup TERMINAL
    BY <2>1 DEF Known, ControlInv, DriverAlone, NoteInv, TypeInv, TypeOK, JobType
  <2> QED BY <1>4, <2>1, <2>2, SavedAlive, SavedEnded
<1>5. CASE BackupMade
  <2>1. /\ pc = "backup" /\ backups' = [backups EXCEPT ![drv] = inst["core"]]
        /\ UNCHANGED <<disk, inst>>
    BY <1>5 DEF BackupMade
  <2>2. drv = cur /\ cur \in Ids /\ disk.cur = cur /\ disk.job.state \in Live
    BY <2>1, AtWork
  <2>3. backups'[cur] # NoVersion
    BY <2>1, <2>2, KindsAssumption, VersionsAssumption DEF DataInv, Asking, TypeInv, TypeOK
  <2>4. Phase = "open" /\ Phase' = Phase
    BY <2>1, <2>2, PhaseLive DEF Phase, PhaseOf
  <2>5. CASE backups[cur] # NoVersion
    BY <2>1, <2>2, <2>3, <2>5, <2>4 DEF Promise!vars
  <2>6. CASE backups[cur] = NoVersion
    <3>1. Promise!Secure
      BY <2>1, <2>2, <2>3, <2>4, <2>6 DEF Promise!Secure, Ids
    <3> QED BY <3>1 DEF Promise!Next
  <2> QED BY <2>5, <2>6
<1>6. CASE Refused \/ Apply
  <2>1. /\ inst' \in {inst, [inst EXCEPT ![op.kind] = op.version]}
        /\ UNCHANGED <<disk, backups>>
        /\ inst' # inst => op # NoOp
    BY <1>6 DEF Refused, Apply, Landed, BackedOut, Stop, NoOp
  <2>2. CASE inst' = inst
    BY <2>1, <2>2, PromiseStutter
  <2>3. CASE inst' = [inst EXCEPT ![op.kind] = op.version] /\ op # NoOp
    <3>1. /\ pc \in {"await", "waiting"} /\ disk.job = jobs[cur]
          /\ jobs[cur].state \in Sending
          /\ op.kind = disk.job.kind
          /\ op.version \in {disk.job.target, disk.job.previous}
      BY <2>3 DEF DataInv, Operating, Ready
    <3>2. disk.cur = cur /\ cur # 0
      BY <3>1, AtWork DEF Ids
    <3>3. backups[disk.cur] # NoVersion
      BY <3>1, <3>2 DEF DataInv, Copies, Sound, Backed, Sending, Changed
    <3>4. Phase = "open" /\ Phase' = Phase
      BY <2>1, <3>1, PhaseLive DEF Phase, PhaseOf, Sending, Live
    <3>5. Promise!Move
      BY <2>1, <2>3, <3>1, <3>2, <3>3, <3>4 DEF Promise!Move
    <3> QED BY <3>5 DEF Promise!Next
  <2> QED BY <2>1, <2>2, <2>3
<1>7. \/ UNCHANGED <<disk, backups, inst>>
      \/ SetupSaved \/ HandleSaved \/ SentSaved \/ StepSaved \/ BackupMade
      \/ Refused \/ Apply
  BY DEF vars, Next, Setup, Handle, Drive, Supervise, Boot, SetupLoad, Reload,
         HandleStart, HandleInfo, HandleRefuse, HandleAccept,
         Started, GiveUp, Dispatch, BackupConfirmed, BackupFailed,
         NoteSent, Send, WaitRanOut, AfterRefusal, Judge, Unexpected,
         NoAnswer, Answered, Fizzle, Restart, Stop, supervisor
<1> QED BY <1>1, <1>2, <1>3, <1>4, <1>5, <1>6, <1>7

\* The job machine implements UpdatePromise: at most one job is open; nothing
\* moves before its backup exists; only the two versions it named are moved
\* between; and it closes with a word that fits what is installed.
THEOREM PromiseKept == ASSUME Calm PROVE Spec => KeepsPromise
<1>1. TypeInv /\ CallInv /\ NoteInv /\ ControlInv /\ DataInv /\ [Next]_vars
        => [Promise!Next]_(Promise!vars)
  BY PromiseNext
<1> QED BY <1>1, PromiseInit, TypeInvariant, CallInit, CallNext, NoteInvariant,
           ControlInvariant, DataInvariant, PTL DEF Spec, KeepsPromise, Promise!Spec
=============================================================================
