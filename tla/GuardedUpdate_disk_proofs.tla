---------------------- MODULE GuardedUpdate_disk_proofs ----------------------
(***************************************************************************)
(* More of what is proved of guarded updates. For any values of the        *)
(* switches: an operation under way is noted on disk.                      *)
(***************************************************************************)
EXTENDS GuardedUpdate_proofs

-----------------------------------------------------------------------------
(***************************************************************************)
(* The write-ahead note. SentIsOnDisk is about the copy on disk, which any *)
(* save of any copy replaces: so every copy of a job object notes the step *)
(* of every call that was made for the job. A note is cleared by `_step`   *)
(* alone, on entering a step; Accounts says its call was not made yet.     *)
(***************************************************************************)

\* The copy j notes the step of every call made.
Notes(calls, j) ==
  j.state # "none" => \A c \in Calls : calls[c] # 0 => StepOf(c) \in j.sentAt

\* The operation the Supervisor carries out is one that was sent.
OpSent == op # NoOp => op.id \in Ids /\ op.call \in Calls /\ sent[op.id][op.call] # 0

NoteInv ==
  /\ cur # 0 => jobs[cur].state # "none"
  /\ disk.cur # 0 => disk.job.state # "none"
  /\ pc # "off" => jobs[drv].state # "none"
  /\ \A i \in Ids : Notes(sent[i], jobs[i])
  /\ disk.cur \in Ids => Notes(sent[disk.cur], disk.job)
  /\ OpSent

\* A job that moves forward, or ends, still notes its calls.
LEMMA MovedNotes ==
  ASSUME NEW calls, NEW j \in JobType, Accounts(calls, j), Notes(calls, j), NEW s,
         j.state # "none",
         s \in TERMINAL \/ <<j.state, s>> \in Forward
  PROVE  Notes(calls, Moved(j, s))
<1>1. Moved(j, s).sentAt = j.sentAt \ {s} /\ j.sentAt \subseteq Sending
  BY DEF Moved, JobType
<1>2. CASE s \in TERMINAL
  BY <1>1, <1>2 DEF Notes, TERMINAL, Sending
<1>3. CASE <<j.state, s>> \in Forward
  BY <1>1, <1>3
  DEF Accounts, Notes, Forward, StepOf, Calls, BeforeUpdate, BeforeRollback, BeforeRestore
<1> QED BY <1>2, <1>3

LEMMA StepNotes ==
  ASSUME TypeInv, CallInv, NoteInv, pc # "off", NEW s, Step(s),
         s # "none",
         s \in TERMINAL \/ <<jobs[drv].state, s>> \in Forward,
         UNCHANGED <<disk, sent, op>>
  PROVE  NoteInv'
<1>1. drv \in Ids /\ jobs \in [0..MaxJobs -> JobType]
  BY DEF TypeInv, TypeOK
<1>2. jobs' = [jobs EXCEPT ![drv] = Moved(jobs[drv], s)] /\ cur' = cur /\ drv' = drv
  BY DEF Step
<1>3. Notes(sent[drv], Moved(jobs[drv], s))
  BY <1>1, MovedNotes DEF CallInv, NoteInv, Ids
<1>4. ASSUME NEW i \in Ids
      PROVE  Notes(sent'[i], jobs'[i])
  BY <1>1, <1>2, <1>3 DEF NoteInv, Ids
<1>5. /\ cur' # 0 => jobs'[cur'].state # "none"
      /\ jobs'[drv'].state # "none"
  <2>1. Moved(jobs[drv], s).state = s
    BY <1>1, MovedState DEF Ids
  <2> QED BY <1>1, <1>2, <2>1 DEF NoteInv, TypeInv, TypeOK, Ids
<1> QED BY <1>4, <1>5 DEF NoteInv, Notes, OpSent

\* Nothing changes but where the driver is, or what no copy is about.
LEMMA StutterNotes ==
  ASSUME NoteInv, UNCHANGED <<cur, jobs, disk, sent>>, op' \in {op, NoOp},
         pc' = "off" \/ (drv' = drv /\ pc # "off") \/ UNCHANGED driver
  PROVE  NoteInv'
BY DEF NoteInv, Notes, OpSent, driver

LEMMA SaveNotes ==
  ASSUME TypeInv, NoteInv, Save, UNCHANGED <<cur, jobs, sent, op>>,
         pc' = "off" \/ (drv' = drv /\ pc # "off") \/ Spawn
  PROVE  NoteInv'
<1>1. disk'.cur = cur /\ disk'.job = jobs[cur]
  BY DEF Save, Memory
<1>2. pc' # "off" => jobs'[drv'].state # "none"
  BY DEF Spawn, Active, Live, driver, NoteInv
<1> QED BY <1>1, <1>2 DEF NoteInv, Notes, OpSent

LEMMA NoteInit == Init => NoteInv
BY DEF Init, Unstarted, NoteInv, Notes, OpSent, NoJob, Ids

LEMMA NoteSetup == TypeInv /\ NoteInv /\ (Setup \/ Reload) => NoteInv'
<1> SUFFICES ASSUME TypeInv, NoteInv, Setup \/ Reload PROVE NoteInv'
  OBVIOUS
<1>1. CASE Boot \/ Reload
  BY <1>1, StutterNotes DEF Boot, Reload, memory, driver, supervisor, counters
<1>2. CASE SetupLoad
  <2> DEFINE c    == IF cur = 0 THEN disk.cur ELSE cur
             read == IF cur = 0 THEN [jobs EXCEPT ![c] = disk.job] ELSE jobs
  <2>1. c \in 0..MaxJobs /\ read \in [0..MaxJobs -> JobType] /\ read[0] = NoJob
    BY BoundsAssumption DEF TypeInv, TypeOK
  <2>2. ASSUME NEW i \in Ids
        PROVE  Notes(sent[i], read[i])
    BY DEF NoteInv, TypeInv, TypeOK, Ids
  <2>3. c # 0 => read[c].state # "none"
    BY DEF NoteInv, TypeInv, TypeOK
  <2> DEFINE resumed == [read EXCEPT ![c].resumes[read[c].state] = @ + 1]
  <2>4. jobs' \in {read, resumed} /\ cur' = c
    BY <1>2 DEF SetupLoad
  <2>5. ASSUME NEW i \in 0..MaxJobs
        PROVE  jobs'[i].state = read[i].state /\ jobs'[i].sentAt = read[i].sentAt
    <3> HIDE DEF c, read
    <3>1. read[i] \in JobType /\ read[c] \in JobType
      BY <2>1
    <3>2. resumed[i] = IF i = c THEN [read[c] EXCEPT !.resumes[read[c].state] = @ + 1]
                       ELSE read[i]
      BY <2>1
    <3> HIDE DEF resumed
    <3>3. resumed[i].state = read[i].state /\ resumed[i].sentAt = read[i].sentAt
      BY <3>1, <3>2 DEF JobType
    <3> QED BY <2>4, <3>3
  <2> HIDE DEF c, read, resumed
  <2>6. UNCHANGED <<disk, sent, op>>
    BY <1>2 DEF SetupLoad, supervisor, counters
  <2>7. \A i \in Ids : Notes(sent[i], jobs'[i])
    BY <2>2, <2>5 DEF Notes, Ids
  <2>8. cur' # 0 => jobs'[cur'].state # "none"
    BY <2>1, <2>3, <2>4, <2>5
  <2>9. pc' # "off" => jobs'[drv'].state # "none"
    <3>1. UNCHANGED driver /\ (pc # "off" => jobs' = jobs)
      BY <1>2 DEF SetupLoad, TypeInv
    <3> QED BY <3>1 DEF NoteInv, driver
  <2> QED BY <2>6, <2>7, <2>8, <2>9 DEF NoteInv, Notes, OpSent
<1>3. CASE SetupSaved
  BY <1>3, SaveNotes DEF SetupSaved, memory, supervisor, counters
<1> QED BY <1>1, <1>2, <1>3 DEF Setup

LEMMA NoteHandle == TypeInv /\ CallInv /\ NoteInv /\ Handle => NoteInv'
<1> SUFFICES ASSUME TypeInv, CallInv, NoteInv, Handle PROVE NoteInv'
  OBVIOUS
<1> USE DEF memory, driver, supervisor, counters
<1>1. ASSUME NEW kind \in Asked, NEW target \in Versions, HandleStart(kind, target)
      PROVE  NoteInv'
  BY <1>1, StutterNotes DEF HandleStart
<1>2. CASE HandleInfo \/ HandleRefuse
  BY <1>2, StutterNotes DEF HandleInfo, HandleRefuse
<1>3. CASE HandleAccept
  <2>1. nextId \in Ids /\ jobs'[nextId].state = "accepted"
    BY <1>3, AcceptedJobs
  <2>2. cur' = nextId /\ UNCHANGED <<disk, pc, drv, sent, op>>
    BY <1>3 DEF HandleAccept
  <2>3. ASSUME NEW i \in Ids
        PROVE  Notes(sent[i], jobs'[i])
    <3>1. CASE i = nextId
      BY <2>1, <3>1 DEF CallInv, Fresh, Notes, Ids
    <3>2. CASE i # nextId /\ jobs'[i] = jobs[i]
      BY <3>2 DEF NoteInv
    <3>3. CASE i # nextId /\ jobs'[i] = NoJob
      BY <3>3 DEF Notes, NoJob
    <3> QED BY <1>3, <3>1, <3>2, <3>3, AcceptedJobs
  <2>4. \A i \in Ids : Notes(sent[i], jobs'[i])
    BY <2>3
  <2>5. jobs'[cur'].state # "none"
    BY <2>1, <2>2
  <2>6. pc' # "off" => jobs'[drv'].state # "none"
    BY <1>3, <2>2, AcceptedJobs DEF NoteInv
  <2> QED BY <2>2, <2>4, <2>5, <2>6 DEF NoteInv, Notes, OpSent
<1>4. CASE HandleSaved
  BY <1>4, SaveNotes DEF HandleSaved
<1> QED BY <1>1, <1>2, <1>3, <1>4 DEF Handle

LEMMA NoteSupervise == TypeInv /\ NoteInv /\ (Supervise \/ Restart) => NoteInv'
<1> SUFFICES ASSUME TypeInv, NoteInv, Supervise \/ Restart PROVE NoteInv'
  OBVIOUS
<1> USE DEF Elsewhere, memory, driver, supervisor, counters
<1>1. CASE Refused \/ NoAnswer \/ Answered \/ Fizzle
  BY <1>1, StutterNotes DEF Refused, NoAnswer, Answered, Fizzle, Goto
<1>2. CASE Apply \/ Restart
  <2>1. Stop /\ UNCHANGED sent /\ op' \in {op, NoOp}
    BY <1>2 DEF Apply, Restart
  <2>2. \A i \in Ids : Notes(sent[i], jobs'[i])
    BY <2>1 DEF Stop, Notes, NoJob, Ids
  <2> QED BY <2>1, <2>2 DEF Stop, NoteInv, Notes, OpSent
<1> QED BY <1>1, <1>2 DEF Supervise

LEMMA NoteDrive == TypeInv /\ CallInv /\ NoteInv /\ Drive => NoteInv'
<1> SUFFICES ASSUME TypeInv, CallInv, NoteInv, Drive PROVE NoteInv'
  OBVIOUS
<1> USE DEF Elsewhere, memory, handler, supervisor
<1>1. drv \in 0..MaxJobs /\ jobs[drv] \in JobType /\ jobs \in [0..MaxJobs -> JobType]
  BY DEF TypeInv, TypeOK
<1>2. CASE Started \/ WaitRanOut
  BY <1>2, StutterNotes DEF Started, WaitRanOut, Goto
<1>3. CASE GiveUp
  <2> DEFINE m == Moved(jobs[drv], GiveUpAs(jobs[drv].state))
             j == [m EXCEPT !.gaveUp = TRUE]
  <2>1. drv \in Ids /\ GiveUpAs(jobs[drv].state) \in TERMINAL /\ jobs[drv].state # "none"
    BY <1>3 DEF GiveUp, GiveUpAs, TERMINAL, TypeInv, NoteInv
  <2>2. m \in JobType /\ m.state \in TERMINAL /\ Notes(sent[drv], m)
    BY <1>1, <2>1, MovedType, MovedState, MovedNotes DEF CallInv, NoteInv
  <2>3. j.state = m.state /\ j.sentAt = m.sentAt
    <3> HIDE DEF m
    <3> QED BY <2>2 DEF JobType
  <2> HIDE DEF m, j
  <2>4. Notes(sent[drv], j) /\ j.state # "none"
    BY <2>2, <2>3 DEF Notes, TERMINAL
  <2>5. jobs' = [jobs EXCEPT ![drv] = j] /\ UNCHANGED <<cur, drv, disk, sent, op>>
    BY <1>3 DEF GiveUp, j, m
  <2>6. ASSUME NEW i \in Ids
        PROVE  Notes(sent'[i], jobs'[i])
    BY <1>1, <2>4, <2>5 DEF NoteInv, Ids
  <2> QED BY <1>1, <2>4, <2>5, <2>6 DEF NoteInv, Notes, OpSent, TypeInv, TypeOK
<1>4. CASE Dispatch
  <2>1. CASE job.state = "accepted" /\ Step("backing_up")
    BY <1>4, <2>1, StepNotes DEF Dispatch, Forward, job
  <2>2. ASSUME NEW place, Goto(place)
        PROVE  NoteInv'
    BY <1>4, <2>2, StutterNotes DEF Dispatch, Goto
  <2> QED BY <1>4, <2>1, <2>2 DEF Dispatch
<1>5. CASE StepSaved
  BY <1>5, SaveNotes DEF StepSaved, driver
<1>6. CASE BackupMade
  BY <1>6, StutterNotes DEF BackupMade, Goto
<1>7. CASE BackupConfirmed
  BY <1>7, StepNotes DEF BackupConfirmed, Forward, CallInv, DriverFits
<1>8. CASE BackupFailed \/ Unexpected
  BY <1>8, StepNotes DEF BackupFailed, Unexpected, FaultOf, TERMINAL
<1>9. CASE NoteSent
  <2>1. PICK m : jobs' = [jobs EXCEPT ![drv] = Noted(jobs[drv], m)]
    BY <1>9 DEF NoteSent
  <2> DEFINE j == Noted(jobs[drv], m)
  <2>2. j.state = jobs[drv].state /\ jobs[drv].sentAt \subseteq j.sentAt
    BY <1>1 DEF Noted, JobType
  <2>3. pc = "note" /\ UNCHANGED <<cur, drv, disk, sent, op>>
    BY <1>9 DEF NoteSent
  <2>4. jobs' = [jobs EXCEPT ![drv] = j]
    BY <2>1
  <2> HIDE DEF j
  <2>5. drv \in Ids /\ Notes(sent[drv], j) /\ j.state # "none"
    BY <2>2, <2>3 DEF NoteInv, Notes, TypeInv
  <2>6. ASSUME NEW i \in Ids
        PROVE  Notes(sent'[i], jobs'[i])
    BY <1>1, <2>3, <2>4, <2>5 DEF NoteInv, Ids
  <2> QED BY <1>1, <2>3, <2>4, <2>5, <2>6 DEF NoteInv, Notes, OpSent, TypeInv, TypeOK
<1>10. CASE SentSaved
  BY <1>10, SaveNotes DEF SentSaved, Goto
<1>11. CASE Send
  <2> DEFINE call == CallOf(jobs[drv])
  <2>1. pc = "send" /\ drv \in Ids /\ UNCHANGED <<cur, jobs, drv, disk>>
    BY <1>11 DEF Send, Goto, TypeInv
  <2>2. /\ call \in Calls /\ StepOf(call) = jobs[drv].state
        /\ jobs[drv].state \in jobs[drv].sentAt
    BY <2>1 DEF CallInv, DriverFits, CallOf, StepOf, Calls, Sending
  <2> HIDE DEF call
  <2>3. sent' = [sent EXCEPT ![drv][call] = @ + 1]
    BY <1>11 DEF Send, job, call
  <2>4. sent' = [sent EXCEPT ![drv] = [sent[drv] EXCEPT ![call] = sent[drv][call] + 1]]
    BY <2>1, <2>2, <2>3 DEF TypeInv, TypeOK
  <2>5. sent[drv] \in [Calls -> Nat] /\ sent \in [Ids -> [Calls -> Nat]]
    BY <2>1 DEF TypeInv, TypeOK
  <2>6. \A c \in Calls : sent'[drv][c] = IF c = call THEN sent[drv][call] + 1 ELSE sent[drv][c]
    BY <2>1, <2>2, <2>4, <2>5
  <2>7. \A i \in Ids \ {drv} : sent'[i] = sent[i]
    BY <2>1, <2>4, <2>5
  <2>8. Notes(sent'[drv], jobs[drv])
    BY <2>1, <2>2, <2>6 DEF NoteInv, Notes
  <2>9. \A i \in Ids : Notes(sent'[i], jobs'[i])
    BY <2>1, <2>7, <2>8 DEF NoteInv
  <2>10. disk'.cur \in Ids => Notes(sent'[disk'.cur], disk'.job)
    BY <2>1, <2>7, <2>8 DEF NoteInv, CallInv, WrittenFirst
  <2>11. OpSent'
    <3>1. CASE op = NoOp
      <4>1. op'.id = drv /\ op'.call = call
        BY <1>11, <3>1 DEF Send, job, call
      <4>2. sent'[drv][call] # 0
        BY <2>2, <2>5, <2>6
      <4> QED BY <2>1, <2>2, <4>1, <4>2 DEF OpSent
    <3>2. CASE op # NoOp
      <4>1. op' = op
        BY <1>11, <3>2 DEF Send
      <4>2. op.id \in Ids /\ op.call \in Calls /\ sent[op.id][op.call] # 0
        BY <3>2 DEF NoteInv, OpSent
      <4>3. sent'[op.id][op.call] # 0
        BY <2>2, <2>5, <2>6, <2>7, <4>2
      <4> QED BY <4>1, <4>2, <4>3 DEF OpSent
    <3> QED BY <3>1, <3>2
  <2> QED BY <2>1, <2>9, <2>10, <2>11 DEF NoteInv
<1>12. CASE AfterRefusal
  <2>1. CASE /\ jobs' = [jobs EXCEPT ![drv].method = "os_version"]
             /\ pc' = "sentSaving"
             /\ UNCHANGED <<cur, hist, drv>>
    <3> DEFINE j == [jobs[drv] EXCEPT !.method = "os_version"]
    <3>1. j.state = jobs[drv].state /\ j.sentAt = jobs[drv].sentAt
      BY <1>1 DEF JobType
    <3>2. jobs' = [jobs EXCEPT ![drv] = j]
      BY <1>1, <2>1
    <3> HIDE DEF j
    <3>3. drv \in Ids /\ jobs[drv].state # "none" /\ UNCHANGED <<disk, sent, op>>
      BY <1>12 DEF AfterRefusal, TypeInv, NoteInv
    <3>4. ASSUME NEW i \in Ids
          PROVE  Notes(sent'[i], jobs'[i])
      BY <1>1, <3>1, <3>2, <3>3 DEF NoteInv, Notes, Ids
    <3> QED BY <1>1, <2>1, <3>1, <3>2, <3>3, <3>4
            DEF NoteInv, Notes, OpSent, TypeInv, TypeOK
  <2>2. CASE Goto("judge")
    BY <1>12, <2>2, StutterNotes DEF AfterRefusal, Goto
  <2>3. CASE Step("restoring") /\ job.state = "rolling_back"
    BY <1>12, <2>3, StepNotes DEF AfterRefusal, Forward, job
  <2>4. ASSUME NEW s \in TERMINAL, Step(s)
        PROVE  NoteInv'
    BY <1>12, <2>4, StepNotes DEF AfterRefusal, TERMINAL
  <2> QED BY <1>12, <2>1, <2>2, <2>3, <2>4 DEF AfterRefusal, TERMINAL
<1>13. CASE Judge
  <2>1. PICK seen, ok :
          \/ job.state = "updating" /\ Step(VerdictOnUpdate(seen))
          \/ job.state = "checking" /\ Step(VerdictOnHealth(ok))
          \/ job.state = "rolling_back" /\ Step(VerdictOnRollback(seen, ok))
          \/ job.state = "restoring" /\ Step(VerdictOnRestore(seen, ok))
    BY <1>13 DEF Judge
  <2>2. PICK s : /\ Step(s) /\ s # "none"
                 /\ s \in TERMINAL \/ <<jobs[drv].state, s>> \in Forward
    BY <2>1 DEF job, VerdictOnUpdate, VerdictOnHealth, VerdictOnRollback,
                VerdictOnRestore, Forward, TERMINAL
  <2> QED BY <1>13, <2>2, StepNotes DEF Judge
<1> QED BY <1>2, <1>3, <1>4, <1>5, <1>6, <1>7, <1>8, <1>9, <1>10, <1>11, <1>12, <1>13
        DEF Drive

LEMMA NoteNext == TypeInv /\ CallInv /\ NoteInv /\ [Next]_vars => NoteInv'
<1> SUFFICES ASSUME TypeInv, CallInv, NoteInv, [Next]_vars PROVE NoteInv'
  OBVIOUS
<1>1. CASE Next
  BY <1>1, NoteSetup, NoteHandle, NoteDrive, NoteSupervise DEF Next
<1>2. CASE UNCHANGED vars
  BY <1>2, StutterNotes DEF vars, driver
<1> QED BY <1>1, <1>2

LEMMA NoteInvariant == Spec => []NoteInv
BY CallInit, CallNext, NoteInit, NoteNext, TypeInvariant, PTL DEF Spec

\* Write-ahead: an operation the Supervisor is carrying out for the job on
\* disk is noted there as sent, whatever wrote the file last.
THEOREM NotedBeforeSent == Spec => []SentIsOnDisk
<1>1. TypeInv /\ NoteInv => SentIsOnDisk
  BY DEF TypeInv, NoteInv, Notes, OpSent, SentIsOnDisk, Ids
<1> QED BY <1>1, NoteInvariant, TypeInvariant, PTL
=============================================================================
