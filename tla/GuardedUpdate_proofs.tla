------------------------- MODULE GuardedUpdate_proofs -------------------------
(***************************************************************************)
(* What is proved of guarded updates for every value of the constants, the *)
(* three switches included: nothing is asked of the Supervisor twice,      *)
(* however many jobs, restarts, reloads and early commands there are.      *)
(***************************************************************************)
EXTENDS GuardedUpdate, TLAPS, SequenceTheorems

-----------------------------------------------------------------------------
(***************************************************************************)
(* Types. Beside TypeOK: job number 0 is no job, in memory and on disk;    *)
(* every job known was accepted; a live driver holds a job, in a process   *)
(* that has one; and it notes only a call that its step makes. Without     *)
(* these, job 0 could be driven, or a job changed under its driver.        *)
(***************************************************************************)

TypeInv ==
  /\ TypeOK
  /\ jobs[0] = NoJob
  /\ disk.cur = 0 => disk.job = NoJob
  /\ pc # "off" => drv \in Ids /\ cur # 0
  /\ cur < nextId /\ disk.cur < nextId /\ drv < nextId
  /\ pc = "note" => jobs[drv].state \in Sending

LEMMA NoJobType == NoJob \in JobType
  BY DEF NoJob, JobType, Live, TERMINAL, Sending

\* What `_step` does to a job keeps it a job.
LEMMA MovedType ==
  ASSUME NEW j \in JobType, NEW s \in Live \cup TERMINAL
  PROVE  Moved(j, s) \in JobType
  BY DEF Moved, JobType

LEMMA MovedState ==
  ASSUME NEW j \in JobType, NEW s
  PROVE  Moved(j, s).state = s
  BY DEF Moved, JobType

\* Neither does counting a resume in the state it is in.
LEMMA ResumedType ==
  ASSUME NEW j \in JobType, j.state \in Live
  PROVE  [j EXCEPT !.resumes[j.state] = @ + 1] \in JobType
<1> DEFINE r == [j.resumes EXCEPT ![j.state] = @ + 1]
<1>1. r \in [Live -> Nat]
  BY DEF JobType
<1>2. [j EXCEPT !.resumes[j.state] = @ + 1] = [j EXCEPT !.resumes = r]
  BY DEF JobType
<1> HIDE DEF r
<1>3. [j EXCEPT !.resumes = r] \in JobType
  BY <1>1 DEF JobType
<1> QED BY <1>2, <1>3

\* The history stays a list of outcomes when one is put at its head.
LEMMA RememberType ==
  ASSUME hist \in HistoryType, NEW i \in Ids, NEW s \in TERMINAL,
         HistoryCap \in Nat
  PROVE  Remember(i, s) \in HistoryType
<1> DEFINE E == [id : Ids, state : TERMINAL]
           all == <<[id |-> i, state |-> s]>> \o hist
<1>1. all \in Seq(E)
  BY DEF HistoryType
<1>2. ASSUME Len(all) > HistoryCap
      PROVE  SubSeq(all, 1, HistoryCap) \in Seq(E)
  <2> HIDE DEF all, E
  <2>1. Len(all) \in Nat
    BY <1>1
  <2>2. ASSUME NEW k \in 1..HistoryCap
        PROVE  all[k] \in E
    <3>1. k \in 1..Len(all)
      BY <1>2, <2>1
    <3> QED BY <1>1, <3>1
  <2> QED BY <2>2, SubSeqProperties
<1> QED BY <1>1, <1>2 DEF Remember, HistoryType

\* `_step` up to its save.
LEMMA StepType ==
  ASSUME TypeInv, pc # "off", NEW s \in Live \cup TERMINAL, Step(s),
         Elsewhere, UNCHANGED <<disk, supervisor, sent>>
  PROVE  TypeInv'
<1> USE DEF TypeInv, TypeOK, Step, Elsewhere, handler, supervisor, Ids
<1>1. jobs' \in [0..MaxJobs -> JobType] /\ jobs'[0] = NoJob
  BY MovedType, BoundsAssumption
<1>2. hist' \in HistoryType
  BY RememberType, LimitsAssumption DEF MovedHistory
<1>3. pc' \in Places
  BY DEF Places
<1> QED BY <1>1, <1>2, <1>3

\* Moving the driver on, with nothing else changed.
LEMMA GotoType ==
  ASSUME TypeInv, pc # "off", NEW place \in Places, Goto(place),
         Elsewhere, UNCHANGED <<disk, supervisor, sent>>,
         place = "note" => jobs[drv].state \in Sending
  PROVE  TypeInv'
BY DEF TypeInv, TypeOK, Goto, Elsewhere, handler, supervisor, memory, Ids

\* What `_save` writes is typed, and it is no job when there is none.
LEMMA SaveType ==
  ASSUME TypeInv, Save
  PROVE  /\ disk' \in [cur : 0..MaxJobs, job : JobType, hist : HistoryType]
         /\ disk'.cur = 0 => disk'.job = NoJob
         /\ disk'.cur < nextId
BY BoundsAssumption DEF TypeInv, TypeOK, Save, Memory

\* The driver is started on a job, never on none.
LEMMA SpawnType ==
  ASSUME TypeInv, Spawn
  PROVE  /\ pc' \in Places /\ drv' \in 0..MaxJobs /\ drv' < nextId
         /\ pc' # "off" => drv' \in Ids /\ cur # 0
         /\ pc' = "note" => jobs[drv'].state \in Sending
BY BoundsAssumption DEF TypeInv, TypeOK, Spawn, Active, driver, Places, Ids, NoJob, Live

-----------------------------------------------------------------------------
LEMMA TypeInit == Init => TypeInv
<1> SUFFICES ASSUME Init PROVE TypeInv
  OBVIOUS
<1>1. hist \in HistoryType /\ disk.hist \in HistoryType
  BY DEF Init, Unstarted, HistoryType
<1>2. NoRequest \in [kind : {"core", "os"}, target : Versions \cup {NoVersion},
                     previous : Versions \cup {NoVersion}]
  BY DEF NoRequest
<1>3. NoOp \in OpType
  BY BoundsAssumption DEF NoOp, OpType
<1>4. spare \in Versions \cup {NoVersion}
  BY DEF Init, Unstarted
<1> QED BY <1>1, <1>2, <1>3, <1>4, NoJobType, BoundsAssumption
        DEF Init, Unstarted, TypeInv, TypeOK, Places, Ids

\* Set-up reads the file into memory, counts a resume, spawns.
LEMMA TypeSetup == TypeInv /\ (Setup \/ Reload) => TypeInv'
<1> SUFFICES ASSUME TypeInv, Setup \/ Reload PROVE TypeInv'
  OBVIOUS
<1>1. CASE Boot
  BY <1>1 DEF TypeInv, TypeOK, Boot, memory, driver, handler, supervisor, counters
<1>2. CASE SetupLoad
  <2> DEFINE c    == IF cur = 0 THEN disk.cur ELSE cur
             read == IF cur = 0 THEN [jobs EXCEPT ![c] = disk.job] ELSE jobs
  <2>1. c \in 0..MaxJobs /\ read \in [0..MaxJobs -> JobType] /\ read[0] = NoJob
    BY BoundsAssumption DEF TypeInv, TypeOK
  <2>2. ASSUME read[c].state \in Live,
               jobs' = [read EXCEPT ![c].resumes[read[c].state] = @ + 1]
        PROVE  jobs' \in [0..MaxJobs -> JobType] /\ jobs'[0] = NoJob
    <3> HIDE DEF c, read
    <3>1. c # 0
      BY <2>1, <2>2 DEF NoJob, Live
    <3>2. [read[c] EXCEPT !.resumes[read[c].state] = @ + 1] \in JobType
      BY <2>1, <2>2, ResumedType
    <3> QED BY <2>1, <2>2, <3>1, <3>2
  <2>3. jobs' \in [0..MaxJobs -> JobType] /\ jobs'[0] = NoJob
    BY <1>2, <2>1, <2>2 DEF SetupLoad
  <2>4. cur' \in 0..MaxJobs /\ sp' \in {"up", "save"} /\ hist' \in HistoryType
    BY <1>2, <2>1 DEF SetupLoad, TypeInv, TypeOK
  <2> QED BY <1>2, <2>3, <2>4
          DEF SetupLoad, TypeInv, TypeOK, driver, handler, supervisor, counters
<1>3. CASE SetupSaved
  BY <1>3, SaveType, SpawnType
  DEF SetupSaved, TypeInv, TypeOK, memory, handler, supervisor, counters
<1>4. CASE Reload
  BY <1>4 DEF Reload, NoRequest, TypeInv, TypeOK, memory, driver, supervisor, counters
<1> QED BY <1>1, <1>2, <1>3, <1>4 DEF Setup

\* After a job is accepted: its object, the driver's, and no other.
LEMMA AcceptedJobs ==
  ASSUME TypeInv, HandleAccept
  PROVE  /\ nextId \in Ids /\ drv \in 0..MaxJobs /\ drv < nextId
         /\ NewJob \in JobType /\ NewJob.state = "accepted" /\ NewJob.method = "none"
         /\ jobs' \in [0..MaxJobs -> JobType] /\ jobs'[0] = NoJob
         /\ jobs'[nextId] = NewJob /\ jobs'[drv] = jobs[drv]
         /\ \A i \in Ids : i # nextId => jobs'[i] \in {jobs[i], NoJob}
<1>1. nextId \in Ids /\ drv \in 0..MaxJobs /\ drv < nextId
  BY BoundsAssumption DEF HandleAccept, TypeInv, TypeOK, Ids
<1>2. NewJob \in JobType /\ NewJob.state = "accepted" /\ NewJob.method = "none"
  BY DEF NewJob, NoJob, JobType, Live, Sending, TypeInv, TypeOK
<1>3. jobs' = [i \in 0..MaxJobs |->
                 IF i = nextId THEN NewJob ELSE IF i = drv THEN jobs[i] ELSE NoJob]
  BY DEF HandleAccept
<1>4. jobs \in [0..MaxJobs -> JobType] /\ jobs[0] = NoJob /\ NoJob \in JobType
  BY BoundsAssumption DEF TypeInv, TypeOK
<1> HIDE DEF NewJob
<1> QED BY <1>1, <1>2, <1>3, <1>4, BoundsAssumption DEF Ids

LEMMA TypeHandle == TypeInv /\ Handle => TypeInv'
<1> SUFFICES ASSUME TypeInv, Handle PROVE TypeInv'
  OBVIOUS
<1> USE DEF memory, driver, supervisor, counters
<1>1. ASSUME NEW kind \in Asked, NEW target \in Versions, HandleStart(kind, target)
      PROVE  TypeInv'
  BY <1>1, KindsAssumption DEF HandleStart, TypeInv, TypeOK
<1>2. CASE HandleInfo
  BY <1>2 DEF HandleInfo, TypeInv, TypeOK
<1>3. CASE HandleRefuse
  BY <1>3 DEF HandleRefuse, NoRequest, TypeInv, TypeOK
<1>4. CASE HandleAccept
  <2>1. jobs' \in [0..MaxJobs -> JobType] /\ jobs'[0] = NoJob
    BY <1>4, AcceptedJobs
  <2> QED BY <1>4, <2>1, BoundsAssumption DEF HandleAccept, TypeInv, TypeOK
<1>5. CASE HandleSaved
  BY <1>5, SaveType, SpawnType DEF HandleSaved, NoRequest, TypeInv, TypeOK
<1> QED BY <1>1, <1>2, <1>3, <1>4, <1>5 DEF Handle

LEMMA TypeDrive == TypeInv /\ Drive => TypeInv'
<1> SUFFICES ASSUME TypeInv, Drive PROVE TypeInv'
  OBVIOUS
<1> USE DEF Elsewhere, memory, handler, supervisor
<1>1. drv \in 0..MaxJobs /\ jobs[drv] \in JobType /\ jobs[0].state = "none"
  BY DEF TypeInv, TypeOK, NoJob
<1>2. CASE Started
  BY <1>2, GotoType DEF Started, Places
<1>3. CASE GiveUp
  <2> DEFINE j == [Moved(jobs[drv], GiveUpAs(jobs[drv].state)) EXCEPT !.gaveUp = TRUE]
  <2>1. drv \in Ids /\ GiveUpAs(jobs[drv].state) \in TERMINAL
    BY <1>3 DEF GiveUp, GiveUpAs, TERMINAL, TypeInv
  <2>2. j \in JobType
    <3>1. Moved(jobs[drv], GiveUpAs(jobs[drv].state)) \in JobType
      BY <1>1, <2>1, MovedType
    <3> HIDE DEF j
    <3> QED BY <3>1 DEF JobType, j
  <2>3. jobs' = [jobs EXCEPT ![drv] = j]
    BY <1>3 DEF GiveUp, TypeInv, TypeOK
  <2> HIDE DEF j
  <2>4. jobs' \in [0..MaxJobs -> JobType] /\ jobs'[0] = NoJob
    BY <2>1, <2>2, <2>3, BoundsAssumption DEF TypeInv, TypeOK, Ids
  <2>5. hist' \in HistoryType
    BY <1>3, <2>1, RememberType, LimitsAssumption
    DEF GiveUp, MovedHistory, job, TypeInv, TypeOK
  <2> QED BY <1>3, <2>1, <2>4, <2>5 DEF GiveUp, TypeInv, TypeOK, Places
<1>4. CASE Dispatch
  <2>1. ASSUME NEW place \in {"backup", "judge"}, Goto(place)
        PROVE  TypeInv'
    BY <1>4, <2>1, GotoType DEF Dispatch, Places
  <2>2. CASE job.state \in Sending /\ Goto("note")
    BY <1>4, <2>2, GotoType DEF Dispatch, Places, job
  <2>3. CASE Step("backing_up")
    BY <1>4, <2>3, StepType DEF Dispatch, Live
  <2> QED BY <1>4, <2>1, <2>2, <2>3 DEF Dispatch
<1>5. CASE StepSaved
  BY <1>5, SaveType, BoundsAssumption DEF StepSaved, TypeInv, TypeOK, Places
<1>6. CASE BackupMade
  BY <1>6 DEF BackupMade, Goto, TypeInv, TypeOK, Places
<1>7. CASE BackupConfirmed \/ BackupFailed \/ Unexpected
  BY <1>7, StepType
  DEF BackupConfirmed, BackupFailed, Unexpected, FaultOf, Live, TERMINAL
<1>8. CASE NoteSent
  <2>1. PICK m \in {"none", "core_version", "os_version", "boot_slot"} :
          jobs' = [jobs EXCEPT ![drv] = Noted(jobs[drv], m)]
    <3>1. jobs[drv] \in JobType /\ jobs[drv].method
            \in {"none", "core_version", "os_version", "boot_slot"}
      BY <1>1, <1>8 DEF NoteSent, JobType, TypeInv
    <3>2. PICK m \in IF job.state = "rolling_back" THEN RollbackMethods(job)
                                                  ELSE {job.method} :
            jobs' = [jobs EXCEPT ![drv] = Noted(jobs[drv], m)]
      BY <1>8 DEF NoteSent
    <3>3. m \in {"none", "core_version", "os_version", "boot_slot"}
      BY <3>1, <3>2 DEF RollbackMethods, job
    <3> QED BY <3>2, <3>3
  <2>2. Noted(jobs[drv], m) \in JobType
    BY <1>1, <1>8, <2>1 DEF NoteSent, Noted, JobType, job, TypeInv
  <2>3. jobs' \in [0..MaxJobs -> JobType] /\ jobs'[0] = NoJob
    BY <1>8, <2>1, <2>2, BoundsAssumption DEF NoteSent, TypeInv, TypeOK, Ids
  <2> QED BY <1>8, <2>3 DEF NoteSent, TypeInv, TypeOK, Places
<1>9. CASE SentSaved
  BY <1>9, SaveType DEF SentSaved, Goto, TypeInv, TypeOK, Places
<1>10. CASE Send
  <2>1. drv \in Ids /\ jobs[drv] \in JobType
    BY <1>1, <1>10 DEF Send, TypeInv
  <2>2. CallOf(jobs[drv]) \in Calls
    BY DEF CallOf, Calls
  <2>3. VersionOf(jobs[drv], drv) \in Versions \cup {NoVersion}
    BY <2>1 DEF VersionOf, CallOf, JobType, TypeInv, TypeOK
  <2>4. op' \in OpType
    <3>1. CASE op = NoOp
      <4>1. op' = [call |-> CallOf(jobs[drv]), kind |-> jobs[drv].kind,
                   version |-> VersionOf(jobs[drv], drv), id |-> drv,
                   back |-> jobs[drv].previous]
        BY <1>10, <3>1 DEF Send, job
      <4> QED BY <2>1, <2>2, <2>3, <4>1 DEF OpType, JobType, Ids
    <3>2. CASE op # NoOp
      BY <1>10, <3>2 DEF Send, TypeInv, TypeOK
    <3> QED BY <3>1, <3>2
  <2>5. sent' \in [Ids -> [Calls -> Nat]]
    BY <1>10, <2>1, <2>2 DEF Send, job, TypeInv, TypeOK
  <2>6. pc' \in {"await", "refused"} /\ UNCHANGED <<memory, drv>>
    BY <1>10 DEF Send, Goto
  <2> QED BY <1>10, <2>1, <2>4, <2>5, <2>6 DEF Send, TypeInv, TypeOK, Places
<1>11. CASE WaitRanOut
  BY <1>11, GotoType DEF WaitRanOut, Places
<1>12. CASE AfterRefusal
  <2>1. ASSUME NEW s \in {"failed", "restoring", "rollback_failed"}, Step(s)
        PROVE  TypeInv'
    BY <1>12, <2>1, StepType DEF AfterRefusal, Live, TERMINAL
  <2>2. CASE Goto("judge")
    BY <1>12, <2>2, GotoType DEF AfterRefusal, Places
  <2>3. CASE /\ jobs' = [jobs EXCEPT ![drv].method = "os_version"]
             /\ pc' = "sentSaving"
             /\ UNCHANGED <<cur, hist, drv>>
    <3>1. [jobs[drv] EXCEPT !.method = "os_version"] \in JobType
      BY <1>1 DEF JobType
    <3>2. jobs' \in [0..MaxJobs -> JobType] /\ jobs'[0] = NoJob
      BY <1>12, <2>3, <3>1, BoundsAssumption
      DEF AfterRefusal, TypeInv, TypeOK, Ids
    <3> QED BY <1>12, <2>3, <3>2 DEF AfterRefusal, TypeInv, TypeOK, Places
  <2> QED BY <1>12, <2>1, <2>2, <2>3 DEF AfterRefusal
<1>13. CASE Judge
  BY <1>13, StepType
  DEF Judge, VerdictOnUpdate, VerdictOnHealth, VerdictOnRollback, VerdictOnRestore,
      Live, TERMINAL
<1> QED BY <1>2, <1>3, <1>4, <1>5, <1>6, <1>7, <1>8, <1>9, <1>10, <1>11, <1>12, <1>13
        DEF Drive

\* The process stops: nothing is left in memory.
LEMMA StopType ==
  ASSUME TypeInv, Stop, UNCHANGED nextId
  PROVE  /\ sp' = "down" /\ cur' = 0 /\ hist' \in HistoryType
         /\ jobs' \in [0..MaxJobs -> JobType] /\ jobs'[0] = NoJob
         /\ pc' = "off" /\ drv' = 0 /\ hpc' = "idle" /\ req' = NoRequest
         /\ disk' = disk
BY NoJobType, BoundsAssumption DEF Stop, HistoryType

LEMMA TypeSupervise == TypeInv /\ (Supervise \/ Restart) => TypeInv'
<1> SUFFICES ASSUME TypeInv, Supervise \/ Restart PROVE TypeInv'
  OBVIOUS
<1> USE DEF Elsewhere, memory, handler, driver, supervisor, counters
<1>1. NoOp \in OpType /\ drv \in 0..MaxJobs
  BY BoundsAssumption DEF NoOp, OpType, TypeInv, TypeOK
<1>2. NoRequest \in [kind : {"core", "os"}, target : Versions \cup {NoVersion},
                     previous : Versions \cup {NoVersion}]
  BY DEF NoRequest
<1>3. op.version \in Versions \cup {NoVersion}
  BY DEF OpType, TypeInv, TypeOK
<1>4. CASE Refused
  BY <1>1, <1>3, <1>4 DEF Refused, Goto, TypeInv, TypeOK, Places
<1>5. CASE NoAnswer
  BY <1>1, <1>5 DEF NoAnswer, Goto, TypeInv, TypeOK, Places
<1>6. CASE Answered
  BY <1>6, GotoType DEF Answered, Places, TypeInv
<1>7. CASE Apply
  <2>1. inst' \in [{"core", "os"} -> Versions \cup {NoVersion}]
    BY <1>3, <1>7 DEF Apply, Landed, BackedOut, OpType, TypeInv, TypeOK
  <2>2. spare' \in Versions \cup {NoVersion}
    BY <1>3, <1>7 DEF Apply, Landed, BackedOut, TypeInv, TypeOK
  <2>3. op' \in OpType /\ Stop /\ UNCHANGED <<backups, sent, nextId, restarts>>
    BY <1>1, <1>7 DEF Apply
  <2> QED BY <1>2, <2>1, <2>2, <2>3, StopType, BoundsAssumption DEF TypeInv, TypeOK, Places
<1>8. CASE Fizzle
  BY <1>1, <1>8 DEF Fizzle, TypeInv, TypeOK
<1>9. CASE Restart
  <2>1. op' \in OpType /\ Stop /\ UNCHANGED <<inst, spare, backups, sent, nextId>>
    BY <1>1, <1>9 DEF Restart, TypeInv, TypeOK
  <2>2. restarts' \in 0..MaxRestarts
    BY <1>9, BoundsAssumption DEF Restart, TypeInv, TypeOK
  <2> QED BY <1>2, <2>1, <2>2, StopType, BoundsAssumption DEF TypeInv, TypeOK, Places
<1> QED BY <1>4, <1>5, <1>6, <1>7, <1>8, <1>9 DEF Supervise

LEMMA TypeNext == TypeInv /\ [Next]_vars => TypeInv'
<1> SUFFICES ASSUME TypeInv, [Next]_vars PROVE TypeInv'
  OBVIOUS
<1>1. CASE Next
  BY <1>1, TypeSetup, TypeHandle, TypeDrive, TypeSupervise DEF Next
<1>2. CASE UNCHANGED vars
  BY <1>2 DEF vars, TypeInv, TypeOK
<1> QED BY <1>1, <1>2

LEMMA TypeInvariant == Spec => []TypeInv
BY TypeInit, TypeNext, PTL DEF Spec

\* Every variable holds what the code can put in it.
THEOREM TypeCorrect == Spec => []TypeOK
<1>1. TypeInv => TypeOK
  BY DEF TypeInv
<1> QED BY <1>1, TypeInvariant, PTL

-----------------------------------------------------------------------------
(***************************************************************************)
(* Nothing is sent twice. `sent` counts the calls of a job over all the    *)
(* processes that drove it, and each process knows only what it read from  *)
(* disk. So the argument is about every copy of a job object, the one on   *)
(* disk and the ones in memory: a copy may be behind, never so far behind  *)
(* that it does not account for a call that was made.                      *)
(***************************************************************************)

\* Is a step of this job, in this state, still to be sent?
ToSend(j, step) == j.state = step /\ step \notin j.sentAt

BeforeUpdate   == {"accepted", "backing_up"}
BeforeRollback == BeforeUpdate \cup {"updating", "checking"}
BeforeRestore  == BeforeRollback \cup {"rolling_back"}

\* The copy j of a job accounts for every call made for that job.
Accounts(calls, j) ==
  /\ j.state \in BeforeUpdate \/ ToSend(j, "updating") => calls["update"] = 0
  /\ j.state \in BeforeRollback \/ ToSend(j, "rolling_back") =>
        calls["rollback"] = 0 /\ calls["boot_slot"] = 0
  /\ j.state = "rolling_back" /\ j.method = "boot_slot" => calls["rollback"] = 0
  /\ j.state \in BeforeRestore \/ ToSend(j, "restoring") => calls["restore"] = 0

\* A job number that has not been given out has no calls.
Fresh == \A i \in Ids : i >= nextId => \A c \in Calls : sent[i][c] = 0

\* The driver's place fits the state of the job it holds, and once it is
\* about to call, that very call was never made.
DriverFits ==
  /\ pc \in {"backup", "confirm"} => jobs[drv].state = "backing_up"
  /\ pc = "note" => ToSend(jobs[drv], jobs[drv].state)
  /\ pc \in {"sentSaving", "send", "await", "refused"} =>
        jobs[drv].state \in Sending \cap jobs[drv].sentAt
  /\ pc \in {"sentSaving", "send"} => sent[drv][CallOf(jobs[drv])] = 0

\* About to call, the copy on disk is the one the driver holds.
WrittenFirst == pc = "send" /\ disk.cur = drv => disk.job = jobs[drv]

CallInv ==
  /\ SentOnce
  /\ Fresh
  /\ \A i \in Ids : Accounts(sent[i], jobs[i])
  /\ disk.cur \in Ids => Accounts(sent[disk.cur], disk.job)
  /\ DriverFits
  /\ WrittenFirst

\* The moves that the steps make, other than to an end.
Forward ==
  {<<"accepted", "backing_up">>, <<"backing_up", "updating">>,
   <<"updating", "checking">>, <<"updating", "rolling_back">>,
   <<"checking", "rolling_back">>, <<"rolling_back", "restoring">>}

\* A job that moves forward, or ends, still accounts for its calls: the note
\* `_step` clears is that of a call not made yet.
LEMMA MovedAccounts ==
  ASSUME NEW calls, NEW j \in JobType, Accounts(calls, j), NEW s,
         s \in TERMINAL \/ <<j.state, s>> \in Forward
  PROVE  Accounts(calls, Moved(j, s))
<1>1. /\ Moved(j, s).state = s
      /\ Moved(j, s).method = j.method
  BY DEF Moved, JobType
<1>2. CASE s \in TERMINAL
  BY <1>1, <1>2
  DEF Accounts, ToSend, BeforeUpdate, BeforeRollback, BeforeRestore, TERMINAL
<1>3. CASE <<j.state, s>> \in Forward
  BY <1>1, <1>3
  DEF Accounts, ToSend, BeforeUpdate, BeforeRollback, BeforeRestore, Forward
<1> QED BY <1>2, <1>3

\* So does a job whose call was noted, when the call is made.
LEMMA CalledAccounts ==
  ASSUME NEW calls \in [Calls -> Nat], NEW j \in JobType, Accounts(calls, j),
         j.state \in Sending \cap j.sentAt
  PROVE  Accounts([calls EXCEPT ![CallOf(j)] = 1], j)
BY DEF Accounts, ToSend, BeforeUpdate, BeforeRollback, BeforeRestore, CallOf, Calls,
       Sending

\* A job that has ended accounts for anything.
LEMMA EndedAccounts ==
  ASSUME NEW calls, NEW j, j.state \in TERMINAL \cup {"none"}
  PROVE  Accounts(calls, j)
BY DEF Accounts, ToSend, BeforeUpdate, BeforeRollback, BeforeRestore, TERMINAL

LEMMA StepCalls ==
  ASSUME TypeInv, CallInv, pc # "off", NEW s, Step(s),
         s \in TERMINAL \/ <<jobs[drv].state, s>> \in Forward,
         UNCHANGED <<disk, sent, nextId>>
  PROVE  CallInv'
<1>1. drv \in Ids /\ jobs \in [0..MaxJobs -> JobType]
  BY DEF TypeInv, TypeOK
<1>2. jobs' = [jobs EXCEPT ![drv] = Moved(jobs[drv], s)] /\ pc' = "stepSaving"
  BY DEF Step
<1>3. ASSUME NEW i \in Ids
      PROVE  Accounts(sent[i], jobs[i])'
  <2>1. Accounts(sent'[i], jobs'[i])
    BY <1>1, <1>2, MovedAccounts DEF CallInv, Ids
  <2> QED BY <2>1 DEF Accounts
<1>4. (disk.cur \in Ids => Accounts(sent[disk.cur], disk.job))'
  BY DEF CallInv, Accounts
<1> QED BY <1>2, <1>3, <1>4 DEF CallInv, SentOnce, Fresh, DriverFits, WrittenFirst

\* The driver goes on, to a place that fits.
LEMMA GotoCalls ==
  ASSUME TypeInv, CallInv, NEW place, Goto(place), UNCHANGED <<disk, sent, nextId>>,
         place \notin {"confirm", "sentSaving", "send", "await"},
         place = "refused" => jobs[drv].state \in Sending \cap jobs[drv].sentAt,
         place = "backup" => jobs[drv].state = "backing_up",
         place = "note" => ToSend(jobs[drv], jobs[drv].state)
  PROVE  CallInv'
BY DEF Goto, memory, CallInv, SentOnce, Fresh, Accounts, DriverFits, WrittenFirst

\* Nothing that CallInv is about changes.
LEMMA StutterCalls ==
  ASSUME CallInv, UNCHANGED <<jobs, disk, pc, drv, sent, nextId>>
  PROVE  CallInv'
BY DEF CallInv, SentOnce, Fresh, Accounts, DriverFits, WrittenFirst

\* A save: the copy on disk becomes the one in memory.
LEMMA SaveCalls ==
  ASSUME TypeInv, CallInv, Save, UNCHANGED <<jobs, sent, nextId>>,
         pc' = "send" => pc \in {"send", "sentSaving"} /\ drv' = drv,
         pc' \in {"off", "start", "loop", "send"} \/ UNCHANGED driver
  PROVE  CallInv'
<1>1. disk'.cur = cur /\ disk'.job = jobs[cur] /\ jobs' = jobs
  BY DEF Save, Memory
<1>2. (disk.cur \in Ids => Accounts(sent[disk.cur], disk.job))'
  BY <1>1 DEF CallInv, Accounts
<1>3. (\A i \in Ids : Accounts(sent[i], jobs[i]))'
  BY DEF CallInv, Accounts
<1>4. DriverFits'
  BY DEF CallInv, DriverFits, driver, TypeInv
<1>5. WrittenFirst'
  BY <1>1 DEF CallInv, WrittenFirst, driver
<1> QED BY <1>2, <1>3, <1>4, <1>5 DEF CallInv, SentOnce, Fresh

LEMMA CallInit == Init => CallInv
BY DEF Init, Unstarted, CallInv, SentOnce, Fresh, Accounts, DriverFits, WrittenFirst, ToSend,
       BeforeUpdate, BeforeRollback, BeforeRestore, NoJob, Ids, Calls

LEMMA CallSetup == TypeInv /\ CallInv /\ (Setup \/ Reload) => CallInv'
<1> SUFFICES ASSUME TypeInv, CallInv, Setup \/ Reload PROVE CallInv'
  OBVIOUS
<1>1. CASE Boot \/ Reload
  BY <1>1, StutterCalls DEF Boot, Reload, memory, driver, counters
<1>2. CASE SetupLoad
  <2> DEFINE c    == IF cur = 0 THEN disk.cur ELSE cur
             read == IF cur = 0 THEN [jobs EXCEPT ![c] = disk.job] ELSE jobs
  <2>1. c \in 0..MaxJobs /\ read \in [0..MaxJobs -> JobType] /\ read[0] = NoJob
    BY BoundsAssumption DEF TypeInv, TypeOK
  <2>2. ASSUME NEW i \in Ids
        PROVE  Accounts(sent[i], read[i])
    BY DEF CallInv, TypeInv, TypeOK, Ids
  <2> DEFINE resumed == [read EXCEPT ![c].resumes[read[c].state] = @ + 1]
  <2>3. jobs' \in {read, resumed}
    BY <1>2 DEF SetupLoad
  <2>4. ASSUME NEW i \in Ids
        PROVE  /\ jobs'[i].state = read[i].state
               /\ jobs'[i].sentAt = read[i].sentAt
               /\ jobs'[i].method = read[i].method
    <3> HIDE DEF c, read
    <3>1. read[i] \in JobType /\ read[c] \in JobType
      BY <2>1 DEF Ids
    <3>2. resumed[i] = IF i = c THEN [read[c] EXCEPT !.resumes[read[c].state] = @ + 1]
                       ELSE read[i]
      BY <2>1 DEF Ids
    <3> HIDE DEF resumed
    <3>3. /\ resumed[i].state = read[i].state
          /\ resumed[i].sentAt = read[i].sentAt
          /\ resumed[i].method = read[i].method
      BY <3>1, <3>2 DEF JobType
    <3> QED BY <2>3, <3>3
  <2> HIDE DEF c, read, resumed
  <2>5. (\A i \in Ids : Accounts(sent[i], jobs[i]))'
    BY <1>2, <2>2, <2>4 DEF SetupLoad, Accounts, ToSend, counters
  <2>6. pc # "off" => jobs' = jobs
    BY <1>2 DEF SetupLoad, TypeInv
  <2>7. UNCHANGED <<disk, pc, drv, sent, nextId>>
    BY <1>2 DEF SetupLoad, driver, counters
  <2>8. DriverFits' /\ WrittenFirst'
    BY <2>6, <2>7 DEF CallInv, DriverFits, WrittenFirst
  <2> QED BY <2>5, <2>7, <2>8 DEF CallInv, SentOnce, Fresh, Accounts
<1>3. CASE SetupSaved
  BY <1>3, SaveCalls DEF SetupSaved, Spawn, memory, counters, driver
<1> QED BY <1>1, <1>2, <1>3 DEF Setup

LEMMA CallHandle == TypeInv /\ CallInv /\ Handle => CallInv'
<1> SUFFICES ASSUME TypeInv, CallInv, Handle PROVE CallInv'
  OBVIOUS
<1> USE DEF memory, driver, supervisor, counters
<1>1. ASSUME NEW kind \in Asked, NEW target \in Versions, HandleStart(kind, target)
      PROVE  CallInv'
  BY <1>1, StutterCalls DEF HandleStart
<1>2. CASE HandleInfo \/ HandleRefuse
  BY <1>2, StutterCalls DEF HandleInfo, HandleRefuse
<1>3. CASE HandleAccept
  <2>1. nextId \in Ids /\ nextId' = nextId + 1
    BY <1>3, AcceptedJobs DEF HandleAccept
  <2>2. UNCHANGED <<disk, pc, drv, sent>>
    BY <1>3 DEF HandleAccept
  <2>3. jobs'[nextId].state = "accepted" /\ jobs'[nextId].method = "none"
    BY <1>3, AcceptedJobs
  <2>4. Accounts(sent[nextId], jobs'[nextId])
    BY <2>1, <2>3 DEF CallInv, Fresh, Accounts, Calls, ToSend, Ids
  <2>5. ASSUME NEW i \in Ids
        PROVE  Accounts(sent[i], jobs[i])'
    <3>1. CASE i = nextId
      BY <2>2, <2>4, <3>1 DEF Accounts
    <3>2. CASE i # nextId /\ jobs'[i] = jobs[i]
      BY <2>2, <3>2 DEF CallInv, Accounts
    <3>3. CASE i # nextId /\ jobs'[i] = NoJob
      BY <2>2, <3>3 DEF CallInv, Accounts, NoJob, ToSend, BeforeUpdate, BeforeRollback,
                        BeforeRestore
    <3> QED BY <1>3, <3>1, <3>2, <3>3, AcceptedJobs
  <2>6. Fresh'
    BY <2>1, <2>2 DEF CallInv, Fresh, Ids, TypeInv, TypeOK
  <2>7. jobs'[drv] = jobs[drv]
    BY <1>3, AcceptedJobs
  <2>8. DriverFits' /\ WrittenFirst'
    BY <2>2, <2>7 DEF CallInv, DriverFits, WrittenFirst
  <2> QED BY <2>2, <2>5, <2>6, <2>8 DEF CallInv, SentOnce, Accounts
<1>4. CASE HandleSaved
  BY <1>4, SaveCalls DEF HandleSaved, Spawn
<1> QED BY <1>1, <1>2, <1>3, <1>4 DEF Handle

LEMMA CallSupervise == TypeInv /\ CallInv /\ (Supervise \/ Restart) => CallInv'
<1> SUFFICES ASSUME TypeInv, CallInv, Supervise \/ Restart PROVE CallInv'
  OBVIOUS
<1> USE DEF Elsewhere, memory, driver, supervisor, counters
<1>1. CASE Refused \/ NoAnswer \/ Answered
  BY <1>1, GotoCalls DEF Refused, NoAnswer, Answered, CallInv, DriverFits
<1>2. CASE Fizzle
  BY <1>2, StutterCalls DEF Fizzle
<1>3. CASE Apply \/ Restart
  <2>1. Stop /\ UNCHANGED <<sent, nextId>>
    BY <1>3 DEF Apply, Restart
  <2>2. (\A i \in Ids : Accounts(sent[i], jobs[i]))'
    <3>1. \A i \in Ids : jobs'[i].state = "none"
      BY <2>1 DEF Stop, NoJob, Ids
    <3> QED BY <3>1 DEF Accounts, ToSend, BeforeUpdate, BeforeRollback, BeforeRestore
  <2> QED BY <2>1, <2>2 DEF Stop, CallInv, SentOnce, Fresh, Accounts, DriverFits,
                            WrittenFirst
<1> QED BY <1>1, <1>2, <1>3 DEF Supervise

LEMMA CallDrive == TypeInv /\ CallInv /\ Drive => CallInv'
<1> SUFFICES ASSUME TypeInv, CallInv, Drive PROVE CallInv'
  OBVIOUS
<1> USE DEF Elsewhere, memory, handler, supervisor
<1>1. drv \in 0..MaxJobs /\ jobs[drv] \in JobType /\ jobs \in [0..MaxJobs -> JobType]
  BY DEF TypeInv, TypeOK
<1>2. CASE Started \/ WaitRanOut
  BY <1>2, GotoCalls DEF Started, WaitRanOut
<1>3. CASE GiveUp
  <2> DEFINE m == Moved(jobs[drv], GiveUpAs(jobs[drv].state))
             j == [m EXCEPT !.gaveUp = TRUE]
  <2>1. drv \in Ids /\ GiveUpAs(jobs[drv].state) \in TERMINAL
    BY <1>3 DEF GiveUp, GiveUpAs, TERMINAL, TypeInv
  <2>2. m \in JobType /\ m.state \in TERMINAL
    BY <1>1, <2>1, MovedType, MovedState
  <2>3. j.state \in TERMINAL
    <3> HIDE DEF m
    <3> QED BY <2>2 DEF JobType
  <2>4. jobs' = [jobs EXCEPT ![drv] = j] /\ pc' = "stepSaving"
        /\ UNCHANGED <<disk, sent, nextId>>
    BY <1>3 DEF GiveUp
  <2> HIDE DEF j
  <2>5. ASSUME NEW i \in Ids
        PROVE  Accounts(sent[i], jobs[i])'
    <3>1. Accounts(sent'[i], jobs'[i])
      BY <1>1, <2>3, <2>4, EndedAccounts DEF CallInv, Ids
    <3> QED BY <2>4, <3>1 DEF Accounts
  <2> QED BY <2>4, <2>5 DEF CallInv, SentOnce, Fresh, Accounts, DriverFits, WrittenFirst
<1>4. CASE Dispatch
  <2>1. CASE job.state = "accepted" /\ Step("backing_up")
    BY <1>4, <2>1, StepCalls DEF Dispatch, Forward, job
  <2>2. CASE job.state = "backing_up" /\ Goto("backup")
    BY <1>4, <2>2, GotoCalls DEF Dispatch, job
  <2>3. CASE Goto("judge")
    BY <1>4, <2>3, GotoCalls DEF Dispatch
  <2>4. CASE job.state \in Sending \ job.sentAt /\ Goto("note")
    BY <1>4, <2>4, GotoCalls DEF Dispatch, job, ToSend
  <2> QED BY <1>4, <2>1, <2>2, <2>3, <2>4 DEF Dispatch
<1>5. CASE StepSaved
  BY <1>5, SaveCalls DEF StepSaved, driver
<1>6. CASE BackupMade
  BY <1>6 DEF BackupMade, Goto, CallInv, SentOnce, Fresh, Accounts, DriverFits,
              WrittenFirst
<1>7. CASE BackupConfirmed
  BY <1>7, StepCalls DEF BackupConfirmed, Forward, CallInv, DriverFits
<1>8. CASE BackupFailed \/ Unexpected
  BY <1>8, StepCalls DEF BackupFailed, Unexpected, FaultOf, TERMINAL
<1>9. CASE NoteSent
  <2>1. PICK m : /\ jobs' = [jobs EXCEPT ![drv] = Noted(jobs[drv], m)]
                 /\ jobs[drv].state # "rolling_back" => m = jobs[drv].method
    BY <1>9 DEF NoteSent, job
  <2> DEFINE j == Noted(jobs[drv], m)
  <2>2. /\ j.state = jobs[drv].state
        /\ j.method = m
        /\ j.sentAt = jobs[drv].sentAt \cup {j.state}
    BY <1>1 DEF Noted, JobType
  <2>3. pc = "note" /\ pc' = "sentSaving" /\ UNCHANGED <<drv, disk, sent, nextId>>
    BY <1>9 DEF NoteSent
  <2>4. drv \in Ids /\ j.state \in Sending
    BY <2>2, <2>3 DEF TypeInv
  <2> HIDE DEF j
  <2>5. ToSend(jobs[drv], j.state) /\ Accounts(sent[drv], jobs[drv])
    BY <2>2, <2>3, <2>4 DEF CallInv, DriverFits
  <2>6. sent[drv][CallOf(j)] = 0
    BY <2>2, <2>4, <2>5 DEF Accounts, ToSend, CallOf, Sending
  <2>7. Accounts(sent[drv], j)
    BY <2>2, <2>4, <2>5
    DEF Accounts, ToSend, BeforeUpdate, BeforeRollback, BeforeRestore, Sending
  <2>8. jobs' = [jobs EXCEPT ![drv] = j]
    BY <2>1 DEF j
  <2>9. ASSUME NEW i \in Ids
        PROVE  Accounts(sent[i], jobs[i])'
    <3>1. Accounts(sent'[i], jobs'[i])
      BY <1>1, <2>3, <2>7, <2>8 DEF CallInv, Ids
    <3> QED BY <2>3, <3>1 DEF Accounts
  <2>10. jobs'[drv] = j
    BY <1>1, <2>8
  <2>11. DriverFits'
    BY <2>2, <2>3, <2>4, <2>6, <2>10 DEF DriverFits
  <2> QED BY <2>3, <2>9, <2>11 DEF CallInv, SentOnce, Fresh, Accounts, WrittenFirst
<1>10. CASE SentSaved
  BY <1>10, SaveCalls DEF SentSaved, Goto
<1>11. CASE Send
  <2> DEFINE call == CallOf(jobs[drv])
  <2>1. /\ pc = "send" /\ pc' \in {"await", "refused"}
        /\ UNCHANGED <<jobs, drv, disk, nextId>>
    BY <1>11 DEF Send, Goto
  <2>2. drv \in Ids /\ drv < nextId /\ call \in Calls
    BY <2>1 DEF TypeInv, CallOf, Calls
  <2>3. sent[drv][call] = 0 /\ jobs[drv].state \in Sending \cap jobs[drv].sentAt
    BY <2>1 DEF CallInv, DriverFits
  <2>4. sent' = [sent EXCEPT ![drv][call] = 1]
    BY <1>11, <2>2, <2>3 DEF Send, job, TypeInv, TypeOK
  <2>5. sent'[drv] = [sent[drv] EXCEPT ![call] = 1]
    BY <2>2, <2>4 DEF TypeInv, TypeOK
  <2>6. Accounts(sent'[drv], jobs[drv])
    <3>1. sent[drv] \in [Calls -> Nat] /\ Accounts(sent[drv], jobs[drv])
      BY <2>2 DEF CallInv, TypeInv, TypeOK
    <3> QED BY <1>1, <2>3, <2>5, <3>1, CalledAccounts
  <2>7. \A i \in Ids \ {drv} : sent'[i] = sent[i]
    BY <2>2, <2>4 DEF TypeInv, TypeOK
  <2>8. ASSUME NEW i \in Ids
        PROVE  Accounts(sent'[i], jobs'[i])
    BY <2>1, <2>6, <2>7 DEF CallInv
  <2>9. disk'.cur \in Ids => Accounts(sent'[disk'.cur], disk'.job)
    BY <2>1, <2>6, <2>7 DEF CallInv, WrittenFirst
  <2>10. SentOnce'
    BY <2>2, <2>4 DEF CallInv, SentOnce, TypeInv, TypeOK
  <2>11. Fresh'
    BY <2>1, <2>2, <2>7 DEF CallInv, Fresh, Ids, TypeInv, TypeOK
  <2> QED BY <2>1, <2>3, <2>8, <2>9, <2>10, <2>11 DEF CallInv, DriverFits, WrittenFirst
<1>12. CASE AfterRefusal
  <2>1. CASE /\ job.state = "rolling_back" /\ job.method = "boot_slot"
             /\ jobs' = [jobs EXCEPT ![drv].method = "os_version"]
             /\ pc' = "sentSaving"
             /\ UNCHANGED <<cur, hist, drv>>
    <3> DEFINE j == [jobs[drv] EXCEPT !.method = "os_version"]
    <3>1. /\ j.state = "rolling_back" /\ j.method = "os_version"
          /\ j.sentAt = jobs[drv].sentAt
      BY <1>1, <2>1 DEF JobType, job
    <3>2. jobs' = [jobs EXCEPT ![drv] = j]
      BY <1>1, <2>1
    <3>3. drv \in Ids /\ UNCHANGED <<drv, disk, sent, nextId>>
      BY <1>12, <2>1 DEF AfterRefusal, TypeInv
    <3> HIDE DEF j
    <3>4. Accounts(sent[drv], jobs[drv])
      BY <3>3 DEF CallInv
    <3>5. "rolling_back" \in jobs[drv].sentAt /\ sent[drv]["rollback"] = 0
      BY <1>12, <2>1, <3>4 DEF AfterRefusal, Accounts, job, CallInv, DriverFits
    <3>6. Accounts(sent[drv], j)
      BY <2>1, <3>1, <3>4
      DEF Accounts, ToSend, BeforeUpdate, BeforeRollback, BeforeRestore, job
    <3>7. ASSUME NEW i \in Ids
          PROVE  Accounts(sent'[i], jobs'[i])
      BY <1>1, <3>2, <3>3, <3>6 DEF CallInv, Ids
    <3>8. jobs'[drv] = j
      BY <1>1, <3>2
    <3>9. DriverFits'
      BY <2>1, <3>1, <3>3, <3>5, <3>8 DEF DriverFits, CallOf, Sending
    <3> QED BY <2>1, <3>3, <3>7, <3>9 DEF CallInv, SentOnce, Fresh, WrittenFirst
  <2>2. CASE Goto("judge")
    BY <1>12, <2>2, GotoCalls DEF AfterRefusal
  <2>3. CASE Step("restoring") /\ job.state = "rolling_back"
    BY <1>12, <2>3, StepCalls DEF AfterRefusal, Forward, job
  <2>4. ASSUME NEW s \in TERMINAL, Step(s)
        PROVE  CallInv'
    BY <1>12, <2>4, StepCalls DEF AfterRefusal
  <2> QED BY <1>12, <2>1, <2>2, <2>3, <2>4 DEF AfterRefusal, TERMINAL
<1>13. CASE Judge
  <2>1. PICK seen, ok :
          \/ job.state = "updating" /\ Step(VerdictOnUpdate(seen))
          \/ job.state = "checking" /\ Step(VerdictOnHealth(ok))
          \/ job.state = "rolling_back" /\ Step(VerdictOnRollback(seen, ok))
          \/ job.state = "restoring" /\ Step(VerdictOnRestore(seen, ok))
    BY <1>13 DEF Judge
  <2>2. PICK s : Step(s) /\ (s \in TERMINAL \/ <<jobs[drv].state, s>> \in Forward)
    BY <2>1 DEF job, VerdictOnUpdate, VerdictOnHealth, VerdictOnRollback,
                VerdictOnRestore, Forward, TERMINAL
  <2> QED BY <1>13, <2>2, StepCalls DEF Judge
<1> QED BY <1>2, <1>3, <1>4, <1>5, <1>6, <1>7, <1>8, <1>9, <1>10, <1>11, <1>12, <1>13
        DEF Drive

LEMMA CallNext == TypeInv /\ CallInv /\ [Next]_vars => CallInv'
<1> SUFFICES ASSUME TypeInv, CallInv, [Next]_vars PROVE CallInv'
  OBVIOUS
<1>1. CASE Next
  BY <1>1, CallSetup, CallHandle, CallDrive, CallSupervise DEF Next
<1>2. CASE UNCHANGED vars
  BY <1>2, StutterCalls DEF vars
<1> QED BY <1>1, <1>2

\* Over all the restarts of a job, each call is made at most once. The three
\* switches are free here: it holds with commands before set-up, with a slow
\* disk, and with operations that land late.
THEOREM NothingSentTwice == Spec => []SentOnce
<1>1. CallInv => SentOnce
  BY DEF CallInv
<1> QED BY <1>1, CallInit, CallNext, TypeInvariant, PTL DEF Spec
=============================================================================
