---------------------------- MODULE GuardedUpdate ----------------------------
(***************************************************************************)
(* Guarded Home Assistant updates (ha_update.py): one job at a time takes  *)
(* a backup, installs an exact version of Core or of the OS, checks the    *)
(* home and rolls it back when it is unhealthy. The update restarts the    *)
(* process that runs it, so the job lives on disk and is resumed by the    *)
(* entry's set-up. Three activities interleave at every `await`:           *)
(*                                                                         *)
(*   - the set-up of the config entry (sp): load, count the resume, spawn; *)
(*   - the command handler (hpc): busy check, questions, accept, reply;    *)
(*   - the driver task (pc, drv): the steps of the job.                    *)
(*                                                                         *)
(* Around them is the Supervisor (inst, spare, op, backups), which         *)
(* installs versions and stops this process, and a process that may be     *)
(* stopped at any moment. Memory (cur, jobs, hist) is lost when it stops;  *)
(* disk is not.                                                            *)
(***************************************************************************)
EXTENDS Integers, Sequences

CONSTANTS
  Kinds,          \* what this install may update: {"core"} when Supervised
  Asked,          \* bound: the kinds the manager asks for
  Versions,       \* versions that can be installed, as numbers
  NoVersion,      \* a version that could not be read, or no version at all
  MaxJobs,        \* bound: jobs accepted in one behaviour
  MaxRestarts,    \* bound: stops of the process that no update asked for
  MaxResumes,     \* MAX_RESUMES
  HistoryCap,     \* HISTORY
  EarlyCommands,  \* may a command arrive before set-up has read the disk?
  SlowDisk,       \* may one write outlast the questions `handle` asks?
  LateLanding     \* may an operation land after its caller stopped waiting?

ASSUME KindsAssumption    == Kinds \in {{"core"}, {"core", "os"}} /\ Asked \subseteq Kinds
ASSUME VersionsAssumption == Versions \subseteq Int /\ NoVersion \notin Versions
ASSUME BoundsAssumption   == MaxJobs \in Nat /\ MaxRestarts \in Nat
ASSUME LimitsAssumption   == MaxResumes \in Nat /\ HistoryCap \in Nat
ASSUME SwitchesAssumption == /\ EarlyCommands \in BOOLEAN
                             /\ SlowDisk \in BOOLEAN
                             /\ LateLanding \in BOOLEAN

Live == {"accepted", "backing_up", "updating", "checking", "rolling_back",
         "restoring"}
TERMINAL == {"succeeded", "failed", "rolled_back", "rollback_failed"}

\* The steps that begin with a call to the Supervisor, each noted on disk as
\* sent (update_sent_at, rollback_sent_at, restore_sent_at) before it is made.
Sending == {"updating", "rolling_back", "restoring"}

\* The states in which `_drive` assumes the home has been changed.
Changed == {"updating", "checking", "rolling_back", "restoring"}

Ids == 1..MaxJobs

NoJob == [kind |-> "core", target |-> NoVersion, previous |-> NoVersion,
          state |-> "none", slug |-> FALSE, sentAt |-> {}, method |-> "none",
          resumes |-> [s \in Live |-> 0], gaveUp |-> FALSE]

NoOp == [call |-> "none", kind |-> "core", version |-> NoVersion, id |-> 0,
         back |-> NoVersion]

NoRequest == [kind |-> "core", target |-> NoVersion, previous |-> NoVersion]

VARIABLES
  sp,        \* set-up of the entry: "down", "load", "save" or "up"
  cur,       \* the job in hass.data (0: none)
  jobs,      \* the job objects this process holds
  hist,      \* history in hass.data, newest first
  disk,      \* the Store's file
  pc,        \* where the driver task is ("off": no live task)
  drv,       \* the job object the driver task holds
  hpc,       \* where the command handler is
  req,       \* what the handler was asked, and the version it read
  inst,      \* the version running, per kind
  spare,     \* the version in the OS slot that is not booted
  op,        \* the operation the Supervisor is carrying out
  backups,   \* the Core version in the backup made for each job
  sent,      \* observation: calls made for each job, over all restarts
  nextId,    \* the next job id
  restarts   \* stops that no update asked for, so far

memory     == <<cur, jobs, hist>>
handler    == <<hpc, req>>
driver     == <<pc, drv>>
supervisor == <<inst, spare, op, backups>>
counters   == <<sent, nextId, restarts>>
vars == <<sp, cur, jobs, hist, disk, pc, drv, hpc, req, inst, spare, op,
          backups, sent, nextId, restarts>>

-----------------------------------------------------------------------------
(***************************************************************************)
(* The job in memory and on disk.                                          *)
(***************************************************************************)

\* active_job: the job in memory, when it has not ended.
Active == jobs[cur].state \in Live

\* What `_save` writes.
Memory == [cur |-> cur, job |-> jobs[cur], hist |-> hist]

Save == disk' = Memory

\* Variant: the newest is put last.
RememberLast(id, state) ==
  LET all == hist \o <<[id |-> id, state |-> state]>>
  IN  IF Len(all) > HistoryCap THEN SubSeq(all, 1, HistoryCap) ELSE all

\* history.insert(0, ...) and del history[HISTORY:].
Remember(id, state) ==
  LET all == <<[id |-> id, state |-> state]>> \o hist
  IN  IF Len(all) > HistoryCap THEN SubSeq(all, 1, HistoryCap) ELSE all

\* The fields `_step` sets: entering a sending step clears its "sent" note,
\* and `updating` is entered with the slug of the confirmed backup.
Moved(job, state) ==
  [job EXCEPT !.state  = state,
              !.sentAt = @ \ {state},
              !.slug   = @ \/ state = "updating"]

\* Variant: every step is remembered, ended or not.
MovedHistoryAlways(state) == Remember(drv, state)

MovedHistory(state) ==
  IF state \in TERMINAL THEN Remember(drv, state) ELSE hist

\* `_step` up to its `await _save`: memory changes now, disk at StepSaved.
Step(state) ==
  /\ jobs' = [jobs EXCEPT ![drv] = Moved(@, state)]
  /\ hist' = MovedHistory(state)
  /\ pc' = "stepSaving"
  /\ UNCHANGED <<cur, drv>>

\* _spawn: one driver task at most. The task takes the active job at its start.
Spawn ==
  IF pc = "off" /\ Active
  THEN pc' = "start" /\ drv' = cur
  ELSE UNCHANGED driver

-----------------------------------------------------------------------------
(***************************************************************************)
(* Set-up of the entry, after a start of the process or a reload.          *)
(***************************************************************************)

Boot ==
  /\ sp = "down"
  /\ sp' = "load"
  /\ UNCHANGED <<memory, disk, driver, handler, supervisor, counters>>

\* ha_update.async_setup up to its save: read the store, keep what memory
\* already has, and count the resume of a job no live task is driving.
SetupLoad ==
  /\ sp = "load"
  /\ LET c    == IF cur = 0 THEN disk.cur ELSE cur
         read == IF cur = 0 THEN [jobs EXCEPT ![c] = disk.job] ELSE jobs
     IN  /\ cur' = c
         /\ hist' = IF cur = 0 THEN disk.hist ELSE hist
         /\ IF read[c].state \in Live /\ pc = "off"
            THEN /\ jobs' = [read EXCEPT ![c].resumes[read[c].state] = @ + 1]
                 /\ sp' = "save"
            ELSE /\ jobs' = read
                 /\ sp' = "up"
  /\ UNCHANGED <<disk, driver, handler, supervisor, counters>>

\* Variant: the resume is counted and saved, and nobody is set to work.
SetupSavedIdle ==
  /\ sp = "save"
  /\ Save
  /\ sp' = "up"
  /\ UNCHANGED <<memory, driver, handler, supervisor, counters>>

SetupSaved ==
  /\ sp = "save"
  /\ Save
  /\ Spawn
  /\ sp' = "up"
  /\ UNCHANGED <<memory, handler, supervisor, counters>>

\* The entry is reloaded (options, re-pairing): the link stops, which cancels
\* the command it is handling, and set-up runs again in the same process. The
\* driver task is not the entry's and goes on.
Reload ==
  /\ sp = "up"
  /\ sp' = "load"
  /\ hpc' = "idle"
  /\ req' = NoRequest
  /\ UNCHANGED <<memory, disk, driver, supervisor, counters>>

-----------------------------------------------------------------------------
(***************************************************************************)
(* The command handler: ha_core_update and ha_os_update. The link runs one *)
(* command at a time. It is started before the job is read from disk       *)
(* (__init__.py), so a command may come first.                             *)
(***************************************************************************)

Connected == sp \in {"save", "up"} \/ (EarlyCommands /\ sp = "load")

\* Variant: no busy check.
HandleStartAnyway(kind, target) ==
  /\ Connected
  /\ hpc = "idle"
  /\ hpc' = "asking"
  /\ req' = [kind |-> kind, target |-> target, previous |-> NoVersion]
  /\ UNCHANGED <<sp, memory, disk, driver, supervisor, counters>>

HandleStart(kind, target) ==
  /\ Connected
  /\ hpc = "idle"
  /\ ~Active                      \* else: refused as busy
  /\ hpc' = "asking"
  /\ req' = [kind |-> kind, target |-> target, previous |-> NoVersion]
  /\ UNCHANGED <<sp, memory, disk, driver, supervisor, counters>>

\* install_info answered: an upgrade from what is installed, or a refusal.
HandleInfo ==
  /\ hpc = "asking"
  /\ inst[req.kind] < req.target
  /\ hpc' = "checking"
  /\ req' = [req EXCEPT !.previous = inst[req.kind]]
  /\ UNCHANGED <<sp, memory, disk, driver, supervisor, counters>>

\* No upgrade, not offered, no answer, or the configuration does not pass.
HandleRefuse ==
  /\ hpc \in {"asking", "checking"}
  /\ hpc' = "idle"
  /\ req' = NoRequest
  /\ UNCHANGED <<sp, memory, disk, driver, supervisor, counters>>

\* The job `_job` makes of what was asked.
NewJob == [NoJob EXCEPT !.kind = req.kind, !.target = req.target,
                        !.previous = req.previous, !.state = "accepted"]

\* The configuration passed and the baseline is taken: the job is in memory.
\* Of the others, only the one a driver still holds is an object any more.
HandleAccept ==
  /\ hpc = "checking"
  /\ nextId <= MaxJobs
  /\ SlowDisk \/ pc # "stepSaving"
  /\ jobs' = [i \in 0..MaxJobs |->
                IF i = nextId THEN NewJob ELSE IF i = drv THEN jobs[i] ELSE NoJob]
  /\ cur' = nextId
  /\ nextId' = nextId + 1
  /\ hpc' = "saving"
  /\ UNCHANGED <<sp, hist, disk, driver, req, supervisor, sent, restarts>>

\* Writes of one Store queue behind each other. The accepted job is on disk
\* before it is driven and before the manager is answered.
HandleSaved ==
  /\ hpc = "saving"
  /\ pc \notin {"stepSaving", "sentSaving"}
  /\ Save
  /\ Spawn
  /\ hpc' = "idle"
  /\ req' = NoRequest
  /\ UNCHANGED <<sp, memory, supervisor, counters>>

-----------------------------------------------------------------------------
(***************************************************************************)
(* The driver task: `_drive` and the six steps. `job` is the object it     *)
(* holds, which is not always the one in hass.data.                        *)
(***************************************************************************)

job == jobs[drv]

\* Continue elsewhere, with nothing but the driver's place changed.
Goto(place) == pc' = place /\ UNCHANGED <<memory, drv>>

\* What a step leaves alone.
Elsewhere == UNCHANGED <<sp, handler, nextId, restarts>>

\* A version asked of the Supervisor: the one running, or no answer.
Readings(kind) == {inst[kind], NoVersion}

\* _wait_started: Home Assistant has started, or the wait for it ran out.
Started ==
  /\ pc = "start"
  /\ Goto("loop")
  /\ Elsewhere /\ UNCHANGED <<disk, supervisor, sent>>

\* Resumed too often in one step: the job is ended.
GiveUpAs(state) ==
  IF state \in {"checking", "rolling_back", "restoring"}
  THEN "rollback_failed" ELSE "failed"

Looping == job.resumes[job.state] > MaxResumes

GiveUp ==
  /\ pc = "loop"
  /\ Looping
  /\ jobs' = [jobs EXCEPT ![drv] = [Moved(@, GiveUpAs(@.state)) EXCEPT !.gaveUp = TRUE]]
  /\ hist' = MovedHistory(GiveUpAs(job.state))
  /\ pc' = "stepSaving"
  /\ UNCHANGED <<cur, drv>>
  /\ Elsewhere /\ UNCHANGED <<disk, supervisor, sent>>

\* Variant: a resumed step sends again.
DispatchResending ==
  /\ pc = "loop"
  /\ ~Looping
  /\ \/ job.state = "accepted" /\ Step("backing_up")
     \/ job.state = "backing_up" /\ Goto("backup")
     \/ job.state = "checking" /\ Goto("judge")
     \/ job.state \in Sending /\ Goto("note")
  /\ Elsewhere /\ UNCHANGED <<disk, supervisor, sent>>

\* The top of the loop: _accepted moves on at once, a step that sends goes to
\* its note or, when the note is there already, straight to its verdict.
Dispatch ==
  /\ pc = "loop"
  /\ ~Looping
  /\ \/ job.state = "accepted" /\ Step("backing_up")
     \/ job.state = "backing_up" /\ Goto("backup")
     \/ job.state = "checking" /\ Goto("judge")
     \/ job.state \in job.sentAt /\ Goto("judge")
     \/ job.state \in Sending \ job.sentAt /\ Goto("note")
  /\ Elsewhere /\ UNCHANGED <<disk, supervisor, sent>>

\* `_step`'s save is done; a job that has ended ends its task.
StepSaved ==
  /\ pc = "stepSaving"
  /\ Save
  /\ IF job.state \in TERMINAL
     THEN pc' = "off" /\ drv' = 0
     ELSE pc' = "loop" /\ UNCHANGED drv
  /\ Elsewhere /\ UNCHANGED <<memory, supervisor, sent>>

-----------------------------------------------------------------------------
\* _backing_up: the Supervisor makes a full backup ...
BackupMade ==
  /\ pc = "backup"
  /\ backups' = [backups EXCEPT ![drv] = inst["core"]]
  /\ Goto("confirm")
  /\ Elsewhere /\ UNCHANGED <<disk, inst, spare, op, sent>>

\* ... which is looked up before anything is changed.
BackupConfirmed ==
  /\ pc = "confirm"
  /\ Step("updating")
  /\ Elsewhere /\ UNCHANGED <<disk, supervisor, sent>>

\* Variant: a backup that failed does not stop the update.
BackupFailedIgnored ==
  /\ pc \in {"backup", "confirm"}
  /\ Step("updating")
  /\ Elsewhere /\ UNCHANGED <<disk, supervisor, sent>>

BackupFailed ==
  /\ pc \in {"backup", "confirm"}
  /\ Step("failed")
  /\ Elsewhere /\ UNCHANGED <<disk, supervisor, sent>>

\* Variant: the other slot whatever it holds.
RollbackMethodsAnySlot(j) ==
  IF j.kind = "core" THEN {"core_version"} ELSE {"os_version", "boot_slot"}

\* _rollback_method: the other slot when it holds the version to go back to.
RollbackMethods(j) ==
  IF j.kind = "core" THEN {"core_version"}
  ELSE {"os_version"} \cup (IF spare = j.previous THEN {"boot_slot"} ELSE {})

\* The call is noted as sent, in memory; SentSaved puts the note on disk.
Noted(j, method) ==
  [j EXCEPT !.sentAt = @ \cup {j.state}, !.method = method]

NoteSent ==
  /\ pc = "note"
  /\ \E m \in IF job.state = "rolling_back" THEN RollbackMethods(job)
                                            ELSE {job.method} :
       jobs' = [jobs EXCEPT ![drv] = Noted(@, m)]
  /\ pc' = "sentSaving"
  /\ UNCHANGED <<cur, hist, drv>>
  /\ Elsewhere /\ UNCHANGED <<disk, supervisor, sent>>

\* Variant: the note stays in memory.
SentUnsaved ==
  /\ pc = "sentSaving"
  /\ Goto("send")
  /\ Elsewhere /\ UNCHANGED <<disk, supervisor, sent>>

SentSaved ==
  /\ pc = "sentSaving"
  /\ Save
  /\ Goto("send")
  /\ Elsewhere /\ UNCHANGED <<supervisor, sent>>

CallOf(j) ==
  CASE j.state = "updating"  -> "update"
    [] j.state = "restoring" -> "restore"
    [] OTHER -> IF j.method = "boot_slot" THEN "boot_slot" ELSE "rollback"

Calls == {"update", "rollback", "boot_slot", "restore"}

StepOf(call) ==
  CASE call = "update"  -> "updating"
    [] call = "restore" -> "restoring"
    [] OTHER            -> "rolling_back"

VersionOf(j, id) ==
  CASE CallOf(j) = "update"    -> j.target
    [] CallOf(j) = "rollback"  -> j.previous
    [] CallOf(j) = "boot_slot" -> spare
    [] CallOf(j) = "restore"   -> backups[id]

\* The call reaches the Supervisor, which carries out one at a time.
Send ==
  /\ pc = "send"
  /\ sent' = [sent EXCEPT ![drv][CallOf(job)] = @ + 1]
  /\ IF op = NoOp
     THEN /\ op' = [call |-> CallOf(job), kind |-> job.kind,
                    version |-> VersionOf(job, drv), id |-> drv,
                    back |-> job.previous]
          /\ Goto("await")
     ELSE UNCHANGED op /\ Goto("refused")
  /\ Elsewhere /\ UNCHANGED <<disk, inst, spare, backups>>

\* The answer was an error: nothing changed, or it moved and said so anyway.
Refused ==
  /\ pc = "await"
  /\ op' = NoOp
  /\ \/ UNCHANGED <<inst, spare>>
     \/ /\ op.call = "update" /\ op.kind = "core"
        /\ inst' = [inst EXCEPT !["core"] = op.version]
        /\ UNCHANGED spare
  /\ Goto("refused")
  /\ Elsewhere /\ UNCHANGED <<disk, backups, sent>>

\* TRANSPORT_ERRORS: no answer. The operation died too, or it goes on.
NoAnswer ==
  /\ pc = "await"
  /\ op' \in {NoOp} \cup (IF LateLanding THEN {op} ELSE {})
  /\ Goto("judge")
  /\ Elsewhere /\ UNCHANGED <<disk, inst, spare, backups, sent>>

\* Accepted: _wait_to_be_stopped.
Answered ==
  /\ pc = "await"
  /\ Goto("waiting")
  /\ Elsewhere /\ UNCHANGED <<disk, supervisor, sent>>

\* Still here after RESTART_EXPECTED_WITHIN_S.
WaitRanOut ==
  /\ pc = "waiting"
  /\ op = NoOp \/ LateLanding
  /\ Goto("judge")
  /\ Elsewhere /\ UNCHANGED <<disk, supervisor, sent>>

-----------------------------------------------------------------------------
\* What each step does with a SupervisorError from its call.
CanRestore(j) == j.kind = "core" /\ j.slug

\* Variant: a refused update is taken at its word, without asking what runs.
AfterRefusalTrusting ==
  /\ pc = "refused"
  /\ \/ job.state = "updating" /\ Step("failed")
     \/ /\ job.state = "rolling_back"
        /\ Step(IF CanRestore(job) THEN "restoring" ELSE "rollback_failed")
     \/ job.state = "restoring" /\ Step("rollback_failed")
  /\ Elsewhere /\ UNCHANGED <<disk, supervisor, sent>>

AfterRefusal ==
  /\ pc = "refused"
  /\ \/ /\ job.state = "updating"
        /\ \E seen \in Readings(job.kind) :
             IF seen = job.previous THEN Step("failed") ELSE Goto("judge")
     \/ /\ job.state = "rolling_back" /\ job.method = "boot_slot"
        /\ jobs' = [jobs EXCEPT ![drv].method = "os_version"]
        /\ pc' = "sentSaving"
        /\ UNCHANGED <<cur, hist, drv>>
     \/ /\ job.state = "rolling_back" /\ job.method # "boot_slot"
        /\ Step(IF CanRestore(job) THEN "restoring" ELSE "rollback_failed")
     \/ job.state = "restoring" /\ Step("rollback_failed")
  /\ Elsewhere /\ UNCHANGED <<disk, supervisor, sent>>

\* Variant: anything but the target means it did not take.
VerdictOnUpdateHasty(seen) ==
  IF seen = job.target THEN "checking" ELSE "rolled_back"

\* After the update: what is installed decides.
VerdictOnUpdate(seen) ==
  IF seen = job.target THEN "checking"
  ELSE IF seen = job.previous THEN "rolled_back"
  ELSE "rolling_back"

\* check_health reads the version itself: healthy needs the expected one.
Healthy(seen, expected) == IF seen = expected THEN BOOLEAN ELSE {FALSE}

VerdictOnHealth(healthy) ==
  IF healthy THEN "succeeded" ELSE "rolling_back"

VerdictOnRollback(seen, healthy) ==
  IF seen = job.previous /\ healthy THEN "rolled_back"
  ELSE IF CanRestore(job) /\ "restoring" \notin job.sentAt THEN "restoring"
  ELSE "rollback_failed"

VerdictOnRestore(seen, healthy) ==
  IF seen = job.previous /\ healthy THEN "rolled_back" ELSE "rollback_failed"

Judge ==
  /\ pc = "judge"
  /\ \E seen \in Readings(job.kind), again \in Readings(job.kind) :
       \/ job.state = "updating" /\ Step(VerdictOnUpdate(seen))
       \/ /\ job.state = "checking"
          /\ \E ok \in Healthy(again, job.target) : Step(VerdictOnHealth(ok))
       \/ /\ job.state = "rolling_back"
          /\ \E ok \in Healthy(again, job.previous) : Step(VerdictOnRollback(seen, ok))
       \/ /\ job.state = "restoring"
          /\ \E ok \in Healthy(again, job.previous) : Step(VerdictOnRestore(seen, ok))
  /\ Elsewhere /\ UNCHANGED <<disk, supervisor, sent>>

\* An exception no step expects ends the job (`_drive`).
FaultOf(state) == IF state \in Changed THEN "rollback_failed" ELSE "failed"

Unexpected ==
  /\ pc \in {"backup", "confirm", "judge"}
  /\ Step(FaultOf(job.state))
  /\ Elsewhere /\ UNCHANGED <<disk, supervisor, sent>>

-----------------------------------------------------------------------------
(***************************************************************************)
(* The Supervisor and the process. External to the repository: what        *)
(* ha_update.py and its tests rely on.                                     *)
(***************************************************************************)

\* The process stops: memory and tasks are gone, disk is not.
Stop ==
  /\ sp' = "down"
  /\ cur' = 0
  /\ jobs' = [i \in 0..MaxJobs |-> NoJob]
  /\ hist' = <<>>
  /\ pc' = "off"
  /\ drv' = 0
  /\ hpc' = "idle"
  /\ req' = NoRequest
  /\ UNCHANGED disk

\* The version an operation installs is running, and the process was stopped.
Landed ==
  /\ inst' = [inst EXCEPT ![op.kind] = op.version]
  /\ spare' = IF op.kind = "os" THEN inst["os"] ELSE spare

\* Core that will not start is put back; a slot that will not boot is left.
BackedOut ==
  /\ UNCHANGED inst
  /\ spare' = IF op.kind = "os" THEN op.version ELSE spare

Apply ==
  /\ op # NoOp
  /\ op' = NoOp
  /\ Landed \/ BackedOut
  /\ Stop
  /\ UNCHANGED <<backups, counters>>

\* An operation nobody waits for an answer to comes to nothing.
Fizzle ==
  /\ op # NoOp
  /\ pc # "await"
  /\ op' = NoOp
  /\ UNCHANGED <<sp, memory, disk, driver, handler, inst, spare, backups, counters>>

\* A restart from the interface, a power cut, a crash.
Restart ==
  /\ sp # "down"
  /\ restarts < MaxRestarts
  /\ restarts' = restarts + 1
  /\ op' \in {NoOp} \cup (IF LateLanding THEN {op} ELSE {})
  /\ Stop
  /\ UNCHANGED <<inst, spare, backups, sent, nextId>>

-----------------------------------------------------------------------------
\* A home whose process has not started, whatever is in the Store's file. A
\* kind nobody asks for is at one version (a bound: only the others matter).
Unstarted ==
  /\ sp = "down"
  /\ cur = 0
  /\ jobs = [i \in 0..MaxJobs |-> NoJob]
  /\ hist = <<>>
  /\ pc = "off"
  /\ drv = 0
  /\ hpc = "idle"
  /\ req = NoRequest
  /\ inst \in [{"core", "os"} -> Versions \cup {NoVersion}]
  /\ \A kind \in {"core", "os"} : inst[kind] = NoVersion <=> kind \notin Kinds
  /\ \A kind \in Kinds \ Asked : inst[kind] = CHOOSE v \in Versions : TRUE
  /\ spare \in IF "os" \in Kinds THEN Versions ELSE {NoVersion}
  /\ op = NoOp
  /\ backups = [i \in Ids |-> NoVersion]
  /\ sent = [i \in Ids |-> [c \in Calls |-> 0]]
  /\ restarts = 0

Init ==
  /\ Unstarted
  /\ disk = [cur |-> 0, job |-> NoJob, hist |-> <<>>]
  /\ nextId = 1

Setup == Boot \/ SetupLoad \/ SetupSaved

Handle ==
  \/ \E kind \in Asked, target \in Versions : HandleStart(kind, target)
  \/ HandleInfo \/ HandleRefuse \/ HandleAccept \/ HandleSaved

Drive ==
  \/ Started \/ GiveUp \/ Dispatch \/ StepSaved
  \/ BackupMade \/ BackupConfirmed \/ BackupFailed
  \/ NoteSent \/ SentSaved \/ Send
  \/ WaitRanOut \/ AfterRefusal \/ Judge \/ Unexpected

Supervise == Refused \/ NoAnswer \/ Answered \/ Apply \/ Fizzle

Next == Setup \/ Reload \/ Handle \/ Drive \/ Supervise \/ Restart

Spec == Init /\ [][Next]_vars

\* The event loop runs every ready task; a call to the Supervisor and the
\* wait after it end, because both carry a timeout; a home that stopped is
\* started again. Nobody has to send a command, restart or reload.
Fairness ==
  /\ WF_vars(Setup)
  /\ WF_vars(HandleSaved)
  /\ WF_vars(Drive)
  /\ WF_vars(Supervise)

FairSpec == Spec /\ Fairness
-----------------------------------------------------------------------------
(***************************************************************************)
(* Properties.                                                             *)
(***************************************************************************)

JobType ==
  [kind : {"core", "os"}, target : Versions \cup {NoVersion},
   previous : Versions \cup {NoVersion}, state : Live \cup TERMINAL \cup {"none"},
   slug : BOOLEAN, sentAt : SUBSET Sending,
   method : {"none", "core_version", "os_version", "boot_slot"},
   resumes : [Live -> Nat], gaveUp : BOOLEAN]

OpType ==
  [call : Calls \cup {"none"}, kind : {"core", "os"},
   version : Versions \cup {NoVersion}, id : 0..MaxJobs,
   back : Versions \cup {NoVersion}]

Places == {"off", "start", "loop", "backup", "confirm", "note", "sentSaving",
           "send", "await", "waiting", "refused", "judge", "stepSaving"}

HistoryType == Seq([id : Ids, state : TERMINAL])

\* Every variable holds what the code can put in it.
TypeOK ==
  /\ sp \in {"down", "load", "save", "up"}
  /\ cur \in 0..MaxJobs
  /\ jobs \in [0..MaxJobs -> JobType]
  /\ hist \in HistoryType
  /\ disk \in [cur : 0..MaxJobs, job : JobType, hist : HistoryType]
  /\ pc \in Places
  /\ drv \in 0..MaxJobs
  /\ hpc \in {"idle", "asking", "checking", "saving"}
  /\ req \in [kind : {"core", "os"}, target : Versions \cup {NoVersion},
              previous : Versions \cup {NoVersion}]
  /\ inst \in [{"core", "os"} -> Versions \cup {NoVersion}]
  /\ spare \in Versions \cup {NoVersion}
  /\ op \in OpType
  /\ backups \in [Ids -> Versions \cup {NoVersion}]
  /\ sent \in [Ids -> [Calls -> Nat]]
  /\ nextId \in 1..(MaxJobs + 1)
  /\ restarts \in 0..MaxRestarts

\* Over all the restarts of a job, the update, each way back and the restore
\* are each asked of the Supervisor at most once: a resume never sends again
\* what was noted as sent (ha_update.py:466, :514, :600).
SentOnce == \A i \in Ids, c \in Calls : sent[i][c] <= 1

\* Write-ahead: an operation the Supervisor is carrying out for the job on
\* disk is noted there as sent, so that the process it stops will know when it
\* is back (ha_update.py:18).
SentIsOnDisk ==
  op # NoOp /\ disk.cur = op.id => StepOf(op.call) \in disk.job.sentAt

\* No backup, no update; and the backup holds the Core version the job must
\* be able to go back to, even after restarts (ha_update.py:14, :446).
BackedUp ==
  op.call = "update" =>
     /\ backups[op.id] # NoVersion
     /\ op.kind = "core" => backups[op.id] = op.back

\* A rollback "only ever returns the home to where it was" (ha_update.py:31):
\* whichever way back is taken, it ends on the version the job began with.
OnlyGoesBack ==
  op.call \in {"rollback", "boot_slot", "restore"} => op.version = op.back

\* The outcome on disk says which version the home is on, and goes on being
\* true until another job is accepted. FAILED says "nothing changed", except
\* when the job was ended for restarting too often.
OutcomeTrue ==
  LET j == disk.job IN
  /\ j.state = "succeeded" => inst[j.kind] = j.target
  /\ j.state = "rolled_back" => inst[j.kind] = j.previous
  /\ j.state = "failed" /\ ~j.gaveUp => inst[j.kind] = j.previous

\* A job on disk gives way to another only when it has ended: one update at
\* a time, however restarts, reloads and commands interleave (:321).
NeverDisplaced ==
  [][disk.job.state \in Live => disk'.cur = disk.cur]_vars

\* While the entry is up and no command is being accepted, an unfinished job
\* has a live task driving it: no reload or cancelled command orphans it.
AlwaysDriven ==
  sp = "up" /\ hpc # "saving" /\ Active => pc # "off" /\ drv = cur

\* The history on disk: jobs that ended, newest first, each once, and the job
\* on disk heads it as soon as it has ended, with the outcome it ended in.
HistoryTold ==
  LET h == disk.hist IN
  /\ Len(h) <= HistoryCap
  /\ \A i, k \in 1..Len(h) : i < k => h[i].id > h[k].id
  /\ HistoryCap > 0 /\ disk.job.state \in TERMINAL =>
        Len(h) > 0 /\ h[1] = [id |-> disk.cur, state |-> disk.job.state]

\* An accepted job ends, once the process stops being stopped from outside.
EveryJobEnds ==
  \A i \in Ids : disk.cur = i /\ disk.job.state \in Live
                  ~> disk.cur = i /\ disk.job.state \in TERMINAL
-----------------------------------------------------------------------------
(***************************************************************************)
(* Refinement: the file and what the Supervisor runs, as UpdatePromise     *)
(* sees them.                                                              *)
(***************************************************************************)

Phase ==
  CASE disk.job.state = "none"                         -> "idle"
    [] disk.job.state \in Live                         -> "open"
    [] disk.job.state \in TERMINAL /\ disk.job.gaveUp  -> "given_up"
    [] OTHER                                           -> disk.job.state

Promise ==
  INSTANCE UpdatePromise
    WITH phase   <- Phase,
         task    <- [kind |-> disk.job.kind, from |-> disk.job.previous,
                     to |-> disk.job.target],
         safe    <- disk.cur # 0 /\ backups[disk.cur] # NoVersion,
         running <- inst

\* The job machine keeps the promise of UpdatePromise.
KeepsPromise == Promise!Spec
=============================================================================
