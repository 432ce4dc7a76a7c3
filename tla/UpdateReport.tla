----------------------------- MODULE UpdateReport -----------------------------
(***************************************************************************)
(* What the manager is told of guarded updates: every snapshot carries     *)
(* `ha_update`, the job in memory and the history (ha_update.py,           *)
(* snapshot_section), each minute and after each step. The answer to the   *)
(* command never carries the outcome, so these are the only reports.       *)
(***************************************************************************)
EXTENDS GuardedUpdate

VARIABLE told   \* the first outcome the manager was told of each job

\* The outcomes memory holds for job i, in the job and in the history.
InJob(i)     == IF cur = i THEN {jobs[cur].state} \cap TERMINAL ELSE {}
InHistory(i) == {hist[k].state : k \in {n \in DOMAIN hist : hist[n].id = i}}

\* Variant: the section carries the job and no history.
ShownJobOnly(i) == InJob(i)

\* The outcomes a snapshot taken now shows for job i.
Shown(i) == InJob(i) \cup InHistory(i)

\* A snapshot leaves. It is collected between any two steps of the driver,
\* the ones inside a save included.
Snapshot ==
  /\ Connected
  /\ told' \in [Ids -> TERMINAL \cup {"none"}]
  /\ \A i \in Ids :
       IF told[i] # "none" \/ Shown(i) = {}
       THEN told'[i] = told[i]
       ELSE told'[i] \in Shown(i)
  /\ told' # told
  /\ UNCHANGED vars

\* The first job has failed, in an earlier process, and nobody was told.
ReportInit ==
  /\ Unstarted
  /\ \E kind \in Asked, target \in Versions :
       LET job1 == [NoJob EXCEPT !.kind = kind, !.target = target,
                                 !.previous = inst[kind], !.state = "failed"]
       IN  /\ inst[kind] < target
           /\ disk = [cur |-> 1, job |-> job1, hist |-> <<[id |-> 1, state |-> "failed"]>>]
  /\ nextId = 2
  /\ told = [i \in Ids |-> "none"]

ReportNext == Snapshot \/ (Next /\ UNCHANGED told)

ReportSpec == ReportInit /\ [][ReportNext]_<<vars, told>>

\* The link sends a snapshot first thing on every connection, so reloading
\* the entry over and over does not keep one from being sent.
FairReportSpec == ReportSpec /\ Fairness /\ SF_<<vars, told>>(Snapshot)

-----------------------------------------------------------------------------
\* What is told and what is kept have their types.
ReportTypeOK == TypeOK /\ told \in [Ids -> TERMINAL \cup {"none"}]

\* Every job that ends is reported, even when the next job replaces it before
\* a snapshot was sent: that is what the history is for.
EveryOutcomeTold ==
  \A i \in Ids : disk.cur = i /\ disk.job.state \in TERMINAL ~> told[i] # "none"
=============================================================================
