----------------------------- MODULE HacsInstall -----------------------------
(***************************************************************************)
(* hacs_install (hacs_cmds.py) and agent_update (home_cmds.py): adding a   *)
(* repository to HACS, deciding whether a download is an upgrade, and the  *)
(* restart that loads the agent's own.  One repository.  HACS, GitHub and  *)
(* the household's own hands are external.  A version is a text of         *)
(* Versions; every call to HACS can fail, and is a step of its own.        *)
(***************************************************************************)
EXTENDS Versions

CONSTANTS Releases,   \* what the maintainer publishes, oldest first
          Commit,     \* a commit, and a branch, which check_version refuses
          Branch,
          MaxPolls,   \* looks for a repository just added (the code's 10)
          MaxInstalls,\* bound: commands
          MaxHands    \* bound: what the household does by itself

ASSUME ReleasesAssumption ==
  /\ Releases \in Seq(Texts) /\ Len(Releases) > 1  \* two are out at the start
  /\ \A i \in DOMAIN Releases : Parses(Releases[i])
  /\ Commit \in Texts /\ Branch \in Texts

VARIABLES repo,      \* the repository: what HACS lists, and the files
          job        \* the command being carried out

installVars == <<repo, job>>

Published == {Releases[i] : i \in DOMAIN Releases}
Newest == Releases[repo.released]
NoEntry == [there |-> FALSE, installed |-> NoVersion, available |-> NoVersion]
Listed == [there |-> repo.listed, installed |-> repo.recorded, available |-> repo.indexed]

NoCommand == [version |-> NoVersion, onlyMissing |-> FALSE, downgrade |-> FALSE,
              update |-> FALSE, restart |-> FALSE]
(* A command names a release, a commit, a branch or nothing; agent_update  *)
(* sends no version, and only it may take the latest.                      *)
Commands ==
  [version : Published \cup {NoVersion, Commit, Branch}, onlyMissing : BOOLEAN,
   downgrade : BOOLEAN, update : {FALSE}, restart : {FALSE}]
  \cup [version : {NoVersion}, onlyMissing : {FALSE}, downgrade : BOOLEAN,
        update : {TRUE}, restart : BOOLEAN]

NoJob == [at |-> "idle", cmd |-> NoCommand, entry |-> NoEntry, floor |-> NoVersion,
          polls |-> 0, overtaken |-> FALSE]

(* A repository of our own (ours), or of anybody, installed by HACS, by    *)
(* hand, or not at all.  "running" is what this process has imported.      *)
InstallInit ==
  /\ \E ours, byHacs \in BOOLEAN, files \in {NoVersion, Releases[1], Releases[2]} :
       /\ ours => files # NoVersion
       /\ repo = [ours |-> ours, listed |-> byHacs, recorded |-> IF byHacs THEN files ELSE NoVersion,
               indexed |-> IF byHacs THEN Releases[1] ELSE NoVersion,
               files |-> files, running |-> files, released |-> 2,
               late |-> NoVersion, restart |-> FALSE, hands |-> 0, installs |-> 0]
  /\ job = NoJob

Pinned == job.cmd.version # NoVersion
LatestAllowed == repo.ours
(* Mutant: the version the home runs is not counted.                       *)
ClaimedByNobody == NoVersion

(* agent_update names its own running version, a remote command none.      *)
Claimed == IF job.cmd.update THEN repo.running ELSE NoVersion

(* The answer.  After an agent_update that changed something Home          *)
(* Assistant is restarted, two seconds later and in a task of its own.     *)
Answer(ok, changed) ==
  /\ job' = NoJob
  /\ repo' = [repo EXCEPT !.restart = @ \/ (ok /\ changed /\ job.cmd.update /\ job.cmd.restart)]
Refuse == Answer(FALSE, FALSE)
(* What was read is older than what HACS knows by now, by the household.   *)
Overtaken(entry) == job.overtaken /\ entry # Listed
Wait(at, entry) ==
  /\ job' = [job EXCEPT !.at = at, !.entry = entry, !.polls = 0,
                        !.overtaken = Overtaken(entry)]
  /\ UNCHANGED repo

(* check_version: a tag or a commit; without one, only an agent_update of  *)
(* our own repository, or only_if_missing.                                 *)
VersionFits(cmd) ==
  IF cmd.version # NoVersion
  THEN Parses(cmd.version) \/ cmd.version = Commit
  ELSE (cmd.update /\ LatestAllowed) \/ cmd.onlyMissing

Install(cmd) ==
  /\ job.at = "idle" /\ repo.installs < MaxInstalls
  /\ cmd.update => repo.ours
  /\ repo' = [repo EXCEPT !.installs = @ + 1]
  /\ job' = IF VersionFits(cmd) THEN [NoJob EXCEPT !.at = "finding", !.cmd = cmd] ELSE NoJob

(* What a look at HACS's list shows: its entry, or none when it failed.    *)
Look(ok) == IF ok THEN Listed ELSE NoEntry
Or(entry, other) == IF entry.there THEN entry ELSE other

(* The entry is known: nothing to do when it only had to be there; a       *)
(* latest release is looked up first, a pinned one is decided at once.     *)
Decide(entry) ==
  LET installed == entry.installed
      floor == IF Claimed # NoVersion /\ (installed = NoVersion \/ IsOlder(installed, Claimed))
               THEN Claimed ELSE installed
      target == IF Pinned THEN job.cmd.version ELSE entry.available
      guards == floor # NoVersion /\ ~job.cmd.downgrade
      unknown == guards /\ ~Parses(target) /\ target # floor
      older == guards /\ IsOlder(target, floor)
      same == /\ floor # NoVersion /\ target # NoVersion
              /\ IF Parses(target) THEN Parse(floor) = Parse(target) ELSE floor = target
  IN  \/ (unknown \/ older) /\ Answer(FALSE, FALSE)
      \/ ~unknown /\ ~older /\ same /\ Answer(TRUE, FALSE)
      \/ /\ ~unknown /\ ~older /\ ~same
         /\ job' = [job EXCEPT !.at = "downloading", !.entry = entry, !.floor = floor,
                               !.polls = 0, !.overtaken = Overtaken(entry)]
         /\ UNCHANGED repo

Go(entry) ==
  \/ job.cmd.onlyMissing /\ entry.installed # NoVersion /\ Answer(TRUE, FALSE)
  \/ /\ ~(job.cmd.onlyMissing /\ entry.installed # NoVersion)
     /\ \/ Pinned /\ Decide(entry)
        \/ ~Pinned /\ Wait("refreshing", entry)

Found(ok) ==
  /\ job.at = "finding"
  /\ LET entry == Look(ok)
         required == ~Pinned /\ ~LatestAllowed /\ entry.installed = NoVersion
     IN  \/ required /\ Refuse
         \/ ~required /\ entry.there /\ Go(entry)
         \/ ~required /\ ~entry.there /\ Wait("adding", entry)

(* hacs/repositories/add: HACS fetches the metadata afterwards, and knows  *)
(* nothing of files that were copied in by hand.                           *)
Added(ok) ==
  /\ job.at = "adding"
  /\ \/ ~ok /\ Refuse
     \/ /\ ok
        /\ repo' = [repo EXCEPT !.listed = TRUE]
        /\ job' = [job EXCEPT !.at = "polling"]

Polled(ok) ==
  /\ job.at = "polling"
  /\ LET entry == Look(ok)
         ready == entry.there /\ (Pinned \/ entry.available # NoVersion)
         last == job.polls + 1 = MaxPolls
     IN  \/ ready /\ Go(entry)
         \/ ~ready /\ last /\ entry.there /\ Go(entry)
         \/ ~ready /\ last /\ ~entry.there /\ Refuse
         \/ /\ ~ready /\ ~last
            /\ job' = [job EXCEPT !.polls = @ + 1]
            /\ UNCHANGED repo

(* hacs/repository/refresh, then another look; a failed refresh leaves the *)
(* cached index to decide.                                                 *)
Refreshed(ok) ==
  /\ job.at = "refreshing"
  /\ \/ ok /\ repo' = [repo EXCEPT !.indexed = Newest]
           /\ job' = [job EXCEPT !.at = "relooking"]
     \/ ~ok /\ Decide(job.entry)
Relooked(ok) == job.at = "relooking" /\ Decide(Or(Look(ok), job.entry))

Fetched == IF Pinned THEN job.cmd.version ELSE repo.indexed

(* The download: HACS puts the files there and records them, or records    *)
(* another release than the one asked for.                                 *)
Downloaded(ok) ==
  /\ job.at = "downloading"
  /\ \/ ~ok /\ Refuse
     \/ /\ ok
        /\ \E recorded \in {Fetched} \cup (IF Pinned THEN {repo.recorded} ELSE {}) :
             repo' = [repo EXCEPT !.files = Fetched, !.recorded = recorded, !.listed = TRUE]
        /\ job' = [job EXCEPT !.at = "confirming"]

(* The answer did not come in 180 s; the download may land all the same.   *)
DownloadTimesOut ==
  /\ job.at = "downloading" /\ repo.late = NoVersion
  /\ repo' = [repo EXCEPT !.late = Fetched]
  /\ job' = NoJob
LandsLate ==
  /\ repo.late # NoVersion
  /\ repo' = [repo EXCEPT !.files = repo.late, !.recorded = repo.late, !.late = NoVersion]
  /\ job' = [job EXCEPT !.overtaken = job.at # "idle"]

(* The last look, for what to say; the old entry is said when it fails.    *)
Confirmed(ok) ==
  /\ job.at = "confirming"
  /\ LET entry == Or(Look(ok), job.entry)
         version == IF entry.installed # NoVersion THEN entry.installed ELSE Fetched
         mismatch == Pinned /\ Parses(job.cmd.version) /\ Parse(version) # Parse(job.cmd.version)
     IN  Answer(~mismatch, TRUE)

(* An unload of the agent's entry ends the command at its await.           *)
InstallCut ==
  /\ job.at # "idle"
  /\ job' = NoJob
  /\ UNCHANGED repo

-----------------------------------------------------------------------------
(* The restart the update asked for, or another.                           *)
Restarted ==
  /\ repo.restart /\ job.at = "idle"
  /\ repo' = [repo EXCEPT !.running = repo.files, !.restart = FALSE, !.late = NoVersion]
  /\ job' = NoJob

Hands(new) ==
  /\ repo.hands < MaxHands
  /\ repo' = [new EXCEPT !.hands = @ + 1]
  /\ job' = [job EXCEPT !.overtaken = job.at # "idle"]
HouseholdCopies == \E i \in 1..repo.released : Hands([repo EXCEPT !.files = Releases[i]])
HouseholdInstalls ==
  Hands([repo EXCEPT !.files = Newest, !.recorded = Newest, !.listed = TRUE, !.indexed = Newest])
MaintainerReleases ==
  /\ repo.released < Len(Releases)
  /\ repo' = [repo EXCEPT !.released = @ + 1]
  /\ UNCHANGED job
IndexArrives ==
  /\ repo.listed /\ repo.indexed # Newest
  /\ repo' = [repo EXCEPT !.indexed = Newest]
  /\ UNCHANGED job

InstallNext ==
  \/ \E cmd \in Commands : Install(cmd)
  \/ \E ok \in BOOLEAN : \/ Found(ok) \/ Added(ok) \/ Polled(ok) \/ Refreshed(ok) \/ Relooked(ok)
                         \/ Downloaded(ok) \/ Confirmed(ok)
  \/ DownloadTimesOut \/ LandsLate \/ InstallCut
  \/ Restarted \/ HouseholdCopies \/ HouseholdInstalls \/ MaintainerReleases \/ IndexArrives
-----------------------------------------------------------------------------
(* Older by its numbers, or not to be compared.  What a command can know   *)
(* of the files: what HACS recorded of them, and for agent_update what this*)
(* process runs.                                                           *)
Worse(new, old) ==
  Parses(old) /\ (~Parses(new) \/ (Before(new, old) /\ Value(new) # Value(old)))
Known == repo.files = repo.recorded \/ (job.cmd.update /\ repo.files = repo.running)

(* hacs_cmds.py:237-242 ("Never quietly replace a home's code with         *)
(* something older"): a download without allow_downgrade puts a version    *)
(* with lower numbers over files the command could know of only when they  *)
(* came after its look, or where HACS recorded a commit, which hides the   *)
(* version the agent runs.  Versions of equal numbers are not among them:  *)
(* a beta over its release is BetaLeftAlone.                               *)
NoQuietDowngrade ==
  [][job.at = "downloading" /\ job'.at = "confirming" /\ Worse(repo'.files, repo.files)
       => \/ job.cmd.downgrade \/ ~Known \/ job.overtaken
          \/ job.floor # NoVersion /\ ~Parses(job.floor)]_installVars

(* version.py:20-22: "a beta compares equal to its release; for this       *)
(* integration's purposes an unknown-or-equal comparison is treated as 'do *)
(* not act'": no beta is put over the release it leads to.  The code does, *)
(* where one is written with more zeros than the other, since what is the  *)
(* same is decided without padding (hacs_cmds.py:254).                     *)
BetaLeftAlone ==
  [][job.at = "downloading" /\ job'.at = "confirming" /\ ~job.cmd.downgrade
     /\ Parses(job.floor) /\ Finished(job.floor) /\ Value(repo'.files) = Value(job.floor)
       => Finished(repo'.files)]_installVars
=============================================================================
