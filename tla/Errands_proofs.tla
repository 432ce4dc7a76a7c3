---------------------------- MODULE Errands_proofs ----------------------------
(***************************************************************************)
(* What holds of the commands of Errands for every value of the constants. *)
(* Each part is proved of its own steps; a behaviour of Errands takes the  *)
(* steps of one part and leaves the others as they are (OnePart).          *)
(***************************************************************************)
EXTENDS Errands, FiniteSetTheorems, WellFoundedInduction, TLAPS

-----------------------------------------------------------------------------
(* integration_setup.                                                      *)

FlowShape ==
  /\ flow = [entry |-> flow.entry, open |-> flow.open, ours |-> flow.ours,
             commands |-> flow.commands]
  /\ setup = [at |-> setup.at, steps |-> setup.steps, said |-> setup.said, lost |-> setup.lost]

(* Why FlowEnds is kept: a flow of the command's is open only while the    *)
(* command is at it, and the command makes an entry only at its end, or in *)
(* the step that used up the last turn.                                    *)
FlowInv ==
  /\ FlowShape
  /\ setup.at # "idle" => ~setup.lost
  /\ setup.at = "starting" => ~flow.open
  /\ setup.at \in {"starting", "stepping"} => ~flow.ours
  /\ setup.at = "abandoning" /\ flow.ours => setup.steps = MaxSteps
  /\ FlowEnds

LEMMA FlowInitially == FlowInit => FlowInv
<1> SUFFICES ASSUME FlowInit PROVE FlowInv
  OBVIOUS
<1>1. FlowShape
  BY DEF FlowInit, FlowShape
<1>2. ~flow.open /\ ~flow.ours
  BY DEF FlowInit
<1> QED BY <1>1, <1>2 DEF FlowInit, FlowInv, FlowEnds

LEMMA FlowStep == FlowInv /\ [FlowNext]_flowVars => FlowInv'
<1> SUFFICES ASSUME FlowInv, [FlowNext]_flowVars PROVE FlowInv'
  OBVIOUS
<1> USE DEF FlowInv, FlowShape, FlowEnds
<1>1. ASSUME NEW fits \in BOOLEAN, IntegrationSetUp(fits) PROVE FlowInv'
  BY <1>1 DEF IntegrationSetUp
<1>2. ASSUME NEW kind \in Kinds, FlowStarted(kind) PROVE FlowInv'
  BY <1>2 DEF FlowStarted, Shows, Judge, Kinds, Forms
<1>3. ASSUME NEW kind \in Kinds, Stepped(kind) PROVE FlowInv'
  <2>1. FlowShape' /\ setup.at = "stepping" /\ ~setup.lost /\ ~flow.ours
    BY <1>3, Zenon DEF Stepped, Shows, Judge
  <2>2. /\ flow'.open <=> kind \in Forms \cup {"menu"}
        /\ flow'.ours <=> kind = "create_entry"
        /\ ~setup'.lost
    BY <1>3, <2>1, Zenon DEF Stepped, Shows, Judge
  <2>3. CASE setup'.at = "abandoning" /\ setup'.steps = MaxSteps
    BY <2>1, <2>2, <2>3
  <2>4. CASE Judge(kind, [setup EXCEPT !.steps = @ + 1])
    BY <2>1, <2>2, <2>4, Zenon DEF Judge, Kinds, Forms
  <2>5. \/ setup'.at = "abandoning" /\ setup'.steps = MaxSteps
        \/ Judge(kind, [setup EXCEPT !.steps = @ + 1])
    BY <1>3, <2>1, Zenon DEF Stepped
  <2> QED BY <2>3, <2>4, <2>5
<1>4. ASSUME NEW kind \in Kinds, FlowLost(kind) PROVE FlowInv'
  BY <1>4 DEF FlowLost, Shows, Kinds, Forms
<1>5. CASE FlowRefused
  BY <1>5 DEF FlowRefused, FlowSays
<1>6. CASE StepRefused
  BY <1>6 DEF StepRefused, FlowTo
<1>7. CASE HouseholdSetsUp
  BY <1>7 DEF HouseholdSetsUp
<1>8. ASSUME NEW ok \in BOOLEAN, Abandoned(ok) PROVE FlowInv'
  BY <1>8 DEF Abandoned
<1>9. CASE UNCHANGED flowVars
  BY <1>9 DEF flowVars
<1> QED BY <1>1, <1>2, <1>3, <1>4, <1>5, <1>6, <1>7, <1>8, <1>9 DEF FlowNext

-----------------------------------------------------------------------------
(* backup_create, backup_schedule, backup_delete and backup_upload.        *)

TaskShape ==
  task = [at |-> task.at, folders |-> task.folders, on |-> task.on, backup |-> task.backup,
          max |-> task.max, sent |-> task.sent, blind |-> task.blind, read |-> task.read,
          overtaken |-> task.overtaken]

(* What an upload has made sure of when it asks for a token, and while it  *)
(* streams: what was read of the backup, and how much has gone.            *)
Vetted ==
  task.at \in {"minting", "streaming"} => (IncludesMedia(task.backup) => task.blind)
WithinLimit ==
  /\ task.at \in {"detailing", "minting"} => task.sent = 0 /\ task.max \in Nat
  /\ task.at = "streaming" => task.sent \in Nat /\ task.max \in Nat /\ task.sent <= task.max
TokenLife == tokens = IF task.at = "streaming" THEN 1 ELSE 0
Copies ==
  \A stored \in offsite : /\ IncludesMedia(stored.backup) => stored.blind
                          /\ stored.backup.size <= stored.max

BackupInv == TaskShape /\ Vetted /\ WithinLimit /\ TokenLife /\ Copies

LEMMA BackupInitially == BackupInit => BackupInv
<1> SUFFICES ASSUME BackupInit PROVE BackupInv
  OBVIOUS
<1>1. TaskShape
  BY DEF BackupInit, NoTask, TaskShape
<1>2. task.at = "idle" /\ tokens = 0 /\ offsite = {}
  BY DEF BackupInit, NoTask
<1> QED BY <1>1, <1>2 DEF BackupInv, Vetted, WithinLimit, TokenLife, Copies

(* A step that ends at another place than "minting" or "streaming", and    *)
(* touches neither tokens nor copies.                                      *)
LEMMA BackupElsewhere ==
  ASSUME BackupInv, TaskShape', task.at # "streaming",
         task'.at \notin {"detailing", "minting", "streaming"}, UNCHANGED <<offsite, tokens>>
  PROVE  BackupInv'
BY DEF BackupInv, Vetted, WithinLimit, TokenLife, Copies

(* An upload that ends, its token gone and with nothing stored.            *)
LEMMA UploadOver ==
  ASSUME BackupInv, task.at = "streaming", Finally, UNCHANGED offsite
  PROVE  BackupInv'
<1>1. task'.at = "idle" /\ TaskShape'
  BY DEF Finally, Done, NoTask, TaskShape
<1>2. tokens' = 0
  BY DEF BackupInv, TokenLife, Finally
<1> QED BY <1>1, <1>2 DEF BackupInv, Vetted, WithinLimit, TokenLife, Copies

LEMMA UploadStep ==
  ASSUME BackupInv,
         \/ \E shown \in {"backup", "nothing", "error"} : Detailed(shown)
         \/ \E ok \in BOOLEAN : Minted(ok) \/ Stored(ok)
         \/ Chunk \/ StreamFails \/ BackupCut
  PROVE  BackupInv'
<1> USE DEF BackupInv
<1>0. TaskShape'
  BY DEF Detailed, Minted, Stored, Chunk, StreamFails, BackupCut, Finally, Done, BackupTo,
         NoTask, TaskShape
<1>1. ASSUME NEW shown \in {"backup", "nothing", "error"}, Detailed(shown) PROVE BackupInv'
  <2>1. task'.at \in {"idle", "minting"} /\ UNCHANGED <<offsite, tokens>> /\ task.at = "detailing"
    BY <1>1 DEF Detailed, Done, NoTask, TaskShape
  <2>2. CASE task'.at = "idle"
    BY <1>0, <2>1, <2>2, BackupElsewhere
  <2>3. CASE task'.at = "minting"
    <3>1. /\ task' = [task EXCEPT !.at = "minting", !.blind = shown = "nothing"]
          /\ shown = "backup" => ~IncludesMedia(task.backup)
          /\ shown # "error"
      BY <1>1, <2>3 DEF Detailed, Done, NoTask
    <3>2. task'.backup = task.backup /\ task'.sent = task.sent /\ task'.max = task.max
      BY <3>1 DEF TaskShape
    <3>3. Vetted'
      BY <3>1, <3>2, Zenon DEF Vetted, TaskShape, IncludesMedia
    <3>4. WithinLimit' /\ TokenLife' /\ Copies'
      BY <2>1, <2>3, <3>2 DEF WithinLimit, TokenLife, Copies
    <3> QED BY <1>0, <3>3, <3>4
  <2> QED BY <2>1, <2>2, <2>3
<1>2. ASSUME NEW owner \in BOOLEAN, Minted(owner) PROVE BackupInv'
  <2>1. CASE owner
    <3>1. task' = [task EXCEPT !.at = "streaming"] /\ tokens' = tokens + 1 /\ task.at = "minting"
          /\ UNCHANGED offsite
      BY <1>2, <2>1 DEF Minted, BackupTo
    <3>2. /\ task'.at = "streaming" /\ task'.backup = task.backup /\ task'.blind = task.blind
          /\ task'.sent = task.sent /\ task'.max = task.max
      BY <3>1 DEF TaskShape
    <3>3. Vetted'
      BY <3>1, <3>2 DEF Vetted, IncludesMedia
    <3>4. WithinLimit' /\ TokenLife' /\ Copies'
      BY <3>1, <3>2 DEF WithinLimit, TokenLife, Copies
    <3> QED BY <1>0, <3>3, <3>4
  <2>2. CASE ~owner
    <3>1. task'.at = "idle" /\ task.at = "minting" /\ UNCHANGED <<offsite, tokens>>
      BY <1>2, <2>2 DEF Minted, Done, NoTask
    <3> QED BY <1>0, <3>1, BackupElsewhere
  <2> QED BY <2>1, <2>2
<1>3. CASE Chunk
  <2>1. task.at = "streaming" /\ UNCHANGED offsite
    BY <1>3 DEF Chunk
  <2>2. CASE Finally
    BY <2>1, <2>2, UploadOver
  <2>3. CASE task.sent + 1 <= task.max /\ task' = [task EXCEPT !.sent = @ + 1] /\ UNCHANGED tokens
    <3>1. /\ task'.at = task.at /\ task'.backup = task.backup /\ task'.blind = task.blind
          /\ task'.sent = task.sent + 1 /\ task'.max = task.max
      BY <2>3 DEF TaskShape
    <3>2. Vetted'
      BY <3>1, <2>1 DEF Vetted, IncludesMedia
    <3>3. WithinLimit' /\ TokenLife' /\ Copies'
      BY <3>1, <2>1, <2>3 DEF WithinLimit, TokenLife, Copies
    <3> QED BY <1>0, <3>2, <3>3
  <2> QED BY <1>3, <2>2, <2>3 DEF Chunk
<1>4. ASSUME NEW ok \in BOOLEAN, Stored(ok) PROVE BackupInv'
  <2>1. /\ task.at = "streaming" /\ task.sent = task.backup.size /\ Finally
        /\ offsite' \subseteq offsite \cup {[backup |-> task.backup, max |-> task.max,
                                             blind |-> task.blind]}
    BY <1>4 DEF Stored
  <2>2. Copies'
    <3>1. task.backup.size <= task.max
      BY <2>1 DEF WithinLimit
    <3>2. IncludesMedia(task.backup) => task.blind
      BY <2>1 DEF Vetted
    <3> QED BY <2>1, <3>1, <3>2 DEF Copies
  <2>3. task'.at = "idle"
    BY <2>1 DEF Finally, Done, NoTask
  <2>4. TokenLife' /\ Vetted' /\ WithinLimit'
    BY <2>1, <2>3 DEF TokenLife, Vetted, WithinLimit, Finally
  <2> QED BY <1>0, <2>2, <2>4
<1>5. CASE StreamFails
  BY <1>5, UploadOver DEF StreamFails
<1>6. CASE BackupCut
  <2>1. CASE task.at = "streaming"
    BY <1>6, <2>1, UploadOver DEF BackupCut
  <2>2. CASE task.at # "streaming"
    <3>1. task'.at = "idle" /\ UNCHANGED <<offsite, tokens>>
      BY <1>6, <2>2 DEF BackupCut, Done, NoTask
    <3> QED BY <1>0, <2>2, <3>1, BackupElsewhere
  <2> QED BY <2>1, <2>2
<1> QED BY <1>1, <1>2, <1>3, <1>4, <1>5, <1>6

(* What leaves the upload where it is.                                     *)
LEMMA UploadUntouched ==
  ASSUME BackupInv, TaskShape', UNCHANGED <<offsite, tokens>>,
         task'.at = task.at, task'.backup = task.backup, task'.blind = task.blind,
         task'.sent = task.sent, task'.max = task.max
  PROVE  BackupInv'
BY DEF BackupInv, Vetted, WithinLimit, TokenLife, Copies, IncludesMedia

LEMMA BackupStep == BackupInv /\ [BackupNext]_backupVars => BackupInv'
<1> SUFFICES ASSUME BackupInv, [BackupNext]_backupVars PROVE BackupInv'
  OBVIOUS
<1>1. CASE AsksCreate \/ AsksSchedule
  <2>1. /\ task.at = "idle" /\ task'.at \in {"locating", "placing"} /\ TaskShape'
        /\ UNCHANGED <<offsite, tokens>>
    BY <1>1 DEF AsksCreate, AsksSchedule, AsksFor, NoTask, TaskShape
  <2> QED BY <2>1, BackupElsewhere
<1>2. CASE AsksUpload
  <2>1. PICK b \in home.backups, max \in 1..MaxSize :
          AsksFor([NoTask EXCEPT !.at = "detailing", !.backup = b, !.max = max])
    BY <1>2 DEF AsksUpload
  <2>2. task.at = "idle" /\ UNCHANGED <<offsite, tokens>>
    BY <2>1 DEF AsksFor
  <2>3. TaskShape' /\ task'.at = "detailing" /\ task'.sent = 0 /\ task'.max = max
    BY <2>1, Zenon DEF AsksFor, NoTask, TaskShape
  <2>4. max \in Nat
    OBVIOUS
  <2> QED BY <2>2, <2>3, <2>4 DEF BackupInv, Vetted, WithinLimit, TokenLife, Copies
<1>3. ASSUME NEW ok \in BOOLEAN, Located(ok) \/ Generated(ok) \/ Placed(ok) \/ SettingsRead(ok) \/ Set(ok)
      PROVE  BackupInv'
  <2>1. task.at # "streaming" /\ UNCHANGED <<offsite, tokens>>
    BY <1>3 DEF Located, Generated, Placed, SettingsRead, Set
  <2>2. TaskShape'
    BY <1>3 DEF Located, Generated, Placed, SettingsRead, Set, BackupTo, Done, NoTask,
                BackupInv, TaskShape
  <2>3. CASE Located(ok) \/ Generated(ok) \/ Placed(ok) \/ Set(ok)
    <3>1. task'.at \in {"idle", "generating", "reading", "setting"}
      BY <2>3 DEF Located, Generated, Placed, Set, BackupTo, Done, NoTask, BackupInv, TaskShape
    <3> QED BY <2>1, <2>2, <3>1, BackupElsewhere
  <2>4. CASE SettingsRead(ok)
    <3>1. task'.at = "setting"
      BY <2>4, Zenon DEF SettingsRead, BackupInv, TaskShape
    <3> QED BY <2>1, <2>2, <3>1, BackupElsewhere
  <2> QED BY <1>3, <2>3, <2>4
<1>4. CASE Delete \/ BacksUp \/ UNCHANGED backupVars
  BY <1>4, UploadUntouched DEF Delete, BacksUp, backupVars, BackupInv, TaskShape
<1>5. CASE Chooses
  <2>1. task' = [task EXCEPT !.overtaken = TRUE] /\ UNCHANGED <<offsite, tokens>>
    BY <1>5 DEF Chooses
  <2>2. /\ TaskShape' /\ task'.at = task.at /\ task'.backup = task.backup
        /\ task'.blind = task.blind /\ task'.sent = task.sent /\ task'.max = task.max
    BY <2>1 DEF BackupInv, TaskShape
  <2> QED BY <2>1, <2>2, UploadUntouched
<1> QED BY <1>1, <1>2, <1>3, <1>4, <1>5, UploadStep DEF BackupNext

(* The list a schedule sends back is what the household's was, less media, *)
(* for as long as nobody chooses anew.                                     *)
HomeShape ==
  home = [supervisor |-> home.supervisor, backups |-> home.backups,
          automatic |-> home.automatic, folders |-> home.folders, asked |-> home.asked,
          choices |-> home.choices]
FoldersInv ==
  /\ TaskShape /\ HomeShape
  /\ task.at = "placing" => ~task.read
  /\ task.at = "setting" /\ task.read /\ ~task.overtaken =>
       task.folders = WithoutMedia(home.folders)

LEMMA FoldersInitially == BackupInit => FoldersInv
<1> SUFFICES ASSUME BackupInit PROVE FoldersInv
  OBVIOUS
<1>1. TaskShape /\ task.at = "idle"
  BY DEF BackupInit, NoTask, TaskShape
<1>2. HomeShape
  BY DEF BackupInit, HomeShape
<1> QED BY <1>1, <1>2 DEF FoldersInv

LEMMA FoldersStep == FoldersInv /\ [BackupNext]_backupVars => FoldersInv'
<1> SUFFICES ASSUME FoldersInv, [BackupNext]_backupVars PROVE FoldersInv'
  OBVIOUS
<1> USE DEF FoldersInv
<1>1. CASE AsksCreate \/ AsksUpload
  <2>1. TaskShape' /\ HomeShape' /\ task'.at \in {"locating", "detailing"}
    BY <1>1, Zenon DEF AsksCreate, AsksUpload, AsksFor, NoTask, TaskShape, HomeShape
  <2> QED BY <2>1
<1>2. CASE AsksSchedule
  <2>1. TaskShape' /\ HomeShape' /\ task'.at = "placing" /\ ~task'.read
    BY <1>2, Zenon DEF AsksSchedule, AsksFor, NoTask, TaskShape, HomeShape
  <2> QED BY <2>1
<1>3. ASSUME NEW ok \in BOOLEAN, Placed(ok) PROVE FoldersInv'
  <2>1. TaskShape' /\ UNCHANGED home /\ ~task'.read
    BY <1>3, Zenon DEF Placed, Done, BackupTo, NoTask, TaskShape
  <2>2. task'.at # "placing"
    BY <1>3, Zenon DEF Placed, Done, BackupTo, NoTask, TaskShape
  <2> QED BY <2>1, <2>2 DEF HomeShape
<1>4. ASSUME NEW ok \in BOOLEAN, SettingsRead(ok) PROVE FoldersInv'
  <2>1. TaskShape' /\ UNCHANGED home /\ task'.at = "setting"
    BY <1>4, Zenon DEF SettingsRead, TaskShape
  <2>2. task'.read => task'.folders = WithoutMedia(home.folders)
    BY <1>4, Zenon DEF SettingsRead, TaskShape
  <2> QED BY <2>1, <2>2 DEF HomeShape
<1>5. ASSUME NEW ok \in BOOLEAN, Located(ok) \/ Generated(ok) \/ Set(ok) \/ Minted(ok) \/ Stored(ok)
      PROVE FoldersInv'
  <2>1. TaskShape' /\ HomeShape'
    BY <1>5, Zenon DEF Located, Generated, Set, Minted, Stored, Finally, Made, Done, BackupTo,
                       NoTask, TaskShape, HomeShape
  <2>2. task'.at \in {"idle", "generating", "streaming"}
    BY <1>5, Zenon DEF Located, Generated, Set, Minted, Stored, Finally, Done, BackupTo, NoTask,
                       TaskShape
  <2> QED BY <2>1, <2>2
<1>6. ASSUME NEW shown \in {"backup", "nothing", "error"}, Detailed(shown) PROVE FoldersInv'
  <2>1. TaskShape' /\ HomeShape' /\ task'.at \in {"idle", "minting"}
    BY <1>6, Zenon DEF Detailed, Done, NoTask, TaskShape, HomeShape
  <2> QED BY <2>1
<1>7. CASE Chunk \/ StreamFails \/ BackupCut
  <2>1. TaskShape' /\ HomeShape' /\ task'.at \in {"idle", "streaming"}
    BY <1>7, Zenon DEF Chunk, StreamFails, BackupCut, Finally, Done, NoTask, TaskShape, HomeShape
  <2> QED BY <2>1
<1>8. CASE Delete \/ BacksUp
  <2>1. HomeShape' /\ home'.folders = home.folders /\ UNCHANGED task
    BY <1>8, Zenon DEF Delete, BacksUp, Made, HomeShape
  <2> QED BY <2>1 DEF TaskShape
<1>9. CASE Chooses
  <2>1. TaskShape' /\ HomeShape' /\ task'.at = task.at /\ task'.read = task.read /\ task'.overtaken
    BY <1>9, Zenon DEF Chooses, TaskShape, HomeShape
  <2> QED BY <2>1
<1>10. CASE UNCHANGED backupVars
  BY <1>10 DEF backupVars, TaskShape, HomeShape
<1> QED BY <1>1, <1>2, <1>3, <1>4, <1>5, <1>6, <1>7, <1>8, <1>9, <1>10 DEF BackupNext

(* Only the setting itself changes the folders on the way to its end.      *)
FoldersMove ==
  task.at = "setting" /\ task'.at = "idle" /\ home'.folders # home.folders /\ ~task.overtaken =>
    home'.folders = WithoutMedia(home.folders)

LEMMA FoldersChange == FoldersInv /\ [BackupNext]_backupVars => FoldersMove
<1> SUFFICES ASSUME FoldersInv, [BackupNext]_backupVars, task.at = "setting", task'.at = "idle",
                    home'.folders # home.folders, ~task.overtaken
             PROVE  home'.folders = WithoutMedia(home.folders)
  BY DEF FoldersMove
<1> USE DEF FoldersInv
<1>1. ~UNCHANGED home
  OBVIOUS
<1>2. ~Chooses
  BY DEF Chooses, TaskShape
<1>3. ~BacksUp
  BY DEF BacksUp
<1>4. \E ok \in BOOLEAN : Set(ok)
  BY <1>1, <1>2, <1>3 DEF BackupNext, backupVars, AsksCreate, AsksSchedule, AsksUpload, AsksFor,
     Delete, Located, Generated, Placed, SettingsRead, Minted, Stored, Detailed, Chunk,
     StreamFails, BackupCut
<1>5. PICK ok \in BOOLEAN : Set(ok)
  BY <1>4
<1>6. home' = [home EXCEPT !.automatic = task.on,
                           !.folders = IF task.read THEN task.folders ELSE @]
  BY <1>1, <1>5 DEF Set
<1>7. task.read /\ home'.folders = task.folders
  BY <1>6, Zenon DEF HomeShape
<1> QED BY <1>7

-----------------------------------------------------------------------------
(* link_setup, link_stop and tunnel_stop.                                  *)

LinkShape ==
  /\ addon = [offered |-> addon.offered, repository |-> addon.repository,
              installed |-> addon.installed, outdated |-> addon.outdated,
              options |-> addon.options, runsWith |-> addon.runsWith, state |-> addon.state,
              touches |-> addon.touches, tunnel |-> addon.tunnel]
  /\ call = [at |-> call.at, looks |-> call.looks, read |-> call.read,
             touched |-> call.touched, ended |-> call.ended, n |-> call.n]

(* What is known of the key at each place of a setup nobody touched: it is *)
(* in the options, then the state read is the add-on's, then it is in      *)
(* effect.                                                                 *)
KeyPlaced ==
  /\ call.at \in {"reading", "starting"} /\ ~call.touched => addon.options = call.n
  /\ call.at = "starting" /\ ~call.touched /\ call.read # "unknown" => call.read = addon.state
  /\ call.at = "confirming" /\ ~call.touched /\ call.read # "unknown" => addon.runsWith = call.n

LinkInv ==
  /\ LinkShape /\ KeyPlaced
  /\ addon.state = "started" => addon.installed
  /\ call.at # "idle" => answer.what # "joined"

LEMMA LinkInitially == LinkInit => LinkInv
<1> SUFFICES ASSUME LinkInit PROVE LinkInv
  OBVIOUS
<1>1. addon \in Addon /\ (addon.state = "started" => addon.installed) /\ call = NoCall
  BY DEF LinkInit
<1>2. LinkShape
  BY <1>1, Zenon DEF LinkShape, Addon, NoCall
<1>3. call.at = "idle"
  BY <1>1 DEF NoCall
<1> QED BY <1>1, <1>2, <1>3 DEF LinkInv, KeyPlaced

(* A step to a place where nothing is claimed of the key.                  *)
Unclaimed == {"idle", "looking", "adding", "searching", "refreshing", "updating", "installing",
              "configuring"}

LEMMA LinkElsewhere ==
  ASSUME LinkInv, LinkShape', call'.at \in Unclaimed, call.at # "idle" \/ call'.at = "idle",
         call'.at # "idle" => UNCHANGED answer,
         addon'.state = addon.state, addon.installed => addon'.installed
  PROVE  LinkInv'
BY DEF LinkInv, KeyPlaced, Unclaimed

LEMMA SetupStep ==
  ASSUME LinkInv, NEW o \in Outcomes,
         \/ Looked(o) \/ RepositoryAdded(o) \/ Searched(o) \/ StoreRefreshed(o) \/ Updated(o)
         \/ Installed(o) \/ Configured(o) \/ Read(o) \/ Started(o) \/ LinkConfirmed(o)
  PROVE  LinkInv'
<1> USE DEF LinkInv
<1>1. CASE Looked(o) \/ Searched(o) \/ StoreRefreshed(o)
  <2>1. LinkShape' /\ UNCHANGED addon /\ call.at # "idle"
    BY <1>1, Zenon DEF Looked, Searched, StoreRefreshed, Raised, Enrol, LinkSays, LinkTo, NoCall,
                       LinkShape
  <2>2. call'.at \in Unclaimed /\ (call'.at # "idle" => UNCHANGED answer)
    BY <1>1, Zenon DEF Looked, Searched, StoreRefreshed, Raised, Enrol, LinkSays, LinkTo, NoCall,
                       LinkShape, Unclaimed
  <2> QED BY <2>1, <2>2, LinkElsewhere
<1>2. CASE RepositoryAdded(o) \/ Updated(o) \/ Installed(o)
  <2>1. LinkShape' /\ call.at # "idle"
    BY <1>2, Zenon DEF RepositoryAdded, Updated, Installed, Raised, Enrol, LinkSays, LinkTo,
                       NoCall, LinkShape
  <2>2. addon'.state = addon.state /\ (addon.installed => addon'.installed)
    BY <1>2, Zenon DEF RepositoryAdded, Updated, Installed, LinkShape
  <2>3. call'.at \in Unclaimed /\ (call'.at # "idle" => UNCHANGED answer)
    BY <1>2, Zenon DEF RepositoryAdded, Updated, Installed, Raised, Enrol, LinkSays, LinkTo,
                       NoCall, LinkShape, Unclaimed
  <2> QED BY <2>1, <2>2, <2>3, LinkElsewhere
<1>3. CASE Configured(o)
  <2>1. LinkShape' /\ call.at # "idle"
    BY <1>3, Zenon DEF Configured, Raised, LinkSays, LinkTo, NoCall, LinkShape
  <2>2. CASE call'.at = "idle"
    <3>1. addon'.state = addon.state /\ addon'.installed = addon.installed
      BY <1>3, Zenon DEF Configured, LinkShape
    <3> QED BY <2>1, <2>2, <3>1, LinkElsewhere DEF Unclaimed
  <2>3. CASE call'.at # "idle"
    <3>1. /\ addon' = [addon EXCEPT !.options = call.n]
          /\ call' = [call EXCEPT !.at = "reading"] /\ UNCHANGED answer
      BY <1>3, <2>3, Zenon DEF Configured, Raised, LinkSays, LinkTo, NoCall
    <3>2. /\ call'.at = "reading" /\ addon'.options = call'.n
          /\ addon'.state = addon.state /\ addon'.installed = addon.installed
      BY <3>1, Zenon DEF LinkShape
    <3> QED BY <2>1, <3>1, <3>2 DEF KeyPlaced
  <2> QED BY <2>2, <2>3
<1>4. CASE Read(o)
  <2>1. LinkShape' /\ call.at = "reading" /\ UNCHANGED addon
    BY <1>4, Zenon DEF Read, Raised, LinkSays, NoCall, LinkShape
  <2>2. CASE call'.at = "idle"
    BY <2>1, <2>2, LinkElsewhere DEF Unclaimed
  <2>3. CASE call'.at # "idle"
    <3>1. UNCHANGED answer /\ call' = [call EXCEPT !.at = "starting",
                                 !.read = IF o = "ok" THEN addon.state ELSE "unknown"]
      BY <1>4, <2>3, Zenon DEF Read, Raised, LinkSays, NoCall
    <3>2. /\ call'.at = "starting" /\ call'.n = call.n /\ call'.touched = call.touched
          /\ call'.read # "unknown" => call'.read = addon.state
      BY <3>1, Zenon DEF LinkShape
    <3> QED BY <2>1, <3>1, <3>2 DEF KeyPlaced
  <2> QED BY <2>2, <2>3
<1>5. CASE Started(o)
  <2>1. LinkShape' /\ call.at = "starting"
    BY <1>5, Zenon DEF Started, Raised, LinkSays, NoCall, LinkShape
  <2>2. CASE call'.at = "idle"
    <3>1. UNCHANGED addon
      BY <1>5, <2>2, Zenon DEF Started, LinkShape
    <3> QED BY <2>1, <2>2, <3>1, LinkElsewhere DEF Unclaimed
  <2>3. CASE call'.at # "idle"
    <3>1. /\ addon.installed /\ UNCHANGED answer
          /\ addon' = [addon EXCEPT !.state = "started",
               !.runsWith = IF Action = "start" /\ addon.state = "started" THEN @ ELSE addon.options]
          /\ call' = [call EXCEPT !.at = "confirming", !.looks = 0]
      BY <1>5, <2>3, Zenon DEF Started, Raised, LinkSays, NoCall
    <3>2. /\ call'.at = "confirming" /\ call'.n = call.n /\ call'.touched = call.touched
          /\ call'.read = call.read
      BY <3>1, Zenon DEF LinkShape
    <3>3. /\ addon'.installed = addon.installed
          /\ ~(Action = "start" /\ addon.state = "started") => addon'.runsWith = addon.options
      BY <3>1, Zenon DEF LinkShape
    <3>4. call.read = addon.state => ~(Action = "start" /\ addon.state = "started")
      BY DEF Action
    <3> QED BY <2>1, <3>1, <3>2, <3>3, <3>4 DEF KeyPlaced
  <2> QED BY <2>2, <2>3
<1>6. CASE LinkConfirmed(o)
  <2>1. LinkShape' /\ call.at = "confirming" /\ UNCHANGED addon
    BY <1>6, Zenon DEF LinkConfirmed, Raised, LinkSays, NoCall, LinkShape
  <2>2. CASE call'.at = "idle"
    BY <2>1, <2>2, LinkElsewhere DEF Unclaimed
  <2>3. CASE call'.at # "idle"
    <3>1. UNCHANGED answer /\ call' = [call EXCEPT !.looks = @ + 1]
      BY <1>6, <2>3, Zenon DEF LinkConfirmed, Raised, LinkSays, NoCall
    <3>2. /\ call'.at = call.at /\ call'.n = call.n /\ call'.touched = call.touched
          /\ call'.read = call.read
      BY <3>1, Zenon DEF LinkShape
    <3> QED BY <2>1, <3>1, <3>2 DEF KeyPlaced
  <2> QED BY <2>2, <2>3
<1> QED BY <1>1, <1>2, <1>3, <1>4, <1>5, <1>6

LEMMA LinkStep == LinkInv /\ [LinkNext]_linkVars => LinkInv'
<1> SUFFICES ASSUME LinkInv, [LinkNext]_linkVars PROVE LinkInv'
  OBVIOUS
<1> USE DEF LinkInv
<1>1. ASSUME NEW fits \in BOOLEAN, LinkSetup(fits) PROVE LinkInv'
  <2>1. LinkShape' /\ UNCHANGED addon /\ call'.at \in {"idle", "looking"}
    BY <1>1, Zenon DEF LinkSetup, NoCall, LinkShape
  <2>2. answer'.what # "joined"
    BY <1>1 DEF LinkSetup
  <2> QED BY <2>1, <2>2 DEF KeyPlaced
<1>2. ASSUME NEW o \in Outcomes, LinkStop(o) \/ TunnelStop(o) PROVE LinkInv'
  <2>1. LinkShape' /\ call'.at = "idle"
    BY <1>2, Zenon DEF LinkStop, TunnelStop, LinkSays, NoCall, LinkShape
  <2>2. addon'.state = "started" => addon.state = "started" /\ addon'.installed = addon.installed
    BY <1>2, Zenon DEF LinkStop, TunnelStop, LinkShape
  <2> QED BY <2>1, <2>2 DEF KeyPlaced
<1>3. CASE LinkCut
  <2>1. LinkShape' /\ call'.at = "idle" /\ UNCHANGED addon
    BY <1>3, Zenon DEF LinkCut, LinkSays, NoCall, LinkShape
  <2> QED BY <2>1 DEF KeyPlaced
<1>4. CASE StoreFills
  <2>1. /\ LinkShape' /\ UNCHANGED <<call, answer>>
        /\ addon'.options = addon.options /\ addon'.state = addon.state
        /\ addon'.runsWith = addon.runsWith /\ addon'.installed = addon.installed
    BY <1>4, Zenon DEF StoreFills, LinkShape
  <2> QED BY <2>1 DEF KeyPlaced
<1>5. CASE Dies \/ StartsIt \/ Uninstalls \/ InstallsIt
  <2>1. LinkShape' /\ UNCHANGED answer /\ call'.touched /\ call'.at = call.at
    BY <1>5, Zenon DEF Dies, StartsIt, Uninstalls, InstallsIt, Touches, LinkShape
  <2>2. addon'.state = "started" => addon'.installed
    BY <1>5, Zenon DEF Dies, StartsIt, Uninstalls, InstallsIt, Touches, LinkShape
  <2> QED BY <2>1, <2>2 DEF KeyPlaced
<1>6. CASE ConsentEnds \/ ConsentReturns \/ UNCHANGED linkVars
  BY <1>6 DEF ConsentEnds, ConsentReturns, linkVars, LinkShape, KeyPlaced
<1> QED BY <1>1, <1>2, <1>3, <1>4, <1>5, <1>6, SetupStep DEF LinkNext

(* The step that says "joined" is a look that found it running.            *)
Joins ==
  answer'.what = "joined" /\ call.at = "confirming" =>
    /\ addon.state = "started" /\ addon.installed
    /\ ~call.touched /\ call.read # "unknown" => addon.runsWith = call.n

LEMMA LinkJoins == LinkInv /\ [LinkNext]_linkVars => Joins
<1> SUFFICES ASSUME LinkInv, [LinkNext]_linkVars, answer'.what = "joined", call.at = "confirming"
             PROVE  addon.state = "started"
  BY DEF Joins, LinkInv, KeyPlaced
<1>1. answer' # answer
  BY DEF LinkInv
<1>2. ~LinkCut
  BY DEF LinkCut, LinkSays
<1>3. PICK o \in Outcomes : LinkConfirmed(o)
  BY <1>1, <1>2 DEF LinkNext, linkVars, LinkSetup, Looked, RepositoryAdded, Searched,
     StoreRefreshed, Updated, Installed, Configured, Read, Started, LinkStop, TunnelStop,
     StoreFills, Dies, StartsIt, Uninstalls, InstallsIt, Touches, ConsentEnds,
     ConsentReturns
<1> QED BY <1>1, <1>3 DEF LinkConfirmed, Raised, LinkSays

(* Why ConsentObeyed is kept: a key that is still to be placed is in no    *)
(* add-on, and where consent has ended in a wait the command stays in its  *)
(* waits or ends.                                                          *)
KeyInv ==
  /\ LinkShape
  /\ call.n \in Nat /\ addon.options \in 0..call.n /\ addon.runsWith \in 0..call.n
  /\ call.at \in Preparing \cup {"configuring"} \/ call.ended =>
       addon.options < call.n /\ addon.runsWith < call.n
  /\ call.ended => ~consent /\ call.at \in Preparing \cup {"idle"}

LEMMA KeyInitially == LinkInit => KeyInv
<1> SUFFICES ASSUME LinkInit PROVE KeyInv
  OBVIOUS
<1>1. LinkShape
  BY LinkInitially DEF LinkInv
<1>2. /\ call.n = 0 /\ ~call.ended /\ call.at = "idle"
      /\ addon.options = 0 /\ addon.runsWith = 0
  BY DEF LinkInit, NoCall
<1> QED BY <1>1, <1>2 DEF KeyInv, Preparing

(* The steps of a set-up up to its asking again, and what ends a command.  *)
LEMMA KeyWaits ==
  ASSUME KeyInv, LinkShape', UNCHANGED consent,
         call'.n = call.n, call'.ended = call.ended,
         addon'.options \in {0, addon.options}, addon'.runsWith = addon.runsWith,
         \/ call'.at = "idle"
         \/ call.at \in Preparing /\ call'.at \in Preparing
         \/ call.at \in Preparing /\ call'.at = "configuring" /\ consent
  PROVE  KeyInv'
BY DEF KeyInv, Preparing

LEMMA KeyWaitStep ==
  ASSUME KeyInv, NEW o \in Outcomes,
         \/ Looked(o) \/ RepositoryAdded(o) \/ Searched(o) \/ StoreRefreshed(o) \/ Updated(o)
         \/ Installed(o)
  PROVE  KeyInv'
<1> USE DEF KeyInv
<1>1. CASE Looked(o) \/ RepositoryAdded(o) \/ Searched(o)
  <2>1. /\ LinkShape' /\ UNCHANGED consent /\ call.at \in Preparing
        /\ call'.at \in Preparing \cup {"idle"}
        /\ call'.n = call.n /\ call'.ended = call.ended
    BY <1>1, Zenon DEF Looked, RepositoryAdded, Searched, Raised, LinkSays, LinkTo, NoCall,
                       LinkShape, Preparing
  <2>2. addon'.options = addon.options /\ addon'.runsWith = addon.runsWith
    BY <1>1, Zenon DEF Looked, RepositoryAdded, Searched, LinkShape
  <2> QED BY <2>1, <2>2, KeyWaits
<1>2. CASE StoreRefreshed(o) \/ Updated(o) \/ Installed(o)
  <2>1. /\ LinkShape' /\ UNCHANGED consent /\ call.at \in Preparing
        /\ call'.at \in Preparing \cup {"idle"} \/ (call'.at = "configuring" /\ consent)
        /\ call'.n = call.n /\ call'.ended = call.ended
    BY <1>2, Zenon DEF StoreRefreshed, Updated, Installed, Enrol, Raised, LinkSays, LinkTo,
                       NoCall, LinkShape, Preparing
  <2>2. addon'.options \in {0, addon.options} /\ addon'.runsWith = addon.runsWith
    BY <1>2, Zenon DEF StoreRefreshed, Updated, Installed, LinkShape
  <2> QED BY <2>1, <2>2, KeyWaits
<1> QED BY <1>1, <1>2

(* Then, while consent was there, the key is handed over and taken.        *)
LEMMA KeyPlacedStep ==
  ASSUME KeyInv, NEW o \in Outcomes,
         Configured(o) \/ Read(o) \/ Started(o) \/ LinkConfirmed(o)
  PROVE  KeyInv'
<1> USE DEF KeyInv
<1>1. LinkShape' /\ UNCHANGED consent /\ call'.n = call.n /\ call'.ended = call.ended
  BY Zenon DEF Configured, Read, Started, LinkConfirmed, Raised, LinkSays, LinkTo, NoCall, LinkShape
<1>2. ~call.ended
  BY DEF Configured, Read, Started, LinkConfirmed, Preparing
<1>3. call'.at \in {"idle", "reading", "starting", "confirming"}
  BY Zenon DEF Configured, Read, Started, LinkConfirmed, Raised, LinkSays, LinkTo, NoCall, LinkShape
<1>4. /\ addon'.options \in {addon.options, call.n}
      /\ addon'.runsWith \in {addon.runsWith, addon.options}
  BY Zenon DEF Configured, Read, Started, LinkConfirmed, LinkShape
<1> QED BY <1>1, <1>2, <1>3, <1>4 DEF Preparing

LEMMA KeyStep == KeyInv /\ [LinkNext]_linkVars => KeyInv'
<1> SUFFICES ASSUME KeyInv, [LinkNext]_linkVars PROVE KeyInv'
  OBVIOUS
<1>1. ASSUME NEW fits \in BOOLEAN, LinkSetup(fits) PROVE KeyInv'
  <2>1. /\ call'.n = call.n + 1 /\ ~call'.ended /\ UNCHANGED <<addon, consent>>
        /\ call'.at \in {"idle", "looking"}
        /\ call' = [at |-> call'.at, looks |-> 0, read |-> "none", touched |-> FALSE,
                    ended |-> FALSE, n |-> call'.n]
    BY <1>1 DEF LinkSetup, NoCall
  <2>2. LinkShape'
    BY <2>1 DEF KeyInv, LinkShape
  <2> QED BY <2>1, <2>2 DEF KeyInv, Preparing
<1>2. ASSUME NEW o \in Outcomes, LinkStop(o) \/ TunnelStop(o) PROVE KeyInv'
  <2>1. /\ LinkShape' /\ UNCHANGED consent /\ call'.at = "idle"
        /\ call'.n = call.n /\ call'.ended = call.ended
    BY <1>2, Zenon DEF LinkStop, TunnelStop, LinkSays, NoCall, KeyInv, LinkShape
  <2>2. addon'.options = addon.options /\ addon'.runsWith = addon.runsWith
    BY <1>2, Zenon DEF LinkStop, TunnelStop, KeyInv, LinkShape
  <2> QED BY <2>1, <2>2, KeyWaits
<1>3. CASE LinkCut
  <2>1. /\ LinkShape' /\ UNCHANGED <<addon, consent>> /\ call'.at = "idle"
        /\ call'.n = call.n /\ call'.ended = call.ended
    BY <1>3, Zenon DEF LinkCut, LinkSays, NoCall, KeyInv, LinkShape
  <2> QED BY <2>1, KeyWaits
<1>4. CASE StoreFills \/ Dies \/ StartsIt \/ Uninstalls \/ InstallsIt
  <2>1. /\ LinkShape' /\ UNCHANGED consent /\ call'.at = call.at
        /\ call'.n = call.n /\ call'.ended = call.ended
    BY <1>4, Zenon DEF StoreFills, Dies, StartsIt, Uninstalls, InstallsIt, Touches, KeyInv, LinkShape
  <2>2. /\ addon'.options \in {0, addon.options}
        /\ addon'.runsWith \in {addon.runsWith, addon.options}
    BY <1>4, Zenon DEF StoreFills, Dies, StartsIt, Uninstalls, InstallsIt, Touches, KeyInv, LinkShape
  <2> QED BY <2>1, <2>2 DEF KeyInv
<1>5. CASE ConsentEnds \/ ConsentReturns
  <2>1. /\ LinkShape' /\ UNCHANGED addon /\ call'.at = call.at /\ call'.n = call.n
        /\ call'.ended => ~consent' /\ call.at \in Preparing
    BY <1>5, Zenon DEF ConsentEnds, ConsentReturns, KeyInv, LinkShape
  <2> QED BY <2>1 DEF KeyInv, Preparing
<1>6. CASE UNCHANGED linkVars
  BY <1>6 DEF linkVars, KeyInv, LinkShape
<1> QED BY <1>1, <1>2, <1>3, <1>4, <1>5, <1>6, KeyWaitStep, KeyPlacedStep DEF LinkNext

LEMMA KeyHeldBack == KeyInv => ConsentObeyed
BY DEF KeyInv, ConsentObeyed

-----------------------------------------------------------------------------
(* The gates.                                                              *)

GrantsShape ==
  /\ grants = [window |-> grants.window, commissioning |-> grants.commissioning,
               standing |-> grants.standing, updates |-> grants.updates,
               offsite |-> grants.offsite, ids |-> grants.ids, registry |-> grants.registry,
               held |-> grants.held, turns |-> grants.turns]
  /\ grants.window \in BOOLEAN /\ grants.commissioning \in BOOLEAN /\ grants.standing \in BOOLEAN

LEMMA GrantsInitially == GateInit => GrantsShape
BY Zenon DEF GateInit, GrantsShape

LEMMA SwitchedShape ==
  ASSUME GrantsShape, NEW s, NEW acts, grants' = Switched(s, acts)
  PROVE  /\ GrantsShape' /\ grants'.held = grants.held
         /\ grants'.standing = grants.standing /\ grants'.offsite = grants.offsite
         /\ grants'.commissioning => grants.commissioning
         /\ grants'.window => grants.window \/ ("support" \in acts /\ TurnsOn(s, "support"))
         /\ grants'.updates # "off" =>
              grants.updates # "off" \/ ("updates" \in acts /\ TurnsOn(s, "updates"))
<1> DEFINE on(c) == c \in acts /\ TurnsOn(s, c)
           off(c) == c \in acts /\ TurnsOff(s, c)
           window == on("support") \/ (grants.window /\ ~off("support"))
           commissioning == grants.commissioning /\ ~off("support")
           updates == IF on("updates") /\ grants.updates = "off" THEN "on"
                      ELSE IF off("updates") THEN "off" ELSE grants.updates
<1>1. grants' = [grants EXCEPT !.window = window, !.commissioning = commissioning,
                               !.updates = updates]
  BY Zenon DEF Switched
<1>2. window \in BOOLEAN /\ commissioning \in BOOLEAN
  OBVIOUS
<1>3. /\ window => grants.window \/ on("support")
      /\ commissioning => grants.commissioning
      /\ updates # "off" => grants.updates # "off" \/ on("updates")
  OBVIOUS
<1> HIDE DEF window, commissioning, updates
<1>4. /\ grants'.window = window /\ grants'.commissioning = commissioning
      /\ grants'.updates = updates /\ grants'.held = grants.held
      /\ grants'.standing = grants.standing /\ grants'.offsite = grants.offsite
      /\ grants' = [window |-> grants'.window, commissioning |-> grants'.commissioning,
                    standing |-> grants'.standing, updates |-> grants'.updates,
                    offsite |-> grants'.offsite, ids |-> grants'.ids,
                    registry |-> grants'.registry, held |-> grants'.held,
                    turns |-> grants'.turns]
  BY <1>1 DEF GrantsShape
<1>5. grants'.standing \in BOOLEAN
  BY <1>4 DEF GrantsShape
<1>6. GrantsShape'
  BY <1>2, <1>4, <1>5, Zenon DEF GrantsShape
<1> QED BY <1>3, <1>4, <1>6, Zenon

LEMMA GrantsStep == GrantsShape /\ [GateNext]_gateVars => GrantsShape'
<1> SUFFICES ASSUME GrantsShape, [GateNext]_gateVars PROVE GrantsShape'
  OBVIOUS
<1>1. CASE UNCHANGED grants
  BY <1>1 DEF GrantsShape
<1>2. ASSUME NEW cmd \in [action : AllActions, shape : Shapes], OpenCommand(cmd) PROVE GrantsShape'
  BY <1>2, Zenon DEF OpenCommand, GrantsShape
<1>3. ASSUME NEW s \in Services, NEW p \in Payloads, grants' = Switched(s, ActsOn(s, p))
      PROVE GrantsShape'
  BY <1>3, SwitchedShape
<1>4. CASE Turns
  <2>1. CASE \E field \in {"window", "commissioning", "standing"} :
               grants' = [grants EXCEPT ![field] = ~@, !.turns = @ + 1]
    <3>1. PICK field \in {"window", "commissioning", "standing"} :
            grants' = [grants EXCEPT ![field] = ~@, !.turns = @ + 1]
      BY <2>1
    <3>2. CASE field = "window"
      BY <3>1, <3>2, Zenon DEF GrantsShape
    <3>3. CASE field = "commissioning"
      BY <3>1, <3>3, Zenon DEF GrantsShape
    <3>4. CASE field = "standing"
      BY <3>1, <3>4, Zenon DEF GrantsShape
    <3> QED BY <3>2, <3>3, <3>4
  <2>2. CASE grants' = [grants EXCEPT !.updates = IF @ = "off" THEN "on" ELSE "off",
                                      !.turns = @ + 1]
    BY <2>2, Zenon DEF GrantsShape
  <2> QED BY <1>4, <2>1, <2>2 DEF Turns
<1>5. CASE RenamesSwitch
  <2>1. PICK new : grants' = [grants EXCEPT !.ids = new, !.turns = @ + 1]
    BY <1>5 DEF RenamesSwitch
  <2> QED BY <2>1, Zenon DEF GrantsShape
<1> QED BY <1>1, <1>2, <1>3, <1>4, <1>5
        DEF GateNext, Command, Call, CallService, RetiredCommand, GuardedCommand, OtherCommand,
            Answered, gateVars

(* A call that passes turns on no control that is looked for under its id. *)
LEMMA ControlSpared ==
  ASSUME NEW s, NEW p, NEW c \in Controls, Guarded(c),
         CheckCallService(s, p, Granted), CheckOwnEntities(p), TurnsOn(s, c)
  PROVE  c \notin ActsOn(s, p)
<1>1. c \notin grants.held /\ grants.ids[c] \in OwnEntityIds
  BY Zenon DEF Guarded, OwnEntityIds
<1>2. s = <<"switch", "turn_on">> \/ s = <<"switch", "toggle">>
  BY <1>1 DEF TurnsOn
<1>3. s \notin NoTargetServices
  BY <1>2 DEF NoTargetServices
<1>4. ~p.indirect /\ "all" \notin p.ids /\ p.ids # {}
  BY <1>3 DEF CheckCallService, ValidTarget
<1>5. grants.ids[c] \notin p.ids
  BY <1>1 DEF CheckOwnEntities
<1>6. c \notin ThingsNamed(p)
  BY <1>5 DEF ThingsNamed, IdOf
<1> QED BY <1>1, <1>4, <1>6, Zenon DEF ActsOn

(* No more is granted after the step than before it.                       *)
GrantsNothing ==
  order' # order =>
    /\ Guarded("support") => (grants'.window => grants.window)
    /\ Guarded("updates") => (grants'.updates # "off" => grants.updates # "off")
    /\ grants'.commissioning => grants.commissioning
    /\ grants'.standing = grants.standing /\ grants'.offsite = grants.offsite

LEMMA GrantsNever == GrantsShape /\ [GateNext]_gateVars => GrantsNothing
<1> SUFFICES ASSUME GrantsShape, [GateNext]_gateVars, order' # order PROVE GrantsNothing
  BY DEF GrantsNothing
<1>1. CASE UNCHANGED grants
  BY <1>1 DEF GrantsNothing
<1>2. ASSUME NEW cmd \in [action : AllActions, shape : Shapes], OpenCommand(cmd)
      PROVE  GrantsNothing
  BY <1>2, Zenon DEF OpenCommand, GrantsShape, GrantsNothing
<1>3. ASSUME NEW s \in Services, NEW p \in Payloads, Call(s, p), ~UNCHANGED grants
      PROVE  GrantsNothing
  <2>1. /\ CheckCallService(s, p, Granted) /\ CheckOwnEntities(p)
        /\ grants' = Switched(s, ActsOn(s, p))
    BY <1>3, Zenon DEF Call, CallService
  <2>2. \A c \in Controls : Guarded(c) => ~(c \in ActsOn(s, p) /\ TurnsOn(s, c))
    BY <2>1, ControlSpared
  <2>3. "support" \in Controls /\ "updates" \in Controls
    BY DEF Controls
  <2> QED BY <2>1, <2>2, <2>3, SwitchedShape, Zenon DEF GrantsNothing
<1>4. ~(Turns \/ RenamesSwitch \/ UNCHANGED gateVars)
  BY DEF Turns, RenamesSwitch, gateVars
<1> QED BY <1>1, <1>2, <1>3, <1>4
        DEF GateNext, Command, RetiredCommand, GuardedCommand, OtherCommand, Answered

(* The tiers keep what is never allowed, and what needs consent, apart from*)
(* what does not.                                                          *)
LEMMA TiersApart ==
  ASSUME NEW s, Tier(s) \in {"routine", "sensitive"}
  PROVE  /\ s[1] \notin NeverDomains /\ s \notin NeverServices
         /\ s \in RoutineServices \cup SensitiveServices \/ s[1] \in SensitiveDomains
         /\ Tier(s) = "routine" => s \notin SensitiveServices /\ s[1] \notin SensitiveDomains
<1>1. s \in RoutineServices =>
        /\ s[1] \in {"light", "fan", "scene", "script", "automation", "homeassistant",
                     "persistent_notification", "backup"}
        /\ s[1] \in {"scene", "script", "automation"} => s[2] = "reload"
        /\ s[1] = "homeassistant" => s[2] \in {"update_entity", "reload_config_entry"}
  BY DEF RoutineServices
<1>2. s \in SensitiveServices =>
        /\ s[1] \in {"switch", "automation", "input_boolean", "scene", "hassio", "recorder",
                     "homeassistant"}
        /\ s[1] \in {"scene", "automation"} => s[2] \in {"turn_on", "turn_off"}
        /\ s[1] = "homeassistant" => s[2] = "restart"
  BY DEF SensitiveServices
<1>3. s \in RoutineServices => s \notin SensitiveServices
  BY <1>1, <1>2
<1>4. s \in RoutineServices => s[1] \notin SensitiveDomains
  BY <1>1 DEF SensitiveDomains
<1>5. /\ s[1] \notin NeverDomains /\ s \notin NeverServices
      /\ Tier(s) = "routine" => s \in RoutineServices
      /\ s \in RoutineServices \/ s \in SensitiveServices \/ s[1] \in SensitiveDomains
  BY DEF Tier
<1> QED BY <1>3, <1>4, <1>5

(* What is not a service call.                                             *)
LEMMA NoServiceAllowed ==
  ASSUME order'.action # "call_service",
         order'.action \notin RetiredActions \cup Unsupported,
         order'.action \in OptInActions => order'.opted,
         order'.action \in GuardedActions /\ ~order'.open =>
           order'.shape = "plain" /\ order'.updates # "off",
         order'.action \in SensitiveActions \ GuardedActions => order'.open,
         order'.action = "blueprint_install" /\ order'.shape = "extra" => order'.open
  PROVE  RunsAsAllowed'
BY Zenon DEF RunsAsAllowed

LEMMA CommandAllowed ==
  ASSUME GrantsShape, NEW cmd \in [action : AllActions, shape : Shapes], Command(cmd)
  PROVE  RunsAsAllowed'
<1>1. CASE Refused
  BY <1>1 DEF Refused, NoOrder, RunsAsAllowed
<1>2. CASE Runs(cmd)
  <2> DEFINE a == cmd.action
  <2>1. order'.action = a /\ order'.shape = cmd.shape /\ order'.updates = grants.updates
    BY <1>2, Zenon DEF Runs, NoOrder
  <2>2. (order'.open <=> Granted) /\ (order'.opted <=> grants.offsite = "on")
    BY <1>2, Zenon DEF Runs, NoOrder
  <2>3. CASE OpenCommand(cmd)
    <3>1. /\ a \notin OptInActions /\ a \notin GuardedActions /\ a \notin SensitiveActions
          /\ a \notin RetiredActions \cup Unsupported
          /\ a # "call_service" /\ a # "blueprint_install"
      BY <2>3 DEF OpenCommand, OpenActions, OptInActions, GuardedActions, SensitiveActions,
                  RetiredActions, Unsupported
    <3> QED BY <2>1, <3>1, NoServiceAllowed, Zenon
  <2>4. CASE RetiredCommand(cmd)
    BY <1>2, <2>4 DEF RetiredCommand, Refused, Runs, NoOrder
  <2>5. CASE GuardedCommand(cmd)
    <3>1. /\ a \notin OptInActions /\ a \notin SensitiveActions
          /\ a \notin RetiredActions \cup Unsupported
          /\ a # "call_service" /\ a # "blueprint_install"
      BY <2>5 DEF GuardedCommand, GuardedActions, GuardedWithoutConsent, OptInActions,
                  SensitiveActions, RetiredActions, Unsupported
    <3>2. cmd.shape = "plain" /\ grants.updates # "off"
      BY <1>2, <2>5 DEF GuardedCommand, CheckGuarded, Refused, Runs, NoOrder
    <3>3. a \notin SensitiveActions \ GuardedActions
      BY <3>1
    <3> QED BY <2>1, <3>1, <3>2, <3>3, NoServiceAllowed, Zenon
  <2>6. CASE OtherCommand(cmd)
    <3>1. /\ \/ ~IsSensitive(cmd) \/ Granted
             \/ a \in GuardedWithoutConsent /\ CheckGuarded(cmd)
          /\ CheckOptIn(cmd) /\ a \notin Unsupported
      BY <1>2, <2>6 DEF OtherCommand, Refused, Runs, NoOrder
    <3>2. a \in OptInActions => order'.opted
      BY <2>2, <3>1, Zenon DEF CheckOptIn
    <3>3. /\ a \in SensitiveActions => IsSensitive(cmd)
          /\ a = "blueprint_install" /\ cmd.shape = "extra" => IsSensitive(cmd)
      BY DEF IsSensitive, SensitiveActions
    <3>4. a \in GuardedActions => a = "agent_update"
      BY <2>6 DEF OtherCommand, GuardedActions, SensitiveActions, OptInActions, OtherActions, Unsupported
    <3>5. a \in GuardedActions /\ ~Granted => CheckGuarded(cmd)
      BY <3>1, <3>3, <3>4 DEF SensitiveActions
    <3>6. a \in SensitiveActions \ GuardedActions => Granted
      BY <3>1, <3>3 DEF GuardedWithoutConsent, GuardedActions
    <3>7. a \in GuardedActions /\ ~order'.open => order'.shape = "plain" /\ order'.updates # "off"
      BY <2>1, <2>2, <3>5, Zenon DEF CheckGuarded
    <3>8. a \in SensitiveActions \ GuardedActions => order'.open
      BY <2>2, <3>6, Zenon
    <3>9. a = "blueprint_install" /\ order'.shape = "extra" => order'.open
      BY <2>1, <2>2, <3>1, <3>3, Zenon DEF GuardedWithoutConsent
    <3>10. a # "call_service" /\ a \notin RetiredActions
      BY <2>6 DEF OtherCommand, SensitiveActions, OptInActions, OtherActions, Unsupported,
                  RetiredActions
    <3> QED BY <2>1, <3>1, <3>2, <3>7, <3>8, <3>9, <3>10, NoServiceAllowed, Zenon
  <2> QED BY <2>3, <2>4, <2>5, <2>6 DEF Command
<1> QED BY <1>1, <1>2 DEF Command, OpenCommand, RetiredCommand, GuardedCommand, OtherCommand

LEMMA CallAllowed ==
  ASSUME GrantsShape, NEW s \in Services, NEW p \in Payloads, Call(s, p)
  PROVE  RunsAsAllowed'
<1>1. CASE Refused
  BY <1>1 DEF Refused, NoOrder, RunsAsAllowed
<1>2. CASE ~Refused
  <2>1. /\ CheckCallService(s, p, Granted)
        /\ order' = [NoOrder EXCEPT !.at = "running", !.action = "call_service",
                       !.service = s, !.open = Granted, !.named = ThingsNamed(p),
                       !.acts = ActsOn(s, p)]
        /\ grants' = Switched(s, ActsOn(s, p))
    BY <1>2, Zenon DEF Call, CallService
  <2>2. /\ order'.action = "call_service" /\ order'.service = s /\ order'.acts = ActsOn(s, p)
        /\ order'.named = ThingsNamed(p) /\ (order'.open <=> Granted)
    BY <2>1, Zenon DEF NoOrder
  <2>3. grants'.held = grants.held
    BY <2>1, SwitchedShape
  <2>4. Tier(s) \in {"routine", "sensitive"} /\ (Tier(s) = "routine" \/ Granted)
    BY <2>1 DEF CheckCallService
  <2>5. s \notin NoTargetServices =>
          ActsOn(s, p) \subseteq ThingsNamed(p)
            \cup (IF "collection" \in ThingsNamed(p) THEN grants.held ELSE {})
    <3>1. "collection" \in p.ids => "collection" \in ThingsNamed(p)
      BY DEF ThingsNamed, Things, IdOf, Controls
    <3>2. s \notin NoTargetServices => "all" \notin p.ids /\ ~p.indirect /\ p.ids # {}
      BY <2>1 DEF CheckCallService, ValidTarget
    <3> QED BY <3>1, <3>2, Zenon DEF ActsOn
  <2>6. s \in SensitiveServices \/ s[1] \in SensitiveDomains => order'.open
    BY <2>2, <2>4, TiersApart
  <2>7. "call_service" \notin RetiredActions \cup Unsupported \cup OptInActions
          \cup GuardedActions \cup SensitiveActions \cup {"blueprint_install"}
    BY DEF RetiredActions, Unsupported, OptInActions, GuardedActions, SensitiveActions
  <2>8. /\ s[1] \notin NeverDomains /\ s \notin NeverServices
        /\ s \in RoutineServices \cup SensitiveServices \/ s[1] \in SensitiveDomains
    BY <2>4, TiersApart
  <2> QED BY <2>2, <2>3, <2>5, <2>6, <2>7, <2>8, Zenon DEF RunsAsAllowed
<1> QED BY <1>1, <1>2

LEMMA AllowedStep == GrantsShape /\ RunsAsAllowed /\ [GateNext]_gateVars => RunsAsAllowed'
<1> SUFFICES ASSUME GrantsShape, RunsAsAllowed, [GateNext]_gateVars PROVE RunsAsAllowed'
  OBVIOUS
<1>1. CASE Answered
  BY <1>1 DEF Answered, NoOrder, RunsAsAllowed
<1>2. CASE Turns \/ RenamesSwitch \/ UNCHANGED gateVars
  <2>1. grants'.held = grants.held /\ UNCHANGED order
    BY <1>2 DEF Turns, RenamesSwitch, gateVars, GrantsShape
  <2> QED BY <2>1, Zenon DEF RunsAsAllowed
<1> QED BY <1>1, <1>2, CommandAllowed, CallAllowed DEF GateNext

-----------------------------------------------------------------------------
(* hacs_token_set.                                                         *)

Data(d) == d = [token |-> d.token, rest |-> d.rest]
SwapShape(s) ==
  /\ s = [at |-> s.at, token |-> s.token, previous |-> s.previous, back |-> s.back,
          wrote |-> s.wrote, verified |-> s.verified, meddled |-> s.meddled]
  /\ Data(s.previous)
EntryShape(h) ==
  /\ h = [there |-> h.there, state |-> h.state, data |-> h.data, changes |-> h.changes]
  /\ Data(h.data)
HacsShape ==
  /\ EntryShape(hacs)
  /\ reply = [reason |-> reply.reason, swaps |-> reply.swaps]

With(d, token) == [token |-> token, rest |-> d.rest]
(* What a command has written stands, where nobody else wrote after it, in *)
(* one of two forms; its token has been accepted.                          *)
Safe(s) ==
  /\ s.wrote => s.verified
  /\ s.wrote /\ ~s.meddled => hacs.data \in {s.previous, With(s.previous, s.token)}
(* A swap under way has been accepted, and one that waits for HACS has     *)
(* written what HACS is to load.                                           *)
UnderWay ==
  /\ swap.at = "verifying" => ~swap.wrote /\ ~swap.back
  /\ swap.at \in {"unloading", "setting_up", "waiting"} => swap.verified
  /\ swap.at \in {"setting_up", "waiting"} =>
       /\ swap.wrote
       /\ ~swap.meddled =>
            hacs.data = IF swap.back THEN swap.previous ELSE With(swap.previous, swap.token)
Told ==
  swap.at = "idle" /\ ~swap.meddled =>
    /\ reply.reason = "changed" => hacs.state = "loaded" /\ hacs.data.token = swap.token
    /\ reply.reason = "rolled_back" => hacs.state = "loaded" /\ hacs.data = swap.previous
    /\ reply.reason \notin {"changed", "rolled_back", "reload_failed", "cut"} => ~swap.wrote

TokenInv == HacsShape /\ SwapShape(swap) /\ Safe(swap) /\ UnderWay /\ Told

LEMMA WithToken ==
  ASSUME NEW d, NEW token, Data(d)
  PROVE  [d EXCEPT !.token = token] = With(d, token)
BY DEF Data, With

(* A swap turned back, and one whose token has been accepted.              *)
LEMMA SwapMarked ==
  ASSUME NEW r, SwapShape(r), NEW s,
         s = [r EXCEPT !.back = TRUE] \/ s = [r EXCEPT !.verified = TRUE]
  PROVE  /\ SwapShape(s) /\ (s.wrote <=> r.wrote) /\ (s.meddled <=> r.meddled)
         /\ (r.verified => s.verified)
         /\ s.previous = r.previous /\ s.token = r.token
         /\ (s = [r EXCEPT !.verified = TRUE] => s.verified)
BY Zenon DEF SwapShape

LEMMA TokenInitially == TokenInit => TokenInv
<1> SUFFICES ASSUME TokenInit PROVE TokenInv
  OBVIOUS
<1>1. swap = Idle /\ reply = [reason |-> "none", swaps |-> 0]
  BY DEF TokenInit
<1>2. swap.at = "idle" /\ ~swap.wrote /\ reply.reason = "none"
  BY <1>1, Zenon DEF Idle
<1>3. SwapShape(swap)
  BY <1>1, Zenon DEF Idle, SwapShape, Nothing, Data
<1>4. HacsShape
  BY <1>1 DEF TokenInit, HacsShape, EntryShape, Data
<1> QED BY <1>2, <1>3, <1>4 DEF TokenInv, Safe, UnderWay, Told

(* Where HACS's entry stays as it is but for its state.                    *)
LEMMA TokenApplied ==
  ASSUME TokenInv, NEW now, NEW s, SwapShape(s), Safe(s), s.verified, Apply(now, s)
  PROVE  TokenInv'
<1>1. CASE WriteAnd(now, s)
  <2>1. /\ hacs' = [hacs EXCEPT !.state = now, !.data = IF s.back THEN s.previous
                                  ELSE [s.previous EXCEPT !.token = s.token]]
        /\ swap' = [s EXCEPT !.at = "setting_up", !.wrote = TRUE, !.meddled = FALSE]
        /\ reply' = reply
    BY <1>1, Zenon DEF WriteAnd
  <2>2. [s.previous EXCEPT !.token = s.token] = With(s.previous, s.token)
    BY WithToken DEF SwapShape
  <2>3. hacs'.data = IF s.back THEN s.previous ELSE With(s.previous, s.token)
    BY <2>1, <2>2, Zenon DEF TokenInv, HacsShape, EntryShape
  <2>4. /\ SwapShape(swap') /\ swap'.at = "setting_up" /\ swap'.wrote /\ swap'.verified
        /\ swap'.previous = s.previous /\ swap'.token = s.token /\ (swap'.back <=> s.back)
    BY <2>1, Zenon DEF SwapShape
  <2>5. HacsShape'
    BY <2>1, <2>3, Zenon DEF TokenInv, HacsShape, EntryShape, SwapShape, Data, With
  <2> QED BY <2>3, <2>4, <2>5, Zenon DEF TokenInv, Safe, UnderWay, Told
<1>2. CASE /\ hacs' = [hacs EXCEPT !.state = now]
           /\ swap' = [s EXCEPT !.at = "unloading"]
           /\ UNCHANGED reply
  <2>1. /\ SwapShape(swap') /\ swap'.at = "unloading" /\ (swap'.wrote <=> s.wrote)
        /\ swap'.verified /\ (swap'.meddled <=> s.meddled)
        /\ swap'.previous = s.previous /\ swap'.token = s.token
    BY <1>2, Zenon DEF SwapShape
  <2>2. hacs'.data = hacs.data /\ HacsShape'
    BY <1>2, Zenon DEF TokenInv, HacsShape, EntryShape, Data
  <2> QED BY <2>1, <2>2, Zenon DEF TokenInv, Safe, UnderWay, Told
<1> QED BY <1>1, <1>2, Zenon DEF Apply

(* An answer: HACS keeps its data.                                         *)
LEMMA TokenReplied ==
  ASSUME TokenInv, NEW s, SwapShape(s), Safe(s), swap' = [s EXCEPT !.at = "idle"],
         HacsShape', hacs'.data = hacs.data,
         \/ reply'.reason \in {"reload_failed", "cut"}
         \/ ~s.wrote /\ reply'.reason \notin {"changed", "rolled_back"}
  PROVE  TokenInv'
<1>1. /\ SwapShape(swap') /\ swap'.at = "idle" /\ (swap'.wrote <=> s.wrote)
      /\ (swap'.verified <=> s.verified) /\ (swap'.meddled <=> s.meddled)
      /\ swap'.previous = s.previous /\ swap'.token = s.token
  BY Zenon DEF SwapShape
<1>2. Safe(swap')
  BY <1>1, Zenon DEF Safe
<1> QED BY <1>1, <1>2 DEF TokenInv, Safe, UnderWay, Told

LEMMA TokenFailed ==
  ASSUME TokenInv, NEW now, swap.at \in {"unloading", "setting_up", "waiting"}, Failed(now)
  PROVE  TokenInv'
<1>1. SwapShape(swap) /\ Safe(swap) /\ swap.verified
  BY DEF TokenInv, UnderWay
<1> DEFINE s == [swap EXCEPT !.back = TRUE]
<1>2. /\ SwapShape(s) /\ (s.wrote <=> swap.wrote) /\ s.verified
      /\ (s.meddled <=> swap.meddled) /\ s.previous = swap.previous /\ s.token = swap.token
  BY <1>1, SwapMarked, Zenon
<1>3. Safe(s)
  BY <1>1, <1>2, Zenon DEF Safe
<1>4. CASE hacs' = [hacs EXCEPT !.state = now] /\ Reply("reload_failed")
  <2>1. HacsShape' /\ hacs'.data = hacs.data /\ reply'.reason = "reload_failed"
    BY <1>4, Zenon DEF TokenInv, HacsShape, EntryShape, Data, Reply
  <2> QED BY <1>1, <1>4, <2>1, TokenReplied DEF Reply
<1>5. CASE Apply(now, s)
  BY <1>1, <1>2, <1>3, <1>5, TokenApplied
<1>6. CASE /\ hacs' = [hacs EXCEPT !.state = AfterRefusal(now)]
           /\ reply' = [reason |-> "reload_failed", swaps |-> reply.swaps + 1]
           /\ swap' = [s EXCEPT !.at = "idle"]
  <2>1. HacsShape' /\ hacs'.data = hacs.data /\ reply'.reason = "reload_failed"
    BY <1>6, Zenon DEF TokenInv, HacsShape, EntryShape, Data
  <2> QED BY <1>2, <1>3, <1>6, <2>1, TokenReplied
<1> QED BY <1>4, <1>5, <1>6, Zenon DEF Failed

LEMMA TokenLoaded ==
  ASSUME TokenInv, swap.at \in {"setting_up", "waiting"}, Loaded
  PROVE  TokenInv'
<1>1. /\ HacsShape' /\ hacs'.data = hacs.data /\ hacs'.state = "loaded"
      /\ reply'.reason = IF swap.back THEN "rolled_back" ELSE "changed"
  BY Zenon DEF Loaded, Reply, TokenInv, HacsShape, EntryShape, Data
<1>2. /\ SwapShape(swap') /\ swap'.at = "idle" /\ (swap'.wrote <=> swap.wrote)
      /\ (swap'.verified <=> swap.verified) /\ (swap'.meddled <=> swap.meddled)
      /\ swap'.previous = swap.previous /\ swap'.token = swap.token
      /\ (swap'.back <=> swap.back)
  BY Zenon DEF Loaded, Reply, TokenInv, SwapShape
<1>3. Safe(swap')
  BY <1>1, <1>2, Zenon DEF Safe, TokenInv
<1>4. ~swap'.meddled =>
        hacs'.data = IF swap'.back THEN swap'.previous ELSE With(swap'.previous, swap'.token)
  BY <1>1, <1>2, Zenon DEF TokenInv, UnderWay
<1>5. Told'
  <2>1. CASE swap.back
    <3>1. reply'.reason = "rolled_back" /\ (~swap'.meddled => hacs'.data = swap'.previous)
      BY <1>1, <1>2, <1>4, <2>1, Zenon
    <3> QED BY <1>1, <3>1 DEF Told
  <2>2. CASE ~swap.back
    <3>1. /\ reply'.reason = "changed"
          /\ ~swap'.meddled => hacs'.data = With(swap'.previous, swap'.token)
      BY <1>1, <1>2, <1>4, <2>2, Zenon
    <3> QED BY <1>1, <3>1 DEF Told, With
  <2> QED BY <2>1, <2>2
<1>6. UnderWay'
  BY <1>2 DEF UnderWay
<1> QED BY <1>1, <1>2, <1>3, <1>5, <1>6, Zenon DEF TokenInv, Safe

(* What others do leaves the swap alone, but for the mark that they did.   *)
LEMMA TokenMeddled ==
  ASSUME TokenInv, HacsShape', UNCHANGED reply,
         \/ swap' = [swap EXCEPT !.meddled = TRUE]
         \/ swap' = swap /\ hacs'.data = hacs.data /\ (hacs.state = "loaded" => hacs'.state = "loaded")
  PROVE  TokenInv'
<1>1. CASE swap' = [swap EXCEPT !.meddled = TRUE]
  <2>1. /\ SwapShape(swap') /\ swap'.meddled /\ swap'.at = swap.at
        /\ (swap'.wrote <=> swap.wrote) /\ (swap'.back <=> swap.back)
        /\ (swap'.verified <=> swap.verified)
    BY <1>1, Zenon DEF TokenInv, SwapShape
  <2> QED BY <2>1, Zenon DEF TokenInv, Safe, UnderWay, Told
<1>2. CASE swap' = swap /\ hacs'.data = hacs.data
           /\ (hacs.state = "loaded" => hacs'.state = "loaded")
  BY <1>2, Zenon DEF TokenInv, Safe, UnderWay, Told
<1> QED BY <1>1, <1>2

LEMMA MeddlesShape ==
  ASSUME TokenInv, NEW new, EntryShape(new), Meddles(new)
  PROVE  TokenInv'
<1>1. EntryShape(hacs')
  BY Zenon DEF Meddles, EntryShape, Data
<1>2. HacsShape' /\ UNCHANGED reply /\ swap' = [swap EXCEPT !.meddled = TRUE]
  BY <1>1, Zenon DEF Meddles, TokenInv, HacsShape
<1> QED BY <1>2, TokenMeddled

LEMMA TokenStep == TokenInv /\ [TokenNext]_tokenVars => TokenInv'
<1> SUFFICES ASSUME TokenInv, [TokenNext]_tokenVars PROVE TokenInv'
  OBVIOUS
<1> DEFINE shape == HacsShape /\ SwapShape(swap) /\ Safe(swap)
<1>1. shape
  BY DEF TokenInv
<1>2. ASSUME NEW t \in Tokens, NEW valid \in BOOLEAN, HacsTokenSet(t, valid) PROVE TokenInv'
  <2> DEFINE asked == [Idle EXCEPT !.token = t, !.previous = hacs.data]
  <2>1. SwapShape(asked) /\ asked.at = "idle" /\ ~asked.wrote /\ ~asked.back
    <3>1. PICK r : r = Idle
      OBVIOUS
    <3>2. SwapShape(r) /\ r.at = "idle" /\ ~r.wrote /\ ~r.back
      BY <3>1, Zenon DEF Idle, SwapShape, Nothing, Data
    <3>3. PICK s : s = [r EXCEPT !.token = t, !.previous = hacs.data]
      OBVIOUS
    <3>4. SwapShape(s) /\ s.at = "idle" /\ ~s.wrote /\ ~s.back
      BY <1>1, <3>2, <3>3, Zenon DEF SwapShape, HacsShape, EntryShape
    <3> QED BY <3>1, <3>3, <3>4, Zenon
  <2>2. hacs' = hacs
    BY <1>2 DEF HacsTokenSet
  <2>3. \/ /\ reply' = [reason |-> reply'.reason, swaps |-> reply.swaps + 1]
           /\ reply'.reason \notin {"changed", "rolled_back"}
           /\ swap' = asked
        \/ swap' = [asked EXCEPT !.at = "verifying"] /\ reply' = reply
    BY <1>2 DEF HacsTokenSet
  <2>4. SwapShape(swap') /\ ~swap'.wrote /\ ~swap'.back /\ swap'.at \in {"idle", "verifying"}
    BY <2>1, <2>3, Zenon DEF SwapShape
  <2>5. HacsShape' /\ (swap'.at = "idle" => reply'.reason \notin {"changed", "rolled_back"})
    BY <1>1, <2>1, <2>2, <2>3, Zenon DEF HacsShape, SwapShape
  <2> QED BY <2>4, <2>5 DEF TokenInv, Safe, UnderWay, Told
<1>3. ASSUME NEW a \in Answers, Verified(a) PROVE TokenInv'
  <2>1. ~swap.wrote /\ hacs.data = hacs.data
    BY <1>3, Zenon DEF Verified, TokenInv, UnderWay
  <2>2. ASSUME NEW r \in {"token_rejected", "github_unreachable", "hacs_not_loaded", "hacs_busy"},
               Reply(r), UNCHANGED hacs
        PROVE  TokenInv'
    <3>1. HacsShape' /\ hacs'.data = hacs.data /\ reply'.reason = r
      BY <1>1, <2>2, Zenon DEF Reply, HacsShape
    <3>2. reply'.reason \notin {"changed", "rolled_back"}
      BY <3>1
    <3> QED BY <1>1, <2>1, <2>2, <3>1, <3>2, TokenReplied, Zenon DEF Reply
  <2> DEFINE s == [swap EXCEPT !.verified = TRUE]
  <2>3. CASE Apply("loaded", s)
    <3>1. SwapShape(s) /\ s.verified /\ ~s.wrote
      BY <1>1, <2>1, SwapMarked, Zenon
    <3>2. Safe(s)
      BY <3>1, Zenon DEF Safe
    <3> QED BY <2>3, <3>1, <3>2, TokenApplied
  <2>4. Classify(a) \in {"verified", "token_rejected", "github_unreachable"}
    BY DEF Classify
  <2>5. \/ \E r \in {"token_rejected", "github_unreachable", "hacs_not_loaded", "hacs_busy"} :
             Reply(r) /\ UNCHANGED hacs
        \/ Apply("loaded", s)
    BY <1>3, <2>4 DEF Verified
  <2> QED BY <2>2, <2>3, <2>5
<1>4. ASSUME NEW now, Unloaded(now) PROVE TokenInv'
  <2>1. swap.at = "unloading" /\ swap.verified
    BY <1>4, Zenon DEF Unloaded, TokenInv, UnderWay
  <2>2. CASE now = "not_loaded" /\ hacs.there /\ WriteAnd(now, swap)
    BY <1>1, <2>1, <2>2, TokenApplied DEF Apply
  <2>3. CASE Failed(now)
    BY <2>1, <2>3, TokenFailed
  <2> QED BY <1>4, <2>2, <2>3, Zenon DEF Unloaded
<1>5. ASSUME NEW now, SetUp(now) PROVE TokenInv'
  <2>1. swap.at = "setting_up"
    BY <1>5 DEF SetUp
  <2>2. CASE /\ hacs' = [hacs EXCEPT !.state = now]
             /\ swap' = [swap EXCEPT !.at = "waiting"]
             /\ UNCHANGED reply
    <3>1. HacsShape' /\ hacs'.data = hacs.data
      BY <1>1, <2>2, Zenon DEF HacsShape, EntryShape, Data
    <3>2. /\ SwapShape(swap') /\ swap'.at = "waiting" /\ (swap'.wrote <=> swap.wrote)
          /\ (swap'.verified <=> swap.verified) /\ (swap'.meddled <=> swap.meddled)
          /\ swap'.previous = swap.previous /\ swap'.token = swap.token
          /\ (swap'.back <=> swap.back)
      BY <1>1, <2>2, Zenon DEF SwapShape
    <3>3. Safe(swap')
      BY <1>1, <3>1, <3>2, Zenon DEF Safe
    <3>4. /\ swap.wrote /\ swap.verified
          /\ ~swap.meddled =>
               hacs.data = IF swap.back THEN swap.previous ELSE With(swap.previous, swap.token)
      BY <2>1, Zenon DEF TokenInv, UnderWay
    <3>5. UnderWay'
      BY <3>1, <3>2, <3>4, Zenon DEF UnderWay
    <3>6. swap'.at # "idle"
      BY <3>2
    <3> QED BY <3>1, <3>2, <3>3, <3>5, <3>6, Zenon DEF TokenInv, Told, Safe
  <2>3. CASE Failed(now)
    BY <2>1, <2>3, TokenFailed
  <2>4. CASE Loaded
    BY <2>1, <2>4, TokenLoaded
  <2> QED BY <1>5, <2>2, <2>3, <2>4, Zenon DEF SetUp
<1>6. CASE WaitedLoaded
  BY <1>6, TokenLoaded DEF WaitedLoaded
<1>7. CASE WaitRanOut
  BY <1>7, TokenFailed DEF WaitRanOut
<1>8. CASE TokenCut
  <2>1. HacsShape' /\ hacs'.data = hacs.data /\ reply'.reason = "cut"
    BY <1>1, <1>8, Zenon DEF TokenCut, HacsShape
  <2>2. swap' = [swap EXCEPT !.at = "idle"] /\ reply'.reason \in {"reload_failed", "cut"}
    BY <1>8, <2>1 DEF TokenCut
  <2> QED BY <1>1, <2>1, <2>2, TokenReplied, Zenon
<1>9. CASE OptionsChanged
  <2>1. PICK new : new = [hacs EXCEPT !.data.rest = hacs.changes + 1]
    OBVIOUS
  <2>2. EntryShape(new)
    BY <1>1, <2>1, Zenon DEF HacsShape, EntryShape, Data
  <2>3. Meddles(new)
    BY <1>9, <2>1 DEF OptionsChanged
  <2> QED BY <2>2, <2>3, MeddlesShape
<1>10. ASSUME NEW t \in Tokens, Reauthenticated(t) PROVE TokenInv'
  <2>1. PICK new : new = [hacs EXCEPT !.data.token = t]
    OBVIOUS
  <2>2. EntryShape(new)
    BY <1>1, <2>1, Zenon DEF HacsShape, EntryShape, Data
  <2>3. Meddles(new)
    BY <1>10, <2>1 DEF Reauthenticated
  <2> QED BY <2>2, <2>3, MeddlesShape
<1>11. CASE Reloaded
  <2>0. PICK now : Meddles([hacs EXCEPT !.state = now])
    BY <1>11 DEF Reloaded
  <2>1. PICK new : new = [hacs EXCEPT !.state = now]
    OBVIOUS
  <2>2. EntryShape(new)
    BY <1>1, <2>1, Zenon DEF HacsShape, EntryShape, Data
  <2>3. Meddles(new)
    BY <2>0, <2>1
  <2> QED BY <2>2, <2>3, MeddlesShape
<1>12. CASE Removed
  <2>1. PICK new : new = [hacs EXCEPT !.there = FALSE, !.state = "not_loaded"]
    OBVIOUS
  <2>2. EntryShape(new)
    BY <1>1, <2>1, Zenon DEF HacsShape, EntryShape, Data
  <2>3. Meddles(new)
    BY <1>12, <2>1 DEF Removed
  <2> QED BY <2>2, <2>3, MeddlesShape
<1>13. CASE LoadsLate
  <2>1. /\ HacsShape' /\ hacs'.data = hacs.data /\ UNCHANGED <<swap, reply>>
        /\ hacs.state # "loaded"
    BY <1>1, <1>13 DEF LoadsLate, HacsShape, EntryShape, Data
  <2> QED BY <2>1, TokenMeddled
<1>14. CASE QueueTurns \/ UNCHANGED tokenVars
  BY <1>1, <1>14, TokenMeddled DEF QueueTurns, tokenVars, HacsShape, EntryShape, Data
<1> QED BY <1>2, <1>3, <1>4, <1>5, <1>6, <1>7, <1>8, <1>9, <1>10, <1>11, <1>12, <1>13, <1>14
        DEF TokenNext

-----------------------------------------------------------------------------
(* Versions: the order of their numbers.                                   *)

\* A set of naturals that is not empty has a least member.
LEMMA Least ==
  ASSUME NEW S, S \subseteq Nat, S # {}
  PROVE  \E x \in S : \A y \in S : x <= y
<1> DEFINE R == OpToRel(<, Nat)
<1>1. IsWellFoundedOn(R, Nat)
  BY NatLessThanWellFounded
<1>2. \A x, y \in Nat : y < x => <<y, x>> \in R
  BY DEF OpToRel
<1> HIDE DEF R
<1>3. PICK x \in S : \A y \in S : ~(<<y, x>> \in R)
  BY <1>1, WFMin
<1>4. \A y \in S : ~(y < x)
  BY <1>2, <1>3
<1> QED BY <1>4

\* Two tuples that differ somewhere differ somewhere first.
LEMMA FirstDifference ==
  ASSUME NEW f, NEW g, NEW n \in Nat, NEW i \in 1..n, f[i] # g[i]
  PROVE  \E d \in 1..n : f[d] # g[d] /\ \A j \in 1..(d - 1) : f[j] = g[j]
<1> DEFINE S == {d \in 1..n : f[d] # g[d]}
<1>1. S \subseteq Nat /\ S # {}
  OBVIOUS
<1> HIDE DEF S
<1>2. PICK d \in S : \A y \in S : d <= y
  BY <1>1, Least
<1> QED BY <1>2 DEF S

LEMMA TuplesAre ==
  ASSUME NEW t \in Tuples
  PROVE  /\ t \in Seq(Nat) /\ Len(t) \in 0..MaxParts
         /\ DOMAIN t = 1..Len(t) /\ \A i \in Nat : At(t, i) \in Nat
         /\ \A i \in Nat : i > MaxParts => At(t, i) = 0
<1>1. PICK n \in 0..MaxParts : t \in [1..n -> Parts]
  BY DEF Tuples
<1>2. t \in [1..n -> Nat] /\ n \in Nat /\ MaxParts \in Nat
  <2>1. Parts \subseteq Nat /\ MaxParts \in Nat
    BY PartsAssumption
  <2>2. n \in Nat /\ \A i \in 1..n : t[i] \in Nat
    <3>1. n \in Nat
      BY <2>1
    <3>2. \A i \in 1..n : t[i] \in Parts
      BY <1>1
    <3> QED BY <2>1, <3>1, <3>2
  <2>3. t = [i \in 1..n |-> t[i]]
    BY <1>1
  <2> QED BY <2>1, <2>2, <2>3
<1>3. t \in Seq(Nat) /\ Len(t) = n
  BY <1>2
<1> QED BY <1>2, <1>3 DEF At

\* Which of two texts is older is decided within MaxParts.
LEMMA LessWithin ==
  ASSUME NEW s \in Seq(Nat), NEW t \in Tuples, Less(s, t)
  PROVE  \E i \in 1..MaxParts : /\ i <= Len(t)
                                /\ At(s, i) < At(t, i)
                                /\ \A j \in 1..(i - 1) : At(s, j) = At(t, j)
<1>1. PICK i \in 1..Longer(s, t) :
        At(s, i) < At(t, i) /\ \A j \in 1..(i - 1) : At(s, j) = At(t, j)
  BY DEF Less
<1>2. i \in Nat /\ i > 0
  BY <1>1, TuplesAre DEF Longer
<1>3. At(s, i) \in Nat /\ At(t, i) \in Nat /\ MaxParts \in Nat
  BY <1>2, TuplesAre, PartsAssumption DEF At
<1>4. At(t, i) # 0
  BY <1>1, <1>3
<1>5. i \in 1..Len(t) /\ i \in 1..MaxParts
  BY <1>2, <1>3, <1>4, TuplesAre DEF At
<1> QED BY <1>1, <1>5

LEMMA LessOrder ==
  ASSUME NEW s \in Tuples, NEW t \in Tuples, NEW u \in Tuples
  PROVE  /\ Less(s, t) /\ Less(t, u) => Less(s, u)
         /\ (\E i \in 1..(MaxParts + 1) : At(s, i) # At(t, i)) => Less(s, t) \/ Less(t, s)
<1>1. s \in Seq(Nat) /\ t \in Seq(Nat) /\ u \in Seq(Nat) /\ MaxParts \in Nat
      /\ Len(s) \in Nat /\ Len(t) \in Nat /\ Len(u) \in Nat
  BY TuplesAre, PartsAssumption
<1>2. \A i \in Nat : At(s, i) \in Nat /\ At(t, i) \in Nat /\ At(u, i) \in Nat
  BY TuplesAre
<1>3. ASSUME Less(s, t), Less(t, u) PROVE Less(s, u)
  <2>1. PICK i \in 1..MaxParts :
          At(s, i) < At(t, i) /\ \A j \in 1..(i - 1) : At(s, j) = At(t, j)
    BY <1>1, <1>3, LessWithin
  <2>2. PICK k \in 1..MaxParts : k <= Len(u) /\ At(t, k) < At(u, k)
                                /\ \A j \in 1..(k - 1) : At(t, j) = At(u, j)
    BY <1>1, <1>3, LessWithin
  <2>3. \A j \in 1..(i - 1) : At(s, j) = At(t, j)
    BY <2>1
  <2>4. \A j \in 1..(k - 1) : At(t, j) = At(u, j)
    BY <2>2
  <2> DEFINE d == IF i < k THEN i ELSE k
  <2>5. d \in Nat /\ d \in 1..Longer(s, u)
    BY <1>1, <2>1, <2>2 DEF Longer
  <2>6. At(s, d) < At(u, d) /\ \A j \in 1..(d - 1) : At(s, j) = At(u, j)
    <3>1. CASE i < k
      <4>1. d = i /\ At(t, i) = At(u, i) /\ \A j \in 1..(i - 1) : j \in 1..(k - 1)
        BY <2>4, <3>1
      <4> HIDE DEF d
      <4> QED BY <2>1, <2>3, <2>4, <4>1
    <3>2. CASE i = k
      <4>1. d = k /\ At(s, k) < At(t, k) /\ At(t, k) < At(u, k)
            /\ At(s, k) \in Nat /\ At(t, k) \in Nat /\ At(u, k) \in Nat
        BY <1>2, <2>1, <2>2, <3>2
      <4>2. \A j \in 1..(k - 1) : At(s, j) = At(t, j)
        BY <2>3, <3>2
      <4> HIDE DEF d
      <4> QED BY <2>4, <4>1, <4>2
    <3>3. CASE i > k
      <4>1. d = k /\ At(s, k) = At(t, k) /\ \A j \in 1..(k - 1) : j \in 1..(i - 1)
        BY <2>3, <3>3
      <4> HIDE DEF d
      <4> QED BY <2>2, <2>3, <2>4, <4>1
    <3> QED BY <2>1, <2>2, <3>1, <3>2, <3>3
  <2> QED BY <2>5, <2>6 DEF Less
<1>4. ASSUME NEW i \in 1..(MaxParts + 1), At(s, i) # At(t, i) PROVE Less(s, t) \/ Less(t, s)
  <2> DEFINE f == [j \in 1..(MaxParts + 1) |-> At(s, j)]
             g == [j \in 1..(MaxParts + 1) |-> At(t, j)]
  <2>1. PICK d \in 1..(MaxParts + 1) : f[d] # g[d] /\ \A j \in 1..(d - 1) : f[j] = g[j]
    <3>1. MaxParts + 1 \in Nat /\ f[i] # g[i]
      BY <1>1, <1>4
    <3> HIDE DEF f, g
    <3> QED BY <3>1, FirstDifference
  <2>2. d \in Nat /\ At(s, d) # At(t, d) /\ \A j \in 1..(d - 1) : At(s, j) = At(t, j)
    <3>1. d \in Nat /\ \A j \in 1..(d - 1) : j \in 1..(MaxParts + 1)
      BY <1>1
    <3>2. \A j \in 1..(MaxParts + 1) : f[j] = At(s, j) /\ g[j] = At(t, j)
      OBVIOUS
    <3> HIDE DEF f, g
    <3> QED BY <2>1, <3>1, <3>2
  <2>3. d \in 1..Longer(s, t) /\ d \in 1..Longer(t, s)
    BY <1>1, <2>2 DEF At, Longer
  <2>4. At(s, d) < At(t, d) \/ At(t, d) < At(s, d)
    <3>1. At(s, d) \in Nat /\ At(t, d) \in Nat
      BY <1>2, <2>2
    <3> QED BY <2>2, <3>1
  <2>5. \A j \in 1..(d - 1) : At(t, j) = At(s, j)
    BY <2>2
  <2> QED BY <2>2, <2>3, <2>4, <2>5 DEF Less
<1> QED BY <1>3, <1>4

LEMMA BeginsWith ==
  ASSUME NEW s \in Seq(Nat), NEW t \in Seq(Nat)
  PROVE  \A i \in DOMAIN s : i \in DOMAIN (s \o t) /\ (s \o t)[i] = s[i]
<1>1. Len(s) \in Nat /\ Len(t) \in Nat /\ DOMAIN s = 1..Len(s)
  OBVIOUS
<1>2. s \o t \in Seq(Nat) /\ Len(s \o t) = Len(s) + Len(t)
  OBVIOUS
<1>3. \A i \in 1..Len(s) : (s \o t)[i] = s[i]
  OBVIOUS
<1>4. DOMAIN (s \o t) = 1..Len(s \o t)
  BY <1>2
<1> QED BY <1>1, <1>2, <1>3, <1>4

LEMMA VersionsInOrder ==
  ASSUME NEW a \in Texts, NEW b \in Texts, NEW c \in Texts
  PROVE  ComparesTrue(a, b, c)
<1>1. a.lead \in Tuples /\ b.lead \in Tuples /\ c.lead \in Tuples /\ MaxParts \in Nat
  BY PartsAssumption DEF Texts
<1>2. /\ a.lead \in Seq(Nat) /\ b.lead \in Seq(Nat)
      /\ \A i \in Nat : At(a.lead, i) \in Nat /\ At(b.lead, i) \in Nat
  BY <1>1, TuplesAre
<1>3. \A i \in 1..(MaxParts + 1) : Value(a)[i] = At(a.lead, i) /\ Value(b)[i] = At(b.lead, i)
  BY DEF Value
<1>4. ASSUME Less(a.lead, b.lead) PROVE Before(a, b)
  <2>1. PICK i \in 1..MaxParts : /\ At(a.lead, i) < At(b.lead, i)
                                 /\ \A j \in 1..(i - 1) : At(a.lead, j) = At(b.lead, j)
    BY <1>1, <1>2, <1>4, LessWithin
  <2>2. i \in 1..(MaxParts + 1) /\ \A j \in 1..(i - 1) : j \in 1..(MaxParts + 1)
    BY <1>1
  <2>3. Value(a)[i] < Value(b)[i] /\ \A j \in 1..(i - 1) : Value(a)[j] = Value(b)[j]
    BY <1>3, <2>1, <2>2
  <2> QED BY <2>2, <2>3 DEF Before
<1>5. IsOlder(a, b) => Before(a, b)
  BY <1>4 DEF IsOlder, Parse
<1>6. ASSUME Parses(a), Parses(b), Value(a) # Value(b) PROVE IsOlder(a, b) \/ IsOlder(b, a)
  <2>1. \E i \in 1..(MaxParts + 1) : At(a.lead, i) # At(b.lead, i)
    BY <1>6 DEF Value
  <2>2. Less(a.lead, b.lead) \/ Less(b.lead, a.lead)
    BY <1>1, <2>1, LessOrder
  <2> QED BY <1>6, <2>2 DEF IsOlder, Parse
<1>7. IsOlder(a, b) /\ IsOlder(b, c) => IsOlder(a, c)
  BY <1>1, LessOrder DEF IsOlder, Parse
\* Every number of the text counts, and the target has none in a suffix: where the order
\* of those numbers is decided, or before, the dotted numbers decide it the same way.
<1>8. ASSUME CheckUpgrade(a, b) = "", Finished(b) PROVE Before(a, b)
  <2> DEFINE all == a.lead \o a.rest
  <2>1. a.rest \in Seq(Nat) /\ b.rest = <<>>
    <3>1. PICK n \in 0..1 : a.rest \in [1..n -> Parts]
      BY DEF Texts
    <3>2. Parts \subseteq Nat
      BY PartsAssumption
    <3>3. n \in Nat /\ \A i \in 1..n : a.rest[i] \in Nat
      <4>1. n \in Nat
        OBVIOUS
      <4>2. \A i \in 1..n : a.rest[i] \in Parts
        BY <3>1
      <4> QED BY <3>2, <4>1, <4>2
    <3>4. a.rest = [i \in 1..n |-> a.rest[i]]
      BY <3>1
    <3>5. a.rest \in Seq(Nat)
      BY <3>3, <3>4
    <3> QED BY <1>8, <3>5 DEF Finished
  <2>2. all \in Seq(Nat) /\ Less(all, b.lead)
    <3>1. "unreadable" # "" /\ "not newer" # ""
      OBVIOUS
    <3>2. Less(Numbers(a), Numbers(b))
      BY <1>8, <3>1, Zenon DEF CheckUpgrade, VersionNewer
    <3>3. Numbers(b) = b.lead
      BY <1>2, <2>1 DEF Numbers
    <3> QED BY <1>2, <2>1, <3>2, <3>3 DEF Numbers
  <2>3. \A i \in Nat : At(all, i) \in Nat
    <3> HIDE DEF all
    <3>1. \A i \in DOMAIN all : all[i] \in Nat
      BY <2>2
    <3> QED BY <3>1 DEF At
  <2>4. \A i \in Nat : At(a.lead, i) <= At(all, i)
    <3>1. \A i \in DOMAIN a.lead : i \in DOMAIN all /\ all[i] = a.lead[i]
      BY <1>2, <2>1, BeginsWith
    <3> HIDE DEF all
    <3> SUFFICES ASSUME NEW i \in Nat PROVE At(a.lead, i) <= At(all, i)
      OBVIOUS
    <3>2. CASE i \in DOMAIN a.lead
      <4>1. At(a.lead, i) = At(all, i)
        BY <3>1, <3>2 DEF At
      <4> QED BY <2>3, <4>1
    <3>3. CASE i \notin DOMAIN a.lead
      <4>1. At(a.lead, i) = 0
        BY <3>3 DEF At
      <4> QED BY <2>3, <4>1
    <3> QED BY <3>2, <3>3
  <2> HIDE DEF all
  <2>5. PICK i \in 1..MaxParts : /\ At(all, i) < At(b.lead, i)
                                 /\ \A j \in 1..(i - 1) : At(all, j) = At(b.lead, j)
    BY <1>1, <2>2, LessWithin
  <2>6. \A j \in 1..i : At(a.lead, j) <= At(b.lead, j)
    <3> SUFFICES ASSUME NEW j \in 1..i PROVE At(a.lead, j) <= At(b.lead, j)
      OBVIOUS
    <3>1. /\ At(a.lead, j) <= At(all, j) /\ At(all, j) \in Nat
          /\ At(a.lead, j) \in Nat /\ At(b.lead, j) \in Nat
      <4>1. j \in Nat
        OBVIOUS
      <4> QED BY <1>2, <2>3, <2>4, <4>1
    <3>2. At(all, j) <= At(b.lead, j)
      BY <2>5, <3>1
    <3> QED BY <3>1, <3>2
  <2>7. At(a.lead, i) < At(b.lead, i)
    BY <1>1, <1>2, <2>3, <2>4, <2>5
  <2>8. Value(a)[i] # Value(b)[i] /\ i \in 1..(MaxParts + 1)
    BY <1>1, <1>2, <1>3, <2>7
  <2>9. PICK d \in 1..(MaxParts + 1) :
          Value(a)[d] # Value(b)[d] /\ \A j \in 1..(d - 1) : Value(a)[j] = Value(b)[j]
    BY <1>1, <2>8, FirstDifference
  <2>10. d \in 1..i
    BY <1>1, <2>8, <2>9
  <2>11. Value(a)[d] < Value(b)[d]
    BY <1>1, <1>2, <1>3, <2>6, <2>9, <2>10
  <2> QED BY <2>9, <2>11 DEF Before
<1> QED BY <1>5, <1>6, <1>7, <1>8 DEF ComparesTrue

-----------------------------------------------------------------------------
(* The registry and its pages.                                            *)

LEMMA PageNumbers ==
  /\ MaxPage \in Nat /\ DefaultPage \in Nat /\ DefaultPage > 0 /\ DefaultPage <= MaxPage
  /\ EntityIds \subseteq Nat /\ IsFiniteSet(EntityIds)
  /\ \A asked \in Int : Limit(asked) \in Nat /\ Limit(asked) > 0
BY InventoryAssumption DEF Limit

\* Every row of the registry has a rank below their number.
LEMMA RankBelow ==
  ASSUME NEW rows, IsFiniteSet(rows), \A r \in rows : r.id \in Nat, NEW r \in rows
  PROVE  Rank(rows, r) \in Nat /\ Rank(rows, r) < Cardinality(rows)
<1> DEFINE ids == {s.id : s \in rows}
           before == {i \in ids : i < r.id}
           rest == ids \ {r.id}
<1>1. before \subseteq rest /\ r.id \in ids
  OBVIOUS
<1>2. IsFiniteSet(ids) /\ Cardinality(ids) <= Cardinality(rows)
  <2> DEFINE f == [s \in rows |-> s.id]
  <2>1. f \in Surjection(rows, ids)
    BY DEF Surjection
  <2> HIDE DEF f, ids
  <2> QED BY <2>1, FS_Surjection
<1>3. Cardinality(rows) \in Nat /\ Cardinality(ids) \in Nat
  BY <1>2, FS_CardinalityType
<1>4. Rank(rows, r) = Cardinality(before)
  BY DEF Rank
<1> HIDE DEF ids
<1>5. IsFiniteSet(rest) /\ Cardinality(rest) = Cardinality(ids) - 1
  BY <1>1, <1>2, FS_RemoveElement
<1> HIDE DEF rest, before
<1>6. IsFiniteSet(before) /\ Cardinality(before) <= Cardinality(rest)
  BY <1>1, <1>5, FS_Subset
<1>7. Cardinality(before) \in Nat
  BY <1>6, FS_CardinalityType
<1> QED BY <1>2, <1>3, <1>4, <1>5, <1>6, <1>7

\* The rows are finite in number, at most one for each entity.
LEMMA RowsFinite == IsFiniteSet(Rows) /\ Cardinality(Rows) <= Cardinality(EntityIds)
                    /\ \A r \in Rows : r.id \in Nat
<1>1. IsFiniteSet(There) /\ Cardinality(There) <= Cardinality(EntityIds)
  <2>1. There \in SUBSET EntityIds
    BY DEF There
  <2> QED BY <2>1, PageNumbers, FS_Subset
<1>2. Cardinality(There) \in Nat /\ Cardinality(EntityIds) \in Nat
  BY <1>1, PageNumbers, FS_CardinalityType
<1>4. IsFiniteSet(Rows) /\ Cardinality(Rows) <= Cardinality(There)
  <2> DEFINE f == [i \in There |-> EntityRow(i)]
  <2>1. f \in Surjection(There, Rows)
    BY DEF Surjection, Rows
  <2> HIDE DEF f
  <2> QED BY <1>1, <2>1, FS_Surjection
<1>5. Cardinality(Rows) \in Nat
  BY <1>4, FS_CardinalityType
<1>6. \A r \in Rows : r.id \in Nat
  BY PageNumbers DEF Rows, EntityRow, There
<1> QED BY <1>1, <1>2, <1>4, <1>5, <1>6

\* Every row is on one of the pages.
LEMMA OnPage ==
  ASSUME NEW n \in Nat, NEW l \in Nat, l > 0
  PROVE  \E k \in 0..n : k * l <= n /\ n < k * l + l
<1> DEFINE S == {k \in Nat : n < k * l + l}
<1>1. n \in S
  <2>1. n * l >= n
    OBVIOUS
  <2> QED BY <2>1
<1>2. PICK k \in S : \A y \in S : k <= y
  <2> S \subseteq Nat
    OBVIOUS
  <2> HIDE DEF S
  <2> QED BY <1>1, Least
<1>3. k \in 0..n /\ n < k * l + l
  BY <1>1, <1>2
<1>4. k * l <= n
  <2>1. CASE k = 0
    BY <2>1
  <2>2. CASE k > 0
    <3>1. k - 1 \in Nat /\ k - 1 \notin S
      BY <1>2, <2>2
    <3>2. (k - 1) * l + l = k * l
      BY <1>3
    <3> QED BY <1>3, <3>1, <3>2
  <2> QED BY <1>3, <2>1, <2>2
<1> QED BY <1>3, <1>4

LEMMA Apart ==
  ASSUME NEW j \in Nat, NEW k \in Nat, NEW l \in Nat, j < k
  PROVE  j * l + l <= k * l
OBVIOUS

\* The pages of rows, whatever the limit.
LEMMA PagesPartition ==
  ASSUME NEW rows, IsFiniteSet(rows), \A r \in rows : r.id \in Nat,
         NEW top \in Nat, Cardinality(rows) <= top, NEW l \in Nat, l > 0
  PROVE  LET items(k) == {r \in rows : Rank(rows, r) \in (k * l)..(k * l + l - 1)}
         IN  /\ UNION {items(k) : k \in 0..top} = rows
             /\ \A j, k \in 0..top : j # k => items(j) \cap items(k) = {}
<1> DEFINE items(k) == {r \in rows : Rank(rows, r) \in (k * l)..(k * l + l - 1)}
<1>1. \A r \in rows : Rank(rows, r) \in Nat /\ Rank(rows, r) < Cardinality(rows)
  BY RankBelow
<1>2. Cardinality(rows) \in Nat
  BY FS_CardinalityType
<1>3. ASSUME NEW r \in rows PROVE \E k \in 0..top : r \in items(k)
  <2>1. PICK k \in 0..Rank(rows, r) : k * l <= Rank(rows, r) /\ Rank(rows, r) < k * l + l
    BY <1>1, OnPage
  <2>2. k \in 0..top /\ k * l \in Int
    BY <1>1, <1>2
  <2>3. Rank(rows, r) \in (k * l)..(k * l + l - 1)
    BY <1>1, <2>1, <2>2
  <2> QED BY <2>2, <2>3
<1>4. ASSUME NEW j \in 0..top, NEW k \in 0..top, j # k, NEW r \in items(j), r \in items(k)
      PROVE  FALSE
  <2>1. /\ j \in Nat /\ k \in Nat /\ j * l \in Int /\ k * l \in Int
        /\ Rank(rows, r) \in Nat
        /\ j * l <= Rank(rows, r) /\ Rank(rows, r) < j * l + l
        /\ k * l <= Rank(rows, r) /\ Rank(rows, r) < k * l + l
    BY <1>1, <1>4
  <2>2. j < k \/ k < j
    BY <1>4, <2>1
  <2>3. j * l + l <= k * l \/ k * l + l <= j * l
    BY <2>1, <2>2, Apart
  <2> QED BY <2>1, <2>3
<1> QED BY <1>3, <1>4

LEMMA PagesAlwaysAddUp == PagesAddUp
<1> SUFFICES ASSUME NEW room, NEW domain \in Domains \cup {"any"}, NEW limit \in 0..(MaxPage + 1)
             PROVE
    LET page(k) == Paginate(Rows, room, domain, k * Limit(limit), limit)
        wanted == {r \in Rows : (room = Anywhere \/ r.area = room) /\ domain \in {"any", r.domain}}
        pages == 0..Cardinality(EntityIds)
    IN  /\ UNION {page(k).items : k \in pages} = wanted
        /\ \A j, k \in pages : j # k => page(j).items \cap page(k).items = {}
        /\ page(0).matched = Cardinality(wanted)
        /\ \A d \in Domains : page(0).chips[d] = Paginate(Rows, room, d, 0, 0).matched
  BY DEF PagesAddUp
<1> DEFINE l == Limit(limit)
           wanted == {r \in Rows : Matches(r, room) /\ domain \in {"any", r.domain}}
           top == Cardinality(EntityIds)
           items(k) == {r \in wanted : Rank(wanted, r) \in (k * l)..(k * l + l - 1)}
<1>1. l \in Nat /\ l > 0
  BY PageNumbers
<1>2. /\ IsFiniteSet(wanted) /\ Cardinality(wanted) <= top /\ \A r \in wanted : r.id \in Nat
      /\ top \in Nat
  <2>1. wanted \in SUBSET Rows
    OBVIOUS
  <2> HIDE DEF wanted
  <2>2. IsFiniteSet(wanted) /\ Cardinality(wanted) <= Cardinality(Rows)
    BY <2>1, RowsFinite, FS_Subset
  <2>3. Cardinality(wanted) \in Nat /\ Cardinality(Rows) \in Nat /\ top \in Nat
    BY <2>2, RowsFinite, PageNumbers, FS_CardinalityType
  <2> QED BY <2>1, <2>2, <2>3, RowsFinite
<1>3. /\ UNION {items(k) : k \in 0..top} = wanted
      /\ \A j, k \in 0..top : j # k => items(j) \cap items(k) = {}
  <2> HIDE DEF wanted, top, l
  <2> QED BY <1>1, <1>2, PagesPartition
<1>4. ASSUME NEW k \in 0..top
      PROVE  /\ Paginate(Rows, room, domain, k * l, limit).items = items(k)
             /\ Paginate(Rows, room, domain, k * l, limit).matched = Cardinality(wanted)
             /\ Paginate(Rows, room, domain, k * l, limit).chips = Chips(Rows, room, domain)
  <2>1. k * l \in Nat
    BY <1>1, <1>2
  <2>2. Offset(k * l) = k * l
    BY <2>1 DEF Offset
  <2> QED BY <2>2 DEF Paginate
<1>5. \A d \in Domains : Chips(Rows, room, domain)[d] = Paginate(Rows, room, d, 0, 0).matched
  BY DEF Chips, Paginate, Domains
<1> DEFINE page(k) == Paginate(Rows, room, domain, k * l, limit)
<1>6. 0 \in 0..top
  BY <1>2
<1>7. /\ UNION {page(k).items : k \in 0..top} = wanted
      /\ \A j, k \in 0..top : j # k => page(j).items \cap page(k).items = {}
  <2>1. \A k \in 0..top : page(k).items = items(k)
    BY <1>4
  <2> HIDE DEF page, items, wanted, top
  <2> QED BY <1>3, <2>1
<1>8. /\ page(0).matched = Cardinality(wanted)
      /\ \A d \in Domains : page(0).chips[d] = Paginate(Rows, room, d, 0, 0).matched
  BY <1>4, <1>5, <1>6
<1>9. wanted = {r \in Rows : (room = Anywhere \/ r.area = room) /\ domain \in {"any", r.domain}}
  BY DEF Matches
<1> HIDE DEF wanted
<1> QED BY <1>7, <1>8, <1>9

-----------------------------------------------------------------------------
(* What the manager may read.                                              *)

Words == Names \cup Others \cup {""}
Text == [word : Words, hidden : BOOLEAN]
Row == [id : Nat, domain : Domains, name : Text, area : Text, areaId : AreaIds \cup {0},
        disabled : BOOLEAN, registered : BOOLEAN]
Entity == [kind : {"none", "registered", "unregistered"}, name : Text, area : AreaIds \cup {0},
           disabled : BOOLEAN]
Items == (AreaIds \X Text) \cup (EntityIds \X AreaIds) \cup (Names \X Names)

PlaceTypes ==
  /\ place \in [accounts : [Names -> {"none", "person", "panel"}], persons : SUBSET Names,
                rows : [EntityIds -> Entity], areas : [AreaIds -> Text], location : Text,
                readable : BOOLEAN, changes : Nat, orders : Nat]

SnapInv ==
  /\ snap.at \in 0..(Sections + 1) /\ snap.texts \subseteq Text /\ snap.rows \subseteq Row
  /\ snap = [at |-> snap.at, texts |-> snap.texts, rows |-> snap.rows, listed |-> snap.listed,
             standing |-> snap.standing]
  /\ snap.standing \subseteq HouseholdNames

\* What is asked for is of the home, and a page is of the rows as they were when it
\* was made.
QueryInv ==
  /\ query.at \in {"idle", "running", "answering"} /\ query.before \subseteq Names
  /\ query = [at |-> query.at, before |-> query.before, what |-> query.what,
              todo |-> query.todo, page |-> query.page, rows |-> query.rows,
              texts |-> query.texts]
  /\ query.rows \subseteq Row /\ IsFiniteSet(query.rows) /\ query.texts \subseteq Text
  /\ query.what \in {"area_upsert", "area_delete"} => query.todo \subseteq AreaIds \X Text
  /\ query.what = "entities_assign" => query.todo \subseteq EntityIds \X AreaIds
  /\ query.what = "user_update" => query.todo \subseteq Names \X Names
  /\ IF query.what = "page"
     THEN query.page = Paginate(query.rows, Anywhere, "any", copy.next, DefaultPage)
     ELSE query.page = NoPage

\* The copy is made of rows of one registry, under one filter: in the facts a digest
\* is made of they are those its digest has.
CopiedTo(upTo) ==
  {ScrubRow(copy.digest.names, r) : r \in
     {x \in copy.digest.rows : Rank(copy.digest.rows, x) < upTo}}
CopyInv ==
  /\ copy = [at |-> copy.at, items |-> copy.items, digest |-> copy.digest,
             next |-> copy.next, wanted |-> copy.wanted]
  /\ copy.at \in {"none", "fetching", "done"} /\ copy.next \in Nat
  /\ copy.next = 0 <=> copy.at # "fetching"
  /\ copy.at = "fetching" => FactsOf(copy.items) = CopiedTo(copy.next)
  /\ copy.at = "done" =>
       FactsOf(copy.items) = {ScrubRow(copy.digest.names, r) : r \in copy.digest.rows}

InventoryInv == PlaceTypes /\ SnapInv /\ QueryInv /\ CopyInv

-----------------------------------------------------------------------------
(* Texts, rows and the home.                                               *)
LEMMA ScrubTypes ==
  ASSUME NEW filter, NEW t \in Text
  PROVE  /\ Scrub(filter, t) \in Text /\ Reveal(filter, t) \in Text
         /\ t.word \in filter => Scrub(filter, t).hidden
         /\ Scrub(filter, t).word = t.word
BY DEF Scrub, Reveal, Text, Plain

LEMMA PlainTypes ==
  ASSUME NEW w \in Words
  PROVE  Plain(w) \in Text
BY DEF Plain, Text

LEMMA ScrubRowTypes ==
  ASSUME NEW filter, NEW r \in Row
  PROVE  /\ ScrubRow(filter, r) \in Row
         /\ ScrubRow(filter, r).name = Scrub(filter, r.name)
<1>1. r.name \in Text /\ r.area \in Text
  BY DEF Row
<1>2. Scrub(filter, r.name) \in Text /\ Scrub(filter, r.area) \in Text
  BY <1>1, ScrubTypes
<1>3. ScrubRow(filter, r) = [r EXCEPT !.name = Scrub(filter, r.name), !.area = Scrub(filter, r.area)]
  BY DEF ScrubRow
<1> HIDE DEF Text
<1> QED BY <1>2, <1>3 DEF Row

\* The facts of a row, hidden or not, and where it is among the others.
LEMMA FactsScrubbed ==
  ASSUME NEW filter, NEW r \in Row
  PROVE  Facts(ScrubRow(filter, r)) = ScrubRow(filter, Facts(r))
<1> DEFINE name == Scrub(filter, r.name)
           area == Scrub(filter, r.area)
<1>1. ScrubRow(filter, r) = [r EXCEPT !.name = name, !.area = area]
  BY DEF ScrubRow
<1>2. ScrubRow(filter, Facts(r)) = [Facts(r) EXCEPT !.name = name, !.area = area]
  BY DEF ScrubRow, Facts
<1> HIDE DEF name, area, Text
<1> DEFINE shown == ScrubRow(filter, r)
<1>3. /\ shown.id = r.id /\ shown.domain = r.domain /\ shown.name = name /\ shown.area = area
      /\ shown.disabled = r.disabled /\ shown.registered = r.registered
  BY <1>1 DEF Row
<1>4. ScrubRow(filter, Facts(r)) =
        [id |-> r.id, domain |-> r.domain, name |-> name, area |-> area,
         disabled |-> r.disabled, registered |-> r.registered]
  BY <1>2 DEF Facts
<1> HIDE DEF shown
<1>5. Facts(shown) = ScrubRow(filter, Facts(r))
  BY <1>3, <1>4 DEF Facts
<1> QED BY <1>5 DEF shown

LEMMA FactsOfScrubbed ==
  ASSUME NEW filter, NEW rows, rows \subseteq Row
  PROVE  FactsOf({ScrubRow(filter, r) : r \in rows}) = {ScrubRow(filter, x) : x \in FactsOf(rows)}
<1>1. \A r \in rows : Facts(ScrubRow(filter, r)) = ScrubRow(filter, Facts(r))
  BY FactsScrubbed
<1> QED BY <1>1 DEF FactsOf

LEMMA FactsRank ==
  ASSUME NEW rows, NEW r \in rows
  PROVE  Rank(FactsOf(rows), Facts(r)) = Rank(rows, r)
<1>1. \A s \in rows : Facts(s).id = s.id
  BY DEF Facts
<1>2. {s.id : s \in FactsOf(rows)} = {s.id : s \in rows}
  BY <1>1 DEF FactsOf
<1> QED BY <1>1, <1>2 DEF Rank

\* What a text that is sent in the clear says, none of the names hidden says.
LEMMA ScrubbedSays ==
  ASSUME NEW filter, NEW texts, texts \subseteq Text
  PROVE  Clear({Scrub(filter, t) : t \in texts}) \cap filter = {}
<1>1. \A t \in texts : t.word \in filter => Scrub(filter, t).hidden
  BY ScrubTypes
<1>2. \A t \in texts : Scrub(filter, t).word = t.word
  BY ScrubTypes
<1> QED BY <1>1, <1>2 DEF Clear

LEMMA HomeTypes ==
  ASSUME PlaceTypes
  PROVE  /\ Rows \subseteq Row /\ HomeTexts \subseteq Text /\ HouseholdNames \subseteq Names
         /\ place.location \in Text
<1>1. \A i \in There : i \in Nat /\ place.rows[i] \in Entity
  BY PageNumbers DEF There, PlaceTypes
<1>2. \A i \in There : AreaName(place.rows[i].area) \in Text
  <2>1. Plain("") \in Text
    BY PlainTypes DEF Words
  <2>2. \A a \in AreaIds : place.areas[a] \in Text
    BY DEF PlaceTypes
  <2>3. \A i \in There : place.rows[i].area \in AreaIds \cup {0}
    BY <1>1 DEF Entity
  <2> QED BY <2>1, <2>2, <2>3 DEF AreaName
<1>3. \A i \in There : EntityRow(i) \in Row
  <2>1. \A i \in There : /\ place.rows[i].area \in AreaIds \cup {0}
                         /\ place.rows[i].name \in Text /\ place.rows[i].disabled \in BOOLEAN
    BY <1>1 DEF Entity
  <2> HIDE DEF Text
  <2> QED BY <1>1, <1>2, <2>1 DEF EntityRow, Row, DomainOf, Domains
<1>4. Rows \subseteq Row
  BY <1>3 DEF Rows
<1>5. HomeTexts \subseteq Text
  BY <1>4 DEF HomeTexts, Row, PlaceTypes
<1> QED BY <1>4, <1>5 DEF HouseholdNames, NamesOf, PlaceTypes

\* The home changes under a snapshot.
LEMMA SnapBecomes ==
  ASSUME SnapInv, NEW new, Becomes(new)
  PROVE  SnapInv'
<1> USE DEF SnapInv, Becomes
<1>1. place' = new /\ snap'.standing = snap.standing \cap NamesOf(new)
  OBVIOUS
<1>2. snap'.standing \subseteq HouseholdNames'
  BY <1>1 DEF HouseholdNames
<1> QED BY <1>2

LEMMA SnapStands ==
  ASSUME SnapInv, UNCHANGED <<place, snap>>
  PROVE  SnapInv'
BY DEF SnapInv, HouseholdNames

LEMMA QueryStands ==
  ASSUME QueryInv, UNCHANGED query, copy'.next = copy.next
  PROVE  QueryInv'
BY DEF QueryInv

LEMMA CopyStands ==
  ASSUME CopyInv, UNCHANGED copy
  PROVE  CopyInv'
BY DEF CopyInv, CopiedTo

LEMMA NoPageShown == NoPage.items = {}
BY DEF NoPage, Paginate

LEMMA InventoryInitially == InventoryInit => InventoryInv
<1> SUFFICES ASSUME InventoryInit PROVE InventoryInv
  OBVIOUS
<1>1. snap = NoSnap /\ query = NoQuery /\ copy = NoCopy
  BY DEF InventoryInit
<1>2. SnapInv
  <2>1. 0 \in 0..(Sections + 1)
    BY InventoryAssumption
  <2> QED BY <1>1, <2>1 DEF SnapInv, NoSnap
<1>3. QueryInv
  BY <1>1, FS_EmptySet DEF QueryInv, NoQuery
<1>4. CopyInv
  BY <1>1 DEF CopyInv, NoCopy
<1>5. PICK who \in Names \ Generic, other \in Others \ {""} :
       place = [accounts |-> [Nobody EXCEPT ![who] = "person"], persons |-> Generic,
                rows |-> [i \in EntityIds |->
                  LET second == \E j \in EntityIds : j < i
                  IN  [kind |-> IF second THEN "registered" ELSE "unregistered",
                       name |-> Plain(who), area |-> IF second THEN Room ELSE 0,
                       disabled |-> FALSE]],
                areas |-> [a \in AreaIds |-> Plain(other)], location |-> Plain(who),
                readable |-> TRUE, changes |-> 0, orders |-> 0]
  BY DEF InventoryInit
<1>6. PlaceTypes
  <2>1. Plain(who) \in Text /\ Plain(other) \in Text
    BY PlainTypes DEF Words
  <2>2. [Nobody EXCEPT ![who] = "person"] \in [Names -> {"none", "person", "panel"}]
    BY DEF Nobody
  <2>3. Generic \in SUBSET Names
    BY InventoryAssumption
  <2>4. [i \in EntityIds |->
          LET second == \E j \in EntityIds : j < i
          IN  [kind |-> IF second THEN "registered" ELSE "unregistered",
               name |-> Plain(who), area |-> IF second THEN Room ELSE 0,
               disabled |-> FALSE]] \in [EntityIds -> Entity]
    <3>1. Room \in AreaIds
      BY InventoryAssumption DEF Room
    <3> QED BY <2>1, <3>1 DEF Entity
  <2> QED BY <1>5, <2>1, <2>2, <2>3, <2>4 DEF PlaceTypes
<1> QED BY <1>6, <1>2, <1>3, <1>4 DEF InventoryInv

\* A snapshot takes in what the home is, a part at a time.
LEMMA SnapStep ==
  ASSUME InventoryInv, SnapshotBegins \/ SnapshotSent \/ (\E ok \in BOOLEAN : SectionRead(ok))
  PROVE  InventoryInv'
<1>1. PlaceTypes /\ SnapInv /\ QueryInv /\ CopyInv /\ UNCHANGED <<place, query>>
  BY DEF InventoryInv, SnapshotBegins, SnapshotSent, SectionRead
<1>2. PlaceTypes'
  BY <1>1 DEF PlaceTypes
<1>3. /\ Rows \subseteq Row /\ HomeTexts \subseteq Text /\ HouseholdNames \subseteq Names
      /\ place.location \in Text /\ HouseholdNames' = HouseholdNames
  BY <1>1, HomeTypes DEF HouseholdNames
<1>4. Sections \in Nat /\ Sections > 0
  BY InventoryAssumption
<1>5. SnapInv'
  <2>1. CASE SnapshotBegins
    <3>1. snap' = [at |-> 1, texts |-> {place.location}, rows |-> {}, listed |-> FALSE,
                   standing |-> HouseholdNames]
      BY <2>1 DEF SnapshotBegins, NoSnap
    <3> QED BY <1>3, <1>4, <3>1 DEF SnapInv
  <2>2. CASE SnapshotSent
    <3>1. snap' = [at |-> 0, texts |-> {}, rows |-> {}, listed |-> FALSE, standing |-> {}]
      BY <2>2 DEF SnapshotSent, NoSnap
    <3> QED BY <1>4, <3>1 DEF SnapInv
  <2>3. ASSUME NEW ok \in BOOLEAN, SectionRead(ok) PROVE SnapInv'
    <3>1. /\ snap.at \in 1..Sections /\ snap'.at = snap.at + 1
          /\ snap'.texts \in {snap.texts, snap.texts \cup HomeTexts}
          /\ snap'.rows \in {snap.rows, Rows} /\ snap'.standing = snap.standing
          /\ snap' = [at |-> snap'.at, texts |-> snap'.texts, rows |-> snap'.rows,
                      listed |-> snap'.listed, standing |-> snap'.standing]
      BY <1>1, <2>3 DEF SectionRead, SnapInv
    <3>2. snap'.at \in 0..(Sections + 1)
      BY <1>4, <3>1
    <3> QED BY <1>1, <1>3, <3>1, <3>2 DEF SnapInv
  <2> QED BY <2>1, <2>2, <2>3
<1>6. CASE UNCHANGED copy
  BY <1>1, <1>2, <1>5, <1>6, QueryStands, CopyStands DEF InventoryInv
<1>7. CASE SnapshotSent /\ copy' = [copy EXCEPT !.wanted = Digest(HouseholdNames, snap.rows)]
  <2>1. /\ copy'.at = copy.at /\ copy'.items = copy.items /\ copy'.digest = copy.digest
        /\ copy'.next = copy.next
        /\ copy' = [at |-> copy'.at, items |-> copy'.items, digest |-> copy'.digest,
                    next |-> copy'.next, wanted |-> copy'.wanted]
    BY <1>1, <1>7 DEF CopyInv
  <2>2. CopyInv'
    BY <1>1, <2>1 DEF CopyInv, CopiedTo
  <2> QED BY <1>1, <1>2, <1>5, <2>1, <2>2, QueryStands DEF InventoryInv
<1> QED BY <1>6, <1>7 DEF SnapshotBegins, SnapshotSent, SectionRead

\* A page is of the rows as they are.
LEMMA FetchStep ==
  ASSUME InventoryInv, FetchPage
  PROVE  InventoryInv'
<1>1. /\ PlaceTypes /\ SnapInv /\ QueryInv /\ CopyInv /\ UNCHANGED <<place, snap, copy>>
      /\ query' = [NoQuery EXCEPT !.at = "answering", !.before = HouseholdNames, !.what = "page",
                !.rows = Rows, !.texts = {},
                !.page = Paginate(Rows, Anywhere, "any", copy.next, DefaultPage)]
  BY DEF InventoryInv, FetchPage
<1>2. query' = [at |-> "answering", before |-> HouseholdNames, what |-> "page", todo |-> {},
                page |-> Paginate(Rows, Anywhere, "any", copy.next, DefaultPage),
                rows |-> Rows, texts |-> {}]
  BY <1>1 DEF NoQuery
<1>3. Rows \subseteq Row /\ HouseholdNames \subseteq Names /\ IsFiniteSet(Rows)
  BY <1>1, HomeTypes, RowsFinite
<1>4. QueryInv'
  BY <1>1, <1>2, <1>3 DEF QueryInv
<1> QED BY <1>1, <1>4, SnapStands, CopyStands DEF InventoryInv, PlaceTypes

\* An order asks for things in this home.
LEMMA OrderStep ==
  ASSUME InventoryInv, AsksArea \/ AsksAreaDelete \/ AsksAssign \/ AsksAccount
  PROVE  InventoryInv'
<1>1. PlaceTypes /\ SnapInv /\ QueryInv /\ CopyInv
  BY DEF InventoryInv
<1>2. PICK what, todo :
        /\ Ordered(what, todo) /\ what # "page"
        /\ what \in {"area_upsert", "area_delete"} => todo \subseteq AreaIds \X Text
        /\ what = "entities_assign" => todo \subseteq EntityIds \X AreaIds
        /\ what = "user_update" => todo \subseteq Names \X Names
  <2>1. Anywhere \in Text /\ \A w \in Names : [word |-> w, hidden |-> TRUE] \in Text
    BY DEF Anywhere, Plain, Text, Words
  <2>2. CASE AsksArea
    BY <2>1, <2>2 DEF AsksArea
  <2>3. CASE AsksAreaDelete
    BY <2>1, <2>3 DEF AsksAreaDelete
  <2>4. CASE AsksAssign
    BY <2>4 DEF AsksAssign
  <2>5. CASE AsksAccount
    BY <2>5 DEF AsksAccount
  <2> QED BY <2>2, <2>3, <2>4, <2>5
<1>3. /\ query' = [at |-> "running", before |-> HouseholdNames, what |-> what, todo |-> todo,
                   page |-> NoPage, rows |-> {}, texts |-> {}]
      /\ place' = [place EXCEPT !.orders = @ + 1] /\ UNCHANGED <<snap, copy>>
  BY <1>2 DEF Ordered, Arrives, NoQuery
<1>4. PlaceTypes' /\ HouseholdNames' = HouseholdNames
  BY <1>1, <1>3 DEF PlaceTypes, HouseholdNames, NamesOf
<1>5. HouseholdNames \subseteq Names
  BY <1>1, HomeTypes
<1>6. QueryInv'
  BY <1>2, <1>3, <1>5, FS_EmptySet DEF QueryInv
<1>7. SnapInv'
  BY <1>1, <1>3, <1>4 DEF SnapInv
<1> QED BY <1>1, <1>3, <1>4, <1>6, <1>7, CopyStands DEF InventoryInv

\* What an order asks for becomes of the home, or fails.
LEMMA ItemStep ==
  ASSUME InventoryInv, NEW item \in query.todo, ItemDone(item)
  PROVE  InventoryInv'
<1>1. PlaceTypes /\ SnapInv /\ QueryInv /\ CopyInv /\ UNCHANGED copy
  BY DEF InventoryInv, ItemDone
<1>2. query.what = "area_upsert" => Reveal(query.before, item[2]) \in Text
  <2>1. query.what = "area_upsert" => item[2] \in Text
    BY <1>1 DEF QueryInv
  <2> QED BY <2>1, ScrubTypes
<1>3. PICK new : Becomes(new) /\ new \in
        [accounts : [Names -> {"none", "person", "panel"}], persons : SUBSET Names,
         rows : [EntityIds -> Entity], areas : [AreaIds -> Text], location : Text,
         readable : BOOLEAN, changes : Nat, orders : Nat]
  <2>1. CASE query.what = "area_upsert" /\ AreaUpserted(item[1], item[2])
    <3>1. PICK new : Becomes(new)
            /\ new = [place EXCEPT !.areas[item[1]] = Reveal(query.before, item[2])]
      BY <2>1 DEF AreaUpserted
    <3> QED BY <1>1, <1>2, <2>1, <3>1 DEF PlaceTypes
  <2>2. CASE query.what = "area_delete" /\ AreaDeleted(item[1])
    <3>1. PICK new : Becomes(new)
            /\ new = [place EXCEPT !.rows = [i \in EntityIds |->
                  IF @[i].area = item[1] THEN [@[i] EXCEPT !.area = 0] ELSE @[i]]]
      BY <2>2 DEF AreaDeleted
    <3>2. \A i \in EntityIds : [place.rows[i] EXCEPT !.area = 0] \in Entity
      BY <1>1 DEF PlaceTypes, Entity
    <3>3. [i \in EntityIds |-> IF place.rows[i].area = item[1]
             THEN [place.rows[i] EXCEPT !.area = 0] ELSE place.rows[i]] \in [EntityIds -> Entity]
      BY <1>1, <3>2 DEF PlaceTypes
    <3> QED BY <1>1, <3>1, <3>3 DEF PlaceTypes
  <2>3. CASE query.what = "entities_assign" /\ EntityAssigned(item[1], item[2])
    <3>1. PICK new : Becomes(new) /\ new = [place EXCEPT !.rows[item[1]].area = item[2]]
      BY <2>3 DEF EntityAssigned
    <3>2. item[1] \in EntityIds /\ item[2] \in AreaIds
      BY <1>1, <2>3 DEF QueryInv
    <3>3. [place.rows[item[1]] EXCEPT !.area = item[2]] \in Entity
      BY <1>1, <3>2 DEF PlaceTypes, Entity
    <3>4. new = [place EXCEPT !.rows = [place.rows EXCEPT ![item[1]] =
                                          [place.rows[item[1]] EXCEPT !.area = item[2]]]]
      BY <3>1
    <3>5. [place.rows EXCEPT ![item[1]] = [place.rows[item[1]] EXCEPT !.area = item[2]]]
            \in [EntityIds -> Entity]
      BY <1>1, <3>3 DEF PlaceTypes
    <3> QED BY <1>1, <3>1, <3>4, <3>5 DEF PlaceTypes
  <2>4. CASE query.what = "user_update" /\ AccountRenamed(item[1], item[2])
    <3>1. PICK new : Becomes(new)
            /\ new = [place EXCEPT !.accounts[item[2]] = place.accounts[item[1]],
                                   !.accounts[item[1]] = "none"]
      BY <2>4 DEF AccountRenamed
    <3>2. item[1] \in Names /\ item[2] \in Names
      BY <1>1, <2>4 DEF QueryInv
    <3>3. [place.accounts EXCEPT ![item[2]] = place.accounts[item[1]], ![item[1]] = "none"]
            \in [Names -> {"none", "person", "panel"}]
      BY <1>1, <3>2 DEF PlaceTypes
    <3> DEFINE renamed == [place.accounts EXCEPT ![item[2]] = place.accounts[item[1]],
                                                 ![item[1]] = "none"]
    <3>4. new = [place EXCEPT !.accounts = renamed]
      BY <1>1, <3>1, Zenon DEF PlaceTypes
    <3> HIDE DEF renamed
    <3>5. renamed \in [Names -> {"none", "person", "panel"}]
      BY <3>3 DEF renamed
    <3>6. Becomes(new)
      BY <3>1, Zenon
    <3> QED BY <1>1, <3>4, <3>5, <3>6 DEF PlaceTypes
  <2> QED BY <2>1, <2>2, <2>3, <2>4 DEF ItemDone
<1>4. PlaceTypes' /\ SnapInv'
  BY <1>1, <1>3, SnapBecomes DEF PlaceTypes, Becomes
<1>5. QueryInv'
  <2>1. /\ query.at = "running" /\ query'.at = query.at /\ query'.before = query.before
        /\ query'.what = query.what /\ query'.todo = query.todo \ {item}
        /\ query'.page = query.page /\ query'.rows = query.rows
        /\ query' = [at |-> query'.at, before |-> query'.before, what |-> query'.what,
                     todo |-> query'.todo, page |-> query'.page, rows |-> query'.rows,
                     texts |-> query'.texts]
        /\ query'.texts = query.texts \cup
             (IF query.what = "user_update" THEN {Plain(item[1]), Plain(item[2])}
              ELSE IF query.what = "area_upsert" THEN {Reveal(query.before, item[2])} ELSE {})
    BY <1>1 DEF ItemDone, QueryInv
  <2>2. query.what = "user_update" => Plain(item[1]) \in Text /\ Plain(item[2]) \in Text
    BY <1>1, PlainTypes DEF QueryInv, Words
  <2>3. query'.texts \subseteq Text
    BY <1>1, <1>2, <2>1, <2>2 DEF QueryInv
  <2> QED BY <1>1, <2>1, <2>3 DEF QueryInv
<1> QED BY <1>1, <1>4, <1>5, CopyStands DEF InventoryInv

LEMMA QuietQueryStep ==
  ASSUME InventoryInv, ItemsDone \/ (\E item \in query.todo : ItemFailed(item)) \/ SocketLost
  PROVE  InventoryInv'
<1>1. PlaceTypes /\ SnapInv /\ QueryInv /\ CopyInv /\ UNCHANGED <<place, copy>>
  BY DEF InventoryInv, ItemsDone, ItemFailed, SocketLost
<1>2. PlaceTypes' /\ CopyInv'
  BY <1>1, CopyStands DEF PlaceTypes
<1>3. QueryInv'
  <2>1. CASE ItemsDone
    BY <1>1, <2>1 DEF ItemsDone, QueryInv
  <2>2. ASSUME NEW item \in query.todo, ItemFailed(item) PROVE QueryInv'
    BY <1>1, <2>2 DEF ItemFailed, QueryInv
  <2>3. CASE SocketLost
    BY <2>3, FS_EmptySet DEF SocketLost, QueryInv, NoQuery
  <2> QED BY <2>1, <2>2, <2>3
<1>4. SnapInv'
  <2>1. CASE UNCHANGED snap
    BY <1>1, <2>1, SnapStands
  <2>2. CASE snap' = NoSnap
    <3>1. 0 \in 0..(Sections + 1)
      BY InventoryAssumption
    <3> QED BY <2>2, <3>1 DEF SnapInv, NoSnap
  <2> QED BY <2>1, <2>2 DEF ItemsDone, ItemFailed, SocketLost
<1> QED BY <1>2, <1>3, <1>4 DEF InventoryInv

\* A page that is answered is joined to those before it that have its digest.
LEMMA JoinedRows ==
  ASSUME QueryInv, CopyInv, query.what = "page", NEW filter
  PROVE  LET new == Joined(filter)
             known(names, some, below) ==
               {ScrubRow(names, r) : r \in {x \in some : Rank(some, x) < below}}
         IN  /\ new = [at |-> new.at, items |-> new.items, digest |-> new.digest,
                       next |-> new.next, wanted |-> new.wanted]
             /\ new.at \in {"none", "fetching", "done"} /\ new.next \in Nat
             /\ new.next = 0 <=> new.at # "fetching"
             /\ new.at = "fetching" =>
                  FactsOf(new.items) = known(new.digest.names, new.digest.rows, new.next)
             /\ new.at = "done" =>
                  FactsOf(new.items) = {ScrubRow(new.digest.names, r) : r \in new.digest.rows}
<1> DEFINE new == Joined(filter)
           rows == query.rows
           facts == FactsOf(rows)
           known(names, some, below) ==
             {ScrubRow(names, r) : r \in {x \in some : Rank(some, x) < below}}
           digest == Digest(filter, rows)
           page == {ScrubRow(filter, r) : r \in query.page.items}
           fits == copy.at = "fetching" /\ copy.digest = digest
           upTo == copy.next + DefaultPage
           end == upTo >= Cardinality(rows)
           joined == IF copy.next = 0 THEN page ELSE copy.items \cup page
<1>1. /\ DefaultPage \in Nat /\ DefaultPage > 0 /\ Limit(DefaultPage) = DefaultPage
      /\ copy.next \in Nat /\ Offset(copy.next) = copy.next
  BY PageNumbers DEF CopyInv, Limit, Offset
<1>2. /\ IsFiniteSet(rows) /\ Cardinality(rows) \in Nat
      /\ \A r \in rows : /\ Rank(rows, r) \in Nat /\ Rank(rows, r) < Cardinality(rows)
  <2>1. IsFiniteSet(rows) /\ \A r \in rows : r.id \in Nat
    BY DEF QueryInv, Row
  <2> QED BY <2>1, RankBelow, FS_CardinalityType
<1>3. /\ query.page.items = {r \in rows : Rank(rows, r) \in copy.next..(upTo - 1)}
      /\ query.page.next = upTo /\ query.page.matched = Cardinality(rows)
  <2>1. query.page = Paginate(rows, Anywhere, "any", copy.next, DefaultPage)
    BY DEF QueryInv
  <2> DEFINE matched == {r \in rows : Matches(r, Anywhere) /\ "any" \in {"any", r.domain}}
  <2>2. matched = rows
    BY DEF Matches
  <2>3. /\ query.page.items = {r \in matched : Rank(matched, r) \in copy.next..(upTo - 1)}
        /\ query.page.next = upTo /\ query.page.matched = Cardinality(matched)
    BY <1>1, <2>1 DEF Paginate
  <2> HIDE DEF matched
  <2> QED BY <2>2, <2>3
\* Up to where the page ends, the copy has what there is.
<1>4. fits \/ copy.next = 0 => FactsOf(joined) = known(filter, facts, upTo)
  <2> DEFINE paged == {x \in rows : Rank(rows, x) \in copy.next..(upTo - 1)}
  <2>0. rows \subseteq Row /\ paged \subseteq Row
    BY DEF QueryInv
  <2>1. \A x \in facts : Rank(facts, x) < upTo <=>
          Rank(facts, x) < copy.next \/ Rank(facts, x) \in copy.next..(upTo - 1)
    <3>1. \A r \in rows : Rank(facts, Facts(r)) \in Nat
      BY <1>2, FactsRank
    <3>2. \A x \in facts : Rank(facts, x) \in Nat
      BY <3>1 DEF FactsOf
    <3> HIDE DEF facts
    <3> QED BY <1>1, <3>2
  <2>2. FactsOf(page) =
          {ScrubRow(filter, x) : x \in {y \in facts : Rank(facts, y) \in copy.next..(upTo - 1)}}
    <3>1. FactsOf(page) = {ScrubRow(filter, x) : x \in FactsOf(paged)}
      BY <1>3, <2>0, FactsOfScrubbed
    <3>2. \A r \in rows : Rank(facts, Facts(r)) = Rank(rows, r)
      BY FactsRank
    <3>3. FactsOf(paged) = {y \in facts : Rank(facts, y) \in copy.next..(upTo - 1)}
      <4> HIDE DEF upTo, rows
      <4> QED BY <3>2 DEF FactsOf
    <3> HIDE DEF page, paged, facts
    <3> QED BY <3>1, <3>3
  <2>3. CASE copy.next = 0
    <3>1. \A x \in facts : Rank(facts, x) < upTo <=> Rank(facts, x) \in copy.next..(upTo - 1)
      <4>1. \A r \in rows : Rank(facts, Facts(r)) \in Nat
        BY <1>2, FactsRank
      <4>2. \A x \in facts : Rank(facts, x) \in Nat
        BY <4>1 DEF FactsOf
      <4> HIDE DEF facts
      <4> QED BY <2>1, <2>3, <4>2
    <3> HIDE DEF page, facts, upTo
    <3> QED BY <2>2, <2>3, <3>1
  <2>4. CASE fits /\ copy.next # 0
    <3>1. FactsOf(copy.items) = known(filter, facts, copy.next)
      BY <2>4 DEF CopyInv, CopiedTo, Digest
    <3>2. FactsOf(joined) = FactsOf(copy.items) \cup FactsOf(page)
      BY <2>4 DEF FactsOf
    <3> HIDE DEF page, facts, upTo, fits, joined
    <3> QED BY <2>1, <2>2, <3>1, <3>2
  <2> QED BY <2>3, <2>4
<1>5. end => known(filter, facts, upTo) = {ScrubRow(filter, x) : x \in facts}
  <2>1. \A r \in rows : Rank(facts, Facts(r)) = Rank(rows, r)
    BY FactsRank
  <2>2. end => \A r \in rows : Rank(rows, r) < upTo
    BY <1>1, <1>2
  <2>3. end => \A x \in facts : Rank(facts, x) < upTo
    <3> HIDE DEF end, upTo
    <3> QED BY <2>1, <2>2 DEF FactsOf
  <2> HIDE DEF facts, upTo, end
  <2> QED BY <2>3
<1>6. CASE ~fits /\ copy.next # 0
  <2>1. new = [NoCopy EXCEPT !.wanted = copy.wanted]
    BY <1>6 DEF Joined
  <2> QED BY <2>1 DEF NoCopy
<1>7. CASE fits \/ copy.next = 0
  <2>1. new = [at |-> IF end THEN "done" ELSE "fetching", items |-> joined, digest |-> digest,
               next |-> IF end THEN 0 ELSE upTo, wanted |-> copy.wanted]
    BY <1>3, <1>7 DEF Joined, CopyInv
  <2>2. digest.names = filter /\ digest.rows = facts
    BY DEF Digest
  <2>3. upTo \in Nat /\ upTo # 0
    BY <1>1
  <2> HIDE DEF new, end, joined, digest, upTo, rows, facts, fits, known
  <2>4. /\ new = [at |-> new.at, items |-> new.items, digest |-> new.digest,
                  next |-> new.next, wanted |-> new.wanted]
        /\ new.at \in {"none", "fetching", "done"} /\ new.next \in Nat
        /\ new.next = 0 <=> new.at # "fetching"
    BY <2>1, <2>3
  <2>5. new.at = "fetching" => FactsOf(new.items) = known(new.digest.names, new.digest.rows, new.next)
    BY <1>4, <1>7, <2>1, <2>2
  <2>6. new.at = "done" => FactsOf(new.items) = {ScrubRow(new.digest.names, r) : r \in new.digest.rows}
    BY <1>4, <1>5, <1>7, <2>1, <2>2
  <2> QED BY <2>4, <2>5, <2>6 DEF new, known
<1> HIDE DEF fits
<1> QED BY <1>6, <1>7

LEMMA AnswerStep ==
  ASSUME InventoryInv, QueryAnswered
  PROVE  InventoryInv'
<1>1. /\ PlaceTypes /\ SnapInv /\ QueryInv /\ CopyInv /\ UNCHANGED <<place, snap>>
      /\ query' = NoQuery
      /\ copy' = IF query.what = "page" THEN Joined(AnswerFilter) ELSE copy
  BY DEF InventoryInv, QueryAnswered
<1>2. QueryInv'
  BY <1>1, FS_EmptySet DEF QueryInv, NoQuery
<1>3. CopyInv'
  <2>1. CASE query.what = "page"
    BY <1>1, <2>1, JoinedRows DEF CopyInv, CopiedTo
  <2>2. CASE query.what # "page"
    BY <1>1, <2>2, CopyStands
  <2> QED BY <2>1, <2>2
<1> QED BY <1>1, <1>2, <1>3, SnapStands DEF InventoryInv, PlaceTypes

\* The household changes what it likes.
LEMMA ChangeStep ==
  ASSUME InventoryInv, AccountChanges \/ PersonChanges \/ EntityChanges \/ EntityGoes
                       \/ AreaChanges \/ NamesUnreadable
  PROVE  InventoryInv'
<1>1. PlaceTypes /\ SnapInv /\ QueryInv /\ CopyInv
  BY DEF InventoryInv
<1> DEFINE Places == [accounts : [Names -> {"none", "person", "panel"}], persons : SUBSET Names,
                      rows : [EntityIds -> Entity], areas : [AreaIds -> Text], location : Text,
                      readable : BOOLEAN, changes : Nat, orders : Nat]
<1>2. place \in Places
  BY <1>1 DEF PlaceTypes
<1>3. PICK new \in Places : Changes(new)
  <2>1. CASE AccountChanges
    BY <1>2, <2>1 DEF AccountChanges
  <2>2. CASE PersonChanges
    BY <1>2, <2>2 DEF PersonChanges
  <2>3. CASE EntityChanges
    <3>1. PICK i \in EntityIds, w \in Names \cup Others, off \in BOOLEAN :
            Changes([place EXCEPT !.rows[i] = [kind |-> "registered", name |-> Plain(w),
                                               area |-> @.area, disabled |-> off]])
      BY <2>3 DEF EntityChanges
    <3>2. place.rows \in [EntityIds -> Entity] /\ Plain(w) \in Text
      BY <1>2, PlainTypes DEF Words
    <3>3. [kind |-> "registered", name |-> Plain(w), area |-> place.rows[i].area,
           disabled |-> off] \in Entity
      BY <3>2 DEF Entity
    <3> QED BY <1>2, <3>1, <3>2, <3>3
  <2>4. CASE EntityGoes
    <3>1. PICK i \in EntityIds : Changes([place EXCEPT !.rows[i].kind = "none", !.rows[i].area = 0])
      BY <2>4 DEF EntityGoes
    <3> DEFINE gone == [place.rows[i] EXCEPT !.kind = "none", !.area = 0]
               left == [place.rows EXCEPT ![i] = gone]
    <3>2. place.rows \in [EntityIds -> Entity]
      BY <1>2
    <3>3. gone \in Entity
      BY <3>2 DEF Entity
    <3>4. [place EXCEPT !.rows[i].kind = "none", !.rows[i].area = 0] = [place EXCEPT !.rows = left]
      BY <1>2, <3>2, Zenon
    <3> QED BY <1>2, <3>1, <3>2, <3>3, <3>4
  <2>5. CASE AreaChanges
    <3>1. PICK a \in AreaIds, w \in Names : Changes([place EXCEPT !.areas[a] = Plain(w)])
      BY <2>5 DEF AreaChanges
    <3>2. Plain(w) \in Text
      BY PlainTypes DEF Words
    <3> QED BY <1>2, <3>1, <3>2
  <2>6. CASE NamesUnreadable
    BY <1>2, <2>6 DEF NamesUnreadable
  <2> QED BY <2>1, <2>2, <2>3, <2>4, <2>5, <2>6
<1>4. Becomes([new EXCEPT !.changes = @ + 1]) /\ UNCHANGED <<query, copy>>
  BY <1>3 DEF Changes
<1>5. [new EXCEPT !.changes = @ + 1] \in Places
  OBVIOUS
<1>6. PlaceTypes'
  BY <1>4, <1>5 DEF PlaceTypes, Becomes
<1> QED BY <1>1, <1>4, <1>6, SnapBecomes, QueryStands, CopyStands DEF InventoryInv

LEMMA InventoryStep == InventoryInv /\ [InventoryNext]_inventoryVars => InventoryInv'
<1> SUFFICES ASSUME InventoryInv, [InventoryNext]_inventoryVars PROVE InventoryInv'
  OBVIOUS
<1>1. CASE UNCHANGED inventoryVars
  BY <1>1, SnapStands, QueryStands, CopyStands DEF inventoryVars, InventoryInv, PlaceTypes
<1>2. CASE InventoryNext
  BY <1>2, SnapStep, FetchStep, OrderStep, ItemStep, QuietQueryStep, AnswerStep, ChangeStep, Zenon
     DEF InventoryNext
<1> QED BY <1>1, <1>2

LEMMA NamesAreHidden == InventoryInv => StandingNamesHidden
<1> SUFFICES ASSUME InventoryInv PROVE StandingNamesHidden
  OBVIOUS
<1>1. PlaceTypes /\ SnapInv /\ QueryInv
  BY DEF InventoryInv
<1>2. Clear(OutboundSnapshot) \cap snap.standing = {}
  <2>1. snap.standing \subseteq HouseholdNames /\ snap.texts \subseteq Text
    BY <1>1 DEF SnapInv
  <2>2. Clear({Scrub(HouseholdNames, t) : t \in snap.texts}) \cap HouseholdNames = {}
    BY <2>1, ScrubbedSays
  <2>3. Clear({}) = {}
    BY DEF Clear
  <2> QED BY <2>1, <2>2, <2>3 DEF OutboundSnapshot, Core
<1>3. Clear(OutboundAnswer) \cap AnswerFilter = {}
  <2> DEFINE shown == {x.name : x \in query.page.items}
  <2>1. query.page.items \subseteq Row
    BY <1>1, NoPageShown DEF QueryInv, Paginate
  <2>2. shown \cup query.texts \subseteq Text
    BY <1>1, <2>1 DEF QueryInv, Row
  <2>3. OutboundAnswer = {Scrub(AnswerFilter, t) : t \in shown \cup query.texts}
    <3>1. \A x \in query.page.items : ScrubRow(AnswerFilter, x).name = Scrub(AnswerFilter, x.name)
      BY <2>1, ScrubRowTypes
    <3> QED BY <3>1 DEF OutboundAnswer
  <2> HIDE DEF shown
  <2> QED BY <2>2, <2>3, ScrubbedSays
<1>4. query.before \subseteq AnswerFilter /\ (place.readable => HouseholdNames \subseteq AnswerFilter)
  BY DEF AnswerFilter, Merged
<1> QED BY <1>2, <1>3, <1>4 DEF StandingNamesHidden

LEMMA CopyIsOfHome == InventoryInv => CopyIsHome
<1> SUFFICES ASSUME InventoryInv, copy.at = "done", copy.digest = Digest(HouseholdNames, Rows)
             PROVE  FactsOf(copy.items) = FactsOf({ScrubRow(HouseholdNames, r) : r \in Rows})
  BY DEF CopyIsHome
<1>1. FactsOf(copy.items) = {ScrubRow(HouseholdNames, x) : x \in FactsOf(Rows)}
  BY DEF InventoryInv, CopyInv, Digest
<1>2. Rows \subseteq Row
  BY HomeTypes DEF InventoryInv
<1> QED BY <1>1, <1>2, FactsOfScrubbed

-----------------------------------------------------------------------------
(* Installations: what a download may be, and what it was compared with.   *)

\* The releases are in order.
OldestFirst == \A k \in DOMAIN Releases : \A i \in 1..k : ~IsOlder(Releases[k], Releases[i])
Named == Published \cup {Commit, Branch, NoVersion}

RepoShape ==
  /\ repo = [ours |-> repo.ours, listed |-> repo.listed, recorded |-> repo.recorded,
             indexed |-> repo.indexed, files |-> repo.files, running |-> repo.running,
             released |-> repo.released, late |-> repo.late, restart |-> repo.restart,
             hands |-> repo.hands, installs |-> repo.installs]
  /\ repo.recorded \in Named /\ repo.files \in Named /\ repo.running \in Named
  /\ repo.late \in Named
  /\ repo.released \in DOMAIN Releases
  /\ repo.indexed # NoVersion => \E i \in 1..repo.released : repo.indexed = Releases[i]

JobShape ==
  /\ job = [at |-> job.at, cmd |-> job.cmd, entry |-> job.entry, floor |-> job.floor,
            polls |-> job.polls, overtaken |-> job.overtaken]
  /\ job.cmd \in Commands \cup {NoCommand}
  /\ job.entry.installed \in Named /\ job.floor \in Named

\* The index has what it had, or a later release.
Since(available) ==
  available # NoVersion => \E k \in 1..repo.released : \E i \in 1..k :
                             available = Releases[i] /\ repo.indexed = Releases[k]

\* The entry a command looks at again is the one HACS has, unless it was overtaken; the
\* index may have moved on.
LookKept ==
  job.at \in {"refreshing", "relooking"} =>
    /\ ~job.overtaken => job.entry.installed = repo.recorded
    /\ ~Pinned /\ Since(job.entry.available)

\* What is about to be fetched is not older than what it was compared with, and that is
\* not older than what HACS has recorded or, for agent_update, this process runs.
Compared ==
  job.at = "downloading" /\ ~job.cmd.downgrade /\ Parses(job.floor) =>
    /\ Parses(Fetched) /\ ~IsOlder(Fetched, job.floor)
    /\ ~job.overtaken => ~IsOlder(job.floor, repo.recorded)
    /\ job.cmd.update => ~IsOlder(job.floor, repo.running)

\* Compared with nothing where nothing is recorded, and agent_update runs nothing.
Uncompared ==
  job.at = "downloading" /\ job.floor = NoVersion =>
    /\ ~job.overtaken => repo.recorded = NoVersion
    /\ job.cmd.update => repo.running = NoVersion

InstallInv == RepoShape /\ JobShape /\ LookKept /\ Compared /\ Uncompared

-----------------------------------------------------------------------------
(* The order of what is compared.                                          *)

LEMMA NamedTexts ==
  ASSUME NEW v \in Named
  PROVE  v \in Texts /\ Parse(v) \in Tuples
<1>1. <<>> \in [1..0 -> Parts] /\ 0 \in 0..MaxParts /\ 0 \in 0..1
  BY PartsAssumption
<1>2. NoVersion \in Texts
  BY <1>1 DEF NoVersion, Texts, Tuples
<1>3. v \in Texts
  <2>1. \A i \in DOMAIN Releases : Releases[i] \in Texts
    BY ReleasesAssumption
  <2> QED BY <1>2, <2>1, ReleasesAssumption DEF Named, Published
<1> QED BY <1>3 DEF Parse, Texts

LEMMA NoVersionUnread == ~Parses(NoVersion)
BY DEF Parses, Parse, NoVersion

LEMMA ReleasesRead ==
  ASSUME NEW i \in DOMAIN Releases
  PROVE  Parses(Releases[i]) /\ Releases[i] \in Named /\ Releases[i] # NoVersion
BY ReleasesAssumption, NoVersionUnread DEF Named, Published

\* Not older than what is not older.
LEMMA OlderChain ==
  ASSUME NEW a \in Named, NEW b \in Named, NEW c \in Named,
         Parses(b), ~IsOlder(a, b), ~IsOlder(b, c)
  PROVE  ~IsOlder(a, c)
<1> SUFFICES ASSUME IsOlder(a, c) PROVE FALSE
  OBVIOUS
<1> DEFINE s == Parse(a)
           t == Parse(b)
           u == Parse(c)
<1>1. s \in Tuples /\ t \in Tuples /\ u \in Tuples
  BY NamedTexts
<1>2. ~Less(s, t) /\ ~Less(t, u) /\ Less(s, u)
  BY DEF IsOlder
<1> HIDE DEF s, t, u
<1>3. \A i \in 1..(MaxParts + 1) : At(s, i) = At(t, i)
  BY <1>1, <1>2, LessOrder
<1>4. \A i \in 1..(MaxParts + 1) : At(t, i) = At(u, i)
  BY <1>1, <1>2, LessOrder
<1>5. PICK i \in 1..MaxParts : At(s, i) < At(u, i)
  BY <1>1, <1>2, TuplesAre, LessWithin
<1>6. i \in 1..(MaxParts + 1) /\ i \in Nat
  BY PartsAssumption
<1>7. At(s, i) = At(u, i) /\ At(s, i) \in Nat
  BY <1>1, <1>3, <1>4, <1>6, TuplesAre
<1> QED BY <1>5, <1>7

LEMMA NotOlderThanItself ==
  ASSUME NEW a \in Named, NEW b \in Named, IsOlder(a, b)
  PROVE  ~IsOlder(b, a)
<1> SUFFICES ASSUME IsOlder(b, a) PROVE FALSE
  OBVIOUS
<1>1. Parse(a) \in Tuples /\ Parse(b) \in Tuples
  BY NamedTexts
<1>2. Less(Parse(a), Parse(a))
  BY <1>1, LessOrder DEF IsOlder
<1>3. PICK i \in 1..MaxParts : At(Parse(a), i) < At(Parse(a), i)
  BY <1>1, <1>2, TuplesAre, LessWithin
<1>4. At(Parse(a), i) \in Nat
  BY <1>1, TuplesAre
<1> QED BY <1>3, <1>4

\* What the comparison lets through has no lower numbers than the other.
LEMMA NotBefore ==
  ASSUME NEW new \in Named, NEW old \in Named,
         Parses(new), Parses(old), ~IsOlder(new, old)
  PROVE  ~(Before(new, old) /\ Value(new) # Value(old))
<1>1. ASSUME NEW i \in 1..(MaxParts + 1), Value(new)[i] < Value(old)[i],
             \A j \in 1..(i - 1) : Value(new)[j] = Value(old)[j]
      PROVE  FALSE
  <2> DEFINE s == Parse(new)
             t == Parse(old)
  <2>1. s \in Tuples /\ t \in Tuples /\ MaxParts \in Nat
    BY NamedTexts, PartsAssumption
  <2>2. \A j \in 1..(MaxParts + 1) : Value(new)[j] = At(s, j) /\ Value(old)[j] = At(t, j)
    BY DEF Value, Parse
  <2> HIDE DEF s, t
  <2>3. i \in Nat /\ \A j \in 1..(i - 1) : j \in 1..(MaxParts + 1)
    BY <2>1
  <2>4. At(s, i) < At(t, i) /\ \A j \in 1..(i - 1) : At(s, j) = At(t, j)
    BY <1>1, <2>2, <2>3
  <2>5. At(s, i) \in Nat /\ At(t, i) \in Nat
    BY <2>1, <2>3, TuplesAre
  <2>6. i \in 1..Longer(s, t)
    <3>1. i \in DOMAIN t
      BY <2>4, <2>5 DEF At
    <3>2. Len(s) \in Nat /\ Len(t) \in Nat /\ DOMAIN t = 1..Len(t)
      BY <2>1, TuplesAre
    <3> QED BY <3>1, <3>2 DEF Longer
  <2>7. Less(s, t)
    BY <2>4, <2>6 DEF Less
  <2> QED BY <2>7 DEF IsOlder, s, t
<1> QED BY <1>1 DEF Before

-----------------------------------------------------------------------------
(* One command, and what happens beside it.                                *)

LEMMA CommandTypes ==
  ASSUME NEW cmd \in Commands \cup {NoCommand}
  PROVE  cmd.version \in Named /\ cmd.update \in BOOLEAN /\ cmd.downgrade \in BOOLEAN
<1>1. Published \cup {NoVersion, Commit, Branch} \subseteq Named
  BY DEF Named
<1>2. NoVersion \in Named
  BY DEF Named
<1>3. CASE cmd \in [version : Published \cup {NoVersion, Commit, Branch}, onlyMissing : BOOLEAN,
                    downgrade : BOOLEAN, update : {FALSE}, restart : {FALSE}]
  BY <1>1, <1>3
<1>4. CASE cmd \in [version : {NoVersion}, onlyMissing : {FALSE}, downgrade : BOOLEAN,
                    update : {TRUE}, restart : BOOLEAN]
  BY <1>2, <1>4
<1>5. CASE cmd = NoCommand
  BY <1>2, <1>5 DEF NoCommand
<1> QED BY <1>3, <1>4, <1>5 DEF Commands

LEMMA FetchedNamed ==
  ASSUME RepoShape, JobShape
  PROVE  Fetched \in Named /\ repo.indexed \in Named
<1>1. repo.indexed \in Named
  <2>1. \A i \in 1..repo.released : i \in DOMAIN Releases
    BY ReleasesAssumption DEF RepoShape
  <2> QED BY <2>1, ReleasesRead DEF RepoShape, Named
<1>2. job.cmd.version \in Named
  BY CommandTypes DEF JobShape
<1> QED BY <1>1, <1>2 DEF Fetched

LEMMA NewestRead ==
  ASSUME RepoShape
  PROVE  /\ Newest \in Named /\ Parses(Newest)
         /\ \E i \in 1..repo.released : Newest = Releases[i]
<1>1. repo.released \in DOMAIN Releases /\ repo.released \in 1..repo.released
  BY ReleasesAssumption DEF RepoShape
<1> QED BY <1>1, ReleasesRead DEF Newest

\* Without a command only the shape of the repository has to hold.
LEMMA NoneUnderWay ==
  ASSUME RepoShape', job' = NoJob
  PROVE  InstallInv' /\ job'.at = "idle"
<1>1. NoCommand \in Commands \cup {NoCommand} /\ NoVersion \in Named
  BY DEF Named
<1>2. JobShape'
  BY <1>1 DEF JobShape, NoJob, NoEntry
<1> QED BY <1>2 DEF InstallInv, LookKept, Compared, Uncompared, NoJob

LEMMA InstallInitially == InstallInit => InstallInv /\ job.at = "idle"
<1> SUFFICES ASSUME InstallInit PROVE InstallInv /\ job.at = "idle"
  OBVIOUS
<1>1. 1 \in DOMAIN Releases /\ 2 \in DOMAIN Releases
  BY ReleasesAssumption
<1>2. Releases[1] \in Named /\ Releases[2] \in Named /\ NoVersion \in Named
  BY <1>1 DEF Named, Published
<1>3. RepoShape
  <2>1. PICK ours, byHacs \in BOOLEAN, files \in {NoVersion, Releases[1], Releases[2]} :
          repo = [ours |-> ours, listed |-> byHacs, recorded |-> IF byHacs THEN files ELSE NoVersion,
               indexed |-> IF byHacs THEN Releases[1] ELSE NoVersion,
               files |-> files, running |-> files, released |-> 2,
               late |-> NoVersion, restart |-> FALSE, hands |-> 0, installs |-> 0]
    BY DEF InstallInit
  <2>2. files \in Named /\ 1 \in 1..2
    BY <1>2
  <2> QED BY <1>1, <1>2, <2>1, <2>2 DEF RepoShape
<1>4. NoCommand \in Commands \cup {NoCommand} /\ job = NoJob
  BY DEF InstallInit
<1>5. JobShape
  BY <1>2, <1>4 DEF JobShape, NoJob, NoEntry
<1> QED BY <1>3, <1>4, <1>5 DEF InstallInv, LookKept, Compared, Uncompared, NoJob

LEMMA InstallAnswered ==
  ASSUME RepoShape, NEW ok, NEW changed, Answer(ok, changed)
  PROVE  InstallInv' /\ job'.at = "idle"
<1>1. RepoShape'
  BY DEF RepoShape, Answer
<1> QED BY <1>1, NoneUnderWay DEF Answer

LEMMA ListedNamed ==
  ASSUME RepoShape
  PROVE  /\ Listed.installed = repo.recorded /\ Listed.available = repo.indexed
         /\ Since(Listed.available)
<1>1. \A i \in 1..repo.released : i \in 1..i
  BY ReleasesAssumption DEF RepoShape
<1>2. Listed.available = repo.indexed
  BY DEF Listed
<1>3. Since(repo.indexed)
  BY <1>1 DEF RepoShape, Since
<1> QED BY <1>2, <1>3 DEF Listed

\* The command waits with the entry it read.
LEMMA Waits ==
  ASSUME InstallInv, NEW entry, NEW at, Wait(at, entry), entry.installed \in Named,
         at \in {"adding", "refreshing"}, at = "refreshing" => entry = Listed /\ ~Pinned
  PROVE  InstallInv' /\ job'.at = at
<1>1. /\ job'.at = at /\ job'.cmd = job.cmd /\ job'.entry = entry /\ job'.floor = job.floor
      /\ repo' = repo
      /\ job' = [at |-> job'.at, cmd |-> job'.cmd, entry |-> job'.entry, floor |-> job'.floor,
                 polls |-> job'.polls, overtaken |-> job'.overtaken]
  BY DEF Wait, InstallInv, JobShape
<1>2. RepoShape' /\ JobShape'
  BY <1>1 DEF InstallInv, RepoShape, JobShape
<1>3. LookKept'
  <2>1. at = "refreshing" => entry.installed = repo.recorded /\ Since(entry.available)
    BY ListedNamed DEF InstallInv
  <2> QED BY <1>1, <2>1 DEF LookKept, Since, Pinned
<1> QED BY <1>1, <1>2, <1>3 DEF InstallInv, Compared, Uncompared

\* The floor is what was installed or, above it, what agent_update runs.
LEMMA Decided ==
  ASSUME OldestFirst, InstallInv, NEW entry, Decide(entry), entry.installed \in Named,
         ~job.overtaken \/ entry = Listed => entry.installed = repo.recorded,
         ~Pinned => Since(entry.available)
  PROVE  InstallInv' /\ job'.at \in {"idle", "downloading"}
<1> DEFINE installed == entry.installed
           floor == IF Claimed # NoVersion /\ (installed = NoVersion \/ IsOlder(installed, Claimed))
                    THEN Claimed ELSE installed
           target == IF Pinned THEN job.cmd.version ELSE entry.available
           guards == floor # NoVersion /\ ~job.cmd.downgrade
<1>1. CASE \E ok, changed \in BOOLEAN : Answer(ok, changed)
  BY <1>1, InstallAnswered DEF InstallInv
<1>2. CASE /\ ~(guards /\ ~Parses(target) /\ target # floor) /\ ~(guards /\ IsOlder(target, floor))
           /\ job' = [job EXCEPT !.at = "downloading", !.entry = entry, !.floor = floor,
                                 !.polls = 0, !.overtaken = Overtaken(entry)]
           /\ UNCHANGED repo
  <2>1. /\ job'.at = "downloading" /\ job'.cmd = job.cmd /\ job'.entry = entry
        /\ job'.floor = floor /\ job'.overtaken = Overtaken(entry) /\ repo' = repo
        /\ job' = [at |-> job'.at, cmd |-> job'.cmd, entry |-> job'.entry, floor |-> job'.floor,
                   polls |-> job'.polls, overtaken |-> job'.overtaken]
    BY <1>2 DEF InstallInv, JobShape
  <2>2. Claimed \in Named /\ floor \in Named /\ repo.recorded \in Named /\ repo.running \in Named
    BY DEF Claimed, InstallInv, RepoShape, Named
  <2>3. RepoShape' /\ JobShape'
    BY <2>1, <2>2 DEF InstallInv, RepoShape, JobShape
  <2>4. ASSUME ~job.cmd.downgrade, Parses(floor)
        PROVE  Parses(target) /\ ~IsOlder(target, floor)
    <3>1. guards
      BY <2>4, NoVersionUnread
    <3> HIDE DEF guards, target, floor
    <3> QED BY <1>2, <2>4, <3>1
  <2>5. Parses(target) => target \in Named /\ Fetched \in Named /\ Parses(Fetched)
                          /\ ~IsOlder(Fetched, target)
    <3>1. Fetched \in Named
      BY FetchedNamed DEF InstallInv
    <3>2. CASE Pinned
      <4>1. Fetched = target
        BY <3>2 DEF Fetched
      <4>2. ~IsOlder(target, target)
        BY <3>1, <4>1, NotOlderThanItself
      <4> HIDE DEF target
      <4> QED BY <3>1, <4>1, <4>2
    <3>3. CASE ~Pinned /\ Parses(target)
      <4>1. target = entry.available /\ Fetched = repo.indexed
        BY <3>3 DEF Fetched
      <4> HIDE DEF target
      <4>2. PICK k \in 1..repo.released : \E i \in 1..k :
              target = Releases[i] /\ repo.indexed = Releases[k]
        BY <3>3, <4>1, NoVersionUnread DEF Since
      <4>3. PICK i \in 1..k : target = Releases[i]
        BY <4>2
      <4>4. k \in DOMAIN Releases /\ i \in DOMAIN Releases
        BY ReleasesAssumption DEF InstallInv, RepoShape
      <4>5. ~IsOlder(Releases[k], Releases[i])
        BY <4>4 DEF OldestFirst
      <4> QED BY <4>1, <4>2, <4>3, <4>4, <4>5, ReleasesRead
    <3> QED BY <3>2, <3>3
  <2>6. ~Overtaken(entry) => installed = repo.recorded
    BY DEF Overtaken
  <2>7. ~IsOlder(floor, installed)
    <3>1. CASE floor = installed
      BY <3>1, NotOlderThanItself
    <3>2. CASE IsOlder(installed, Claimed) /\ floor = Claimed
      BY <2>2, <3>2, NotOlderThanItself
    <3>3. CASE installed = NoVersion
      BY <3>3, NoVersionUnread DEF IsOlder
    <3> QED BY <3>1, <3>2, <3>3
  <2>8. Parses(floor) /\ job.cmd.update => ~IsOlder(floor, repo.running)
    <3> SUFFICES ASSUME Parses(floor), job.cmd.update, IsOlder(floor, repo.running) PROVE FALSE
      OBVIOUS
    <3>1. Claimed = repo.running /\ Claimed # NoVersion
      BY NoVersionUnread DEF Claimed, IsOlder
    <3>2. CASE floor = Claimed
      BY <2>2, <3>1, <3>2, NotOlderThanItself
    <3>3. CASE floor = installed /\ installed # NoVersion /\ ~IsOlder(installed, Claimed)
      BY <3>1, <3>3
    <3>4. CASE floor = installed /\ installed = NoVersion
      BY <3>4, NoVersionUnread
    <3> HIDE DEF installed
    <3> QED BY <3>1, <3>2, <3>3, <3>4
  <2> HIDE DEF target, floor, installed
  <2>9. Compared'
    <3>1. Fetched' = Fetched
      BY <2>1 DEF Fetched, Pinned
    <3> SUFFICES ASSUME ~job.cmd.downgrade, Parses(floor)
                 PROVE  /\ Parses(Fetched) /\ ~IsOlder(Fetched, floor)
                        /\ ~Overtaken(entry) => ~IsOlder(floor, repo.recorded)
                        /\ job.cmd.update => ~IsOlder(floor, repo.running)
      BY <2>1, <3>1 DEF Compared
    <3>2. Parses(target) /\ ~IsOlder(target, floor)
      BY <2>4
    <3> QED BY <2>2, <2>5, <2>6, <2>7, <2>8, <3>2, OlderChain
  <2>10. Uncompared'
    <3>1. floor = NoVersion => installed = NoVersion /\ (Claimed = NoVersion \/ ~job.cmd.update)
      BY DEF floor, installed
    <3>2. job.cmd.update => Claimed = repo.running
      BY DEF Claimed
    <3> QED BY <2>1, <2>6, <3>1, <3>2 DEF Uncompared
  <2> QED BY <2>1, <2>3, <2>9, <2>10 DEF InstallInv, LookKept
<1>3. \/ \E ok, changed \in BOOLEAN : Answer(ok, changed)
      \/ /\ ~(guards /\ ~Parses(target) /\ target # floor) /\ ~(guards /\ IsOlder(target, floor))
         /\ job' = [job EXCEPT !.at = "downloading", !.entry = entry, !.floor = floor,
                               !.polls = 0, !.overtaken = Overtaken(entry)]
         /\ UNCHANGED repo
  BY DEF Decide
<1> HIDE DEF guards, target, floor
<1> QED BY <1>1, <1>2, <1>3

LEMMA GoesOn ==
  ASSUME OldestFirst, InstallInv, Go(Listed)
  PROVE  InstallInv' /\ job'.at \in {"idle", "refreshing", "downloading"}
<1>1. Listed.installed \in Named /\ Listed.installed = repo.recorded /\ Since(Listed.available)
  BY ListedNamed DEF InstallInv, RepoShape
<1>2. CASE Answer(TRUE, FALSE)
  BY <1>2, InstallAnswered DEF InstallInv
<1>3. CASE Decide(Listed)
  BY <1>1, <1>3, Decided
<1>4. CASE ~Pinned /\ Wait("refreshing", Listed)
  BY <1>1, <1>4, Waits
<1> QED BY <1>2, <1>3, <1>4 DEF Go

\* A look shows what is listed, or nothing.
LEMMA LooksListed ==
  ASSUME NEW ok \in BOOLEAN
  PROVE  Look(ok).there => Look(ok) = Listed
<1>1. ~NoEntry.there
  BY DEF NoEntry
<1> QED BY <1>1 DEF Look

\* The steps of a command up to the download.
LEMMA UpToDownload ==
  ASSUME OldestFirst, InstallInv, NEW ok \in BOOLEAN,
         Found(ok) \/ Added(ok) \/ Polled(ok) \/ Refreshed(ok) \/ Relooked(ok)
  PROVE  InstallInv' /\ job'.at # "confirming"
<1> USE DEF InstallInv
<1>1. CASE Found(ok)
  <2>1. CASE Refuse
    BY <2>1, InstallAnswered DEF Refuse
  <2>2. CASE Look(ok).there /\ Go(Look(ok))
    BY <2>2, LooksListed, GoesOn
  <2>3. CASE ~Look(ok).there /\ Wait("adding", Look(ok))
    <3>1. Look(ok).installed \in Named
      BY DEF Look, Listed, NoEntry, RepoShape, Named
    <3> QED BY <2>3, <3>1, Waits
  <2> QED BY <1>1, <2>1, <2>2, <2>3 DEF Found
<1>2. CASE Added(ok)
  <2>1. CASE ~ok /\ Refuse
    BY <2>1, InstallAnswered DEF Refuse
  <2>2. CASE /\ repo' = [repo EXCEPT !.listed = TRUE]
             /\ job' = [job EXCEPT !.at = "polling"]
    <3>1. RepoShape' /\ JobShape' /\ job'.at = "polling"
      BY <2>2 DEF RepoShape, JobShape
    <3> QED BY <3>1 DEF LookKept, Compared, Uncompared
  <2> QED BY <1>2, <2>1, <2>2 DEF Added
<1>3. CASE Polled(ok)
  <2>1. CASE Refuse
    BY <2>1, InstallAnswered DEF Refuse
  <2>2. CASE Look(ok).there /\ Go(Look(ok))
    BY <2>2, LooksListed, GoesOn
  <2>3. CASE job' = [job EXCEPT !.polls = @ + 1] /\ UNCHANGED repo
    <3>1. RepoShape' /\ JobShape' /\ job'.at = "polling"
      BY <1>3, <2>3 DEF RepoShape, JobShape, Polled
    <3> QED BY <3>1 DEF LookKept, Compared, Uncompared
  <2> QED BY <1>3, <2>1, <2>2, <2>3 DEF Polled
<1>4. CASE Refreshed(ok)
  <2>1. /\ job.entry.installed \in Named
        /\ ~job.overtaken => job.entry.installed = repo.recorded
        /\ job.entry = Listed => job.entry.installed = repo.recorded
        /\ ~Pinned /\ Since(job.entry.available)
    BY <1>4, ListedNamed DEF Refreshed, JobShape, LookKept
  <2>2. CASE ~ok /\ Decide(job.entry)
    BY <2>1, <2>2, Decided
  <2>3. CASE repo' = [repo EXCEPT !.indexed = Newest] /\ job' = [job EXCEPT !.at = "relooking"]
    <3>1. /\ repo'.indexed = Newest /\ repo'.recorded = repo.recorded
          /\ repo'.released = repo.released /\ job'.at = "relooking" /\ job'.cmd = job.cmd
          /\ job'.entry = job.entry /\ job'.overtaken = job.overtaken
      BY <2>3 DEF RepoShape, JobShape
    <3>2. RepoShape'
      BY <2>3, NewestRead DEF RepoShape
    <3>3. JobShape'
      BY <2>3 DEF JobShape
    <3>4. LookKept'
      <4>1. Since(job.entry.available)'
        <5> SUFFICES ASSUME job.entry.available # NoVersion
                     PROVE  \E k \in 1..repo.released : \E i \in 1..k :
                              job.entry.available = Releases[i] /\ Newest = Releases[k]
          BY <3>1 DEF Since
        <5>1. PICK k \in 1..repo.released : \E i \in 1..k : job.entry.available = Releases[i]
          BY <2>1 DEF Since
        <5>2. repo.released \in Nat /\ repo.released \in 1..repo.released
          BY ReleasesAssumption DEF RepoShape
        <5>3. \A i \in 1..k : i \in 1..repo.released
          BY <5>2
        <5> QED BY <5>1, <5>2, <5>3 DEF Newest
      <4> QED BY <2>1, <3>1, <4>1 DEF LookKept, Pinned
    <3> QED BY <3>1, <3>2, <3>3, <3>4 DEF Compared, Uncompared
  <2> QED BY <1>4, <2>2, <2>3 DEF Refreshed
<1>5. CASE Relooked(ok)
  <2> DEFINE entry == Or(Look(ok), job.entry)
  <2>1. entry = Listed \/ entry = job.entry
    BY LooksListed DEF Or
  <2>2. /\ entry.installed \in Named
        /\ (~job.overtaken \/ entry = Listed) => entry.installed = repo.recorded
        /\ ~Pinned /\ Since(entry.available)
    <3>1. /\ job.entry.installed \in Named
          /\ ~job.overtaken => job.entry.installed = repo.recorded
          /\ ~Pinned /\ Since(job.entry.available)
      BY <1>5 DEF Relooked, JobShape, LookKept
    <3>2. /\ Listed.installed \in Named /\ Listed.installed = repo.recorded
          /\ Since(Listed.available)
      BY ListedNamed DEF RepoShape
    <3> HIDE DEF entry
    <3> QED BY <2>1, <3>1, <3>2
  <2>3. Decide(entry)
    BY <1>5 DEF Relooked
  <2> HIDE DEF entry
  <2> QED BY <2>2, <2>3, Decided
<1> QED BY <1>1, <1>2, <1>3, <1>4, <1>5

\* The index moves on to the newest release, if it moves.
LEMMA IndexMoves ==
  ASSUME OldestFirst, RepoShape, RepoShape', repo'.released >= repo.released,
         repo'.indexed \in {repo.indexed, Newest}
  PROVE  /\ \A available : Since(available) => Since(available)'
         /\ Parses(repo.indexed) => Parses(repo'.indexed) /\ ~IsOlder(repo'.indexed, repo.indexed)
<1>1. /\ repo.released \in Nat /\ repo'.released \in Nat
      /\ repo.released \in 1..repo.released /\ repo.released \in DOMAIN Releases
  BY ReleasesAssumption DEF RepoShape
<1>2. 1..repo.released \subseteq 1..repo'.released /\ 1..repo.released \subseteq DOMAIN Releases
  BY <1>1, ReleasesAssumption
<1>3. ASSUME NEW available, Since(available) PROVE Since(available)'
  <2> SUFFICES ASSUME available # NoVersion
               PROVE  \E k \in 1..repo'.released : \E i \in 1..k :
                        available = Releases[i] /\ repo'.indexed = Releases[k]
    BY DEF Since
  <2>1. PICK k \in 1..repo.released : \E i \in 1..k :
          available = Releases[i] /\ repo.indexed = Releases[k]
    BY <1>3 DEF Since
  <2>2. CASE repo'.indexed = repo.indexed
    BY <1>2, <2>1, <2>2
  <2>3. CASE repo'.indexed = Newest
    <3>1. \A i \in 1..k : i \in 1..repo.released
      BY <1>1
    <3> QED BY <1>1, <1>2, <2>1, <2>3, <3>1 DEF Newest
  <2> QED BY <2>2, <2>3
<1>4. ASSUME Parses(repo.indexed)
      PROVE  Parses(repo'.indexed) /\ ~IsOlder(repo'.indexed, repo.indexed)
  <2>1. PICK i \in 1..repo.released : repo.indexed = Releases[i]
    BY <1>4, NoVersionUnread DEF RepoShape
  <2>2. i \in DOMAIN Releases /\ repo.indexed \in Named
    BY <1>2, <2>1, ReleasesRead
  <2>3. CASE repo'.indexed = repo.indexed
    BY <1>4, <2>2, <2>3, NotOlderThanItself
  <2>4. CASE repo'.indexed = Newest
    BY <1>1, <2>1, <2>4, ReleasesRead DEF Newest, OldestFirst
  <2> QED BY <2>3, <2>4
<1> QED BY <1>3, <1>4

\* What others do leaves a command where it is, and marks it where HACS's record changes.
LEMMA Beside ==
  ASSUME OldestFirst, InstallInv, RepoShape', repo'.running = repo.running,
         repo'.released >= repo.released, repo'.indexed \in {repo.indexed, Newest},
         \/ job' = job /\ repo'.recorded = repo.recorded
         \/ job' = [job EXCEPT !.overtaken = job.at # "idle"]
  PROVE  InstallInv' /\ job'.at = job.at
<1>1. /\ job'.at = job.at /\ job'.cmd = job.cmd /\ job'.entry = job.entry
      /\ job'.floor = job.floor
      /\ job'.at # "idle" => job'.overtaken \/ (job'.overtaken = job.overtaken
                                                /\ repo'.recorded = repo.recorded)
  BY DEF InstallInv, JobShape
<1>2. JobShape'
  BY <1>1 DEF InstallInv, JobShape
<1>3. LookKept'
  BY <1>1, IndexMoves DEF InstallInv, LookKept, Pinned
<1>4. Compared'
  <2> SUFFICES ASSUME job.at = "downloading", ~job.cmd.downgrade, Parses(job.floor)
               PROVE  /\ Parses(Fetched') /\ ~IsOlder(Fetched', job.floor)
                      /\ ~job'.overtaken => ~IsOlder(job.floor, repo'.recorded)
                      /\ job.cmd.update => ~IsOlder(job.floor, repo'.running)
    BY <1>1 DEF Compared
  <2>1. /\ Parses(Fetched) /\ ~IsOlder(Fetched, job.floor)
        /\ ~job.overtaken => ~IsOlder(job.floor, repo.recorded)
        /\ job.cmd.update => ~IsOlder(job.floor, repo.running)
    BY DEF InstallInv, Compared
  <2>2. Fetched \in Named /\ Fetched' \in Named /\ job.floor \in Named
    <3>1. Fetched \in Named /\ repo.indexed \in Named /\ Newest \in Named
      BY FetchedNamed, NewestRead DEF InstallInv
    <3>2. Fetched' = Fetched \/ Fetched' = repo'.indexed
      BY <1>1 DEF Fetched, Pinned
    <3> QED BY <3>1, <3>2 DEF InstallInv, JobShape
  <2>3. Parses(Fetched') /\ ~IsOlder(Fetched', Fetched)
    <3>1. CASE Pinned
      <4>1. Fetched' = Fetched
        BY <1>1, <3>1 DEF Fetched, Pinned
      <4> QED BY <2>1, <2>2, <4>1, NotOlderThanItself
    <3>2. CASE ~Pinned
      <4>1. Fetched' = repo'.indexed /\ Fetched = repo.indexed
        BY <1>1, <3>2 DEF Fetched, Pinned
      <4> QED BY <2>1, <4>1, IndexMoves DEF InstallInv
    <3> QED BY <3>1, <3>2
  <2>4. ~IsOlder(Fetched', job.floor)
    BY <2>1, <2>2, <2>3, OlderChain
  <2> QED BY <1>1, <2>1, <2>3, <2>4
<1>5. Uncompared'
  BY <1>1 DEF InstallInv, Uncompared
<1> QED BY <1>1, <1>2, <1>3, <1>4, <1>5 DEF InstallInv

LEMMA OthersAct ==
  ASSUME OldestFirst, InstallInv,
         LandsLate \/ HouseholdCopies \/ HouseholdInstalls \/ MaintainerReleases \/ IndexArrives
  PROVE  InstallInv' /\ job'.at = job.at
<1> USE DEF InstallInv
<1>1. repo.released \in Nat /\ \A i \in 1..repo.released : i \in 1..repo.released + 1
  BY ReleasesAssumption DEF RepoShape
<1>2. /\ Newest \in Named /\ NoVersion \in Named
      /\ \E i \in 1..repo.released : Newest = Releases[i]
  BY NewestRead DEF Named
<1>3. CASE LandsLate
  <2>1. RepoShape' /\ repo'.running = repo.running /\ repo'.released = repo.released
        /\ repo'.indexed = repo.indexed
    BY <1>2, <1>3 DEF LandsLate, RepoShape
  <2> QED BY <1>1, <1>3, <2>1, Beside DEF LandsLate
<1>4. CASE HouseholdCopies
  <2>1. PICK i \in 1..repo.released : Hands([repo EXCEPT !.files = Releases[i]])
    BY <1>4 DEF HouseholdCopies
  <2>3. Releases[i] \in Named
    BY <2>1, ReleasesAssumption, ReleasesRead DEF RepoShape
  <2>2. RepoShape' /\ repo'.running = repo.running /\ repo'.released = repo.released
        /\ repo'.indexed = repo.indexed
    BY <2>1, <2>3 DEF Hands, RepoShape
  <2> QED BY <1>1, <2>1, <2>2, Beside DEF Hands
<1>5. CASE HouseholdInstalls
  <2>1. RepoShape' /\ repo'.running = repo.running /\ repo'.released = repo.released
        /\ repo'.indexed = Newest
    BY <1>2, <1>5 DEF HouseholdInstalls, Hands, RepoShape
  <2> QED BY <1>1, <1>5, <2>1, Beside DEF HouseholdInstalls, Hands
<1>6. CASE MaintainerReleases
  <2>1. repo' = [repo EXCEPT !.released = repo.released + 1] /\ repo.released + 1 \in DOMAIN Releases
    BY <1>1, <1>6, ReleasesAssumption DEF MaintainerReleases
  <2>2. RepoShape' /\ repo'.running = repo.running /\ repo'.released = repo.released + 1
        /\ repo'.indexed = repo.indexed /\ repo'.recorded = repo.recorded
    BY <1>1, <2>1 DEF RepoShape
  <2> QED BY <1>1, <1>6, <2>2, Beside DEF MaintainerReleases
<1>7. CASE IndexArrives
  <2>1. RepoShape' /\ repo'.running = repo.running /\ repo'.released = repo.released
        /\ repo'.indexed = Newest /\ repo'.recorded = repo.recorded
    BY <1>2, <1>7 DEF IndexArrives, RepoShape
  <2> QED BY <1>1, <1>7, <2>1, Beside DEF IndexArrives
<1> QED BY <1>3, <1>4, <1>5, <1>6, <1>7

\* From the download on, and what ends a command or begins one.
LEMMA FromDownload ==
  ASSUME InstallInv, NEW ok \in BOOLEAN,
         \/ Downloaded(ok) \/ Confirmed(ok) \/ DownloadTimesOut \/ InstallCut \/ Restarted
         \/ \E cmd \in Commands : Install(cmd)
  PROVE  /\ InstallInv'
         /\ job'.at = "confirming" => Downloaded(ok) /\ repo'.files = Fetched
<1> USE DEF InstallInv
<1>1. Fetched \in Named /\ NoVersion \in Named
  BY FetchedNamed DEF Named
<1>2. CASE Downloaded(ok)
  <2>1. CASE Refuse
    BY <2>1, InstallAnswered DEF Refuse
  <2>2. CASE /\ \E recorded \in {Fetched} \cup (IF Pinned THEN {repo.recorded} ELSE {}) :
                  repo' = [repo EXCEPT !.files = Fetched, !.recorded = recorded, !.listed = TRUE]
             /\ job' = [job EXCEPT !.at = "confirming"]
    <3>1. PICK recorded \in {Fetched, repo.recorded} :
            repo' = [repo EXCEPT !.files = Fetched, !.recorded = recorded, !.listed = TRUE]
      BY <2>2
    <3>2. RepoShape' /\ repo'.files = Fetched
      BY <1>1, <3>1 DEF RepoShape
    <3>3. JobShape' /\ job'.at = "confirming"
      BY <2>2 DEF JobShape
    <3> QED BY <1>2, <3>2, <3>3 DEF LookKept, Compared, Uncompared
  <2> QED BY <1>2, <2>1, <2>2 DEF Downloaded
<1>3. CASE Confirmed(ok)
  <2>1. \E said : Answer(said, TRUE)
    BY <1>3 DEF Confirmed
  <2> QED BY <2>1, InstallAnswered
<1>4. CASE DownloadTimesOut \/ InstallCut \/ Restarted
  <2>1. RepoShape'
    BY <1>1, <1>4 DEF DownloadTimesOut, InstallCut, Restarted, RepoShape
  <2> QED BY <1>4, <2>1, NoneUnderWay DEF DownloadTimesOut, InstallCut, Restarted
<1>5. ASSUME NEW cmd \in Commands, Install(cmd)
      PROVE  InstallInv' /\ job'.at # "confirming"
  <2>1. RepoShape'
    BY <1>5 DEF Install, RepoShape
  <2>2. CASE job' = NoJob
    BY <2>1, <2>2, NoneUnderWay
  <2>3. CASE job' = [NoJob EXCEPT !.at = "finding", !.cmd = cmd]
    <3>1. JobShape' /\ job'.at = "finding"
      BY <1>1, <2>3 DEF JobShape, NoJob, NoEntry
    <3> QED BY <2>1, <3>1 DEF LookKept, Compared, Uncompared
  <2> QED BY <1>5, <2>2, <2>3 DEF Install
<1> QED BY <1>2, <1>3, <1>4, <1>5

LEMMA InstallStep ==
  ASSUME OldestFirst, InstallInv, [InstallNext]_installVars
  PROVE  /\ InstallInv'
         /\ job.at = "downloading" /\ job'.at = "confirming" => repo'.files = Fetched
<1>1. ASSUME NEW ok \in BOOLEAN,
             \/ Found(ok) \/ Added(ok) \/ Polled(ok) \/ Refreshed(ok) \/ Relooked(ok)
             \/ Downloaded(ok) \/ Confirmed(ok)
      PROVE  InstallInv' /\ (job'.at = "confirming" => repo'.files = Fetched)
  BY <1>1, UpToDownload, FromDownload
<1>2. CASE LandsLate \/ HouseholdCopies \/ HouseholdInstalls \/ MaintainerReleases \/ IndexArrives
  BY <1>2, OthersAct
<1>3. CASE DownloadTimesOut \/ InstallCut \/ Restarted \/ \E cmd \in Commands : Install(cmd)
  <2>1. TRUE \in BOOLEAN
    OBVIOUS
  <2> QED BY <1>3, <2>1, FromDownload
<1>4. CASE UNCHANGED installVars
  BY <1>4 DEF installVars, InstallInv, RepoShape, JobShape, LookKept, Since, Pinned,
              Compared, Uncompared, Fetched
<1> QED BY <1>1, <1>2, <1>3, <1>4 DEF InstallNext

\* What is put over the files is not worse than what the command could know of them.
LEMMA NothingWorse ==
  ASSUME InstallInv, job.at = "downloading", Known, ~job.cmd.downgrade,
         ~job.overtaken, job.floor # NoVersion => Parses(job.floor)
  PROVE  ~Worse(Fetched, repo.files)
<1>0. SUFFICES ASSUME Parses(job.floor) PROVE ~Worse(Fetched, repo.files)
  <2>1. job.floor = NoVersion => repo.files = NoVersion
    BY DEF InstallInv, Uncompared, Known
  <2> QED BY <2>1, NoVersionUnread DEF Worse
<1>1. /\ Fetched \in Named /\ job.floor \in Named /\ repo.files \in Named
  BY FetchedNamed DEF InstallInv, RepoShape, JobShape
<1>2. /\ Parses(Fetched) /\ ~IsOlder(Fetched, job.floor)
      /\ ~IsOlder(job.floor, repo.files)
  BY <1>0 DEF InstallInv, Compared, Known
<1>3. ~IsOlder(Fetched, repo.files)
  BY <1>0, <1>1, <1>2, OlderChain
<1> QED BY <1>1, <1>2, <1>3, NotBefore DEF Worse

-----------------------------------------------------------------------------
(* Of one kind after the other.                                            *)

LEMMA OnePart ==
  ASSUME [Next]_errandVars
  PROVE  /\ [BackupNext]_backupVars /\ [FlowNext]_flowVars
         /\ [LinkNext]_linkVars /\ [GateNext]_gateVars /\ [TokenNext]_tokenVars
         /\ [InventoryNext]_inventoryVars /\ [InstallNext]_installVars
BY DEF Next, errandVars, Compare

(* integration_cmds.py:28-30: a command that answered leaves no flow of    *)
(* its own open, and says of an entry that it made it.                     *)
THEOREM FlowsEnd == Spec => []FlowEnds
<1>1. Init => FlowInv
  BY FlowInitially DEF Init
<1>2. FlowInv /\ [Next]_errandVars => FlowInv'
  BY FlowStep, OnePart
<1>3. FlowInv => FlowEnds
  BY DEF FlowInv
<1> QED BY <1>1, <1>2, <1>3, PTL DEF Spec

(* backup_cmds.py:24-31: no copy over its limit is stored outside the home,*)
(* none of a backup whose details show media or could not be read, and an  *)
(* upload's owner token ends with it.  (Details that show no backup at all *)
(* count as no media: :264-265, `blind`.)                                  *)
THEOREM UploadsAreSafe == Spec => []UploadSafe
<1>1. Init => BackupInv
  BY BackupInitially DEF Init
<1>2. BackupInv /\ [Next]_errandVars => BackupInv'
  BY BackupStep, OnePart
<1>3. BackupInv => UploadSafe
  BY DEF BackupInv, Copies, TokenLife, UploadSafe
<1> QED BY <1>1, <1>2, <1>3, PTL DEF Spec

(* backup_cmds.py:202-205: a schedule takes nothing but media from the     *)
(* folders the household chose.                                            *)
THEOREM FoldersAreKept == Spec => FoldersKept
<1>1. Init => FoldersInv
  BY FoldersInitially DEF Init
<1>2. FoldersInv /\ [Next]_errandVars => FoldersInv' /\ [FoldersMove]_backupVars
  BY FoldersStep, FoldersChange, OnePart
<1> QED BY <1>1, <1>2, PTL DEF Spec, FoldersKept, FoldersMove

(* link_cmds.py:306-315: "joined" is said of an add-on that runs, with the *)
(* key of this setup in effect.                                            *)
THEOREM JoinsAreTrue == Spec => JoinedTruly
<1>1. Init => LinkInv
  BY LinkInitially DEF Init
<1>2. LinkInv /\ [Next]_errandVars => LinkInv' /\ [Joins]_linkVars
  BY LinkStep, LinkJoins, OnePart
<1> QED BY <1>1, <1>2, PTL DEF Spec, JoinedTruly, Joins

(* maintenance.py:565-568: where consent ends while a set-up of the link   *)
(* waits for the store or the add-on, its key reaches no add-on.           *)
THEOREM ConsentIsObeyed == Spec => []ConsentObeyed
<1>1. Init => KeyInv
  BY KeyInitially DEF Init
<1>2. KeyInv /\ [Next]_errandVars => KeyInv'
  BY KeyStep, OnePart
<1> QED BY <1>1, <1>2, KeyHeldBack, PTL DEF Spec

(* service_policy.py:555-564, switch.py:16-18: no command gives the manager*)
(* what the home had not granted: neither of the two controls is turned on *)
(* that is not held by a collection and can be looked for under its id.    *)
THEOREM NoCommandGrants == Spec => NeverGrantsItself
<1>1. Init => GrantsShape
  BY GrantsInitially DEF Init
<1>2. GrantsShape /\ [Next]_errandVars => GrantsShape' /\ [GrantsNothing]_gateVars
  BY GrantsStep, GrantsNever, OnePart
<1> QED BY <1>1, <1>2, PTL DEF Spec, NeverGrantsItself, GrantsNothing

(* service_policy.py:402-414, 505-532, commands.py:112-183: a service acts *)
(* on what it names or what that holds, and whatever needs consent or the  *)
(* opt-in, is retired or never allowed runs only as the home has granted.  *)
THEOREM CommandsRunAsAllowed == Spec => []RunsAsAllowed
<1>1. Init => GrantsShape /\ RunsAsAllowed
  <2>1. Init => order = NoOrder
    BY Zenon DEF Init, GateInit
  <2>2. NoOrder.at = "idle"
    BY DEF NoOrder
  <2> QED BY <2>1, <2>2, GrantsInitially, Zenon DEF Init, RunsAsAllowed
<1>2. GrantsShape /\ RunsAsAllowed /\ [Next]_errandVars => GrantsShape' /\ RunsAsAllowed'
  BY GrantsStep, AllowedStep, OnePart
<1> QED BY <1>1, <1>2, PTL DEF Spec

(* hacs_token.py:26-33: the answer of a swap is what became of HACS.       *)
THEOREM SwapsAreTrue == Spec => []SwapTruthful
<1>1. Init => TokenInv
  BY TokenInitially DEF Init
<1>2. TokenInv /\ [Next]_errandVars => TokenInv'
  BY TokenStep, OnePart
<1>3. TokenInv => SwapTruthful
  <2> SUFFICES ASSUME TokenInv PROVE SwapTruthful
    OBVIOUS
  <2>1. swap.wrote /\ ~swap.meddled =>
          /\ hacs.data.token \in {swap.token, swap.previous.token}
          /\ hacs.data.rest = swap.previous.rest
    BY DEF TokenInv, Safe, With
  <2> QED BY <2>1, Zenon DEF TokenInv, Safe, Told, SwapTruthful
<1> QED BY <1>1, <1>2, <1>3, PTL DEF Spec

(* registry_paging.py:80-163: the pages of the inventory are disjoint and  *)
(* together what matches, for any number of entities and any limit.        *)
THEOREM InventoryPages == Spec => []InventoryPagesAddUp
<1>1. InventoryPagesAddUp
  BY PagesAlwaysAddUp DEF InventoryPagesAddUp
<1> QED BY <1>1, PTL

(* privacy.py:17-23: no message shows a name of the household in the clear,*)
(* whatever changes while it is made.                                      *)
THEOREM NamesStayHome == Spec => []StandingNamesHidden
<1>1. Init => InventoryInv
  BY InventoryInitially DEF Init
<1>2. InventoryInv /\ [Next]_errandVars => InventoryInv'
  BY InventoryStep, OnePart
<1> QED BY <1>1, <1>2, NamesAreHidden, PTL DEF Spec

(* registry_paging.py:32-36: a copy with the digest of the home is the     *)
(* home's inventory in everything the digest is made of, which the id of a *)
(* room is not, whatever changed between its pages.                        *)
THEOREM CopiesAreTheHome == Spec => []CopyIsHome
<1>1. Init => InventoryInv
  BY InventoryInitially DEF Init
<1>2. InventoryInv /\ [Next]_errandVars => InventoryInv'
  BY InventoryStep, OnePart
<1> QED BY <1>1, <1>2, CopyIsOfHome, PTL DEF Spec

(* version.py:31-33, service_policy.py:360-368: the comparisons are those  *)
(* of an order of versions, however many parts they have.                  *)
THEOREM VersionsAreOrdered == Spec => []VersionsCompare
<1> DEFINE Typed == compared \in Texts \X Texts
<1>1. Init => Typed
  <2>1. NoVersion \in Texts
    <3>1. <<>> \in [1..0 -> Parts] /\ 0 \in 0..MaxParts /\ 0 \in 0..1
      BY PartsAssumption
    <3> QED BY <3>1 DEF NoVersion, Texts, Tuples
  <2> QED BY <2>1 DEF Init
<1>2. Typed /\ [Next]_errandVars => Typed'
  BY DEF Next, errandVars, Compare
<1>3. Typed => VersionsCompare
  BY VersionsInOrder DEF VersionsCompare
<1> QED BY <1>1, <1>2, <1>3, PTL DEF Spec

(* hacs_cmds.py:237-242: a download that was not let go below what is      *)
(* there puts no lower numbers over files the command could know of, for   *)
(* releases in order, with suffixes or without.                            *)
THEOREM NothingQuietlyOlder ==
  ASSUME OldestFirst
  PROVE  Spec => NoQuietDowngrade
<1> DEFINE Put == /\ job.at = "downloading" /\ job'.at = "confirming"
                  /\ Worse(repo'.files, repo.files)
           Excused == \/ job.cmd.downgrade \/ ~Known \/ job.overtaken
                      \/ job.floor # NoVersion /\ ~Parses(job.floor)
<1>1. Init => InstallInv
  BY InstallInitially DEF Init
<1>2. InstallInv /\ [Next]_errandVars => InstallInv'
  BY InstallStep, OnePart
<1>3. InstallInv /\ [Next]_errandVars => [Put => Excused]_installVars
  <2>1. InstallInv /\ [Next]_errandVars /\ Put => repo'.files = Fetched
    BY InstallStep, OnePart
  <2>2. InstallInv /\ [Next]_errandVars /\ Put => Excused
    BY <2>1, NothingWorse
  <2> QED BY <2>2
<1> QED BY <1>1, <1>2, <1>3, PTL DEF Spec, NoQuietDowngrade
=============================================================================
