------------------------------- MODULE Backups -------------------------------
(***************************************************************************)
(* backup_create, backup_schedule, backup_delete and backup_upload         *)
(* (backup_cmds.py), with the owner's token an upload works under          *)
(* (ws_bridge.py).  Home Assistant's backups and their settings, the       *)
(* household beside them and the manager's storage are external.  Of a     *)
(* backup only its folders and its size matter.                            *)
(***************************************************************************)
EXTENDS Naturals

CONSTANTS Folders,     \* what a backup can hold besides Home Assistant
          Media,       \* the one that is never to leave the home
          MaxSize,     \* bound: the size of a backup, in chunks
          MaxAsked,    \* bound: commands
          MaxChoices   \* bound: what the household does

ASSUME MediaAssumption == Media \in Folders

VARIABLES home,     \* Home Assistant: its backups, and the automatic ones' settings
          task,     \* the command being carried out
          offsite,  \* the copies the manager has stored
          tokens    \* owner tokens minted and not removed

backupVars == <<home, task, offsite, tokens>>

(* A backup declares 0 where Home Assistant does not say how large it is.   *)
NoBackup == [folders |-> {}, size |-> 1, declared |-> 0]
NoTask == [at |-> "idle", folders |-> {}, on |-> FALSE, backup |-> NoBackup, max |-> 0,
           sent |-> 0, blind |-> FALSE, read |-> FALSE, overtaken |-> FALSE]

IncludesMedia(backup) == Media \in backup.folders
WithoutMedia(folders) == folders \ {Media}

BackupInit ==
  /\ home \in [supervisor : BOOLEAN, backups : {{}},
               automatic : {FALSE}, folders : SUBSET Folders, asked : {0}, choices : {0}]
  /\ task = NoTask
  /\ offsite = {}
  /\ tokens = 0

Done == task' = [NoTask EXCEPT !.overtaken = task.overtaken]
BackupTo(at) == task' = [task EXCEPT !.at = at]
AsksFor(new) ==
  /\ task.at = "idle" /\ home.asked < MaxAsked
  /\ home' = [home EXCEPT !.asked = @ + 1]
  /\ task' = new
  /\ UNCHANGED <<offsite, tokens>>

(* backup_create: the locations are read, then Home Assistant is asked.    *)
AsksCreate == \E f \in SUBSET Folders : AsksFor([NoTask EXCEPT !.at = "locating", !.folders = f])

(* There is a location, or not; the media folder is refused; without a     *)
(* Supervisor there are no folders.                                        *)
Located(ok) ==
  /\ task.at = "locating"
  /\ IF ok /\ (home.supervisor => WithoutMedia(task.folders) = task.folders)
     THEN task' = [task EXCEPT !.at = "generating",
                               !.folders = IF home.supervisor THEN @ ELSE {}]
     ELSE Done
  /\ UNCHANGED <<home, offsite, tokens>>
Made(folders) ==
  \E size \in 1..MaxSize, says \in BOOLEAN :
    home' = [home EXCEPT !.backups = @ \cup
      {[folders |-> folders, size |-> size, declared |-> IF says THEN size ELSE 0]}]
Generated(ok) ==
  /\ task.at = "generating"
  /\ IF ok THEN Made(task.folders) ELSE UNCHANGED home
  /\ Done
  /\ UNCHANGED <<offsite, tokens>>

(* backup_schedule: on or off; the locations, then under a Supervisor the  *)
(* settings as they are, and only a list that holds media is sent back.    *)
AsksSchedule == \E on \in BOOLEAN : AsksFor([NoTask EXCEPT !.at = "placing", !.on = on])
Placed(ok) ==
  /\ task.at = "placing"
  /\ IF task.on /\ ~ok THEN Done
     ELSE BackupTo(IF home.supervisor THEN "reading" ELSE "setting")
  /\ UNCHANGED <<home, offsite, tokens>>

(* Mutant: a list is sent back also when it could not be read.             *)
SettingsReadBlindly(ok) ==
  /\ task.at = "reading"
  /\ task' = [task EXCEPT !.at = "setting", !.read = TRUE, !.overtaken = FALSE,
                          !.folders = IF ok THEN WithoutMedia(home.folders) ELSE {}]
  /\ UNCHANGED <<home, offsite, tokens>>
SettingsRead(ok) ==
  /\ task.at = "reading"
  /\ task' = [task EXCEPT !.at = "setting", !.overtaken = FALSE,
                          !.read = ok /\ Media \in home.folders,
                          !.folders = IF ok THEN WithoutMedia(home.folders) ELSE {}]
  /\ UNCHANGED <<home, offsite, tokens>>
Set(ok) ==
  /\ task.at = "setting"
  /\ home' = IF ~ok THEN home
             ELSE [home EXCEPT !.automatic = task.on,
                               !.folders = IF task.read THEN task.folders ELSE @]
  /\ Done
  /\ UNCHANGED <<offsite, tokens>>

(* backup_delete.                                                          *)
Delete ==
  \E b \in home.backups :
    /\ task.at = "idle" /\ home.asked < MaxAsked
    /\ home' = [home EXCEPT !.backups = @ \ {b}, !.asked = @ + 1]
    /\ UNCHANGED <<task, offsite, tokens>>

(* backup_upload: the URL, the ids and the limit fit, or it is refused.    *)
AsksUpload ==
  \E b \in home.backups, max \in 1..MaxSize :
    AsksFor([NoTask EXCEPT !.at = "detailing", !.backup = b, !.max = max])

(* Mutant: the media folder is not looked for.                             *)
DetailedAnyFolder(shown) ==
  /\ task.at = "detailing"
  /\ task' = [task EXCEPT !.at = "minting", !.blind = shown = "nothing"]
  /\ UNCHANGED <<home, offsite, tokens>>

(* The details come back, as an error, or with no backup in them, which is *)
(* what Home Assistant answers when it could not read the location.        *)
Detailed(shown) ==
  /\ task.at = "detailing"
  /\ LET backup == IF shown = "backup" THEN task.backup ELSE NoBackup
     IN  IF shown = "error" \/ IncludesMedia(backup) \/ backup.declared > task.max THEN Done
         ELSE task' = [task EXCEPT !.at = "minting", !.blind = shown = "nothing"]
  /\ UNCHANGED <<home, offsite, tokens>>

Minted(owner) ==
  /\ task.at = "minting"
  /\ IF owner THEN BackupTo("streaming") /\ tokens' = tokens + 1
     ELSE Done /\ UNCHANGED tokens
  /\ UNCHANGED <<home, offsite>>

(* The end of the try: the token goes, whatever happened.                  *)
Finally == Done /\ tokens' = tokens - 1

(* A chunk is read and passed on; one over the limit ends the upload.      *)
Chunk ==
  /\ task.at = "streaming" /\ task.sent < task.backup.size
  /\ \/ task.sent + 1 > task.max /\ Finally
     \/ /\ task.sent + 1 <= task.max
        /\ task' = [task EXCEPT !.sent = @ + 1]
        /\ UNCHANGED tokens
  /\ UNCHANGED <<home, offsite>>

(* The manager has it all and answers; or something raised on the way.     *)
Stored(ok) ==
  /\ task.at = "streaming" /\ task.sent = task.backup.size
  /\ offsite' = IF ok THEN offsite \cup {[backup |-> task.backup, max |-> task.max,
                                          blind |-> task.blind]} ELSE offsite
  /\ Finally
  /\ UNCHANGED home
StreamFails ==
  /\ task.at = "streaming"
  /\ Finally
  /\ UNCHANGED <<home, offsite>>

(* The agent's entry is unloaded, or a call raises: the command ends at    *)
(* its await, "finally" included.                                          *)
BackupCut ==
  /\ task.at # "idle"
  /\ IF task.at = "streaming" THEN Finally ELSE Done /\ UNCHANGED tokens
  /\ UNCHANGED <<home, offsite>>

-----------------------------------------------------------------------------
(* The household chooses folders for the automatic backups; it, or Home    *)
(* Assistant, makes a backup (bound: into an empty store).                 *)
Chooses ==
  /\ home.choices < MaxChoices
  /\ \E f \in SUBSET Folders \ {home.folders} :
       home' = [home EXCEPT !.folders = f, !.choices = @ + 1]
  /\ task' = [task EXCEPT !.overtaken = TRUE]
  /\ UNCHANGED <<offsite, tokens>>
BacksUp ==
  /\ home.backups = {}
  /\ \E f \in SUBSET Folders : Made(f)
  /\ UNCHANGED <<task, offsite, tokens>>

BackupNext ==
  \/ AsksCreate \/ AsksSchedule \/ Delete \/ AsksUpload
  \/ \E ok \in BOOLEAN : \/ Located(ok) \/ Generated(ok) \/ Placed(ok) \/ SettingsRead(ok)
                         \/ Set(ok) \/ Minted(ok) \/ Stored(ok)
  \/ \E shown \in {"backup", "nothing", "error"} : Detailed(shown)
  \/ Chunk \/ StreamFails \/ BackupCut \/ Chooses \/ BacksUp

-----------------------------------------------------------------------------
(* backup_cmds.py:24-29: no copy outside the home holds the media folder   *)
(* or is larger than what was asked for, and the owner's token an upload   *)
(* worked under is gone when it ends, however it ends.  Details that came  *)
(* back empty (:264-265, `blind`) are taken for no media, and the copy is  *)
(* made, against :28-31 ("never copied offsite"): that is excepted.        *)
UploadSafe ==
  /\ \A copy \in offsite :
       /\ IncludesMedia(copy.backup) => copy.blind
       /\ copy.backup.size <= copy.max
  /\ tokens = IF task.at = "streaming" THEN 1 ELSE 0

(* backup_cmds.py:202-205 ("a failed read never wipes them"): setting the  *)
(* schedule takes nothing but media from the folders the household chose,  *)
(* and a list it sent holds no media; what the household chose after the   *)
(* list was read is left out.                                              *)
FoldersKept ==
  [][task.at = "setting" /\ task'.at = "idle" /\ home'.folders # home.folders /\ ~task.overtaken =>
       home'.folders = WithoutMedia(home.folders)]_backupVars
=============================================================================
