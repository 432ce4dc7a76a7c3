---------------------------- MODULE UpdatePromise ----------------------------
(***************************************************************************)
(* What a guarded update promises the home, without how it is done         *)
(* (the head of ha_update.py, and _STATE_WORDS): at most one job is open;  *)
(* nothing moves before its backup exists; while it is open only the       *)
(* version it is about moves, and only between the two versions it named;  *)
(* and when it closes as succeeded, rolled back or failed, the home is on  *)
(* the version that word means.                                            *)
(***************************************************************************)
EXTENDS Integers

CONSTANTS Versions, NoVersion

VARIABLES
  phase,    \* "idle", "open", or the word the last job closed with
  task,     \* what the job is about: kind, from, to
  safe,     \* the open job has its backup
  running   \* the version running, per kind

vars == <<phase, task, safe, running>>

Words == {"succeeded", "failed", "rolled_back", "rollback_failed", "given_up"}

Tasks == [kind : {"core", "os"}, from : Versions \cup {NoVersion},
          to : Versions \cup {NoVersion}]

Init ==
  /\ phase = "idle"
  /\ task \in Tasks
  /\ safe = FALSE
  /\ running \in [{"core", "os"} -> Versions \cup {NoVersion}]

Open ==
  /\ phase # "open"
  /\ phase' = "open"
  /\ task' \in Tasks
  /\ task'.from = running[task'.kind]
  /\ task'.from < task'.to
  /\ safe' = FALSE
  /\ UNCHANGED running

Secure ==
  /\ phase = "open"
  /\ ~safe
  /\ safe' = TRUE
  /\ UNCHANGED <<phase, task, running>>

Move ==
  /\ phase = "open"
  /\ safe
  /\ \E v \in {task.from, task.to} : running' = [running EXCEPT ![task.kind] = v]
  /\ UNCHANGED <<phase, task, safe>>

\* The word a job closes with fits what is running then. "rollback_failed"
\* and "given_up" say that somebody has to look.
Fits(word) ==
  /\ word = "succeeded" => running[task.kind] = task.to /\ safe
  /\ word \in {"rolled_back", "failed"} => running[task.kind] = task.from

Close(word) ==
  /\ phase = "open"
  /\ Fits(word)
  /\ phase' = word
  /\ UNCHANGED <<task, safe, running>>

Next == Open \/ Secure \/ Move \/ \E word \in Words : Close(word)

Spec == Init /\ [][Next]_vars
=============================================================================
