------------------------------ MODULE DartecLink ------------------------------
(***************************************************************************)
(* link_setup, link_stop and link_status (link_cmds.py), and tunnel_stop   *)
(* (tunnel_cmds.py): the Supervisor add-on through which the home joins    *)
(* the mesh is found, installed, updated, given a single-use key and       *)
(* started.  Every call to the Supervisor is a step, in which it may fail  *)
(* or the home may change.  The Supervisor and the add-on are external.    *)
(***************************************************************************)
EXTENDS Naturals

CONSTANTS MaxSetups,    \* bound: commands
          MaxConfirms,  \* looks at a started add-on (the code's 10)
          MaxTouches    \* bound: what the household does with the add-on

VARIABLES addon,     \* the add-on, as the Supervisor has it
          consent,   \* a maintenance window or an open commissioning
          call,      \* the command being carried out
          answer     \* its answer

linkVars == <<addon, consent, call, answer>>

Outcomes == {"ok", "refused", "raises"}
(* options and runsWith are the number of the setup whose key they hold.   *)
Addon == [offered : BOOLEAN, repository : BOOLEAN, installed : BOOLEAN, outdated : BOOLEAN,
          options : 0..MaxSetups, runsWith : 0..MaxSetups, state : {"stopped", "started"},
          touches : 0..MaxTouches, tunnel : {"none", "stopped", "started"}]
NoCall == [at |-> "idle", looks |-> 0, read |-> "none", touched |-> FALSE, ended |-> FALSE, n |-> 0]

(* Where a set-up waits for the store and the add-on, for minutes.         *)
Preparing == {"looking", "adding", "searching", "refreshing", "updating", "installing"}

LinkInit ==
  /\ addon \in {a \in Addon :
       /\ a.options = 0 /\ a.runsWith = 0 /\ a.touches = 0
       /\ a.installed => a.offered
       /\ a.offered => a.repository
       /\ a.outdated => a.installed
       /\ a.state = "started" => a.installed}
  /\ consent = TRUE
  /\ call = NoCall
  /\ answer = [what |-> "none", n |-> 0]

LinkSays(what) ==
  /\ answer' = [what |-> what, n |-> call.n]
  /\ call' = [NoCall EXCEPT !.n = call.n, !.read = call.read, !.touched = call.touched,
                            !.ended = call.ended]
LinkTo(at) == call' = [call EXCEPT !.at = at] /\ UNCHANGED answer

(* The key is there, the login server is one of ours, there is a           *)
(* Supervisor: else nothing is touched.                                    *)
LinkSetup(fits) ==
  /\ call.at = "idle" /\ call.n < MaxSetups /\ consent
  /\ LET asked == [NoCall EXCEPT !.n = call.n + 1]
     IN  \/ /\ fits
            /\ call' = [asked EXCEPT !.at = "looking"]
            /\ answer' = [what |-> "none", n |-> call.n + 1]
         \/ ~fits /\ call' = asked /\ answer' = [what |-> "refused", n |-> call.n + 1]
  /\ UNCHANGED <<addon, consent>>

(* _find_addon: what the store offers, once; nothing if the list failed.   *)
Offered(outcome) == outcome = "ok" /\ addon.offered
Raised(outcome) == outcome = "raises" /\ LinkSays("failed")

Looked(outcome) ==
  /\ call.at = "looking"
  /\ \/ Raised(outcome)
     \/ outcome # "raises" /\ LinkTo(IF Offered(outcome) THEN "refreshing" ELSE "adding")
  /\ UNCHANGED <<addon, consent>>

(* The repository is added, or was there already, which is an error of the *)
(* Supervisor with a name of its own; the store is read again.             *)
RepositoryAdded(outcome) ==
  /\ call.at = "adding"
  /\ \/ Raised(outcome) /\ UNCHANGED addon
     \/ outcome = "refused" /\ ~addon.repository /\ LinkSays("failed") /\ UNCHANGED addon
     \/ /\ outcome = "ok" \/ (outcome = "refused" /\ addon.repository)
        /\ addon' = [addon EXCEPT !.repository = TRUE]
        /\ LinkTo("searching")
  /\ UNCHANGED consent

(* Twelve looks, while the Supervisor fetches the repository.              *)
Searched(outcome) ==
  /\ call.at = "searching"
  /\ \/ Raised(outcome)
     \/ outcome # "raises" /\ Offered(outcome) /\ LinkTo("refreshing")
     \/ outcome # "raises" /\ ~Offered(outcome) /\ LinkSays("failed")
  /\ UNCHANGED <<addon, consent>>

(* Mutant: consent is not asked for again.                                 *)
EnrolUnasked == LinkTo("configuring")

(* consent_ended, asked when the last long wait is over; the call that     *)
(* hands over the key follows, and what it does comes later (Configured).  *)
Enrol ==
  \/ consent /\ LinkTo("configuring")
  \/ ~consent /\ LinkSays("refused")

(* The store is reloaded and the add-on looked up again, so that an update *)
(* can be seen.  What the second look does not show is taken as the first  *)
(* one showed it.                                                          *)
StoreRefreshed(outcome) ==
  /\ call.at = "refreshing"
  /\ \/ Raised(outcome)
     \/ /\ outcome # "raises"
        /\ \E installed \in IF Offered(outcome) THEN {addon.installed} ELSE BOOLEAN,
              outdated \in IF Offered(outcome) THEN {addon.outdated} ELSE BOOLEAN :
             \/ installed /\ ~outdated /\ Enrol
             \/ installed /\ outdated /\ LinkTo("updating")
             \/ ~installed /\ LinkTo("installing")
  /\ UNCHANGED <<addon, consent>>

(* An update that fails is not fatal; one that raises ends the command.    *)
Updated(outcome) ==
  /\ call.at = "updating"
  /\ \/ Raised(outcome) /\ UNCHANGED addon
     \/ outcome = "refused" /\ Enrol /\ UNCHANGED addon
     \/ /\ outcome = "ok" /\ addon.installed
        /\ addon' = [addon EXCEPT !.outdated = FALSE]
        /\ Enrol
  /\ UNCHANGED consent

(* The installation takes minutes, and is refused for one already there.   *)
Installed(outcome) ==
  /\ call.at = "installing"
  /\ outcome = "ok" => addon.offered /\ ~addon.installed
  /\ \/ Raised(outcome) /\ UNCHANGED addon
     \/ outcome = "refused" /\ LinkSays("failed") /\ UNCHANGED addon
     \/ /\ outcome = "ok"
        /\ addon' = [addon EXCEPT !.installed = TRUE, !.outdated = FALSE, !.options = 0]
        /\ Enrol
  /\ UNCHANGED consent

(* All the options at once, this setup's key among them.                   *)
Configured(outcome) ==
  /\ call.at = "configuring"
  /\ outcome = "ok" => addon.installed
  /\ \/ Raised(outcome) /\ UNCHANGED addon
     \/ outcome = "refused" /\ LinkSays("failed") /\ UNCHANGED addon
     \/ /\ outcome = "ok"
        /\ addon' = [addon EXCEPT !.options = call.n]
        /\ LinkTo("reading")
  /\ UNCHANGED consent

(* Whether it runs decides between a start and a restart; what cannot be   *)
(* read counts as stopped.                                                 *)
Read(outcome) ==
  /\ call.at = "reading"
  /\ \/ Raised(outcome)
     \/ /\ outcome # "raises"
        /\ call' = [call EXCEPT !.at = "starting",
                                !.read = IF outcome = "ok" THEN addon.state ELSE "unknown"]
        /\ UNCHANGED answer
  /\ UNCHANGED <<addon, consent>>

(* Mutant: always a start.                                                 *)
ActionStart == "start"
Action == IF call.read = "started" THEN "restart" ELSE "start"

(* An add-on takes its options when it starts: a start of one that runs    *)
(* already is accepted and changes nothing.                                *)
Started(outcome) ==
  /\ call.at = "starting"
  /\ outcome = "ok" => addon.installed
  /\ \/ Raised(outcome) /\ UNCHANGED addon
     \/ outcome = "refused" /\ LinkSays("failed") /\ UNCHANGED addon
     \/ /\ outcome = "ok"
        /\ addon' = [addon EXCEPT !.state = "started",
             !.runsWith = IF Action = "start" /\ addon.state = "started" THEN @ ELSE addon.options]
        /\ call' = [call EXCEPT !.at = "confirming", !.looks = 0]
        /\ UNCHANGED answer
  /\ UNCHANGED consent

(* A start that was accepted is looked after: a few seconds apart, ten     *)
(* times at most, and once more.                                           *)
LinkConfirmed(outcome) ==
  /\ call.at = "confirming"
  /\ LET up == outcome = "ok" /\ addon.state = "started"
         last == call.looks = MaxConfirms
     IN  \/ Raised(outcome)
         \/ outcome # "raises" /\ up /\ LinkSays("joined")
         \/ outcome # "raises" /\ ~up /\ last /\ LinkSays("failed")
         \/ /\ outcome # "raises" /\ ~up /\ ~last
            /\ call' = [call EXCEPT !.looks = @ + 1]
            /\ UNCHANGED answer
  /\ UNCHANGED <<addon, consent>>

(* link_stop and tunnel_stop: an installed add-on is told to stop.         *)
LinkStop(outcome) ==
  /\ call.at = "idle" /\ answer.what # "stopped"
  /\ LET stopped == outcome = "ok" /\ addon.installed
     IN  /\ LinkSays(IF stopped THEN "stopped" ELSE "failed")
         /\ addon' = IF stopped THEN [addon EXCEPT !.state = "stopped"] ELSE addon
  /\ UNCHANGED consent
TunnelStop(outcome) ==
  /\ call.at = "idle" /\ addon.tunnel # "none"
  /\ LET stopped == outcome = "ok"
     IN  /\ LinkSays(IF stopped THEN "tunnel stopped" ELSE "failed")
         /\ addon' = IF stopped THEN [addon EXCEPT !.tunnel = "stopped"] ELSE addon
  /\ UNCHANGED consent

(* The agent's entry is unloaded: the command ends at its await.           *)
LinkCut ==
  /\ call.at # "idle"
  /\ LinkSays("cut")
  /\ UNCHANGED <<addon, consent>>

-----------------------------------------------------------------------------
(* The store fills, the add-on dies, and the household touches it.         *)
StoreFills ==
  /\ addon.repository /\ ~addon.offered
  /\ addon' = [addon EXCEPT !.offered = TRUE]
  /\ UNCHANGED <<consent, call, answer>>
Touches(new) ==
  /\ addon.touches < MaxTouches /\ new # addon
  /\ addon' = [new EXCEPT !.touches = @ + 1]
  /\ call' = [call EXCEPT !.touched = TRUE]
  /\ UNCHANGED <<consent, answer>>
Dies == Touches([addon EXCEPT !.state = "stopped"])
StartsIt ==
  /\ addon.installed /\ addon.state = "stopped"
  /\ Touches([addon EXCEPT !.state = "started", !.runsWith = addon.options])
Uninstalls == Touches([addon EXCEPT !.installed = FALSE, !.state = "stopped", !.outdated = FALSE])
InstallsIt ==
  /\ addon.offered /\ ~addon.installed
  /\ Touches([addon EXCEPT !.installed = TRUE, !.options = 0])
(* Support is switched off, and on again; "ended" is an observation: it was*)
(* off when the set-up waited and has not been on since.                   *)
ConsentEnds ==
  /\ consent
  /\ consent' = FALSE
  /\ call' = [call EXCEPT !.ended = call.at \in Preparing]
  /\ UNCHANGED <<addon, answer>>
ConsentReturns ==
  /\ ~consent
  /\ consent' = TRUE
  /\ call' = [call EXCEPT !.ended = FALSE]
  /\ UNCHANGED <<addon, answer>>

LinkNext ==
  \/ \E fits \in BOOLEAN : LinkSetup(fits)
  \/ \E o \in Outcomes :
       \/ Looked(o) \/ RepositoryAdded(o) \/ Searched(o) \/ StoreRefreshed(o) \/ Updated(o)
       \/ Installed(o) \/ Configured(o) \/ Read(o) \/ Started(o) \/ LinkConfirmed(o)
       \/ LinkStop(o) \/ TunnelStop(o)
  \/ LinkCut \/ StoreFills \/ Dies \/ StartsIt \/ Uninstalls \/ InstallsIt \/ ConsentEnds
  \/ ConsentReturns

-----------------------------------------------------------------------------
(* link_cmds.py:306-315.  "Joined" is answered only of an add-on that was  *)
(* seen running, with this setup's key in effect.  Where the household     *)
(* touched it meanwhile nothing is claimed of the key, nor where its state *)
(* could not be read: a start then leaves a running one on its old key.    *)
JoinedTruly ==
  [][answer'.what = "joined" /\ call.at = "confirming" =>
       /\ addon.state = "started" /\ addon.installed
       /\ ~call.touched /\ call.read # "unknown" => addon.runsWith = call.n]_linkVars

(* maintenance.py:565-568: a homeowner who switches support off while a    *)
(* set-up searches, updates or installs "is obeyed rather than overtaken": *)
(* on every way through those waits, with calls that fail or raise, its key*)
(* never reaches the add-on, nor runs.  (Once consent was asked for again  *)
(* the options, the start and the joining follow, whatever ends meanwhile: *)
(* link_cmds.py:282-292.)                                                  *)
ConsentObeyed == call.ended => call.n \notin {addon.options, addon.runsWith}
=============================================================================
