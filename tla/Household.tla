------------------------------ MODULE Household ------------------------------
(***************************************************************************)
(* The people who can sign in to a home, and those who change them: "My    *)
(* Home" (household.py, household_ws.py), where administrators of the home *)
(* act at once under one lock, and the manager's account commands          *)
(* (user_cmds.py, panel_cmds.py, panels.py), which run one at a time and   *)
(* take no lock. Who is a guest is kept by the integration, in memory and  *)
(* in a file written after the account has changed.                        *)
(***************************************************************************)
EXTENDS Integers, FiniteSets

CONSTANTS
  MaxId,        \* bound: accounts ever made
  NewNames,     \* usernames asked for in a creation
  PanelNames,   \* usernames that begin with PANEL_USERNAME_PREFIX
  CommandNames, \* usernames the manager asks for
  MaxChanges,   \* bound: commands of My Home
  MaxCommands,  \* bound: account commands of the manager
  MaxStops,     \* bound: restarts and reloads
  MaxEvents     \* bound: all of these together

ASSUME BoundsAssumption ==
  /\ MaxChanges \in Nat /\ MaxCommands \in Nat /\ MaxStops \in Nat
  /\ MaxEvents \in Nat
  /\ MaxId \in Nat /\ MaxId >= 5 + MaxChanges + MaxCommands
ASSUME NamesAssumption ==
  /\ {"none", "mum", "dad", "dartec", "aunt"} \cap (NewNames \cup PanelNames) = {}
  /\ "panel-hall" \in PanelNames /\ CommandNames \subseteq NewNames \cup PanelNames

Ids == 1..MaxId
Sessions == {1, 2}      \* the two administrators, each with My Home open
Roles == {"admin", "family", "guest"}
RoleGroup == [role \in Roles |-> IF role = "admin" THEN "admin" ELSE "users"]

NoAccount == [username |-> "none", group |-> "none", owner |-> FALSE,
              active |-> FALSE, local |-> FALSE]
Idle == [at |-> "idle", kind |-> "none", target |-> 0, fields |-> {},
         role |-> "family", active |-> TRUE, local |-> FALSE, name |-> "none",
         added |-> FALSE]

VARIABLES
  accounts,   \* Home Assistant's users, each with its login's username
  logins,     \* the usernames Home Assistant's login provider holds
  guests,     \* HouseholdStore.guests, in memory
  stored,     \* the same, in the file
  lock,       \* who holds _mutation_lock (0: nobody)
  session,    \* the command of My Home each session is at
  manager,    \* the account command the link is at
  nextId,     \* the id of the next account
  counts,     \* commands and stops so far
  disturbed,  \* observation: accounts whose change was cut short, by a stop or by
              \* an undo that failed, or overridden
  overtaken   \* observation: the manager changed accounts while the lock was held

vars == <<accounts, logins, guests, stored, lock, session, manager, nextId,
          counts, disturbed, overtaken>>

Events == counts.changes + counts.commands + counts.stops
Room == Events < MaxEvents

-----------------------------------------------------------------------------
(* The rules: household.py and panels.py.                                  *)

Exists(i) == accounts[i] # NoAccount
Existing == {i \in Ids : Exists(i)}
IsAdmin(a) == a.owner \/ a.group = "admin"

\* is_panel_account: a reserved username is not enough.
IsPanel(a) == a.username \in PanelNames /\ ~IsAdmin(a)

Kind(a) == IF a.owner THEN "owner"
           ELSE IF a.username = "dartec" THEN "maintenance"
           ELSE IF IsPanel(a) THEN "panel" ELSE "person"

Role(i) == IF IsAdmin(accounts[i]) THEN "admin"
           ELSE IF i \in guests THEN "guest" ELSE "family"

\* _active_admins: the support account is not one.
ActiveAdmins == {i \in Existing : /\ Kind(accounts[i]) \in {"owner", "person"}
                                  /\ accounts[i].active /\ IsAdmin(accounts[i])}

\* Mutant of MayManage: the actor as when the connection was opened.
MayManageThen(s) == TRUE

\* _fresh_actor and check_actor: being paused is not looked at.
MayManage(s) ==
  Exists(s) /\ IsAdmin(accounts[s]) /\ Kind(accounts[s]) # "maintenance"

Changeable(i) == Exists(i) /\ Kind(accounts[i]) = "person"

\* Mutant of KeepsAnAdmin: every account counts that could manage the home.
KeepsAnAdminOfAnyKind(i, stays) ==
  stays \/ \E k \in Existing \ {i} : IsAdmin(accounts[k])

\* _keep_an_admin: i was not one, stays one, or another does.
KeepsAnAdmin(i, stays) ==
  i \in ActiveAdmins => stays \/ ActiveAdmins \ {i} # {}

\* Mutant of LocalAfter: what was asked for, for guests too.
LocalAfterAsked(role, local) == local

\* Guests only ever sign in at home.
LocalAfter(role, local) == role = "guest" \/ local

\* check_update, and the fields _update will set: those that differ.
Cleaned(i, named, role, active, local) ==
  [Idle EXCEPT !.kind = "update", !.target = i, !.role = role, !.active = active,
     !.local = LocalAfter(role, local),
     !.fields = (IF named THEN {"name"} ELSE {})
           \cup (IF role # Role(i) THEN {"role"} ELSE {})
           \cup (IF active # accounts[i].active THEN {"active"} ELSE {})
           \cup (IF LocalAfter(role, local) # accounts[i].local THEN {"local"} ELSE {})]

UpdateAllowed(s, i, change) ==
  /\ MayManage(s) /\ Changeable(i)
  /\ change.fields # {}
  /\ i = s => change.fields = {"name"}
  /\ KeepsAnAdmin(i, change.active /\
       IF "role" \in change.fields THEN change.role = "admin" ELSE IsAdmin(accounts[i]))

RemoveAllowed(s, i) ==
  MayManage(s) /\ Changeable(i) /\ i # s /\ KeepsAnAdmin(i, FALSE)

CreateAllowed(s, name) ==
  /\ MayManage(s)
  /\ name \notin PanelNames \cup {"dartec"}
  /\ \A i \in Existing : accounts[i].username # name

-----------------------------------------------------------------------------
(* My Home: household_ws.py. Every change runs under the lock.             *)

\* require_admin and _gate; then the session waits for the lock.
Ask(s) ==
  /\ session[s].at = "idle" /\ counts.changes < MaxChanges /\ Room
  /\ Exists(s) /\ accounts[s].active /\ IsAdmin(accounts[s])
  /\ session' = [session EXCEPT ![s].at = "waiting"]
  /\ counts' = [counts EXCEPT !.changes = @ + 1]
  /\ UNCHANGED <<accounts, logins, guests, stored, lock, manager, nextId, disturbed, overtaken>>

rest == <<guests, stored, manager, counts, disturbed>>
undisturbed == <<accounts, logins, nextId, rest>>

\* With the lock: the users are read and the rules applied to them.
Begin(s, change) ==
  /\ session' = [session EXCEPT ![s] = [change EXCEPT !.at = "checked"]]
  /\ lock' = s /\ overtaken' = FALSE
  /\ UNCHANGED undisturbed

Check(s) ==
  /\ session[s].at = "waiting" /\ lock = 0
  /\ \/ \E i \in Existing, role \in Roles, named, active, local \in BOOLEAN :
          LET change == Cleaned(i, named, role, active, local) IN
          /\ UpdateAllowed(s, i, change)
          /\ named => change.fields = {"name"}
          /\ Begin(s, change)
     \/ \E i \in Existing :
          /\ RemoveAllowed(s, i)
          /\ Begin(s, [Idle EXCEPT !.kind = "remove", !.target = i])
     \/ \E name \in NewNames, role \in Roles, local \in BOOLEAN :
          /\ CreateAllowed(s, name)
          /\ Begin(s, [Idle EXCEPT !.kind = "create", !.name = name, !.role = role,
                                   !.local = LocalAfter(role, local)])

\* The rules refuse. The lock is free again.
Refuse(s) ==
  /\ session[s].at = "waiting" /\ lock = 0
  /\ session' = [session EXCEPT ![s] = Idle]
  /\ UNCHANGED <<undisturbed, lock, overtaken>>

Moves(s, stage) == session' = [session EXCEPT ![s].at = stage]

\* _update: Home Assistant changes the fields that differ.
ApplyUpdate(s) ==
  LET c == session[s] IN
  /\ c.at = "checked" /\ c.kind = "update" /\ Exists(c.target)
  /\ accounts' = [accounts EXCEPT
       ![c.target].group  = IF "role" \in c.fields THEN RoleGroup[c.role] ELSE @,
       ![c.target].active = IF "active" \in c.fields THEN c.active ELSE @,
       ![c.target].local  = IF "local" \in c.fields THEN c.local ELSE @]
  /\ Moves(s, "changed")
  /\ UNCHANGED <<logins, nextId, rest, lock, overtaken>>

\* _remove: the user goes, and its login with it.
ApplyRemove(s) ==
  LET c == session[s] IN
  /\ c.at = "checked" /\ c.kind = "remove" /\ Exists(c.target)
  /\ logins' = logins \ {accounts[c.target].username}
  /\ accounts' = [accounts EXCEPT ![c.target] = NoAccount]
  /\ Moves(s, "changed")
  /\ UNCHANGED <<nextId, rest, lock, overtaken>>

\* Somebody else removed the account meanwhile: the command fails, which
\* leaves the `async with`.
Vanished(s) ==
  /\ session[s].at = "checked" /\ session[s].kind \in {"update", "remove"}
  /\ ~Exists(session[s].target)
  /\ session' = [session EXCEPT ![s] = Idle]
  /\ lock' = 0
  /\ UNCHANGED <<undisturbed, overtaken>>

\* _create: a user, then a login, then the two linked.
MakeUser(s) ==
  LET c == session[s] IN
  /\ c.at = "checked" /\ c.kind = "create"
  /\ accounts' = [accounts EXCEPT ![nextId] =
       [username |-> "none", group |-> RoleGroup[c.role], owner |-> FALSE,
        active |-> TRUE, local |-> c.local]]
  /\ nextId' = nextId + 1
  /\ session' = [session EXCEPT ![s].at = "made", ![s].target = nextId]
  /\ UNCHANGED <<logins, rest, lock, overtaken>>

\* async_add_auth: the provider alone decides whether a username is taken.
AddLogin(s) ==
  /\ session[s].at = "made"
  /\ IF session[s].name \in logins
     THEN Moves(s, "undo") /\ UNCHANGED logins
     ELSE /\ logins' = logins \cup {session[s].name}
          /\ session' = [session EXCEPT ![s].at = "login", ![s].added = TRUE]
  /\ UNCHANGED <<accounts, nextId, rest, lock, overtaken>>

\* Linked to a user that was removed meanwhile, the login is nobody's.
LinkLogin(s) ==
  /\ session[s].at = "login"
  /\ accounts' = IF Exists(session[s].target)
                 THEN [accounts EXCEPT ![session[s].target].username = session[s].name]
                 ELSE accounts
  /\ Moves(s, "changed")
  /\ UNCHANGED <<logins, nextId, rest, lock, overtaken>>

\* Either step after the user was made may fail.
CreateFails(s) ==
  /\ session[s].at \in {"made", "login"}
  /\ Moves(s, "undo")
  /\ UNCHANGED <<undisturbed, lock, overtaken>>

\* Mutant of UndoLogin: the login goes, whoever made it.
UndoLoginAnyway(s) ==
  /\ session[s].at = "undo"
  /\ logins' = logins \ {session[s].name}
  /\ Moves(s, "undoUser")
  /\ UNCHANGED <<accounts, nextId, rest, lock, overtaken>>

\* The login is taken back only if this creation made it; a failure of that is
\* passed over,
UndoLogin(s) ==
  /\ session[s].at = "undo"
  /\ logins' \in {logins} \cup (IF session[s].added THEN {logins \ {session[s].name}} ELSE {})
  /\ Moves(s, "undoUser")
  /\ UNCHANGED <<accounts, nextId, rest, lock, overtaken>>

\* then the user, and the creation is refused.
UndoUser(s) ==
  /\ session[s].at = "undoUser"
  /\ accounts' = [accounts EXCEPT ![session[s].target] = NoAccount]
  /\ session' = [session EXCEPT ![s] = Idle]
  /\ lock' = 0
  /\ UNCHANGED <<logins, nextId, rest, overtaken>>

\* That may raise, which leaves the user, and the `async with`.
UndoUserFails(s) ==
  /\ session[s].at = "undoUser"
  /\ disturbed' = disturbed \cup {session[s].target}
  /\ session' = [session EXCEPT ![s] = Idle]
  /\ lock' = 0
  /\ UNCHANGED <<accounts, logins, nextId, guests, stored, manager, counts, overtaken>>

\* Who is a guest, after the account has changed.
NotedGuests(c) ==
  IF c.kind = "remove" THEN guests \ {c.target}
  ELSE IF c.kind = "update" /\ "role" \notin c.fields THEN guests
  ELSE IF c.role = "guest" THEN guests \cup {c.target} ELSE guests \ {c.target}

NoteGuest(s) ==
  /\ session[s].at = "changed"
  /\ guests' = NotedGuests(session[s])
  /\ Moves(s, "noted")
  /\ UNCHANGED <<accounts, logins, nextId, stored, manager, counts, disturbed, lock, overtaken>>

\* _record writes the file; _answer forgets those who have gone. Who was
\* disturbed is put right, unless overtaken or still without a login.
Save == stored' = guests /\ guests' = guests \cap Existing

Answer(s) ==
  /\ session[s].at = "noted"
  /\ Save
  /\ session' = [session EXCEPT ![s] = Idle]
  /\ lock' = 0
  /\ disturbed' = disturbed \
       {i \in {session[s].target} \cap Existing : ~overtaken /\ accounts[i].username # "none"}
  /\ UNCHANGED <<accounts, logins, nextId, manager, counts, overtaken>>

\* A password, a first dashboard or a language: no lock is taken, and the
\* same file is written. (A file that would not change is left out.)
OtherChange(s) ==
  /\ session[s].at = "idle" /\ counts.changes < MaxChanges /\ Room /\ stored # guests
  /\ MayManage(s) /\ accounts[s].active
  /\ Save
  /\ counts' = [counts EXCEPT !.changes = @ + 1]
  /\ UNCHANGED <<accounts, logins, nextId, session, manager, disturbed, lock, overtaken>>

\* ws_list: showing the household forgets those who have gone, too.
Look ==
  /\ ~(guests \subseteq Existing)
  /\ guests' = guests \cap Existing
  /\ UNCHANGED <<accounts, logins, nextId, stored, session, manager, counts, disturbed,
                 lock, overtaken>>

-----------------------------------------------------------------------------
(* The manager's account commands. Each is a call to Home Assistant's own  *)
(* API (ws_bridge.py), which needs an administrator to act as.             *)

NoCommand == [at |-> "idle", target |-> 0, name |-> "none"]
Bridged == \E i \in Existing : accounts[i].active /\ IsAdmin(accounts[i])
Commanded == /\ manager.at = "idle" /\ counts.commands < MaxCommands /\ Room /\ Bridged
             /\ counts' = [counts EXCEPT !.commands = @ + 1]

\* A change of accounts while My Home is between its check and its change.
Overtakes == overtaken' = (overtaken \/ lock # 0)

\* user_create, and panel_setup for a username nobody has: first the user. (The
\* first asks no rule of the username, so it makes whatever the second does.)
CommandMakes(name, group, local) ==
  /\ Commanded
  /\ accounts' = [accounts EXCEPT ![nextId] =
       [username |-> "none", group |-> group, owner |-> FALSE, active |-> TRUE, local |-> local]]
  /\ manager' = [at |-> "made", target |-> nextId, name |-> name]
  /\ nextId' = nextId + 1
  /\ UNCHANGED <<logins, guests, stored, lock, session, disturbed, overtaken>>

\* Then its login, in one call. A user that was removed meanwhile has none.
CommandAddsLogin ==
  /\ manager.at = "made"
  /\ IF manager.name \in logins \/ ~Exists(manager.target)
     THEN manager' = [manager EXCEPT !.at = "undo"] /\ UNCHANGED <<accounts, logins>>
     ELSE /\ logins' = logins \cup {manager.name}
          /\ accounts' = [accounts EXCEPT ![manager.target].username = manager.name]
          /\ manager' = NoCommand
  /\ UNCHANGED <<guests, stored, lock, session, nextId, counts, disturbed, overtaken>>

CommandLoginFails ==
  /\ manager.at = "made"
  /\ manager' = [manager EXCEPT !.at = "undo"]
  /\ UNCHANGED <<accounts, logins, guests, stored, lock, session, nextId, counts,
                 disturbed, overtaken>>

\* Mutant of CommandUndoes: the user without a login stays.
CommandUndoesNothing ==
  /\ manager.at = "undo"
  /\ manager' = NoCommand
  /\ UNCHANGED <<accounts, logins, guests, stored, lock, session, nextId, counts,
                 disturbed, overtaken>>

\* A user left without a login is taken back out.
CommandUndoes ==
  /\ manager.at = "undo"
  /\ accounts' = [accounts EXCEPT ![manager.target] = NoAccount]
  /\ manager' = NoCommand
  /\ Overtakes
  /\ UNCHANGED <<logins, guests, stored, lock, session, nextId, counts, disturbed>>

\* Its login raises, which skips what would take the user back out; or that fails,
\* which nobody looks at.
CommandLeaves ==
  /\ manager.at \in {"made", "undo"}
  /\ disturbed' = disturbed \cup {manager.target}
  /\ manager' = NoCommand
  /\ UNCHANGED <<accounts, logins, guests, stored, lock, session, nextId, counts, overtaken>>

\* user_update: the owner is neither demoted nor paused.
CommandUpdates(i, account) ==
  /\ Commanded /\ Exists(i) /\ account # accounts[i]
  /\ account.username = accounts[i].username /\ account.owner = accounts[i].owner
  /\ accounts[i].owner => account.group = accounts[i].group /\ account.active
  /\ accounts' = [accounts EXCEPT ![i] = account]
  /\ disturbed' = disturbed \cup {i}
  /\ Overtakes
  /\ UNCHANGED <<logins, guests, stored, lock, session, manager, nextId>>

\* user_delete, and panel_remove for a panel: never the owner.
CommandDeletes(i) ==
  /\ Commanded /\ Exists(i) /\ ~accounts[i].owner
  /\ accounts' = [accounts EXCEPT ![i] = NoAccount]
  /\ logins' = logins \ {accounts[i].username}
  /\ Overtakes
  /\ UNCHANGED <<guests, stored, lock, session, manager, nextId, disturbed>>

\* panel_setup for a panel there is: it is put back into its shape.
CommandRefreshes(i) ==
  /\ Commanded /\ Exists(i) /\ IsPanel(accounts[i])
  /\ accounts' = [accounts EXCEPT ![i].group = "users", ![i].active = TRUE, ![i].local = TRUE]
  /\ UNCHANGED <<logins, guests, stored, lock, session, manager, nextId, disturbed, overtaken>>

-----------------------------------------------------------------------------
Cut == {session[s].target : s \in {k \in Sessions : session[k].at # "idle"}}

\* The entry is reloaded: the command at hand is cancelled (cloud_link.stop),
\* My Home's are not.
Reload ==
  /\ manager.at # "idle" /\ counts.stops < MaxStops /\ Room
  /\ disturbed' = disturbed \cup {manager.target}
  /\ manager' = NoCommand
  /\ counts' = [counts EXCEPT !.stops = @ + 1]
  /\ UNCHANGED <<accounts, logins, guests, stored, lock, session, nextId, overtaken>>

\* Home Assistant stops: its users are kept, and guests are read from the file.
Restart ==
  /\ counts.stops < MaxStops /\ Room
  /\ guests' = stored /\ lock' = 0 /\ overtaken' = FALSE
  /\ session' = [s \in Sessions |-> Idle] /\ manager' = NoCommand
  /\ disturbed' = (disturbed \cup Cut \cup {manager.target}) \ {0}
  /\ counts' = [counts EXCEPT !.stops = @ + 1]
  /\ UNCHANGED <<accounts, logins, stored, nextId>>

\* Two administrators, one of whom may be the owner; the installer's support
\* account; a guest; and a room panel.
Account(username, group, owner, local) ==
  [username |-> username, group |-> group, owner |-> owner, active |-> TRUE, local |-> local]

Init ==
  /\ guests = {4}
  /\ \E owner \in BOOLEAN :
       accounts = [i \in Ids |->
         IF i = 1 THEN Account("mum", "admin", owner, FALSE)
         ELSE IF i = 2 THEN Account("dad", "admin", FALSE, FALSE)
         ELSE IF i = 3 THEN Account("dartec", "admin", FALSE, FALSE)
         ELSE IF i = 4 THEN Account("aunt", "users", FALSE, TRUE)
         ELSE IF i = 5 THEN Account("panel-hall", "users", FALSE, TRUE)
         ELSE NoAccount]
  /\ logins = {"mum", "dad", "dartec", "aunt", "panel-hall"}
  /\ stored = guests
  /\ lock = 0 /\ session = [s \in Sessions |-> Idle] /\ manager = NoCommand
  /\ nextId = 6
  /\ counts = [changes |-> 0, commands |-> 0, stops |-> 0]
  /\ disturbed = {} /\ overtaken = FALSE

Change(s) == ApplyUpdate(s) \/ ApplyRemove(s)

Work(s) ==
  \/ Change(s) \/ Vanished(s) \/ MakeUser(s) \/ AddLogin(s) \/ LinkLogin(s) \/ CreateFails(s)
  \/ UndoLogin(s) \/ UndoUser(s) \/ UndoUserFails(s)
  \/ NoteGuest(s) \/ Answer(s)

Manage ==
  \/ \E name \in CommandNames, group \in {"users", "admin"}, local \in BOOLEAN :
       CommandMakes(name, group, local)
  \/ CommandAddsLogin \/ CommandLoginFails \/ CommandUndoes \/ CommandLeaves
  \/ \E i \in Ids :
       \/ \E group \in {"users", "admin"} :
            CommandUpdates(i, [accounts[i] EXCEPT !.group = group])
       \/ CommandUpdates(i, [accounts[i] EXCEPT !.active = ~@])
       \/ CommandUpdates(i, [accounts[i] EXCEPT !.local = ~@])
  \/ \E i \in Ids : CommandDeletes(i) \/ CommandRefreshes(i)

Next ==
  \/ \E s \in Sessions : Ask(s) \/ Check(s) \/ Refuse(s) \/ Work(s) \/ OtherChange(s)
  \/ Look \/ Manage \/ Reload \/ Restart

Spec == Init /\ [][Next]_vars

-----------------------------------------------------------------------------
\* My Home never takes from a home the last person who can manage it, however
\* two administrators demote, pause and remove each other at once. (The
\* manager's commands take no lock: a change one of them overtook is left out.)
LastAdminKept ==
  [][(\E s \in Sessions : Change(s)) /\ ActiveAdmins # {}
       => ActiveAdmins' # {} \/ overtaken]_vars

\* "someone removed a moment ago manages nothing": a change that passed the
\* rules is made in the name of somebody who still is an administrator.
ActorStillManages ==
  \A s \in Sessions : session[s].at = "checked" =>
    overtaken \/ (Exists(s) /\ IsAdmin(accounts[s]))

\* Everyone can sign in: no account loses its login to a creation by another
\* that failed, and no two share one.
LoginsKept ==
  \A i \in Existing : accounts[i].username # "none" =>
    /\ accounts[i].username \in logins
    /\ \A k \in Existing \ {i} : accounts[k].username # accounts[i].username

\* "a person who happens to be called `panel-something` must never read as one":
\* nobody whom My Home shows as a person becomes a panel, which the manager may
\* change and remove without consent.
PeopleAreNoPanels ==
  [][\A i \in Existing : accounts[i].username # "none" /\ Kind(accounts[i]) = "person"
       => Kind(accounts'[i]) # "panel"]_vars

InChange(i) == \E s \in Sessions : session[s].at # "idle" /\ session[s].target = i

\* Who is labelled a guest can sign in at home only, in memory and after a
\* restart, until the manager or a stop in the middle interferes; and the
\* next change of that person in My Home puts it right.
GuestsAtHome ==
  \A i \in Existing :
    (Role(i) = "guest" /\ ~InChange(i) /\ i \notin disturbed) => accounts[i].local

\* user_cmds.py:93-94, household_ws.py:460-461: no account sits in the household's
\* list without a login. One that has none is being made; or its making was cut
\* short by a stop, or by a failure of what should have taken it back out (which is
\* the only thing that leaves one while nothing stops). And the lock is held by
\* whoever is at a change and by nobody else, also after one that failed half way,
\* which would shut everybody out of My Home.
NoneHalfMade ==
  /\ \A i \in Existing :
       accounts[i].username = "none" => InChange(i) \/ manager.target = i \/ i \in disturbed
  /\ \A s \in Sessions : (session[s].at \notin {"idle", "waiting"}) = (lock = s)
=============================================================================
