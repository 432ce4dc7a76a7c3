--------------------------- MODULE Household_proofs ---------------------------
(***************************************************************************)
(* Proofs about Household: the lock of My Home has one holder, the home    *)
(* keeps an administrator and everybody a login, whoever was removed       *)
(* changes nothing, and who is called a guest signs in at home only.       *)
(***************************************************************************)
EXTENDS Household, TLAPS

Usernames == {"none", "mum", "dad", "dartec", "aunt"} \cup NewNames \cup PanelNames
Stages == {"idle", "waiting", "checked", "made", "login", "undo", "undoUser", "changed",
           "noted"}
Creating == {"made", "login", "undo", "undoUser"}

AccountType == [username : Usernames, group : {"users", "admin"}, owner : BOOLEAN,
                active : BOOLEAN, local : BOOLEAN]
SessionType == [at : Stages, kind : {"none", "update", "remove", "create"},
                target : 0..MaxId, fields : SUBSET {"name", "role", "active", "local"},
                role : Roles, active : BOOLEAN, local : BOOLEAN, name : Usernames,
                added : BOOLEAN]

-----------------------------------------------------------------------------
(***************************************************************************)
(* The parts of the invariant.                                             *)
(***************************************************************************)
Types ==
  /\ accounts \in [Ids -> AccountType \cup {NoAccount}]
  /\ session \in [Sessions -> SessionType]
  /\ manager \in [at : {"idle", "made", "undo"}, target : 0..MaxId, name : Usernames]
  /\ guests \subseteq Ids /\ stored \subseteq Ids
  /\ lock \in Sessions \cup {0}
  /\ nextId \in 6..MaxId + 1
  /\ counts \in [changes : 0..MaxChanges, commands : 0..MaxCommands, stops : Nat]
  /\ overtaken \in BOOLEAN

\* A command of My Home that may yet make an account.
May(c) == IF c.at \in {"waiting", "checked"} THEN 1 ELSE 0

\* Every account was given an id of its own, and there are ids for those to come.
IdsFit ==
  /\ nextId + May(session[1]) + May(session[2]) <= 6 + counts.changes + counts.commands
  /\ \A i \in Ids : i >= nextId => accounts[i] = NoAccount
  /\ \A i \in guests \cup stored : i < nextId
  /\ \A s \in Sessions : session[s].target < nextId
  /\ manager.target < nextId

\* What a command at each stage has in hand.
Fits(c) ==
  /\ c.at \in {"idle", "waiting"} => c.kind = "none" /\ c.target = 0
  /\ c.at \in {"checked", "changed", "noted"} => c.kind # "none"
  /\ c.at \in Creating => c.kind = "create"
  /\ c.kind = "create" => c.name \in NewNames
  /\ c.at \in {"checked", "made"} => ~c.added
  /\ c.at = "checked" /\ c.kind = "create" => c.target = 0
  /\ c.at \notin {"idle", "waiting"} /\ ~(c.at = "checked" /\ c.kind = "create")
       => c.target \in Ids

StagesFit ==
  /\ \A s \in Sessions : Fits(session[s])
  /\ manager.at # "idle" => manager.target \in Ids
  /\ manager.at = "made" => manager.name \in NewNames \cup PanelNames

\* The lock is held by whoever is past its check.
OneHolder == \A s \in Sessions : (session[s].at \notin {"idle", "waiting"}) = (lock = s)

TypeInv == Types /\ IdsFit /\ StagesFit /\ OneHolder

\* An account without a login: its creation is under way, or was cut short.
\* (InChange is not enough: an update of such an account in My Home may end.)
Excused(i) ==
  \/ \E s \in Sessions : session[s].at \in Creating /\ session[s].target = i
  \/ manager.at # "idle" /\ manager.target = i
  \/ i \in disturbed

\* The login a creation has made is its own until it is linked or taken back.
Holding(c) == c.at = "login" \/ (c.at = "undo" /\ c.added)
LoginHeld(s) ==
  Holding(session[s]) => /\ session[s].name \in logins
                         /\ \A k \in Existing : accounts[k].username # session[s].name

NamesInv ==
  /\ \A i \in Existing : accounts[i].username = "none" => Excused(i)
  /\ LoginsKept
  /\ \A s \in Sessions : LoginHeld(s)
  /\ \A s \in Sessions : session[s].at \in Creating /\ manager.at # "idle"
                           => session[s].target # manager.target
  /\ manager.at = "made" /\ manager.target \in Existing
       => accounts[manager.target].username = "none"

\* After the change in hand its account would still be an active administrator.
Stays(c) ==
  /\ c.kind = "update"
  /\ IF "active" \in c.fields THEN c.active ELSE accounts[c.target].active
  /\ IF "role" \in c.fields THEN c.role = "admin" ELSE IsAdmin(accounts[c.target])
  /\ accounts[c.target].username # "dartec"

\* What _keep_an_admin found still holds, unless the manager overtook it.
RuleHolds(s) ==
  LET c == session[s] IN
  c.at = "checked" /\ c.kind \in {"update", "remove"} /\ c.target \in Existing /\ ~overtaken
    => (ActiveAdmins # {} => Stays(c) \/ ActiveAdmins \ {c.target} # {})

AdminInv == ActorStillManages /\ \A s \in Sessions : RuleHolds(s)

\* The manager may have changed this account under the change in hand.
Altered(i) == overtaken /\ i \in disturbed

\* Nobody called a guest in X, and left alone, signs in from elsewhere.
Settled(X) ==
  \A i \in Existing : i \in X /\ ~IsAdmin(accounts[i]) /\ ~InChange(i) /\ i \notin disturbed
                        => accounts[i].local

\* What a change in hand will make of its account and of the guests.
WillSettle(s) ==
  LET c == session[s]  i == c.target IN
  /\ c.kind \in {"update", "create"} /\ c.role = "guest" => c.local
  /\ c.kind = "remove" /\ c.at \in {"changed", "noted"} => i \notin Existing
  /\ i \in Existing /\ ~Altered(i) =>
       /\ c.at = "checked" /\ c.kind = "update" =>
            /\ c.local /\ "local" \notin c.fields => accounts[i].local
            /\ "role" \notin c.fields => Role(i) = c.role
       /\ c.at \in {"made", "login", "changed"} /\ c.role = "guest" => accounts[i].local
       /\ c.at = "changed" /\ c.kind = "update" /\ "role" \notin c.fields => Role(i) = c.role
       /\ c.at = "noted" /\ i \in guests /\ ~IsAdmin(accounts[i]) => accounts[i].local

GuestInv == Settled(guests) /\ Settled(stored) /\ \A s \in Sessions : WillSettle(s)

-----------------------------------------------------------------------------
(***************************************************************************)
(* Types, ids and the lock.                                                *)
(***************************************************************************)
LEMMA Constants ==
  /\ MaxId \in Nat /\ MaxChanges \in Nat /\ MaxCommands \in Nat
  /\ MaxId >= 5 + MaxChanges + MaxCommands
  /\ Idle \in SessionType /\ Fits(Idle) /\ Idle.at = "idle" /\ Idle.target = 0
  /\ NoCommand \in [at : {"idle", "made", "undo"}, target : 0..MaxId, name : Usernames]
<1>1. MaxId \in Nat /\ 0 \in 0..MaxId
  BY BoundsAssumption
<1>2. "none" \in Usernames
  BY DEF Usernames
<1>3. Idle \in SessionType
  BY <1>1, <1>2 DEF Idle, SessionType, Stages, Roles
<1>4. Fits(Idle) /\ Idle.at = "idle" /\ Idle.target = 0
  BY DEF Idle, Fits, Creating
<1>5. NoCommand \in [at : {"idle", "made", "undo"}, target : 0..MaxId, name : Usernames]
  BY <1>1, <1>2 DEF NoCommand
<1> QED BY <1>1, <1>3, <1>4, <1>5, BoundsAssumption

\* A session's command goes on: it alone changes, and the lock as its stage says.
LEMMA SessionTypes ==
  ASSUME TypeInv, NEW s \in Sessions, NEW c \in SessionType,
         session' = [session EXCEPT ![s] = c], Fits(c), c.target < nextId',
         lock' = IF c.at \in {"idle", "waiting"} THEN IF lock = s THEN 0 ELSE lock ELSE s,
         c.at \notin {"idle", "waiting"} => lock \in {s, 0},
         counts' \in [changes : 0..MaxChanges, commands : 0..MaxCommands, stops : Nat],
         counts'.commands = counts.commands, nextId' \in {nextId, nextId + 1},
         nextId' + May(c) + counts.changes <= nextId + May(session[s]) + counts'.changes,
         accounts' \in [Ids -> AccountType \cup {NoAccount}],
         \A i \in Ids : i >= nextId' => accounts'[i] = NoAccount,
         guests' \subseteq Ids, stored' \subseteq Ids,
         \A i \in guests' \cup stored' : i < nextId',
         manager' = manager, overtaken' \in BOOLEAN
  PROVE  TypeInv'
<1>1. /\ session' \in [Sessions -> SessionType] /\ session'[s] = c
      /\ \A k \in Sessions \ {s} : session'[k] = session[k]
  BY DEF TypeInv, Types
<1>2. May(c) \in {0, 1} /\ May(session[1]) \in {0, 1} /\ May(session[2]) \in {0, 1}
  BY DEF May
<1>3. nextId' + May(session'[1]) + May(session'[2]) <= 6 + counts'.changes + counts'.commands
  BY <1>1, <1>2 DEF TypeInv, Types, IdsFit, Sessions
<1>4. nextId' \in 6..MaxId + 1
  BY <1>1, <1>2, <1>3, Constants DEF TypeInv, Types, May
<1>5. Types'
  BY <1>1, <1>4 DEF TypeInv, Types, Sessions
<1>6. IdsFit'
  BY <1>1, <1>3 DEF TypeInv, Types, IdsFit, SessionType
<1>7. StagesFit'
  BY <1>1 DEF TypeInv, StagesFit
<1>8. OneHolder'
  BY <1>1 DEF TypeInv, Types, OneHolder, Sessions
<1> QED BY <1>5, <1>6, <1>7, <1>8 DEF TypeInv

\* A command goes on to its next stage with all it has in hand.
LEMMA MovedTo ==
  ASSUME TypeInv, NEW s \in Sessions, NEW stage \in Stages, Moves(s, stage)
  PROVE  \E c \in SessionType :
           /\ session' = [session EXCEPT ![s] = c]
           /\ c.at = stage /\ c.kind = session[s].kind /\ c.target = session[s].target
           /\ c.fields = session[s].fields /\ c.role = session[s].role
           /\ c.active = session[s].active /\ c.local = session[s].local
           /\ c.name = session[s].name /\ c.added = session[s].added
<1> DEFINE c == [session[s] EXCEPT !.at = stage]
<1>1. session[s] \in SessionType /\ session \in [Sessions -> SessionType]
  BY DEF TypeInv, Types
<1>2. c \in SessionType
  BY <1>1 DEF SessionType
<1>3. /\ c.at = stage /\ c.kind = session[s].kind /\ c.target = session[s].target
      /\ c.fields = session[s].fields /\ c.role = session[s].role
      /\ c.active = session[s].active /\ c.local = session[s].local
      /\ c.name = session[s].name /\ c.added = session[s].added
  BY <1>1 DEF SessionType
<1>4. session' = [session EXCEPT ![s] = c]
  BY <1>1 DEF Moves
<1> HIDE DEF c
<1> QED BY <1>2, <1>3, <1>4

\* A command moves on between the stages that hold the lock, and at most
\* accounts with an id and the guests among them change.
LEMMA MovesTypes ==
  ASSUME TypeInv, NEW s \in Sessions, NEW stage \in Stages, Moves(s, stage),
         session[s].at \notin {"idle", "waiting"}, stage \notin {"idle", "waiting", "checked"},
         stage \in Creating => session[s].kind = "create",
         session[s].at = "checked" => session[s].kind # "create", stage # "made",
         accounts' \in [Ids -> AccountType \cup {NoAccount}],
         \A i \in Ids : i >= nextId => accounts'[i] = NoAccount,
         guests' \subseteq guests \cup {session[s].target},
         UNCHANGED <<stored, lock, manager, counts, nextId, overtaken>>
  PROVE  TypeInv'
<1>1. PICK c \in SessionType :
         /\ session' = [session EXCEPT ![s] = c]
         /\ c.at = stage /\ c.kind = session[s].kind /\ c.target = session[s].target
         /\ c.name = session[s].name
  BY MovedTo
<1>a. Fits(session[s]) /\ session[s].target < nextId /\ session[s].at \in Stages
  BY DEF TypeInv, Types, SessionType, StagesFit, IdsFit
<1>b. lock = s
  BY DEF TypeInv, OneHolder
<1>2. session[s].target \in Ids /\ session[s].kind # "none"
  BY <1>a DEF Fits, Stages, Creating
<1>3. Fits(c) /\ May(c) = 0 /\ May(session[s]) \in {0, 1}
  BY <1>1, <1>2, <1>a DEF Fits, May
<1>4. guests' \subseteq Ids /\ \A i \in guests' \cup stored' : i < nextId
  BY <1>2, <1>a DEF TypeInv, Types, IdsFit
<1>5. /\ nextId' + May(c) + counts.changes <= nextId + May(session[s]) + counts'.changes
      /\ counts' \in [changes : 0..MaxChanges, commands : 0..MaxCommands, stops : Nat]
  BY <1>3 DEF TypeInv, Types
<1> QED BY <1>1, <1>a, <1>b, <1>3, <1>4, <1>5, SessionTypes DEF TypeInv, Types

\* A command of My Home is over.
LEMMA EndTypes ==
  ASSUME TypeInv, NEW s \in Sessions, session' = [session EXCEPT ![s] = Idle],
         lock' = IF lock = s THEN 0 ELSE lock,
         accounts' \in [Ids -> AccountType \cup {NoAccount}],
         \A i \in Ids : i >= nextId => accounts'[i] = NoAccount,
         guests' \subseteq guests, stored' \in {stored, guests},
         UNCHANGED <<manager, counts, nextId, overtaken>>
  PROVE  TypeInv'
<1>1. May(Idle) = 0 /\ May(session[s]) \in {0, 1} /\ 0 < nextId
  BY DEF May, Idle, TypeInv, Types
<1>2. nextId' + May(Idle) + counts.changes <= nextId + May(session[s]) + counts'.changes
  BY <1>1 DEF TypeInv, Types
<1>3. guests' \subseteq Ids /\ stored' \subseteq Ids
      /\ \A i \in guests' \cup stored' : i < nextId'
  BY DEF TypeInv, Types, IdsFit
<1> QED BY <1>1, <1>2, <1>3, Constants, SessionTypes DEF TypeInv, Types

\* What an update leaves of its account.
LEMMA UpdatedAccount ==
  ASSUME TypeInv, NEW s \in Sessions, ApplyUpdate(s)
  PROVE  LET c == session[s]  i == c.target  a == accounts[i]  b == accounts'[i] IN
         /\ i \in Ids /\ a \in AccountType /\ b \in AccountType
         /\ accounts' \in [Ids -> AccountType \cup {NoAccount}]
         /\ \A k \in Ids : k # i => accounts'[k] = accounts[k]
         /\ b.group = IF "role" \in c.fields THEN RoleGroup[c.role] ELSE a.group
         /\ b.active = IF "active" \in c.fields THEN c.active ELSE a.active
         /\ b.local = IF "local" \in c.fields THEN c.local ELSE a.local
         /\ b.username = a.username /\ b.owner = a.owner
<1> DEFINE c == session[s]
           i == c.target
           a == accounts[i]
           group == IF "role" \in c.fields THEN RoleGroup[c.role] ELSE a.group
           active == IF "active" \in c.fields THEN c.active ELSE a.active
           local == IF "local" \in c.fields THEN c.local ELSE a.local
           b == [a EXCEPT !.group = group, !.active = active, !.local = local]
<1>1. c \in SessionType /\ accounts \in [Ids -> AccountType \cup {NoAccount}]
  BY DEF TypeInv, Types
<1>2. i \in Ids
  BY DEF ApplyUpdate, TypeInv, StagesFit, Fits
<1>3. a \in AccountType
  BY <1>1, <1>2 DEF ApplyUpdate, Exists
<1>4. accounts' = [accounts EXCEPT ![i] = b]
  BY <1>1, <1>2 DEF ApplyUpdate
<1>5. group \in {"users", "admin"} /\ active \in BOOLEAN /\ local \in BOOLEAN
  <2>1. c.role \in Roles /\ c.active \in BOOLEAN /\ c.local \in BOOLEAN
    BY <1>1 DEF SessionType
  <2>2. a.group \in {"users", "admin"} /\ a.active \in BOOLEAN /\ a.local \in BOOLEAN
    BY <1>3 DEF AccountType
  <2>3. RoleGroup[c.role] \in {"users", "admin"}
    BY <2>1 DEF RoleGroup
  <2> QED BY <2>1, <2>2, <2>3
<1> HIDE DEF group, active, local
<1>6. /\ b \in AccountType /\ b.group = group /\ b.active = active /\ b.local = local
      /\ b.username = a.username /\ b.owner = a.owner
  BY <1>3, <1>5 DEF AccountType
<1> HIDE DEF b
<1>7. accounts'[i] = b /\ \A k \in Ids : k # i => accounts'[k] = accounts[k]
  BY <1>1, <1>2, <1>4
<1>8. accounts' \in [Ids -> AccountType \cup {NoAccount}]
  BY <1>1, <1>4, <1>6
<1> QED BY <1>2, <1>3, <1>6, <1>7, <1>8 DEF group, active, local

LEMMA TypeWork ==
  ASSUME TypeInv, NEW s \in Sessions, Work(s)
  PROVE  TypeInv'
<1> USE DEF rest, undisturbed
<1>0. /\ session[s] \in SessionType /\ Fits(session[s]) /\ session \in [Sessions -> SessionType]
      /\ accounts \in [Ids -> AccountType \cup {NoAccount}]
      /\ \A i \in Ids : i >= nextId => accounts[i] = NoAccount
      /\ lock \in Sessions \cup {0} /\ nextId \in 6..MaxId + 1
  BY DEF TypeInv, Types, StagesFit, IdsFit
<1>1. CASE ApplyUpdate(s)
  <2>1. session[s].target \in Ids /\ session[s].target < nextId
        /\ accounts[session[s].target] \in AccountType
    BY <1>0, <1>1 DEF ApplyUpdate, Exists, Fits, TypeInv, IdsFit
  <2> DEFINE i == session[s].target
  <2>2. /\ accounts' \in [Ids -> AccountType \cup {NoAccount}]
        /\ \A k \in Ids \ {i} : accounts'[k] = accounts[k]
    BY <1>1, UpdatedAccount
  <2>3. i < nextId /\ nextId \in Nat
    BY <1>0, <2>1
  <2> HIDE DEF i
  <2>4. \A k \in Ids : k >= nextId => accounts'[k] = NoAccount
    BY <1>0, <2>2, <2>3 DEF Ids
  <2> QED BY <1>0, <1>1, <2>2, <2>4, MovesTypes DEF ApplyUpdate, Stages, Creating
<1>2. CASE ApplyRemove(s)
  <2>1. session[s].target \in Ids
    BY <1>0, <1>2 DEF ApplyRemove, Fits
  <2>2. accounts' \in [Ids -> AccountType \cup {NoAccount}]
        /\ \A i \in Ids : i >= nextId => accounts'[i] = NoAccount
    BY <1>0, <1>2, <2>1 DEF ApplyRemove
  <2> QED BY <1>0, <1>2, <2>2, MovesTypes DEF ApplyRemove, Stages, Creating
<1>3. CASE Vanished(s) \/ Answer(s)
  <2>1. lock = s
    BY <1>3 DEF Vanished, Answer, TypeInv, OneHolder
  <2> QED BY <1>0, <1>3, <2>1, EndTypes DEF Vanished, Answer, Save
<1>4. CASE MakeUser(s)
  <2> DEFINE c == [session[s] EXCEPT !.at = "made", !.target = nextId]
             new == [username |-> "none", group |-> RoleGroup[session[s].role],
                     owner |-> FALSE, active |-> TRUE, local |-> session[s].local]
  <2>1. session' = [session EXCEPT ![s] = c]
    BY <1>0, <1>4 DEF MakeUser
  <2>2. lock = s /\ lock' = lock /\ nextId' = nextId + 1
        /\ session[s].at = "checked" /\ session[s].kind = "create"
        /\ UNCHANGED <<guests, stored, manager, counts, overtaken>>
        /\ accounts' = [accounts EXCEPT ![nextId] = new]
    BY <1>4 DEF MakeUser, TypeInv, OneHolder
  <2>3. nextId \in Ids
    <3>1. May(session[s]) = 1 /\ May(session[1]) \in {0, 1} /\ May(session[2]) \in {0, 1}
      BY <2>2 DEF May
    <3>2. counts.changes <= MaxChanges /\ counts.commands <= MaxCommands
          /\ counts.changes \in Nat /\ counts.commands \in Nat
      BY Constants DEF TypeInv, Types
    <3>3. nextId + May(session[1]) + May(session[2]) <= 6 + counts.changes + counts.commands
      BY DEF TypeInv, IdsFit
    <3> QED BY <1>0, <3>1, <3>2, <3>3, Constants DEF Sessions, Ids
  <2>a. nextId \in 0..MaxId /\ "made" \in Stages
    BY <2>3, Constants DEF Ids, Stages
  <2>4. c \in SessionType /\ c.at = "made" /\ c.kind = "create" /\ c.target = nextId
        /\ c.name = session[s].name /\ c.added = session[s].added
    BY <1>0, <2>2, <2>a DEF SessionType
  <2>5. new \in AccountType
    BY <1>0 DEF AccountType, SessionType, RoleGroup, Roles, Usernames
  <2> HIDE DEF c, new
  <2>6. Fits(c) /\ May(c) = 0 /\ May(session[s]) = 1
    BY <1>0, <2>2, <2>3, <2>4 DEF Fits, May, Creating
  <2>7. accounts' \in [Ids -> AccountType \cup {NoAccount}]
        /\ \A i \in Ids : i >= nextId' => accounts'[i] = NoAccount
    BY <1>0, <2>2, <2>3, <2>5
  <2>8. nextId' + May(c) + counts.changes <= nextId + May(session[s]) + counts'.changes
        /\ counts' \in [changes : 0..MaxChanges, commands : 0..MaxCommands, stops : Nat]
        /\ counts'.commands = counts.commands /\ c.target < nextId'
    BY <1>0, <2>2, <2>4, <2>6 DEF TypeInv, Types
  <2>9. \A i \in guests' \cup stored' : i < nextId'
    BY <1>0, <2>2 DEF TypeInv, Types, IdsFit, Ids
  <2> QED BY <2>1, <2>2, <2>4, <2>6, <2>7, <2>8, <2>9, SessionTypes DEF TypeInv, Types
<1>5. CASE AddLogin(s)
  <2>1. CASE session[s].name \in logins
    BY <1>0, <1>5, <2>1, MovesTypes DEF AddLogin, Stages, Creating, Fits
  <2>2. CASE session[s].name \notin logins
    <3> DEFINE c == [session[s] EXCEPT !.at = "login", !.added = TRUE]
    <3>1. session' = [session EXCEPT ![s] = c]
      BY <1>0, <1>5, <2>2 DEF AddLogin
    <3>2. session[s].at = "made" /\ lock = s
          /\ UNCHANGED <<accounts, nextId, guests, stored, manager, counts, lock, overtaken>>
      BY <1>5, <2>2 DEF AddLogin, TypeInv, OneHolder
    <3>3. c \in SessionType /\ c.at = "login" /\ c.kind = session[s].kind
          /\ c.target = session[s].target /\ c.name = session[s].name
      BY <1>0 DEF SessionType, Stages
    <3> HIDE DEF c
    <3>4. Fits(c) /\ May(c) = 0 /\ May(session[s]) = 0 /\ c.target < nextId
      BY <1>0, <3>2, <3>3 DEF Fits, May, Creating, TypeInv, IdsFit
    <3>5. nextId' + May(c) + counts.changes <= nextId + May(session[s]) + counts'.changes
      BY <1>0, <3>2, <3>4 DEF TypeInv, Types
    <3> QED BY <1>0, <3>1, <3>2, <3>3, <3>4, <3>5, SessionTypes DEF TypeInv, Types, IdsFit
  <2> QED BY <2>1, <2>2
<1>6. CASE LinkLogin(s)
  <2>1. session[s].target \in Ids /\ session[s].kind = "create" /\ session[s].name \in Usernames
        /\ session[s].target < nextId
    BY <1>0, <1>6 DEF LinkLogin, Fits, Creating, SessionType, TypeInv, IdsFit
  <2>2. accounts' \in [Ids -> AccountType \cup {NoAccount}]
        /\ \A i \in Ids : i >= nextId => accounts'[i] = NoAccount
    BY <1>0, <1>6, <2>1 DEF LinkLogin, Exists, AccountType
  <2> QED BY <1>0, <1>6, <2>1, <2>2, MovesTypes DEF LinkLogin, Stages, Creating
<1>7. CASE CreateFails(s) \/ UndoLogin(s)
  BY <1>0, <1>7, MovesTypes DEF CreateFails, UndoLogin, Stages, Creating, Fits
<1>8. CASE UndoUser(s)
  <2>1. lock = s
    BY <1>8 DEF UndoUser, TypeInv, OneHolder
  <2>2. accounts' \in [Ids -> AccountType \cup {NoAccount}]
        /\ \A i \in Ids : i >= nextId => accounts'[i] = NoAccount
    BY <1>0, <1>8 DEF UndoUser
  <2> QED BY <1>8, <2>1, <2>2, EndTypes DEF UndoUser
<1>a. CASE UndoUserFails(s)
  <2>1. lock = s
    BY <1>a DEF UndoUserFails, TypeInv, OneHolder
  <2> QED BY <1>0, <1>a, <2>1, EndTypes DEF UndoUserFails
<1>9. CASE NoteGuest(s)
  <2>1. guests' \subseteq guests \cup {session[s].target}
    BY <1>9 DEF NoteGuest, NotedGuests
  <2> QED BY <1>0, <1>9, <2>1, MovesTypes DEF NoteGuest, Stages, Creating
<1> QED BY <1>1, <1>2, <1>3, <1>4, <1>5, <1>6, <1>7, <1>8, <1>a, <1>9 DEF Work, Change


-----------------------------------------------------------------------------
\* What the rules let through, as the command keeps it in hand.
Prepared(s, c) ==
  /\ c.at = "checked" /\ ~c.added /\ MayManage(s)
  /\ c.kind \in {"update", "create"} /\ c.role = "guest" => c.local
  /\ \/ /\ c.kind = "update" /\ Changeable(c.target)
        /\ KeepsAnAdmin(c.target, c.active /\
             IF "role" \in c.fields THEN c.role = "admin" ELSE IsAdmin(accounts[c.target]))
        /\ "role" \notin c.fields => c.role = Role(c.target)
        /\ "active" \notin c.fields => c.active = accounts[c.target].active
        /\ "local" \notin c.fields => c.local = accounts[c.target].local
     \/ c.kind = "remove" /\ RemoveAllowed(s, c.target)
     \/ c.kind = "create" /\ c.name \in NewNames /\ CreateAllowed(s, c.name)
  /\ IF c.kind = "create" THEN c.target = 0 ELSE c.target \in Existing

LEMMA Checked ==
  ASSUME TypeInv, NEW s \in Sessions, Check(s)
  PROVE  /\ session[s].at = "waiting" /\ lock = 0 /\ lock' = s /\ overtaken' = FALSE
         /\ UNCHANGED undisturbed
         /\ \E c \in SessionType : session' = [session EXCEPT ![s] = c] /\ Prepared(s, c)
<1>1. /\ session[s].at = "waiting" /\ lock = 0 /\ lock' = s /\ overtaken' = FALSE
      /\ UNCHANGED undisturbed
  BY DEF Check, Begin
<1>2. Idle \in SessionType /\ Idle.at = "idle" /\ Idle.target = 0 /\ 0 \in 0..MaxId
      /\ Ids \subseteq 0..MaxId /\ "checked" \in Stages
  BY Constants DEF Ids, Stages
<1>3. ASSUME NEW i \in Existing, NEW role \in Roles, NEW named \in BOOLEAN,
             NEW active \in BOOLEAN, NEW local \in BOOLEAN,
             UpdateAllowed(s, i, Cleaned(i, named, role, active, local)),
             Begin(s, Cleaned(i, named, role, active, local))
      PROVE  \E c \in SessionType : session' = [session EXCEPT ![s] = c] /\ Prepared(s, c)
  <2> DEFINE change == Cleaned(i, named, role, active, local)
             fields == (IF named THEN {"name"} ELSE {})
                  \cup (IF role # Role(i) THEN {"role"} ELSE {})
                  \cup (IF active # accounts[i].active THEN {"active"} ELSE {})
                  \cup (IF LocalAfter(role, local) # accounts[i].local THEN {"local"} ELSE {})
             atHome == LocalAfter(role, local)
             c == [change EXCEPT !.at = "checked"]
  <2>1. i \in Ids /\ accounts[i] \in AccountType
    BY DEF Existing, Exists, TypeInv, Types
  <2>2. atHome \in BOOLEAN /\ (role = "guest" => atHome)
    BY DEF LocalAfter
  <2>3. change = [Idle EXCEPT !.kind = "update", !.target = i, !.role = role,
                    !.active = active, !.local = atHome, !.fields = fields]
    BY DEF Cleaned
  <2>4. fields \in SUBSET {"name", "role", "active", "local"}
    OBVIOUS
  <2>5. /\ "role" \notin fields => role = Role(i)
        /\ "active" \notin fields => active = accounts[i].active
        /\ "local" \notin fields => atHome = accounts[i].local
    OBVIOUS
  <2>6. "none" \in Usernames
    BY DEF Usernames
  <2> HIDE DEF fields, change, atHome
  <2>a. change = [at |-> "idle", kind |-> "update", target |-> i, fields |-> fields,
                  role |-> role, active |-> active, local |-> atHome,
                  name |-> "none", added |-> FALSE]
    BY <2>3 DEF Idle
  <2>b. change.fields = fields /\ change.active = active /\ change.role = role
    BY <2>a
  <2>c. /\ c.at = "checked" /\ c.kind = "update" /\ c.target = i /\ c.added = FALSE
        /\ c.fields = fields /\ c.active = active /\ c.role = role /\ c.local = atHome
    BY <2>a
  <2>7. c \in SessionType
    BY <1>2, <2>1, <2>2, <2>a, <2>4, <2>6 DEF SessionType
  <2>8. /\ MayManage(s) /\ Changeable(i)
        /\ KeepsAnAdmin(i, active /\ IF "role" \in fields THEN role = "admin"
                                     ELSE IsAdmin(accounts[i]))
    <3>1. UpdateAllowed(s, i, change)
      BY <1>3 DEF change
    <3> QED BY <2>b, <3>1 DEF UpdateAllowed
  <2>9. session' = [session EXCEPT ![s] = c]
    BY <1>3 DEF Begin, change
  <2> HIDE DEF c
  <2>10. Prepared(s, c)
    BY <2>2, <2>c, <2>5, <2>8 DEF Prepared
  <2> QED BY <2>7, <2>9, <2>10
<1>4. ASSUME NEW i \in Existing, RemoveAllowed(s, i),
             Begin(s, [Idle EXCEPT !.kind = "remove", !.target = i])
      PROVE  \E c \in SessionType : session' = [session EXCEPT ![s] = c] /\ Prepared(s, c)
  <2> DEFINE change == [Idle EXCEPT !.kind = "remove", !.target = i]
             c == [change EXCEPT !.at = "checked"]
  <2>1. c \in SessionType
    BY <1>2 DEF SessionType, Existing
  <2>2. c.at = "checked" /\ c.kind = "remove" /\ c.target = i /\ c.added = FALSE
    BY DEF Idle
  <2>3. session' = [session EXCEPT ![s] = c]
    BY <1>4 DEF Begin
  <2> HIDE DEF c
  <2>4. Prepared(s, c)
    BY <1>4, <2>2 DEF Prepared, RemoveAllowed
  <2> QED BY <2>1, <2>3, <2>4
<1>5. ASSUME NEW name \in NewNames, NEW role \in Roles, NEW local \in BOOLEAN,
             CreateAllowed(s, name),
             Begin(s, [Idle EXCEPT !.kind = "create", !.name = name, !.role = role,
                                   !.local = LocalAfter(role, local)])
      PROVE  \E c \in SessionType : session' = [session EXCEPT ![s] = c] /\ Prepared(s, c)
  <2> DEFINE change == [Idle EXCEPT !.kind = "create", !.name = name, !.role = role,
                                    !.local = LocalAfter(role, local)]
             c == [change EXCEPT !.at = "checked"]
  <2>1. LocalAfter(role, local) \in BOOLEAN /\ (role = "guest" => LocalAfter(role, local))
        /\ name \in Usernames
    BY DEF LocalAfter, Usernames
  <2>2. c \in SessionType
    BY <1>2, <2>1 DEF SessionType
  <2>3. c.at = "checked" /\ c.kind = "create" /\ c.target = 0 /\ c.added = FALSE
        /\ c.name = name /\ c.role = role /\ c.local = LocalAfter(role, local)
    BY DEF Idle
  <2>4. session' = [session EXCEPT ![s] = c]
    BY <1>5 DEF Begin
  <2> HIDE DEF c
  <2>5. Prepared(s, c)
    BY <1>5, <2>1, <2>3 DEF Prepared, CreateAllowed
  <2> QED BY <2>2, <2>4, <2>5
<1> QED BY <1>1, <1>3, <1>4, <1>5 DEF Check

\* The sessions and the lock are left alone.
LEMMA QuietTypes ==
  ASSUME TypeInv, UNCHANGED <<session, lock>>,
         accounts' \in [Ids -> AccountType \cup {NoAccount}],
         \A i \in Ids : i >= nextId' => accounts'[i] = NoAccount,
         guests' \subseteq guests, stored' \in {stored, guests},
         manager' \in [at : {"idle", "made", "undo"}, target : 0..MaxId, name : Usernames],
         manager'.target < nextId', manager'.at # "idle" => manager'.target \in Ids,
         manager'.at = "made" => manager'.name \in NewNames \cup PanelNames,
         counts' \in [changes : 0..MaxChanges, commands : 0..MaxCommands, stops : Nat],
         nextId' \in 6..MaxId + 1, nextId' >= nextId,
         nextId' + counts.changes + counts.commands
           <= nextId + counts'.changes + counts'.commands,
         overtaken' \in BOOLEAN
  PROVE  TypeInv'
<1>1. Types'
  BY DEF TypeInv, Types
<1>2. May(session[1]) \in {0, 1} /\ May(session[2]) \in {0, 1}
  BY DEF May
<1>3. nextId' + May(session'[1]) + May(session'[2]) <= 6 + counts'.changes + counts'.commands
  BY <1>2 DEF TypeInv, Types, IdsFit
<1>4. \A i \in guests' \cup stored' : i < nextId'
  <2>1. nextId \in Nat /\ nextId' \in Nat /\ nextId <= nextId'
    BY Constants DEF TypeInv, Types
  <2>a. guests \cup stored \subseteq Nat
    BY DEF TypeInv, Types, Ids
  <2>2. \A i \in guests \cup stored : i < nextId
    BY DEF TypeInv, IdsFit
  <2>3. guests' \cup stored' \subseteq guests \cup stored
    OBVIOUS
  <2> QED BY <2>1, <2>a, <2>2, <2>3
<1>5. \A s \in Sessions : session'[s].target < nextId'
  BY DEF TypeInv, Types, SessionType, IdsFit
<1>6. IdsFit'
  BY <1>3, <1>4, <1>5 DEF IdsFit
<1>7. StagesFit' /\ OneHolder'
  BY DEF TypeInv, StagesFit, OneHolder
<1> QED BY <1>1, <1>6, <1>7 DEF TypeInv

LEMMA TypeAsk ==
  ASSUME TypeInv, NEW s \in Sessions, Ask(s) \/ Check(s) \/ Refuse(s) \/ OtherChange(s)
  PROVE  TypeInv'
<1> USE DEF rest, undisturbed
<1>0. /\ session[s] \in SessionType /\ Fits(session[s]) /\ session \in [Sessions -> SessionType]
      /\ accounts \in [Ids -> AccountType \cup {NoAccount}]
      /\ \A i \in Ids : i >= nextId => accounts[i] = NoAccount
      /\ lock \in Sessions \cup {0} /\ nextId \in 6..MaxId + 1
      /\ counts \in [changes : 0..MaxChanges, commands : 0..MaxCommands, stops : Nat]
  BY DEF TypeInv, Types, StagesFit, IdsFit
<1>1. ASSUME counts.changes < MaxChanges, counts' = [counts EXCEPT !.changes = @ + 1]
      PROVE  /\ counts' \in [changes : 0..MaxChanges, commands : 0..MaxCommands, stops : Nat]
             /\ counts'.changes = counts.changes + 1 /\ counts'.commands = counts.commands
  BY <1>0, <1>1, Constants
<1>2. CASE Ask(s)
  <2>1. Moves(s, "waiting") /\ "waiting" \in Stages
    BY <1>2 DEF Ask, Moves, Stages
  <2>2. PICK c \in SessionType :
          /\ session' = [session EXCEPT ![s] = c]
          /\ c.at = "waiting" /\ c.kind = session[s].kind /\ c.target = session[s].target
    BY <2>1, MovedTo
  <2>3. Fits(c) /\ May(c) = 1 /\ May(session[s]) = 0 /\ c.target < nextId
    BY <1>0, <1>2, <2>2 DEF Ask, Fits, Creating, May
  <2>4. lock # s
    BY <1>2 DEF Ask, TypeInv, OneHolder
  <2>5. nextId' + May(c) + counts.changes <= nextId + May(session[s]) + counts'.changes
    BY <1>0, <1>1, <1>2, <2>3 DEF Ask
  <2> QED BY <1>0, <1>1, <1>2, <2>2, <2>3, <2>4, <2>5, SessionTypes DEF Ask, TypeInv, Types, IdsFit
<1>3. CASE Check(s)
  <2>1. /\ session[s].at = "waiting" /\ lock = 0 /\ lock' = s /\ overtaken' = FALSE
        /\ UNCHANGED undisturbed
    BY <1>3, Checked
  <2>2. PICK c \in SessionType : session' = [session EXCEPT ![s] = c] /\ Prepared(s, c)
    BY <1>3, Checked
  <2>3. c.at = "checked" /\ c.kind \in {"update", "remove", "create"} /\ ~c.added
        /\ (c.kind = "create" => c.name \in NewNames /\ c.target = 0)
        /\ (c.kind # "create" => c.target \in Existing)
    BY <2>2 DEF Prepared
  <2>4. Fits(c) /\ May(c) = 1 /\ May(session[s]) = 1
    BY <2>1, <2>3 DEF Fits, May, Existing, Creating
  <2>5. c.target < nextId
    BY <1>0, <2>3 DEF Existing, Exists, Ids
  <2>6. nextId' + May(c) + counts.changes <= nextId + May(session[s]) + counts'.changes
    BY <1>0, <2>1, <2>4
  <2> QED BY <1>0, <2>1, <2>2, <2>3, <2>4, <2>5, <2>6, SessionTypes DEF TypeInv, Types, IdsFit
<1>4. CASE Refuse(s)
  <2>1. lock' = IF lock = s THEN 0 ELSE lock
    BY <1>4 DEF Refuse, Sessions
  <2> QED BY <1>0, <1>4, <2>1, EndTypes DEF Refuse
<1>5. CASE OtherChange(s)
  BY <1>0, <1>1, <1>5, QuietTypes DEF OtherChange, Save, TypeInv, Types, IdsFit, StagesFit
<1> QED BY <1>2, <1>3, <1>4, <1>5


LEMMA TypeManage ==
  ASSUME TypeInv, Manage
  PROVE  TypeInv'
<1>0. /\ accounts \in [Ids -> AccountType \cup {NoAccount}]
      /\ \A i \in Ids : i >= nextId => accounts[i] = NoAccount
      /\ nextId \in 6..MaxId + 1 /\ overtaken \in BOOLEAN /\ lock \in Sessions \cup {0}
      /\ counts \in [changes : 0..MaxChanges, commands : 0..MaxCommands, stops : Nat]
      /\ manager \in [at : {"idle", "made", "undo"}, target : 0..MaxId, name : Usernames]
      /\ manager.target < nextId /\ (manager.at # "idle" => manager.target \in Ids)
      /\ manager.at = "made" => manager.name \in NewNames \cup PanelNames
  BY DEF TypeInv, Types, StagesFit, IdsFit
<1>1. ASSUME Commanded
      PROVE  /\ counts' \in [changes : 0..MaxChanges, commands : 0..MaxCommands, stops : Nat]
             /\ counts'.commands = counts.commands + 1 /\ counts'.changes = counts.changes
             /\ counts.commands < MaxCommands
  BY <1>0, <1>1, Constants DEF Commanded
<1>2. NoCommand \in [at : {"idle", "made", "undo"}, target : 0..MaxId, name : Usernames]
      /\ NoCommand.at = "idle" /\ NoCommand.target = 0 /\ 0 < nextId
  BY <1>0, Constants DEF NoCommand
<1>3. ASSUME Overtakes PROVE overtaken' \in BOOLEAN
  BY <1>3 DEF Overtakes
<1>4. ASSUME NEW name \in NewNames \cup PanelNames, NEW group \in {"users", "admin"},
             NEW local \in BOOLEAN, CommandMakes(name, group, local)
      PROVE  TypeInv'
  <2> DEFINE new == [username |-> "none", group |-> group, owner |-> FALSE, active |-> TRUE,
                     local |-> local]
             made == [at |-> "made", target |-> nextId, name |-> name]
  <2>1. Commanded
    BY <1>4 DEF CommandMakes
  <2>2. nextId \in Ids
    <3>1. May(session[1]) \in {0, 1} /\ May(session[2]) \in {0, 1}
      BY DEF May
    <3>2. nextId + May(session[1]) + May(session[2]) <= 6 + counts.changes + counts.commands
      BY DEF TypeInv, IdsFit
    <3> QED BY <1>0, <1>1, <2>1, <3>1, <3>2, Constants DEF Ids
  <2>3. new \in AccountType
    BY DEF AccountType, Usernames
  <2>4. nextId \in 0..MaxId /\ name \in Usernames
    BY <2>2, Constants DEF Ids, Usernames
  <2>5. /\ made \in [at : {"idle", "made", "undo"}, target : 0..MaxId, name : Usernames]
        /\ made.target = nextId /\ made.name = name
    BY <2>4
  <2> HIDE DEF new, made
  <2>6. accounts' = [accounts EXCEPT ![nextId] = new] /\ manager' = made
        /\ nextId' = nextId + 1
        /\ UNCHANGED <<logins, guests, stored, lock, session, disturbed, overtaken>>
    BY <1>4 DEF CommandMakes, new, made
  <2>7. accounts' \in [Ids -> AccountType \cup {NoAccount}]
        /\ \A i \in Ids : i >= nextId' => accounts'[i] = NoAccount
    BY <1>0, <2>2, <2>3, <2>6 DEF Ids
  <2>8. /\ nextId' \in 6..MaxId + 1 /\ nextId' >= nextId
        /\ nextId' + counts.changes + counts.commands
             <= nextId + counts'.changes + counts'.commands
    BY <1>0, <1>1, <2>1, <2>2, <2>6, Constants DEF Ids
  <2> QED BY <1>0, <1>1, <2>1, <2>2, <2>5, <2>6, <2>7, <2>8, QuietTypes
<1>5. CASE CommandAddsLogin \/ CommandLoginFails
  <2>1. manager.target \in Ids /\ manager.name \in Usernames /\ manager.at = "made"
    BY <1>0, <1>5 DEF CommandAddsLogin, CommandLoginFails
  <2>2. manager' = [manager EXCEPT !.at = "undo"] \/ manager' = NoCommand
    BY <1>5 DEF CommandAddsLogin, CommandLoginFails
  <2>3. /\ manager' \in [at : {"idle", "made", "undo"}, target : 0..MaxId, name : Usernames]
        /\ manager'.target < nextId /\ (manager'.at # "idle" => manager'.target \in Ids)
        /\ manager'.at # "made"
    BY <1>0, <1>2, <2>1, <2>2
  <2>4. \/ UNCHANGED accounts
        \/ /\ accounts' = [accounts EXCEPT ![manager.target].username = manager.name]
           /\ accounts[manager.target] # NoAccount
    BY <1>5 DEF CommandAddsLogin, CommandLoginFails, Exists
  <2>5. accounts' \in [Ids -> AccountType \cup {NoAccount}]
    BY <1>0, <2>1, <2>4 DEF AccountType
  <2>6. \A i \in Ids : i >= nextId => accounts'[i] = NoAccount
    BY <1>0, <2>1, <2>4 DEF Ids
  <2> QED BY <1>0, <1>5, <2>3, <2>5, <2>6, QuietTypes DEF CommandAddsLogin, CommandLoginFails
<1>6. CASE CommandUndoes
  <2>1. manager.target \in Ids /\ accounts' = [accounts EXCEPT ![manager.target] = NoAccount]
    BY <1>0, <1>6 DEF CommandUndoes
  <2>2. accounts' \in [Ids -> AccountType \cup {NoAccount}]
        /\ \A i \in Ids : i >= nextId => accounts'[i] = NoAccount
    BY <1>0, <2>1
  <2> QED BY <1>0, <1>2, <1>3, <1>6, <2>2, QuietTypes DEF CommandUndoes
<1>7. ASSUME NEW i \in Ids, NEW a \in AccountType, Exists(i), Commanded,
             accounts' = [accounts EXCEPT ![i] = a] \/ accounts' = [accounts EXCEPT ![i] = NoAccount],
             overtaken' \in BOOLEAN,
             UNCHANGED <<guests, stored, lock, session, manager, nextId>>
      PROVE  TypeInv'
  <2>1. accounts' \in [Ids -> AccountType \cup {NoAccount}]
    BY <1>0, <1>7
  <2>2. \A k \in Ids : k >= nextId => accounts'[k] = NoAccount
    BY <1>0, <1>7 DEF Exists
  <2>3. nextId + counts.changes + counts.commands <= nextId + counts'.changes + counts'.commands
    BY <1>0, <1>1, <1>7, Constants
  <2> QED BY <1>0, <1>1, <1>7, <2>1, <2>2, <2>3, QuietTypes
<1>8. ASSUME NEW i \in Ids,
             \/ \E group \in {"users", "admin"} :
                  CommandUpdates(i, [accounts[i] EXCEPT !.group = group])
             \/ CommandUpdates(i, [accounts[i] EXCEPT !.active = ~@])
             \/ CommandUpdates(i, [accounts[i] EXCEPT !.local = ~@])
      PROVE  TypeInv'
  <2>1. PICK a : /\ \/ \E group \in {"users", "admin"} : a = [accounts[i] EXCEPT !.group = group]
                    \/ a = [accounts[i] EXCEPT !.active = ~@]
                    \/ a = [accounts[i] EXCEPT !.local = ~@]
                 /\ CommandUpdates(i, a)
    BY <1>8
  <2>2. Exists(i) /\ Commanded /\ accounts' = [accounts EXCEPT ![i] = a] /\ Overtakes
        /\ UNCHANGED <<guests, stored, lock, session, manager, nextId>>
    BY <2>1 DEF CommandUpdates
  <2>3. accounts[i] \in AccountType
    BY <1>0, <2>2 DEF Exists
  <2>4. a \in AccountType
    BY <2>1, <2>3 DEF AccountType
  <2> QED BY <1>3, <1>7, <2>2, <2>4
<1>9. ASSUME NEW i \in Ids, CommandDeletes(i) \/ CommandRefreshes(i) PROVE TypeInv'
  <2> DEFINE a == [accounts[i] EXCEPT !.group = "users", !.active = TRUE, !.local = TRUE]
  <2>1. /\ Exists(i) /\ Commanded /\ overtaken' \in BOOLEAN
        /\ UNCHANGED <<guests, stored, lock, session, manager, nextId>>
    BY <1>0, <1>3, <1>9 DEF CommandDeletes, CommandRefreshes
  <2>2. accounts[i] \in AccountType
    BY <1>0, <2>1 DEF Exists
  <2>3. a \in AccountType
    BY <2>2 DEF AccountType
  <2>4. accounts' = [accounts EXCEPT ![i] = a] \/ accounts' = [accounts EXCEPT ![i] = NoAccount]
    BY <1>0, <1>9 DEF CommandDeletes, CommandRefreshes
  <2> QED BY <1>7, <2>1, <2>3, <2>4
<1>10. CASE CommandLeaves
  BY <1>0, <1>2, <1>10, QuietTypes DEF CommandLeaves
<1> QED BY NamesAssumption, <1>4, <1>5, <1>6, <1>8, <1>9, <1>10 DEF Manage

LEMMA TypeOthers ==
  ASSUME TypeInv, Look \/ Reload \/ Restart \/ UNCHANGED vars
  PROVE  TypeInv'
<1>0. /\ accounts \in [Ids -> AccountType \cup {NoAccount}]
      /\ \A i \in Ids : i >= nextId => accounts[i] = NoAccount
      /\ nextId \in 6..MaxId + 1 /\ overtaken \in BOOLEAN
      /\ counts \in [changes : 0..MaxChanges, commands : 0..MaxCommands, stops : Nat]
      /\ manager \in [at : {"idle", "made", "undo"}, target : 0..MaxId, name : Usernames]
      /\ manager.target < nextId /\ (manager.at # "idle" => manager.target \in Ids)
      /\ manager.at = "made" => manager.name \in NewNames \cup PanelNames
  BY DEF TypeInv, Types, StagesFit, IdsFit
<1>1. NoCommand \in [at : {"idle", "made", "undo"}, target : 0..MaxId, name : Usernames]
      /\ NoCommand.at = "idle" /\ NoCommand.target = 0 /\ 0 < nextId
  BY <1>0, Constants DEF NoCommand
<1>2. ASSUME counts' = [counts EXCEPT !.stops = @ + 1]
      PROVE  /\ counts' \in [changes : 0..MaxChanges, commands : 0..MaxCommands, stops : Nat]
             /\ counts'.commands = counts.commands /\ counts'.changes = counts.changes
  BY <1>0, <1>2
<1>3. nextId + counts.changes + counts.commands <= nextId + counts.changes + counts.commands
      /\ nextId <= nextId
  BY <1>0, Constants
<1>4. CASE Look
  BY <1>0, <1>3, <1>4, QuietTypes DEF Look
<1>5. CASE Reload
  BY <1>0, <1>1, <1>2, <1>3, <1>5, QuietTypes DEF Reload
<1>6. CASE Restart
  <2>1. /\ guests' = stored /\ lock' = 0 /\ overtaken' = FALSE /\ session' = [s \in Sessions |-> Idle]
        /\ manager' = NoCommand /\ UNCHANGED <<accounts, stored, nextId>>
        /\ counts' = [counts EXCEPT !.stops = @ + 1]
    BY <1>6 DEF Restart
  <2>2. /\ Idle \in SessionType /\ Fits(Idle) /\ Idle.at = "idle" /\ Idle.target = 0
        /\ \A s \in Sessions : session'[s] = Idle
    BY <2>1, Constants
  <2>3. Types'
    BY <1>1, <1>2, <2>1, <2>2 DEF TypeInv, Types
  <2>4. May(Idle) = 0 /\ May(session[1]) \in {0, 1} /\ May(session[2]) \in {0, 1}
    BY <2>2 DEF May
  <2>5. nextId' + May(session'[1]) + May(session'[2]) <= 6 + counts'.changes + counts'.commands
    BY <1>0, <1>2, <2>1, <2>2, <2>4 DEF TypeInv, IdsFit, Sessions
  <2>6. IdsFit'
    BY <1>1, <2>1, <2>2, <2>5 DEF TypeInv, IdsFit
  <2>7. StagesFit' /\ OneHolder'
    BY <1>1, <2>1, <2>2 DEF StagesFit, OneHolder, Sessions
  <2> QED BY <2>3, <2>6, <2>7 DEF TypeInv
<1>7. CASE UNCHANGED vars
  BY <1>0, <1>3, <1>7, QuietTypes DEF vars, TypeInv, Types
<1> QED BY <1>4, <1>5, <1>6, <1>7

LEMMA TypeInit ==
  ASSUME Init
  PROVE  TypeInv
<1>1. MaxId >= 5 /\ MaxId \in Nat /\ {1, 2, 3, 4, 5} \subseteq Ids
  BY Constants DEF Ids
<1>2. PICK owner \in BOOLEAN :
        accounts = [i \in Ids |->
          IF i = 1 THEN Account("mum", "admin", owner, FALSE)
          ELSE IF i = 2 THEN Account("dad", "admin", FALSE, FALSE)
          ELSE IF i = 3 THEN Account("dartec", "admin", FALSE, FALSE)
          ELSE IF i = 4 THEN Account("aunt", "users", FALSE, TRUE)
          ELSE IF i = 5 THEN Account("panel-hall", "users", FALSE, TRUE)
          ELSE NoAccount]
  BY DEF Init
<1>3. /\ Account("mum", "admin", owner, FALSE) \in AccountType
      /\ Account("dad", "admin", FALSE, FALSE) \in AccountType
      /\ Account("dartec", "admin", FALSE, FALSE) \in AccountType
      /\ Account("aunt", "users", FALSE, TRUE) \in AccountType
      /\ Account("panel-hall", "users", FALSE, TRUE) \in AccountType
  BY NamesAssumption DEF Account, AccountType, Usernames
<1>a. \A i \in Ids : accounts[i] \in AccountType \cup {NoAccount}
  BY <1>2, <1>3
<1>b. accounts \in [Ids -> AccountType \cup {NoAccount}]
  BY <1>2, <1>a
<1>c. \A i \in Ids : i >= 6 => accounts[i] = NoAccount
  <2>1. \A i \in Ids : i >= 6 => i \notin {1, 2, 3, 4, 5}
    BY <1>1 DEF Ids
  <2> QED BY <1>2, <2>1
<1>4. accounts \in [Ids -> AccountType \cup {NoAccount}]
      /\ \A i \in Ids : i >= 6 => accounts[i] = NoAccount
  BY <1>b, <1>c
<1>5. /\ Idle \in SessionType /\ Fits(Idle) /\ Idle.at = "idle" /\ Idle.target = 0
      /\ \A s \in Sessions : session[s] = Idle
      /\ NoCommand \in [at : {"idle", "made", "undo"}, target : 0..MaxId, name : Usernames]
      /\ NoCommand.at = "idle" /\ NoCommand.target = 0
  BY Constants DEF Init, NoCommand
<1>6. counts \in [changes : 0..MaxChanges, commands : 0..MaxCommands, stops : Nat]
      /\ counts.changes = 0 /\ counts.commands = 0
  BY Constants DEF Init
<1>d. /\ guests = {4} /\ stored = guests /\ lock = 0 /\ nextId = 6 /\ overtaken = FALSE
      /\ manager = NoCommand /\ session = [s \in Sessions |-> Idle]
  BY DEF Init
<1>7. Types
  <2>1. session \in [Sessions -> SessionType]
    BY <1>d, <1>5
  <2>2. nextId \in 6..MaxId + 1 /\ guests \subseteq Ids
    BY <1>d, <1>1
  <2> QED BY <1>d, <1>4, <1>5, <1>6, <2>1, <2>2 DEF Types
<1>8. IdsFit
  <2>1. May(Idle) = 0
    BY <1>5 DEF May
  <2>2. session[1] = Idle /\ session[2] = Idle
    BY <1>5 DEF Sessions
  <2>3. counts.commands = 0
    BY DEF Init
  <2>4. nextId + May(session[1]) + May(session[2]) <= 6 + counts.changes + counts.commands
    BY <1>d, <1>6, <2>1, <2>2, <2>3
  <2> QED BY <1>d, <1>4, <1>5, <2>4 DEF IdsFit
<1>9. StagesFit /\ OneHolder
  BY <1>5 DEF StagesFit, OneHolder, Init, Sessions
<1> QED BY <1>7, <1>8, <1>9 DEF TypeInv

LEMMA TypeStep ==
  ASSUME TypeInv, [Next]_vars
  PROVE  TypeInv'
BY TypeWork, TypeAsk, TypeManage, TypeOthers DEF Next

\* Every account was given an id of its own, and the lock has one holder: whoever
\* is at a change, and nobody after one that failed half way.
THEOREM TypeHolds == Spec => []TypeInv
<1>1. Init => TypeInv
  BY TypeInit
<1>2. TypeInv /\ [Next]_vars => TypeInv'
  BY TypeStep
<1> QED BY <1>1, <1>2, PTL DEF Spec


-----------------------------------------------------------------------------
(***************************************************************************)
(* Names and logins.                                                       *)
(***************************************************************************)
\* Accounts may go, none comes, and nobody gets a name or a login.
LEMMA NamesStep ==
  ASSUME TypeInv, TypeInv', NamesInv,
         \A i \in Existing' : i \in Existing /\ accounts'[i].username = accounts[i].username,
         \A i \in Existing' : accounts[i].username \in logins \ {"none"}
                                => accounts[i].username \in logins',
         \A i \in Existing' : accounts[i].username = "none" /\ Excused(i) => Excused(i)',
         \A s \in Sessions : session'[s].at \in Creating
           => session[s].at \in Creating /\ session'[s].target = session[s].target,
         \A s \in Sessions : Holding(session'[s])
           => /\ Holding(session[s]) /\ session'[s].name = session[s].name
              /\ session[s].name \in logins => session[s].name \in logins',
         manager'.at # "idle" => manager.at # "idle" /\ manager'.target = manager.target,
         manager'.at = "made" => manager.at = "made"
  PROVE  NamesInv'
<1>1. (\A i \in Existing : accounts[i].username = "none" => Excused(i))'
  BY DEF NamesInv
<1>2. LoginsKept'
  BY DEF NamesInv, LoginsKept
<1>3. \A s \in Sessions : LoginHeld(s)'
  BY DEF NamesInv, LoginHeld
<1>4. (\A s \in Sessions : session[s].at \in Creating /\ manager.at # "idle"
                             => session[s].target # manager.target)'
  BY DEF NamesInv
<1>5. (manager.at = "made" /\ manager.target \in Existing
         => accounts[manager.target].username = "none")'
  BY DEF NamesInv
<1> QED BY <1>1, <1>2, <1>3, <1>4, <1>5 DEF NamesInv

\* The same, when the step is one session's.
LEMMA NamesMove ==
  ASSUME TypeInv, TypeInv', NamesInv, NEW s \in Sessions, NEW c \in SessionType,
         session' = [session EXCEPT ![s] = c], UNCHANGED manager,
         \A i \in Existing' : i \in Existing /\ accounts'[i].username = accounts[i].username,
         \A i \in Existing' : accounts[i].username \in logins \ {"none"}
                                => accounts[i].username \in logins',
         \A i \in Existing' : accounts[i].username = "none" /\ i \in disturbed => i \in disturbed',
         c.at \in Creating => session[s].at \in Creating /\ c.target = session[s].target,
         session[s].at \in Creating /\ c.at \notin Creating
           => session[s].target \notin Existing' \ disturbed',
         Holding(c) => Holding(session[s]) /\ c.name = session[s].name /\ UNCHANGED logins,
         UNCHANGED logins \/ lock = s
  PROVE  NamesInv'
<1>1. session'[s] = c /\ \A k \in Sessions \ {s} : session'[k] = session[k]
  BY DEF TypeInv, Types
<1>2. \A i \in Existing' : accounts[i].username = "none" /\ Excused(i) => Excused(i)'
  <2> SUFFICES ASSUME NEW i \in Existing', accounts[i].username = "none", Excused(i)
               PROVE  Excused(i)'
    OBVIOUS
  <2>1. ASSUME NEW k \in Sessions, session[k].at \in Creating, session[k].target = i
        PROVE  (session'[k].at \in Creating /\ session'[k].target = i) \/ i \in disturbed'
    BY <1>1, <2>1 DEF Creating
  <2> QED BY <2>1 DEF Excused
<1>3. \A k \in Sessions : Holding(session[k]) => lock = k
  BY DEF Holding, TypeInv, OneHolder
<1>4. \A k \in Sessions : session'[k].at \in Creating
        => session[k].at \in Creating /\ session'[k].target = session[k].target
  BY <1>1
<1>5. \A k \in Sessions : Holding(session'[k])
        => /\ Holding(session[k]) /\ session'[k].name = session[k].name
           /\ session[k].name \in logins => session[k].name \in logins'
  BY <1>1, <1>3
<1> QED BY <1>2, <1>4, <1>5, NamesStep

\* Moving between the stages: MovedTo, with what NamesMove asks of it.
LEMMA NamesSession ==
  ASSUME TypeInv, TypeInv', NamesInv, NEW s \in Sessions,
         Ask(s) \/ Check(s) \/ Refuse(s) \/ Change(s) \/ Vanished(s) \/ CreateFails(s)
           \/ UndoLogin(s) \/ UndoUser(s) \/ UndoUserFails(s) \/ NoteGuest(s) \/ Answer(s)
           \/ (AddLogin(s) /\ session[s].name \in logins)
  PROVE  NamesInv'
<1> USE DEF undisturbed, rest
<1>0. /\ session[s] \in SessionType /\ Fits(session[s]) /\ Idle \in SessionType
      /\ Idle.at = "idle" /\ accounts \in [Ids -> AccountType \cup {NoAccount}]
      /\ "idle" \notin Creating
  BY Constants DEF TypeInv, Types, StagesFit, Creating
<1>2. ASSUME NEW stage \in Stages, Moves(s, stage), UNCHANGED <<accounts, logins, manager, disturbed>>,
             stage \in Creating <=> session[s].at \in Creating,
             stage # "login", stage = "undo" /\ session[s].at # "login" => session[s].added = FALSE
      PROVE  NamesInv'
  <2>1. PICK c \in SessionType :
          /\ session' = [session EXCEPT ![s] = c] /\ c.at = stage
          /\ c.target = session[s].target /\ c.name = session[s].name /\ c.added = session[s].added
    BY <1>2, MovedTo
  <2> QED BY <1>2, <2>1, NamesMove DEF Existing, Exists, Holding
<1>3. CASE Ask(s) \/ NoteGuest(s)
  BY <1>2, <1>3 DEF Ask, NoteGuest, Moves, Stages, Creating
<1>4. CASE CreateFails(s) \/ (AddLogin(s) /\ session[s].name \in logins)
  <2>1. Fits(session[s])
    BY <1>0
  <2>2. session[s].at \in {"made", "login"} /\ Moves(s, "undo")
        /\ UNCHANGED <<accounts, logins, manager, disturbed>>
    BY <1>4 DEF CreateFails, AddLogin
  <2>3. session[s].at = "made" => session[s].added = FALSE
    BY <1>0 DEF Fits, SessionType
  <2> QED BY <1>2, <2>2, <2>3 DEF Stages, Creating
<1>5. CASE Check(s)
  <2>1. PICK c \in SessionType : session' = [session EXCEPT ![s] = c] /\ Prepared(s, c)
    BY <1>5, Checked
  <2>2. session[s].at = "waiting" /\ c.at = "checked" /\ UNCHANGED undisturbed
    BY <1>5, <2>1, Checked DEF Prepared
  <2> QED BY <2>1, <2>2, NamesMove DEF Existing, Exists, Creating, Holding
<1>6. CASE Refuse(s) \/ Vanished(s) \/ Answer(s)
  <2>1. /\ session[s].at \notin Creating /\ session' = [session EXCEPT ![s] = Idle]
        /\ UNCHANGED <<accounts, logins, manager>>
    BY <1>6 DEF Refuse, Vanished, Answer, Creating
  <2>2. \A i \in Existing : accounts[i].username = "none" /\ i \in disturbed => i \in disturbed'
    BY <1>6 DEF Refuse, Vanished, Answer
  <2> QED BY <1>0, <2>1, <2>2, NamesMove DEF Existing, Exists, Holding
<1>7. CASE ApplyUpdate(s)
  <2>1. Moves(s, "changed") /\ UNCHANGED <<logins, manager, disturbed>> /\ session[s].at = "checked"
        /\ accounts[session[s].target] # NoAccount
    BY <1>7 DEF ApplyUpdate, Exists
  <2>2. PICK c \in SessionType : session' = [session EXCEPT ![s] = c] /\ c.at = "changed"
    BY <2>1, MovedTo DEF Stages
  <2>3. \A i \in Existing' : i \in Existing /\ accounts'[i].username = accounts[i].username
    BY <1>7, <2>1, UpdatedAccount DEF Existing, Exists
  <2> QED BY <2>1, <2>2, <2>3, NamesMove DEF Creating, Holding
<1>8. CASE ApplyRemove(s)
  <2> DEFINE t == session[s].target
  <2>1. Moves(s, "changed") /\ UNCHANGED <<manager, disturbed>> /\ session[s].at = "checked"
        /\ t \in Ids /\ t \in Existing /\ accounts' = [accounts EXCEPT ![t] = NoAccount]
        /\ logins' = logins \ {accounts[t].username}
    BY <1>0, <1>8 DEF ApplyRemove, Existing, Exists, Fits
  <2>2. PICK c \in SessionType : session' = [session EXCEPT ![s] = c] /\ c.at = "changed"
    BY <2>1, MovedTo DEF Stages
  <2>3. lock = s
    BY <2>1 DEF TypeInv, OneHolder
  <2>4. \A i \in Existing' : i \in Existing /\ i # t /\ accounts'[i] = accounts[i]
    BY <1>0, <2>1 DEF Existing, Exists
  <2>5. \A i \in Existing' : accounts[i].username \in logins \ {"none"}
                               => accounts[i].username \in logins'
    BY <2>1, <2>4 DEF NamesInv, LoginsKept
  <2> QED BY <2>1, <2>2, <2>3, <2>4, <2>5, NamesMove DEF Creating, Holding
<1>9. CASE UndoLogin(s)
  <2>1. PICK c \in SessionType : session' = [session EXCEPT ![s] = c] /\ c.at = "undoUser"
                                 /\ c.target = session[s].target
    BY <1>9, MovedTo DEF UndoLogin, Stages
  <2>2. session[s].at = "undo" /\ UNCHANGED <<accounts, manager, disturbed>> /\ lock = s
    BY <1>9 DEF UndoLogin, TypeInv, OneHolder
  <2>3. \A i \in Existing : accounts[i].username \in logins => accounts[i].username \in logins'
    BY <1>9, <2>2 DEF UndoLogin, NamesInv, LoginHeld, Holding
  <2> QED BY <2>1, <2>2, <2>3, NamesMove DEF Existing, Exists, Creating, Holding
<1>10. CASE UndoUser(s)
  <2>1. /\ session' = [session EXCEPT ![s] = Idle] /\ UNCHANGED <<logins, manager, disturbed>>
        /\ accounts' = [accounts EXCEPT ![session[s].target] = NoAccount]
    BY <1>10 DEF UndoUser
  <2>2. session[s].target \notin Existing' /\
        \A i \in Existing' : i \in Existing /\ accounts'[i] = accounts[i]
    BY <1>0, <2>1 DEF Existing, Exists
  <2> QED BY <1>0, <2>1, <2>2, NamesMove DEF Holding
<1>11. CASE UndoUserFails(s)
  BY <1>0, <1>11, NamesMove DEF UndoUserFails, Existing, Exists, Holding
<1> QED BY <1>3, <1>4, <1>5, <1>6, <1>7, <1>8, <1>9, <1>10, <1>11 DEF Change


\* The three steps of a creation that make an account, or give it a login and a name.
LEMMA NamesCreate ==
  ASSUME TypeInv, TypeInv', NamesInv, NEW s \in Sessions,
         MakeUser(s) \/ (AddLogin(s) /\ session[s].name \notin logins) \/ LinkLogin(s)
  PROVE  NamesInv'
<1> USE DEF rest
<1>0. /\ session[s] \in SessionType /\ Fits(session[s]) /\ session \in [Sessions -> SessionType]
      /\ accounts \in [Ids -> AccountType \cup {NoAccount}] /\ nextId \in Nat
  BY DEF TypeInv, Types, StagesFit
<1>1. /\ UNCHANGED <<manager, disturbed>>
      /\ \A k \in Sessions \ {s} : session'[k] = session[k] /\ session[k].at \notin Creating
  <2>1. lock = s
    BY DEF MakeUser, AddLogin, LinkLogin, TypeInv, OneHolder
  <2>2. \A k \in Sessions \ {s} : session[k].at \in {"idle", "waiting"}
    BY <2>1 DEF TypeInv, OneHolder
  <2>3. \A k \in Sessions \ {s} : session'[k] = session[k]
    BY <1>0 DEF MakeUser, AddLogin, LinkLogin, Moves
  <2> QED BY <2>2, <2>3 DEF MakeUser, AddLogin, LinkLogin, Creating
<1>2. session[s].kind = "create" /\ session[s].name \in NewNames /\ session[s].name # "none"
  <2>1. session[s].kind = "create"
    BY <1>0 DEF MakeUser, AddLogin, LinkLogin, Fits, Creating
  <2> QED BY <1>0, <2>1, NamesAssumption DEF Fits
<1>3. CASE MakeUser(s)
  <2>1. /\ nextId < nextId' /\ UNCHANGED logins /\ session[s].at = "checked"
        /\ session'[s].at = "made" /\ session'[s].target = nextId /\ session'[s].name = session[s].name
    BY <1>0, <1>3 DEF MakeUser
  <2>2. nextId \in Ids /\ nextId \notin Existing
    BY <1>0, <2>1 DEF TypeInv, Types, IdsFit, StagesFit, Fits, Creating, Existing, Exists
  <2>3. /\ accounts'[nextId].username = "none"
        /\ \A i \in Existing' \ {nextId} : i \in Existing /\ accounts'[i] = accounts[i]
    BY <1>0, <1>3, <2>2 DEF MakeUser, Existing, Exists
  <2>4. manager.target # nextId
    BY <1>0 DEF TypeInv, Types, IdsFit
  <2>5. \A i \in Ids : i = nextId => Excused(i)'
    BY <2>1 DEF Excused, Creating
  <2>6. \A i \in Existing : accounts[i].username = "none" => Excused(i)'
    BY <1>1, <2>1 DEF NamesInv, Excused, Creating
  <2>7. (\A i \in Existing : accounts[i].username = "none" => Excused(i))'
    BY <2>3, <2>5, <2>6 DEF Existing
  <2>8. LoginsKept'
    BY <2>1, <2>3 DEF NamesInv, LoginsKept
  <2>9. \A k \in Sessions : ~Holding(session'[k])
    BY <1>1, <2>1 DEF Holding, Creating
  <2>10. (\A k \in Sessions : session[k].at \in Creating /\ manager.at # "idle"
                                => session[k].target # manager.target)'
    BY <1>1, <2>1, <2>4
  <2>11. (manager.at = "made" /\ manager.target \in Existing
            => accounts[manager.target].username = "none")'
    BY <1>1, <2>3, <2>4 DEF NamesInv
  <2> QED BY <2>7, <2>8, <2>9, <2>10, <2>11 DEF NamesInv, LoginHeld
<1>4. CASE AddLogin(s) /\ session[s].name \notin logins
  <2>1. /\ UNCHANGED accounts /\ logins' = logins \cup {session[s].name}
        /\ session[s].at = "made" /\ session'[s].at = "login"
        /\ session'[s].target = session[s].target /\ session'[s].name = session[s].name
    BY <1>0, <1>4 DEF AddLogin, SessionType
  <2>2. Existing' = Existing /\ \A i \in Ids : Excused(i) => Excused(i)'
    BY <1>1, <2>1 DEF Existing, Exists, Excused, Creating
  <2>3. (\A i \in Existing : accounts[i].username = "none" => Excused(i))'
    BY <2>1, <2>2 DEF NamesInv, Existing
  <2>4. LoginsKept'
    BY <2>1, <2>2 DEF NamesInv, LoginsKept
  <2>5. \A k \in Existing : accounts[k].username # session[s].name
    BY <1>2, <1>4 DEF NamesInv, LoginsKept
  <2>6. \A k \in Sessions : LoginHeld(k)'
    BY <1>1, <2>1, <2>2, <2>5 DEF LoginHeld, Holding, Creating
  <2> QED BY <1>1, <2>1, <2>2, <2>3, <2>4, <2>6 DEF NamesInv, Creating
<1>5. CASE LinkLogin(s)
  <2> DEFINE t == session[s].target
  <2>1. /\ session[s].at = "login" /\ session'[s].at = "changed" /\ UNCHANGED logins
    BY <1>0, <1>5 DEF LinkLogin, Moves
  <2>2. session[s].name \in logins /\ \A k \in Existing : accounts[k].username # session[s].name
    BY <2>1 DEF NamesInv, LoginHeld, Holding
  <2>3. /\ Existing' = Existing
        /\ \A i \in Existing : accounts'[i].username = IF i = t THEN session[s].name
                                                       ELSE accounts[i].username
    BY <1>0, <1>5 DEF LinkLogin, Existing, Exists, NoAccount, AccountType
  <2> HIDE DEF t
  <2>4. \A i \in Ids \ {t} : Excused(i) => Excused(i)'
    BY <1>1 DEF Excused, t
  <2>5. (\A i \in Existing : accounts[i].username = "none" => Excused(i))'
    BY <1>2, <2>3, <2>4 DEF NamesInv, Existing
  <2>6. LoginsKept'
    BY <2>1, <2>2, <2>3 DEF NamesInv, LoginsKept
  <2>7. \A k \in Sessions : session'[k].at \notin Creating /\ ~Holding(session'[k])
    BY <1>1, <2>1 DEF Creating, Holding
  <2>8. manager.at = "made" => manager.target # t
    BY <2>1 DEF NamesInv, Creating, t
  <2> QED BY <1>1, <2>3, <2>5, <2>6, <2>7, <2>8 DEF NamesInv, LoginHeld
<1> QED BY <1>3, <1>4, <1>5

LEMMA NamesManage ==
  ASSUME TypeInv, TypeInv', NamesInv, Manage
  PROVE  NamesInv'
<1>0. /\ accounts \in [Ids -> AccountType \cup {NoAccount}] /\ nextId \in Nat
      /\ manager \in [at : {"idle", "made", "undo"}, target : 0..MaxId, name : Usernames]
      /\ manager.at = "made" => manager.name # "none"
  BY NamesAssumption DEF TypeInv, Types, StagesFit
<1>1. ASSUME NEW name \in NewNames \cup PanelNames, NEW group \in {"users", "admin"},
             NEW local \in BOOLEAN, CommandMakes(name, group, local)
      PROVE  NamesInv'
  <2>1. /\ UNCHANGED <<logins, session, disturbed>> /\ manager.at = "idle"
        /\ manager' = [at |-> "made", target |-> nextId, name |-> name]
    BY <1>1 DEF CommandMakes, Commanded
  <2>2. nextId \in Ids /\ nextId \notin Existing
    BY <1>0, <2>1 DEF TypeInv, Types, IdsFit, StagesFit, Existing, Exists
  <2>3. /\ accounts'[nextId].username = "none"
        /\ \A i \in Existing' \ {nextId} : i \in Existing /\ accounts'[i] = accounts[i]
    BY <1>0, <1>1, <2>2 DEF CommandMakes, Existing, Exists
  <2>4. \A i \in Ids : Excused(i) \/ i = nextId => Excused(i)'
    BY <2>1 DEF Excused
  <2>5. (\A i \in Existing : accounts[i].username = "none" => Excused(i))'
    BY <2>3, <2>4 DEF NamesInv, Existing
  <2>6. LoginsKept'
    BY <2>1, <2>3 DEF NamesInv, LoginsKept
  <2>7. \A s \in Sessions : session[s].name \in NewNames \/ ~Holding(session[s])
    BY DEF TypeInv, StagesFit, Fits, Holding, Creating
  <2>8. \A s \in Sessions : LoginHeld(s)'
    BY <2>1, <2>3, <2>7, NamesAssumption DEF NamesInv, LoginHeld
  <2>9. \A s \in Sessions : session'[s].target # nextId
    BY <1>0, <2>1 DEF TypeInv, Types, IdsFit, SessionType
  <2> QED BY <2>1, <2>3, <2>5, <2>6, <2>8, <2>9 DEF NamesInv
<1>2. CASE CommandAddsLogin /\ manager.name \notin logins /\ manager.target \in Existing
  <2> DEFINE t == manager.target
  <2>1. /\ manager.at = "made" /\ logins' = logins \cup {manager.name} /\ manager' = NoCommand
        /\ accounts' = [accounts EXCEPT ![t].username = manager.name] /\ t \in Ids
        /\ UNCHANGED <<session, disturbed>>
    BY <1>2 DEF CommandAddsLogin, Existing
  <2>2. /\ Existing' = Existing
        /\ \A i \in Existing : accounts'[i].username = IF i = t THEN manager.name
                                                       ELSE accounts[i].username
    BY <1>0, <1>2, <2>1 DEF Existing, Exists, NoAccount, AccountType
  <2>3. \A i \in Ids \ {t} : Excused(i) => Excused(i)'
    BY <2>1 DEF Excused
  <2>4. manager.name # "none" /\ \A i \in Existing : accounts[i].username # manager.name
    BY <1>0, <1>2, <2>1 DEF NamesInv, LoginsKept
  <2>5. (\A i \in Existing : accounts[i].username = "none" => Excused(i))'
    BY <2>2, <2>3, <2>4 DEF NamesInv, Existing
  <2>6. LoginsKept'
    BY <2>1, <2>2, <2>4 DEF NamesInv, LoginsKept
  <2>7. \A s \in Sessions : LoginHeld(s)'
    BY <1>2, <2>1, <2>2 DEF NamesInv, LoginHeld
  <2> QED BY <2>1, <2>5, <2>6, <2>7 DEF NamesInv, NoCommand
<1>3. ASSUME UNCHANGED <<accounts, logins, session, disturbed>>,
             manager.at = "made", manager' = [manager EXCEPT !.at = "undo"]
      PROVE  NamesInv'
  <2>1. manager'.at = "undo" /\ manager'.target = manager.target
    BY <1>0, <1>3
  <2> QED BY <1>3, <2>1, NamesStep DEF Existing, Exists, Excused
<1>4. CASE CommandAddsLogin \/ CommandLoginFails
  BY <1>0, <1>2, <1>3, <1>4 DEF CommandAddsLogin, CommandLoginFails, Existing, TypeInv, StagesFit
<1>5. CASE CommandUndoes
  <2>1. /\ UNCHANGED <<logins, session, disturbed>> /\ manager' = NoCommand
        /\ accounts' = [accounts EXCEPT ![manager.target] = NoAccount]
    BY <1>5 DEF CommandUndoes
  <2>2. \A i \in Existing' : i \in Existing /\ i # manager.target /\ accounts'[i] = accounts[i]
    BY <1>0, <2>1 DEF Existing, Exists
  <2> QED BY <2>1, <2>2, NamesStep DEF Excused, NoCommand
<1>6. ASSUME NEW i \in Ids, NEW a, Exists(i), a.username = accounts[i].username,
             accounts' = [accounts EXCEPT ![i] = a], disturbed \subseteq disturbed',
             UNCHANGED <<logins, session, manager>>
      PROVE  NamesInv'
  <2>1. \A k \in Existing' : k \in Existing /\ accounts'[k].username = accounts[k].username
    BY <1>0, <1>6 DEF Existing, Exists
  <2> QED BY <1>6, <2>1, NamesStep DEF Excused
<1>7. ASSUME NEW i \in Ids,
             \/ \E group \in {"users", "admin"} :
                  CommandUpdates(i, [accounts[i] EXCEPT !.group = group])
             \/ CommandUpdates(i, [accounts[i] EXCEPT !.active = ~@])
             \/ CommandUpdates(i, [accounts[i] EXCEPT !.local = ~@])
      PROVE  NamesInv'
  BY <1>6, <1>7 DEF CommandUpdates
<1>8. ASSUME NEW i \in Ids, CommandDeletes(i) PROVE NamesInv'
  <2>1. /\ i \in Existing /\ accounts' = [accounts EXCEPT ![i] = NoAccount]
        /\ logins' = logins \ {accounts[i].username} /\ UNCHANGED <<session, disturbed, manager>>
        /\ manager.at = "idle"
    BY <1>8 DEF CommandDeletes, Existing, Commanded
  <2>2. \A k \in Existing' : k \in Existing /\ k # i /\ accounts'[k] = accounts[k]
    BY <1>0, <2>1 DEF Existing, Exists
  <2>3. \A k \in Existing' : accounts[k].username \in logins \ {"none"}
                               => accounts[k].username \in logins'
    BY <2>1, <2>2 DEF NamesInv, LoginsKept
  <2>4. \A s \in Sessions : Holding(session[s]) /\ session[s].name \in logins
                              => session[s].name \in logins'
    BY <2>1 DEF NamesInv, LoginHeld
  <2> QED BY <2>1, <2>2, <2>3, <2>4, NamesStep DEF Excused
<1>9. ASSUME NEW i \in Ids, CommandRefreshes(i) PROVE NamesInv'
  <2> DEFINE a == [accounts[i] EXCEPT !.group = "users", !.active = TRUE, !.local = TRUE]
  <2>1. /\ Exists(i) /\ accounts' = [accounts EXCEPT ![i] = a]
        /\ UNCHANGED <<logins, session, manager, disturbed>>
    BY <1>0, <1>9 DEF CommandRefreshes
  <2>2. a.username = accounts[i].username
    BY <1>0, <2>1 DEF Exists, AccountType
  <2> QED BY <1>6, <2>1, <2>2
<1>10. CASE CommandLeaves
  BY <1>10, NamesStep DEF CommandLeaves, NoCommand, Existing, Exists, Excused
<1> QED BY NamesAssumption, <1>1, <1>4, <1>5, <1>7, <1>8, <1>9, <1>10 DEF Manage

LEMMA NamesOthers ==
  ASSUME TypeInv, TypeInv', NamesInv, Look \/ Reload \/ Restart \/ UNCHANGED vars
                                        \/ \E s \in Sessions : OtherChange(s)
  PROVE  NamesInv'
<1>1. CASE Look \/ UNCHANGED vars \/ \E s \in Sessions : OtherChange(s)
  BY <1>1, NamesStep DEF Look, OtherChange, vars, Existing, Exists, Excused
<1>2. CASE Reload
  BY <1>2, NamesStep DEF Reload, NoCommand, Existing, Exists, Excused
<1>3. CASE Restart
  <2>1. /\ UNCHANGED <<accounts, logins>> /\ manager' = NoCommand
        /\ disturbed' = (disturbed \cup Cut \cup {manager.target}) \ {0}
        /\ \A s \in Sessions : session'[s].at = "idle"
    BY <1>3, Constants DEF Restart
  <2>2. \A i \in Ids : Excused(i) => Excused(i)'
    <3> SUFFICES ASSUME NEW i \in Ids, Excused(i) PROVE i \in disturbed'
      BY DEF Excused
    <3>1. i # 0
      BY DEF Ids
    <3>2. ASSUME NEW s \in Sessions, session[s].at \in Creating, session[s].target = i
          PROVE  i \in Cut
      BY <3>2 DEF Cut, Creating
    <3> QED BY <2>1, <3>1, <3>2 DEF Excused
  <2> QED BY <2>1, <2>2, NamesStep DEF Existing, Exists, Creating, Holding, NoCommand
<1> QED BY <1>1, <1>2, <1>3


LEMMA FirstAccounts ==
  ASSUME Init
  PROVE  /\ Existing = {1, 2, 3, 4, 5}
         /\ accounts[1].username = "mum" /\ accounts[2].username = "dad"
         /\ accounts[3].username = "dartec" /\ accounts[4].username = "aunt"
         /\ accounts[5].username = "panel-hall"
         /\ accounts[4].local
<1>1. {1, 2, 3, 4, 5} \subseteq Ids
  BY Constants DEF Ids
<1>2. PICK owner \in BOOLEAN :
        accounts = [i \in Ids |->
          IF i = 1 THEN Account("mum", "admin", owner, FALSE)
          ELSE IF i = 2 THEN Account("dad", "admin", FALSE, FALSE)
          ELSE IF i = 3 THEN Account("dartec", "admin", FALSE, FALSE)
          ELSE IF i = 4 THEN Account("aunt", "users", FALSE, TRUE)
          ELSE IF i = 5 THEN Account("panel-hall", "users", FALSE, TRUE)
          ELSE NoAccount]
  BY DEF Init
<1>3. /\ accounts[1] = Account("mum", "admin", owner, FALSE)
      /\ accounts[2] = Account("dad", "admin", FALSE, FALSE)
      /\ accounts[3] = Account("dartec", "admin", FALSE, FALSE)
      /\ accounts[4] = Account("aunt", "users", FALSE, TRUE)
      /\ accounts[5] = Account("panel-hall", "users", FALSE, TRUE)
  BY <1>1, <1>2
<1>a. \A i \in Ids \ {1, 2, 3, 4, 5} : accounts[i] = NoAccount
  BY <1>2
<1>4. /\ accounts[1].username = "mum" /\ accounts[2].username = "dad"
      /\ accounts[3].username = "dartec" /\ accounts[4].username = "aunt"
      /\ accounts[5].username = "panel-hall" /\ accounts[4].local
  BY <1>3 DEF Account
<1>5. \A i \in {1, 2, 3, 4, 5} : accounts[i].username # "none"
  BY <1>4
<1>6. NoAccount.username = "none"
  BY DEF NoAccount
<1> QED BY <1>1, <1>a, <1>4, <1>5, <1>6 DEF Existing, Exists

LEMMA NamesInit ==
  ASSUME Init
  PROVE  NamesInv
<1>1. /\ logins = {"mum", "dad", "dartec", "aunt", "panel-hall"} /\ manager.at = "idle"
      /\ \A s \in Sessions : session[s].at = "idle"
  BY Constants DEF Init, NoCommand
<1>2. \A i \in Existing : accounts[i].username \in logins /\ accounts[i].username # "none"
  BY <1>1, FirstAccounts
<1>3. LoginsKept
  <2>1. "panel-hall" \notin {"none", "mum", "dad", "dartec", "aunt"}
    BY NamesAssumption
  <2>2. \A i, k \in Existing : i # k => accounts[k].username # accounts[i].username
    BY <2>1, FirstAccounts
  <2> QED BY <1>2, <2>2 DEF LoginsKept
<1> QED BY <1>1, <1>2, <1>3 DEF NamesInv, LoginHeld, Holding, Creating

LEMMA NamesNext ==
  ASSUME TypeInv, NamesInv, [Next]_vars
  PROVE  NamesInv'
<1>1. TypeInv'
  BY TypeStep
<1>2. ASSUME NEW s \in Sessions, Ask(s) \/ Check(s) \/ Refuse(s) \/ Work(s) PROVE NamesInv'
  BY <1>1, <1>2, NamesSession, NamesCreate DEF Work
<1> QED BY <1>1, <1>2, NamesManage, NamesOthers DEF Next

-----------------------------------------------------------------------------
(***************************************************************************)
(* Who can manage the home.                                                *)
(***************************************************************************)
LEMMA ActiveAdminsAre ==
  ActiveAdmins = {i \in Existing : /\ accounts[i].active /\ IsAdmin(accounts[i])
                                   /\ accounts[i].owner \/ accounts[i].username # "dartec"}
BY DEF ActiveAdmins, Kind, IsPanel

\* Nobody is between the rules and the change, or the manager has overtaken it.
LEMMA AdminFree ==
  ASSUME overtaken' = TRUE \/ \A s \in Sessions : session'[s].at # "checked"
  PROVE  AdminInv'
BY DEF AdminInv, ActorStillManages, RuleHolds

\* No administrator goes, is demoted or paused; new accounts are nobody's target.
LEMMA AdminStep ==
  ASSUME TypeInv, TypeInv', AdminInv, UNCHANGED overtaken,
         \A s \in Sessions : session'[s].at = "checked" => session'[s] = session[s],
         \A i \in Existing :
           /\ i \in Existing' /\ accounts'[i].owner = accounts[i].owner
           /\ IsAdmin(accounts'[i]) <=> IsAdmin(accounts[i])
           /\ accounts'[i].username = "dartec" <=> accounts[i].username = "dartec"
           /\ accounts[i].active => accounts'[i].active
           /\ accounts'[i].active /\ IsAdmin(accounts[i]) => accounts[i].active,
         \A i \in Existing' : i >= nextId \/ i \in Existing
  PROVE  AdminInv'
<1> SUFFICES ASSUME NEW s \in Sessions, session'[s].at = "checked", ~overtaken
             PROVE  ActorStillManages' /\ RuleHolds(s)'
  <2>1. CASE overtaken
    BY <2>1, AdminFree DEF TypeInv, Types
  <2>2. CASE ~overtaken
    BY <2>2 DEF AdminInv, ActorStillManages, RuleHolds
  <2> QED BY <2>1, <2>2
<1> DEFINE c == session[s]
           t == c.target
<1>1. session'[s] = c /\ c.at = "checked" /\ t < nextId /\ t \in 0..MaxId /\ nextId \in Nat
      /\ \A k \in Sessions \ {s} : session'[k].at # "checked"
  BY DEF TypeInv, Types, SessionType, IdsFit, OneHolder
<1>2. ActorStillManages'
  <2>1. s \in Existing /\ IsAdmin(accounts[s])
    BY <1>1, Constants DEF AdminInv, ActorStillManages, Existing, Exists, Sessions, Ids
  <2>2. Exists(s)' /\ IsAdmin(accounts'[s])
    BY <2>1 DEF Existing
  <2> QED BY <1>1, <2>2 DEF ActorStillManages
<1>3. ActiveAdmins \subseteq ActiveAdmins'
  BY ActiveAdminsAre DEF Existing, ActiveAdmins, Kind, IsPanel
<1>4. \A i \in ActiveAdmins' : i \in ActiveAdmins \/ i >= nextId
  BY ActiveAdminsAre DEF Existing, ActiveAdmins, Kind, IsPanel
<1>5. ASSUME c.kind \in {"update", "remove"}, t \in Existing', ActiveAdmins' # {}
      PROVE  Stays(c)' \/ ActiveAdmins' \ {t} # {}
  <2>1. t \in Existing
    BY <1>1, <1>5 DEF Existing
  <2>2. CASE ActiveAdmins = {}
    BY <1>1, <1>4, <1>5, <2>2
  <2>3. CASE ActiveAdmins # {}
    <3>1. Stays(c) \/ ActiveAdmins \ {t} # {}
      BY <1>1, <1>5, <2>1, <2>3 DEF AdminInv, RuleHolds
    <3>2. Stays(c) => Stays(c)'
      BY <1>1, <2>1 DEF Stays
    <3> QED BY <1>3, <3>1, <3>2
  <2> QED BY <2>2, <2>3
<1> QED BY <1>1, <1>2, <1>5 DEF RuleHolds

\* Whoever works holds the lock, and the other session is not at a change.
LEMMA Alone ==
  ASSUME TypeInv, NEW s \in Sessions, Work(s)
  PROVE  /\ lock = s /\ session[s].at \notin {"idle", "waiting"}
         /\ session'[s].at \notin {"waiting", "checked"}
         /\ \A k \in Sessions \ {s} : session'[k] = session[k] /\ session[k].at \in {"idle", "waiting"}
<1>0. session[s] \in SessionType /\ session \in [Sessions -> SessionType] /\ Idle.at = "idle"
  BY Constants DEF TypeInv, Types
<1>1. session[s].at \notin {"idle", "waiting"}
  BY DEF Work, Change, ApplyUpdate, ApplyRemove, Vanished, MakeUser, AddLogin, LinkLogin,
         CreateFails, UndoLogin, UndoUser, UndoUserFails, NoteGuest, Answer
<1>2. lock = s /\ \A k \in Sessions \ {s} : session[k].at \in {"idle", "waiting"}
  BY <1>1 DEF TypeInv, OneHolder
<1>3. ASSUME NEW stage \in Stages, Moves(s, stage), stage \notin {"waiting", "checked"}
      PROVE  /\ session'[s].at \notin {"waiting", "checked"}
             /\ \A k \in Sessions \ {s} : session'[k] = session[k]
  BY <1>0, <1>3 DEF Moves, SessionType
<1>4. CASE Change(s) \/ LinkLogin(s) \/ CreateFails(s) \/ UndoLogin(s) \/ NoteGuest(s)
  <2>1. Moves(s, "changed") \/ Moves(s, "undo") \/ Moves(s, "undoUser") \/ Moves(s, "noted")
    BY <1>4 DEF Change, ApplyUpdate, ApplyRemove, LinkLogin, CreateFails, UndoLogin, NoteGuest
  <2> QED BY <1>1, <1>2, <1>3, <2>1 DEF Stages
<1>5. CASE Vanished(s) \/ UndoUser(s) \/ UndoUserFails(s) \/ Answer(s)
  <2>1. session' = [session EXCEPT ![s] = Idle]
    BY <1>5 DEF Vanished, UndoUser, UndoUserFails, Answer
  <2> QED BY <1>0, <1>1, <1>2, <2>1
<1>6. CASE MakeUser(s) \/ AddLogin(s)
  <2>1. \/ session' = [session EXCEPT ![s].at = "made", ![s].target = nextId]
        \/ session' = [session EXCEPT ![s].at = "login", ![s].added = TRUE]
        \/ Moves(s, "undo")
    BY <1>6 DEF MakeUser, AddLogin
  <2>2. CASE session' = [session EXCEPT ![s].at = "made", ![s].target = nextId]
    BY <1>0, <1>1, <1>2, <2>2 DEF SessionType
  <2>3. CASE session' = [session EXCEPT ![s].at = "login", ![s].added = TRUE]
    BY <1>0, <1>1, <1>2, <2>3 DEF SessionType
  <2> QED BY <1>1, <1>2, <1>3, <2>1, <2>2, <2>3 DEF Stages
<1> QED BY <1>4, <1>5, <1>6 DEF Work

LEMMA AdminSession ==
  ASSUME TypeInv, TypeInv', AdminInv, NEW s \in Sessions,
         Ask(s) \/ Check(s) \/ Refuse(s) \/ Work(s) \/ OtherChange(s)
  PROVE  AdminInv'
<1> USE DEF undisturbed, rest
<1>0. session \in [Sessions -> SessionType] /\ Idle.at = "idle"
  BY Constants DEF TypeInv, Types
<1>1. CASE Work(s)
  <2>1. \A k \in Sessions : session'[k].at # "checked"
    BY <1>1, Alone
  <2> QED BY <2>1, AdminFree
<1>2. CASE Ask(s) \/ Refuse(s) \/ OtherChange(s)
  <2>1. /\ UNCHANGED <<accounts, overtaken>>
        /\ \A k \in Sessions : session'[k].at = "checked" => session'[k] = session[k]
    BY <1>0, <1>2 DEF Ask, Refuse, OtherChange, SessionType
  <2> QED BY <2>1, AdminStep DEF Existing, Exists
<1>3. CASE Check(s)
  <2>1. PICK c \in SessionType : session' = [session EXCEPT ![s] = c] /\ Prepared(s, c)
    BY <1>3, Checked
  <2>a. lock' = s /\ UNCHANGED accounts
    BY <1>3, Checked
  <2>b. \A k \in Sessions \ {s} : session'[k].at # "checked"
    BY <2>a DEF TypeInv, OneHolder
  <2>2. session'[s] = c /\ UNCHANGED accounts /\ MayManage(s)
        /\ \A k \in Sessions \ {s} : session'[k].at # "checked"
    BY <1>0, <2>1, <2>a, <2>b DEF Prepared
  <2>3. ActorStillManages'
    BY <2>2 DEF ActorStillManages, MayManage, Exists
  <2>4. ASSUME c.kind \in {"update", "remove"}, c.target \in Existing, ActiveAdmins # {}
        PROVE  Stays(c) \/ ActiveAdmins \ {c.target} # {}
    <3>1. Changeable(c.target)
      BY <2>1, <2>4 DEF Prepared, RemoveAllowed
    <3>2. accounts[c.target].username # "dartec"
      BY <3>1 DEF Changeable, Kind
    <3>3. CASE c.kind = "remove"
      BY <2>1, <2>4, <3>3 DEF Prepared, RemoveAllowed, KeepsAnAdmin
    <3>4. CASE c.kind = "update"
      BY <2>1, <2>4, <3>2, <3>4 DEF Prepared, KeepsAnAdmin, Stays
    <3> QED BY <2>4, <3>3, <3>4
  <2>5. RuleHolds(s)'
    BY <2>2, <2>4 DEF RuleHolds, Existing, Exists, ActiveAdmins, Stays
  <2> QED BY <2>2, <2>3, <2>5 DEF AdminInv, RuleHolds
<1> QED BY <1>1, <1>2, <1>3

LEMMA AdminManage ==
  ASSUME TypeInv, TypeInv', NamesInv, AdminInv, Manage \/ Look \/ Reload \/ Restart \/ UNCHANGED vars
  PROVE  AdminInv'
<1>0. /\ accounts \in [Ids -> AccountType \cup {NoAccount}] /\ nextId \in Nat
      /\ manager.at = "made" => manager.name \in NewNames \cup PanelNames
      /\ \A i \in Ids : i >= nextId => accounts[i] = NoAccount
  BY DEF TypeInv, Types, StagesFit, IdsFit
<1>1. ASSUME UNCHANGED <<accounts, session, overtaken>> PROVE AdminInv'
  <2>1. UNCHANGED overtaken /\ Existing' = Existing /\ session' = session /\ accounts' = accounts
    BY <1>1 DEF Existing, Exists
  <2> QED BY <2>1, AdminStep
<1>2. ASSUME Overtakes, UNCHANGED session PROVE AdminInv'
  <2>1. CASE lock # 0
    BY <1>2, <2>1, AdminFree DEF Overtakes
  <2>2. CASE lock = 0
    <3>1. \A s \in Sessions : session[s].at # "checked"
      BY <2>2 DEF TypeInv, OneHolder, Sessions
    <3>2. \A s \in Sessions : session'[s].at # "checked"
      BY <1>2, <3>1
    <3> QED BY <3>2, AdminFree
  <2> QED BY <2>1, <2>2
<1>3. ASSUME NEW name \in NewNames \cup PanelNames, NEW group \in {"users", "admin"},
             NEW local \in BOOLEAN, CommandMakes(name, group, local)
      PROVE  AdminInv'
  <2>1. /\ UNCHANGED <<session, overtaken>>
        /\ \A i \in Existing : i \in Existing' /\ accounts'[i] = accounts[i]
        /\ \A i \in Existing' : i >= nextId \/ i \in Existing
    BY <1>0, <1>3 DEF CommandMakes, Existing, Exists
  <2> QED BY <2>1, AdminStep
<1>4. CASE CommandAddsLogin \/ CommandLoginFails
  <2>1. CASE UNCHANGED accounts
    BY <1>1, <1>4, <2>1 DEF CommandAddsLogin, CommandLoginFails
  <2>2. CASE /\ CommandAddsLogin /\ Exists(manager.target)
             /\ accounts' = [accounts EXCEPT ![manager.target].username = manager.name]
    <3> DEFINE t == manager.target
    <3>1. /\ manager.name \in NewNames \cup PanelNames /\ manager.name # "dartec"
          /\ t \in Ids /\ accounts[t] \in AccountType /\ accounts[t].username = "none"
          /\ UNCHANGED <<session, overtaken>>
      BY <1>0, <2>2, NamesAssumption
      DEF CommandAddsLogin, TypeInv, StagesFit, NamesInv, Exists, Existing
    <3>2. /\ accounts'[t].owner = accounts[t].owner /\ accounts'[t].group = accounts[t].group
          /\ accounts'[t].active = accounts[t].active /\ accounts'[t].username = manager.name
          /\ accounts'[t] # NoAccount
          /\ \A i \in Ids \ {t} : accounts'[i] = accounts[i]
      BY <1>0, <2>2, <3>1 DEF AccountType, NoAccount
    <3>3. \A i \in Existing :
            /\ i \in Existing' /\ accounts'[i].owner = accounts[i].owner
            /\ accounts'[i].group = accounts[i].group /\ accounts'[i].active = accounts[i].active
            /\ accounts'[i].username = "dartec" <=> accounts[i].username = "dartec"
      BY <3>1, <3>2 DEF Existing, Exists
    <3>4. \A i \in Existing' : i \in Existing
      BY <2>2, <3>2 DEF Existing, Exists
    <3> QED BY <3>1, <3>3, <3>4, AdminStep DEF IsAdmin
  <2> QED BY <1>4, <2>1, <2>2 DEF CommandAddsLogin, CommandLoginFails
<1>5. CASE CommandUndoes \/ \E i \in Ids : CommandDeletes(i) \/ \E a : CommandUpdates(i, a)
  BY <1>2, <1>5 DEF CommandUndoes, CommandDeletes, CommandUpdates
<1>6. ASSUME NEW i \in Ids, CommandRefreshes(i) PROVE AdminInv'
  <2>1. accounts[i] \in AccountType /\ ~IsAdmin(accounts[i]) /\ UNCHANGED <<session, overtaken>>
    BY <1>0, <1>6 DEF CommandRefreshes, Exists, IsPanel
  <2>2. /\ accounts'[i].owner = accounts[i].owner /\ accounts'[i].group = "users"
        /\ accounts'[i].active /\ accounts'[i].username = accounts[i].username
        /\ accounts'[i] # NoAccount /\ accounts[i] # NoAccount
        /\ \A k \in Ids \ {i} : accounts'[k] = accounts[k]
    BY <1>0, <1>6, <2>1 DEF CommandRefreshes, Exists, AccountType, NoAccount
  <2>3. ~IsAdmin(accounts'[i])
    BY <2>1, <2>2 DEF IsAdmin
  <2>4. \A k \in Existing :
          /\ k \in Existing' /\ accounts'[k].owner = accounts[k].owner
          /\ IsAdmin(accounts'[k]) <=> IsAdmin(accounts[k])
          /\ accounts'[k].username = accounts[k].username
          /\ accounts[k].active => accounts'[k].active
          /\ accounts'[k].active /\ IsAdmin(accounts[k]) => accounts[k].active
    BY <2>1, <2>2, <2>3 DEF Existing, Exists
  <2>5. \A k \in Existing' : k \in Existing
    BY <2>2 DEF Existing, Exists
  <2> QED BY <2>1, <2>4, <2>5, AdminStep
<1>7. CASE CommandLeaves \/ Look \/ Reload \/ UNCHANGED vars
  BY <1>1, <1>7 DEF CommandLeaves, Look, Reload, vars
<1>8. CASE Restart
  BY <1>8, AdminFree, Constants DEF Restart
<1> QED BY NamesAssumption, <1>3, <1>4, <1>5, <1>6, <1>7, <1>8 DEF Manage

LEMMA AdminNext ==
  ASSUME TypeInv, NamesInv, AdminInv, [Next]_vars
  PROVE  AdminInv'
<1>1. TypeInv'
  BY TypeStep
<1> QED BY <1>1, AdminSession, AdminManage DEF Next


LEMMA AdminInit ==
  ASSUME Init
  PROVE  AdminInv
BY Constants DEF Init, AdminInv, ActorStillManages, RuleHolds

\* A change the rules let through leaves somebody who can manage the home.
LEMMA ChangeKeepsOne ==
  ASSUME TypeInv, AdminInv, NEW s \in Sessions, Change(s), ActiveAdmins # {}, ~overtaken
  PROVE  ActiveAdmins' # {}
<1> DEFINE c == session[s]
           t == c.target
<1>0. accounts \in [Ids -> AccountType \cup {NoAccount}]
  BY DEF TypeInv, Types
<1>1. c.at = "checked" /\ c.kind \in {"update", "remove"} /\ Exists(t) /\ t \in Ids
  BY DEF Change, ApplyUpdate, ApplyRemove, TypeInv, StagesFit, Fits
<1>2. Stays(c) \/ ActiveAdmins \ {t} # {}
  BY <1>1 DEF AdminInv, RuleHolds, Existing
<1>3. \A k \in Existing \ {t} : accounts'[k] = accounts[k]
  <2>1. CASE ApplyUpdate(s)
    BY <2>1, UpdatedAccount DEF Existing
  <2>2. CASE ApplyRemove(s)
    BY <1>0, <2>2 DEF ApplyRemove, Existing
  <2> QED BY <2>1, <2>2 DEF Change
<1>4. CASE ActiveAdmins \ {t} # {}
  <2>1. PICK k \in ActiveAdmins : k # t
    BY <1>4
  <2>2. k \in Ids /\ accounts'[k] = accounts[k]
    BY <1>3, <2>1 DEF ActiveAdmins, Existing
  <2>3. k \in ActiveAdmins'
    BY <2>1, <2>2 DEF ActiveAdmins, Existing, Exists
  <2> QED BY <2>3
<1>5. CASE Stays(c)
  <2>1. c.kind = "update" /\ ApplyUpdate(s)
    BY <1>5 DEF Stays, Change, ApplyRemove
  <2> DEFINE b == accounts'[t]
  <2>2. /\ b \in AccountType /\ b.username = accounts[t].username /\ b.owner = accounts[t].owner
        /\ b.group = IF "role" \in c.fields THEN RoleGroup[c.role] ELSE accounts[t].group
        /\ b.active = IF "active" \in c.fields THEN c.active ELSE accounts[t].active
    BY <2>1, UpdatedAccount
  <2>3. RoleGroup["admin"] = "admin"
    BY DEF RoleGroup, Roles
  <2>4. b.active
    BY <1>5, <2>2 DEF Stays
  <2>5. IsAdmin(b)
    BY <1>5, <2>2, <2>3 DEF Stays, IsAdmin
  <2>6. b.username # "dartec"
    BY <1>5, <2>2 DEF Stays
  <2>7. b # NoAccount
    BY <2>4 DEF NoAccount
  <2> HIDE DEF b
  <2>8. t \in ActiveAdmins'
    BY <1>1, <2>4, <2>5, <2>6, <2>7 DEF ActiveAdmins, Existing, Exists, Kind, IsPanel, b
  <2> QED BY <2>8
<1> QED BY <1>2, <1>4, <1>5

\* My Home never takes from a home the last person who can manage it, however
\* two administrators demote, pause and remove each other at once.
THEOREM AdminKept == Spec => LastAdminKept
<1>1. Init => TypeInv /\ NamesInv /\ AdminInv
  BY TypeInit, NamesInit, AdminInit
<1>2. TypeInv /\ NamesInv /\ AdminInv /\ [Next]_vars => (TypeInv /\ NamesInv /\ AdminInv)'
  BY TypeStep, NamesNext, AdminNext
<1>3. TypeInv /\ AdminInv =>
        [(\E s \in Sessions : Change(s)) /\ ActiveAdmins # {}
           => ActiveAdmins' # {} \/ overtaken]_vars
  BY ChangeKeepsOne
<1> QED BY <1>1, <1>2, <1>3, PTL DEF Spec, LastAdminKept

\* A change that passed the rules is made in the name of somebody who still is an
\* administrator: RuleHolds and this hold until a command of the manager overtakes.
THEOREM ActorHolds == Spec => []ActorStillManages
<1>1. Init => TypeInv /\ NamesInv /\ AdminInv
  BY TypeInit, NamesInit, AdminInit
<1>2. TypeInv /\ NamesInv /\ AdminInv /\ [Next]_vars => (TypeInv /\ NamesInv /\ AdminInv)'
  BY TypeStep, NamesNext, AdminNext
<1>3. AdminInv => ActorStillManages
  BY DEF AdminInv
<1> QED BY <1>1, <1>2, <1>3, PTL DEF Spec

\* Everyone can sign in: the login a creation makes is its own until it is linked,
\* so no account loses its login to one that failed, and no two share one.
THEOREM LoginsHold == Spec => []LoginsKept
<1>1. Init => TypeInv /\ NamesInv
  BY TypeInit, NamesInit
<1>2. TypeInv /\ NamesInv /\ [Next]_vars => (TypeInv /\ NamesInv)'
  BY TypeStep, NamesNext
<1>3. NamesInv => LoginsKept
  BY DEF NamesInv
<1> QED BY <1>1, <1>2, <1>3, PTL DEF Spec

\* However creations fail, in My Home and from the manager: an account without a login
\* is being made, or a stop cut its making short, or what should have taken it back
\* out failed or was skipped; and the lock is held by whoever is at a change, also
\* after one that failed half way.
THEOREM NoneStaysHalfMade == Spec => []NoneHalfMade
<1>1. Init => TypeInv /\ NamesInv
  BY TypeInit, NamesInit
<1>2. TypeInv /\ NamesInv /\ [Next]_vars => (TypeInv /\ NamesInv)'
  BY TypeStep, NamesNext
<1>3. TypeInv /\ NamesInv => NoneHalfMade
  BY DEF TypeInv, OneHolder, NamesInv, Excused, NoneHalfMade, InChange, Creating
<1> QED BY <1>1, <1>2, <1>3, PTL DEF Spec


-----------------------------------------------------------------------------
(***************************************************************************)
(* Guests sign in at home.                                                 *)
(***************************************************************************)
LEMMA GuestInit ==
  ASSUME Init
  PROVE  GuestInv
<1>1. guests = {4} /\ stored = {4} /\ accounts[4].local
  BY FirstAccounts DEF Init
<1>2. Settled(guests) /\ Settled(stored)
  BY <1>1 DEF Settled
<1>3. \A s \in Sessions : WillSettle(s)
  <2>1. \A s \in Sessions : session[s].at = "idle" /\ session[s].kind = "none"
    BY DEF Init, Idle
  <2> QED BY <2>1 DEF WillSettle
<1> QED BY <1>2, <1>3 DEF GuestInv

\* A session that is at no change promises nothing.
LEMMA WillIdle ==
  ASSUME TypeInv', NEW s \in Sessions, session'[s].at \in {"idle", "waiting"}
  PROVE  WillSettle(s)'
<1>1. session'[s].kind = "none"
  BY DEF TypeInv, StagesFit, Fits
<1> QED BY <1>1 DEF WillSettle

\* What is promised of an account that is left alone, or only sent home.
LEMMA WillStep ==
  ASSUME NEW s \in Sessions, WillSettle(s), session'[s] = session[s],
         session[s].target \in Existing' =>
           /\ session[s].target \in Existing
           /\ \/ overtaken' /\ session[s].target \in disturbed'
              \/ /\ ~Altered(session[s].target)
                 /\ session[s].target \in guests' <=> session[s].target \in guests
                 /\ IsAdmin(accounts'[session[s].target]) <=> IsAdmin(accounts[session[s].target])
                 /\ accounts[session[s].target].local => accounts'[session[s].target].local
  PROVE  WillSettle(s)'
BY DEF WillSettle, Altered, Role

\* A step of whoever holds the lock: every account is left alone or in its hand.
LEMMA GuestMove ==
  ASSUME TypeInv, TypeInv', GuestInv, NEW s \in Sessions, Work(s), WillSettle(s)',
         UNCHANGED stored, disturbed \subseteq disturbed',
         \A i \in Existing' :
           \/ session'[s].at # "idle" /\ session'[s].target = i
           \/ i \in disturbed'
           \/ /\ i \in Existing /\ accounts'[i] = accounts[i] /\ (i \in guests' => i \in guests)
              /\ session[s].target # i
  PROVE  GuestInv'
<1>1. \A k \in Sessions \ {s} : session'[k] = session[k] /\ session[k].at \in {"idle", "waiting"}
                                /\ session[k].target = 0
  BY Alone DEF TypeInv, StagesFit, Fits
<1>2. \A k \in Sessions : WillSettle(k)'
  BY <1>1, WillIdle
<1>3. \A i \in Ids : InChange(i) => session[s].target = i
  BY <1>1 DEF InChange, Ids
<1>4. \A i \in Ids : session'[s].at # "idle" /\ session'[s].target = i => InChange(i)'
  BY DEF InChange
<1>5. Settled(guests)'
  BY <1>3, <1>4 DEF GuestInv, Settled, Existing
<1>6. Settled(stored)'
  BY <1>3, <1>4 DEF GuestInv, Settled, Existing
<1> QED BY <1>2, <1>5, <1>6 DEF GuestInv

LEMMA GuestChange ==
  ASSUME TypeInv, TypeInv', GuestInv, NEW s \in Sessions, Change(s) \/ NoteGuest(s)
  PROVE  GuestInv'
<1> DEFINE c == session[s]
           t == c.target
<1> USE DEF rest
<1>0. accounts \in [Ids -> AccountType \cup {NoAccount}] /\ Work(s) /\ WillSettle(s)
      /\ c.at \in Stages /\ t \in Ids /\ c.kind \in {"update", "remove", "create"}
  BY DEF TypeInv, Types, SessionType, Work, GuestInv, StagesFit, Fits, Change, ApplyUpdate,
         ApplyRemove, NoteGuest
<1>1. PICK stage \in Stages : Moves(s, stage) /\ stage \in {"changed", "noted"}
  BY DEF Change, ApplyUpdate, ApplyRemove, NoteGuest, Stages
<1>2. PICK d \in SessionType :
        /\ session' = [session EXCEPT ![s] = d] /\ d.at = stage
        /\ d.kind = c.kind /\ d.target = t /\ d.fields = c.fields /\ d.role = c.role
        /\ d.active = c.active /\ d.local = c.local
  BY <1>1, MovedTo
<1>3. session'[s] = d
  BY <1>2 DEF TypeInv, Types
<1>4. CASE ApplyUpdate(s)
  <2>1. /\ c.at = "checked" /\ c.kind = "update" /\ t \in Existing /\ stage = "changed"
        /\ UNCHANGED <<guests, stored, disturbed, overtaken>>
    BY <1>0, <1>1, <1>2, <1>3, <1>4 DEF ApplyUpdate, Existing, Moves, TypeInv, Types, SessionType
  <2>2. /\ \A k \in Existing' \ {t} : k \in Existing /\ accounts'[k] = accounts[k]
        /\ accounts'[t].group = IF "role" \in c.fields THEN RoleGroup[c.role]
                                ELSE accounts[t].group
        /\ accounts'[t].local = IF "local" \in c.fields THEN c.local ELSE accounts[t].local
        /\ accounts'[t].owner = accounts[t].owner
    BY <1>4, UpdatedAccount DEF Existing, Exists
  <2>3. ~Altered(t) /\ c.role = "guest" => accounts'[t].local
    BY <1>0, <2>1, <2>2 DEF WillSettle
  <2>4. ~Altered(t) /\ "role" \notin c.fields => Role(t) = c.role
    BY <1>0, <2>1 DEF WillSettle
  <2>5. "role" \notin c.fields => (IsAdmin(accounts'[t]) <=> IsAdmin(accounts[t]))
    BY <2>2 DEF IsAdmin
  <2>6. WillSettle(s)'
    BY <1>0, <1>2, <1>3, <2>1, <2>3, <2>4, <2>5 DEF WillSettle, Altered, Role
  <2> QED BY <1>0, <1>2, <1>3, <2>1, <2>2, <2>6, GuestMove
<1>5. CASE ApplyRemove(s)
  <2>1. /\ c.kind = "remove" /\ accounts' = [accounts EXCEPT ![t] = NoAccount]
        /\ UNCHANGED <<guests, stored, disturbed, overtaken>>
    BY <1>5 DEF ApplyRemove
  <2>2. t \notin Existing' /\ \A k \in Existing' : k # t /\ k \in Existing /\ accounts'[k] = accounts[k]
    BY <1>0, <2>1 DEF Existing, Exists
  <2>3. WillSettle(s)'
    BY <1>2, <1>3, <2>1, <2>2 DEF WillSettle
  <2> QED BY <1>0, <1>2, <1>3, <2>1, <2>2, <2>3, GuestMove
<1>6. CASE NoteGuest(s)
  <2>1. /\ c.at = "changed" /\ guests' = NotedGuests(c) /\ stage = "noted"
        /\ UNCHANGED <<accounts, stored, disturbed, overtaken>> /\ Existing' = Existing
    BY <1>0, <1>1, <1>2, <1>3, <1>6 DEF NoteGuest, Moves, TypeInv, Types, SessionType, Existing, Exists
  <2>2. \A k \in Existing : k # t /\ k \in guests' => k \in guests
    BY <2>1 DEF NotedGuests
  <2>3. t \in Existing /\ ~Altered(t) /\ t \in guests' /\ ~IsAdmin(accounts[t]) => accounts[t].local
    BY <1>0, <2>1 DEF WillSettle, NotedGuests, Role
  <2>4. WillSettle(s)'
    BY <1>0, <1>2, <1>3, <2>1, <2>3 DEF WillSettle, Altered
  <2> QED BY <1>0, <1>2, <1>3, <2>1, <2>2, <2>4, GuestMove
<1> QED BY <1>4, <1>5, <1>6 DEF Change

LEMMA GuestCreate ==
  ASSUME TypeInv, TypeInv', GuestInv, NEW s \in Sessions,
         MakeUser(s) \/ AddLogin(s) \/ LinkLogin(s) \/ CreateFails(s) \/ UndoLogin(s)
  PROVE  GuestInv'
<1> DEFINE c == session[s]
           t == c.target
<1> USE DEF rest, undisturbed
<1>0. accounts \in [Ids -> AccountType \cup {NoAccount}] /\ Work(s) /\ WillSettle(s)
      /\ c \in SessionType /\ session \in [Sessions -> SessionType] /\ Fits(c)
      /\ UNCHANGED <<guests, stored, disturbed, overtaken>>
  BY DEF TypeInv, Types, Work, GuestInv, StagesFit, MakeUser, AddLogin, LinkLogin, CreateFails,
         UndoLogin
<1>1. c.kind = "create"
  BY <1>0 DEF MakeUser, AddLogin, LinkLogin, CreateFails, UndoLogin, Fits, Creating
<1>2. CASE MakeUser(s)
  <2>1. /\ c.at = "checked" /\ t = 0 /\ session'[s].at = "made" /\ session'[s].target = nextId
        /\ session'[s].role = c.role /\ session'[s].local = c.local /\ session'[s].kind = "create"
    BY <1>0, <1>1, <1>2 DEF MakeUser, SessionType, Fits
  <2>2. nextId \in Ids
    BY <1>0, <2>1 DEF TypeInv, StagesFit, Fits, Creating
  <2>3. accounts'[nextId].local = c.local
        /\ \A i \in Existing' : i = nextId \/ (i \in Existing /\ accounts'[i] = accounts[i] /\ i # 0)
    BY <1>0, <1>2, <2>2 DEF MakeUser, Existing, Exists, Ids
  <2>4. c.role = "guest" => c.local
    BY <1>0, <1>1 DEF WillSettle
  <2>5. WillSettle(s)'
    BY <2>1, <2>3, <2>4 DEF WillSettle
  <2> QED BY <1>0, <2>1, <2>3, <2>5, GuestMove
<1>3. CASE AddLogin(s) \/ LinkLogin(s) \/ CreateFails(s) \/ UndoLogin(s)
  <2>1. /\ c.at \in {"made", "login", "undo"}
        /\ session'[s].at \in {"login", "changed", "undo", "undoUser"}
        /\ session'[s].target = t /\ session'[s].kind = "create"
        /\ session'[s].role = c.role /\ session'[s].local = c.local
    BY <1>0, <1>1, <1>3 DEF AddLogin, LinkLogin, CreateFails, UndoLogin, Moves, SessionType
  <2>2. session'[s].at \in {"login", "changed"} => c.at \in {"made", "login"}
    BY <1>0, <1>3 DEF AddLogin, LinkLogin, CreateFails, UndoLogin, Moves, SessionType
  <2>3. t \in Ids /\ \A i \in Ids \ {t} : accounts'[i] = accounts[i]
    BY <1>0, <1>3, <2>1 DEF AddLogin, LinkLogin, CreateFails, UndoLogin, Fits
  <2>4. accounts'[t].local = accounts[t].local /\ (t \in Existing' => t \in Existing)
    BY <1>0, <1>3, <2>3 DEF AddLogin, LinkLogin, CreateFails, UndoLogin, Existing, Exists, AccountType
  <2>5. WillSettle(s)'
    BY <1>0, <1>1, <2>1, <2>2, <2>4 DEF WillSettle, Altered
  <2> QED BY <1>0, <2>1, <2>3, <2>5, GuestMove DEF Existing, Exists
<1> QED BY <1>2, <1>3

LEMMA GuestEnd ==
  ASSUME TypeInv, TypeInv', GuestInv, NEW s \in Sessions,
         Vanished(s) \/ UndoUser(s) \/ UndoUserFails(s) \/ Answer(s)
  PROVE  GuestInv'
<1> DEFINE c == session[s]
           t == c.target
<1> USE DEF rest, undisturbed
<1>0. accounts \in [Ids -> AccountType \cup {NoAccount}] /\ Work(s) /\ WillSettle(s)
      /\ session \in [Sessions -> SessionType] /\ session' = [session EXCEPT ![s] = Idle]
  BY DEF TypeInv, Types, Work, GuestInv, Vanished, UndoUser, UndoUserFails, Answer
<1>1. session'[s].at = "idle" /\ WillSettle(s)'
  BY <1>0, Constants, WillIdle
<1>2. CASE Vanished(s) \/ UndoUser(s)
  <2>1. \A i \in Existing' : i \in Existing /\ accounts'[i] = accounts[i] /\ i # t
    BY <1>0, <1>2 DEF Vanished, UndoUser, Existing, Exists
  <2> QED BY <1>0, <1>1, <1>2, <2>1, GuestMove DEF Vanished, UndoUser
<1>4. CASE UndoUserFails(s)
  <2>1. /\ UNCHANGED <<accounts, guests, stored>> /\ Existing' = Existing
        /\ disturbed' = disturbed \cup {t}
    BY <1>4 DEF UndoUserFails, Existing, Exists
  <2> QED BY <1>0, <1>1, <2>1, GuestMove
<1>3. CASE Answer(s)
  <2>1. /\ c.at = "noted" /\ stored' = guests /\ guests' = guests \cap Existing
        /\ UNCHANGED <<accounts, overtaken>> /\ Existing' = Existing
        /\ disturbed' = disturbed \
             {i \in {t} \cap Existing : ~overtaken /\ accounts[i].username # "none"}
    BY <1>3 DEF Answer, Save, Existing, Exists
  <2>2. \A k \in Sessions \ {s} : session'[k] = session[k] /\ session[k].target = 0
                                  /\ session[k].at \in {"idle", "waiting"}
    BY <1>0, Alone DEF TypeInv, StagesFit, Fits
  <2>3. \A i \in Ids : InChange(i) => i = t
    BY <2>2 DEF InChange, Ids
  <2>4. \A i \in Existing : /\ i \in guests /\ ~IsAdmin(accounts[i]) /\ i \notin disturbed'
                            => accounts[i].local
    <3>1. \A i \in Existing \ {t} : /\ i \in guests /\ ~IsAdmin(accounts[i]) /\ i \notin disturbed'
                                    => accounts[i].local
      BY <2>1, <2>3 DEF GuestInv, Settled, Existing
    <3>2. t \in Existing /\ t \in guests /\ ~IsAdmin(accounts[t]) /\ t \notin disturbed'
            => accounts[t].local
      BY <1>0, <2>1 DEF WillSettle, Altered
    <3> QED BY <3>1, <3>2
  <2>5. Settled(guests)' /\ Settled(stored)'
    BY <2>1, <2>4 DEF Settled
  <2>6. \A k \in Sessions : WillSettle(k)'
    BY <1>1, <2>2, WillIdle
  <2> QED BY <2>5, <2>6 DEF GuestInv
<1> QED BY <1>2, <1>3, <1>4


\* Nobody leaves a change, and what changes of an account is disturbed or sent home.
LEMMA GuestStep ==
  ASSUME TypeInv, TypeInv', GuestInv, UNCHANGED session, disturbed \subseteq disturbed',
         overtaken => overtaken',
         \A X \in {guests', stored'} : X \subseteq guests \/ X \subseteq stored,
         \A i \in Existing' :
           \/ i \notin guests' \cup stored' /\ \A s \in Sessions : session[s].target # i
           \/ /\ i \in Existing /\ i \in disturbed'
              /\ overtaken' \/ \A s \in Sessions : session[s].at \in {"idle", "waiting"}
           \/ /\ i \in Existing /\ (i \in guests' <=> i \in guests)
              /\ IsAdmin(accounts'[i]) <=> IsAdmin(accounts[i])
              /\ accounts[i].local => accounts'[i].local
  PROVE  GuestInv'
<1>1. \A i \in Ids : InChange(i)' <=> InChange(i)
  BY DEF InChange
<1>2. ASSUME NEW X, NEW Y, X \subseteq Y, Settled(Y), X \in {guests', stored'}
      PROVE  \A i \in Existing' : i \in X /\ ~IsAdmin(accounts'[i]) /\ ~InChange(i)'
                                     /\ i \notin disturbed' => accounts'[i].local
  BY <1>1, <1>2 DEF Settled, Existing
<1>3. Settled(guests)'
  BY <1>2 DEF GuestInv, Settled
<1>4. Settled(stored)'
  BY <1>2 DEF GuestInv, Settled
<1>5. ASSUME NEW s \in Sessions PROVE WillSettle(s)'
  <2>1. CASE session[s].at \in {"idle", "waiting"}
    BY <2>1, WillIdle
  <2>2. CASE session[s].at \notin {"idle", "waiting"} /\ Altered(session[s].target)
    <3>1. overtaken' /\ session[s].target \in disturbed'
      BY <2>2 DEF Altered
    <3>2. session[s].target \in Existing' => session[s].target \in Existing
      BY <2>2 DEF Altered
    <3> QED BY <3>1, <3>2, WillStep DEF GuestInv
  <2>3. CASE session[s].at \notin {"idle", "waiting"} /\ ~Altered(session[s].target)
    BY <2>3, WillStep DEF GuestInv, Altered
  <2> QED BY <2>1, <2>2, <2>3
<1> QED BY <1>3, <1>4, <1>5 DEF GuestInv

LEMMA GuestAsk ==
  ASSUME TypeInv, TypeInv', GuestInv, NEW s \in Sessions, Ask(s) \/ Check(s) \/ Refuse(s)
  PROVE  GuestInv'
<1> USE DEF undisturbed, rest
<1>0. /\ session \in [Sessions -> SessionType] /\ session[s].at \in {"idle", "waiting"}
      /\ session[s].target = 0 /\ UNCHANGED <<accounts, guests, stored, disturbed>>
      /\ Existing' = Existing
  BY DEF TypeInv, Types, StagesFit, Fits, Ask, Check, Refuse, Begin, Existing, Exists
<1>1. \A k \in Sessions \ {s} : session'[k] = session[k]
  BY <1>0 DEF Ask, Check, Refuse, Begin
<1>2. \A i \in Ids : InChange(i) => InChange(i)'
  BY <1>0, <1>1 DEF InChange, Ids
<1>3. Settled(guests)' /\ Settled(stored)'
  BY <1>0, <1>2 DEF GuestInv, Settled, Existing
<1>4. CASE Ask(s) \/ Refuse(s)
  <2>1. session'[s].at \in {"idle", "waiting"} /\ UNCHANGED overtaken
    BY <1>0, <1>4, Constants DEF Ask, Refuse, SessionType
  <2>2. WillSettle(s)'
    BY <2>1, WillIdle
  <2>3. ASSUME NEW k \in Sessions \ {s} PROVE WillSettle(k)'
    BY <1>0, <1>1, <2>1, WillStep DEF GuestInv, Altered
  <2> QED BY <1>3, <2>2, <2>3 DEF GuestInv
<1>5. CASE Check(s)
  <2>1. PICK c \in SessionType : session' = [session EXCEPT ![s] = c] /\ Prepared(s, c)
    BY <1>5, Checked
  <2>2. session'[s] = c /\ lock = 0
    BY <1>0, <1>5, <2>1, Checked
  <2>3. WillSettle(s)'
    <3>1. /\ c.at = "checked" /\ (c.kind \in {"update", "create"} /\ c.role = "guest" => c.local)
          /\ c.kind = "update" /\ "local" \notin c.fields => c.local = accounts[c.target].local
          /\ c.kind = "update" /\ "role" \notin c.fields => c.role = Role(c.target)
      BY <2>1 DEF Prepared
    <3>2. Role(c.target)' = Role(c.target)
      BY <1>0, <2>2 DEF Role
    <3> QED BY <1>0, <2>2, <3>1 DEF WillSettle, Role
  <2>4. \A k \in Sessions : session[k].at \in {"idle", "waiting"}
    BY <2>2 DEF TypeInv, OneHolder, Sessions
  <2>5. \A k \in Sessions \ {s} : WillSettle(k)'
    BY <1>1, <2>4, WillIdle
  <2> QED BY <1>3, <2>3, <2>5 DEF GuestInv
<1> QED BY <1>4, <1>5

LEMMA GuestManage ==
  ASSUME TypeInv, TypeInv', GuestInv,
         Manage \/ Look \/ Reload \/ UNCHANGED vars \/ \E s \in Sessions : OtherChange(s)
  PROVE  GuestInv'
<1>0. accounts \in [Ids -> AccountType \cup {NoAccount}]
  BY DEF TypeInv, Types
<1>1. CASE CommandLeaves \/ Look \/ Reload \/ UNCHANGED vars \/ \E s \in Sessions : OtherChange(s)
  <2>1. /\ UNCHANGED <<accounts, session, overtaken>> /\ disturbed \subseteq disturbed'
        /\ guests' = guests \/ guests' = guests \cap Existing
        /\ stored' \in {stored, guests}
    BY <1>1 DEF CommandLeaves, Look, Reload, OtherChange, Save, vars
  <2>2. Existing' = Existing
    BY <2>1 DEF Existing, Exists
  <2> QED BY <2>1, <2>2, GuestStep
<1>2. ASSUME NEW name \in NewNames \cup PanelNames, NEW group \in {"users", "admin"},
             NEW local \in BOOLEAN, CommandMakes(name, group, local)
      PROVE  GuestInv'
  <2>1. UNCHANGED <<guests, stored, session, disturbed, overtaken>>
        /\ \A i \in Existing' : i = nextId \/ (i \in Existing /\ accounts'[i] = accounts[i])
    BY <1>0, <1>2 DEF CommandMakes, Existing, Exists
  <2>2. nextId \notin guests \cup stored /\ \A s \in Sessions : session[s].target # nextId
    BY DEF TypeInv, Types, IdsFit, SessionType
  <2> QED BY <2>1, <2>2, GuestStep
<1>3. CASE CommandAddsLogin \/ CommandLoginFails \/ CommandUndoes
  <2>a. UNCHANGED <<guests, stored, session, disturbed>> /\ (overtaken => overtaken')
    <3>1. CASE CommandUndoes
      BY <3>1 DEF CommandUndoes, Overtakes
    <3>2. CASE CommandAddsLogin \/ CommandLoginFails
      BY <3>2 DEF CommandAddsLogin, CommandLoginFails
    <3> QED BY <1>3, <3>1, <3>2
  <2>b. manager.at \in {"made", "undo"}
    BY <1>3 DEF CommandAddsLogin, CommandLoginFails, CommandUndoes
  <2>1. /\ UNCHANGED <<guests, stored, session, disturbed>> /\ (overtaken => overtaken')
        /\ manager.target \in Ids
    BY <2>a, <2>b DEF TypeInv, StagesFit
  <2>2. \/ UNCHANGED accounts \/ accounts' = [accounts EXCEPT ![manager.target] = NoAccount]
        \/ /\ accounts' = [accounts EXCEPT ![manager.target].username = manager.name]
           /\ Exists(manager.target)
    BY <1>3 DEF CommandAddsLogin, CommandLoginFails, CommandUndoes
  <2>3. \A i \in Existing' : /\ i \in Existing /\ accounts'[i].owner = accounts[i].owner
                             /\ accounts'[i].group = accounts[i].group
                             /\ accounts'[i].local = accounts[i].local
    BY <1>0, <2>1, <2>2 DEF Existing, Exists, AccountType
  <2> QED BY <2>1, <2>3, GuestStep DEF IsAdmin
<1>4. ASSUME NEW i \in Ids, NEW a, CommandUpdates(i, a) PROVE GuestInv'
  <2>1. /\ UNCHANGED <<guests, stored, session>> /\ disturbed' = disturbed \cup {i}
        /\ overtaken' = (overtaken \/ lock # 0) /\ i \in Existing
        /\ \A k \in Existing' \ {i} : k \in Existing /\ accounts'[k] = accounts[k]
    BY <1>0, <1>4 DEF CommandUpdates, Overtakes, Existing, Exists
  <2>2. lock = 0 => \A s \in Sessions : session[s].at \in {"idle", "waiting"}
    BY DEF TypeInv, OneHolder, Sessions
  <2>3. overtaken' \/ \A s \in Sessions : session[s].at \in {"idle", "waiting"}
    BY <2>1, <2>2
  <2>4. overtaken => overtaken'
    BY <2>1
  <2> QED BY <2>1, <2>3, <2>4, GuestStep
<1>5. ASSUME NEW i \in Ids, CommandDeletes(i) PROVE GuestInv'
  <2>1. /\ UNCHANGED <<guests, stored, session, disturbed>> /\ (overtaken => overtaken')
        /\ \A k \in Existing' : k \in Existing /\ accounts'[k] = accounts[k]
    BY <1>0, <1>5 DEF CommandDeletes, Overtakes, Existing, Exists
  <2> QED BY <2>1, GuestStep
<1>6. ASSUME NEW i \in Ids, CommandRefreshes(i) PROVE GuestInv'
  <2>1. /\ UNCHANGED <<guests, stored, session, disturbed, overtaken>> /\ i \in Existing
        /\ accounts[i] \in AccountType /\ ~IsAdmin(accounts[i])
        /\ \A k \in Existing' \ {i} : k \in Existing /\ accounts'[k] = accounts[k]
    BY <1>0, <1>6 DEF CommandRefreshes, Existing, Exists, IsPanel
  <2>2. /\ accounts'[i].owner = accounts[i].owner /\ accounts'[i].group = "users"
        /\ accounts'[i].local
    BY <1>0, <1>6, <2>1 DEF CommandRefreshes, AccountType
  <2>3. ~IsAdmin(accounts'[i])
    BY <2>1, <2>2 DEF IsAdmin
  <2> QED BY <2>1, <2>2, <2>3, GuestStep
<1> QED BY NamesAssumption, <1>1, <1>2, <1>3, <1>4, <1>5, <1>6 DEF Manage

LEMMA GuestRestart ==
  ASSUME TypeInv, TypeInv', GuestInv, Restart
  PROVE  GuestInv'
<1>1. /\ UNCHANGED <<accounts, stored>> /\ guests' = stored /\ Existing' = Existing
      /\ disturbed' = (disturbed \cup Cut \cup {manager.target}) \ {0}
      /\ \A s \in Sessions : session'[s].at = "idle"
  BY Constants DEF Restart, Existing, Exists
<1>2. \A i \in Ids : InChange(i) \/ i \in disturbed => i \in disturbed'
  BY <1>1 DEF InChange, Cut, Ids
<1>3. Settled(guests)' /\ Settled(stored)'
  BY <1>1, <1>2 DEF GuestInv, Settled, Existing
<1> QED BY <1>1, <1>3, WillIdle DEF GuestInv

LEMMA GuestNext ==
  ASSUME TypeInv, GuestInv, [Next]_vars
  PROVE  GuestInv'
<1>1. TypeInv'
  BY TypeStep
<1>2. ASSUME NEW s \in Sessions, Work(s) PROVE GuestInv'
  BY <1>1, <1>2, GuestChange, GuestCreate, GuestEnd DEF Work
<1> QED BY <1>1, <1>2, GuestAsk, GuestManage, GuestRestart DEF Next

\* Who is labelled a guest can sign in at home only, in memory and after a restart,
\* until the manager or a stop in the middle interferes: every change in hand will
\* settle its account (WillSettle) before the lock is free again.
THEOREM GuestsHold == Spec => []GuestsAtHome
<1>1. Init => TypeInv /\ GuestInv
  BY TypeInit, GuestInit
<1>2. TypeInv /\ GuestInv /\ [Next]_vars => (TypeInv /\ GuestInv)'
  BY TypeStep, GuestNext
<1>3. GuestInv => GuestsAtHome
  BY DEF GuestInv, Settled, GuestsAtHome, Role
<1> QED BY <1>1, <1>2, <1>3, PTL DEF Spec
=============================================================================
