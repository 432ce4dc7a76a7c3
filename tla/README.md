# A verification development for the Dartec HA Manager agent

The repository is a Home Assistant custom integration
(`custom_components/dartec_ha_manager`). It runs inside a customer's home,
dials out to a management server, sends a snapshot every minute and carries out
the commands the server sends, within what the home allows. This directory
holds TLA+ models of it: what each part keeps, what it does step by step, and
what must hold however the steps interleave. TLC checks the models on small
instances; TLAPS proves theorems about them for every value of the constants.

## 1. The system

One process (Home Assistant) with one event loop. Everything below runs on that
loop, so a step is what happens between two `await`s, and everything can
interleave at each `await`. The process can stop at any moment: memory goes,
the Store files and the config entry stay.

| Part | Source | State it keeps | Operations | What is hard | What makes it correct |
| --- | --- | --- | --- | --- | --- |
| Set-up and unload of the entry | `__init__.py` | the order of set-up | start the parts, in order; take them down | a reload under running work; commands before set-up has finished | no work is lost or doubled by a reload |
| Guarded updates | `ha_update.py` | the job and history, in memory and in a Store file; a driver task | accept, back up, update, check, roll back, restore, resume | the update stops the process that runs it; lost answers; refused calls; resumes | one job at a time; backup first; nothing sent twice; the outcome on disk is true; every job ends |
| Consent | `maintenance.py`, `switch.py`, `service_policy.py`, `config_flow.py` | a window (memory, timer), commissioning (entry options, timer), a standing opt-in (entry options) | open, close, request, expire, complete, re-arm; gates on commands | three grants that overlap, expiry timers re-armed from options, forms that save stale options, a grant read once and used after awaits | a sensitive command runs only under a grant; the manager can end grants and never make one; the switch says what is so |
| Commands | `commands.py`, `service_policy.py` | a log | gates in order, dispatch to a handler | order of the gates; a retired name; targets named indirectly | nothing passes a gate it should not |
| Cloud link | `cloud_link.py` | connection, backoff, two events, a reader and a sender task | connect, authenticate, send, read, reconnect, stop | two tasks on one socket, lost wake-ups and nudges, a bad token | reconnects while it should; every answer goes with its command; after a command a fresh snapshot |
| Internet watch | `internet_watch.py` | the open outage and past ones, in a Store | probe rounds, restore | restarts in the middle of an outage; the link against the probe | each outage is kept once, with its ends in order |
| My Home | `household.py`, `household_ws.py` | people, credentials, settings | list, create, update, password, remove, dashboard, language | two people at once; steps that fail half way; other writers of the same accounts | never without an administrator; nobody exceeds their role |
| Users and room panels | `user_cmds.py`, `panel_cmds.py`, `panels.py`, `user_prefs.py`, `ws_bridge.py` | Home Assistant accounts | create, update, password, delete, set up, refresh, remove | half-made accounts; the same accounts from My Home | panels stay panels; a half-made account is taken back out |
| HACS | `hacs_cmds.py`, `hacs_token.py`, `home_cmds.py` | the token in HACS's entry; one installation at a time | install, set token, roll back, update the agent | reading the old token and writing the new one around long awaits | the token that worked before is there again after a failure |
| Dartec Link, tunnel | `link_cmds.py`, `tunnel_cmds.py`, `trust.py` | an add-on and its options | install, configure, start, stop; remove the old tunnel | consent that ends during the installation; a store that fails after it answered | a home whose consent ended during the waits is not enrolled; "joined" is true |
| Backups | `backup_cmds.py` | backups | create, upload, delete, schedule | a long upload; media in a backup | a backup with media never leaves |
| Privacy and media | `privacy.py`, `media_guard.py` | a secret | pseudonyms both ways; strip media | the filter read at one moment and used at another, twice for a command | no name and no picture leaves |
| Versions and policy | `version.py`, `service_policy.py` | nothing | compare, classify, validate | odd version strings | comparison is an order where both parse, and never claims more |
| Health sections | `collector.py` and the `*_health.py`, `machine.py`, `mesh.py`, `ha_facts.py`, `registry_*.py` | caches | collect, classify, count, page | one bad section among many | one failing section costs itself only; counts agree with rows |
| Appearance and content | `branding.py`, `arabic_states.py`, `lovelace_cmds.py`, `blueprint_cmds.py`, `media_cmds.py`, `helper_cmds.py`, `integration_cmds.py`, `registry_cmds.py` | files, dashboards, registries | install, create, update, restore | partial installation | what is restored is what was there |
| Browser side | `www/` | a page | panel and branding scripts | | outside TLC's use |

The manager (the server), the Supervisor, Home Assistant itself and HACS are
outside the repository. They are modelled from how the code uses them and
marked external.

## 2. The modules

| Module | Models | Kind |
| --- | --- | --- |
| `UpdatePromise` | what a guarded update promises a home | abstract specification |
| `GuardedUpdate` | `ha_update.py` with set-up, handler, driver, disk, Supervisor, stops | state machine, implements `UpdatePromise` |
| `UpdateReport` | the same with the snapshots that report the job | composition |
| `GuardedUpdate_proofs` | type correctness; nothing is sent twice | proofs |
| `GuardedUpdate_disk_proofs` | what is under way is noted on disk | proofs |
| `GuardedUpdate_control_proofs` | who is at work on a job; one at a time, always driven, told in order | proofs |
| `GuardedUpdate_promise_proofs` | backups, ways back, outcomes; `GuardedUpdate` implements `UpdatePromise` | proofs |
| `Consent` | `maintenance.py`, `switch.py` and the options form, with the life of the entry | state machine |
| `Consent_proofs` | type correctness; the deadline is never invalid; only the home grants; the switch is honest | proofs |
| `InternetWatch` | `internet_watch.py`: the record of outages and the loop | state machine, without a `Next` of its own |
| `CloudLink` | `cloud_link.py`, composed with `InternetWatch` and with a manager, a server and a line | composition |
| `CloudLink_proofs` | the record of outages is a history, with restarts marked | proofs |
| `Household` | `household_ws.py` with the rules of `household.py`, and the account commands of `user_cmds.py` and `panel_cmds.py` beside it | state machine |
| `Household_proofs` | the lock, the last administrator, logins, guests | proofs |
| `Versions` | `version.py`, and the versions of `service_policy.py` | operators, with a reference definition |
| `HacsToken` | `hacs_token.py`: a swap of HACS's token, its rollback and its waits | state machine |
| `HacsInstall` | `hacs_cmds.py` and `agent_update`: when a download is an upgrade | state machine, extends `Versions` |
| `DartecLink` | `link_cmds.py` and `tunnel_cmds.py` against the Supervisor | state machine |
| `Backups` | `backup_cmds.py`, with the token of `ws_bridge.py` an upload works under | state machine |
| `IntegrationSetup` | `integration_setup`: a config flow walked through or abandoned | state machine |
| `Gates` | `execute_command`'s gates and the rules of `service_policy.py` on services and targets | state machine |
| `Inventory` | snapshots, answers, the filter of `privacy.py`, the pages and the digest of `registry_paging.py` | state machine |
| `Errands` | the seven before, one kind of command at a time | composition |
| `Errands_proofs` | thirteen theorems about the commands | proofs |

The `.cfg` files are named `<module>_<run>.cfg`. Each module states its
properties at its end, and `GuardedUpdate` and `Consent` their type invariant. A definition whose comment begins with
"Variant" or "Mutant" is not part of the model: it is what the definition after
it would be with a plausible mistake, and the property it is meant to break is
seen to break when it is put in the other's place.

### 2.1 GuardedUpdate

A job takes a backup, asks the Supervisor for an exact version, checks the home
and goes back when the home is unhealthy. The update stops the process that
asked for it, so the job is in a Store file, and the set-up of the entry finds
it there and goes on.

| State | Code |
| --- | --- |
| `sp` | `async_setup_entry` before, in and after `ha_update.async_setup` |
| `cur`, `jobs`, `hist` | `hass.data`'s job and history. `jobs` holds every job object somebody in the process still holds, because the driver keeps the one it was started with while `hass.data` may hold another; the rest go when a job is accepted |
| `disk` | the Store's file |
| `pc`, `drv` | the driver task: the `await` it is at, the job it holds |
| `hpc`, `req` | the command handler, `_start` |
| `inst`, `spare`, `op`, `backups` | the Supervisor: the versions running, the OS slot not booted, the operation under way, what each backup holds (external) |
| `sent` | an observation: how often each call was made for each job, over all restarts |

| Action | Code |
| --- | --- |
| `SetupLoad`, `SetupSaved` | `async_setup`, on either side of its save |
| `HandleStart` ... `HandleSaved` | `_start`: the busy check, the questions, the job in memory, the job on disk and the task |
| `Dispatch`, `GiveUp`, `StepSaved` | the loop of `_drive`, with `_step` on either side of its save |
| `BackupMade`, `BackupConfirmed`, `BackupFailed` | `_backing_up` |
| `NoteSent`, `SentSaved`, `Send` | `_updating`, `_rolling_back` and `_restoring` up to the call: note, save, call |
| `Answered`, `NoAnswer`, `Refused`, `WaitRanOut`, `AfterRefusal` | what comes back from the call, and `_wait_to_be_stopped` |
| `Judge`, `Unexpected` | the second half of the steps, `check_health`, and `_drive`'s last `except` |
| `Reload`, `Restart`, `Apply` | the entry is reloaded; the process stops by itself; the process stops because of the operation |

Versions are numbers; whether one is newer is `<`. What `check_health` looks at
(entities, integrations, the log) is one answer, with the one thing that other
state decides: it reads the version again, and the home is healthy only on the
version expected. The wording of a job, its timestamps and its progress are left
out. Three constants are switches for what the environment may do:

- `EarlyCommands`: a command may arrive before set-up has read the job.
  `__init__.py:71` starts the link ten lines before `:81` reads the file. It is
  TRUE for what holds anyway (`update_adverse`) and for the run that shows what
  does not (`update_early`).
- `SlowDisk`: a save may take longer than the questions a handler asks of the
  Supervisor. It is a file of a few kilobytes against network calls and a
  configuration check, so the main run takes it as FALSE.
- `LateLanding`: an operation may take effect after its caller stopped waiting.
  With it, `OutcomeTrue` does not hold: an update that lands after its wait of
  twenty minutes contradicts the outcome given. The code's comment
  (`ha_update.py:491-497`) accepts that.

### 2.2 UpdateReport

Adds snapshots to `GuardedUpdate`: a snapshot may be taken at any moment the
link is up, and shows the job in memory and the history. `told` is the first
outcome the manager saw of each job. It starts (`ReportInit`) in a home whose
first job has failed and has not been reported yet, which is a state the machine
reaches by itself: one more job then follows, is reported, or pushes the first
out of a full history, without the run having to go through both.

### 2.3 Consent

| State | Code |
| --- | --- |
| `phase` | how far `async_setup_entry` and `async_unload_entry` have come |
| `window`, `windowTimer` | `hass.data`'s window, and its `async_call_later` |
| `options`, `commTimer` | the entry's options (standing opt-in, guarded updates, length, deadline, completion), and commissioning's timer |
| `form` | an options form that somebody has open |
| `switch` | the state the support switch last wrote |
| `missed` | an observation: something changed between the switch's first state and the timer that would redraw it |

The gate never looks at a timer: it compares deadlines with the clock
(`consent`, `commissioning`). The timers only redraw the switch. Both are in the
model because the home's owner reads the switch. An administrator, an automation
of the home and a resident are the three callers of a service
(`require_admin`). The form is shown and sent in two actions, with everything
else able to happen in between. What commands do with the answer is in `Gates`,
and in `DartecLink`, whose `link_setup` asks a second time (`consent_ended`).

The support switch shows the window and commissioning. The standing opt-in is an
option of its own, which `strings.json` and `src/README.md` describe as working
without the switch; `SwitchHonest` leaves it out for that reason.

A unit of the clock stands for any length of time. Lengths are small numbers,
`Grace` is the five minutes `commissioning` allows a clock.

### 2.4 InternetWatch and CloudLink

`InternetWatch` holds `InternetState` (`watch`), what is stored (`stored`), the
loop, the clock and the line. `Round` is one pass of the loop, with `observe`
and, when the state changed, a save that ends with `RoundSaved` and its signals.
`CloudLink` extends it: a round asks whether the link is up, and a round that
finds the line back wakes the link and asks for a snapshot.

| State | Code |
| --- | --- |
| `link` | where `_run` is; `rejected` and `ended` are its two ways to stop by itself |
| `socket` | the connection, which may be cut without the home having noticed |
| `wake`, `nudge` | the two `asyncio.Event`s |
| `sender`, `reader` | the two tasks of `_snapshot_loop`, each with the snapshot it collected and has yet to send |
| `inbox` | commands on the socket |
| `home` | how often the home has changed: what a snapshot is about |
| `manager` | what the manager has seen (external) |

Abstractions: the length of a wait is left out, so a timer may end at any
moment; a round of the check is one moment of the clock; pruning by age is left
out and pruning by number is kept; names are not in the snapshot, and the filter
that hides them is in `Inventory`; `collect_snapshot` does not raise; a command is one
change of the home or a refusal. `Calm` bounds the disturbances: from that moment
the line does not fail, the server does not close and no more restarts come.

### 2.5 Household

The same accounts have two writers. My Home's commands run under one lock, from
the reading of the users to the answer; the manager's take none.

| State | Code |
| --- | --- |
| `accounts`, `logins` | Home Assistant's users and the usernames its login provider holds (external, and kept over a restart) |
| `guests`, `stored` | `HouseholdStore.guests`, in memory and in its file |
| `lock`, `session` | `_mutation_lock`, and the command each of two administrators is at |
| `manager` | the account command the link is at |
| `disturbed`, `overtaken` | observations: whose change a stop or a failed undoing cut short, or the manager overrode; whether the manager changed accounts while the lock was held |

| Action | Code |
| --- | --- |
| `Ask`, `Check`, `Refuse` | `require_admin` and `_gate`; with the lock, the users read and the rules applied |
| `ApplyUpdate`, `ApplyRemove`, `Vanished` | the change of `_update` and `_remove`, or the account is gone and the command fails |
| `MakeUser`, `AddLogin`, `LinkLogin`, `CreateFails`, `UndoLogin`, `UndoUser`, `UndoUserFails` | `_create`, and taking back what it made: that the login stays is passed over, that the user stays raises |
| `NoteGuest`, `Answer` | the set of guests, then the file and the answer |
| `OtherChange`, `Look` | the commands without the lock that save or tidy the same set |
| `CommandMakes` ... `CommandUndoes`, `CommandLeaves`, `CommandUpdates`, `CommandDeletes`, `CommandRefreshes` | `user_create`, `user_update`, `user_delete`, `panel_setup`, `panel_remove` |
| `Reload`, `Restart` | the command at hand is cancelled; Home Assistant stops |

An account is its username, its group, whether it is the owner's, active, and
allowed in from outside. A rename is a change that changes nothing else. Left
out: passwords, persons, dashboards and languages, Home Assistant's own settings
as a third writer, its read-only group, and a file that fails to be written. The
lock covers My Home only, so the properties leave out a change that the manager
overtook (`overtaken`): what My Home promises is about My Home. `NoneHalfMade` is
about both writers. It does not say that a creation that failed is always taken
back: the code cannot promise that, since the undoing can fail (`UndoUserFails`,
`CommandLeaves`; section 6). It says that nothing else leaves half an account
behind, on all the ways a creation can fail beside another writer's steps.

### 2.6 Errands: the commands that keep nothing between them

The reader of the link carries out one command at a time, and the commands of
this section share no state: one kind touches nothing of another's. So each kind
has a module with its own variables, its `Init`s and `Next`, and `Errands` is
their composition. A behaviour takes up the commands of one kind (`errand`),
chosen at the start, with everything that can happen beside them; the other
parts stand still, in one of their initial states (`Still`).

| Module | State | Actions |
| --- | --- | --- |
| `HacsToken` | `hacs`, HACS's config entry; `busy`, its queue; `swap`, the command; `reply` | `HacsTokenSet` up to the first `await`; `Verified`, GitHub's answer and the look at HACS; `Unloaded`, `SetUp`, `WaitedLoaded`, `WaitRanOut` with `_apply` on either side of its awaits, `Failed` for the way back; `TokenCut`; and what the household and HACS do |
| `HacsInstall` | `repo`, what HACS lists, records and has indexed, the files, the version running; `job`, the command | `Install`, `Found`, `Added`, `Polled`, `Refreshed`, `Relooked`, `Downloaded`, `Confirmed`: one per call to HACS, `Decide` being the guard on downgrades; `DownloadTimesOut`, `LandsLate`; `Restarted` |
| `DartecLink` | `addon`, as the Supervisor has it; `consent`; `call`, `answer` | one action per call to the Supervisor, which answers, refuses or raises; `Enrol`, where consent is asked for again; `ConsentEnds`, `ConsentReturns`, and the household starting, removing or installing the add-on, or the add-on dying, between two of them |
| `Backups` | `home`, the backups and the automatic ones' settings; `task`; `offsite`, the stored copies; `tokens` | `Located`, `Generated`, `Placed`, `SettingsRead`, `Set`, `Detailed`, `Minted`, `Chunk`, `StreamFails`, `Stored`, `BackupCut` |
| `IntegrationSetup` | `flow`, Home Assistant's; `setup`, the command | `IntegrationSetUp`, `FlowStarted`, `Stepped`, `StepRefused`, `FlowLost`, `Abandoned`: the turns of the loop, by the kind of what the flow shows |
| `Gates` | `grants`, the homeowner's side, with the ids of the two own switches and what a group or scene holds; `order`, the command that runs or is refused | `OpenCommand`, `RetiredCommand`, `CallService`, `GuardedCommand`, `OtherCommand`, in the order of `execute_command` |
| `Inventory` | `place`, who lives there and the registry; `snap`, the snapshot being collected; `query`, the command; `copy`, the manager's | `SnapshotBegins`, `SectionRead`, `SnapshotSent`; `FetchPage`; the commands on rooms, entities and accounts, item by item; `QueryAnswered`, with the names before and after |
| `Versions` | none; `compared` in `Errands` | |

Some things are observations and guide no step: `swap.wrote`, `verified` and
`meddled`; `overtaken` in a job and a task; `call.touched`, and `call.ended` (consent
ended while the set-up waited, and has stayed so); `order.acts` (what Home
Assistant acts on); `task.blind` (the
details came back without a backup in them); `snap.standing` (the names that were
the household's from the first section on).

What stands for what. A token is a model value and the rest of HACS's entry a
number that every other change raises. A version is the numbers it begins with
and those of its suffix, because nothing else is compared; a commit and a branch
are versions of which the parser makes what it makes of them. A backup is its
folders and its size in chunks, and says 0 where Home Assistant does not say. A
service is its domain and name, a payload the ids it names, however they are
written, and whether it names anything indirectly (an area, a device, a floor, a
label). What a service then acts on (`ActsOn`) is Home Assistant's: everything,
where a service that takes a target is given none, an area or the wildcard. Home
Assistant acts on a lamp, a group or scene of the household, and the home's two
controls over Dartec (`switch.py:69`): the switch for support and the one for
approved updates. `Switched` is what turning them does, so a call that gets past
the checks moves the grants in the model as it would in the home. A text is a name or not, shown or as the id that stands for it;
the ways a name can be found inside a longer text are left out, and names of
fewer than three letters, which the filter leaves too (`privacy.py:171`). A row of
the registry has its room's id beside the room's name; the digest is taken of the
fields of `DIGEST_FIELDS`, which has the name only. Pages are those of entities:
the pages of devices, where the chips count another field than the filter compares
(`registry_paging.py:111-126`), the text search and the status filter are left out.

## 3. The runs

| Run | Module | Shows | Bounds |
| --- | --- | --- | --- |
| `update_core` | `GuardedUpdate` | the outcome on disk is true, no update without a backup of the right version, one job at a time, an unfinished job is always driven; and the whole machine implements `UpdatePromise` | two jobs of either kind, two versions, one outside stop, one resume |
| `update_adverse` | `GuardedUpdate` | with early commands, slow writes and late landings: no call is made twice, what is under way is noted on disk, the history is in order, a way back only goes back | two OS jobs, one outside stop |
| `update_live` | `UpdateReport` | an accepted job ends, and every outcome reaches a snapshot | a job that failed before, one Core job after it, two outside stops, a history of two |
| `update_early` | `GuardedUpdate` | finding: a command that comes before the job is read displaces it | |
| `consent_gate` | `Consent` | access begins, and comes to last longer, only when a window is opened or the form saved in the home; a deadline is never invalid; the switch tells the truth or is about to | a clock of four, windows of one or two, commissioning of one to three |
| `link` | `CloudLink` | the link comes back, the record of outages is a history with restarts marked, every outage reaches the manager, and so does the home as it is | a clock of eight, disturbances before five, outages after two failed rounds, two kept, one command, one other change, one restart |
| `link_dead` | `CloudLink` | finding: a connection lost before `auth_ok` ends the link | |
| `link_outage` | `CloudLink` | finding: an outage that is never recorded | |
| `household` | `Household` | My Home never takes the last administrator; who was removed a moment ago changes nothing; no login is lost or shared; a guest signs in at home only; no account is left without a login but by a stop or an undoing that failed | two administrators, a guest, a panel and the support account; three events: at most two commands of My Home, one of the manager, one stop; one username, which both sides ask for |
| `household_panel` | `Household` | finding: an administrator becomes a panel | |
| `errands` | `Errands` | a swap of HACS's token says what became of HACS and writes no token that was not accepted; no quiet downgrade; "joined" is said of an add-on that runs with the new key, and a home that ended its consent during the waits is not enrolled; an upload takes no media along that it could know of, keeps its limit and leaves no token; a schedule keeps the household's folders; a config flow is not left open; a service acts on what it named, what runs is what the grants let through, and no command makes a grant or turns a control back on; no message shows a name that stood all the while; a copy with the home's digest is the home's in every field the digest reads; pages add up; versions compare as versions do | two commands of a kind (of the gates, any number); two things that others do to HACS's entry, one to everything else; versions of up to two numbers out of 0, 1 and 2; two entities, two rooms that may share a name, two names of which one is an ordinary word |
| `hacs_equal` | `Errands` | finding: a beta is downloaded over the release it leads to | as `errands` |

Why the bounds are enough. Two jobs are what it takes for one to displace,
follow or be taken for another; the properties never relate three. Two versions
give an upgrade, and a third would only be one that nobody asked for; reading no
version (`NoVersion`) stands for it in the verdicts. A kind that a run asks no
update of stays at one version (`Unstarted`): only its slot matters. One outside stop on top of
the stop that each operation brings puts two stops into one job. `MaxResumes = 1`
lets a job give up inside that. In `Consent`, a clock of four lets a window end
and another begin within a commissioning that is shortened, lengthened,
restarted or completed. In `CloudLink`, a clock of eight and two failed rounds
per outage give two outages that end, so that the list is in use and its order
says something. In `Household`, the properties relate one change to one other:
two commands of My Home, or one and the manager's, or one and a stop, or a
change, a command and a reload that cancels it. With two administrators a
single pair of changes can leave the home without one. In `Errands`, every
property relates one command to what is done beside it, and to what a command
before it left behind: two commands and one change by others, two where the
change can come both before and after the command's own write. Two entities fill
two pages of one row. Two numbers and a suffix are what it takes for "1.2", "1.2.0"
and "1.2b3" to differ; `Compare` runs through all pairs, with a third for
transitivity.

`CHECK_DEADLOCK FALSE` appears in `Consent_gate.cfg`, whose clock stops at
`MaxTime`, in the two of `Household` and the two of `Errands`, where
everybody may have done what they came for. In a home nothing has to happen.

## 4. Fairness

- `GuardedUpdate`, and `UpdateReport` on top of it: weak fairness of the set-up, the driver, the Supervisor and
  the handler's last save. The event loop runs what is ready; every call to the
  Supervisor carries a timeout and so does the wait after it; Home Assistant's
  supervisor starts it again. No command, reload or outside stop has to happen.
- `UpdateReport`: strong fairness of `Snapshot` in addition, because a reload can
  disable it again and again: the first thing a session does is to send one.
- `Errands` and `Household`: none. Their properties are safety; each call has a
  timeout in the code, which is one of its outcomes here.
- `Consent`: weak fairness of the two timers, and of nothing else. Nobody has to
  touch anything for the switch to catch up.
- `CloudLink`: weak fairness of the tasks of the home and of the boot. The line
  need not come back, the manager need not ask. What is promised of a line that
  stays down is nothing: `Reachable` is the premise of the three liveness
  properties. It also leaves out a link whose task has ended, for a rejected
  token or in the way `link_dead` shows.

## 5. What is proved

tlapm checks the following for every value of the constants that meets the named
assumptions. Most of them say that numbers are numbers, that switches are
Booleans, or that one set is inside another. Four say more: `WatchAssumption` has
at least two failed rounds make an outage (the code's number is two; with one, an
outage at the moment the clock stops would end where it starts), the registry has
finitely many entities, a home has a room, and two releases are out when a
behaviour of `HacsInstall` begins.

**`TypeCorrect`** (`GuardedUpdate_proofs`): `Spec => []TypeOK`. `TypeOK` is not
inductive: an action that changes `jobs[drv]` needs to know that `drv` is a job.
`TypeInv` adds that job 0 stays no job in memory and on disk, that a live driver
holds a real job, that every number in use was given out, and that the driver
notes a call only in a step that makes one.

**`NothingSentTwice`**: `Spec => []SentOnce`, with early commands, slow writes and
late landings allowed and any number of jobs, restarts and reloads. Each process
knows only what it read from disk, so the argument is about copies of a job:
`CallInv` says that every copy, on disk or in memory, accounts for every call
ever made for that job (a copy in a state before a step, or in the step without
its note, means that the step's call was never made), that the driver's place
fits its job, and that at the moment of a call the copy on disk is the driver's.
`SaveCalls` and `StepCalls` are the two ways a copy changes.

**`NotedBeforeSent`** (`GuardedUpdate_disk_proofs`): `Spec => []SentIsOnDisk`, for
any values of the switches too. The property is about the copy on disk, which any
save of any copy replaces, so `NoteInv` says it of every copy: each notes the step
of every call made for its job. `_step` is what clears a note, and `CallInv` is
needed there: the call of the step that is entered was never made.

The remaining theorems about updates assume `Calm`: set-up reads the file before a
command comes, a write is over before the questions of the next command are, and
an operation nobody waits for does not land. It is the premise of the run
`update_core`; without its first part, `update_early` shows
`NeverDisplaced` violated. Their argument is in two parts.

*Control* (`GuardedUpdate_control_proofs`). `ControlInv` says that the driver's job
is the one in `hass.data` and on the file and is alive there (`DriverAlone`), that
no command is asking while a job is active or accepted under a live driver
(`HandlerApart`), that set-up saves only what nobody drives (`SetupApart`), and how
the file may lag behind memory (`FileKnown`, `Unsaved`). `AtWork` draws from it
that a driver between two saves is alone; `WorkControl` is then one proof for
nearly all of its actions.

*Data* (`GuardedUpdate_promise_proofs`). `DataInv` says what every copy of the job
claims of the home (`Sound`): before the backup the version is still the old one,
from the update on there is a backup with the version to go back to, and an
outcome is true. It is inductive because a version moves only while the driver
waits for an operation (`Operating`), where the copy on file is the one in memory
and in a state that claims nothing of what is installed (`MovedVersion`).

| Theorem | Property | From |
| --- | --- | --- |
| `JobsAreDriven` | `AlwaysDriven` | `ControlInv` |
| `OneAtATime` | `NeverDisplaced` | `ControlInv`: only four actions save, each knowing the file |
| `HistoryIsTold` | `HistoryTold` | `HistoryInv`: a job that is alive is newer than all in its history, in memory and on the file; `RememberHistory` is the list's side |
| `UpdatesAreBackedUp` | `BackedUp` | `DataInv` |
| `RollbacksGoBack` | `OnlyGoesBack` | `DataInv`: `Ready` keeps the other slot's version until the call |
| `OutcomesAreTrue` | `OutcomeTrue` | `DataInv` |
| `PromiseKept` | `KeepsPromise` | both: a save opens a job (`SavedAlive`), closes it (`SavedEnded`) or is a stutter; a backup secures it; an operation that lands is a move |

**`ConsentTyped`**, **`DeadlineNeverInvalid`**, **`OnlyTheHomeGrants`**
(`Consent_proofs`). `NeverInvalid` allows the grace, and is not inductive, since
the form moves a deadline by the difference of two lengths. `Within` is: a
running period ends within the home's own length from now. `OnlyTheHomeGrants`
shows, action by action, that a step that makes access begin or end later is the
opening of a window or the saving of the form in the home; `NoMore` does it once for all the steps that leave the
deadline, the length and the opt-in alone.

**`SwitchIsHonest`** (`Consent_proofs`): `Spec => []SwitchHonest`. A switch that
was drawn before access changed is excused only by a timer that is due, so the
invariant (`HonestInv`) has to say that the timers are there: `Armed` is that
an open window has a timer set for its end, and so has commissioning while the
entry listens for changes of its options. Each step then either draws
the switch (`Drawn`), leaves what it shows alone, or makes a timer due.

**`CloudLink_proofs`**. `RecordIsHistory` and `RestartsAreMarked` are about the
watch, but are proved of the whole composition, where stops, reloads and the line
reach it. The list of outages is only in order because an outage that opens now
is later than all that ended. It is opened with the start of the first failed
round, `watch.failed` rounds ago, so `LoopInv` says that the rounds that failed
in a row came after the last outage on record ended. `ClockInv` says that the clock stands while the home is off (so a start is
later than everything stored), `RecordInv` says the same of the copy in memory and
of the one in the file, whichever is loaded next.

**`Household_proofs`**. `TypeInv` has the lock in it (`OneHolder`: who is past the
check holds it), that there are ids for the accounts to come, and what a command
has in hand at each stage. On it rest:

| Theorem | Property | Invariant, and why it is needed |
| --- | --- | --- |
| `AdminKept` | `LastAdminKept` | `AdminInv`: what `_keep_an_admin` found when it looked (`RuleHolds`) is still so at the change, because the lock keeps out the other session and the manager sets `overtaken` |
| `ActorHolds` | `ActorStillManages` | the same |
| `LoginsHold` | `LoginsKept` | `NamesInv`: a login that a creation made belongs to nobody else until it is linked or taken back (`LoginHeld`) |
| `NoneStaysHalfMade` | `NoneHalfMade` | `NamesInv`: an account without a login is one whose creation is under way, was cut short, or could not be taken back (`Excused`); `InChange` of the property is too weak to be kept. With it, that the lock is free after every failure (`OneHolder`) |
| `GuestsHold` | `GuestsAtHome` | `GuestInv`: the rule holds of the set in memory and of the one in the file (`Settled`), and what a change in hand will make of both fits together (`WillSettle`) |

**`Errands_proofs`**. A behaviour of `Errands` takes the steps of one part, and
for the others that step is a stutter (`OnePart`), so each theorem is proved of
its part's `Next` with an invariant of the part:

| Theorem | Property | Invariant, and why it is needed |
| --- | --- | --- |
| `SwapsAreTrue` | `SwapTruthful` | `TokenInv`: what is under way has been accepted (`Safe`), and what waits for HACS has written what HACS is to load, forwards or back (`UnderWay`); an answer is only made from there |
| `UploadsAreSafe` | `UploadSafe` | `BackupInv`: the media rule is decided when the details are read and has to hold until the copy is stored, unless they came back empty (`Vetted`); the limit is counted chunk by chunk (`WithinLimit`); there is a token exactly while streaming (`TokenLife`) |
| `FoldersAreKept` | `FoldersKept` | `FoldersInv`: what is about to be written is what was read, unless the household chose meanwhile |
| `JoinsAreTrue` | `JoinedTruly` | `LinkInv`: which setup's key the add-on holds and runs with, at every place the command can be |
| `ConsentIsObeyed` | `ConsentObeyed` | `KeyInv`: until consent was asked for again the add-on has a key of an earlier set-up, and once it was, `ended` cannot be said any more; what can raise, fail or be skipped before it goes through `KeyWaits` |
| `FlowsEnd` | `FlowEnds` | `FlowInv`: a flow is open only while the command is at it |
| `NoCommandGrants` | `NeverGrantsItself` | `GrantsShape`; the rest is about the policy: a service that turns a switch on takes a target, what it acts on is then what it names (`GrantsStep`), and that is none of the controls whose id is known (`ControlSpared`) |
| `CommandsRunAsAllowed` | `RunsAsAllowed` | the same; `TiersApart`, `CallAllowed` and `CommandAllowed` go through the lists of the policy |
| `NothingQuietlyOlder` | `NoQuietDowngrade` | `InstallInv`: what is about to be fetched is not older than the floor, and the floor not older than what HACS has recorded (`Compared`), and there is no floor only where nothing is recorded or run (`Uncompared`), while the index moves on and others act beside it. `OlderChain` joins the two. The releases have to be published in order (`OldestFirst`); they may have suffixes |
| `NamesStayHome` | `StandingNamesHidden` | `SnapInv`, `QueryInv`: a name that has stood since the first section is the household's when the filter is read (for an answer, at the first reading or the second) |
| `CopiesAreTheHome` | `CopyIsHome` | `CopyInv`: what has been copied is the first rows of the inventory its digest was taken of, since a page of another digest starts anew; whose inventory that is, in the fields of the digest (`FactsOf`), follows from the digest |
| `InventoryPages` | `InventoryPagesAddUp` | `PlaceTypes`. Every row has a rank, the number of rows before it (`RankBelow`), and is on the page its rank falls into (`OnPage`): from this `PagesPartition` |
| `VersionsAreOrdered` | `VersionsCompare` | none, the operands are any texts; `FirstDifference` gives the place where two versions part, and `LessOrder` that the order is strict and total between versions of different value |

Most invariants begin with a conjunct that says which fields a record has
(`TaskShape`, `SwapShape`, ...): the provers need it to know what a change of one
field leaves alone.

Only model-checked: of `GuardedUpdate`, `HistoryTold` and `OnlyGoesBack` where the
install is not `Calm`, which the run `update_adverse` checks and the theorems
leave out. Out of the prover's reach: liveness under
fairness (`EveryJobEnds`, `EveryOutcomeTold`, `SwitchCatchesUp`, `LinkReturns`,
`EveryOutageTold`, `ManagerCatchesUp`), since that takes ENABLED.

## 6. Where the code and what is said of it differ

Shown by a run:

- `link_dead`: `cloud_link.py:6-7` says the link "reconnects with exponential
  backoff on any failure". A socket that is closed between being connected and
  the reply to the login makes `receive_json` raise `TypeError`, which `_run`
  does not catch (`:88`). Its task ends and nothing starts another until the
  entry is reloaded. (What aiohttp raises is known from aiohttp, which is not in
  this repository.)
- `link_outage`: `internet_watch.py:22` says each outage is kept. One that was
  open when the link came up between two failed rounds, and went again, is
  overwritten by the next (`:121`).
- `update_early`: `ha_update.py:323` refuses a second job as busy. A command that
  arrives between `link.start()` and the reading of the job finds none.
- `hacs_equal`: `version.py:20-22` says that a beta compares equal to its release,
  and that equal means "do not act". It does where they are written with as many
  numbers: `is_older` fills up with zeros and the test for "already up to date"
  does not (`hacs_cmds.py:254`). Over "2", a release "2.0b1" is not older and not
  the same, and is downloaded without `allow_downgrade`.
- `household_panel`: `panels.py:29-33` says that a person must never read as a
  panel, since panels are changed and removed without the home's consent. The
  manager may create an administrator with such a username, and an administrator
  in My Home may then demote that person, who is a panel from then on.

Seen while reading, not shown by a run:

- Somebody paused while their command waits for the lock is not refused:
  `check_actor` does not look at `is_active` (`household.py:239-243`).
  `_fresh_actor` speaks of "someone removed a moment ago", and that holds.
- The manager's account commands take no lock, which is said to be for "every
  change that can alter who manages the home" (`household_ws.py:108-110`): a
  demotion that the manager makes between My Home's check and its change can
  leave no administrator.
- An account half made by the manager with the administrators' group counts as
  an administrator in `_keep_an_admin` until it is taken back out. `overtaken`
  excepts it.
- A reload or a stop between the two calls of `user_create` leaves an account
  without a login (`user_cmds.py:80-98`). `NoneHalfMade` excepts it by
  `disturbed`.
- So does an undoing that does not come about, while nothing stops: the result of
  the delete is not looked at (`user_cmds.py:95`, which still answers "(user rolled
  back)", and `panel_cmds.py:256`); a login call that raises skips it
  (`user_cmds.py:89`, `panel_cmds.py:252`); and in My Home `async_remove_user` may
  raise (`household_ws.py:469`). `NoneHalfMade` excepts these by `disturbed` too.
  A login that could not be taken back (`household_ws.py:464-468`) keeps its
  username with nobody to use it.
- The support switch keeps its first state when options are saved, or a deadline
  passes, between its own set-up and the timer's (`__init__.py:58-69`).
  `SwitchHonest` excepts it by name, with `missed`.
- An options form opened before guarded updates were switched off saves them as
  on (`config_flow.py:174-189`).
- Of the long commands only `link_setup` asks for consent again; `hacs_install`
  (`hacs_cmds.py:166`), for one, does not. `docs/trust-boundary.md:94-97` reads as
  though commands do. In `link_setup` the answer, the call that hands over the key
  and the start are separated by awaits (`link_cmds.py:282`, `:285`, `:292`):
  consent that ends between them stops nothing. `ConsentObeyed` is about what comes
  before.
- A reload while a finished job is being written leaves a new job without a
  driver until the next set-up (`ha_update.py:386-389`): with `SlowDisk` only.
- A job that restarted too often ends as `failed`, whose words are "nothing
  changed", also when the version moved (`ha_update.py:243`, `:405`).
  `OutcomeTrue` leaves such a job out, and `UpdatePromise` calls it "given_up".
- A snapshot may show an outcome before it is on disk (`ha_update.py:248-249`).
- `wake` is cleared after a failed attempt, so a line that came back during it is
  waited for as long as the backoff lasts (`cloud_link.py:92`).
- An older snapshot of the sender can follow the fresh one of the reader
  (`cloud_link.py:130`, `:166-169`). `ManagerCatchesUp` shows that it is put
  right by the next.
- An exception in the sender ends it, and the session goes on without periodic
  snapshots (`cloud_link.py:129`).

Seen while modelling the commands of `Errands`. The properties except what they
have to, and their comments say so:

- HACS's token. The data to go back to, and to write with the new token in it, is
  read before GitHub is asked (`hacs_token.py:271`); an option of HACS that was
  changed during the wait is put back to what it was, though "only the token
  changes" (`:26-33`). A swap cut short between unload and set-up, by a reload of
  the agent, leaves HACS unloaded and says nothing.
- Installations. `hacs_cmds.py:23-26` says that a remote `hacs_install` needs a
  version like any other; with `only_if_missing` the latest is taken without one.
  A commit that HACS recorded does not compare, and hides the version that the
  agent itself runs from the guard on downgrades. A branch or a hash that begins
  with a digit is taken for a version. A download whose answer was late may land
  afterwards. When the last look fails, the version from before is reported.
- `agent_update` passes the version running where a comment of `hacs_cmds.py`
  speaks of the one read off the disk.
- `backup/details` that comes back without a backup counts as one without media
  (`backup_cmds.py`, the upload). `UploadSafe` excepts it by `blind`. A stop of Home
  Assistant during a call leaves the owner's token that `ws_bridge.py` minted.
- The add-on. If its state cannot be read, it is started, which leaves a running
  one on its old key; the answer is "joined" (`link_cmds.py:291-315`). An update
  of the add-on that raises ends the set-up, although its failure is called not
  fatal.
- The home's own switches. `switch.py:16-18` says that only the home turns them on.
  While the registry cannot be read, `_own_entity_ids` knows the one id of
  `commands.py:294`, which is the support switch's: under consent a command can
  then turn `switch.dartec_approved_updates` back on, or a support switch that was
  renamed. Groups and scenes are not looked into: one that the household made and
  that holds a control can be called by its own id. `Guarded` excepts both.
- A config flow that is done on exactly the last step allowed is answered as
  unfinished; a call that raises, instead of being refused, leaves the flow open.
- From "1.2b3" to "1.2" is refused as not newer (`service_policy.py:354-368`).
- `recorder.purge_entities` needs no target, and takes the wildcard.
- `registry_paging.py:34-35` says the digest tells "whether the full list it holds
  is still the home's list". It leaves the area's id out, on which the manager keys
  since two areas can share a name (`collector.py:265-268`): when rooms of one name
  are exchanged the digest stays, and the copy is stale. `CopyIsHome` speaks of the
  fields of the digest; of all fields TLC finds it violated.
- A name that is forgotten or changed while a snapshot is collected is sent as it
  is, and an id whose name is gone is written into the home as it is.

## 7. What is not modelled

PROJECT.json lists every part with its status and what of it is left out. What
would come next: an abstract specification of My Home (one change at a time
against the people as they are) that `Household` implements.

Left out for good, and why:

- the sections of the snapshot (`collector.py`, `*_health.py`, `machine.py`,
  `mesh.py`, `ha_facts.py`): each reads the state of the home or its host and
  counts; there is no protocol between them beyond one failing alone, which
  `SectionRead` has;
- how names are found in a text (`privacy.py`) and how pictures are taken out of
  nested data (`media_guard.py`): rewriting of text by patterns, whose model would
  be as long as the code;
- `branding.py`, `arabic_states.py` and the content commands: they write files, or
  make one call and report its result;
- `enrolment.py`: one request before there is an entry;
- `__init__.py` as a module of its own: its order is in the modules of the parts
  it starts;
- `const.py`, the manifest and the strings, which are data, and the browser side.
