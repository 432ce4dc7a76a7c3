------------------------------- MODULE Consent -------------------------------
(***************************************************************************)
(* The home's consent to sensitive operations (maintenance.py, switch.py,  *)
(* config_flow.py). Three grants overlap: a window in memory, a            *)
(* commissioning period and a standing opt-in in the entry's options. The  *)
(* gate compares deadlines with the clock; timers only make the homeowner's*)
(* switch redraw. Administrators grant, anyone in the house may take away, *)
(* and the manager may end commissioning. (What a command does with the    *)
(* answer is in Gates, and in DartecLink where one asks again.)            *)
(***************************************************************************)
EXTENDS Integers

CONSTANTS
  MaxTime,     \* bound of the clock
  Minutes,     \* lengths of a window
  Days,        \* lengths of commissioning the options form may set
  DefaultDays, \* COMMISSIONING_DAYS
  Grace        \* the five minutes commissioning() allows a deadline

ASSUME TimesAssumption == /\ MaxTime \in Nat /\ Grace \in Nat
                          /\ Minutes \subseteq Nat /\ Days \subseteq Nat
                          /\ DefaultDays \in Nat

Users == {"admin", "automation", "resident"}

NoTime == -1   \* no deadline, no timer: before every time of the clock

NoForm == [shown |-> FALSE, standing |-> FALSE, guarded |-> TRUE, days |-> 0]

VARIABLES
  now,          \* the clock
  phase,        \* of the entry: "stopped", "unloaded", "registered", "added",
                \* "up" or "removing"
  window,       \* _STATE_KEY: the end of the window, in memory
  windowTimer,  \* when _expired of the window is due
  commTimer,    \* when _expired of commissioning is due
  options,      \* the entry's options, on disk
  form,         \* an options form on somebody's screen, as it was rendered
  switch,       \* what the support switch last wrote: "on", "off" or "none"
  missed        \* observation: the switch could not have heard of a change

vars == <<now, phase, window, windowTimer, commTimer, options, form, switch, missed>>

-----------------------------------------------------------------------------
(***************************************************************************)
(* The gate.                                                               *)
(***************************************************************************)

IsOpen == window > now

\* commissioning()["state"].
CommState ==
  IF options.until = NoTime                            THEN "none"
  ELSE IF options.completed                            THEN "complete"
  ELSE IF options.until <= now                         THEN "expired"
  ELSE IF options.until > now + options.days + Grace   THEN "invalid"
  ELSE "open"

\* consent(): the three ways to say yes.
Allowed == IsOpen \/ options.standing \/ CommState = "open"

\* switch_state()["on"]: the standing opt-in is not part of it.
SwitchOn == IsOpen \/ CommState = "open"

\* The state the switch writes, when it is there to write one.
Drawn ==
  IF phase \notin {"added", "up"} THEN "none"
  ELSE IF SwitchOn THEN "on" ELSE "off"

\* schedule_commissioning_expiry: the timer that stands after it.
Rearmed == IF CommState = "open" THEN options.until ELSE NoTime

\* async_options_updated is attached from the end of set-up to the unload.
Listening == phase \in {"up", "removing"}

\* The options change: they are saved, the listener re-arms the timer and
\* signals the switch. Nothing happens when they are the same.
Saved(new) ==
  /\ options' = new
  /\ IF Listening /\ new # options
     THEN commTimer' = Rearmed' /\ switch' = Drawn'
     ELSE UNCHANGED <<commTimer, switch>>

-----------------------------------------------------------------------------
(***************************************************************************)
(* The people of the house.                                                *)
(***************************************************************************)

\* require_admin: an administrator, or a call of Home Assistant itself.
MayGrant(user) == user \in {"admin", "automation"}

HasServices == phase \in {"registered", "added", "up", "removing"}

\* open_window, from the service or the switch.
OpenWindow(user, minutes) ==
  /\ HasServices
  /\ MayGrant(user)
  /\ window' = now + minutes
  /\ windowTimer' = now + minutes
  /\ UNCHANGED <<now, phase, commTimer, options, form>>
  /\ switch' = Drawn'

\* Variant: the timer of the closed window is left.
CloseWindowUncancelled ==
  /\ HasServices
  /\ window' = NoTime
  /\ UNCHANGED <<now, phase, windowTimer, commTimer, options, form>>
  /\ switch' = Drawn'

\* close_window: the end_maintenance service, open to anyone.
CloseWindow ==
  /\ HasServices
  /\ window' = NoTime /\ windowTimer' = NoTime
  /\ UNCHANGED <<now, phase, commTimer, options, form>>
  /\ switch' = Drawn'

\* complete_commissioning as it changes the options: only an open period is
\* closed, and the deadline stays.
Completed == [options EXCEPT !.completed = CommState = "open" \/ @]

\* complete_commissioning ends with the timer gone and a signal; on a home
\* that is not commissioning it changes nothing.
Complete ==
  /\ CommState = "open"
  /\ options' = Completed
  /\ commTimer' = NoTime
  /\ switch' = Drawn'

CompleteHere ==
  /\ HasServices
  /\ UNCHANGED <<now, phase, window, windowTimer, form>>
  /\ Complete

\* MaintenanceSwitch.async_turn_off: the window and commissioning both end.
SwitchOff ==
  /\ phase \in {"added", "up"}
  /\ window' = NoTime /\ windowTimer' = NoTime
  /\ options' = Completed
  /\ commTimer' = IF CommState = "open" THEN NoTime ELSE commTimer
  /\ UNCHANGED <<now, phase, form>>
  /\ switch' = Drawn'

\* GuardedUpdatesSwitch: off is anyone's, on is an administrator's.
TurnGuarded(user, value) ==
  /\ phase \in {"added", "up"}
  /\ value => MayGrant(user)
  /\ value # options.guarded
  /\ UNCHANGED <<now, phase, window, windowTimer, form>>
  /\ Saved([options EXCEPT !.guarded = value])

-----------------------------------------------------------------------------
(***************************************************************************)
(* The options form, which only an administrator is shown.                 *)
(***************************************************************************)

\* Variant: a new length is added to the deadline instead of replacing the old.
AppliedOnTop(opts, days, restart) ==
  [opts EXCEPT !.days = days,
               !.until = IF restart THEN now + days
                         ELSE IF days # opts.days THEN @ + days ELSE @,
               !.completed = @ /\ ~restart]

\* apply_commissioning_options: a restart begins a period now; a new length
\* moves the deadline of a running period and of no other.
Applied(opts, days, restart) ==
  LET running == opts.until # NoTime /\ ~opts.completed /\ opts.until > now
  IN  IF restart
      THEN [opts EXCEPT !.days = days, !.until = now + days, !.completed = FALSE]
      ELSE IF running
      THEN [opts EXCEPT !.days = days, !.until = (@ - opts.days) + days]
      ELSE [opts EXCEPT !.days = days]

ShowForm ==
  /\ phase # "stopped"
  /\ ~form.shown
  /\ form' = [shown |-> TRUE, standing |-> options.standing,
              guarded |-> options.guarded, days |-> options.days]
  /\ UNCHANGED <<now, phase, window, windowTimer, commTimer, options, switch>>

\* The form comes back with every field, the ones nobody touched as they were
\* rendered, and all of them are saved over the options of now.
SubmitForm(standing, guarded, days, restart) ==
  /\ phase # "stopped"
  /\ form.shown
  /\ UNCHANGED <<now, phase, window, windowTimer>>
  /\ Saved(Applied([options EXCEPT !.standing = standing, !.guarded = guarded],
                   days, restart))
  /\ form' = NoForm

-----------------------------------------------------------------------------
(***************************************************************************)
(* The manager, over the link: it runs from the end of set-up until the    *)
(* end of the unload, and may end commissioning.                           *)
(***************************************************************************)
CompleteByManager ==
  /\ Listening
  /\ UNCHANGED <<now, phase, window, windowTimer, form>>
  /\ Complete

-----------------------------------------------------------------------------
(***************************************************************************)
(* The clock, the timers, and the life of the entry.                       *)
(***************************************************************************)
Tick ==
  /\ now < MaxTime
  /\ now' = now + 1
  /\ UNCHANGED <<phase, window, windowTimer, commTimer, options, form, switch>>

\* Variant: the timer closes nothing and says nothing.
WindowExpiresSilently ==
  /\ windowTimer # NoTime /\ windowTimer <= now
  /\ windowTimer' = NoTime
  /\ UNCHANGED <<now, phase, window, commTimer, options, form, switch>>

\* _expired of _schedule_expiry.
WindowExpires ==
  /\ windowTimer # NoTime /\ windowTimer <= now
  /\ windowTimer' = NoTime
  /\ switch' = IF IsOpen THEN switch ELSE Drawn
  /\ UNCHANGED <<now, phase, window, commTimer, options, form>>

\* _expired of schedule_commissioning_expiry.
CommissioningExpires ==
  /\ commTimer # NoTime /\ commTimer <= now
  /\ commTimer' = NoTime
  /\ switch' = Drawn
  /\ UNCHANGED <<now, phase, window, windowTimer, options, form>>

\* async_setup_entry up to the services.
Register ==
  /\ phase \in {"stopped", "unloaded"}
  /\ phase' = "registered"
  /\ UNCHANGED <<now, window, windowTimer, commTimer, options, form, switch>>

\* The switch platform is set up: the switch writes its first state.
AddSwitches ==
  /\ phase = "registered"
  /\ phase' = "added"
  /\ UNCHANGED <<now, window, windowTimer, commTimer, options, form>>
  /\ switch' = Drawn'

\* Variant: the timer of commissioning is not put back after a restart.
SetUpUnarmed ==
  /\ phase = "added"
  /\ phase' = "up"
  /\ UNCHANGED <<now, window, windowTimer, commTimer, options, form, switch>>

\* Variant: a home paired before there was a commissioning period is given one.
SetUpStartsPeriod ==
  /\ phase = "added"
  /\ phase' = "up"
  /\ options' = [options EXCEPT !.until = IF @ = NoTime THEN now + options.days ELSE @]
  /\ UNCHANGED <<now, window, windowTimer, form, switch>>
  /\ commTimer' = Rearmed'

\* After My Home is set up: the timer is armed, the listener and the link.
SetUp ==
  /\ phase = "added"
  /\ phase' = "up"
  /\ commTimer' = Rearmed
  /\ UNCHANGED <<now, window, windowTimer, options, form, switch>>

\* async_unload_entry: the switches go first,
RemoveSwitches ==
  /\ phase = "up"
  /\ phase' = "removing"
  /\ switch' = "none"
  /\ UNCHANGED <<now, window, windowTimer, commTimer, options, form>>

\* then async_unregister_services closes the window, and the link stops.
Unload ==
  /\ phase = "removing"
  /\ phase' = "unloaded"
  /\ window' = NoTime /\ windowTimer' = NoTime /\ commTimer' = NoTime
  /\ UNCHANGED <<now, options, form, switch>>

\* The process stops: what is in memory is gone.
Stop ==
  /\ phase # "stopped"
  /\ phase' = "stopped"
  /\ window' = NoTime /\ windowTimer' = NoTime /\ commTimer' = NoTime
  /\ form' = NoForm /\ switch' = "none"
  /\ UNCHANGED <<now, options>>

-----------------------------------------------------------------------------
\* A home just paired (config_flow.py), or paired before there was a
\* commissioning period.
Init ==
  /\ now = 0
  /\ phase = "unloaded"
  /\ window = NoTime /\ windowTimer = NoTime /\ commTimer = NoTime
  /\ options \in [until : {NoTime, DefaultDays}, completed : {FALSE},
                  standing : {FALSE}, guarded : {TRUE}, days : {DefaultDays}]
  /\ form = NoForm
  /\ switch = "none"
  /\ missed = FALSE

\* What an administrator may do to give more.
Grant ==
  \/ \E user \in Users \ {"resident"}, minutes \in Minutes : OpenWindow(user, minutes)
  \/ \E standing, guarded, restart \in BOOLEAN, days \in Days \cup {form.days} :
       SubmitForm(standing, guarded, days, restart)

House ==
  \/ \E user \in Users, minutes \in Minutes : OpenWindow(user, minutes)
  \/ CloseWindow
  \/ CompleteHere
  \/ SwitchOff
  \/ \E user \in Users, value \in BOOLEAN : TurnGuarded(user, value)
  \/ ShowForm
  \/ \E standing, guarded, restart \in BOOLEAN, days \in Days \cup {form.days} :
       SubmitForm(standing, guarded, days, restart)

Timers == WindowExpires \/ CommissioningExpires

Entry == Register \/ AddSwitches \/ SetUp \/ RemoveSwitches \/ Unload \/ Stop

\* Between the switch and its timer set-up awaits My Home: what changes there
\* is neither armed nor heard, and the switch keeps what it wrote.
Observed ==
  missed' = /\ switch' # Drawn'
            /\ missed \/ (phase = "added" /\ Drawn' # Drawn)

Step == House \/ CompleteByManager \/ Tick \/ Timers \/ Entry

Next == Step /\ Observed

Spec == Init /\ [][Next]_vars

\* The event loop runs a due timer.
FairSpec == Spec /\ WF_vars(WindowExpires /\ Observed)
                 /\ WF_vars(CommissioningExpires /\ Observed)

-----------------------------------------------------------------------------
\* Every variable has its type; a timer of the window is for the window there
\* is.
TypeOK ==
  /\ now \in Nat
  /\ phase \in {"stopped", "unloaded", "registered", "added", "up", "removing"}
  /\ window \in Int /\ windowTimer \in {NoTime, window} /\ commTimer \in Int
  /\ options \in [until : Int, completed : BOOLEAN, standing : BOOLEAN,
                  guarded : BOOLEAN, days : Nat]
  /\ form \in [shown : BOOLEAN, standing : BOOLEAN, guarded : BOOLEAN, days : Nat]
  /\ switch \in {"on", "off", "none"}
  /\ missed \in BOOLEAN

\* "Nothing this integration writes produces one": whatever sequence of
\* lengths, restarts of the period and completions is saved, the deadline
\* never lies further out than the home's own length of commissioning.
NeverInvalid == CommState # "invalid"

\* When access will end if nobody does anything more.
Ends ==
  IF options.standing THEN 2 * (MaxTime + 1)
  ELSE IF CommState = "open" /\ options.until > window THEN options.until
  ELSE IF IsOpen THEN window ELSE 0

\* Access begins, or comes to last longer, only when a window is opened or the
\* options form is saved in the home: no step of the manager, of the clock, of
\* a timer, of a set-up, of a restart or of a saved option re-arming anything
\* does it ("nothing remote can open, extend or renew it").
GrantedHere ==
  [][(Allowed' /\ ~Allowed) \/ (~options'.standing /\ ~options.standing /\ Ends' > Ends)
       => Grant]_vars

\* The switch shows what switch_state says, or a timer that will redraw it is
\* due, unless a change came between the switch and its timer at set-up.
TimerDue == \/ windowTimer # NoTime /\ windowTimer <= now
            \/ commTimer # NoTime /\ commTimer <= now

SwitchHonest == switch # Drawn => TimerDue \/ missed

\* A switch that reads on after access through it ended is redrawn.
SwitchCatchesUp ==
  switch = "on" /\ ~SwitchOn /\ ~missed ~> switch # "on" \/ SwitchOn
=============================================================================
