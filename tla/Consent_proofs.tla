---------------------------- MODULE Consent_proofs ----------------------------
(***************************************************************************)
(* Proofs about Consent: types, the deadline of commissioning, that only   *)
(* the home itself makes access begin or last longer, and that the         *)
(* homeowner's switch tells the truth or is about to.                      *)
(***************************************************************************)
EXTENDS Consent, TLAPS

OptionsType == [until : Int, completed : BOOLEAN, standing : BOOLEAN,
                guarded : BOOLEAN, days : Nat]

\* A running period ends within the home's own length from now. NeverInvalid
\* follows; only this is inductive, since the clock moves under the deadline.
Within(opts, time) ==
  opts.until # NoTime /\ ~opts.completed /\ opts.until > time
    => opts.until <= time + opts.days

Inv == TypeOK /\ Within(options, now)

-----------------------------------------------------------------------------
\* What the options form makes of options keeps their type and their deadline
\* within the length.
LEMMA AppliedWithin ==
  ASSUME NEW opts \in OptionsType, NEW days \in Nat, NEW restart \in BOOLEAN,
         now \in Nat, Within(opts, now)
  PROVE  /\ Applied(opts, days, restart) \in OptionsType
         /\ Within(Applied(opts, days, restart), now)
<1>0. /\ opts.until \in Int /\ opts.days \in Nat /\ opts.completed \in BOOLEAN
      /\ opts.standing \in BOOLEAN /\ opts.guarded \in BOOLEAN
  BY DEF OptionsType
<1>1. CASE restart
  <2> DEFINE new == [opts EXCEPT !.days = days, !.until = now + days,
                                 !.completed = FALSE]
  <2>1. Applied(opts, days, restart) = new BY <1>1 DEF Applied
  <2>a. now + days \in Int OBVIOUS
  <2>2. new \in OptionsType BY <2>a DEF OptionsType
  <2>3. new.until = now + days /\ new.days = days BY DEF OptionsType
  <2> HIDE DEF new
  <2> QED BY <2>1, <2>2, <2>3 DEF Within
<1>2. CASE ~restart /\ opts.until # NoTime /\ ~opts.completed /\ opts.until > now
  <2> DEFINE new == [opts EXCEPT !.days = days, !.until = (@ - opts.days) + days]
  <2>1. Applied(opts, days, restart) = new BY <1>2 DEF Applied
  <2>a. (opts.until - opts.days) + days \in Int BY <1>0
  <2>2. new \in OptionsType BY <2>a DEF OptionsType
  <2>3. new.until = (opts.until - opts.days) + days /\ new.days = days
    BY DEF OptionsType
  <2> HIDE DEF new
  <2>4. opts.until <= now + opts.days BY <1>2 DEF Within
  <2> QED BY <1>0, <2>1, <2>2, <2>3, <2>4 DEF Within
<1>3. CASE ~restart /\ ~(opts.until # NoTime /\ ~opts.completed /\ opts.until > now)
  <2> DEFINE new == [opts EXCEPT !.days = days]
  <2>1. Applied(opts, days, restart) = new BY <1>3 DEF Applied
  <2>2. new \in OptionsType BY <1>0 DEF OptionsType
  <2>3. new.until = opts.until /\ new.completed = opts.completed BY DEF OptionsType
  <2> HIDE DEF new
  <2> QED BY <1>3, <2>1, <2>2, <2>3 DEF Within
<1> QED BY <1>1, <1>2, <1>3

\* Closing commissioning keeps the type and the deadline.
LEMMA CompletedWithin ==
  ASSUME options \in OptionsType, Within(options, now)
  PROVE  /\ Completed \in OptionsType
         /\ Within(Completed, now)
         /\ Completed.until = options.until /\ Completed.days = options.days
         /\ Completed.standing = options.standing
         /\ options.completed => Completed.completed
<1>1. Completed \in OptionsType
  BY DEF Completed, OptionsType, CommState
<1>2. /\ Completed.until = options.until /\ Completed.days = options.days
      /\ Completed.standing = options.standing
      /\ options.completed => Completed.completed
  BY DEF Completed, OptionsType
<1>3. Within(Completed, now)
  BY <1>1, <1>2 DEF Within, OptionsType
<1> QED BY <1>1, <1>2, <1>3

\* Saving options of the right type leaves a timer and a switch of theirs.
LEMMA SavedType ==
  ASSUME TypeOK, NEW new \in OptionsType, Saved(new)
  PROVE  options' \in OptionsType /\ commTimer' \in Int
         /\ switch' \in {"on", "off", "none"}
<1>1. options' \in OptionsType BY DEF Saved
<1>2. Rearmed' \in Int BY <1>1 DEF Rearmed, OptionsType, NoTime
<1>3. Drawn' \in {"on", "off", "none"} BY DEF Drawn
<1> QED BY <1>1, <1>2, <1>3 DEF Saved, TypeOK

-----------------------------------------------------------------------------
LEMMA InitInv == Init => Inv
<1> SUFFICES ASSUME Init PROVE Inv OBVIOUS
<1>1. options \in OptionsType
  <2>1. DefaultDays \in Int /\ DefaultDays \in Nat BY TimesAssumption
  <2>2. PICK until \in {NoTime, DefaultDays} :
          options = [until |-> until, completed |-> FALSE, standing |-> FALSE,
                     guarded |-> TRUE, days |-> DefaultDays]
    BY Zenon DEF Init
  <2>3. until \in Int BY <2>1 DEF NoTime
  <2> QED BY <2>1, <2>2, <2>3 DEF OptionsType
<1>2. form = NoForm /\ NoForm \in [shown : BOOLEAN, standing : BOOLEAN,
                                   guarded : BOOLEAN, days : Nat]
  BY DEF Init, NoForm
<1>3. /\ phase = "unloaded" /\ switch = "none"
      /\ window = NoTime /\ windowTimer = NoTime /\ commTimer = NoTime
      /\ now = 0 /\ missed \in BOOLEAN
  BY Zenon DEF Init
<1>a. 0 \in Nat /\ NoTime \in Int BY DEF NoTime
<1>5. TypeOK
  BY Zenon, <1>1, <1>2, <1>3, <1>a DEF TypeOK, OptionsType
<1>6. Within(options, now)
  BY TimesAssumption DEF Init, Within, NoTime
<1> QED BY <1>5, <1>6 DEF Inv

\* What the people of the house do.
LEMMA HouseInv == Inv /\ House /\ missed' \in BOOLEAN => Inv'
<1> SUFFICES ASSUME Inv, House, missed' \in BOOLEAN PROVE Inv' OBVIOUS
<1> USE TimesAssumption
<1>0. /\ TypeOK /\ options \in OptionsType /\ Within(options, now) /\ now \in Nat
      /\ missed' \in BOOLEAN
  BY DEF Inv, TypeOK, OptionsType
<1>d. Drawn' \in {"on", "off", "none"} BY DEF Drawn
<1>1. ASSUME NEW user \in Users, NEW minutes \in Minutes, OpenWindow(user, minutes)
      PROVE  Inv'
  <2>1. TypeOK'
    BY <1>0, <1>1, <1>d DEF OpenWindow, TypeOK
  <2> QED BY <2>1, <1>0, <1>1 DEF OpenWindow, Inv, Within
<1>2. ASSUME CloseWindow PROVE Inv'
  <2>1. TypeOK'
    BY <1>0, <1>2, <1>d DEF CloseWindow, TypeOK, NoTime
  <2> QED BY <2>1, <1>0, <1>2 DEF CloseWindow, Inv, Within
<1>3. ASSUME CompleteHere PROVE Inv'
  <2>1. options' \in OptionsType /\ Within(options', now)
    BY <1>0, <1>3, CompletedWithin DEF CompleteHere, Complete
  <2>2. TypeOK'
    BY <2>1, <1>0, <1>3, <1>d DEF CompleteHere, Complete, TypeOK, OptionsType, NoTime
  <2> QED BY <2>1, <2>2, <1>3 DEF CompleteHere, Inv, Within
<1>4. ASSUME SwitchOff PROVE Inv'
  <2>1. options' \in OptionsType /\ Within(options', now)
    BY <1>0, <1>4, CompletedWithin DEF SwitchOff
  <2>2. TypeOK'
    BY <2>1, <1>0, <1>4, <1>d DEF SwitchOff, TypeOK, OptionsType, NoTime
  <2> QED BY <2>1, <2>2, <1>4 DEF SwitchOff, Inv, Within
<1>5. ASSUME NEW user \in Users, NEW value \in BOOLEAN, TurnGuarded(user, value)
      PROVE  Inv'
  <2> DEFINE new == [options EXCEPT !.guarded = value]
  <2>1. new \in OptionsType /\ Within(new, now)
    BY <1>0 DEF OptionsType, Within
  <2>2. Saved(new) /\ options' = new
    BY <1>5 DEF TurnGuarded, Saved
  <2> HIDE DEF new
  <2>3. options' \in OptionsType /\ commTimer' \in Int /\ switch' \in {"on", "off", "none"}
    BY <1>0, <2>1, <2>2, SavedType
  <2>4. TypeOK'
    BY <2>3, <1>0, <1>5 DEF TurnGuarded, TypeOK, OptionsType
  <2> QED BY <2>1, <2>2, <2>4, <1>5 DEF TurnGuarded, Inv, Within
<1>6. ASSUME ShowForm PROVE Inv'
  BY <1>0, <1>6 DEF ShowForm, TypeOK, Inv, Within
<1>7. ASSUME NEW standing \in BOOLEAN, NEW guarded \in BOOLEAN,
             NEW restart \in BOOLEAN, NEW days \in Days \cup {form.days},
             SubmitForm(standing, guarded, days, restart)
      PROVE  Inv'
  <2> DEFINE opts == [options EXCEPT !.standing = standing, !.guarded = guarded]
             new  == Applied(opts, days, restart)
  <2>1. opts \in OptionsType /\ Within(opts, now)
    BY <1>0 DEF OptionsType, Within
  <2>2. days \in Nat BY <1>0 DEF TypeOK
  <2>3. new \in OptionsType /\ Within(new, now)
    BY <1>0, <2>1, <2>2, AppliedWithin
  <2>4. Saved(new) /\ options' = new
    BY <1>7 DEF SubmitForm, Saved
  <2> HIDE DEF new, opts
  <2>5. options' \in OptionsType /\ commTimer' \in Int /\ switch' \in {"on", "off", "none"}
    BY <1>0, <2>3, <2>4, SavedType
  <2>6. NoForm \in [shown : BOOLEAN, standing : BOOLEAN, guarded : BOOLEAN, days : Nat]
    BY DEF NoForm
  <2>7. TypeOK'
    BY <2>5, <2>6, <1>0, <1>7 DEF SubmitForm, TypeOK, OptionsType
  <2> QED BY <2>3, <2>4, <2>7, <1>7 DEF SubmitForm, Inv, Within
<1> QED BY <1>1, <1>2, <1>3, <1>4, <1>5, <1>6, <1>7 DEF House

\* The manager, the clock, the timers and the entry.
LEMMA RestInv ==
  /\ Inv /\ missed' \in BOOLEAN
  /\ CompleteByManager \/ Tick \/ Timers \/ Entry \/ UNCHANGED vars
  => Inv'
<1> SUFFICES ASSUME Inv, missed' \in BOOLEAN,
                    CompleteByManager \/ Tick \/ Timers \/ Entry \/ UNCHANGED vars
             PROVE  Inv'
  OBVIOUS
<1> USE TimesAssumption
<1>0. /\ TypeOK /\ options \in OptionsType /\ Within(options, now) /\ now \in Nat
      /\ missed' \in BOOLEAN
  BY DEF Inv, TypeOK, OptionsType
<1>d. Drawn' \in {"on", "off", "none"} /\ Drawn \in {"on", "off", "none"}
  BY DEF Drawn
<1>1. ASSUME CompleteByManager PROVE Inv'
  <2>1. options' \in OptionsType /\ Within(options', now)
    BY <1>0, <1>1, CompletedWithin DEF CompleteByManager, Complete
  <2>2. TypeOK'
    BY <2>1, <1>0, <1>1, <1>d DEF CompleteByManager, Complete, TypeOK, OptionsType, NoTime
  <2> QED BY <2>1, <2>2, <1>1 DEF CompleteByManager, Inv, Within
<1>4. ASSUME Tick PROVE Inv'
  <2>1. TypeOK' BY <1>0, <1>4 DEF Tick, TypeOK
  <2> QED BY <2>1, <1>0, <1>4 DEF Tick, Inv, Within, OptionsType
<1>5. ASSUME Timers PROVE Inv'
  <2>1. TypeOK'
    BY <1>0, <1>5, <1>d DEF Timers, WindowExpires, CommissioningExpires, TypeOK, NoTime
  <2> QED BY <2>1, <1>0, <1>5
          DEF Timers, WindowExpires, CommissioningExpires, Inv, Within
<1>6. ASSUME Entry PROVE Inv'
  <2>1. Rearmed \in Int BY <1>0 DEF Rearmed, OptionsType, NoTime
  <2>2. NoForm \in [shown : BOOLEAN, standing : BOOLEAN, guarded : BOOLEAN, days : Nat]
    BY DEF NoForm
  <2>3. CASE Register
    <3>1. TypeOK' BY <1>0, <2>3 DEF Register, TypeOK
    <3> QED BY <3>1, <1>0, <2>3 DEF Register, Inv, Within
  <2>5. CASE AddSwitches
    <3>1. TypeOK' BY <1>0, <1>d, <2>5 DEF AddSwitches, TypeOK
    <3> QED BY <3>1, <1>0, <2>5 DEF AddSwitches, Inv, Within
  <2>6. CASE SetUp
    <3>1. TypeOK' BY <1>0, <2>1, <2>6 DEF SetUp, TypeOK
    <3> QED BY <3>1, <1>0, <2>6 DEF SetUp, Inv, Within
  <2>7. CASE RemoveSwitches
    <3>1. TypeOK' BY <1>0, <2>7 DEF RemoveSwitches, TypeOK
    <3> QED BY <3>1, <1>0, <2>7 DEF RemoveSwitches, Inv, Within
  <2>4. CASE Unload \/ Stop
    <3>1. TypeOK'
      BY <1>0, <2>2, <2>4 DEF Unload, Stop, TypeOK, NoTime
    <3> QED BY <3>1, <1>0, <2>4 DEF Unload, Stop, Inv, Within
  <2> QED BY <1>6, <2>3, <2>4, <2>5, <2>6, <2>7 DEF Entry
<1>7. ASSUME UNCHANGED vars PROVE Inv'
  BY <1>0, <1>7 DEF vars, Inv, TypeOK, Within
<1> QED BY <1>1, <1>4, <1>5, <1>6, <1>7

\* The invariant holds throughout.
LEMMA InvHolds == Spec => []Inv
<1>1. Inv /\ [Next]_vars => missed' \in BOOLEAN
  BY DEF Next, Observed, Inv, TypeOK, vars
<1>2. Inv /\ [Next]_vars => Inv'
  BY <1>1, HouseInv, RestInv DEF Next, Step
<1> QED BY <1>2, InitInv, PTL DEF Spec

\* Every variable keeps its type (maintenance.py, the entry's options).
THEOREM ConsentTyped == Spec => []TypeOK
<1>1. Inv => TypeOK BY DEF Inv
<1> QED BY <1>1, InvHolds, PTL

\* commissioning() never reports "invalid": "Nothing this integration writes
\* produces one", whatever lengths are set and in whatever order.
THEOREM DeadlineNeverInvalid == Spec => []NeverInvalid
<1>1. Inv => NeverInvalid
  BY TimesAssumption DEF Inv, TypeOK, Within, NeverInvalid, CommState
<1> QED BY <1>1, InvHolds, PTL

-----------------------------------------------------------------------------
Longer == \/ Allowed' /\ ~Allowed
          \/ ~options'.standing /\ ~options.standing /\ Ends' > Ends

\* A step that leaves the deadline, the length and the opt-in as they are,
\* reopens nothing and at most takes the window away gives no more access.
LEMMA NoMore ==
  ASSUME Inv, Inv', now' >= now, window' \in {window, NoTime},
         options'.until = options.until, options'.days = options.days,
         options'.standing = options.standing,
         options.completed => options'.completed
  PROVE  ~Longer
<1> USE TimesAssumption
<1>0. /\ now \in Nat /\ now' \in Nat /\ window \in Int /\ window' \in Int
      /\ options \in OptionsType /\ options' \in OptionsType
      /\ Within(options, now)
  BY DEF Inv, TypeOK, OptionsType
<1>1. IsOpen' => IsOpen /\ window' = window
  BY <1>0 DEF IsOpen, NoTime
<1>2. CommState' = "open" => CommState = "open"
  BY <1>0 DEF CommState, Within, OptionsType
<1>3. ~(Allowed' /\ ~Allowed)
  BY <1>1, <1>2 DEF Allowed
<1>4. ASSUME ~options.standing PROVE Ends' <= Ends
  <2>1. CommState = "open" => options.until \in Nat
    BY <1>0 DEF CommState, OptionsType
  <2>2. IsOpen => window \in Nat
    BY <1>0 DEF IsOpen
  <2>3. CASE CommState' = "open" /\ options'.until > window'
    <3>1. Ends' = options.until /\ CommState = "open" BY <1>4, <1>2, <2>3 DEF Ends
    <3>2. CASE options.until > window BY <1>0, <1>4, <3>1, <3>2 DEF Ends, OptionsType
    <3>3. CASE ~(options.until > window)
      <4>1. IsOpen /\ window >= options.until
        BY <1>0, <3>1, <3>3 DEF IsOpen, CommState, OptionsType
      <4>2. Ends = window BY <1>4, <4>1, <3>3 DEF Ends
      <4> QED BY <3>1, <4>1, <4>2
    <3> QED BY <3>2, <3>3
  <2>4. CASE ~(CommState' = "open" /\ options'.until > window') /\ IsOpen'
    <3>1. Ends' = window /\ IsOpen BY <1>4, <1>1, <2>4 DEF Ends
    <3>2. CASE CommState = "open" /\ options.until > window
      BY <1>0, <1>4, <3>1, <3>2 DEF Ends, OptionsType
    <3>3. CASE ~(CommState = "open" /\ options.until > window)
      BY <1>0, <1>4, <3>1, <3>3 DEF Ends
    <3> QED BY <3>2, <3>3
  <2>5. CASE ~(CommState' = "open" /\ options'.until > window') /\ ~IsOpen'
    <3>1. Ends' = 0 BY <1>4, <2>5 DEF Ends
    <3> QED BY <1>4, <2>1, <2>2, <3>1 DEF Ends
  <2> QED BY <2>3, <2>4, <2>5
<1>5. Ends' \in Int /\ Ends \in Int
  BY <1>0 DEF Ends, OptionsType
<1> QED BY <1>3, <1>4, <1>5 DEF Longer

\* Every step that gives more is the home's own.
LEMMA LongerByGrant == Inv /\ Inv' /\ Next => (Longer => Grant)
<1> SUFFICES ASSUME Inv, Inv', Next, Longer PROVE Grant
  OBVIOUS
<1>0. /\ now \in Nat /\ options \in OptionsType /\ Within(options, now)
  BY DEF Inv, TypeOK, OptionsType
<1>c. Completed.until = options.until /\ Completed.days = options.days
      /\ Completed.standing = options.standing
      /\ (options.completed => Completed.completed)
  BY <1>0, CompletedWithin
<1>1. ASSUME NEW user \in Users, NEW minutes \in Minutes, OpenWindow(user, minutes)
      PROVE  Grant
  <2>1. user \in Users \ {"resident"} BY <1>1 DEF OpenWindow, MayGrant, Users
  <2> QED BY <1>1, <2>1 DEF Grant
<1>2. ASSUME NEW standing \in BOOLEAN, NEW guarded \in BOOLEAN,
             NEW restart \in BOOLEAN, NEW days \in Days \cup {form.days},
             SubmitForm(standing, guarded, days, restart)
      PROVE  Grant
  BY <1>2 DEF Grant
<1>3. CASE CloseWindow \/ ShowForm
  BY <1>0, <1>3, NoMore DEF CloseWindow, ShowForm
<1>4. CASE CompleteHere \/ SwitchOff \/ CompleteByManager
  BY <1>0, <1>c, <1>4, NoMore DEF CompleteHere, SwitchOff, CompleteByManager, Complete
<1>5. ASSUME NEW user \in Users, NEW value \in BOOLEAN, TurnGuarded(user, value)
      PROVE  Grant
  <2>1. /\ options'.until = options.until /\ options'.days = options.days
        /\ options'.standing = options.standing
        /\ options'.completed = options.completed
    BY <1>0, <1>5 DEF TurnGuarded, Saved, OptionsType
  <2> QED BY <1>0, <1>5, <2>1, NoMore DEF TurnGuarded
<1>7. CASE Tick \/ Timers
  BY <1>0, <1>7, NoMore DEF Tick, Timers, WindowExpires, CommissioningExpires
<1>8. CASE Entry
  BY <1>0, <1>8, NoMore DEF Entry, Register, AddSwitches, SetUp, RemoveSwitches,
                            Unload, Stop
<1> QED BY <1>1, <1>2, <1>3, <1>4, <1>5, <1>7, <1>8 DEF Next, Step, House

\* Access begins, or comes to last longer, only when a window is opened or the
\* form saved in the home: never by the manager, the clock, a timer or a restart.
THEOREM OnlyTheHomeGrants == Spec => GrantedHere
<1>1. Inv /\ Inv' /\ [Next]_vars => [Longer => Grant]_vars
  BY LongerByGrant
<1> QED BY <1>1, InvHolds, PTL DEF Spec, GrantedHere, Longer

-----------------------------------------------------------------------------
\* Whatever is open has the timer that will say so when it ends; commissioning
\* has its timer while the entry listens, and none before; and a switch that is
\* not there has written nothing.
Armed ==
  /\ IsOpen => windowTimer = window
  /\ Listening /\ CommState = "open" => commTimer = options.until
  /\ ~Listening => commTimer = NoTime
  /\ phase \notin {"added", "up"} => switch = "none"

HonestInv == Armed /\ SwitchHonest

\* A step after which the switch shows what it should.
LEMMA DrawnHonest ==
  ASSUME switch' = Drawn', Armed'
  PROVE  HonestInv'
BY DEF HonestInv, SwitchHonest

\* A step that leaves the switch, what it should show and the timers that are
\* due: what excused a difference still does.
LEMMA SameHonest ==
  ASSUME HonestInv, Observed, Armed', UNCHANGED <<switch, Drawn>>, TimerDue => TimerDue'
  PROVE  HonestInv'
BY DEF HonestInv, SwitchHonest, Observed

\* A step between the switch and its timer, at set-up, that nobody heard of.
LEMMA UnheardHonest ==
  ASSUME HonestInv, Observed, Armed', phase = "added", UNCHANGED switch,
         TimerDue => TimerDue'
  PROVE  HonestInv'
BY DEF HonestInv, SwitchHonest, Observed

\* Options that are saved.
LEMMA SavedHonest ==
  ASSUME Inv, HonestInv, Observed, NEW new, Saved(new),
         UNCHANGED <<now, phase, window, windowTimer>>
  PROVE  HonestInv'
<1>1. CASE Listening /\ new # options
  <2>1. commTimer' = Rearmed' /\ switch' = Drawn'
    BY <1>1 DEF Saved
  <2>2. Armed'
    BY <1>1, <2>1 DEF HonestInv, Armed, IsOpen, Listening, Rearmed, Drawn
  <2> QED BY <2>1, <2>2, DrawnHonest
<1>2. CASE Listening /\ new = options
  <2>1. UNCHANGED <<options, commTimer, switch>>
    BY <1>2 DEF Saved
  <2>2. Armed' /\ UNCHANGED Drawn /\ (TimerDue => TimerDue')
    BY <2>1 DEF HonestInv, Armed, IsOpen, Listening, CommState, Drawn, SwitchOn, TimerDue
  <2> QED BY <2>1, <2>2, SameHonest
<1>3. CASE ~Listening
  <2>1. UNCHANGED <<commTimer, switch>>
    BY <1>3 DEF Saved
  <2>2. Armed' /\ (TimerDue => TimerDue')
    BY <1>3, <2>1 DEF HonestInv, Armed, IsOpen, Listening, TimerDue
  <2>3. CASE phase = "added"
    BY <2>1, <2>2, <2>3, UnheardHonest
  <2>4. CASE phase # "added"
    <3>1. UNCHANGED Drawn
      BY <1>3, <2>4 DEF Drawn, Listening
    <3> QED BY <2>1, <2>2, <3>1, SameHonest
  <2> QED BY <2>3, <2>4
<1> QED BY <1>1, <1>2, <1>3

\* Commissioning is completed, here or by the manager.
LEMMA CompleteHonest ==
  ASSUME Inv, HonestInv, Complete, UNCHANGED <<now, phase, window, windowTimer>>
  PROVE  HonestInv'
<1>1. options' = Completed /\ Completed.completed
  BY DEF Complete, Completed, Inv, TypeOK
<1>2. CommState' # "open" /\ commTimer' = NoTime /\ switch' = Drawn'
  BY <1>1 DEF Complete, CommState
<1>3. Armed'
  BY <1>2 DEF HonestInv, Armed, IsOpen, Drawn
<1> QED BY <1>2, <1>3, DrawnHonest

LEMMA HonestNext == Inv /\ HonestInv /\ [Next]_vars => HonestInv'
<1> SUFFICES ASSUME Inv, HonestInv, [Next]_vars PROVE HonestInv'
  OBVIOUS
<1> USE TimesAssumption
<1>0. /\ now \in Nat /\ options \in OptionsType /\ Within(options, now)
      /\ window \in Int /\ windowTimer \in {NoTime, window} /\ commTimer \in Int
      /\ Armed
  BY DEF Inv, TypeOK, OptionsType, HonestInv
<1>1. CASE UNCHANGED vars
  <2>1. Armed' /\ UNCHANGED <<switch, missed, Drawn>> /\ (TimerDue => TimerDue')
    BY <1>0, <1>1
    DEF vars, Armed, IsOpen, Listening, CommState, Drawn, SwitchOn, TimerDue
  <2> QED BY <2>1 DEF HonestInv, SwitchHonest
<1> SUFFICES ASSUME Step, Observed PROVE HonestInv'
  BY <1>1 DEF Next
<1>2. ASSUME NEW user \in Users, NEW minutes \in Minutes, OpenWindow(user, minutes)
      PROVE  HonestInv'
  <2>1. Armed' /\ switch' = Drawn'
    BY <1>0, <1>2 DEF OpenWindow, Armed, IsOpen, Listening, CommState, Drawn
  <2> QED BY <2>1, DrawnHonest
<1>3. CASE CloseWindow
  <2>1. Armed' /\ switch' = Drawn'
    BY <1>0, <1>3 DEF CloseWindow, Armed, IsOpen, Listening, CommState, Drawn
  <2> QED BY <2>1, DrawnHonest
<1>4. CASE CompleteHere \/ CompleteByManager
  BY <1>4, CompleteHonest DEF CompleteHere, CompleteByManager
<1>5. CASE SwitchOff
  <2>1. /\ options' = Completed /\ now' = now /\ phase' = phase
        /\ window' = NoTime /\ windowTimer' = NoTime /\ switch' = Drawn'
        /\ commTimer' = IF CommState = "open" THEN NoTime ELSE commTimer
    BY <1>5 DEF SwitchOff
  <2>2. CommState' # "open"
    <3>1. CommState = "open" => Completed.completed
      BY <1>0 DEF Completed, OptionsType
    <3>2. /\ Completed.until = options.until /\ Completed.days = options.days
          /\ options.completed => Completed.completed
      BY <1>0, CompletedWithin
    <3> QED BY <2>1, <3>1, <3>2 DEF CommState
  <2>3. Armed'
    BY <1>0, <2>1, <2>2 DEF Armed, IsOpen, Listening, Drawn, NoTime
  <2> QED BY <2>1, <2>3, DrawnHonest
<1>6. ASSUME NEW user \in Users, NEW value \in BOOLEAN, TurnGuarded(user, value)
      PROVE  HonestInv'
  BY <1>6, SavedHonest DEF TurnGuarded
<1>7. ASSUME NEW standing \in BOOLEAN, NEW guarded \in BOOLEAN,
             NEW restart \in BOOLEAN, NEW days \in Days \cup {form.days},
             SubmitForm(standing, guarded, days, restart)
      PROVE  HonestInv'
  BY <1>7, SavedHonest DEF SubmitForm
<1>8. CASE ShowForm
  <2>1. UNCHANGED <<now, phase, window, windowTimer, commTimer, options, switch>>
    BY <1>8 DEF ShowForm
  <2>2. Armed' /\ UNCHANGED Drawn /\ (TimerDue => TimerDue')
    BY <1>0, <2>1 DEF Armed, IsOpen, Listening, CommState, Drawn, SwitchOn, TimerDue
  <2> QED BY <2>1, <2>2, SameHonest
<1>9. CASE Tick
  <2>1. now' = now + 1 /\ UNCHANGED <<phase, window, windowTimer, commTimer, options, switch>>
    BY <1>9 DEF Tick
  <2>2. (IsOpen' => IsOpen) /\ (CommState' = "open" => CommState = "open")
    BY <1>0, <2>1 DEF IsOpen, CommState, Within, OptionsType
  <2>3. Armed' /\ (TimerDue => TimerDue')
    BY <1>0, <2>1, <2>2 DEF Armed, Listening, TimerDue
  <2>4. CASE phase = "added"
    BY <2>1, <2>3, <2>4, UnheardHonest
  <2>5. CASE phase # "added" /\ SwitchOn' = SwitchOn
    BY <2>1, <2>3, <2>5, SameHonest DEF Drawn
  <2>6. CASE phase = "up" /\ SwitchOn' # SwitchOn
    <3>1. CASE IsOpen /\ ~IsOpen'
      BY <1>0, <2>1, <3>1, <2>3 DEF Armed, IsOpen, TimerDue, NoTime, HonestInv, SwitchHonest
    <3>2. CASE CommState = "open" /\ CommState' # "open"
      <4>1. commTimer' = options.until /\ options.until > now /\ options.until <= now'
        BY <1>0, <2>1, <2>6, <3>2 DEF Armed, Listening, CommState, Within, OptionsType
      <4>2. TimerDue'
        BY <1>0, <4>1 DEF TimerDue, NoTime, OptionsType
      <4> QED BY <2>3, <4>2 DEF HonestInv, SwitchHonest
    <3> QED BY <2>2, <2>6, <3>1, <3>2 DEF SwitchOn
  <2>7. CASE phase \notin {"added", "up"}
    <3>1. UNCHANGED Drawn
      BY <2>1, <2>7 DEF Drawn
    <3> QED BY <2>1, <2>3, <3>1, SameHonest
  <2> QED BY <2>4, <2>5, <2>6, <2>7
<1>10. CASE WindowExpires
  <2>1. ~IsOpen /\ ~IsOpen'
    BY <1>0, <1>10 DEF WindowExpires, IsOpen
  <2>2. /\ windowTimer' = NoTime /\ switch' = Drawn
        /\ UNCHANGED <<now, phase, window, commTimer, options>>
    BY <1>10, <2>1 DEF WindowExpires
  <2>3. switch' = Drawn' /\ Armed'
    BY <1>0, <2>1, <2>2 DEF Armed, Listening, CommState, Drawn, SwitchOn, IsOpen
  <2> QED BY <2>3, DrawnHonest
<1>11. CASE CommissioningExpires
  <2>1. ~(Listening /\ CommState = "open")
    BY <1>0, <1>11 DEF CommissioningExpires, Armed, CommState, OptionsType
  <2>2. /\ commTimer' = NoTime /\ switch' = Drawn
        /\ UNCHANGED <<now, phase, window, windowTimer, options>>
    BY <1>11 DEF CommissioningExpires
  <2>3. switch' = Drawn' /\ Armed'
    BY <1>0, <2>1, <2>2 DEF Armed, Listening, CommState, Drawn, SwitchOn, IsOpen
  <2> QED BY <2>3, DrawnHonest
<1>12. CASE Register
  <2>1. Armed' /\ UNCHANGED <<switch, Drawn>> /\ (TimerDue => TimerDue')
    BY <1>0, <1>12 DEF Register, Armed, IsOpen, Listening, Drawn, TimerDue
  <2> QED BY <2>1, SameHonest
<1>13. CASE AddSwitches
  <2>1. Armed' /\ switch' = Drawn'
    BY <1>0, <1>13 DEF AddSwitches, Armed, IsOpen, Listening
  <2> QED BY <2>1, DrawnHonest
<1>14. CASE SetUp
  <2>1. /\ phase = "added" /\ phase' = "up" /\ commTimer = NoTime /\ commTimer' = Rearmed
        /\ UNCHANGED <<now, window, windowTimer, options, switch>>
    BY <1>0, <1>14 DEF SetUp, Armed, Listening
  <2>2. Armed' /\ UNCHANGED Drawn /\ (TimerDue => TimerDue')
    BY <1>0, <2>1
    DEF Armed, IsOpen, Listening, CommState, Rearmed, Drawn, SwitchOn, TimerDue
  <2> QED BY <2>1, <2>2, SameHonest
<1>15. CASE RemoveSwitches
  <2>1. Armed' /\ switch' = Drawn'
    BY <1>0, <1>15 DEF RemoveSwitches, Armed, IsOpen, Listening, CommState, Drawn
  <2> QED BY <2>1, DrawnHonest
<1>16. CASE Unload \/ Stop
  <2>1. Armed' /\ switch' = Drawn'
    BY <1>0, <1>16 DEF Unload, Stop, Armed, IsOpen, Listening, Drawn, NoTime
  <2> QED BY <2>1, DrawnHonest
<1> QED BY <1>2, <1>3, <1>4, <1>5, <1>6, <1>7, <1>8, <1>9, <1>10, <1>11, <1>12, <1>13,
           <1>14, <1>15, <1>16
        DEF Step, House, Timers, Entry

\* The switch shows what switch_state says, or a timer that will redraw it is
\* due, or the change came where set-up could not hear of it.
THEOREM SwitchIsHonest == Spec => []SwitchHonest
<1>1. Init => HonestInv
  BY TimesAssumption
  DEF Init, HonestInv, Armed, SwitchHonest, IsOpen, Listening, Drawn, NoTime
<1>2. HonestInv => SwitchHonest
  BY DEF HonestInv
<1> QED BY <1>1, <1>2, HonestNext, InvHolds, PTL DEF Spec

=============================================================================
