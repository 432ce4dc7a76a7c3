-------------------------------- MODULE Gates --------------------------------
(***************************************************************************)
(* What the manager's commands may do (commands.py, service_policy.py):    *)
(* which rule an action falls under, what it needs from the home, and what *)
(* a called service may act on.  The maintenance grants are those of       *)
(* Consent, here only open or not; the handlers are the other modules'.    *)
(* Home Assistant, which carries out a called service, is external.        *)
(***************************************************************************)
EXTENDS Naturals

CONSTANTS Services,    \* the <<domain, service>> pairs a command may name
          MaxTurns     \* bound: what the homeowner changes

VARIABLES grants,     \* the homeowner's side: what is granted, and the settings
          order       \* the command being carried out

gateVars == <<grants, order>>

-----------------------------------------------------------------------------
(* The lists of the policy.                                                *)
NeverDomains == {"shell_command", "python_script"}
NeverServices ==
  {<<"hassio", "addon_stdin">>, <<"hassio", "host_shutdown">>, <<"homeassistant", "stop">>,
   <<"image", "snapshot">>} \cup ({"camera"} \X {"snapshot", "record", "play_stream"})
RoutineServices ==
  ({"light"} \X {"turn_on", "turn_off", "toggle"}) \cup ({"fan"} \X {"turn_on", "turn_off"})
  \cup ({"scene", "script", "automation"} \X {"reload"})
  \cup ({"homeassistant"} \X {"update_entity", "reload_config_entry"})
  \cup ({"persistent_notification"} \X {"create", "dismiss"}) \cup {<<"backup", "create">>}
SensitiveServices ==
  ({"switch"} \X {"turn_on", "turn_off", "toggle"})
  \cup ({"automation", "input_boolean"} \X {"turn_on", "turn_off"}) \cup {<<"scene", "turn_on">>}
  \cup ({"hassio"} \X {"host_reboot", "addon_restart", "addon_start", "addon_stop"})
  \cup ({"recorder"} \X {"purge", "purge_entities"}) \cup {<<"homeassistant", "restart">>}
SensitiveDomains ==
  {"lock", "cover", "alarm_control_panel", "climate", "water_heater", "notify", "vacuum"}
NoTargetServices ==
  ({"hassio"} \X {"host_reboot", "addon_restart", "addon_start", "addon_stop"})
  \cup ({"recorder"} \X {"purge", "purge_entities"}) \cup {<<"homeassistant", "restart">>}
  \cup ({"scene", "script", "automation"} \X {"reload"})
  \cup ({"persistent_notification"} \X {"create", "dismiss"}) \cup {<<"backup", "create">>}

SensitiveActions ==
  {"user_create", "user_update", "user_set_password", "user_delete", "panel_setup",
   "agent_update", "hacs_install", "ha_restart", "integration_setup", "automation_create",
   "tunnel_stop", "link_setup", "link_stop", "backup_delete",
   "addon_restart", "addon_start", "addon_stop"}
RetiredActions == {"tunnel_setup"}
GuardedActions == {"ha_core_update", "ha_os_update", "agent_update"}
GuardedWithoutConsent == {"agent_update"}
OptInActions == {"backup_upload"}
OpenActions == {"maintenance_status", "maintenance_request", "commissioning_complete"}
(* Of the actions no list names, some that have a handler, and one without.*)
OtherActions == {"registry_query", "panel_remove", "blueprint_install"}
Unsupported == {"unheard_of"}

(* A command has the shape the guarded class allows, or carries a key more *)
(* (a downgrade; for a blueprint, leave to override), or a malformed one.  *)
Shapes == {"plain", "extra", "malformed"}

-----------------------------------------------------------------------------
(* What a service may reach: a lamp; the home's two controls over Dartec,  *)
(* the switch that gives consent and the one that allows approved updates; *)
(* and a collection, a group or scene of the household, that may hold      *)
(* them.  A control has the id it was given first, until the household     *)
(* gives it another.                                                       *)
Controls == {"support", "updates"}
Things == {"lamp", "collection"} \cup Controls
FirstId == [support |-> "allow_dartec_support", updates |-> "dartec_approved_updates"]
OtherId == [support |-> "support renamed", updates |-> "updates renamed"]
IdOf(thing) == IF thing \in Controls THEN grants.ids[thing] ELSE thing

(* The ids a payload names, however they are written: beside the target or *)
(* in it, in one text with commas, in capitals, in a list: one of them, or *)
(* a harmless one beside it.  An area, a device, a floor or a label names  *)
(* none.                                                                   *)
Ids == {"lamp", "collection", "all"} \cup {FirstId[c] : c \in Controls}
       \cup {OtherId[c] : c \in Controls}
Payloads ==
  [ids : {{}} \cup {{a, "lamp"} : a \in Ids} \cup {{a} : a \in Ids},
   malformed : {FALSE}, indirect : BOOLEAN]
  \cup [ids : {{"lamp"}}, malformed : {TRUE}, indirect : {FALSE}]

ThingsNamed(payload) == {t \in Things : IdOf(t) \in payload.ids}

Tier(service) ==
  IF service[1] \in NeverDomains \/ service \in NeverServices THEN "never"
  ELSE IF service \in RoutineServices THEN "routine"
  ELSE IF service \in SensitiveServices \/ service[1] \in SensitiveDomains THEN "sensitive"
  ELSE "unlisted"

(* Mutant: where an entity is named, an area may stand beside it.          *)
ValidTargetBesideAreas(service, payload) ==
  service \in NoTargetServices \/ (payload.ids # {} /\ "all" \notin payload.ids)

(* A payload names its entities, one by one, or the service needs none.    *)
ValidTarget(service, payload) ==
  /\ ~payload.indirect
  /\ service \in NoTargetServices \/ (payload.ids # {} /\ "all" \notin payload.ids)

CheckCallService(service, payload, open) ==
  /\ ~payload.malformed
  /\ \/ Tier(service) = "routine"
     \/ Tier(service) = "sensitive" /\ open
  /\ ValidTarget(service, payload)

(* Mutant: only the id on the fixed list, of the first of the two.         *)
OwnFixedList == {FirstId["support"]}

(* What the registry says is ours, and, whatever it says, a fixed list that*)
(* names one of the two.                                                   *)
OwnEntityIds ==
  {FirstId["support"]} \cup (IF grants.registry THEN {grants.ids[c] : c \in Controls} ELSE {})
CheckOwnEntities(payload) == payload.ids \cap OwnEntityIds = {}

-----------------------------------------------------------------------------
(* A guarded command: not turned off, nothing but its keys, in their form. *)
CheckGuarded(cmd) == grants.updates # "off" /\ cmd.shape = "plain"

IsSensitive(cmd) ==
  IF cmd.action = "blueprint_install" THEN cmd.shape = "extra"
  ELSE cmd.action \in SensitiveActions

(* Only a real True counts.                                                *)
CheckOptIn(cmd) == cmd.action \in OptInActions => grants.offsite = "on"

Granted == grants.window \/ grants.commissioning \/ grants.standing

-----------------------------------------------------------------------------
NoOrder == [at |-> "idle", action |-> "none", service |-> <<"", "">>, shape |-> "plain",
            open |-> FALSE, opted |-> FALSE, updates |-> "unset", named |-> {}, acts |-> {}]

GateInit ==
  /\ grants \in [window : BOOLEAN, commissioning : BOOLEAN, standing : BOOLEAN,
                 updates : {"unset", "on", "off"}, offsite : {"unset", "on", "text"},
                 ids : {FirstId}, registry : BOOLEAN, held : {{}, {"support"}, {"updates"}}, turns : {0}]
  /\ order = NoOrder

(* The command goes on to its handler, or is refused.                      *)
Runs(cmd) ==
  order' = [NoOrder EXCEPT !.at = "running", !.action = cmd.action, !.shape = cmd.shape,
                           !.open = Granted, !.opted = grants.offsite = "on",
                           !.updates = grants.updates]
Refused == order' = [NoOrder EXCEPT !.at = "refused"]

(* Always answered.  Ending the commissioning only takes away; the other   *)
(* two grant nothing.                                                      *)
OpenCommand(cmd) ==
  /\ cmd.action \in OpenActions
  /\ grants' = [grants EXCEPT !.commissioning = @ /\ cmd.action # "commissioning_complete"]
  /\ Runs(cmd)
RetiredCommand(cmd) == cmd.action \in RetiredActions /\ Refused /\ UNCHANGED grants

(* What Home Assistant acts on: everything where nothing is named by a     *)
(* service that needs a target, or an area or the wildcard is; otherwise   *)
(* what is named, and what a collection holds.                             *)
ActsOn(service, payload) ==
  IF payload.indirect \/ "all" \in payload.ids
     \/ (payload.ids = {} /\ service \notin NoTargetServices)
  THEN Things
  ELSE ThingsNamed(payload) \cup (IF "collection" \in payload.ids THEN grants.held ELSE {})

(* What a service does to a control it reaches: a switch service, or the   *)
(* scene that holds it as on.                                              *)
IsOn(control) == IF control = "support" THEN grants.window \/ grants.commissioning
                 ELSE grants.updates # "off"
TurnsOn(service, control) ==
  \/ service = <<"switch", "turn_on">>
  \/ service = <<"switch", "toggle">> /\ ~IsOn(control)
  \/ service = <<"scene", "turn_on">> /\ control \in grants.held
TurnsOff(service, control) ==
  \/ service = <<"switch", "turn_off">>
  \/ service = <<"switch", "toggle">> /\ IsOn(control)

(* The switches themselves (switch.py).  A call of the agent has no user,  *)
(* which require_admin lets through.                                       *)
Switched(service, acts) ==
  LET on(c) == c \in acts /\ TurnsOn(service, c)
      off(c) == c \in acts /\ TurnsOff(service, c)
  IN  [grants EXCEPT !.window = on("support") \/ (@ /\ ~off("support")),
                     !.commissioning = @ /\ ~off("support"),
                     !.updates = IF on("updates") /\ @ = "off" THEN "on"
                                 ELSE IF off("updates") THEN "off" ELSE @]

(* call_service: checked and carried out with no await in between.         *)
CallService(service, payload) ==
  IF CheckCallService(service, payload, Granted) /\ CheckOwnEntities(payload)
  THEN /\ order' = [NoOrder EXCEPT !.at = "running", !.action = "call_service",
                    !.service = service, !.open = Granted, !.named = ThingsNamed(payload),
                    !.acts = ActsOn(service, payload)]
       /\ grants' = Switched(service, ActsOn(service, payload))
  ELSE Refused /\ UNCHANGED grants

(* Guarded updates of Home Assistant need no consent.                      *)
GuardedCommand(cmd) ==
  /\ cmd.action \in GuardedActions \ GuardedWithoutConsent
  /\ IF CheckGuarded(cmd) THEN Runs(cmd) ELSE Refused
  /\ UNCHANGED grants

(* All the others: consent, or for agent_update the guarded shape; then    *)
(* the opt-in; then the handler, if there is one.                          *)
OtherCommand(cmd) ==
  /\ cmd.action \in SensitiveActions \cup OptInActions \cup OtherActions \cup Unsupported
  /\ LET allowed == \/ ~IsSensitive(cmd) \/ Granted
                    \/ cmd.action \in GuardedWithoutConsent /\ CheckGuarded(cmd)
     IN  IF allowed /\ CheckOptIn(cmd) /\ cmd.action \notin Unsupported
         THEN Runs(cmd) ELSE Refused
  /\ UNCHANGED grants

Command(cmd) ==
  /\ order.at = "idle"
  /\ OpenCommand(cmd) \/ RetiredCommand(cmd) \/ GuardedCommand(cmd) \/ OtherCommand(cmd)
Call(service, payload) == order.at = "idle" /\ CallService(service, payload)

(* The handler has returned, or raised: the answer goes out.               *)
Answered == order.at # "idle" /\ order' = NoOrder /\ UNCHANGED grants

(* The homeowner grants and takes away, and renames a control.             *)
Turns ==
  /\ grants.turns < MaxTurns
  /\ \/ \E field \in {"window", "commissioning", "standing"} :
          grants' = [grants EXCEPT ![field] = ~@, !.turns = @ + 1]
     \/ grants' = [grants EXCEPT !.updates = IF @ = "off" THEN "on" ELSE "off", !.turns = @ + 1]
  /\ UNCHANGED order
RenamesSwitch ==
  /\ grants.turns < MaxTurns
  /\ \E c \in Controls :
       grants' = [grants EXCEPT !.ids = [@ EXCEPT ![c] = OtherId[c]], !.turns = @ + 1]
  /\ UNCHANGED order

AllActions == SensitiveActions \cup RetiredActions \cup GuardedActions \cup OptInActions
              \cup OpenActions \cup OtherActions \cup Unsupported
GateNext ==
  \/ \E cmd \in [action : AllActions, shape : Shapes] : Command(cmd)
  \/ \E s \in Services, p \in Payloads : Call(s, p)
  \/ Answered \/ Turns \/ RenamesSwitch

-----------------------------------------------------------------------------
(* service_policy.py:555-564, switch.py:16-18: no command gives the manager*)
(* more than the home had granted; only the home turns its own controls on,*)
(* whatever a service is pointed at, by id, area, wildcard or nothing.     *)
(* What the code lets through is excepted: a control that a group or scene *)
(* of the household holds, which is not looked into; and, while the        *)
(* registry cannot be read, a control not under the id of the fixed list,  *)
(* which the switch for approved updates never is (commands.py:294).       *)
Guarded(control) ==
  /\ control \notin grants.held
  /\ grants.registry \/ (control = "support" /\ grants.ids[control] = FirstId[control])

NeverGrantsItself ==
  [][order' # order =>
       /\ Guarded("support") => (grants'.window => grants.window)
       /\ Guarded("updates") => (grants'.updates # "off" => grants.updates # "off")
       /\ grants'.commissioning => grants.commissioning
       /\ grants'.standing = grants.standing /\ grants'.offsite = grants.offsite]_gateVars

(* service_policy.py:402-414, 505-532, commands.py:112-183.  A service acts*)
(* on nothing but what it was told by name, or holds what it was told, if  *)
(* it takes a target at all.  At the home that has granted nothing it is   *)
(* none of those, and no action of those, that need consent; no copy of the*)
(* home's data leaves without the opt-in, which a window does not replace; *)
(* other software is an update in its guarded shape, which the homeowner   *)
(* has not turned off.  What is never allowed or was retired does not run  *)
(* under any grant, nor what no list and no handler knows.                 *)
RunsAsAllowed ==
  order.at = "running" =>
    /\ order.action = "call_service" =>
         /\ order.service \notin NoTargetServices =>
              /\ order.acts \subseteq order.named
                   \cup (IF "collection" \in order.named THEN grants.held ELSE {})
         /\ order.service[1] \notin NeverDomains /\ order.service \notin NeverServices
         /\ order.service \in SensitiveServices \/ order.service[1] \in SensitiveDomains => order.open
         /\ \/ order.service \in RoutineServices \cup SensitiveServices
            \/ order.service[1] \in SensitiveDomains
    /\ order.action \notin RetiredActions \cup Unsupported
    /\ order.action \in OptInActions => order.opted
    /\ order.action \in GuardedActions /\ ~order.open =>
         order.shape = "plain" /\ order.updates # "off"
    /\ order.action \in SensitiveActions \ GuardedActions => order.open
    /\ order.action = "blueprint_install" /\ order.shape = "extra" => order.open
=============================================================================
