--------------------------- MODULE IntegrationSetup ---------------------------
(***************************************************************************)
(* integration_setup (integration_cmds.py): a custom integration's config  *)
(* flow is walked through with the answers a blueprint supplies, or        *)
(* abandoned.  Home Assistant's flows are external; of what a flow shows   *)
(* only its kind matters, and for a form whether the answers fit.          *)
(***************************************************************************)
EXTENDS Naturals

CONSTANTS MaxSteps,    \* forms answered in one command (the code's MAX_STEPS)
          MaxFlows     \* bound: commands

ASSUME MaxStepsAssumption == MaxSteps \in Nat \ {0}

VARIABLES flow,    \* Home Assistant: the integration's flow and entry
          setup    \* the command, with its last answer

flowVars == <<flow, setup>>

(* A form that can be answered, one that asks for what is not supplied,    *)
(* one that rejects what was; progress, an external step or a menu.        *)
Forms == {"form", "form asks", "form rejects"}
Kinds == Forms \cup {"menu", "create_entry", "abort done", "abort"}

FlowInit ==
  /\ flow \in [entry : BOOLEAN, open : {FALSE}, ours : {FALSE}, commands : {0}]
  /\ setup = [at |-> "idle", steps |-> 0, said |-> "none", lost |-> FALSE]

FlowSays(said) == setup' = [setup EXCEPT !.at = "idle", !.said = said]
FlowTo(at) == setup' = [setup EXCEPT !.at = at]

(* A domain that is not one, not installed, built in or set up in YAML,    *)
(* answers that are not plain values; an entry that is there already.      *)
IntegrationSetUp(fits) ==
  /\ setup.at = "idle" /\ flow.commands < MaxFlows
  /\ flow' = [flow EXCEPT !.commands = @ + 1, !.ours = FALSE, !.open = FALSE]
  /\ setup' = [at |-> IF fits /\ ~flow.entry THEN "starting" ELSE "idle", steps |-> 0,
               said |-> IF ~fits THEN "refused" ELSE IF flow.entry THEN "present" ELSE "none",
               lost |-> FALSE]

(* What Home Assistant does when a flow shows this.                        *)
Shows(kind) ==
  /\ kind = "abort done" => flow.entry
  /\ flow' = [flow EXCEPT !.open = kind \in Forms \cup {"menu"},
                          !.entry = @ \/ kind = "create_entry",
                          !.ours = @ \/ kind = "create_entry"]

(* One turn of the loop, on what the flow shows.                           *)
Judge(kind, s) ==
  setup' = [s EXCEPT !.at = CASE kind \in {"create_entry", "abort done", "abort"} -> "idle"
                              [] kind = "form" -> "stepping"
                              [] OTHER -> "abandoning",
                     !.said = CASE kind = "create_entry" -> "created"
                                [] kind = "abort done" -> "present"
                                [] kind = "abort" -> "failed"
                                [] OTHER -> "none"]

FlowStarted(kind) == setup.at = "starting" /\ Shows(kind) /\ Judge(kind, setup)
FlowRefused == setup.at = "starting" /\ FlowSays("failed") /\ UNCHANGED flow

(* Mutant: a step that is refused ends the command there.                  *)
StepRefusedLeft == setup.at = "stepping" /\ FlowSays("failed") /\ UNCHANGED flow

(* A form answered: what comes next is judged, unless the steps are used   *)
(* up, which abandons the flow whatever it shows.                          *)
Stepped(kind) ==
  /\ setup.at = "stepping"
  /\ Shows(kind)
  /\ LET s == [setup EXCEPT !.steps = @ + 1]
     IN  IF s.steps = MaxSteps THEN setup' = [s EXCEPT !.at = "abandoning"] ELSE Judge(kind, s)
StepRefused == setup.at = "stepping" /\ FlowTo("abandoning") /\ UNCHANGED flow

(* _abandon: the flow is deleted; whether that worked is not looked at.    *)
Abandoned(ok) ==
  /\ setup.at = "abandoning"
  /\ flow' = [flow EXCEPT !.open = @ /\ ~ok]
  /\ setup' = [setup EXCEPT !.at = "idle", !.said = "failed", !.lost = ~ok]

(* A call raises, or the agent's entry is unloaded: the command ends, and  *)
(* what it asked for may have been done.                                   *)
FlowLost(kind) ==
  /\ setup.at # "idle"
  /\ setup' = [setup EXCEPT !.at = "idle", !.said = "failed", !.lost = TRUE]
  /\ \/ UNCHANGED flow
     \/ setup.at # "abandoning" /\ Shows(kind)

(* The household sets the integration up, or removes it, on its own.       *)
HouseholdSetsUp ==
  /\ flow' = [flow EXCEPT !.entry = ~@, !.ours = FALSE]
  /\ UNCHANGED setup

FlowNext ==
  \/ \E fits \in BOOLEAN : IntegrationSetUp(fits)
  \/ \E kind \in Kinds : FlowStarted(kind) \/ Stepped(kind) \/ FlowLost(kind)
  \/ FlowRefused \/ StepRefused \/ HouseholdSetsUp
  \/ \E ok \in BOOLEAN : Abandoned(ok)

-----------------------------------------------------------------------------
(* integration_cmds.py:28-30 ("abandoned and reported, never               *)
(* half-completed"): a command that answered leaves no flow of its own     *)
(* open, and an entry it made is one it says it made.  A call that raised, *)
(* a deletion that failed, and a flow that ends on the very last step are  *)
(* left out: the last is answered as unfinished although it was set up.    *)
FlowEnds ==
  setup.at = "idle" /\ ~setup.lost =>
    /\ ~flow.open
    /\ flow.ours => setup.said = "created" \/ setup.steps = MaxSteps
=============================================================================
