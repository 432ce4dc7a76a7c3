------------------------------- MODULE Errands -------------------------------
(***************************************************************************)
(* The manager's commands that keep nothing between them (commands.py,     *)
(* execute_command): the link's reader carries out one at a time, and a    *)
(* command of one kind touches nothing of another's.  A behaviour takes up *)
(* the commands of one kind, chosen at the start, with all that can happen *)
(* beside them; the other parts of the home stand still.                   *)
(***************************************************************************)
EXTENDS HacsToken, HacsInstall, DartecLink, Backups, IntegrationSetup, Gates, Inventory

VARIABLE errand     \* the kind of the commands
VARIABLE compared   \* for the comparison of versions: what is compared

errandVars == <<errand, compared, tokenVars, installVars, linkVars, backupVars, flowVars,
                gateVars, inventoryVars>>

Errands == {"token", "install", "link", "backup", "integration", "gates", "inventory", "versions"}

(* Model values: the releases "1", "2.0b1" and "2", a commit and a branch; *)
(* services of every tier, from the lists and by domain, with and without  *)
(* a target.                                                               *)
Version(lead, rest) == [lead |-> lead, rest |-> rest]
MCReleases == <<Version(<<1>>, <<>>), Version(<<2, 0>>, <<1>>), Version(<<2>>, <<>>)>>
MCCommit == Version(<<>>, <<1>>)
MCBranch == Version(<<>>, <<0>>)
MCServices ==
  {<<"light", "turn_on">>, <<"scene", "reload">>, <<"homeassistant", "update_entity">>,
   <<"switch", "turn_on">>, <<"switch", "turn_off">>, <<"switch", "toggle">>,
   <<"scene", "turn_on">>, <<"recorder", "purge">>, <<"lock", "unlock">>,
   <<"climate", "set_temperature">>, <<"notify", "any">>, <<"camera", "snapshot">>,
   <<"hassio", "host_shutdown">>, <<"shell_command", "any">>, <<"media_player", "play_media">>}

-----------------------------------------------------------------------------
(* One of the initial states of a part that stands still.                  *)
Still(kind, vars, state) == errand = kind \/ vars = state

Init ==
  /\ errand \in Errands
  /\ compared = <<NoVersion, NoVersion>>
  /\ TokenInit /\ Still("token", <<hacs>>,
       <<[there |-> TRUE, state |-> "loaded", data |-> Nothing, changes |-> 0]>>)
  /\ InstallInit /\ Still("install", <<repo.ours, repo.listed, repo.files>>,
       <<FALSE, FALSE, NoVersion>>)
  /\ LinkInit /\ Still("link", <<addon>>,
       <<[offered |-> FALSE, repository |-> FALSE, installed |-> FALSE, outdated |-> FALSE,
          options |-> 0, runsWith |-> 0, state |-> "stopped", touches |-> 0, tunnel |-> "none"]>>)
  /\ BackupInit /\ Still("backup", <<home.supervisor, home.folders>>, <<FALSE, {}>>)
  /\ FlowInit /\ Still("integration", <<flow.entry>>, <<FALSE>>)
  /\ GateInit /\ Still("gates",
       <<grants.window, grants.commissioning, grants.standing, grants.updates, grants.offsite,
         grants.registry, grants.held>>, <<FALSE, FALSE, FALSE, "unset", "unset", TRUE, {}>>)
  /\ InventoryInit

(* Two versions are compared, one pair after another.                      *)
Compare ==
  /\ compared = <<NoVersion, NoVersion>>
  /\ compared' \in Texts \X Texts

Next ==
  \/ /\ errand = "token" /\ TokenNext
     /\ UNCHANGED <<errand, compared, installVars, linkVars, backupVars, flowVars, gateVars,
                    inventoryVars>>
  \/ /\ errand = "install" /\ InstallNext
     /\ UNCHANGED <<errand, compared, tokenVars, linkVars, backupVars, flowVars, gateVars,
                    inventoryVars>>
  \/ /\ errand = "link" /\ LinkNext
     /\ UNCHANGED <<errand, compared, tokenVars, installVars, backupVars, flowVars, gateVars,
                    inventoryVars>>
  \/ /\ errand = "backup" /\ BackupNext
     /\ UNCHANGED <<errand, compared, tokenVars, installVars, linkVars, flowVars, gateVars,
                    inventoryVars>>
  \/ /\ errand = "integration" /\ FlowNext
     /\ UNCHANGED <<errand, compared, tokenVars, installVars, linkVars, backupVars, gateVars,
                    inventoryVars>>
  \/ /\ errand = "gates" /\ GateNext
     /\ UNCHANGED <<errand, compared, tokenVars, installVars, linkVars, backupVars, flowVars,
                    inventoryVars>>
  \/ /\ errand = "inventory" /\ InventoryNext
     /\ UNCHANGED <<errand, compared, tokenVars, installVars, linkVars, backupVars, flowVars,
                    gateVars>>
  \/ /\ errand = "versions" /\ Compare
     /\ UNCHANGED <<errand, tokenVars, installVars, linkVars, backupVars, flowVars, gateVars,
                    inventoryVars>>

Spec == Init /\ [][Next]_errandVars

-----------------------------------------------------------------------------
(* version.py:31-33, service_policy.py:354-368: the comparison of any two  *)
(* versions, and with a third, is the order of versions (ComparesTrue in   *)
(* Versions).                                                              *)
VersionsCompare ==
  errand = "versions" => \A c \in {t \in Texts : Finished(t)} : ComparesTrue(compared[1], compared[2], c)

(* registry_paging.py:80-163: PagesAddUp of Inventory, where the entities  *)
(* are what moves.                                                         *)
InventoryPagesAddUp == errand = "inventory" => PagesAddUp
=============================================================================
