----------------------------- MODULE MCServices -----------------------------
(***************************************************************************)
(* Six small parts of the system that share no state, each explored by     *)
(* itself: a behaviour picks one part and stays with it.                   *)
(***************************************************************************)
EXTENDS CliRunner, Scenes, ModelConfig, Channel, Generation, Workspace

VARIABLE part

vars == <<part, cliVars, sceneVars, configVars, channelVars, genVars, workspaceVars>>

Init ==
  /\ part \in {"cli", "scenes", "config", "channel", "generation", "workspace"}
  /\ CliInit /\ ScenesInit /\ ConfigInit /\ ChannelInit /\ GenInit /\ WorkspaceInit
  /\ part # "cli" => ~shim
  /\ part # "config" => ~reachable
  /\ part # "workspace" => title = "plain"
  /\ part # "channel" => cap = (CHOOSE c \in Caps : TRUE) /\ stackOf = (CHOOSE f \in [Videos -> Stacks] : TRUE)

CliPart ==
  part = "cli" /\ CliNext /\ UNCHANGED <<part, sceneVars, configVars, channelVars, genVars, workspaceVars>>
ScenesPart ==
  part = "scenes" /\ ScenesNext /\ UNCHANGED <<part, cliVars, configVars, channelVars, genVars, workspaceVars>>
ConfigPart ==
  part = "config" /\ ConfigNext /\ UNCHANGED <<part, cliVars, sceneVars, channelVars, genVars, workspaceVars>>
ChannelPart ==
  part = "channel" /\ ChannelNext /\ UNCHANGED <<part, cliVars, sceneVars, configVars, genVars, workspaceVars>>
GenPart ==
  part = "generation" /\ GenNext /\ UNCHANGED <<part, cliVars, sceneVars, configVars, channelVars, workspaceVars>>
FolderPart ==
  part = "workspace" /\ WorkspaceNext /\ UNCHANGED <<part, cliVars, sceneVars, configVars, channelVars, genVars>>

Next == CliPart \/ ScenesPart \/ ConfigPart \/ ChannelPart \/ GenPart \/ FolderPart

\* Timeouts and timers fire, kills take effect, and Neurocore's answers or
\* errors come back.  (A call with a child never has a retry to make.)
Fairness ==
  /\ \A c \in Calls : WF_vars(CliPart /\ (RunsOut(c) \/ Dies(c) \/ Retry(c)))
  /\ \A f \in Fetchers : WF_vars(ConfigPart /\ RefreshDone(f))
  /\ WF_vars(ConfigPart /\ TimerFires) /\ WF_vars(ConfigPart /\ DemandDone)

Spec == Init /\ [][Next]_vars /\ Fairness

\* Every variable of every part keeps its type.
TypesOK == CliTypeOK /\ ScenesTypeOK /\ ConfigTypeOK /\ ChannelTypeOK /\ GenTypeOK /\ WorkspaceTypeOK
=============================================================================
