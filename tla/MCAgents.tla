-------------------------------- MODULE MCAgents --------------------------------
(* Instances of the agents' host for TLC. *)
EXTENDS AgentControlProps, TLC

\* Sound where the tools are logged and seen alike and no liveness is checked.
ToolSymmetry == Permutations(Tools)

===============================================================================
