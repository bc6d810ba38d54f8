------------------------------ MODULE MCAgentCall ------------------------------
(* The calls of agents as config/production.yaml and the list it names,        *)
(* config/tool-allowlist.yaml, have them: the list has an entry for each       *)
(* profile, under the name of the profile, with the tools it works with.       *)
EXTENDS AgentCall, TLC

CONSTANTS c1, c2

MCAgentOf ==
  "incident-manager" :> "opsswarm-incident-manager"
  @@ "observability-investigator" :> "opsswarm-observability-investigator"
  @@ "recovery-responder" :> "opsswarm-recovery-responder"

Entry(capabilities, denied) ==
  [capabilities |-> capabilities, allowed |-> {}, denied |-> denied]
MCList ==
  [kind |-> "list",
   capabilities |-> "read-only" :> {"read_logs"} @@ "write-rollout" :> {"rollout_undo"},
   profiles |-> "incident-manager" :> Entry({"read-only"}, {})
                @@ "observability-investigator" :> Entry({"read-only"}, {})
                @@ "recovery-responder" :> Entry({"read-only", "write-rollout"}, {})]
MCDeployments == {[enabled |-> TRUE, file |-> MCList, check |-> TRUE]}

===============================================================================
