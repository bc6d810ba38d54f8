------------------------------ MODULE MCServices -------------------------------
(* The parts around the lifecycle of a run, in one instance: the evidence log  *)
(* (two processes), the lease on a run (three instances, of which one's clock  *)
(* is ahead and one's behind), the HTTP ingress (two requests at a time), the  *)
(* poll of check runs and the call of an agent.  They share no variable, so a  *)
(* behaviour runs one of them while the others are as they were at the start.  *)
EXTENDS EvidenceLog, RunLease, Ingress, CheckPoll, AgentCall, TLC

CONSTANTS s1, s2, i1, i2, i3, p1, p2, c1

\* The stores and the requests are the same two values, so one group is enough.
Alike == Permutations({s1, s2})

\* Of RunLease.
MCSkew == i1 :> 0 @@ i2 :> 2 @@ i3 :> -1

\* Of EvidenceLog: a payload has the fields its kind has in the code that the signature
\* tells apart.  RecoveryPlan.model_dump() has options, and no field option_ids.
Finding(task, text) ==
  [kind |-> "finding", fields |-> [task_id |-> task, finding |-> text, confidence |-> 1]]
Checkpoint(state) ==
  [kind |-> "checkpoint", fields |-> [checkpoint_type |-> "STATE", payload |-> state]]
PlanOf(option) == [kind |-> "plan", fields |-> [options |-> option, confidence |-> 1]]
MCPayloads ==
  {Finding("T1", "disk"), Checkpoint("FAILED"), PlanOf("restart"), PlanOf("rollback")}

\* Of Ingress: tokens for the endpoint and for another one, of a scope that may and of one
\* that may not, of now and of a time to come; an API key; three ways to deploy the process.
Token(scope, for, at) == [kind |-> "token", scope |-> scope, for |-> for, at |-> at]
Key(scope) == [kind |-> "key", scope |-> scope, for |-> "none", at |-> 0]
MCCredentials ==
  {NoCredential, Key("read"),
   Token("monitor", "monitoring", 1), Token("admin", "monitoring", 1),
   Token("write", "runs", 1), Token("write", "resume", 4), Token("admin", "metrics", 1)}
MCPlain == [production |-> FALSE, secret |-> FALSE, keys |-> {"write"}, ha |-> FALSE]
MCConfigs ==
  {MCPlain,
   [production |-> TRUE, secret |-> TRUE, keys |-> {"read"}, ha |-> TRUE],
   [production |-> TRUE, secret |-> FALSE, keys |-> {}, ha |-> FALSE]}
MCChains == {<<>>, <<p1, p2>>}

\* Of AgentCall: a list in which agents have entries of their own, with and without what
\* run_text asks for, and one that is missing from it.
MCAgentOf ==
  "incident-manager" :> "manager" @@ "observability-investigator" :> "observer"
  @@ "recovery-responder" :> "responder"
MCList ==
  [kind |-> "list", capabilities |-> [agents |-> {"manager", "observer"}],
   profiles |-> [manager |-> [capabilities |-> {"agents"}, allowed |-> {}, denied |-> {}],
                 observer |-> [capabilities |-> {"agents"}, allowed |-> {},
                               denied |-> {"observer"}]]]
MCDeployments ==
  {[enabled |-> e, file |-> f, check |-> k] :
     e \in BOOLEAN, f \in {Without("absent"), Without("invalid")}, k \in BOOLEAN}
  \cup {[enabled |-> e, file |-> MCList, check |-> k] : e \in BOOLEAN, k \in BOOLEAN}

ServicesVars == <<vars, leaseVars, ingressVars, pollVars, agentVars>>
ServicesInit == Init /\ LeaseInit /\ IngressInit /\ PollInit /\ AgentInit
LogRests == Init /\ UNCHANGED vars
LeaseRests == LeaseInit /\ UNCHANGED leaseVars
\* In one of the ways to deploy it: the others make no difference to the rest.
IngressRests == IngressInit /\ config = MCPlain /\ UNCHANGED ingressVars
PollRests == PollInit /\ UNCHANGED pollVars
AgentRests == AgentInit /\ UNCHANGED agentVars
ServicesNext ==
  \/ LeaseRests /\ IngressRests /\ PollRests /\ AgentRests /\ Next
  \/ LogRests /\ IngressRests /\ PollRests /\ AgentRests /\ LeaseNext
  \/ LogRests /\ LeaseRests /\ PollRests /\ AgentRests /\ IngressNext
  \/ LogRests /\ LeaseRests /\ IngressRests /\ AgentRests /\ PollNext
  \/ LogRests /\ LeaseRests /\ IngressRests /\ PollRests /\ AgentNext
ServicesSpec == ServicesInit /\ [][ServicesNext]_ServicesVars

===============================================================================
