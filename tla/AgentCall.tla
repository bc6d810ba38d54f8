------------------------------- MODULE AgentCall -------------------------------
(* A call of an agent, from a skill (opsswarm/skill_logic.py) through          *)
(* OpenClawClient (opsswarm/openclaw.py) and the tool allowlist                *)
(* (opsswarm/tool_allowlist.py) to a process of its own and back.  The process *)
(* belongs to the environment: it goes on working until it ends, whoever still *)
(* waits for it.  What an agent says is one member of Answers.                 *)
EXTENDS FiniteSets

CONSTANTS
  AgentCalls,    \* calls, each made once
  AgentOf,       \* openclaw.profiles: [profiles -> agents]
  Deployments    \* [enabled, file, check]: tool_allowlist.enabled, what its path holds
                 \* (absent, invalid or a list), openclaw.check_tools

VARIABLES
  allowlist,     \* of the client: a list, or its kind is "unread", "none" or "refused"
  checkTools,    \* _check_tools of the client
  agentCall,     \* [AgentCalls -> [stage, profile, outcome]]
  agent          \* [AgentCalls -> "none", "working", or what it said when it ended]
agentVars == <<allowlist, checkTools, agentCall, agent>>

\* The profiles that a skill asks: a specialist its task names, or one of these.  The
\* main_agent of the configuration is that of incident-manager.
Asked ==
  [task_graph |-> {"incident-manager"}, finding |-> DOMAIN AgentOf,
   root_cause |-> {"incident-manager"}, plan |-> {"incident-manager"},
   execution |-> {"recovery-responder"}, verification |-> {"observability-investigator"},
   extra_task |-> {"incident-manager"}, rca_report |-> {"incident-manager"}]

\* How a process may end: a return code that is not 0; output that is no JSON object,
\* not ok or without a text; a text without JSON; JSON that is not of the model; and an
\* answer of the model that claims nothing (not done, not verified, no cause) or something.
Answers == {"failed", "no_envelope", "not_ok", "no_text", "prose", "list", "invalid",
            "modest", "claim"}

Without(kind) == [kind |-> kind]
NoCall == [stage |-> "idle", profile |-> "none", outcome |-> "none"]

AgentInit ==
  /\ allowlist = Without("unread") /\ checkTools = FALSE
  /\ agentCall = [c \in AgentCalls |-> NoCall] /\ agent = [c \in AgentCalls |-> "none"]

(* ------------------------------ the allowlist ----------------------------- *)

\* ToolAllowlist.load: no file permits everything, an invalid one stops the start-up.
Deployed(d) ==
  CASE ~d.enabled \/ d.file.kind = "absent" -> Without("none")
    [] d.enabled /\ d.file.kind = "invalid" -> Without("refused")
    [] OTHER -> d.file

ReadAllowlist ==
  /\ allowlist.kind = "unread"
  /\ \E d \in Deployments :
       /\ allowlist' = Deployed(d)
       /\ checkTools' = (d.check /\ Deployed(d).kind = "list")
  /\ UNCHANGED <<agentCall, agent>>

NoSpec == [capabilities |-> {}, allowed |-> {}, denied |-> {}]

\* allowed_for: capabilities and single tools, less what is denied; a name without an
\* entry has no tools.
AllowedFor(list, name) ==
  LET spec == IF name \in DOMAIN list.profiles THEN list.profiles[name] ELSE NoSpec
      granted == UNION {list.capabilities[c] : c \in spec.capabilities \cap DOMAIN list.capabilities}
  IN  (granted \cup spec.allowed) \ spec.denied

\* check, through _check_tool_access.
Permitted(tool, name) ==
  ~checkTools \/ allowlist.kind = "none" \/ tool \in AllowedFor(allowlist, name)

\* run_text asks whether the name of the agent is a tool of the agent.
Denied(name) == ~Permitted(name, name)

(* -------------------------------- the call -------------------------------- *)

Ended(c, stage, outcome) ==
  agentCall' = [agentCall EXCEPT ![c].stage = stage, ![c].outcome = outcome]

\* A skill asks for the agent; the prompt is in a file when the process is started.
Ask(c, profile) ==
  /\ allowlist.kind \in {"none", "list"} /\ agentCall[c].stage = "idle"
  /\ agentCall' = [agentCall EXCEPT ![c] =
       IF Denied(AgentOf[profile])
       THEN [stage |-> "raised", profile |-> profile, outcome |-> "denied"]
       ELSE [stage |-> "starting", profile |-> profile, outcome |-> "none"]]
  /\ UNCHANGED <<allowlist, checkTools, agent>>

Spawn(c) ==
  /\ agentCall[c].stage = "starting"
  /\ \/ Ended(c, "running", "none") /\ agent' = [agent EXCEPT ![c] = "working"]
     \/ Ended(c, "raised", "error") /\ UNCHANGED agent
  /\ UNCHANGED <<allowlist, checkTools>>

AgentEnds(c) ==
  /\ agent[c] = "working"
  /\ \E a \in Answers : agent' = [agent EXCEPT ![c] = a]
  /\ UNCHANGED <<allowlist, checkTools, agentCall>>

\* A form named ...Bug is what a check must notice.
OverBug(c) == agentCall[c].stage = "running"
\* communicate() returns when the process has ended.
Over(c) == agentCall[c].stage = "running" /\ agent[c] \in Answers

\* run_text, then _extract_json: outside the try of the skill, so they raise.
TextRaises(a) == a \in {"failed", "no_envelope", "not_ok", "no_text"}
JsonRaises(a) == a = "prose"

\* The skill: what does not validate is replaced, never raised.  The replacement is an
\* empty task graph, a finding of confidence 0, an uncertain cause, a plan without
\* options, an execution without success, not verified, a READ investigation, or a
\* report with the cause as it was.
Taken(a) == IF a \in {"modest", "claim"} THEN a ELSE "replaced"

Answered(c) ==
  /\ Over(c)
  /\ IF TextRaises(agent[c]) \/ JsonRaises(agent[c])
     THEN Ended(c, "raised", "error") ELSE Ended(c, "returned", Taken(agent[c]))
  /\ UNCHANGED <<allowlist, checkTools, agent>>

\* timeout + 30 seconds: the wait ends, the process is not killed.
TimesOut(c) ==
  /\ agentCall[c].stage = "running" /\ Ended(c, "raised", "timeout")
  /\ UNCHANGED <<allowlist, checkTools, agent>>

\* The task of the skill is cancelled, at one of its two awaits.
CancelCall(c) ==
  /\ agentCall[c].stage \in {"starting", "running"} /\ Ended(c, "raised", "cancelled")
  /\ \/ UNCHANGED agent
     \/ agentCall[c].stage = "starting" /\ agent' = [agent EXCEPT ![c] = "working"]
  /\ UNCHANGED <<allowlist, checkTools>>

AgentNext ==
  \/ ReadAllowlist
  \/ \E c \in AgentCalls :
       \/ \E skill \in DOMAIN Asked : \E p \in Asked[skill] : Ask(c, p)
       \/ Spawn(c) \/ AgentEnds(c) \/ Answered(c) \/ TimesOut(c) \/ CancelCall(c)

AgentSpec == AgentInit /\ [][AgentNext]_agentVars

(* ------------------------------- properties ------------------------------- *)

\* Once a skill has an answer, or an error other than a timeout or a cancellation, its
\* agent does nothing more: a recovery that is taken as failed, and may be approved
\* again, is over.  And what a skill claims its agent has said, of this very call.
AnswersAreFinal ==
  \A c \in AgentCalls :
    LET call == agentCall[c]
    IN  /\ call.stage = "returned" \/ call.outcome \in {"denied", "error"}
           => agent[c] # "working"
        /\ call.outcome = "claim" => agent[c] = "claim"

\* The comments in run_text: the agent must be a known, allowlisted profile, which keeps
\* out an unknown agent.  So the agent of a profile that the list has is let in.
KnownAgentsAreLetIn ==
  \A c \in AgentCalls :
    agentCall[c].outcome = "denied" => agentCall[c].profile \notin DOMAIN allowlist.profiles

===============================================================================
