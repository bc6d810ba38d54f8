-------------------------------- MODULE Policy --------------------------------
(* The policy decisions of the orchestrator (opsswarm/policy.py and           *)
(* opsswarm/registry.py) as operators.  An option of a recovery plan is known *)
(* here by the three things the policy looks at: the risk label the model     *)
(* wrote on it, the registry rules its description matches, and the risk the  *)
(* keyword heuristic gives it.                                                *)
EXTENDS Naturals, Integers, Sequences

CONSTANTS
  Options,        \* remediation options the planner may propose
  Label,          \* [Options -> Risk], RemediationOption.risk
  Rules,          \* CapabilityRegistry.rules in their order; none without a registry
  Heuristic,      \* [Options -> Risk], PolicyEngine.classify_operation
  PolicyTable     \* [Risk -> actions], the `policy:` section of the config

Risk == {"read", "safe_write", "risky_write", "destructive"}
NoRule == "no_rule"
PolicyActions == {"AUTO", "HUMAN_APPROVAL", "DENY"}

ASSUME PolicyConstants ==
  /\ Label \in [Options -> Risk]
  /\ Rules \in Seq([risk: Risk, matches: SUBSET Options])
  /\ Heuristic \in [Options -> Risk]
  /\ PolicyTable \in [Risk -> PolicyActions]

RiskOrder ==
  [r \in Risk |-> CASE r = "read"        -> -1
                    [] r = "safe_write"  -> 0
                    [] r = "risky_write" -> 1
                    [] r = "destructive" -> 2]

Action(risk) == PolicyTable[risk]

\* The first rule that matches decides.
Lookup(o) ==
  LET hits == {i \in DOMAIN Rules : o \in Rules[i].matches}
  IN  IF hits = {} THEN NoRule
      ELSE Rules[CHOOSE i \in hits : \A j \in hits : i <= j].risk

(* The registry wins on a match; otherwise the heuristic may only escalate    *)
(* the model's label.                                                         *)
EffectiveRisk(o) ==
  IF Lookup(o) # NoRule THEN Lookup(o)
  ELSE IF RiskOrder[Heuristic[o]] > RiskOrder[Label[o]] THEN Heuristic[o]
  ELSE Label[o]

Denied(o) == Action(EffectiveRisk(o)) = "DENY"

(* A plan is [askHuman |-> BOOLEAN, options |-> sequence of options].          *)
ClassifyPlan(plan) ==
  CASE plan.askHuman -> "INPUT"
    [] ~plan.askHuman /\ plan.options = <<>> -> "DENY"
    [] ~plan.askHuman /\ Len(plan.options) > 1 -> "DECISION"
    [] OTHER -> LET a == Action(Label[plan.options[1]])
                IN  IF a = "HUMAN_APPROVAL" THEN "APPROVAL" ELSE a

===============================================================================
