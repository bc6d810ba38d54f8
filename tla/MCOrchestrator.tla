---------------------------- MODULE MCOrchestrator ----------------------------
(* Small instances of the orchestrator for TLC: constants given by name in    *)
(* the .cfg files, which differ in who writes what and in what may fail.      *)
EXTENDS OrchestratorProps, TLC

CONSTANTS h1, h2, h3, r1, r2, c1, c2, d1, d2, d3, safe, risky, wipe

Sym2 == Permutations({h1, h2})
Sym3 == Permutations({h1, h2, h3})

MCOptions == {safe, risky, wipe}
MCLabel == (safe :> "safe_write") @@ (risky :> "risky_write") @@ (wipe :> "safe_write")
\* Of two rules that match the wipe the first decides.
MCRules == <<[risk |-> "destructive", matches |-> {wipe}], [risk |-> "read", matches |-> {wipe}]>>
\* classify_operation: "patch ..." is a safe write, other text a risky one.
MCHeuristic == (safe :> "safe_write") @@ (risky :> "risky_write") @@ (wipe :> "risky_write")
\* config/production.yaml, `policy:`.
MCPolicyTable ==
  [a \in Risk |-> CASE a = "destructive" -> "DENY" [] a = "risky_write" -> "HUMAN_APPROVAL"
                    [] OTHER -> "AUTO"]

Plan(os) == [askHuman |-> FALSE, options |-> os]
AskHuman == [askHuman |-> TRUE, options |-> <<>>]
AllPlans == {Plan(<<safe>>), Plan(<<risky>>), Plan(<<safe, wipe>>), Plan(<<>>), AskHuman}

Start(d) == [name |-> "start", comment |-> NoComment, delivery |-> d,
             option |-> NoOption, permission |-> "none"]
Command(n, c, d, p) == [name |-> n, comment |-> c, delivery |-> d,
                        option |-> NoOption, permission |-> p]
Approval(o, c, d, p) == [Command("approve", c, d, p) EXCEPT !.option = o]

\* One message of every kind, two comments, a delivery that comes twice, a
\* reader who may not approve, a denied option.
MixedMessages ==
  {Start(d1), Start(d3), Command("text", c1, d2, "admin"), Approval(risky, c1, d2, "maintain"),
   Approval(risky, c1, d2, "write"), Approval(wipe, c2, d3, "admin"),
   Command("reject", c2, d3, "maintain"), Command("abort", c2, d3, "admin"),
   Command("reject", c2, d3, "write"), Command("provide", c2, d3, "read"),
   Command("provide", c2, d3, "none"), Command("investigate", c2, d3, "read"),
   Command("resume", c2, d3, "read"), Start(NoDelivery)}

\* The commands that change a run, for three requests: an approval that comes
\* again under another delivery, two commands in one comment, a delivery that
\* comes with several of them.
TrioMessages ==
  {Start(d1), Approval(risky, c1, d2, "maintain"), Approval(risky, c1, d3, "maintain"),
   Command("abort", c2, d3, "admin"), Command("resume", c2, d3, "read"),
   Command("provide", c2, d3, "read"), Command("investigate", c1, d3, "read"),
   Command("reject", c1, d3, "maintain")}
TrioPlans == {Plan(<<risky>>), AskHuman}

\* Two requests that come to an end, every command and every plan among them.
FairMessages ==
  {Start(d1), Approval(risky, c1, d2, "maintain"), Command("abort", c2, d3, "admin"),
   Command("provide", c1, d2, "read"), Command("investigate", c1, d3, "read"),
   Command("reject", c1, d3, "maintain"), Command("resume", c2, d3, "read")}
FairPlans == {Plan(<<safe>>), Plan(<<risky>>), Plan(<<>>), AskHuman}

\* The messages and the plan of the run that looks for a disagreement.
TwoApprovals == {Start(d1), Approval(risky, c1, d2, "maintain"),
                 Approval(risky, c2, d3, "maintain")}
RiskyPlan == {Plan(<<risky>>)}

===============================================================================
