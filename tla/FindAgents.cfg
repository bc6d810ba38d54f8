SPECIFICATION AgentSpec
CONSTANTS
  c1 = c1  c2 = c2
  AgentCalls = {c1, c2}
  AgentOf <- MCAgentOf
  Deployments <- MCDeployments
CHECK_DEADLOCK FALSE
INVARIANT KnownAgentsAreLetIn
