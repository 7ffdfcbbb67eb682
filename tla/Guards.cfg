SPECIFICATION GuardsSpec
CONSTANTS
  agentA = agentA
  agentB = agentB
  agentC = agentC
  sessionA = sessionA
  sessionC = sessionC
  Agents = {agentA, agentB, agentC}
  Sessions = {sessionA, sessionC}
  Roles = {"coordinator", "worker"}
  MaxEvents = 5
  MaxDepth = 5
  MaxChoices = 4
  MaxChanges = 3
  MaxLength = 3
INVARIANTS MasksInForce OwnPoliciesOnly LetThrough RawVerdictsTrue
CHECK_DEADLOCK FALSE
