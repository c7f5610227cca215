SPECIFICATION Spec
CONSTANTS
  Grants = {g1, g2, g3, g4}
  Projects = {p1, p2}
  Callers = {alice, agent}
  Users = {alice}
  p1 = p1
  p2 = p2
  alice = alice
  agent = agent
  Access <- AgentInOne
  Requested <- Forms
  SeedConfigured = FALSE
  MaxKeys = 1
SYMMETRY GrantSymmetry
INVARIANTS TypeOK ChainsKeepProject CapabilitiesAttenuate
PROPERTY VerdictsKept
CHECK_DEADLOCK FALSE
