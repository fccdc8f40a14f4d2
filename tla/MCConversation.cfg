CONSTANTS
  m1 = m1
  m2 = m2
  r1 = r1
  r2 = r2
  s1 = s1
  s2 = s2
  None = None
  Requests = {r1, r2}
  Sessions = {s1, s2}
  Models = {m1, m2}
  SecretaryRoute <- Fast
  MediumRoute <- Slow
  AgentRoute <- Agents
  FailureThreshold = 2
  RecoveryThreshold = 1
  Demo = {m2}
  Watched = {m2}
  MaxChecks = 1
  Local = {m2}
  Capable = {m1, m2}
  Preauthorized = TRUE
  Window = 2
  MaxCalls = 1
SPECIFICATION NewSpec
SYMMETRY Symmetry
INVARIANTS
  OneAnswer
  NoSecondEffect
PROPERTY VoiceKept
CHECK_DEADLOCK FALSE
