SPECIFICATION LingeringSpec
CONSTANTS
  m1 = m1 m2 = m2 m3 = m3 codex = codex caelis = caelis c1 = c1 c2 = c2
  Message = {m1, m2}
  Content = {c1}
  Provider = {codex, caelis}
  Nobody = Nobody
  Reader = {reader}
  Submitter = submitter
  Legacy = {}
  LegacyOutcome <- NoLegacy
  MaxFaults = 0
  MaxRestarts = 3
  MaxDeferrals = 0
INVARIANT OneRuntime
CHECK_DEADLOCK FALSE
