SPECIFICATION FairSpec
CONSTANTS
  m1 = m1 m2 = m2 m3 = m3 codex = codex caelis = caelis c1 = c1 c2 = c2
  Message = {m1, m3}
  Content = {c1, c2}
  Provider = {codex, caelis}
  Nobody = Nobody
  Reader = {reader}
  Submitter = submitter
  Legacy = {m3}
  LegacyOutcome <- LegacyUnknown
  MaxFaults = 1
  MaxRestarts = 2
  MaxDeferrals = 1
INVARIANTS TypeOK AtMostOneOperation ReceiptsFinal AcceptedTrue OwnContent
PROPERTIES Refines Reconciles
CHECK_DEADLOCK FALSE
