SPECIFICATION Spec
CONSTANTS
  p1 = p1 p2 = p2 p3 = p3 e1 = e1 e2 = e2 e3 = e3 g1 = g1 g2 = g2 g3 = g3
  Plan = {p1, p2}
  Event = {e1}
  Grant = {g1, g2}
  Kind <- RecoveryKind
  EventOf <- SharedEvent
  GrantOf <- OwnGrants
  Seconds <- RecoverySeconds
  Lifetime <- Two
  Cooldown <- Zero
  Pendency <- One
  Window = 3
  WakeLife = 1
  Policies <- PromptPolicy
  FirstPolicy <- Prompt
  MaxActive = 2
  Imported = {}
  Legacy <- NoImport
  ImportOcc <- NoImport
  Removable = {p2}
  Answers = {"match", "nomatch", "failed", "lost"}
  Retaining = TRUE
  MaxOcc = 3
  MaxTime = 2
  MaxCrashes = 1
INVARIANTS TypeOK AtMostOneWake OneShotOnce
PROPERTIES UncertainNeverRerun DurableFinality
