SPECIFICATION FairSpec
CONSTANTS
  p1 = p1 p2 = p2 p3 = p3 e1 = e1 e2 = e2 e3 = e3 g1 = g1 g2 = g2 g3 = g3
  Plan = {p1, p2}
  Event = {e1, e2}
  Grant = {g1, g2}
  Kind <- SettlingKind
  EventOf <- SettlingEvent
  GrantOf <- OwnGrants
  Seconds <- Zero
  Lifetime <- Two
  Cooldown <- Zero
  Pendency <- One
  Window = 2
  WakeLife = 1
  Policies <- TwoPolicies
  FirstPolicy <- Strict
  MaxActive = 2
  Imported = {}
  Legacy <- NoImport
  ImportOcc <- NoImport
  Removable = {}
  Answers = {"match", "nonterminal", "condition_error"}
  Retaining = TRUE
  MaxOcc = 2
  MaxTime = 2
  MaxCrashes = 1
PROPERTIES WakeBudget PendingSettles
