SPECIFICATION Spec
CONSTANTS
  p1 = p1 p2 = p2 p3 = p3 e1 = e1 e2 = e2 e3 = e3 g1 = g1 g2 = g2 g3 = g3
  Plan = {p1, p2}
  Event = {e1, e2}
  Grant = {g1}
  Kind <- NativeKind
  EventOf <- NativeEvent
  GrantOf <- NativeGrants
  Seconds <- Zero
  Lifetime <- Two
  Cooldown <- Zero
  Pendency <- One
  Window = 3
  WakeLife = 1
  Policies <- OnePolicy
  FirstPolicy <- Strict
  MaxActive = 3
  Imported = {p1, p2}
  Legacy <- NativeLegacy
  ImportOcc <- NativeOcc
  Removable = {p1}
  Answers = {"match"}
  Retaining = FALSE
  MaxOcc = 3
  MaxTime = 1
  MaxCrashes = 1
INVARIANTS Reopenable OneOpenReceipt
PROPERTIES RevokesSettled
