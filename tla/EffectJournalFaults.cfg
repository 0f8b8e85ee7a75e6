CONSTANTS
  e1 = e1
  e2 = e2
  s1 = s1
  s2 = s2
  Effects = {e1, e2}
  Direct = {e2}
  Slots = {s1}
  Values = {v0}
  Default = v0
  Footprint <- MCFootprint
  Threads = {t1, t2}
  GenMod = 3
  NativePolicy = TRUE
  Reentrant = TRUE
  ResetInside = TRUE
  None = None
SPECIFICATION Spec
INVARIANTS StampsCurrent BackendClaimed
PROPERTIES StrandedFrozen LossesReported
