CONSTANTS
  e1 = e1
  e2 = e2
  s1 = s1
  s2 = s2
  Effects = {e1, e2}
  Direct = {e2}
  Slots = {s1, s2}
  Values = {v0, v1}
  Default = v0
  Footprint <- TwoSlotFootprint
  Threads = {t1}
  GenMod = 2
  NativePolicy = TRUE
  Reentrant = FALSE
  ResetInside = FALSE
  None = None
SPECIFICATION Spec
INVARIANTS TypeOK JournaledMeansActive OneBackendOwner
PROPERTY ImplementsContract
