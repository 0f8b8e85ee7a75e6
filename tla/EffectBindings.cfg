SPECIFICATION Spec
CONSTANTS
  t1 = t1
  t2 = t2
  e1 = e1
  e2 = e2
  e3 = e3
  a1 = a1
  a2 = a2
  None = None
  Gone = Gone
  Thread <- TwoThreads
  Effect <- ThreeEffects
  Address <- TwoAddresses
SYMMETRY Interchangeable
INVARIANTS TypeOK BindingsInPlace BindingInv
PROPERTY FindsOwnBinding
\* After every effect is gone nothing is left to do.
CHECK_DEADLOCK FALSE
