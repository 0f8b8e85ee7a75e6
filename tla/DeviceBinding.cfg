SPECIFICATION Spec
CONSTANTS
  v1 = v1
  p1 = p1
  d1 = d1
  d2 = d2
  c1 = c1
  c2 = c2
  xyz = xyz
  rhw = rhw
  FixedFunction = FixedFunction
  Unknown = Unknown
  None = None
  DefaultFilter = f0
  VertexShaders = {v1}
  PixelShaders = {p1}
  Decls = {d1, d2}
  Code = {c1, c2}
  Elements = {xyz, rhw}
  PositionT = {rhw}
  Stream = {1}
  Settings <- MCSettings
  Slots = {s1}
  Textures = {t1, t2, t3}
  Cube = {t1}
  Shadow = {t2}
  Format <- MCFormat
  MostDetailed = {0, 1}
  Filters = {f0, f1}
  Border = {f1}
CONSTRAINT OneSide
INVARIANTS TypeOK BindingsCurrent
PROPERTY ImplementsContract
