SPECIFICATION Spec
CONSTANTS
  v1 = v1
  p1 = p1
  d1 = d1
  d2 = d2
  c1 = c1
  c2 = c2
  xyz = xyz
  rhw = rhw
  FixedFunction = FixedFunction
  Unknown = Unknown
  None = None
  DefaultFilter = f0
  VertexShaders = {v1}
  PixelShaders = {p1}
  Decls = {d1, d2}
  Code = {c1, c2}
  Elements = {xyz, rhw}
  PositionT = {rhw}
  Stream = {0, 1}
  Settings <- MCSettings
  Slots = {}
  Textures = {}
  Cube = {}
  Shadow = {}
  Format <- MCFormat
  MostDetailed = {0}
  Filters = {f0}
  Border = {}
INVARIANT DisabledInstancingDrawsOnce
