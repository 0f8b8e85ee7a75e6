SPECIFICATION HSpec
CONSTANTS
  decl = decl
  stream = stream
  viewport = viewport
  matrix = matrix
  null = null
  v1 = v1
  v2 = v2
  d0 = d0
  d1 = d1
  b1 = b1
  None = None
  Null = null
  VertexDecl = decl
  DefaultDesc = d0
  Value <- MCValue
  SlotValue <- MatrixValue
  Block <- MCBlock
  LightDesc <- MCLightDesc
  FastSkip = TRUE
  Key <- JustMatrix
  TransformKey <- JustMatrix
  UpDrawKey <- NoKey
  TargetKey <- NoKey
  ResetKey <- NoKey
  ResetSetterKey <- NoKey
  BlockTypeKey <- NoneTypeKey
  StreamKey <- NoKey
  KeepOffset <- NoOffset
  LightLimit = 1
  LightsDefined = FALSE
  MaxSerial = 3
INVARIANTS FastSkipSound
