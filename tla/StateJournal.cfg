SPECIFICATION HSpec
CONSTANTS
  decl = decl
  stream = stream
  viewport = viewport
  matrix = matrix
  null = null
  v1 = v1
  v2 = v2
  d0 = d0
  d1 = d1
  b1 = b1
  None = None
  Null = null
  VertexDecl = decl
  DefaultDesc = d0
  Value <- MCStreamValue
  SlotValue <- WideSlotValue
  Block <- MCBlock
  LightDesc <- MCLightDesc
  FastSkip = TRUE
  Key <- WideKey
  TransformKey <- JustMatrix
  UpDrawKey <- JustStream
  TargetKey <- JustViewport
  ResetKey <- JustViewport
  ResetSetterKey <- JustStream
  BlockTypeKey <- WideBlockTypeKey
  StreamKey <- JustStream
  KeepOffset <- MCKeepOffset
  LightLimit = 1
  LightsDefined = FALSE
  MaxSerial = 4
CONSTRAINT OneGroup
INVARIANTS TypeOK SkipMissesUndefinedOnly FastSkipInv
PROPERTIES FullRestoreExact SelectiveRestoreExact
