CONSTANTS
  world = world
  material = material
  ambient = ambient
  texture = texture
  sun = sun
  v1 = v1
  v2 = v2
  Param <- MCParam
  Held <- MCHeld
  Copied <- MCCopied
  Required <- MCRequired
  Filtered <- MCFiltered
  Matrix <- MCMatrix
  Value <- MCValue
  None = None
SYMMETRY ValueSymmetry
CONSTRAINT Followed
SPECIFICATION Spec
INVARIANT
  SkipsOnlyDuplicates
