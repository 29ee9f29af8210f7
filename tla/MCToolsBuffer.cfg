CONSTANTS
  Kits = {"robust"}
  Networks <- MCNetworks
  Spare <- MCSpare
  Separates <- MCSeparates
  Outside <- MCOutside
  NULL = NULL
  MaxRequests = 2
  MaxFlipped = 2
  MinEnclosed = 5
  Operands <- MCOperands
  SCALE = 2
  NoResult = NoResult
  Distances = {1, 2}
  MAX_PRECISION_DIGITS = 12
  MaxBuffers = 2
  NoGeometry = NoGeometry
  MAX_ITER = 5
  MaxNodes = 4
  PolygonLists <- MCPolygonLists
  ItemsTrees <- MCItemsTrees
  NoUnion = NoUnion
  Drawings <- MCDrawings
  Tolerances = {1, 2, 4}
  NoDrawing = NoDrawing
SPECIFICATION MCSpec
CHECK_DEADLOCK FALSE
INVARIANT BufferIsForItsDistance
