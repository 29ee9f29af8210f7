CONSTANTS
  Parts = {"small", "strtree"}
  IndexKinds = {"bintree", "quadtree", "packed", "sirtree", "sweepline"}
  Extents <- MCExtents
  MaxEntries <- MCMaxItems
  DefaultExtent = 4
  SIRNodeCapacity = 2
  Leftovers <- MCLeftovers
  Places <- MCPlaces
  NodeCapacity = 2
  MaxItems = 5
  Boxes <- MCBoxes
SPECIFICATION MCSpec
CONSTRAINT InOrder
CHECK_DEADLOCK FALSE
INVARIANTS TreesSound OverlapsOnce TreeSound
PROPERTIES IndexContract AnswersMeet HalvingEnds Contract
