CONSTANTS
  Parts = {"catalogue", "shift", "transform"}
  conus = conus
  alaska = alaska
  NIL = NIL
  Junk = Junk
  Name <- MCName
  NadGrids <- MCNadGrids
  MaxSub = 2
  SlotsAdded = 2
  wide = wide
  sub1 = sub1
  sub2 = sub2
  old = old
  inner = inner
  outer = outer
  coarse = coarse
  HUGE = HUGE
  NULL = NULL
  MaxPoints = 2
  Grid <- MCGrid
  FileOf <- MCFileOf
  Format <- MCFormat
  Children <- MCChildren
  Loc <- MCLoc
  CoverOf <- MCCovers
  Inside <- MCInside
  Iteration <- MCIteration
  TableLists <- MCTableLists
  MaxTry = 2
  System <- MCSystem
  Lost = Lost
  Definitions <- MCDefinitions
  InitFile <- MCInitFile
  MAX_ARG = 4
SPECIFICATION MCSpec
INVARIANTS
  NoDangling CatalogueSound LoadedOnce AnswerInOrder
  KeepsContract FirstUsableTable ShiftSound
  TransformSound ArrivesOnSuccess InitClean HandleAsDefined
PROPERTIES
  AnswerComplete RequestReturns
  ReadBeforeUse ShiftReturns
  HugeStays CallReturns
