\* The flash takes every word; power is lost during the first start.
SPECIFICATION Spec
CONSTANTS
  Size = 5
  Blocks = 6
  Values <- MCValues
  Blank = 65535
  Unwritten = Unwritten
  ConfigSize = 2
  ValidAreas <- MCAreas
  AliasWord = 0
  ProductWord = 2
  RevisionWord = 3
  Images <- MCImages
  Contents <- MCContents
  MasterValues = {79, 178}
  ReadSizes = {4, 8}
  StoreTime = 2
  WriteFails = FALSE
INVARIANT FailsOnlyOnFault
