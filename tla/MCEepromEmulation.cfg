\* Two firmware images, a flash that refuses words, power lost at any step.
SPECIFICATION FairSpec
CONSTANTS
  Size = 5
  Blocks = 6
  Values <- MCValues
  Blank = 65535
  Unwritten = Unwritten
  ConfigSize = 2
  ValidAreas <- MCAreas
  AliasWord = 0
  ProductWord = 2
  RevisionWord = 3
  Images <- MCImages
  Contents <- MCContents
  MasterValues = {79, 178}
  ReadSizes = {4, 8}
  StoreTime = 2
  WriteFails = TRUE
INVARIANT TypeOK
PROPERTY ImplementsSiiMemory
PROPERTY CommandsEnd
