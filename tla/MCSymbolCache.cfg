SPECIFICATION Spec
CONSTANTS
  release = release
  canary = canary
  NoImage = NoImage
  Unset = Unset
  NoName = NoName
  Images <- MCImages
  Is64bit <- MCIs64bit
  Classes <- MCClasses
  Guarded <- MCGuarded
  Roots <- MCRoots
  Specifics <- MCSpecifics
  Array <- MCArray
  Sizes <- MCSizes
  Counted <- MCSizes
  OtherCount <- MCOtherCount
  Fields <- MCFields
  OffsetOf <- MCOffsetOf
  Globals <- MCGlobals
  ValueOf <- MCValueOf
  VTables <- MCVTables
  ClassAt <- MCClassAt
  Names <- MCNames
INVARIANTS
  OffsetsExplained
  DumpRight
  AnswersFromSeen
PROPERTIES
  SpoiltOnlyByUse
  CachesWriteOnce
