SPECIFICATION Spec
CONSTANTS
  SizeT = 16777216
  UInt32 = 16777216
  Sentinel <- MCSentinel
  Memories <- MCMemories
  Unreadables <- MCUnreadables
  Args <- MCArgs
  ByteSwap <- MCByteSwap
INVARIANTS
  FreeListShown
  RoundTrip
  BucketShown
  RaisedExplained
  SuperPageAgrees
PROPERTY CommandEnds
