SPECIFICATION Spec
CONSTANTS
  SizeT = 16777216
  UInt32 = 16777216
  Word = 16777216
  Sentinel <- MCSentinel
  bucket_count_ = 3
  bucket_size_ = 10
  Memories <- MCMemories
  Unreadables <- MCUnreadables
  Blank = Blank
  SentinelLine = SentinelLine
INVARIANTS
  ListingSound
PROPERTY AllocatorWhole
