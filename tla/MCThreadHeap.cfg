SPECIFICATION Spec
CONSTANTS
  page_header_size = 2104
  object_header_size = 8
  SizeT = 4194304
  Word = 4194304
  IndexSize = 16
  Memories <- MCMemories
  Unreadables <- MCUnreadables
  Blank = Blank
  Unnamed = Unnamed
INVARIANTS
  PoolAgrees
  PagesPlaced
PROPERTY HeapWhole
