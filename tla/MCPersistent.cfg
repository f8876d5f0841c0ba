SPECIFICATION Spec
CONSTANTS
  kSlotCount = 3
  slot_ = 2
  node_size_ = 2
  Memories <- MCMemories
  Unreadables <- MCUnreadables
  Blank = Blank
  NotShown = NotShown
INVARIANTS
  SlotsAccounted
  BackLinked
  HandlesOfThread
PROPERTY HandlesWhole
