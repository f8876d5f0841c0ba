SPECIFICATION Spec
CONSTANTS
  page_header_size = 2104
  large_page_header_size = 40
  object_header_size = 8
  SizeT = 1048576
  Memories <- MCMemories
  Unreadables <- MCUnreadables
  Garbage <- MCGarbage
  Probes <- MCProbes
  Blank = Blank
INVARIANTS
  DeathExplained
  CurrentMarked
  RoundTrip
PROPERTY AnswersWhole
