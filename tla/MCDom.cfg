SPECIFICATION Spec
CONSTANTS
  Null = 0
  Junk = Junk
  Nodes <- MCNodes
  Heaps <- MCHeaps
  Unreadables <- MCUnreadables
INVARIANTS
  NothingForgotten
  EveryLineTrue
  LossExplained
  StartListed
PROPERTY DumpsDocument
CHECK_DEADLOCK FALSE
