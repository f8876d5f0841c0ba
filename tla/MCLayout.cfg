SPECIFICATION Spec
CONSTANTS
  Null = 0
  NoName = NoName
  Nodes <- MCNodes
  Container <- MCContainer
  Leaf <- MCLeaf
  Foreign <- MCForeign
  Garbage = {0, 102}
  Heaps <- MCHeaps
  Unreadables <- MCUnreadables
INVARIANTS
  EveryLineTrue
  LossExplained
PROPERTY DumpsDocument
CHECK_DEADLOCK FALSE
