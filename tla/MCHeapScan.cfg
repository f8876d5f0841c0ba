SPECIFICATION Spec
CONSTANTS
  page_header_size = 2104
  object_header_size = 8
  SizeT = 524288
  PageAddress <- MCPageAddress
  Pages <- MCPages
  Unreadables <- MCUnreadables
  Args <- MCArgs
INVARIANTS
  BlocksInOrder
  StopExplained
PROPERTY ListsPage
CHECK_DEADLOCK FALSE
