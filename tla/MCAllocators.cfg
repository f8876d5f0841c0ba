SPECIFICATION Spec
CONSTANTS
  fast_malloc = fast_malloc
  buffer = buffer
  layout = layout
  Unset = Unset
  Generic <- MCGeneric
  Specific <- MCSpecific
  Store <- MCStore
  Place <- MCPlace
  Builds <- MCBuilds
INVARIANTS
  NeverWrongBuckets
  CleanSessionLists
