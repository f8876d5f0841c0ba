SPECIFICATION Spec
CONSTANTS
  Nothing = Nothing
  Files <- MCFiles
  Machines <- MCMachines
  Machines64 <- MCMachines64
  Supported <- MCSupported
PROPERTIES
  CleanAttemptDecides
  TellsTheTruth
  AttemptEnds
