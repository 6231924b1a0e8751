SPECIFICATION Spec
CONSTANTS
  CommandLine <- MCCommandLine
  Disk <- MCDisk
  Stoi <- MCStoi
  Strict <- MCStrict
  MaxAddr = 2
PROPERTIES RetryNeverGivesUp
CHECK_DEADLOCK FALSE
