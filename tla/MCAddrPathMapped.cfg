SPECIFICATION Spec
CONSTANTS
  V4 <- MCV4
  V6 <- MCV6
  Port <- MCPort
INVARIANTS MappedIsTried
CHECK_DEADLOCK FALSE
