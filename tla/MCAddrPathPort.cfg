SPECIFICATION Spec
CONSTANTS
  V4 <- MCV4
  V6 <- MCV6
  Port <- MCPort
INVARIANTS PortAsDecoded
CHECK_DEADLOCK FALSE
