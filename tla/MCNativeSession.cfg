SPECIFICATION Spec
CONSTANTS
  Conn = {c1, c2}
  Room <- MCRoom
  Seed = {1}
INVARIANTS Ownership KeyAgreement
PROPERTIES  StarvedForever SetupSettles
CHECK_DEADLOCK FALSE
