SPECIFICATION SpecKeeping
CONSTANTS
  Thread = {t1, t2, t3, t4}
  max_size = 2
  MaxBorrow = 8
PROPERTIES WaitsUntilRelease
CHECK_DEADLOCK FALSE
