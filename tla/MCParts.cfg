SPECIFICATION PartsSpec
CONSTANTS
  Thread = {t1, t2, t3, t4}
  max_size = 2
  MaxBorrow = 8
INVARIANTS PoolSound ListsAreSequences DialsDestination OrdinaryIsTried SessionAgreement RoundTrip KnownAnswers
  StartsComplete OptionsAsGiven FailureReported
PROPERTIES WaitersServed
CHECK_DEADLOCK FALSE
