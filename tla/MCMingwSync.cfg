SPECIFICATION Spec
CONSTANTS
  Thread = {t1, t2, t3}
  None = None
  MaxOps = 4
INVARIANTS MutexSound NotifyAllWakesAll SoundUntilLapse
PROPERTY Settles
CHECK_DEADLOCK FALSE
