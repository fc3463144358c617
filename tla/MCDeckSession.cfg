SPECIFICATION Spec
CONSTANTS
  f1 = f1
  f2 = f2
  c1 = c1
  c2 = c2
  None = None
  Flow = {f1, f2}
  Conn = {c1, c2}
  MaxPings = 2
  MissLimit = 3
  Backoff = 2
INVARIANTS
  TypeOK
  RetryOnlyWhenWanted
  NotStuck
PROPERTIES
  DeadIsNoticed
