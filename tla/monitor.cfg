CONSTANTS
  NR_WP = 3
  Null = Null
  Expr = {"e"}
  Val = {0, 1}
  Forever = Forever
  Step = {0, 1, 2}
SPECIFICATION MonitorFairSpec
INVARIANTS
  TypeOK
  PoolIntact
  MonitorTypeOK
  NothingMissed
  BatchVerdict
PROPERTIES
  Implements
  Returns
  StaysEnded
  StopsForAReason
  ComesBack
