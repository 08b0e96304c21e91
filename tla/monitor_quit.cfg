CONSTANTS
  NR_WP = 1
  Null = Null
  Expr = {"e"}
  Val = {0, 1}
  Forever = Forever
  Step = {0, 1, 2}
SPECIFICATION MonitorSpec
INVARIANT BadIsBad
