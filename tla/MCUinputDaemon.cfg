SPECIFICATION FairSpec
CONSTANTS
  Daemons = {d1, d2}
  Nobody = Nobody
  Conns = {1, 2}
  NoConn = 0
  Backlog = 1
  Capacity = 1
  Counts = {1, 2}
  Limit = 2
  Retry = 1
  Budgets <- MCBudgets
INVARIANTS
  NewestServes
  HelloIsKept
PROPERTIES
  TermExits
  PickedUp
CHECK_DEADLOCK FALSE
