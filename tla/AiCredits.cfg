SPECIFICATION FairSpec
CONSTANTS
  answer = answer
  overview = overview
  worker = worker
  http = http
  cron = cron
  order = order
  none = none
  Keys <- BothKeys
  Cost <- BothCost
  MaxCost = 2
  Settlers <- TwoSettlers
  Scope <- SharedScope
  Cron = cron
  Orders <- MCOrders
  FreeGrant = 2
  PlanGrant = 3
  DayLength = 2
  PlanLength = 2
  Ttl = 1
  Minimums <- MCMinimums
  MaxClock = 2
  MaxSkew = 0
  NoRef = none
INVARIANTS WithinGrant CurrentCycleUsable PurchaseNeverConflicts LedgerExact NoOverspend
PROPERTIES DueIsSettled ChargedOnce ReleasedOnce ImplementsLedger
CHECK_DEADLOCK FALSE
