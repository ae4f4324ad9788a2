SPECIFICATION Spec
CONSTANTS
  answer = answer
  overview = overview
  worker = worker
  http = http
  cron = cron
  order = order
  none = none
  Keys <- OverviewKeys
  Cost <- OverviewCost
  MaxCost = 2
  Settlers <- ThreeSettlers
  Scope <- OverviewScope
  Cron = cron
  Orders <- MCOrders
  FreeGrant = 2
  PlanGrant = 3
  DayLength = 2
  PlanLength = 2
  Ttl = 1
  Minimums <- MCMinimums
  MaxClock = 2
  MaxSkew = 0
  NoRef = none
PROPERTY ConsumeIsIdempotent
CHECK_DEADLOCK FALSE
