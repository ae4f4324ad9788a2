SPECIFICATION Spec
CONSTANTS
  first = first
  second = second
  gift = gift
  part = part
  whole = whole
  other = other
  request1 = request1
  request2 = request2
  basic = basic
  none = none
  Checkouts <- OneCheckout
  Grants <- OneGrant
  Transfers <- OneTransfer
  For <- OneFor
  Short <- NoShort
  Handlers <- OneHandler
  Plans <- OnePlan
  Days <- PlanDays
  OrderTtl = 1
  Grace = 0
  Window = 1
  MaxClock = 3
  None = none
INVARIANT ReminderOfThisPeriod
CHECK_DEADLOCK FALSE
