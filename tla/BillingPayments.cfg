SPECIFICATION Spec
CONSTANTS
  first = first
  second = second
  gift = gift
  part = part
  whole = whole
  other = other
  request1 = request1
  request2 = request2
  basic = basic
  none = none
  Checkouts <- TwoCheckouts
  Grants <- OneGrant
  Transfers <- ThreeTransfers
  For <- TransferFor
  Short <- ShortTransfers
  Handlers <- TwoHandlers
  Plans <- OnePlan
  Days <- PlanDays
  OrderTtl = 1
  Grace = 0
  Window = 1
  MaxClock = 2
  None = none
SYMMETRY HandlerSymmetry
INVARIANTS PeriodsDisjoint AccessIsPaid RunningNotExpired AnsweredIsSettled
PROPERTIES ReceiptKept ImplementsAccess
CHECK_DEADLOCK FALSE
