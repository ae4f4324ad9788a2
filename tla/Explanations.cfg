SPECIFICATION TwoStarts
CONSTANTS
  alice = alice
  bob = bob
  key1 = key1
  key2 = key2
  none = none
  None = none
  Users <- TwoUsers
  Keys <- TwoKeys
  MaxTerms = 2
  Granted = 1
  MaxAsks = 2
  MaxFaults = 1
INVARIANTS PaidIsStored OnePayer ReservedExact MergedIntoReady
PROPERTIES ReadyKept PendingSettles
CHECK_DEADLOCK FALSE
