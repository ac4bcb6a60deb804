\* One worker, two requests, a free and a paid provider.
CONSTANTS
  Workers = {w1}
  Requests = {r1, r2}
  free = free
  paid = paid
  Waterfall <- FreeThenPaid
  Price <- HunterPrice
  Booked <- HunterPrice
  Budget = 1
  MaxCalls = 5
  MaxAborts = 2
SPECIFICATION Spec
INVARIANTS ReplaysAreRollbacks
PROPERTIES SpendingIsFinal
