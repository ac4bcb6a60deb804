\* The owner of the job and a zombie on the same two effects, with maintenance
\* ticks and fairness.
CONSTANTS
  Workers = {w1, w2}
  Requests = {r1, r2}
  free = free
  paid = paid
  Waterfall <- OnlyPaid
  Price <- HunterPrice
  Booked <- HunterPrice
  Budget = 1
  MaxCalls = 3
  MaxAborts = 1
SPECIFICATION FairSpec
INVARIANTS EffectsAreSound
PROPERTIES UncertainIsReviewed
