CONSTANTS
  Jobs = {j1} Workers = {w1} MaxAttempts = 2 PlanLimit = 2 MaxSteps = 1
  Subjects = {1} Causes = {"answer"} MaxFaults = 2 MaxReopened = 1
  Events = {1, 2} Hooks = {h1} Dispatchers = {d1, d2} MaxRounds = 2 Tries = 1 Batch = 1
  MaxSealed = 0 MaxLost = 0 Tenants = {t1} MaxAudit = 0
  Relays = {w1, w2} NEvents = 2 RelayBatch = 2 ConsumerAttempts = 2 MaxCrashes = 1
SPECIFICATION LiveSpec
CHECK_DEADLOCK FALSE
INVARIANTS NoEventLost DeadLettersEarned PoisonStops
PROPERTIES EveryEventSettles OrphansReclaimed WorkIsServed EventsSettle
