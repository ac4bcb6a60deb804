\* As MCLeasingRace with two workers: what the reaper overwrites.
CONSTANTS
  Jobs = {j1}
  NoJob = NoJob
  Workers = {w1, w2}
  Phases = {"PLANNING"}
  MaxAttempts = 2
  Batch = 1
  MaxClaims = 3
  MaxUnits = 2
SPECIFICATION Spec
PROPERTIES DoneIsFinal
