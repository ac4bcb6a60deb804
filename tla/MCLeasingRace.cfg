\* One job, three workers, transactions interleaved inside the reaper's statements, fairness:
\* what fencing guarantees whatever the reaper overwrites.
CONSTANTS
  Jobs = {j1}
  NoJob = NoJob
  Workers = {w1, w2, w3}
  Phases = {"PLANNING"}
  MaxAttempts = 2
  Batch = 1
  MaxClaims = 3
  MaxUnits = 2
SPECIFICATION FairSpec
INVARIANTS TypeOK OneOwner
PROPERTIES ProgressKept OrphanRecovered
