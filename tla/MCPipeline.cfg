\* One job, two workers, two queries, a crash: takeovers between any two steps, and
\* fairness.
CONSTANTS
  Jobs = {j1}
  NoJob = NoJob
  Workers = {w1, w2}
  Phases = {"PLANNING", "DISCOVERING", "ENRICHING", "VERIFYING", "SCORING", "QUALIFYING"}
  MaxAttempts = 2
  Batch = 1
  MaxClaims = 2
  MaxUnits = 20
  c1 = c1
  c2 = c2
  c3 = c3
  Companies = {c1, c2, c3}
  Results <- TwoQueries
  Unreached = {c2}
  Rejected = {c3}
  MaxCrashes = 1
SPECIFICATION PipelineFairSpec
INVARIANTS BudgetExact RunIsSound PolicyGate
PROPERTIES DoneUnlessOvertaken LifecycleSpec EveryJobEnds
