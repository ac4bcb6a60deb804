CONSTANTS
  q1 = q1 q2 = q2 q3 = q3 m1 = m1 m2 = m2 l1 = l1 l2 = l2
  j1 = j1 j2 = j2 p1 = p1 p2 = p2 p4 = p4
  w1 = w1 w2 = w2 g1 = g1 k1 = k1 e1 = e1 e2 = e2
  Requests = {q1, q2, q3} MaxConcurrent = 1 Managers = {m1, m2} Leads = {l1, l2}
  Policies = {"open", "closed"} Blocking = {"closed"} MaxDecisions = 4
  BatchSize = 1 MaxEmits = 2
  Miners = {j1, j2} Pages = {p1, p2, p4} Listed = {p4} MaxAttempts = 2
  Site <- MCSite Brand <- MCBrand Mailboxes <- MCMail MaskRank <- MCRank
  Watchers = {w1, w2} Readers = {g1} Stretches <- MCStretches
  Jobs = {k1} Events = {e1, e2} Faults = {"missing"}
  StreakFail = 2 Crashable = {} MaxChanges = 2 MaxTicks = 2 MaxRuns = 1
  Vars = {"EXA", "GEMINI"} MaxKeys = 2 Files <- MCFiles Modes = {"auto", "real"}
  MaxCalls = 2
SPECIFICATION ServicesSpec
SYMMETRY Symmetry
CHECK_DEADLOCK FALSE
INVARIANTS UseCasesHold IntakeIsSound KeysAreUsed
PROPERTIES OutagesReachAlerts
