CONSTANTS
  d1 = d1 d2 = d2 w1 = w1 w2 = w2 c1 = c1 c2 = c2 y1 = y1 y2 = y2
  Events = {1, 2} Hooks = {h1} Dispatchers = {d1, d2} MaxRounds = 2 Tries = 1 Batch = 1
  MaxSealed = 1 MaxLost = 1 Tenants = {t1} MaxAudit = 4
  Order <- MCOrder Keys <- MCKeys Limit <- MCLimit KeyCap <- MCKeyCap
  Callers = {c1, c2} DailyCalls = 3 Retries5xx = 1 MaxUnits = 2 MaxUsed = 1 MaxRoutes = 1
  Values = {v1, v2} Domains = {a1, a2} Writers = {w1, w2} MaxOps = 3 Versions = {i1, i2}
  Runs = {r1, r2, r3} Slices = {l1, l2} Patches = {p1, p2} Operators = {o1, o2} MaxCalls = 3
  Calls = {q1, q2} Subscriptions = {b1} Senders = {"s1", "s2", "s3"} Process <- MCProcess
  MaxTokens = 2 MaxSilences = 1 Syncs = {y1, y2}
  Cities <- MCCities Keywords = 3 MaxQueries = 3 Finds <- MCFinds Alike <- MCAlike
  MinBranches = 2 Credits = 1 MaxPeople = 2 Policies <- MCPolicies MaxPauses = 1
  Threads = {u1, u2} Rate = 1 Cost = 2 Second = 2 Burst = 2 MaxClock = 4 MaxAsked = 3
  Editors = {e1, e2, e3} Spellings <- MCSpellings Enabled <- MCEnabled
SPECIFICATION LegacySpec
SYMMETRY Symmetry
CHECK_DEADLOCK FALSE
INVARIANTS ProvidersAreShared AgentsAreHeld AccountsAreEarned LeadsAreSound GuardsHold
PROPERTIES EventsAreKept TruthIsEarned
