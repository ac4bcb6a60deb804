\* The owner and a zombie, two cities, a key for each, one fault, and fairness.
CONSTANTS
  Workers = {w1, w2}
  NoWorker = NoWorker
  c1 = c1
  c2 = c2
  CityList <- TwoCities
  NumKeys = 2
  Balance = 4
  Floor = 1
  Estimate = 2
  Credits <- Usage
  MaxAttempts = 2
  MaxFaults = 1
SPECIFICATION FairSpec
INVARIANTS StageIsSound NeverOvercharged
PROPERTIES EndsUnlessStarved
