SPECIFICATION FairSpec
CONSTANTS
  c1 = c1
  c2 = c2
  h1 = h1
  k1 = k1
  NoKey = NoKey
  Cards = {c1, c2}
  HighRisk = {c1}
  Clients = {h1}
  Actions = {"approve", "reject"}
  Keys = {k1}
  TTL = 1
  ManagerTTL = 1
  Retention = 1
  MaxCards = 1
  MaxClock = 3
  MaxCrashes = 1
PROPERTY EveryCardCloses
