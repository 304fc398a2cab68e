SPECIFICATION Spec
CONSTANTS
  c1 = c1
  h1 = h1
  h2 = h2
  k1 = k1
  k2 = k2
  NoKey = NoKey
  Cards = {c1}
  HighRisk = {c1}
  Clients = {h1, h2}
  Actions = {"approve", "reject"}
  Keys = {k1, k2}
  TTL = 1
  ManagerTTL = 1
  Retention = 1
  MaxCards = 1
  MaxClock = 2
  MaxCrashes = 0
SYMMETRY ClientSymmetry
INVARIANTS SingleVerdict ReplayFaithful AuthorityMatches
PROPERTY LifecycleSpec
