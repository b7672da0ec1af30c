SPECIFICATION Spec
CONSTANTS
  Ids = {alice, bob, carol}
  NoId = NoId
  MaxUsers = 2
  HashSize = 2
  Home <- MCHome
  Window = 2
  Workers = {w1, w2}
  Life = 1
  KillPeriod = 0
  MaxTime = 4
INVARIANTS NoHole CacheLag RegisteredCanLogIn
PROPERTY OverwriteOnlyInWindow
SYMMETRY MCSymmetry
