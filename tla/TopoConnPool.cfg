SPECIFICATION FairSpec
CONSTANTS
  Users = {u1, u2}
  Checkers = {k1}
  Endpoints = {p1}
  Conns = {c1, c2, c3}
  None = None
  MaxDead = 1
INVARIANTS TypeOK NoUseAfterClose RefCountExact NoConnectionLeak CacheIsUsable
PROPERTIES DeadConnsClosed OpenReturns
