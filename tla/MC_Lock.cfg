SPECIFICATION FairSpec
CONSTANTS
  c1 = c1
  c2 = c2
  t1 = t1
  t2 = t2
  t3 = t3
  Clients = {c1, c2}
  Tokens = {t1, t2, t3}
  NoToken = NoToken
  TTLs = {0, 1, 2, 4}
  Ms = 2
INVARIANTS LeaseHonoured ExclusiveLease
PROPERTIES LostStaysLost OrphanExpires AcquireReturns
