SPECIFICATION FairSpec
CONSTANTS
  r1 = r1
  r2 = r2
  t1 = t1
  t2 = t2
  t3 = t3
  Relays = {r1, r2}
  MaxId = 2
  BatchSize = 2
  UseLock = TRUE
  LockTTL = 1
  Tokens = {t1, t2, t3}
  NoToken = NoToken
INVARIANTS PublishedIffSent OldestFirst NoDuplicateWithoutFault
PROPERTY EventuallyPublished
