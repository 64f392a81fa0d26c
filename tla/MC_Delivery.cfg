SPECIFICATION DeliveryFairSpec
CONSTANTS
  r1 = r1
  t1 = t1
  t2 = t2
  w1 = w1
  w2 = w2
  Relays = {r1}
  MaxId = 1
  BatchSize = 1
  UseLock = TRUE
  LockTTL = 1
  Tokens = {t1, t2}
  NoToken = NoToken
  Workers = {w1, w2}
  None = None
PROPERTIES ImplementsExactlyOnce ImplementsFairExactlyOnce
