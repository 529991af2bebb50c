SPECIFICATION CacheSpec
CONSTANTS
  t1 = t1
  t2 = t2
  Threads <- MCThreads
  Size = 2
  DefaultTtl = 2
  Ttls = {1}
  Retries = 2
  MaxTime = 2
INVARIANTS TtlKept
