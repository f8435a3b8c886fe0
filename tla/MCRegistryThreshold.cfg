SPECIFICATION Spec
CONSTANTS
  s1 = s1
  s2 = s2
  s3 = s3
  a1 = a1
  a2 = a2
  None = None
  Sessions <- MCTwo
  Addrs = {a1, a2}
  AddrOf <- MCAddrOf
  QueryOf <- MCQueryOf
  Threshold = 1
  MaxSecond = 1
  Stale <- MCStale
INVARIANTS
  ThresholdRespected
