SPECIFICATION Spec
CONSTANTS
  s1 = s1
  s2 = s2
  s3 = s3
  a1 = a1
  a2 = a2
  None = None
  Sessions <- MCThree
  Addrs = {a1, a2}
  AddrOf <- MCAddrOf
  QueryOf <- MCQueryOf
  Threshold = 2
  MaxSecond = 2
  Stale <- MCStale
INVARIANTS
  TypeOK
  NoPhantomConnections
  RunningIsCounted
  
  RegistryHoldsActive
SYMMETRY MCSymmetry
