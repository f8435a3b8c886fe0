SPECIFICATION SuiteSpec
CONSTANTS
  Clients = {c1, c2}
  Policies = {p1, p2}
  Bad = Bad
  Nil = Nil
  Versions = {v0, v1}
  Unknown = v0
  Missing = Missing
  None = None
  Faults = {"io", "db"}
INVARIANTS PolicyIsGood PartsTypeOK  
  
