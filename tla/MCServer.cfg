SPECIFICATION SuiteSpec
CONSTANTS
  Clients = {c1, c2}
  Policies = {p1, p2}
  Versions = {v0, v1}
  Unknown = v0
  Missing = Missing
  None = None
  Faults = {"io", "db"}
INVARIANTS VersionIsPersistent BackupIsGood PartsTypeOK 
  
PROPERTIES ImplementsRotation 
