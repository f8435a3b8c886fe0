SPECIFICATION SuiteSpec
CONSTANTS
  Sets = {s1, s2}
  Gets = {g1}
  None = None
  SaveOnSet = TRUE
  Requests <- SetRequests
  GetPaths <- GetPathsA
  Configs <- OneLeaf
  Faults <- SetFaults
INVARIANTS GetSeesSets SuccessIsSaved  MasterIsHighest PartsTypeOK
   
