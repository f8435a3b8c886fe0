SPECIFICATION FairSpec
CONSTANTS
  Absent = Absent
  Keys = {k1}
  Values = {v1, v2}
  Targets = {"table"}
  Modes = {"ON_CHANGE"}
  Ops = {"hset", "del"}
  Faults = {}
  MaxOps = 3
  MaxQueue = 1
PROPERTIES
  TableConverges
CHECK_DEADLOCK FALSE
