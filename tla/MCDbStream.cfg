SPECIFICATION FairSpec
CONSTANTS
  Absent = Absent
  Keys = {k1, k2}
  Values = {v1, v2}
  Targets = {"table", "key", "field", "fields"}
  Modes = {"ON_CHANGE", "SAMPLE"}
  Ops = {"hset", "del", "hdel"}
  Faults = {"pubsub", "row", "close"}
  MaxOps = 2
  MaxQueue = 1
INVARIANTS
  TypeOK
  NothingMissed
PROPERTIES
  FullSamples
  Converges
  NoGhostRows
  StopEndsSubscription
CHECK_DEADLOCK FALSE
