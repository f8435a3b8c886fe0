SPECIFICATION FairSpec
CONSTANTS
  Subs = {"p1", "p2"}
  Modes = {"ONCE"}
  Kinds = {"db", "mixed", "nondb"}
  Faults = {}
  DupWhen = {}
  MaxMsgs = 0
  MaxChanges = 0
PROPERTIES
  DisconnectEndsRun
CHECK_DEADLOCK FALSE
