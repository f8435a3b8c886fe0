SPECIFICATION FairSpec
CONSTANTS
  Subs = {"p1", "p2"}
  Modes = {"STREAM"}
  Kinds = {"db", "nondb", "events", "transl"}
  Faults = {"read", "mode"}
  DupWhen = {"late"}
  MaxMsgs = 0
  MaxChanges = 1
INVARIANTS
  NoPanic
  RunWaitsForChildren
PROPERTIES
  
  DisconnectEndsRun
  CloseEndsRun
  FatalEndsRun
