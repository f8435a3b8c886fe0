SPECIFICATION FairSpec
CONSTANTS
  Subs = {"p1", "p2"}
  Modes = {"STREAM", "POLL", "ONCE"}
  Kinds = {"db", "mixed", "nondb", "events", "transl"}
  Faults = {"read", "mode", "terminated"}
  DupWhen = {"early", "late"}
  MaxMsgs = 1
  MaxChanges = 0
INVARIANTS
  TypeOK
PROPERTIES
  
  PollsAnswered
CHECK_DEADLOCK FALSE
