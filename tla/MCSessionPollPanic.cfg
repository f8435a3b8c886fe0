SPECIFICATION Spec
CONSTANTS
  Subs = {"p1", "p2"}
  Modes = {"POLL"}
  Kinds = {"nondb"}
  Faults = {}
  DupWhen = {"late"}
  MaxMsgs = 1
  MaxChanges = 0
INVARIANTS
  NoPanic
