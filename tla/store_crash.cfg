SPECIFICATION Spec
CHECK_DEADLOCK FALSE
CONSTANTS
  p1 = p1  p2 = p2  p3 = p3  s1 = s1  s2 = s2
  NoScope = NoScope  NoWork = NoWork  Absent = Absent  Torn = Torn
  Ids = {a}
  OpIds = {}
  Procs = {p1, p2}
  Scopes = {s1, s2}
  ScopeOf <- SameScope
  Api = {"replace", "resurrect", "tombstone"}
  Faults = {"io", "kill", "power"}
  MaxGeneration = 2
INVARIANTS ExclusiveWriter NoLostAck TombstonedNotObserved
PROPERTIES AckedAdvances ImplementsCheckpoint DeletionRemembered
