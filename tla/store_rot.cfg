SPECIFICATION Spec
CHECK_DEADLOCK FALSE
CONSTANTS
  p1 = p1  p2 = p2  p3 = p3  s1 = s1  s2 = s2
  NoScope = NoScope  NoWork = NoWork  Absent = Absent  Torn = Torn
  Ids = {a}
  OpIds = {o1}
  Procs = {p1}
  Scopes = {s1, s2}
  ScopeOf <- SameScope
  Api = {"enqueue", "applied"}
  Faults = {"io", "kill", "rot"}
  MaxGeneration = 3
INVARIANTS TypeOK SomeCopyReadable BackupTrails
