SPECIFICATION Spec
CHECK_DEADLOCK FALSE
CONSTANTS
  n1 = n1  n2 = n2
  Unused = Unused  NoCondition = NoCondition  IfNew = IfNew  IfAny = IfAny
  Mismatch = Mismatch  NoRow = NoRow  Closed = Closed  NoWork = NoWork
  Scope = Scope  NoScope = NoScope  NoExtra = NoExtra
  Names = {n1, n2}
  Uids = {u1, u2}
  Bodies = {b1}
  Extras = {NoExtra}
  KindOf <- OneOfEach
  MaxObjects = 4
  InitialObjects = 1
  PageSize = 1
  MaxReads = 2
  SystemProperties = TRUE
  MaxRequests = 2
  MaxForeign = 1
  ForeignOps = {"create"}
  SpaceErrors = {"404", "409", "500", "503"}
  Faults = {"io", "timeout", "late", "crash", "audit", "commit"}
PROPERTIES EveryRequestEnds
