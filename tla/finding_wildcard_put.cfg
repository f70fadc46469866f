SPECIFICATION Spec
CHECK_DEADLOCK FALSE
CONSTANTS
  n1 = n1  n2 = n2
  Unused = Unused  NoCondition = NoCondition  IfNew = IfNew  IfAny = IfAny
  Mismatch = Mismatch  NoRow = NoRow  Closed = Closed  NoWork = NoWork
  Scope = Scope  NoScope = NoScope  NoExtra = NoExtra
  Names = {n1, n2}
  Uids = {u1, u2}
  Bodies = {b1}
  Extras = {NoExtra}
  KindOf <- OneOfEach
  MaxObjects = 2
  InitialObjects = 1
  PageSize = 4
  MaxReads = 2
  SystemProperties = FALSE
  MaxRequests = 1
  MaxForeign = 0
  ForeignOps = {}
  SpaceErrors = {}
  Faults = {}
INVARIANT WildcardFindsResource
