SPECIFICATION Spec
CHECK_DEADLOCK FALSE
CONSTANTS
  n1 = n1  n2 = n2
  Unused = Unused  NoCondition = NoCondition  IfNew = IfNew  IfAny = IfAny
  Mismatch = Mismatch  NoRow = NoRow  Closed = Closed  NoWork = NoWork
  Scope = Scope  NoScope = NoScope  NoExtra = NoExtra
  Names = {n1, n2}
  Uids = {u1, u2}
  Bodies = {b1, b2}
  Extras = {NoExtra, x}
  KindOf <- OneOfEach
  MaxObjects = 4
  InitialObjects = 1
  PageSize = 4
  MaxReads = 2
  SystemProperties = FALSE
  MaxRequests = 2
  MaxForeign = 1
  ForeignOps = {"edit", "archive", "property"}
  SpaceErrors = {}
  Faults = {"timeout"}
INVARIANTS TypeOK RefusedUnsent UniqueIdentity SuccessStored SuccessRecorded
PROPERTIES NoLostUpdate
