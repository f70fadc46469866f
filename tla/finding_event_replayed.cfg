SPECIFICATION Spec
CHECK_DEADLOCK FALSE
CONSTANTS
  n1 = n1  p1 = p1  n2 = n2  u1 = u1  u2 = u2
  Unused = Unused  NoCondition = NoCondition  NoExtra = NoExtra  NoItem = NoItem
  Names = {n1, p1, n2}
  Uids = {u1, u2}
  Bodies = {1, 2}
  Extras = {NoExtra}
  KindOf <- Events
  NamesOf <- Aliases
  Asked = {"com.android.calendar"}
  Links <- GoodLink
  MaxObjects = 4
  PageSize = 4
  MaxReads = 2
  SystemProperties = FALSE
  MaxForeign = 0
  ForeignOps = {}
  Faults = {"io", "timeout"}
  MaxBatches = 1
  MaxPulls = 1
  MaxItems = 2
  MaxFaults = 1
PROPERTIES NoSecondObject
