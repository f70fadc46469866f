SPECIFICATION Spec
CONSTANTS
  na = na
  xna = xna
  nb = nb
  b1 = b1
  b2 = b2
  Names = {na, xna, nb}
  Uids = {u1, u2}
  Bodies = {b1, b2}
  Extras = {x0}
  NoExtra = x0
  MaxObjects = 2
  PageSize = 1
  ForeignOps = {"edit", "archive"}
  MaxForeign = 1
  Unused = Unused
  MaxReads = 1
  SystemProperties = FALSE
  Faults = {"io"}
  NoCondition = NoCondition
  KindOf <- MCKindOf
  SuffixesOf <- MCSuffixesOf
  DueOf <- MCDueOf
  WordsOf <- MCWordsOf
  PartsOf <- MCPartsOf
  PropDocs <- MCPropDocs
  ReportDocs <- MCReportDocs
  ReadErrors = {"Timeout", "ResourceNotFound"}
  Star = Star
  NoCopy = NoCopy
  MaxRequests = 2
  MaxClock = 1
INVARIANTS CopyCurrent MultigetAnswersEvery RangeExact
SYMMETRY UidSymmetry
CHECK_DEADLOCK FALSE
