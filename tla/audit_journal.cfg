SPECIFICATION Spec
CHECK_DEADLOCK FALSE
CONSTANTS
  p1 = p1  p2 = p2
  Procs = {p1}
  Callers = {c1, c2}
  Capacity = 1
  Faults = {"io", "kill", "power"}
  MaxEvents = 3
  MaxRolls = 1
  MaxReadbacks = 1
INVARIANTS JournalContiguous CountersAddUp
PROPERTIES ImplementsLog EveryAppendAnswered
