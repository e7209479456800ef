SPECIFICATION Spec
CONSTANTS
  Callers = {t1, t2}
  QueueCapacity = 1
  BlockEvents = 1
  EventLimit = 3
  MaxCalls = 3
  MaxOpens = 1
  MaxFlushes = 0
  LiveRepair = TRUE
SYMMETRY Symmetric
PROPERTIES
  RepairTakesOnlyTail
