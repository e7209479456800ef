SPECIFICATION FairSpec
CONSTANTS
  Callers = {t1, t2, t3}
  QueueCapacity = 2
  BlockEvents = 2
  EventLimit = 2
  MaxCalls = 3
  MaxOpens = 2
  MaxFlushes = 1
  LiveRepair = FALSE
INVARIANTS
  TypeOK AckedDurable LogReadable WrittenOnce NoSilentLoss WithinBudget
  BoundaryDurable WriterAtFile
PROPERTIES
  CleanShutdown RepairTakesOnlyTail ImplementsDurableLog CallsAnswered
