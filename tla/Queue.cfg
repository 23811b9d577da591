SPECIFICATION FairWorkerSpec
CONSTANTS
  Producers = {a, b}
  Capacity = 2
  MaxGeneration = 5
INVARIANTS WithinCapacity InOrder NoLostWakeup TimerFresh
PROPERTIES CallReturns LostOnlyWhenFull StopReturns
CHECK_DEADLOCK FALSE
