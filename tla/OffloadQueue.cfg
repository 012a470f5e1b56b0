\* The ring against the FIFO it implements, with waits that may end without a signal.
CONSTANTS
  QueueSize = 2
  Wrap = 4
  MaxJobs = 6
SPECIFICATION FairSpec
INVARIANTS
  TypeOK
PROPERTIES
  NoSlotRace
  MainProceeds
  ImplementsJobQueue
\* The program may stop once the worker was joined.
CHECK_DEADLOCK FALSE
