\* Save-on-exit for a core that is saved through OSD_STATUS.
CONSTANTS
  MinHold = 1
  Quiet = 2
  ArcadeMin = 3
  MaxHold = 5
  Report = 1
  DumpWrites = 2
  Gap = 1
SPECIFICATION Spec
INVARIANTS
  ExitIsSaved
\* A behaviour ends when another Main takes over.
CHECK_DEADLOCK FALSE
