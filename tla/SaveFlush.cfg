\* The forced save with every kind of core, popups and menus.
CONSTANTS
  MinHold = 1
  Quiet = 2
  ArcadeMin = 3
  MaxHold = 5
  Report = 1
  DumpWrites = 2
  Gap = 1
SPECIFICATION FairSpec
INVARIANTS
  TypeOK
  LiveRowLosesNothing
  AutosaveIsTheUsers
PROPERTIES
  SignalIsShared
  LoadGoesOn
\* A behaviour ends when another Main takes over.
CHECK_DEADLOCK FALSE
