\* A clock of 29 ticks round: a check every 2, a retry every 6, stalls of 3.
CONSTANTS
  Wrap = 29
  CheckMs = 2
  RetryMs = 6
  Stall = 3
SPECIFICATION Spec
INVARIANTS
  WatchdogTypeOK
  BackSoon
  RestartsAreSpaced
