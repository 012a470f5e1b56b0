\* A start that was queued before a script began.
CONSTANTS
  Pid = {p1}
  NoPid = NoPid
  HasBootstrap = TRUE
  Faults = {}
SPECIFICATION Spec
INVARIANTS
  ConsoleIsExclusive
\* A Main over a game core has nothing left to do when nobody asks for anything.
CHECK_DEADLOCK FALSE
