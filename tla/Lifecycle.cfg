\* Safety and liveness of the frontend's life with every fault: two process ids,
\* one may be stale.
CONSTANTS
  Pid = {p1, p2}
  NoPid = NoPid
  HasBootstrap = TRUE
  Faults = {"stop_times_out", "fork_fails", "main_dies", "orphan_survives", "binary_changes", "load_fails"}
SPECIFICATION FairSpec
INVARIANTS
  TypeOK
  OneFrontend
  OneStart
  GivenUpStaysDown
PROPERTIES
  NoReloadUnderFrontend
  OwnedUntilReaped
  ResumeRestores
  StartHappens
  CrashLoopEnds
\* A Main over a game core has nothing left to do when nobody asks for anything.
CHECK_DEADLOCK FALSE
