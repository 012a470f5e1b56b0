\* One session with a listed and an unlisted ROM: logins, loads, resets, ejects.
CONSTANTS
  r1 = r1
  r2 = r2
  x1 = x1
  Rom <- MCRom
  Unlisted <- MCUnlisted
  Ach <- MCAch
  GameOf <- MCGameOf
  LoadId <- MCLoadId
  None = None
  Cap = 2
  MaxUser = 3
SPECIFICATION FairSpec
INVARIANTS
  TypeOK
  SessionAgrees
  EvaluatedIsLive
  EarnedIsKept
PROPERTIES
  SessionSettles
