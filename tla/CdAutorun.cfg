\* Disc autorun with swapped discs, failed reads and writes, and restarts of Main.
CONSTANTS
  game = game
  audio = audio
  Discs <- MCDiscs
  NoDisc = NoDisc
  Launchable <- MCLaunchable
  Retries = 1
  WritesFail = TRUE
SPECIFICATION FairSpec
VIEW MCView
INVARIANTS
  TypeOK
PROPERTIES
  OncePerInsertion
  SwapIsSeenUnlessLost
  DiscIsHandled
