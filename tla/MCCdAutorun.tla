---------------------------- MODULE MCCdAutorun ----------------------------
(***************************************************************************)
(* CdAutorun for TLC: a disc with a launcher and one that is ignored.  A  *)
(* worker may outlive the end of an activation and the start of the next.  *)
(***************************************************************************)
EXTENDS CdAutorun

CONSTANTS game, audio

MCDiscs == {game, audio}
MCLaunchable == {game}

\* Once detections have overlapped every property excepts the insertion, and no action
\* looks at what is noted of it: such states differ in nothing that matters.
MCView ==
  <<drive, isMenu, setting, file, pc, mains, shared, worker,
    IF overlapped THEN <<>> ELSE history>>
=============================================================================
