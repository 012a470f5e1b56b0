------------------------ MODULE MCFrontendLifecycle ------------------------
(***************************************************************************)
(* FrontendLifecycle for TLC.  Two process ids are enough for one frontend *)
(* of this Main beside a stale one; the configurations choose which faults *)
(* the environment may inject.                                             *)
(***************************************************************************)
EXTENDS FrontendLifecycle
=============================================================================
