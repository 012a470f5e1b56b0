--------------------------- MODULE MCOffloadQueue ---------------------------
(***************************************************************************)
(* OffloadQueue for TLC: a ring of two slots whose counters wrap at 4, so  *)
(* six jobs fill the ring, make the main thread wait and wrap both         *)
(* counters.                                                               *)
(***************************************************************************)
EXTENDS OffloadQueue
=============================================================================
