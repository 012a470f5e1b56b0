---------------------------- MODULE MCSaveFlush ----------------------------
(***************************************************************************)
(* SaveFlush for TLC.  A tick is about 400 ms: the shortest hold is below  *)
(* the quiet time, an arcade core gets one tick more, and the cap is just  *)
(* above what a dump of two writes may take.                               *)
(***************************************************************************)
EXTENDS SaveFlush
=============================================================================
