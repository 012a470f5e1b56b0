---------------------------- MODULE MCRaSession ----------------------------
(* Small instances of RaSession for TLC *)
EXTENDS RaSession

CONSTANTS r1, r2, x1

MCRom == {r1, r2}
MCUnlisted == {r2}
MCAch == {x1}
MCGameOf == [x \in MCAch |-> r1]
MCLoadId == 1 .. 6
=============================================================================
