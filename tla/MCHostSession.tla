--------------------------- MODULE MCHostSession ---------------------------
(* Two clients after or beside one another.                                *)
EXTENDS HostSession, TLC

CONSTANTS c1, c2

One == {c1}
Two == {c1, c2}
Interchangeable == Permutations(Two)
==============================================================================
