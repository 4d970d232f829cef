--------------------------- MODULE MCFramebuffer ---------------------------
(* A display of one or all of three cells, two generations, two frame      *)
(* numbers, whole frames and frames of three parts.                        *)
EXTENDS Framebuffer, TLC

CONSTANTS c1, c2, c3

MCCells == {c1, c2, c3}
MCGeometries == {area \in SUBSET MCCells : Cardinality(area) \in {1, 3}}
Interchangeable == Permutations(MCCells)
==============================================================================
