--------------------------- MODULE MCFrameStream ---------------------------
(* A screen of two colors, with two cells or three.                        *)
EXTENDS FrameStream

CONSTANTS c1, c2, c3

MCThreeCells == {c1, c2, c3}
MCTwoOrThree == {{c1, c2}, {c1, c2, c3}}

MCColors == {0, 1}

\* Every color has a hash of its own; or the two colors collide.
MCHash == [c \in MCColors |-> c]
MCCollidingHash == [c \in MCColors |-> 0]
==============================================================================
