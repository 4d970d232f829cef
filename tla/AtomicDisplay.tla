--------------------------- MODULE AtomicDisplay ---------------------------
(***************************************************************************)
(* What the client's framebuffer promises: the screen changes only when a  *)
(* logical frame is complete, by exactly the rectangles of that frame, and *)
(* only when the frame builds on the screen it changes.  There are no      *)
(* buffers here: the parts of a split frame are kept aside until the last  *)
(* one arrives.                                                            *)
(***************************************************************************)
EXTENDS Naturals

CONSTANTS Header, Paint, Geometries, Generations, Blank, None

VARIABLES gen, seq, screen, pending

absVars == <<gen, seq, screen, pending>>

Init == gen = 0 /\ seq = 0 /\ screen = <<>> /\ pending = None

Over(paint, under) ==
    [c \in DOMAIN under |-> IF c \in DOMAIN paint THEN paint[c] ELSE under[c]]

\* A keyframe moves forward, a delta builds on the frame that is shown.
Follows(h) == /\ h.gen = gen
              /\ IF h.key THEN h.seq > seq ELSE h.base = seq

Show(h, paint) ==
    /\ DOMAIN paint \subseteq DOMAIN screen
    /\ h.key => DOMAIN paint = DOMAIN screen
    /\ screen' = Over(paint, screen)
    /\ seq' = h.seq
    /\ pending' = None
    /\ UNCHANGED gen

NewDisplay(g, area) ==
    /\ g > gen
    /\ gen' = g
    /\ seq' = 0
    /\ screen' = [c \in area |-> Blank]
    /\ pending' = None

Whole(h) ==
    /\ pending = None /\ h.count = 1 /\ Follows(h)
    /\ \E paint \in Paint : Show(h, paint)

FirstPart(h) ==
    /\ pending = None /\ h.count > 1 /\ Follows(h)
    /\ pending' \in {[hdr |-> h, parts |-> 1, got |-> paint] : paint \in Paint}
    /\ UNCHANGED <<gen, seq, screen>>

\* The parts of a frame never touch a cell twice.
Disjoint(paint) == DOMAIN paint \cap DOMAIN pending.got = {}

Joined(paint) == [c \in DOMAIN paint \cup DOMAIN pending.got |->
                     IF c \in DOMAIN paint THEN paint[c] ELSE pending.got[c]]

NextPart ==
    /\ pending # None /\ pending.parts + 1 < pending.hdr.count
    /\ \E paint \in Paint :
          /\ Disjoint(paint)
          /\ pending' = [pending EXCEPT !.parts = @ + 1, !.got = Joined(paint)]
    /\ UNCHANGED <<gen, seq, screen>>

LastPart ==
    /\ pending # None /\ pending.parts + 1 = pending.hdr.count
    /\ \E paint \in Paint : Disjoint(paint) /\ Show(pending.hdr, Joined(paint))

Abandon == pending # None /\ pending' = None /\ UNCHANGED <<gen, seq, screen>>

Disconnect == gen' = 0 /\ seq' = 0 /\ screen' = <<>> /\ pending' = None

Next ==
    \/ \E g \in Generations, area \in Geometries : NewDisplay(g, area)
    \/ \E h \in Header : Whole(h) \/ FirstPart(h)
    \/ NextPart
    \/ LastPart
    \/ Abandon
    \/ Disconnect

Spec == Init /\ [][Next]_absVars
==============================================================================
