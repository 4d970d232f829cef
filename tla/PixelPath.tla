----------------------------- MODULE PixelPath -----------------------------
(***************************************************************************)
(* The arithmetic between a capture and its messages, one capture at a     *)
(* time: the downscaling of v1, the damage rectangles and their bands, the *)
(* limits, the packing into parts and the check every message passes       *)
(* before it is written; and back again, from the client's pointer to the  *)
(* native pixel.                                                           *)
(*                                                                         *)
(*   internal/host/downscale.go          downscaleFactor, remapCoordinate  *)
(*   internal/damage/damage.go           normalizeConfig, Compare          *)
(*   internal/protocol/frame_part.go     SplitFrame                        *)
(*   internal/protocol/validate.go       ValidateMessage                   *)
(*   internal/host/service.go            prepareCapture, planFrame         *)
(*   internal/client/input.go            MapCoordinates                    *)
(*                                                                         *)
(* A cell of the model is a block of the screen of setup.cell bytes; a     *)
(* rectangle's body is its length in bytes.  Which tiles changed and how   *)
(* well a rectangle compresses is anything.                                *)
(***************************************************************************)
EXTENDS Integers, Sequences, FiniteSets

CONSTANTS
    Setups,         \* [version, tile, cell, payload, rectangles, parts]: the
                    \* negotiated version, Config.Damage and Config.Limits
    Sizes,          \* sizes of captures, <<width, height>>
    Views,          \* sizes of the client's view
    Squeezed,       \* the length of a body that zlib made shorter
    HardPayload, HardRectangles, HardParts,     \* protocol's hard caps
    DefaultBudget,  \* damage.MaxRectangleBytes
    DirtyPercent    \* Config.DirtyRatio

\* Below 2^31, a side vanishes before downscaleFactor gives up halving.
HighestSide == 2147483647

\* With a view of less than 2^16 pixels each way, the float64 of MapCoordinates
\* is wrong by less than the distance of a position to the next border of two
\* pixels, unless it lies on one.
HighestView == 65535

ASSUME PixelAssumption ==
    /\ \A s \in Setups :
          /\ s.version \in {1, 2} /\ {s.tile, s.cell} \subseteq Nat \ {0}
          /\ {s.payload, s.rectangles, s.parts} \subseteq Nat
          \* vdhost leaves TileSize and DirtyRatio of v1 at 64 and 0.60.
          /\ s.version = 1 => s.tile * s.cell >= 256 /\ DirtyPercent <= 75
    /\ Sizes \subseteq (1 .. HighestSide) \X (1 .. HighestSide)
    /\ Views \subseteq (1 .. HighestView) \X (1 .. HighestView)
    /\ {Squeezed, HardPayload, HardRectangles, HardParts, DefaultBudget} \subseteq Nat \ {0}
    /\ DirtyPercent \in 1 .. 100

VARIABLES
    setup,      \* what the session negotiated and was configured with
    native,     \* size of the capture
    image,      \* size of the display after prepareCapture
    dirty,      \* tiles that differ from the previous image
    frame,      \* the detector's frame: whether a keyframe, rectangles, bodies
    plan,       \* its messages: the indices of the rectangles of each
    stage,      \* how far the capture is
    aim         \* the client's pointer: view, position, remote and native pixel

vars == <<setup, native, image, dirty, frame, plan, stage, aim>>

NoFrame == [keyframe |-> FALSE, rects |-> <<>>, bodies |-> <<>>]
NoAim == [view |-> <<>>]
Smaller(a, b) == IF a < b THEN a ELSE b

------------------------------------------------------------------------------
\* Limits

FrameHeader == 27
PartHeader  == 31
RectHeader  == 22
WireFloor   == PartHeader + RectHeader

\* Limits.bounded: zero and anything above the hard cap mean the hard cap.
Bounded(value, hard) == IF value = 0 \/ value > hard THEN hard ELSE value

Payload  == Bounded(setup.payload, HardPayload)
MaxRects == Bounded(setup.rectangles, HardRectangles)
MaxParts == Bounded(setup.parts, HardParts)

\* normalizeConfig: MaxRectangleBytes
Budget ==
    Smaller(DefaultBudget, IF Payload > WireFloor THEN Payload - WireFloor ELSE 0)

------------------------------------------------------------------------------
\* downscale.go

Halved(size, k) == <<size[1] \div 2^k, size[2] \div 2^k>>

Bytes(size) == size[1] * size[2] * setup.cell

\* Mistake: pixels are compared with a budget of bytes.
FactorInPixels(size) ==
    CHOOSE k \in 0 .. 31 :
        /\ Halved(size, k)[1] * Halved(size, k)[2] <= Budget
        /\ \A j \in 0 .. k - 1 : Halved(size, j)[1] * Halved(size, j)[2] > Budget

\* downscaleFactor: halve until it fits or a side would vanish.
Factor(size) ==
    LET Empty(k) == 0 \in {Halved(size, k)[1], Halved(size, k)[2]}
        first == CHOOSE k \in 0 .. 31 :
                    /\ Empty(k) \/ Bytes(Halved(size, k)) <= Budget
                    /\ \A j \in 0 .. k - 1 : ~Empty(j) /\ Bytes(Halved(size, j)) > Budget
    IN  IF Empty(first) THEN first - 1 ELSE first

\* Mistake: the rule of three, which never reaches the last pixel.
RemapByRatio(value, advertised, actual) ==
    Smaller((value * actual) \div advertised, actual - 1)

\* remapCoordinate
Remap(value, advertised, actual) ==
    IF advertised <= 1 \/ actual = 0 THEN 0
    ELSE LET span == advertised - 1
         IN  Smaller((Smaller(value, span) * (actual - 1) + span \div 2) \div span, actual - 1)

------------------------------------------------------------------------------
\* The damage detector

Rect(x, y, w, h) == [x |-> x, y |-> y, w |-> w, h |-> h]

Columns == (image[1] + setup.tile - 1) \div setup.tile
Rows    == (image[2] + setup.tile - 1) \div setup.tile
Tiles   == (0 .. Columns - 1) \X (0 .. Rows - 1)

TileRect(t) ==
    LET x == t[1] * setup.tile
        y == t[2] * setup.tile
    IN  Rect(x, y, Smaller(setup.tile, image[1] - x), Smaller(setup.tile, image[2] - y))

\* The rectangle of the dirty tiles from t to the end of its run.
RunRect(tiles, t) ==
    LET end == CHOOSE u \in t[1] + 1 .. Columns :
                  <<u, t[2]>> \notin tiles /\ \A v \in t[1] .. u - 1 : <<v, t[2]>> \in tiles
    IN  [TileRect(t) EXCEPT !.w = Smaller(end * setup.tile, image[1]) - t[1] * setup.tile]

\* Mistake: runs of different width are merged.
ContinuesAnyWidth(last, r) == last.x = r.x /\ last.y + last.h = r.y

\* A run that continues the last rectangle downwards is merged with it.
Continues(last, r) == last.x = r.x /\ last.w = r.w /\ last.y + last.h = r.y

Merged(rects, r) ==
    IF rects # <<>> /\ Continues(rects[Len(rects)], r)
    THEN [rects EXCEPT ![Len(rects)].h = @ + r.h]
    ELSE Append(rects, r)

BeginsRun(tiles, t) == t \in tiles /\ <<t[1] - 1, t[2]>> \notin tiles

\* The runs of row y, from left to right, after the rectangles of the rows above.
WithRow(tiles, above, y) ==
    LET upTo[x \in 0 .. Columns] ==
            IF x = 0 THEN above
            ELSE IF BeginsRun(tiles, <<x - 1, y>>)
                 THEN Merged(upTo[x - 1], RunRect(tiles, <<x - 1, y>>))
                 ELSE upTo[x - 1]
    IN  upTo[Columns]

\* changedRectangles
Changed(tiles) ==
    LET upTo[y \in 0 .. Rows] == IF y = 0 THEN <<>> ELSE WithRow(tiles, upTo[y - 1], y - 1)
    IN  upTo[Rows]

\* bandRows: at least one row, whatever the budget.
BandRows(width) ==
    LET rows == Budget \div (width * setup.cell) IN IF rows < 1 THEN 1 ELSE rows

\* encodeRectBanded
Banded(r) ==
    LET rows == BandRows(r.w)
    IN  [i \in 1 .. (r.h + rows - 1) \div rows |->
            Rect(r.x, r.y + (i - 1) * rows, r.w, Smaller(rows, r.h - (i - 1) * rows))]

\* encodeRects
BandedAll(rects) ==
    LET upTo[i \in 0 .. Len(rects)] == IF i = 0 THEN <<>> ELSE upTo[i - 1] \o Banded(rects[i])
    IN  upTo[Len(rects)]

RawLength(r) == r.w * r.h * setup.cell

\* The cells of some tiles; changedRectangles counts them as dirtyPixels.
CellsOf(tiles) ==
    {c \in (0 .. image[1] - 1) \X (0 .. image[2] - 1) :
        <<c[1] \div setup.tile, c[2] \div setup.tile>> \in tiles}

\* encodeRectangle keeps the shorter of the raw and the compressed body.
Encoded(rects) ==
    LET short == {i \in DOMAIN rects : Squeezed < RawLength(rects[i])}
    IN  {[i \in DOMAIN rects |-> IF i \in zlib THEN Squeezed ELSE RawLength(rects[i])] :
            zlib \in SUBSET short}

------------------------------------------------------------------------------
\* Packing.  A message is the pair of its first and last rectangle.

\* rectListPayloadSize, framePartPayloadSize
PayloadSize(header, bodies, from, to) ==
    LET upTo[i \in from - 1 .. to] ==
            IF i < from THEN header ELSE upTo[i - 1] + RectHeader + bodies[i]
    IN  upTo[to]

\* Mistake: a part is filled like a whole frame, whose header is shorter.
PartFitsAsFrame(bodies, from, to) == PayloadSize(FrameHeader, bodies, from, to) <= Payload

PartFits(bodies, from, to) == PayloadSize(PartHeader, bodies, from, to) <= Payload

\* Mistake: one part less than MaxFrameParts.
AnotherPartLess(count) == count + 1 < MaxParts

\* Whether a part may follow as many.
AnotherPart(count) == count < MaxParts

\* SplitFrame: rectangle i joins the current part or begins the next one.  The
\* parts, only one when the frame fits, none when it cannot be sent.
Split(bodies) ==
    LET n == Len(bodies)
        \* the last rectangles of the parts closed before rectangle i
        closed[i \in 1 .. n] ==
            IF i = 1 THEN [ends |-> <<0>>, failed |-> ~PartFits(bodies, 1, 1)]
            ELSE LET before == closed[i - 1]
                 IN  IF before.failed \/ PartFits(bodies, before.ends[Len(before.ends)] + 1, i) THEN before
                     ELSE [ends |-> Append(before.ends, i - 1),
                           failed |-> ~AnotherPart(Len(before.ends)) \/ ~PartFits(bodies, i, i)]
        ends == Append(closed[n].ends, n)
    IN  IF closed[n].failed THEN <<>>
        ELSE [k \in 1 .. Len(ends) - 1 |-> <<ends[k] + 1, ends[k + 1]>>]

\* planFrame
Plan(bodies) == IF setup.version = 1 THEN <<<<1, Len(bodies)>>>> ELSE Split(bodies)

------------------------------------------------------------------------------
\* ValidateMessage, of message n of the plan

\* rectanglesOverlap
Overlap(r, s) ==
    /\ r.x < s.x + s.w /\ s.x < r.x + r.w
    /\ r.y < s.y + s.h /\ s.y < r.y + r.h

\* validateRectangles
ValidRects(rects) ==
    /\ \A i \in DOMAIN rects : rects[i].w # 0 /\ rects[i].h # 0 /\ RawLength(rects[i]) <= Payload
    /\ \A i, j \in DOMAIN rects : i < j => ~Overlap(rects[i], rects[j])

Valid(n) ==
    LET from == plan[n][1]
        to   == plan[n][2]
    IN  /\ to - from + 1 \in 1 .. MaxRects
        /\ ValidRects(SubSeq(frame.rects, from, to))
        /\ IF Len(plan) = 1
           THEN PayloadSize(FrameHeader, frame.bodies, from, to) <= Payload
           ELSE /\ Len(plan) \in 2 .. MaxParts
                /\ PayloadSize(PartHeader, frame.bodies, from, to) <= Payload

------------------------------------------------------------------------------

\* prepareCapture, once NewDetectorWithLimits accepted the limits.
Prepare ==
    /\ stage = "captured" /\ Payload >= WireFloor
    /\ image' = IF setup.version = 1 THEN Halved(native, Factor(native)) ELSE native
    /\ stage' = "prepared"
    /\ UNCHANGED <<setup, native, dirty, frame, plan, aim>>

RefuseLimits ==
    /\ stage = "captured" /\ Payload < WireFloor
    /\ stage' = "infeasible"
    /\ UNCHANGED <<setup, native, image, dirty, frame, plan, aim>>

\* keyframe, of the whole image, whatever changed.
CompareKeyframe(tiles) ==
    /\ dirty' = tiles
    /\ LET bands == Banded(Rect(0, 0, image[1], image[2]))
       IN  IF Len(bands) > MaxRects THEN stage' = "refused" /\ UNCHANGED frame
           ELSE /\ stage' = "compared"
                /\ \E b \in Encoded(bands) :
                      frame' = [keyframe |-> TRUE, rects |-> bands, bodies |-> b]
    /\ UNCHANGED <<setup, native, image, plan, aim>>

\* Compare of a first, resized or forced image, or of some changed tiles: a
\* delta, unless its rectangles are too many or cover too much.
Compare ==
    /\ stage = "prepared"
    /\ \/ CompareKeyframe(Tiles)
       \/ \E tiles \in (SUBSET Tiles) \ {{}} :
             LET rects == Changed(tiles)
                 bands == BandedAll(rects)
             IN  IF \/ Len(rects) > MaxRects
                    \/ Cardinality(CellsOf(tiles)) * 100 > DirtyPercent * image[1] * image[2]
                    \/ Len(bands) > MaxRects
                 THEN CompareKeyframe(tiles)
                 ELSE /\ dirty' = tiles /\ stage' = "compared"
                      /\ \E b \in Encoded(bands) :
                            frame' = [keyframe |-> FALSE, rects |-> bands, bodies |-> b]
                      /\ UNCHANGED <<setup, native, image, plan, aim>>

PlanFrame ==
    /\ stage = "compared"
    /\ plan' = Plan(frame.bodies)
    /\ stage' = IF plan' = <<>> THEN "unsendable" ELSE "planned"
    /\ UNCHANGED <<setup, native, image, dirty, frame, aim>>

\* MapCoordinates: the image fills the view along one side, the rest of the
\* other side is split between two margins.  Positions are whole pixels of the
\* view.  The quotient is computed in float64: on the exact border of two pixels
\* it may come out as either, so pixel 0 may be taken for the margin before it,
\* and the margin after the last pixel for that pixel.
Mapped(view, at, i) ==
    LET whole == view[1] * image[2] <= view[2] * image[1]   \* fits the width
        side == IF whole THEN 1 ELSE 2
        twiceMargin == view[i] * image[side] - image[i] * view[side]
        scaled == 2 * at[i] * image[side] - twiceMargin
        pixel == scaled \div (2 * view[side])
    IN  {p \in {pixel - 1, pixel} : scaled <= 2 * view[side] * (p + 1)}

\* The pointer of a client that shows the display; a position in a margin is
\* not sent.  handleInput remaps what arrives.
Point(view, at) ==
    /\ stage = "prepared"
    /\ \E remote \in Mapped(view, at, 1) \X Mapped(view, at, 2) :
          /\ \A i \in {1, 2} : remote[i] \in 0 .. image[i] - 1
          /\ aim' = [view |-> view, at |-> at, remote |-> remote,
                     pixel |-> <<Remap(remote[1], image[1], native[1]),
                                 Remap(remote[2], image[2], native[2])>>]
    /\ stage' = "pointed"
    /\ UNCHANGED <<setup, native, image, dirty, frame, plan>>

Init ==
    /\ setup \in Setups /\ native \in Sizes /\ image = native
    /\ dirty = {} /\ frame = NoFrame /\ plan = <<>> /\ stage = "captured" /\ aim = NoAim

Next ==
    \/ Prepare
    \/ RefuseLimits
    \/ Compare
    \/ PlanFrame
    \/ \E view \in Views : \E x \in 0 .. view[1] - 1, y \in 0 .. view[2] - 1 : Point(view, <<x, y>>)

Spec == Init /\ [][Next]_vars

------------------------------------------------------------------------------

Cells(r) == (r.x .. r.x + r.w - 1) \X (r.y .. r.y + r.h - 1)

\* The rectangles of a frame are disjoint, few enough, and cover exactly what
\* changed: of a keyframe the whole image, of a delta the dirty tiles, whatever
\* runs were merged and cut into bands (damage.go:201-258, 332-351).
RectanglesCoverDamage ==
    stage \in {"compared", "planned", "unsendable"} =>
        LET rects == frame.rects
        IN  /\ Len(rects) \in 1 .. MaxRects
            /\ UNION {Cells(rects[i]) : i \in DOMAIN rects}
               = CellsOf(IF frame.keyframe THEN Tiles ELSE dirty)
            /\ \A i, j \in DOMAIN rects : i < j => Cells(rects[i]) \cap Cells(rects[j]) = {}

\* What planFrame lets through after the limits were normalized passes the check
\* of every message, so a frame announced by DISPLAY_CONFIG is never refused by
\* the wire (sendCapture, "finding M2"), and its messages are its rectangles in
\* their order.  A v1 frame needs no plan, because prepareCapture made it fit.
\* Both suppose what the code supposes: v2 that one row of the image fits the
\* budget (bandRows: "a band always fits in practice"), v1 that some halving of
\* the capture fits and leaves something of it; downscaleFactor must find it.
PlanIsAccepted ==
    /\ stage = "planned"
    /\ IF setup.version = 1 THEN \E k \in 0 .. 30 : Bytes(Halved(native, k)) \in 1 .. Budget
                            ELSE image[1] * setup.cell <= Budget
    => /\ \A n \in DOMAIN plan : Valid(n)
       /\ plan[1][1] = 1 /\ plan[Len(plan)][2] = Len(frame.rects)
       /\ \A n \in 1 .. Len(plan) - 1 : plan[n + 1][1] = plan[n][2] + 1

\* The packing by greed refuses a frame only when no packing in the same order
\* would do: "the frame can never fit" (SplitFrame).  With two parts or more,
\* and one row of the image within the budget, a whole FRAME would not do either
\* ("a frame that fits stays whole", planFrame); with one it might, since the
\* first part is measured by a header longer than that of a FRAME.
RefusedOnlyIfImpossible ==
    stage = "unsendable" =>
        LET n == Len(frame.bodies)
            \* the parts that end at each of the cuts
            Possible(cuts) ==
                \A to \in cuts \cup {n} :
                    LET from == CHOOSE a \in cuts \cup {0} :
                                   a < to /\ \A c \in cuts : c <= a \/ c >= to
                    IN  PayloadSize(PartHeader, frame.bodies, from + 1, to) <= Payload
        IN  /\ \A cuts \in SUBSET (1 .. n - 1) :
                  Cardinality(cuts) < MaxParts => ~Possible(cuts)
            /\ image[1] * setup.cell <= Budget /\ MaxParts >= 2 =>
                  PayloadSize(FrameHeader, frame.bodies, 1, n) > Payload

\* A pointer lands where the user aimed: the remote pixel is the one drawn under
\* the position, of two when it is on their border; the native one belongs to the
\* block it was averaged from or lies less than a block further, and the last
\* pixel leads to the last (remapCoordinate: "the extreme advertised pixels land
\* on the extreme native pixels").
PointerLands ==
    stage = "pointed" =>
        \A i \in {1, 2} :
            LET block == 2 ^ (IF setup.version = 1 THEN Factor(native) ELSE 0)
                r == aim.remote[i]
                p == aim.pixel[i]
                scaleNum == IF aim.view[1] * image[2] <= aim.view[2] * image[1]
                            THEN aim.view[1] ELSE aim.view[2]
                scaleDen == IF aim.view[1] * image[2] <= aim.view[2] * image[1]
                            THEN image[1] ELSE image[2]
                \* twice the distance from the edge of the image, times scaleDen
                inside == 2 * aim.at[i] * scaleDen
                          - (aim.view[i] * scaleDen - image[i] * scaleNum)
            IN  /\ 2 * r * scaleNum <= inside /\ inside <= 2 * (r + 1) * scaleNum
                /\ p \in 0 .. native[i] - 1
                /\ p >= r * block /\ p < (r + 2) * block
                /\ r = image[i] - 1 /\ image[i] > 1 => p = native[i] - 1
==============================================================================
