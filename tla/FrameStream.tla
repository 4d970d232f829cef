---------------------------- MODULE FrameStream ----------------------------
(***************************************************************************)
(* The path of the pixels in one session after another: the host's capture *)
(* loop and its one-slot channel, the send loop (sendCapture: damage       *)
(* detection, planning, DISPLAY_CONFIG, FRAME or FRAME_PARTs), the         *)
(* connection, and the client's receive loop with its framebuffer.         *)
(*                                                                         *)
(*   internal/host/service.go    Run, captureLoop, sendLoop, sendCapture   *)
(*   internal/damage/damage.go   Detector                                  *)
(*   internal/client/session.go  ServeConn's receive loop                  *)
(*   Framebuffer                 internal/client/framebuffer.go            *)
(*                                                                         *)
(* A cell is one damage tile and one rectangle.  A capture is a function   *)
(* from the cells of the screen to colors.                                 *)
(***************************************************************************)
EXTENDS Naturals, Sequences, FiniteSets, SequencesExt

CONSTANTS
    Cells, Colors, Blank, Geometries, None,   \* as in Framebuffer
    Hash,           \* the tile hash: a function from colors
    DirtyPercent,   \* Config.DirtyRatio, in percent
    MaxRectangles,  \* rectangles the detector may put into a frame
    PartCapacity,   \* rectangles that fit one message
    MaxFrameParts,  \* parts a frame may be split into; 0 on a v1 session, unsplit
    WireCapacity,   \* messages the connection buffers
    MaxChanges,     \* bound: changes of the desktop
    MaxRequests,    \* bound: KEYFRAME_REQUESTs of the client's own accord
    MaxSessions     \* bound: connections

ASSUME StreamAssumption ==
    /\ Blank \in Colors /\ DOMAIN Hash = Colors
    /\ IsFiniteSet(Cells) /\ Geometries \subseteq (SUBSET Cells) \ {{}}
    /\ DirtyPercent \in 0..100
    /\ {MaxRectangles, PartCapacity, WireCapacity} \subseteq Nat \ {0}
    /\ {MaxFrameParts, MaxChanges, MaxRequests, MaxSessions} \subseteq Nat

VARIABLES
    \* the host's screen
    desktop,            \* what it shows
    changes,            \* how often it changed
    \* host.Service of the current session
    phase,              \* Run: "connecting", "initial", "running" or "ended"
    camera,             \* captureLoop: "idle", "offer", "drain" or "push"
    held,               \* the capture captureLoop holds, or None
    slot,               \* the captures channel: a capture, or None
    previous,           \* Detector.previous, or None
    detGeneration,      \* Detector.generation
    detSequence,        \* Detector.sequence
    svcGeneration,      \* Service.generation, the one announced last
    keyframeRequested,  \* Service.keyframeRequested
    keyframeDue,        \* KeyframeInterval has elapsed since lastKeyframe
    outbox,             \* the messages sendCapture has yet to send
    \* the connection
    wire,               \* host to client
    requests,           \* KEYFRAME_REQUESTs in flight to the host
    spurious,           \* how many the client sent of its own accord
    sessions,           \* connections so far
    \* the client
    generation, frameSequence, display, mem, pixels, spare,
    fbKeyframeRequired, staging, discard, result,
    presented,          \* the snapshot handed to the renderer last, or <<>>
    \* history
    unshown             \* the captures of the frames the client did not commit yet

FB == INSTANCE Framebuffer
        WITH keyframeRequired <- fbKeyframeRequired,
             Generations <- Nat \ {0}, Sequences <- Nat \ {0},
             PartCounts <- Nat \ {0, 1}

fbVars == <<generation, frameSequence, display, mem, pixels, spare,
            fbKeyframeRequired, staging, discard, result>>
detVars == <<previous, detGeneration, detSequence>>
capVars == <<camera, held, slot>>
svcVars == <<svcGeneration, keyframeRequested, keyframeDue, outbox>>
netVars == <<wire, requests, spurious>>
vars == <<desktop, changes, phase, capVars, detVars, svcVars, netVars, sessions,
          fbVars, presented, unshown>>

Images == UNION {[area -> Colors] : area \in Geometries}

\* The empty slot holds no capture, and no part sequence is none.
ASSUME NoneAssumption == None \notin Images /\ None \notin FB!Assembly(Nat)

Running == phase = "running"

------------------------------------------------------------------------------
\* damage.Detector

\* Mistake: a tile that went back to its first color is not sent.
DirtyUnlessBlank(image) == {c \in DOMAIN image : image[c] # previous[c] /\ image[c] # Blank}

\* Tiles whose hash differs from the remembered one: a tile whose hash is
\* unchanged is never compared, whatever its bytes.
Dirty(image) == {c \in DOMAIN image : Hash[image[c]] # Hash[previous[c]]}

GeometryChanged(image) == previous = None \/ DOMAIN previous # DOMAIN image

TooDirty(image) ==
    \/ Cardinality(Dirty(image)) > MaxRectangles
    \/ 100 * Cardinality(Dirty(image)) > DirtyPercent * Cardinality(DOMAIN image)

Keyframe(image, force) == GeometryChanged(image) \/ force \/ TooDirty(image)

Unchanged(image, force) ==
    ~GeometryChanged(image) /\ ~force /\ Dirty(image) = {}

NextGeneration(image) ==
    IF GeometryChanged(image) THEN detGeneration + 1 ELSE detGeneration

\* Mistake: every delta names the last keyframe's neighbour as its base.
BaseAlwaysFirst(image, force) == IF Keyframe(image, force) THEN 0 ELSE 1

\* The base of a delta is the frame before it.
Base(image, force) == IF Keyframe(image, force) THEN 0 ELSE detSequence

\* The rectangles of the frame for image.
Damage(image, force) ==
    [c \in (IF Keyframe(image, force) THEN DOMAIN image ELSE Dirty(image)) |-> image[c]]

\* ErrRectLimit: the keyframe itself has too many rectangles.
RectLimit(image, force) == Cardinality(DOMAIN Damage(image, force)) > MaxRectangles

------------------------------------------------------------------------------
\* planFrame and SplitFrame

\* Mistake: one rectangle too many is taken to fit.
FitsOneMore(paint) == MaxFrameParts = 0 \/ Cardinality(DOMAIN paint) <= PartCapacity + 1

Fits(paint) == MaxFrameParts = 0 \/ Cardinality(DOMAIN paint) <= PartCapacity

PartsNeeded(paint) == (Cardinality(DOMAIN paint) + PartCapacity - 1) \div PartCapacity

\* ErrFrameTooLarge
Unsplittable(paint) == ~Fits(paint) /\ PartsNeeded(paint) > MaxFrameParts

\* Part i of the rectangles, in their order.
Piece(paint, i) ==
    LET order == SetToSeq(DOMAIN paint)
        last  == IF (i + 1) * PartCapacity < Len(order) THEN (i + 1) * PartCapacity ELSE Len(order)
        area  == {order[k] : k \in i * PartCapacity + 1 .. last}
    IN  [c \in area |-> paint[c]]

Plan(header, paint) ==
    IF Fits(paint)
    THEN <<[kind |-> "frame", body |-> [hdr |-> header, paint |-> paint, sound |-> TRUE]]>>
    ELSE [k \in 1 .. PartsNeeded(paint) |->
             [kind |-> "part",
              body |-> [hdr |-> [header EXCEPT !.count = PartsNeeded(paint)], index |-> k - 1,
                        paint |-> Piece(paint, k - 1), sound |-> TRUE]]]

------------------------------------------------------------------------------
\* sendCapture

\* Compare finds nothing to send; a request folded into force is gone only
\* when it was honored, and force always makes a frame.
NothingToSend(image, force) ==
    /\ Unchanged(image, force)
    /\ UNCHANGED <<phase, detVars, outbox, keyframeDue, unshown>>

\* Mistake: the display is announced before its frame is planned; the error is
\* dropped and the frame's number given back.
AnnounceUnsendable(image, force) ==
    /\ ~Unchanged(image, force)
    /\ RectLimit(image, force) \/ Unsplittable(Damage(image, force))
    /\ detGeneration' = NextGeneration(image)
    /\ previous' = image
    /\ outbox' = IF NextGeneration(image) = svcGeneration THEN <<>>
                 ELSE <<[kind |-> "config",
                         body |-> [gen |-> NextGeneration(image), area |-> DOMAIN image]]>>
    /\ UNCHANGED <<detSequence, phase, keyframeDue, unshown>>

\* The limits cannot carry the frame: Run returns before announcing anything.
Unsendable(image, force) ==
    /\ ~Unchanged(image, force)
    /\ RectLimit(image, force) \/ Unsplittable(Damage(image, force))
    /\ phase' = "ended"
    /\ detGeneration' = NextGeneration(image)
    /\ detSequence' = detSequence + 1
    /\ previous' = IF RectLimit(image, force) THEN previous ELSE image
    /\ UNCHANGED <<outbox, keyframeDue, unshown>>

\* Mistake: the plan goes out before the DISPLAY_CONFIG it needs.
ConfigLast(config, plan) == plan \o config

\* A new generation is announced before its first frame.
Ordered(config, plan) == config \o plan

Publish(image, force) ==
    /\ ~Unchanged(image, force)
    /\ ~RectLimit(image, force) /\ ~Unsplittable(Damage(image, force))
    /\ detGeneration' = NextGeneration(image)
    /\ detSequence' = detSequence + 1
    /\ previous' = image
    /\ LET header == [gen |-> NextGeneration(image), seq |-> detSequence + 1,
                      base |-> Base(image, force), key |-> Keyframe(image, force), count |-> 1]
           config == [kind |-> "config",
                      body |-> [gen |-> NextGeneration(image), area |-> DOMAIN image]]
       IN  outbox' = Ordered(IF NextGeneration(image) # svcGeneration THEN <<config>> ELSE <<>>,
                             Plan(header, Damage(image, force)))
    /\ keyframeDue' = IF Keyframe(image, force) THEN FALSE ELSE keyframeDue
    /\ unshown' = Append(unshown, image)
    /\ UNCHANGED phase

\* Mistake: a request is looked at only when there is something to send.
SendCaptureOnChange(image, force) ==
    /\ outbox = <<>>
    /\ \/ NothingToSend(image, keyframeDue) /\ UNCHANGED keyframeRequested
       \/ ~Unchanged(image, keyframeDue) /\ Unsendable(image, force) /\ keyframeRequested' = FALSE
       \/ ~Unchanged(image, keyframeDue) /\ Publish(image, force) /\ keyframeRequested' = FALSE
    /\ UNCHANGED <<svcGeneration, desktop, changes, netVars, sessions, fbVars, presented>>

SendCapture(image, force) ==
    /\ outbox = <<>>
    /\ \/ NothingToSend(image, force)
       \/ Unsendable(image, force)
       \/ Publish(image, force)
    /\ keyframeRequested' = FALSE
    /\ UNCHANGED <<svcGeneration, desktop, changes, netVars, sessions, fbVars, presented>>

\* Run captures once before it starts its loops, and forces a keyframe.
InitialCapture ==
    /\ phase = "initial" /\ previous = None
    /\ SendCapture(desktop, TRUE)
    /\ UNCHANGED capVars

StartLoops ==
    /\ phase = "initial" /\ previous # None /\ outbox = <<>>
    /\ phase' = "running"
    /\ UNCHANGED <<desktop, changes, capVars, detVars, svcVars, netVars, sessions,
                   fbVars, presented, unshown>>

\* Mistake: there are no periodic keyframes.
TakeCaptureUnforced ==
    /\ Running /\ slot # None
    /\ SendCapture(slot, keyframeRequested)
    /\ slot' = None
    /\ UNCHANGED <<camera, held>>

\* sendLoop
TakeCapture ==
    /\ Running /\ slot # None
    /\ SendCapture(slot, keyframeDue \/ keyframeRequested)
    /\ slot' = None
    /\ UNCHANGED <<camera, held>>

\* Mistake: the last part of a plan is forgotten.
SendAllButLastPart ==
    /\ phase \in {"initial", "running"} /\ outbox # <<>> /\ Len(wire) < WireCapacity
    /\ wire' = IF Len(outbox) = 1 /\ Head(outbox).kind = "part" THEN wire ELSE Append(wire, Head(outbox))
    /\ outbox' = Tail(outbox)
    /\ svcGeneration' = IF Head(outbox).kind = "config" THEN Head(outbox).body.gen ELSE svcGeneration
    /\ UNCHANGED <<desktop, changes, phase, capVars, detVars, keyframeRequested, keyframeDue,
                   requests, spurious, sessions, fbVars, presented, unshown>>

\* One Send of sendCapture; it blocks while the connection is full.
SendMessage ==
    /\ phase \in {"initial", "running"} /\ outbox # <<>> /\ Len(wire) < WireCapacity
    /\ wire' = Append(wire, Head(outbox))
    /\ outbox' = Tail(outbox)
    /\ svcGeneration' = IF Head(outbox).kind = "config" THEN Head(outbox).body.gen ELSE svcGeneration
    /\ UNCHANGED <<desktop, changes, phase, capVars, detVars, keyframeRequested, keyframeDue,
                   requests, spurious, sessions, fbVars, presented, unshown>>

------------------------------------------------------------------------------
\* captureLoop

Camera(from, to) ==
    /\ Running /\ camera = from /\ camera' = to
    /\ UNCHANGED <<desktop, changes, phase, detVars, svcVars, netVars, sessions, fbVars,
                   presented, unshown>>

Capture == Camera("idle", "offer") /\ held' = desktop /\ UNCHANGED slot

Offer ==
    \/ slot = None /\ Camera("offer", "idle") /\ slot' = held /\ held' = None
    \/ slot # None /\ Camera("offer", "drain") /\ UNCHANGED <<slot, held>>

\* Mistake: the stale capture is left in the channel.
DrainNothing == Camera("drain", "push") /\ UNCHANGED <<slot, held>>

\* The send loop may have taken the old capture meanwhile.
Drain == Camera("drain", "push") /\ slot' = None /\ UNCHANGED held

Push == slot = None /\ Camera("push", "idle") /\ slot' = held /\ held' = None

------------------------------------------------------------------------------
\* The client

Deliver(m) ==
    \/ m.kind = "config" /\ FB!Configure(m.body)
    \/ m.kind = "frame"  /\ FB!Apply(m.body)
    \/ m.kind = "part"   /\ FB!ApplyPart(m.body)

Snapshot == [c \in display |-> mem[pixels][c]]

\* ServeConn's loop: a refused frame asks for a keyframe, any other error ends
\* the session, and a committed frame is presented.  What the connection still
\* holds when the host is gone is read too.
Receive ==
    /\ wire # <<>> /\ FB!Serving
    /\ Deliver(Head(wire))
    /\ wire' = Tail(wire)
    /\ requests' = IF result' = "keyframe_required" THEN requests + 1 ELSE requests
    /\ phase' = IF result' = "fatal" THEN "ended" ELSE phase
    /\ presented' = IF result' = "committed" THEN Snapshot' ELSE presented
    /\ unshown' = IF result' = "committed" THEN Tail(unshown) ELSE unshown
    /\ UNCHANGED <<desktop, changes, capVars, detVars, svcVars, spurious, sessions>>

\* A request out of turn.  Our client only asks when it refused a frame, but the
\* protocol lets any client ask at any time, and the host has to answer.
AskForKeyframe ==
    /\ phase \in {"initial", "running"} /\ generation # 0 /\ spurious < MaxRequests
    /\ requests' = requests + 1
    /\ spurious' = spurious + 1
    /\ UNCHANGED <<desktop, changes, phase, capVars, detVars, svcVars, wire, sessions,
                   fbVars, presented, unshown>>

\* handleInput; the generation the request names is not looked at.
HandleKeyframeRequest ==
    /\ Running /\ requests > 0
    /\ requests' = requests - 1
    /\ keyframeRequested' = TRUE
    /\ UNCHANGED <<desktop, changes, phase, capVars, detVars, svcGeneration, keyframeDue, outbox,
                   wire, spurious, sessions, fbVars, presented, unshown>>

------------------------------------------------------------------------------
\* The environment

ChangeDesktop ==
    /\ changes < MaxChanges
    /\ changes' = changes + 1
    /\ desktop' \in Images \ {desktop}
    /\ UNCHANGED <<phase, capVars, detVars, svcVars, netVars, sessions, fbVars, presented, unshown>>

\* The interval is counted from the end of the keyframe's last Send.
\* Bound: while the client already shows the desktop, one more keyframe of it
\* would only repeat the frame, so the interval is not counted then.
KeyframeIntervalElapses ==
    /\ Running /\ ~keyframeDue /\ outbox = <<>> /\ presented # desktop
    /\ keyframeDue' = TRUE
    /\ UNCHANGED <<desktop, changes, phase, capVars, detVars, svcGeneration, keyframeRequested,
                   outbox, netVars, sessions, fbVars, presented, unshown>>

\* The messages in flight behind the point of failure are lost.
LoseConnection ==
    /\ phase \in {"initial", "running"}
    /\ sessions < MaxSessions
    /\ phase' = "ended"
    /\ \E n \in 0 .. Len(wire) : wire' = SubSeq(wire, 1, n)
    /\ UNCHANGED <<desktop, changes, capVars, detVars, svcVars, requests, spurious, sessions,
                   fbVars, presented, unshown>>

\* A new connection: a new Service with a new Detector, and the client's Reset.
Connect ==
    /\ phase \in {"connecting", "ended"}
    /\ sessions < MaxSessions
    /\ sessions' = sessions + 1
    /\ phase' = "initial"
    /\ camera' = "idle" /\ held' = None /\ slot' = None
    /\ previous' = None /\ detGeneration' = 0 /\ detSequence' = 0
    /\ svcGeneration' = 0 /\ keyframeRequested' = FALSE /\ keyframeDue' = TRUE
    /\ outbox' = <<>> /\ wire' = <<>> /\ requests' = 0
    /\ unshown' = <<>>
    /\ FB!Reset
    /\ UNCHANGED <<desktop, changes, spurious, presented>>

------------------------------------------------------------------------------

Init ==
    /\ desktop \in Images /\ changes = 0
    /\ phase = "connecting"
    /\ camera = "idle" /\ held = None /\ slot = None
    /\ previous = None /\ detGeneration = 0 /\ detSequence = 0
    /\ svcGeneration = 0 /\ keyframeRequested = FALSE /\ keyframeDue = TRUE
    /\ outbox = <<>> /\ wire = <<>> /\ requests = 0 /\ spurious = 0
    /\ sessions = 0
    /\ FB!Init
    /\ presented = <<>>
    /\ unshown = <<>>

CaptureLoop == Capture \/ Offer \/ Drain \/ Push
SendLoop    == InitialCapture \/ StartLoops \/ TakeCapture \/ SendMessage

Next ==
    \/ CaptureLoop
    \/ SendLoop
    \/ Receive
    \/ AskForKeyframe
    \/ HandleKeyframeRequest
    \/ ChangeDesktop
    \/ KeyframeIntervalElapses
    \/ LoseConnection
    \/ Connect

\* The goroutines run, the connection delivers, the keyframe timer runs, and a
\* client that lost its session comes back.
Fairness ==
    /\ WF_vars(CaptureLoop)
    /\ WF_vars(SendLoop)
    /\ SF_vars(TakeCapture)
    /\ WF_vars(Receive)
    /\ WF_vars(HandleKeyframeRequest)
    /\ WF_vars(KeyframeIntervalElapses)
    /\ WF_vars(Connect)

Spec == Init /\ [][Next]_vars /\ Fairness

------------------------------------------------------------------------------
\* Properties

ImageOrNone == Images \cup {None}

MessageOK(m) ==
    \/ m.kind = "config" /\ m.body.gen \in Nat \ {0} /\ m.body.area \in Geometries
    \/ /\ m.kind = "frame"
       /\ DOMAIN m.body.paint # {}
       /\ MaxFrameParts = 0 \/ Cardinality(DOMAIN m.body.paint) <= PartCapacity
    \/ /\ m.kind = "part"
       /\ m.body.hdr.count \in 2..MaxFrameParts
       /\ Cardinality(DOMAIN m.body.paint) \in 1..PartCapacity

\* Every variable keeps its type, and what the host plans is what the
\* validator accepts: nonempty messages within the limits (planFrame).
TypeOK ==
    /\ desktop \in Images
    /\ phase \in {"connecting", "initial", "running", "ended"}
    /\ camera \in {"idle", "offer", "drain", "push"}
    /\ {held, slot, previous} \subseteq ImageOrNone
    /\ {detGeneration, detSequence, svcGeneration, requests, spurious, sessions} \subseteq Nat
    /\ {keyframeRequested, keyframeDue} \subseteq BOOLEAN
    /\ \A i \in 1..Len(outbox) : MessageOK(outbox[i])
    /\ \A i \in 1..Len(wire) : MessageOK(wire[i])
    /\ presented \in Images \cup {<<>>}

\* Whatever the desktop does and wherever the session is cut, every frame of
\* the host applies: the detector's numbering (damage.go:147-186) and the
\* client's base rule (framebuffer.go:173-193) never disagree, so the client
\* neither has to ask for a keyframe nor gives the session up.
HostFramesAlwaysApply == result \notin {"keyframe_required", "fatal"}

\* Whenever the capture loop makes its second, blocking offer there is room: the
\* send loop only ever takes captures out, and a client that does not read never
\* holds up the capture of the newest desktop (service.go:266-279).
SecondOfferNeverWaits == Running /\ camera = "push" => slot = None

\* What answers a KEYFRAME_REQUEST is a keyframe, or the end of the session:
\* honoring the request and forgetting it are one step (service.go:306-309).
AnswersWithKeyframe ==
    [][keyframeRequested /\ ~keyframeRequested' /\ phase' # "initial"
           => \/ phase' = "ended"
              \/ \E i \in 1..Len(outbox') :
                    outbox'[i].kind # "config" /\ outbox'[i].body.hdr.key]_vars

\* A KEYFRAME_REQUEST the host read is answered, with a keyframe, or the session
\* ends (service.go:306-309).
RequestAnswered ==
    /\ keyframeRequested ~> ~keyframeRequested \/ phase # "running"
    /\ AnswersWithKeyframe

\* A client that was told of a display gets the frame that completes it, or
\* starts anew with the next session: no DISPLAY_CONFIG is left without its
\* frame, also when the limits cannot carry that frame (service.go:330-339).
ConfigBringsFrame ==
    (generation # 0 /\ frameSequence = 0) ~> (frameSequence # 0 \/ generation = 0)

\* Once the desktop stands still and the session is up, the client shows it:
\* whatever was missed, a hash collision included, the periodic keyframe
\* repairs (damage.go:213-219, service.go:284-298).
Converges == <>[](phase = "ended" \/ presented = desktop)

Faithful == INSTANCE Mirror WITH screen <- presented, coming <- unshown

\* With tile hashes that do not collide, the renderer shows the published
\* captures whole, in order, each of them.
ImplementsMirror == Faithful!Spec
==============================================================================
