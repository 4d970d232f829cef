---------------------------- MODULE Framebuffer ----------------------------
(***************************************************************************)
(* The client's framebuffer (internal/client/framebuffer.go) as the        *)
(* receive loop of ServeConn (internal/client/session.go) drives it: a     *)
(* visible buffer and a spare one of the same size, swapped when a logical *)
(* frame is complete; one FRAME_PART reassembler; and a drain for the tail *)
(* of a delta that was refused.                                            *)
(*                                                                         *)
(* The messages are the ones ValidateMessage lets through, in any order: a *)
(* host that is wrong about the base, the order or the geometry is exactly *)
(* what the reassembler exists to survive.  A fatal outcome ends ServeConn,*)
(* and the next connection starts with Reset.                              *)
(*                                                                         *)
(* Abstraction: a rectangle is one cell of the display, a message's        *)
(* rectangles are a function from cells to colors, and a pixel buffer is a *)
(* color for every cell.                                                   *)
(***************************************************************************)
EXTENDS Naturals, FiniteSets

CONSTANTS
    Cells,          \* every cell any display can have
    Colors, Blank,  \* what a cell shows; Blank is freshly allocated memory
    Geometries,     \* the displays: the set of cells each one has
    Generations,    \* generation numbers the host may announce
    Sequences,      \* frame sequence numbers the host may use
    PartCounts,     \* part counts of a split frame
    MaxRectangles,  \* Limits.MaxRectangles, per message and per logical frame
    None            \* no part sequence in progress

ASSUME CellsAssumption    == IsFiniteSet(Cells) /\ Geometries \subseteq (SUBSET Cells) \ {{}}
ASSUME ColorsAssumption   == Blank \in Colors
ASSUME NumbersAssumption  == /\ Generations \subseteq Nat \ {0}
                             /\ Sequences \subseteq Nat \ {0}
                             /\ PartCounts \subseteq Nat \ {0, 1}
                             /\ MaxRectangles \in Nat \ {0}

VARIABLES
    generation,        \* the display generation, 0 before any DISPLAY_CONFIG
    frameSequence,     \* the last committed frame, 0 after a DISPLAY_CONFIG
    display,           \* the cells of the configured display
    mem,               \* the contents of the two framebuffer-sized buffers
    pixels,            \* which buffer is visible, 0 when none is allocated
    spare,             \* which buffer is scratch, 0 when none is allocated
    keyframeRequired,  \* only a keyframe may be committed
    staging,           \* the part sequence being reassembled, or None
    discard,           \* the refused part sequence being drained, or None
    result             \* what the last call returned to ServeConn

fbVars == <<generation, frameSequence, display, mem, pixels, spare,
            keyframeRequired, staging, discard, result>>

------------------------------------------------------------------------------
\* Messages

\* A logical frame's header: the fields every one of its parts repeats.
Header ==
    {h \in [gen: Generations, seq: Sequences, base: Sequences \cup {0},
            key: BOOLEAN, count: PartCounts \cup {1}] :
        (h.key <=> h.base = 0) /\ h.base < h.seq}

\* The rectangles of one message: disjoint, at least one, at most MaxRectangles.
Paint == UNION {[area -> Colors] :
                   area \in {a \in SUBSET Cells : Cardinality(a) \in 1..MaxRectangles}}

\* "sound" is whether every rectangle's body decodes to its pixels.
Frame == {m \in [hdr: Header, paint: Paint, sound: BOOLEAN] : m.hdr.count = 1}

FramePart ==
    {m \in [hdr: Header, index: UNION {0 .. n - 1 : n \in PartCounts},
            paint: Paint, sound: BOOLEAN] :
        m.hdr.count # 1 /\ m.index < m.hdr.count}

DisplayConfig == [gen: Generations, area: Geometries]

Area(m) == DOMAIN m.paint

------------------------------------------------------------------------------
\* Buffers

Blit(buffer, paint) ==
    [c \in Cells |-> IF c \in DOMAIN paint THEN paint[c] ELSE buffer[c]]

\* Some of the rectangles, the ones painted before one of them failed.
Some(paint, done) == [c \in done |-> paint[c]]

\* Mistake: a delta is painted over whatever the scratch buffer held.
ScratchNotCopied(hdr) == mem[spare]

\* What the scratch buffer holds before a frame paints it: a delta starts from
\* a copy of the committed pixels, a keyframe from whatever was left there.
Scratch(hdr) == IF hdr.key THEN mem[spare] ELSE mem[pixels]

Fatal == result' = "fatal"
------------------------------------------------------------------------------
\* Configure

StaleConfig(config) ==
    /\ config.gen <= generation
    /\ Fatal
    /\ UNCHANGED <<generation, frameSequence, display, mem, pixels, spare,
                   keyframeRequired, staging, discard>>

\* Everything is replaced even when the config cuts a part sequence in two,
\* which is then reported as an error.
NewConfig(config) ==
    /\ config.gen > generation
    /\ generation' = config.gen
    /\ frameSequence' = 0
    /\ display' = config.area
    /\ mem' = [b \in 1..2 |-> [c \in Cells |-> Blank]]
    /\ pixels' = 1
    /\ spare' = 2
    /\ keyframeRequired' = TRUE
    /\ staging' = None
    /\ discard' = None
    /\ result' = IF staging # None \/ discard # None THEN "fatal" ELSE "ok"

Configure(config) == StaleConfig(config) \/ NewConfig(config)

------------------------------------------------------------------------------
\* What FRAME and the first FRAME_PART are tested for, in the code's order

\* Mistakes: a keyframe is held to the base rule; a replayed keyframe passes.
BaseMissingForKeyframes(hdr) == hdr.base # frameSequence
NeverReplayed(hdr) == FALSE

WrongGeneration(hdr) == hdr.gen # generation
BaseMissing(hdr)     == ~hdr.key /\ (keyframeRequired \/ hdr.base # frameSequence)
Replayed(hdr)        == hdr.key /\ hdr.seq <= frameSequence

\* Mistake: the buffers are not swapped, so the next frame paints the visible one.
CommitWithoutSwap(hdr, buffer) ==
    /\ mem' = [mem EXCEPT ![spare] = buffer]
    /\ pixels' = spare
    /\ spare' = spare
    /\ frameSequence' = hdr.seq
    /\ keyframeRequired' = FALSE
    /\ staging' = None
    /\ result' = "committed"
    /\ UNCHANGED <<generation, display, discard>>

Commit(hdr, buffer) ==
    /\ mem' = [mem EXCEPT ![spare] = buffer]
    /\ pixels' = spare
    /\ spare' = pixels
    /\ frameSequence' = hdr.seq
    /\ keyframeRequired' = FALSE
    /\ staging' = None
    /\ result' = "committed"
    /\ UNCHANGED <<generation, display, discard>>

------------------------------------------------------------------------------
\* Apply: one FRAME

RejectFrame(m) ==
    /\ \/ staging # None
       \/ discard # None
       \/ WrongGeneration(m.hdr)
       \/ ~BaseMissing(m.hdr) /\ Replayed(m.hdr)
    /\ Fatal
    /\ UNCHANGED <<generation, frameSequence, display, mem, pixels, spare,
                   keyframeRequired, staging, discard>>

FrameWellTimed(m) == staging = None /\ discard = None /\ ~WrongGeneration(m.hdr)

RefuseFrame(m) ==
    /\ FrameWellTimed(m)
    /\ BaseMissing(m.hdr)
    /\ result' = "keyframe_required"
    /\ UNCHANGED <<generation, frameSequence, display, mem, pixels, spare,
                   keyframeRequired, staging, discard>>

\* A rectangle outside the display or one that does not decode, after some of
\* the others were painted; or a keyframe that leaves cells uncovered.
SpoiltFrame(m) ==
    /\ FrameWellTimed(m) /\ ~BaseMissing(m.hdr) /\ ~Replayed(m.hdr)
    /\ \/ ~(Area(m) \subseteq display)
       \/ ~m.sound
       \/ m.hdr.key /\ Area(m) # display
    /\ \E done \in SUBSET (Area(m) \cap display) :
          /\ m.sound /\ Area(m) \subseteq display => done = Area(m)
          /\ mem' = [mem EXCEPT ![spare] = Blit(Scratch(m.hdr), Some(m.paint, done))]
    /\ Fatal
    /\ UNCHANGED <<generation, frameSequence, display, pixels, spare,
                   keyframeRequired, staging, discard>>

CommitFrame(m) ==
    /\ FrameWellTimed(m) /\ ~BaseMissing(m.hdr) /\ ~Replayed(m.hdr)
    /\ Area(m) \subseteq display /\ m.sound
    /\ m.hdr.key => Area(m) = display
    /\ Commit(m.hdr, Blit(Scratch(m.hdr), m.paint))

Apply(m) == RejectFrame(m) \/ RefuseFrame(m) \/ SpoiltFrame(m) \/ CommitFrame(m)

------------------------------------------------------------------------------
\* ApplyPart: one FRAME_PART

\* Cells this part may not touch again, and how many a frame may have in all.
Overlaps(painted, m) == Area(m) \cap painted # {}
TooMany(painted, m)  == Cardinality(painted) + Cardinality(Area(m)) > MaxRectangles

\* Add the rectangles of a part to the sequence s whose scratch buffer holds
\* buffer: refuse them, keep collecting, or commit when the part is the last.
AddPart(s, buffer, m) ==
    \/ /\ m.index # s.next \/ TooMany(s.painted, m)
       /\ staging' = s
       /\ mem' = [mem EXCEPT ![spare] = buffer]
       /\ Fatal
       /\ UNCHANGED <<generation, frameSequence, display, pixels, spare,
                      keyframeRequired, discard>>
    \/ /\ m.index = s.next /\ ~TooMany(s.painted, m)
       /\ ~(Area(m) \subseteq display) \/ Overlaps(s.painted, m) \/ ~m.sound
       /\ \E done \in SUBSET ((Area(m) \cap display) \ s.painted) :
             /\ staging' = [s EXCEPT !.painted = @ \cup done]
             /\ mem' = [mem EXCEPT ![spare] = Blit(buffer, Some(m.paint, done))]
       /\ Fatal
       /\ UNCHANGED <<generation, frameSequence, display, pixels, spare,
                      keyframeRequired, discard>>
    \/ /\ m.index = s.next /\ ~TooMany(s.painted, m)
       /\ Area(m) \subseteq display /\ ~Overlaps(s.painted, m) /\ m.sound
       /\ \/ /\ m.index + 1 < s.hdr.count
             /\ staging' = [s EXCEPT !.painted = @ \cup Area(m), !.next = @ + 1]
             /\ mem' = [mem EXCEPT ![spare] = Blit(buffer, m.paint)]
             /\ result' = "ok"
             /\ UNCHANGED <<generation, frameSequence, display, pixels, spare,
                            keyframeRequired, discard>>
          \/ /\ m.index + 1 >= s.hdr.count
             /\ s.hdr.key /\ s.painted \cup Area(m) # display
             /\ staging' = [s EXCEPT !.painted = @ \cup Area(m), !.next = @ + 1]
             /\ mem' = [mem EXCEPT ![spare] = Blit(buffer, m.paint)]
             /\ Fatal
             /\ UNCHANGED <<generation, frameSequence, display, pixels, spare,
                            keyframeRequired, discard>>
          \/ /\ m.index + 1 >= s.hdr.count
             /\ s.hdr.key => s.painted \cup Area(m) = display
             /\ Commit(s.hdr, Blit(buffer, m.paint))

\* A sequence that restarts, continues nothing, changes its header or replays
\* a committed frame.  A restart drops what was staged.
RejectPart(m) ==
    /\ \/ WrongGeneration(m.hdr)
       \/ discard = None /\ m.index = 0 /\ staging # None
       \/ discard = None /\ m.index = 0 /\ ~BaseMissing(m.hdr) /\ Replayed(m.hdr)
       \/ discard = None /\ m.index # 0 /\ staging = None
       \/ discard = None /\ m.index # 0 /\ staging # None /\ m.hdr # staging.hdr
    /\ staging' = IF ~WrongGeneration(m.hdr) /\ m.index = 0 THEN None ELSE staging
    /\ Fatal
    /\ UNCHANGED <<generation, frameSequence, display, mem, pixels, spare,
                   keyframeRequired, discard>>

StartPossible(m) ==
    ~WrongGeneration(m.hdr) /\ discard = None /\ m.index = 0 /\ staging = None

BeginDiscard(m) ==
    /\ StartPossible(m)
    /\ BaseMissing(m.hdr)
    /\ discard' = [hdr |-> m.hdr, next |-> 1, painted |-> Area(m)]
    /\ result' = "keyframe_required"
    /\ UNCHANGED <<generation, frameSequence, display, mem, pixels, spare,
                   keyframeRequired, staging>>

StartStaging(m) ==
    /\ StartPossible(m)
    /\ ~BaseMissing(m.hdr) /\ ~Replayed(m.hdr)
    /\ AddPart([hdr |-> m.hdr, next |-> 0, painted |-> {}], Scratch(m.hdr), m)

ContinueStaging(m) ==
    /\ ~WrongGeneration(m.hdr) /\ discard = None /\ m.index # 0
    /\ staging # None /\ m.hdr = staging.hdr
    /\ AddPart(staging, mem[spare], m)

\* The drain checks header, order and geometry, and decodes nothing.
DrainFits(m) ==
    /\ m.index # 0 /\ m.hdr = discard.hdr /\ m.index = discard.next
    /\ ~TooMany(discard.painted, m)

\* Mistake: the drain waits for one part more than the host sends.
DrainPartTooLong(m) ==
    /\ ~WrongGeneration(m.hdr) /\ discard # None
    /\ DrainFits(m)
    /\ Area(m) \subseteq display /\ ~Overlaps(discard.painted, m)
    /\ discard' = [discard EXCEPT !.next = @ + 1, !.painted = @ \cup Area(m)]
    /\ result' = "ok"
    /\ UNCHANGED <<generation, frameSequence, display, mem, pixels, spare,
                   keyframeRequired, staging>>

DrainPart(m) ==
    /\ ~WrongGeneration(m.hdr) /\ discard # None
    /\ DrainFits(m)
    /\ Area(m) \subseteq display /\ ~Overlaps(discard.painted, m)
    /\ discard' = IF m.index + 1 >= discard.hdr.count
                     THEN None
                     ELSE [discard EXCEPT !.next = @ + 1, !.painted = @ \cup Area(m)]
    /\ result' = "ok"
    /\ UNCHANGED <<generation, frameSequence, display, mem, pixels, spare,
                   keyframeRequired, staging>>

BadDrain(m) ==
    /\ ~WrongGeneration(m.hdr) /\ discard # None
    /\ \/ ~DrainFits(m) /\ discard' = discard
       \/ /\ DrainFits(m)
          /\ ~(Area(m) \subseteq display) \/ Overlaps(discard.painted, m)
          /\ \E done \in SUBSET ((Area(m) \cap display) \ discard.painted) :
                discard' = [discard EXCEPT !.painted = @ \cup done]
    /\ Fatal
    /\ UNCHANGED <<generation, frameSequence, display, mem, pixels, spare,
                   keyframeRequired, staging>>

ApplyPart(m) ==
    \/ RejectPart(m)
    \/ BeginDiscard(m)
    \/ StartStaging(m)
    \/ ContinueStaging(m)
    \/ DrainPart(m)
    \/ BadDrain(m)

------------------------------------------------------------------------------
\* A new connection

\* Mistake: the parts of the last session stay staged.
ResetButStaging ==
    /\ generation' = 0
    /\ frameSequence' = 0
    /\ display' = {}
    /\ mem' = [b \in 1..2 |-> [c \in Cells |-> Blank]]
    /\ pixels' = 0
    /\ spare' = 0
    /\ keyframeRequired' = FALSE
    /\ discard' = None
    /\ result' = "none"
    /\ UNCHANGED staging

Reset ==
    /\ generation' = 0
    /\ frameSequence' = 0
    /\ display' = {}
    /\ mem' = [b \in 1..2 |-> [c \in Cells |-> Blank]]
    /\ pixels' = 0
    /\ spare' = 0
    /\ keyframeRequired' = FALSE
    /\ staging' = None
    /\ discard' = None
    /\ result' = "none"

\* The zero value NewFramebuffer returns.
Init ==
    /\ generation = 0
    /\ frameSequence = 0
    /\ display = {}
    /\ mem = [b \in 1..2 |-> [c \in Cells |-> Blank]]
    /\ pixels = 0
    /\ spare = 0
    /\ keyframeRequired = FALSE
    /\ staging = None
    /\ discard = None
    /\ result = "none"

\* ServeConn reads messages until a call returns a fatal error.
Serving == result # "fatal"

ReceiveConfig == Serving /\ \E config \in DisplayConfig : Configure(config)
ReceiveFrame  == Serving /\ \E m \in Frame : Apply(m)
ReceivePart   == Serving /\ \E m \in FramePart : ApplyPart(m)

Next == Reset \/ ReceiveConfig \/ ReceiveFrame \/ ReceivePart

Spec == Init /\ [][Next]_fbVars

------------------------------------------------------------------------------
\* Properties

Assembly(next) == [hdr: Header, next: next, painted: SUBSET Cells]

\* The nil pointer is no part sequence, in here or in AtomicDisplay.
ASSUME NoneAssumption ==
    /\ None \notin Assembly(Nat)
    /\ None \notin [hdr: Header, parts: Nat, got: UNION {[area -> Colors] : area \in SUBSET Cells}]

\* Every variable keeps its type, of every call of the framebuffer.
TypeOK ==
    /\ generation \in Generations \cup {0}
    /\ frameSequence \in Sequences \cup {0}
    /\ display \in SUBSET Cells
    /\ mem \in [1..2 -> [Cells -> Colors]]
    /\ pixels \in 0..2
    /\ spare \in 0..2
    /\ keyframeRequired \in BOOLEAN
    /\ staging \in Assembly(Nat) \cup {None}
    /\ discard \in Assembly(Nat) \cup {None}
    /\ discard # None => discard.next \in 1 .. discard.hdr.count - 1
    /\ result \in {"none", "ok", "committed", "keyframe_required", "fatal"}

\* A frame being reassembled still builds on what is visible: the visible and
\* the scratch buffer are distinct allocations, and outside the cells painted
\* so far a staged delta equals the committed pixels, however many parts and
\* refused frames came before (framebuffer.go:72-90, startStagingLocked).
StagedOverCommitted ==
    /\ IF generation = 0
          THEN pixels = 0 /\ spare = 0 /\ staging = None /\ discard = None
          ELSE pixels \in 1..2 /\ spare \in 1..2 /\ pixels # spare
    /\ staging # None =>
         /\ ~staging.hdr.key =>
               /\ staging.hdr.base = frameSequence
               /\ \A c \in Cells \ staging.painted : mem[spare][c] = mem[pixels][c]
         /\ staging.hdr.key => staging.hdr.seq > frameSequence

\* There is one assembly at a time, the drain is only ever of a delta, and
\* while a keyframe is required (nothing was committed since the last
\* DISPLAY_CONFIG) only a keyframe is staged: so the keyframe that answers a
\* KEYFRAME_REQUEST is never swallowed by the drain (framebuffer.go:54-70).
OneAssembly ==
    /\ staging = None \/ discard = None
    /\ discard # None => ~discard.hdr.key
    /\ generation # 0 => (keyframeRequired <=> frameSequence = 0)
    /\ keyframeRequired /\ staging # None => staging.hdr.key

\* The visible cells change only when a frame commits or the display is
\* replaced, and a commit never goes back: parts, drains, refused and spoilt
\* frames leave every visible cell alone (framebuffer.go:195-223, 431-441).
VisibleChangesOnCommit ==
    [][pixels # 0 /\ generation' = generation
          => \/ result' = "committed" /\ frameSequence' > frameSequence
             \/ /\ \A c \in display : mem'[pixels'][c] = mem[pixels][c]
                /\ frameSequence' = frameSequence]_fbVars

\* A refused part sequence asks for a keyframe once: its tail is drained
\* without asking again, and with all its parts drained in order the next
\* sequence may start (framebuffer.go:232-237).
AsksOncePerSequence ==
    [][discard # None => /\ result' # "keyframe_required"
                         /\ result' = "ok" => (discard' = None <=> discard.next + 1 = discard.hdr.count)
      ]_fbVars

\* The buffers, the copies and the swap implement a screen that changes one
\* whole frame at a time.
Visible == [c \in display |-> mem[pixels][c]]

Pending ==
    IF staging = None \/ result = "fatal" THEN None
    ELSE [hdr |-> staging.hdr, parts |-> staging.next,
          got |-> [c \in staging.painted |-> mem[spare][c]]]

Abstract == INSTANCE AtomicDisplay
                WITH gen <- generation, seq <- frameSequence,
                     screen <- Visible, pending <- Pending

\* Every behaviour of the framebuffer is one of AtomicDisplay: no reader of the
\* visible pixels can tell the reassembler from a display that receives whole
\* frames (framebuffer.go ApplyPart, commitStagingLocked).
ImplementsAtomicDisplay == Abstract!Spec
==============================================================================
