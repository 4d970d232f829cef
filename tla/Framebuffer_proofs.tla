------------------------- MODULE Framebuffer_proofs -------------------------
(***************************************************************************)
(* Proofs about the client's framebuffer, for every display, every number  *)
(* of colors, generations, frames and parts.                               *)
(*                                                                         *)
(* The three invariants of Framebuffer are inductive only together: that a *)
(* staged delta still builds on the visible pixels needs the two buffers   *)
(* to be distinct and the staged header to be well formed, and that only a *)
(* keyframe is staged while one is required needs the frame sequence to be *)
(* zero exactly then.                                                      *)
(*                                                                         *)
(* The same invariant carries the steps: what a call does to the visible   *)
(* cells (VisibleCorrect, AskedOnce), and what it does to the screen of    *)
(* AtomicDisplay (Refinement).                                             *)
(***************************************************************************)
EXTENDS Framebuffer, TLAPS

IInv == TypeOK /\ StagedOverCommitted /\ OneAssembly

USE NumbersAssumption, ColorsAssumption, CellsAssumption

------------------------------------------------------------------------------
\* Painting buffers

\* Painting a buffer gives a buffer.
LEMMA BlitType ==
    ASSUME NEW buffer \in [Cells -> Colors],
           NEW paint, NEW area \in SUBSET Cells, paint \in [area -> Colors]
    PROVE  Blit(buffer, paint) \in [Cells -> Colors]
BY DEF Blit

\* The rectangles of a message are a function on some cells.
LEMMA PaintType ==
    ASSUME NEW paint \in Paint
    PROVE  /\ DOMAIN paint \in SUBSET Cells
           /\ paint \in [DOMAIN paint -> Colors]
BY DEF Paint

\* So are the ones painted before one of them failed.
LEMMA SomeType ==
    ASSUME NEW paint \in Paint, NEW done \in SUBSET (DOMAIN paint)
    PROVE  /\ done \in SUBSET Cells
           /\ Some(paint, done) \in [done -> Colors]
           /\ DOMAIN Some(paint, done) = done
BY PaintType DEF Some

\* Outside the cells it paints, Blit changes nothing.
LEMMA BlitOutside ==
    ASSUME NEW buffer \in [Cells -> Colors], NEW paint,
           NEW c \in Cells, c \notin DOMAIN paint
    PROVE  Blit(buffer, paint)[c] = buffer[c]
BY DEF Blit

\* What a message's header says.
LEMMA HeaderType ==
    ASSUME NEW h \in Header
    PROVE  /\ h.gen \in Generations /\ h.gen \in Nat \ {0}
           /\ h.seq \in Sequences /\ h.seq \in Nat \ {0}
           /\ h.base \in Nat /\ h.base < h.seq
           /\ h.key \in BOOLEAN /\ (h.key <=> h.base = 0)
           /\ h.count \in Nat \ {0}
<1>1. h \in [gen: Generations, seq: Sequences, base: Sequences \cup {0},
             key: BOOLEAN, count: PartCounts \cup {1}]
  BY DEF Header
<1>2. (h.key <=> h.base = 0) /\ h.base < h.seq
  BY DEF Header
<1>3. /\ h.gen \in Generations /\ h.seq \in Sequences /\ h.base \in Sequences \cup {0}
      /\ h.key \in BOOLEAN /\ h.count \in PartCounts \cup {1}
  BY <1>1
<1>4. Sequences \cup {0} \subseteq Nat /\ PartCounts \cup {1} \subseteq Nat \ {0}
  BY NumbersAssumption
<1>5. h.base \in Nat /\ h.count \in Nat \ {0}
  BY <1>3, <1>4
<1> QED
  BY <1>2, <1>3, <1>5

------------------------------------------------------------------------------
\* The steps

\* What the proofs below establish of a step.
VisibleStep ==
    pixels # 0 /\ generation' = generation
        => \/ result' = "committed" /\ frameSequence' > frameSequence
           \/ /\ \A c \in display : mem'[pixels'][c] = mem[pixels][c]
              /\ frameSequence' = frameSequence

Preserved == IInv' /\ VisibleStep

LEMMA ResetStep == ASSUME IInv, Reset PROVE Preserved
<1>1. [b \in 1..2 |-> [c \in Cells |-> Blank]] \in [1..2 -> [Cells -> Colors]]
  OBVIOUS
<1>2. mem' \in [1..2 -> [Cells -> Colors]]
  BY <1>1 DEF Reset
<1>3. TypeOK'
  <2>1. generation' \in Generations \cup {0} /\ frameSequence' \in Sequences \cup {0}
    BY DEF Reset
  <2>2. pixels' \in 0..2 /\ spare' \in 0..2 /\ display' \in SUBSET Cells
    BY DEF Reset
  <2>3. staging' = None /\ discard' = None /\ keyframeRequired' \in BOOLEAN
    BY DEF Reset
  <2>4. result' \in {"none", "ok", "committed", "keyframe_required", "fatal"}
    BY DEF Reset
  <2> QED
    BY <1>2, <2>1, <2>2, <2>3, <2>4 DEF TypeOK
<1>4. StagedOverCommitted' /\ OneAssembly'
  BY DEF Reset, StagedOverCommitted, OneAssembly
<1>5. VisibleStep
  BY DEF Reset, VisibleStep, IInv, StagedOverCommitted
<1> QED
  BY <1>3, <1>4, <1>5 DEF Preserved, IInv

LEMMA ConfigureStep ==
    ASSUME IInv, NEW config \in DisplayConfig, Configure(config)
    PROVE  Preserved
<1>1. /\ config.gen \in Generations /\ config.gen \in Nat \ {0}
      /\ config.area \in SUBSET Cells
  BY DEF DisplayConfig
<1>2. CASE StaleConfig(config)
  BY <1>2 DEF StaleConfig, Fatal, Preserved, VisibleStep, IInv, TypeOK, StagedOverCommitted, OneAssembly
<1>3. CASE NewConfig(config)
  <2>1. [b \in 1..2 |-> [c \in Cells |-> Blank]] \in [1..2 -> [Cells -> Colors]]
    OBVIOUS
  <2>2. generation \in Nat
    BY DEF IInv, TypeOK
  <2> QED
    BY <1>1, <1>3, <2>1, <2>2
    DEF NewConfig, Preserved, VisibleStep, IInv, TypeOK, StagedOverCommitted, OneAssembly
<1> QED
  BY <1>2, <1>3 DEF Configure

\* Committing a frame whose header follows what is visible.
LEMMA CommitStep ==
    ASSUME IInv, NEW h \in Header, NEW buffer \in [Cells -> Colors], Commit(h, buffer),
           generation # 0, h.seq > frameSequence, discard = None
    PROVE  Preserved
<1>1. h.seq \in Sequences /\ h.seq \in Nat \ {0}
  BY HeaderType
<1>2. mem' \in [1..2 -> [Cells -> Colors]]
  BY DEF Commit, IInv, TypeOK
<1>3. TypeOK'
  BY <1>1, <1>2 DEF Commit, IInv, TypeOK, StagedOverCommitted
<1>4. StagedOverCommitted' /\ OneAssembly'
  BY <1>1 DEF Commit, IInv, StagedOverCommitted, OneAssembly
<1>5. VisibleStep
  BY DEF Commit, VisibleStep
<1> QED
  BY <1>3, <1>4, <1>5 DEF Preserved, IInv

\* A step that changes nothing but the outcome and, at most, the scratch
\* buffer and drops what is staged.
LEMMA ScratchStep ==
    ASSUME IInv, NEW buffer \in [Cells -> Colors], staging = None,
           mem' = [mem EXCEPT ![spare] = buffer], generation # 0,
           result' \in {"keyframe_required", "fatal"},
           UNCHANGED <<generation, frameSequence, display, pixels, spare,
                       keyframeRequired, staging, discard>>
    PROVE  Preserved
<1>1. mem' \in [1..2 -> [Cells -> Colors]]
  BY DEF IInv, TypeOK
<1>2. mem'[pixels] = mem[pixels]
  BY DEF IInv, TypeOK, StagedOverCommitted
<1> QED
  BY <1>1, <1>2 DEF Preserved, VisibleStep, IInv, TypeOK, StagedOverCommitted, OneAssembly

LEMMA ApplyStep ==
    ASSUME IInv, NEW m \in Frame, Apply(m)
    PROVE  Preserved
<1>1. m.hdr \in Header /\ m.paint \in Paint
  BY DEF Frame
<1>2. CASE RejectFrame(m) \/ RefuseFrame(m)
  BY <1>2 DEF RejectFrame, RefuseFrame, Fatal, Preserved, VisibleStep, IInv, TypeOK,
              StagedOverCommitted, OneAssembly
<1>3. ASSUME FrameWellTimed(m)
      PROVE  /\ staging = None /\ discard = None /\ generation # 0
             /\ Scratch(m.hdr) \in [Cells -> Colors]
  <2>1. staging = None /\ discard = None /\ generation # 0
    BY <1>1, <1>3, HeaderType DEF FrameWellTimed, WrongGeneration
  <2> QED
    BY <2>1 DEF IInv, TypeOK, StagedOverCommitted, Scratch
<1>4. CASE SpoiltFrame(m)
  <2>1. PICK done \in SUBSET (Area(m) \cap display) :
           mem' = [mem EXCEPT ![spare] = Blit(Scratch(m.hdr), Some(m.paint, done))]
    BY <1>4 DEF SpoiltFrame
  <2>2. Blit(Scratch(m.hdr), Some(m.paint, done)) \in [Cells -> Colors]
    BY <1>1, <1>3, <1>4, SomeType, BlitType DEF Area, SpoiltFrame
  <2> QED
    BY <1>3, <1>4, <2>1, <2>2, ScratchStep DEF SpoiltFrame, Fatal
<1>5. CASE CommitFrame(m)
  <2>1. Blit(Scratch(m.hdr), m.paint) \in [Cells -> Colors]
    BY <1>1, <1>3, <1>5, PaintType, BlitType DEF CommitFrame
  <2>2. m.hdr.seq > frameSequence
    BY <1>1, <1>5, HeaderType DEF CommitFrame, BaseMissing, Replayed, IInv, TypeOK
  <2> QED
    BY <1>1, <1>3, <1>5, <2>1, <2>2, CommitStep DEF CommitFrame
<1> QED
  BY <1>2, <1>4, <1>5 DEF Apply

\* A part is added to a sequence s that follows what is visible.
LEMMA AddPartStep ==
    ASSUME IInv, generation # 0, discard = None, NEW m \in FramePart,
           NEW s \in Assembly(Nat), NEW buffer \in [Cells -> Colors], AddPart(s, buffer, m),
           s.hdr.seq > frameSequence,
           ~s.hdr.key => /\ ~keyframeRequired
                         /\ s.hdr.base = frameSequence
                         /\ \A c \in Cells \ s.painted : buffer[c] = mem[pixels][c]
    PROVE  Preserved
<1>1. /\ m.paint \in Paint /\ Area(m) \in SUBSET Cells
      /\ s.hdr \in Header /\ s.next \in Nat /\ s.painted \in SUBSET Cells
  BY PaintType DEF FramePart, Area, Assembly
<1>2. pixels \in 1..2 /\ spare \in 1..2 /\ pixels # spare
  BY DEF IInv, StagedOverCommitted
<1>3. ASSUME NEW painted \in SUBSET Cells, NEW next \in Nat,
             NEW paint, NEW area \in SUBSET Cells, paint \in [area -> Colors],
             painted = s.painted \cup area,
             staging' = [hdr |-> s.hdr, next |-> next, painted |-> painted],
             mem' = [mem EXCEPT ![spare] = Blit(buffer, paint)],
             result' \in {"ok", "fatal"},
             UNCHANGED <<generation, frameSequence, display, pixels, spare,
                         keyframeRequired, discard>>
      PROVE  Preserved
  <2>1. Blit(buffer, paint) \in [Cells -> Colors]
    BY <1>3, BlitType
  <2>2. mem' \in [1..2 -> [Cells -> Colors]] /\ mem'[spare] = Blit(buffer, paint)
        /\ mem'[pixels] = mem[pixels]
    BY <1>2, <1>3, <2>1 DEF IInv, TypeOK
  <2>3. \A c \in Cells \ painted : Blit(buffer, paint)[c] = buffer[c]
    BY <1>3, BlitOutside
  <2>4. staging' \in Assembly(Nat)
    BY <1>1, <1>3 DEF Assembly
  <2>5. TypeOK'
    BY <1>3, <2>2, <2>4 DEF IInv, TypeOK
  <2>6. StagedOverCommitted'
    BY <1>1, <1>2, <1>3, <2>2, <2>3 DEF StagedOverCommitted
  <2>7. OneAssembly' /\ VisibleStep
    BY <1>1, <1>3, <2>2 DEF IInv, OneAssembly, VisibleStep
  <2> QED
    BY <2>5, <2>6, <2>7 DEF Preserved, IInv
<1>4. s = [hdr |-> s.hdr, next |-> s.next, painted |-> s.painted]
  BY DEF Assembly
<1>5. CASE m.index # s.next \/ TooMany(s.painted, m)
  <2>1. /\ staging' = s /\ mem' = [mem EXCEPT ![spare] = buffer] /\ result' = "fatal"
        /\ UNCHANGED <<generation, frameSequence, display, pixels, spare, keyframeRequired, discard>>
    BY <1>5 DEF AddPart, Fatal
  <2>2. mem' \in [1..2 -> [Cells -> Colors]] /\ mem'[spare] = buffer /\ mem'[pixels] = mem[pixels]
    BY <1>2, <2>1 DEF IInv, TypeOK
  <2>3. TypeOK'
    BY <2>1, <2>2 DEF IInv, TypeOK
  <2>4. StagedOverCommitted'
    BY <1>1, <1>2, <2>1, <2>2 DEF StagedOverCommitted
  <2>5. OneAssembly' /\ VisibleStep
    BY <2>1, <2>2 DEF IInv, OneAssembly, VisibleStep
  <2> QED
    BY <2>3, <2>4, <2>5 DEF Preserved, IInv
<1>6. CASE \E done \in SUBSET ((Area(m) \cap display) \ s.painted) :
              /\ staging' = [s EXCEPT !.painted = @ \cup done]
              /\ mem' = [mem EXCEPT ![spare] = Blit(buffer, Some(m.paint, done))]
              /\ result' = "fatal"
              /\ UNCHANGED <<generation, frameSequence, display, pixels, spare,
                             keyframeRequired, discard>>
  <2>1. PICK done \in SUBSET ((Area(m) \cap display) \ s.painted) :
              /\ staging' = [s EXCEPT !.painted = @ \cup done]
              /\ mem' = [mem EXCEPT ![spare] = Blit(buffer, Some(m.paint, done))]
              /\ result' = "fatal"
              /\ UNCHANGED <<generation, frameSequence, display, pixels, spare,
                             keyframeRequired, discard>>
    BY <1>6
  <2>2. done \in SUBSET Cells /\ Some(m.paint, done) \in [done -> Colors]
    BY <1>1, SomeType DEF Area
  <2>3. staging' = [hdr |-> s.hdr, next |-> s.next, painted |-> s.painted \cup done]
    BY <1>4, <2>1
  <2> QED
    BY <1>1, <1>3, <2>1, <2>2, <2>3
<1>7. CASE /\ staging' = [s EXCEPT !.painted = @ \cup Area(m), !.next = @ + 1]
           /\ mem' = [mem EXCEPT ![spare] = Blit(buffer, m.paint)]
           /\ result' \in {"ok", "fatal"}
           /\ UNCHANGED <<generation, frameSequence, display, pixels, spare,
                          keyframeRequired, discard>>
  <2>1. PICK next \in Nat : next = s.next + 1
    BY <1>1
  <2>2. staging' = [hdr |-> s.hdr, next |-> next, painted |-> s.painted \cup Area(m)]
    BY <1>4, <1>7, <2>1
  <2>3. m.paint \in [Area(m) -> Colors]
    BY <1>1, PaintType DEF Area
  <2>4. s.painted \cup Area(m) \in SUBSET Cells
    BY <1>1
  <2> QED
    BY <1>1, <1>3, <1>7, <2>2, <2>3, <2>4
<1>8. CASE Commit(s.hdr, Blit(buffer, m.paint))
  <2>1. Blit(buffer, m.paint) \in [Cells -> Colors]
    BY <1>1, PaintType, BlitType
  <2> QED
    BY <1>1, <1>8, <2>1, CommitStep
<1> QED
  BY <1>5, <1>6, <1>7, <1>8 DEF AddPart, Fatal

LEMMA StartStagingStep ==
    ASSUME IInv, NEW m \in FramePart, StartStaging(m)
    PROVE  Preserved
<1> DEFINE s == [hdr |-> m.hdr, next |-> 0, painted |-> {}]
<1>1. m.hdr \in Header
  BY DEF FramePart
<1>2. generation # 0 /\ discard = None /\ staging = None
  BY <1>1, HeaderType DEF StartStaging, StartPossible, WrongGeneration
<1>3. s \in Assembly(Nat)
  BY <1>1 DEF Assembly
<1>4. Scratch(m.hdr) \in [Cells -> Colors]
  BY <1>2 DEF IInv, TypeOK, StagedOverCommitted, Scratch
<1>5. m.hdr.seq > frameSequence
  BY <1>1, HeaderType DEF StartStaging, BaseMissing, Replayed, IInv, TypeOK
<1>6. ~m.hdr.key => /\ ~keyframeRequired
                    /\ m.hdr.base = frameSequence
                    /\ \A c \in Cells \ {} : Scratch(m.hdr)[c] = mem[pixels][c]
  BY DEF StartStaging, BaseMissing, Scratch
<1>7. AddPart(s, Scratch(m.hdr), m)
  BY DEF StartStaging
<1> QED
  BY <1>2, <1>3, <1>4, <1>5, <1>6, <1>7, AddPartStep

LEMMA ContinueStagingStep ==
    ASSUME IInv, NEW m \in FramePart, ContinueStaging(m)
    PROVE  Preserved
<1>1. m.hdr \in Header
  BY DEF FramePart
<1>2. generation # 0 /\ discard = None /\ staging # None /\ staging.hdr = m.hdr
  BY <1>1, HeaderType DEF ContinueStaging, WrongGeneration
<1>3. staging \in Assembly(Nat)
  BY <1>2 DEF IInv, TypeOK
<1>4. mem[spare] \in [Cells -> Colors]
  BY <1>2 DEF IInv, TypeOK, StagedOverCommitted
<1>5. staging.hdr.seq > frameSequence
  BY <1>1, <1>2, HeaderType DEF IInv, StagedOverCommitted
<1>6. ~staging.hdr.key => /\ ~keyframeRequired
                          /\ staging.hdr.base = frameSequence
                          /\ \A c \in Cells \ staging.painted : mem[spare][c] = mem[pixels][c]
  BY <1>2 DEF IInv, TypeOK, StagedOverCommitted, OneAssembly
<1>7. AddPart(staging, mem[spare], m)
  BY DEF ContinueStaging
<1> QED
  BY <1>2, <1>3, <1>4, <1>5, <1>6, <1>7, AddPartStep

LEMMA DrainStep ==
    ASSUME IInv, NEW m \in FramePart, BeginDiscard(m) \/ DrainPart(m) \/ BadDrain(m)
    PROVE  Preserved
<1>1. /\ m.hdr \in Header /\ m.hdr.count \in PartCounts /\ m.hdr.count \in Nat \ {0, 1}
      /\ m.index \in Nat /\ Area(m) \in SUBSET Cells
  BY PaintType DEF FramePart, Area, Header
<1>2. CASE BeginDiscard(m)
  <2>1. /\ discard' = [hdr |-> m.hdr, next |-> 1, painted |-> Area(m)]
        /\ staging = None /\ ~m.hdr.key /\ generation # 0
    BY <1>1, <1>2, HeaderType DEF BeginDiscard, StartPossible, BaseMissing, WrongGeneration
  <2>2. discard' \in Assembly(Nat) /\ discard'.next \in 1 .. discard'.hdr.count - 1
        /\ ~discard'.hdr.key
    BY <1>1, <2>1 DEF Assembly
  <2> QED
    BY <1>2, <2>1, <2>2 DEF BeginDiscard, Preserved, VisibleStep, IInv, TypeOK,
                            StagedOverCommitted, OneAssembly
<1>3. CASE DrainPart(m)
  <2>1. discard \in Assembly(Nat) /\ discard.hdr = m.hdr /\ discard.next = m.index
        /\ discard # None /\ staging = None
    BY <1>3 DEF DrainPart, DrainFits, IInv, TypeOK, OneAssembly
  <2>2. CASE m.index + 1 >= discard.hdr.count
    BY <1>3, <2>2 DEF DrainPart, Preserved, VisibleStep, IInv, TypeOK, StagedOverCommitted, OneAssembly
  <2>3. CASE ~(m.index + 1 >= discard.hdr.count)
    <3>1. discard' = [discard EXCEPT !.next = @ + 1, !.painted = @ \cup Area(m)]
      BY <1>3, <2>3 DEF DrainPart
    <3>2. discard = [hdr |-> discard.hdr, next |-> discard.next, painted |-> discard.painted]
          /\ discard.painted \in SUBSET Cells
      BY <2>1 DEF Assembly
    <3>3. PICK next \in Nat : next = discard.next + 1
      BY <1>1, <2>1
    <3>4. discard' = [hdr |-> discard.hdr, next |-> next, painted |-> discard.painted \cup Area(m)]
      BY <3>1, <3>2, <3>3
    <3>5. /\ discard' \in Assembly(Nat) /\ discard'.hdr = m.hdr
          /\ discard'.next = m.index + 1
      BY <1>1, <2>1, <3>2, <3>3, <3>4 DEF Assembly
    <3>6. discard'.next \in 1 .. discard'.hdr.count - 1
      BY <1>1, <2>1, <2>3, <3>5
    <3>7. ~discard'.hdr.key /\ generation # 0
      BY <2>1, <3>5 DEF IInv, OneAssembly, StagedOverCommitted
    <3> QED
      BY <1>3, <2>1, <3>5, <3>6, <3>7
      DEF DrainPart, Preserved, VisibleStep, IInv, TypeOK, StagedOverCommitted, OneAssembly
  <2> QED
    BY <2>2, <2>3
<1>4. CASE BadDrain(m)
  <2>1. discard \in Assembly(Nat) /\ discard # None /\ staging = None /\ generation # 0
        /\ discard.next \in 1 .. discard.hdr.count - 1 /\ ~discard.hdr.key
    BY <1>4 DEF BadDrain, IInv, TypeOK, OneAssembly, StagedOverCommitted
  <2>2. \/ discard' = discard
        \/ \E done \in SUBSET Cells : discard' = [discard EXCEPT !.painted = @ \cup done]
    BY <1>1, <1>4 DEF BadDrain
  <2>3. /\ discard' \in Assembly(Nat) /\ discard'.hdr = discard.hdr
        /\ discard'.next = discard.next
    BY <2>1, <2>2 DEF Assembly
  <2> QED
    BY <1>4, <2>1, <2>3 DEF BadDrain, Fatal, Preserved, VisibleStep, IInv, TypeOK,
                            StagedOverCommitted, OneAssembly
<1> QED
  BY <1>2, <1>3, <1>4

LEMMA RejectPartStep ==
    ASSUME IInv, NEW m \in FramePart, RejectPart(m)
    PROVE  Preserved
BY DEF RejectPart, Fatal, Preserved, VisibleStep, IInv, TypeOK, StagedOverCommitted, OneAssembly

LEMMA StutterStep == ASSUME IInv, UNCHANGED fbVars PROVE Preserved
BY DEF fbVars, Preserved, VisibleStep, IInv, TypeOK, StagedOverCommitted, OneAssembly

\* Every step of the framebuffer keeps the invariant and disturbs the visible
\* pixels only by committing a frame.
LEMMA NextStep == ASSUME IInv, [Next]_fbVars PROVE Preserved
<1>1. CASE Reset
  BY <1>1, ResetStep
<1>2. CASE ReceiveConfig
  BY <1>2, ConfigureStep DEF ReceiveConfig
<1>3. CASE ReceiveFrame
  BY <1>3, ApplyStep DEF ReceiveFrame
<1>4. CASE ReceivePart
  <2>1. PICK m \in FramePart : ApplyPart(m)
    BY <1>4 DEF ReceivePart
  <2> QED
    BY <2>1, RejectPartStep, StartStagingStep, ContinueStagingStep, DrainStep DEF ApplyPart
<1> QED
  BY <1>1, <1>2, <1>3, <1>4, StutterStep DEF Next

LEMMA InitStep == ASSUME Init PROVE IInv
<1>1. mem \in [1..2 -> [Cells -> Colors]]
  BY DEF Init
<1>2. TypeOK
  <2>1. generation \in Generations \cup {0} /\ frameSequence \in Sequences \cup {0}
    BY DEF Init
  <2>2. pixels \in 0..2 /\ spare \in 0..2 /\ display \in SUBSET Cells
    BY DEF Init
  <2>3. staging = None /\ discard = None /\ keyframeRequired \in BOOLEAN
    BY DEF Init
  <2>4. result \in {"none", "ok", "committed", "keyframe_required", "fatal"}
    BY DEF Init
  <2> QED
    BY <1>1, <2>1, <2>2, <2>3, <2>4 DEF TypeOK
<1> QED
  BY <1>2 DEF Init, IInv, StagedOverCommitted, OneAssembly

------------------------------------------------------------------------------
\* The theorems

LEMMA Invariance == Spec => []IInv
<1>1. IInv /\ [Next]_fbVars => IInv'
  BY NextStep DEF Preserved
<1> QED
  BY <1>1, InitStep, PTL DEF Spec

\* The framebuffer keeps its types whatever messages arrive in whatever order
\* (framebuffer.go).
THEOREM TypeCorrect == Spec => []TypeOK
BY Invariance, PTL DEF IInv

\* A staged frame always builds on what is visible, in a buffer of its own
\* (framebuffer.go: startStagingLocked, stagingBufferLocked).
THEOREM StagedCorrect == Spec => []StagedOverCommitted
BY Invariance, PTL DEF IInv

\* One part sequence at a time, and never a keyframe in the drain
\* (framebuffer.go: beginDiscardLocked, drainDiscardLocked).
THEOREM OneAssemblyCorrect == Spec => []OneAssembly
BY Invariance, PTL DEF IInv

\* What is visible changes by whole frames only and never goes back
\* (framebuffer.go: applyFrameLocked, commitStagingLocked).
THEOREM VisibleCorrect == Spec => VisibleChangesOnCommit
<1>1. IInv /\ [Next]_fbVars => [VisibleStep]_fbVars
  BY NextStep DEF Preserved
<1> QED
  BY <1>1, Invariance, PTL DEF Spec, VisibleChangesOnCommit, VisibleStep

------------------------------------------------------------------------------
\* The drain asks once

\* The step on which AsksOncePerSequence is a statement.
AskStep ==
    discard # None => /\ result' # "keyframe_required"
                      /\ result' = "ok" => (discard' = None <=> discard.next + 1 = discard.hdr.count)

LEMMA AskOfDrain ==
    ASSUME IInv, NEW m \in FramePart, DrainPart(m)
    PROVE  AskStep
<1>1. discard \in Assembly(Nat) /\ discard.hdr = m.hdr /\ discard.next = m.index
      /\ discard.next \in 1 .. discard.hdr.count - 1
  BY DEF DrainPart, DrainFits, IInv, TypeOK
<1>2. m.hdr.count \in Nat /\ Area(m) \in SUBSET Cells
  BY HeaderType, PaintType DEF FramePart, Area
<1>3. result' = "ok"
  BY DEF DrainPart
<1>4. CASE m.index + 1 >= discard.hdr.count
  BY <1>1, <1>2, <1>3, <1>4 DEF DrainPart, AskStep
<1>5. CASE ~(m.index + 1 >= discard.hdr.count)
  <2>1. discard' = [discard EXCEPT !.next = @ + 1, !.painted = @ \cup Area(m)]
    BY <1>5 DEF DrainPart
  <2>2. discard' \in Assembly(Nat)
    <3>1. discard.next + 1 \in Nat
      BY <1>1
    <3>2. discard.painted \cup Area(m) \in SUBSET Cells
      BY <1>1, <1>2 DEF Assembly
    <3> QED
      BY <1>1, <2>1, <3>1, <3>2 DEF Assembly
  <2>3. discard' # None
    BY <2>2, NoneAssumption
  <2>4. discard.next + 1 # discard.hdr.count
    BY <1>1, <1>2, <1>5
  <2> QED
    BY <1>3, <2>3, <2>4 DEF AskStep
<1> QED
  BY <1>4, <1>5

LEMMA AsksOnce == ASSUME IInv, [Next]_fbVars PROVE [AskStep]_fbVars
<1>1. CASE Reset
  BY <1>1 DEF Reset, AskStep
<1>2. CASE ReceiveConfig
  BY <1>2 DEF ReceiveConfig, Configure, StaleConfig, NewConfig, Fatal, AskStep
<1>3. CASE ReceiveFrame
  BY <1>3 DEF ReceiveFrame, Apply, RejectFrame, RefuseFrame, SpoiltFrame, CommitFrame, FrameWellTimed, Fatal, AskStep
<1>4. CASE ReceivePart
  <2>1. PICK m \in FramePart : ApplyPart(m)
    BY <1>4 DEF ReceivePart
  <2>2. CASE RejectPart(m) \/ BeginDiscard(m) \/ StartStaging(m) \/ ContinueStaging(m) \/ BadDrain(m)
    BY <2>2 DEF RejectPart, BeginDiscard, StartStaging, StartPossible, ContinueStaging, BadDrain, Fatal, AskStep
  <2> QED
    BY <2>1, <2>2, AskOfDrain DEF ApplyPart
<1> QED
  BY <1>1, <1>2, <1>3, <1>4 DEF Next

\* Draining a refused sequence never asks again, and is over with its last
\* part (framebuffer.go: drainDiscardLocked).
THEOREM AskedOnce == Spec => AsksOncePerSequence
<1>1. IInv /\ [Next]_fbVars => [AskStep]_fbVars
  BY AsksOnce
<1> QED
  BY <1>1, Invariance, PTL DEF Spec, AsksOncePerSequence, AskStep

------------------------------------------------------------------------------
\* The refinement of AtomicDisplay

\* What is staged is on the display, so that a complete frame can be shown.
PaintedShown == staging # None => staging.painted \subseteq display

LEMMA PaintedByAddPart ==
    ASSUME NEW m, NEW s \in Assembly(Nat), NEW buffer, AddPart(s, buffer, m), s.painted \subseteq display
    PROVE  PaintedShown'
<1>1. UNCHANGED display
  BY DEF AddPart, Commit
<1>2. CASE staging' = s \/ staging' = None
  BY <1>1, <1>2 DEF PaintedShown
<1>3. ASSUME NEW done, done \subseteq display, staging' = [s EXCEPT !.painted = @ \cup done] PROVE PaintedShown'
  BY <1>1, <1>3 DEF PaintedShown, Assembly
<1>4. CASE Area(m) \subseteq display /\ staging' = [s EXCEPT !.painted = @ \cup Area(m), !.next = @ + 1]
  BY <1>1, <1>4 DEF PaintedShown, Assembly
<1> QED
  BY <1>2, <1>3, <1>4 DEF AddPart, Commit

LEMMA PaintedStep == ASSUME IInv, PaintedShown, [Next]_fbVars PROVE PaintedShown'
<1>1. CASE Reset
  BY <1>1 DEF Reset, PaintedShown
<1>2. CASE ReceiveConfig
  BY <1>2 DEF ReceiveConfig, Configure, StaleConfig, NewConfig, PaintedShown
<1>3. CASE ReceiveFrame
  BY <1>3 DEF ReceiveFrame, Apply, RejectFrame, RefuseFrame, SpoiltFrame, CommitFrame, Commit, PaintedShown
<1>4. CASE ReceivePart
  <2>1. PICK m \in FramePart : ApplyPart(m)
    BY <1>4 DEF ReceivePart
  <2>2. CASE RejectPart(m) \/ BeginDiscard(m) \/ DrainPart(m) \/ BadDrain(m)
    BY <2>2 DEF RejectPart, BeginDiscard, DrainPart, BadDrain, PaintedShown
  <2>3. CASE StartStaging(m)
    <3>1. [hdr |-> m.hdr, next |-> 0, painted |-> {}] \in Assembly(Nat)
      BY DEF FramePart, Assembly
    <3> QED
      BY <2>3, <3>1, PaintedByAddPart DEF StartStaging
  <2>4. CASE ContinueStaging(m)
    <3>1. staging \in Assembly(Nat) /\ staging.painted \subseteq display
      BY <2>4 DEF ContinueStaging, IInv, TypeOK, PaintedShown
    <3> QED
      BY <2>4, <3>1, PaintedByAddPart DEF ContinueStaging
  <2> QED
    BY <2>1, <2>2, <2>3, <2>4 DEF ApplyPart
<1>5. CASE UNCHANGED fbVars
  BY <1>5 DEF fbVars, PaintedShown
<1> QED
  BY <1>1, <1>2, <1>3, <1>4, <1>5 DEF Next

\* A step of AtomicDisplay, or none.
AbstractStep == [Abstract!Next]_(Abstract!absVars)

\* A step that leaves the screen alone and stages nothing more is Abandon, if
\* anything was staged.
LEMMA Abandons ==
    ASSUME UNCHANGED <<generation, frameSequence, Visible>>, Pending' = None \/ Pending' = Pending
    PROVE  AbstractStep
BY DEF AbstractStep, Abstract!Next, Abstract!Abandon, Abstract!absVars

\* Only the visible buffer is on the screen.
LEMMA ScratchIsHidden ==
    ASSUME IInv, generation # 0, UNCHANGED <<display, pixels>>, NEW buffer,
           mem' = mem \/ mem' = [mem EXCEPT ![spare] = buffer]
    PROVE  Visible' = Visible
<1>1. mem'[pixels] = mem[pixels]
  BY DEF IInv, TypeOK, StagedOverCommitted
<1> QED
  BY <1>1 DEF Visible

LEMMA ResetMaps == ASSUME Reset PROVE AbstractStep
<1>1. Visible' = <<>>
  BY DEF Reset, Visible
<1> QED
  BY <1>1 DEF Reset, Pending, AbstractStep, Abstract!Next, Abstract!Disconnect

LEMMA ConfigureMaps ==
    ASSUME IInv, NEW config \in DisplayConfig, Configure(config)
    PROVE  AbstractStep
<1>1. config.gen \in Generations /\ config.area \in Geometries /\ config.area \subseteq Cells
  BY DEF DisplayConfig
<1>2. CASE StaleConfig(config)
  BY <1>2, Abandons DEF StaleConfig, Fatal, Pending, Visible
<1>3. CASE NewConfig(config)
  <2>1. Visible' = [c \in config.area |-> Blank]
    BY <1>1, <1>3 DEF NewConfig, Visible
  <2>2. Pending' = None
    BY <1>3 DEF NewConfig, Pending
  <2>3. Abstract!NewDisplay(config.gen, config.area)
    BY <1>3, <2>1, <2>2 DEF NewConfig, Abstract!NewDisplay
  <2> QED
    BY <1>1, <2>3 DEF AbstractStep, Abstract!Next
<1> QED
  BY <1>2, <1>3 DEF Configure

\* The swap shows a frame: the rectangles paint over what was on the screen.
LEMMA CommitShows ==
    ASSUME IInv, generation # 0, NEW h \in Header, NEW buffer \in [Cells -> Colors], Commit(h, buffer),
           NEW paint, DOMAIN paint \subseteq display, h.key => DOMAIN paint = display,
           \A c \in display : buffer[c] = IF c \in DOMAIN paint THEN paint[c] ELSE mem[pixels][c]
    PROVE  Abstract!Show(h, paint)
<1>1. display' = display /\ display \subseteq Cells /\ generation' = generation
  BY DEF Commit, IInv, TypeOK
<1>2. mem'[pixels'] = buffer
  BY DEF Commit, IInv, TypeOK, StagedOverCommitted
<1>3. Visible' = [c \in display |-> buffer[c]]
  BY <1>1, <1>2 DEF Visible
<1>4. DOMAIN Visible = display /\ \A c \in display : Visible[c] = mem[pixels][c]
  BY DEF Visible
<1>5. Visible' = Abstract!Over(paint, Visible)
  BY <1>3, <1>4 DEF Abstract!Over
<1>6. frameSequence' = h.seq /\ Pending' = None
  BY DEF Commit, Pending
<1> QED
  BY <1>1, <1>4, <1>5, <1>6 DEF Abstract!Show

LEMMA ApplyMaps ==
    ASSUME IInv, Serving, NEW m \in Frame, Apply(m)
    PROVE  AbstractStep
<1>1. m.hdr \in Header /\ m.hdr.count = 1 /\ m.paint \in Paint /\ Area(m) \in SUBSET Cells
  BY PaintType DEF Frame, Area
<1>2. CASE RejectFrame(m)
  BY <1>2, Abandons DEF RejectFrame, Fatal, Pending, Visible
<1>3. ASSUME FrameWellTimed(m)
      PROVE  /\ staging = None /\ Pending = None /\ generation # 0 /\ m.hdr.gen = generation
             /\ Scratch(m.hdr) \in [Cells -> Colors]
  <2>1. staging = None /\ generation # 0 /\ m.hdr.gen = generation
    BY <1>1, <1>3, HeaderType DEF FrameWellTimed, WrongGeneration
  <2> QED
    BY <2>1 DEF IInv, TypeOK, StagedOverCommitted, Scratch, Pending
<1>4. CASE RefuseFrame(m)
  BY <1>3, <1>4, Abandons DEF RefuseFrame, Pending, Visible
<1>5. CASE SpoiltFrame(m)
  <2>1. Visible' = Visible
    BY <1>3, <1>5, ScratchIsHidden DEF SpoiltFrame
  <2> QED
    BY <1>5, <2>1, Abandons DEF SpoiltFrame, Fatal, Pending
<1>6. CASE CommitFrame(m)
  <2>1. m.paint \in [Area(m) -> Colors] /\ DOMAIN m.paint = Area(m)
    BY <1>1, PaintType DEF Area
  <2>2. Blit(Scratch(m.hdr), m.paint) \in [Cells -> Colors]
    BY <1>1, <1>3, <1>6, <2>1, BlitType DEF CommitFrame
  <2>3. /\ Area(m) \subseteq display /\ (m.hdr.key => Area(m) = display)
        /\ Commit(m.hdr, Blit(Scratch(m.hdr), m.paint))
    BY <1>6 DEF CommitFrame
  <2>4. display \subseteq Cells
    BY DEF IInv, TypeOK
  <2>5. \A c \in display : Blit(Scratch(m.hdr), m.paint)[c]
                              = IF c \in DOMAIN m.paint THEN m.paint[c] ELSE mem[pixels][c]
    BY <2>1, <2>3, <2>4 DEF Blit, Scratch
  <2>6. Abstract!Show(m.hdr, m.paint)
    BY <1>1, <1>3, <1>6, <2>1, <2>2, <2>3, <2>5, CommitShows DEF CommitFrame
  <2>7. Abstract!Follows(m.hdr)
    BY <1>1, <1>3, <1>6, HeaderType DEF CommitFrame, BaseMissing, Replayed, Abstract!Follows, IInv, TypeOK
  <2>8. Abstract!Whole(m.hdr)
    BY <1>1, <1>3, <1>6, <2>6, <2>7 DEF CommitFrame, Abstract!Whole
  <2> QED
    BY <1>1, <2>8 DEF AbstractStep, Abstract!Next
<1> QED
  BY <1>2, <1>4, <1>5, <1>6 DEF Apply

\* The conditions under which AddPart is called.
AddingPart(s, buffer, m) ==
    /\ IInv /\ Serving /\ generation # 0
    /\ s \in Assembly(Nat) /\ buffer \in [Cells -> Colors] /\ s.painted \subseteq display
    /\ m \in FramePart /\ m.hdr = s.hdr
    /\ AddPart(s, buffer, m)

LEMMA FailedPartMaps ==
    ASSUME NEW m, NEW s, NEW buffer, AddingPart(s, buffer, m), result' = "fatal"
    PROVE  AbstractStep
<1>1. /\ UNCHANGED <<generation, frameSequence, display, pixels>>
      /\ \E b : mem' = [mem EXCEPT ![spare] = b]
  BY DEF AddingPart, AddPart, Commit
<1>2. Visible' = Visible
  BY <1>1, ScratchIsHidden DEF AddingPart
<1> QED
  BY <1>1, <1>2, Abandons DEF Pending

\* The abstract reassembly after a part that is not the last.
LEMMA CollectedPart ==
    ASSUME NEW m, NEW s, NEW buffer, AddingPart(s, buffer, m), result' = "ok"
    PROVE  /\ m.index = s.next /\ m.index + 1 < s.hdr.count /\ Area(m) \cap s.painted = {}
           /\ UNCHANGED <<generation, frameSequence, Visible>>
           /\ Pending' = [hdr |-> s.hdr, parts |-> s.next + 1,
                          got |-> [c \in s.painted \cup Area(m) |->
                                      IF c \in Area(m) THEN m.paint[c] ELSE buffer[c]]]
<1>1. /\ m.index = s.next /\ m.index + 1 < s.hdr.count /\ Area(m) \cap s.painted = {}
      /\ staging' = [s EXCEPT !.painted = @ \cup Area(m), !.next = @ + 1]
      /\ mem' = [mem EXCEPT ![spare] = Blit(buffer, m.paint)]
      /\ UNCHANGED <<generation, frameSequence, display, pixels, spare>>
  BY DEF AddingPart, AddPart, Fatal, Commit, Overlaps
<1>2. /\ s.hdr \in Header /\ s.next \in Nat /\ s.painted \in SUBSET Cells /\ m.paint \in Paint
      /\ Area(m) \in SUBSET Cells /\ m.paint \in [Area(m) -> Colors] /\ buffer \in [Cells -> Colors]
  BY PaintType DEF AddingPart, Assembly, FramePart, Area
<1>3. /\ staging'.hdr = s.hdr /\ staging'.next = s.next + 1 /\ staging'.painted = s.painted \cup Area(m)
      /\ staging' \in Assembly(Nat)
  <2>1. s.next + 1 \in Nat /\ s.painted \cup Area(m) \in SUBSET Cells
    BY <1>2
  <2> QED
    BY <1>1, <1>2, <2>1 DEF AddingPart, Assembly
<1>4. staging' # None
  BY <1>3, NoneAssumption
<1>5. mem'[spare'] = Blit(buffer, m.paint)
  BY <1>1 DEF AddingPart, IInv, TypeOK, StagedOverCommitted
<1>6. \A c \in s.painted \cup Area(m) :
         mem'[spare'][c] = IF c \in Area(m) THEN m.paint[c] ELSE buffer[c]
  BY <1>2, <1>5 DEF Blit
<1>7. Pending' = [hdr |-> s.hdr, parts |-> s.next + 1,
                  got |-> [c \in s.painted \cup Area(m) |-> mem'[spare'][c]]]
  BY <1>3, <1>4 DEF Pending
<1>8. Visible' = Visible
  BY <1>1, ScratchIsHidden DEF AddingPart
<1> QED
  BY <1>1, <1>6, <1>7, <1>8

LEMMA StartStagingMaps ==
    ASSUME IInv, Serving, NEW m \in FramePart, StartStaging(m)
    PROVE  AbstractStep
<1> DEFINE s == [hdr |-> m.hdr, next |-> 0, painted |-> {}]
<1>1. /\ m.hdr \in Header /\ m.hdr.count \in Nat /\ m.hdr.count > 1 /\ m.index = 0
      /\ staging = None /\ generation # 0 /\ m.hdr.gen = generation
  BY HeaderType DEF FramePart, StartStaging, StartPossible, WrongGeneration
<1>2. AddingPart(s, Scratch(m.hdr), m)
  <2>1. Scratch(m.hdr) \in [Cells -> Colors]
    BY <1>1 DEF IInv, TypeOK, StagedOverCommitted, Scratch
  <2>2. s \in Assembly(Nat) /\ s.hdr = m.hdr /\ s.painted \subseteq display
    BY <1>1 DEF Assembly
  <2> QED
    BY <1>1, <2>1, <2>2 DEF AddingPart, StartStaging
<1>3. Pending = None
  BY <1>1 DEF Pending
<1>4. result' = "ok" \/ result' = "fatal"
  BY <1>1 DEF StartStaging, AddPart, Fatal
<1>5. CASE result' = "ok"
  <2>0. s.hdr = m.hdr /\ s.next = 0 /\ s.painted = {}
    OBVIOUS
  <2> HIDE DEF s
  <2>1. /\ UNCHANGED <<generation, frameSequence, Visible>>
        /\ Pending' = [hdr |-> m.hdr, parts |-> 0 + 1,
                       got |-> [c \in {} \cup Area(m) |-> IF c \in Area(m) THEN m.paint[c] ELSE Scratch(m.hdr)[c]]]
    BY <1>2, <1>5, <2>0, CollectedPart
  <2>2. m.paint \in Paint /\ m.paint = [c \in Area(m) |-> m.paint[c]]
    BY PaintType DEF FramePart, Area
  <2>3. Pending' = [hdr |-> m.hdr, parts |-> 1, got |-> m.paint]
    BY <2>1, <2>2
  <2>4. Abstract!Follows(m.hdr)
    BY <1>1, HeaderType DEF StartStaging, BaseMissing, Replayed, Abstract!Follows, IInv, TypeOK
  <2>5. Abstract!FirstPart(m.hdr)
    BY <1>1, <1>3, <2>1, <2>2, <2>3, <2>4 DEF Abstract!FirstPart
  <2> QED
    BY <1>1, <2>5 DEF AbstractStep, Abstract!Next
<1>6. CASE result' = "fatal"
  BY <1>2, <1>6, FailedPartMaps
<1> QED
  BY <1>4, <1>5, <1>6

LEMMA ContinueStagingMaps ==
    ASSUME IInv, PaintedShown, Serving, NEW m \in FramePart, ContinueStaging(m)
    PROVE  AbstractStep
<1>1. /\ staging # None /\ m.hdr = staging.hdr /\ m.index < m.hdr.count /\ m.index \in Nat
      /\ m.hdr \in Header /\ m.hdr.count \in Nat /\ generation # 0
      /\ AddPart(staging, mem[spare], m)
  BY HeaderType DEF FramePart, ContinueStaging, WrongGeneration
<1>2. AddingPart(staging, mem[spare], m)
  <2>1. mem[spare] \in [Cells -> Colors]
    BY <1>1 DEF IInv, TypeOK, StagedOverCommitted
  <2>2. staging \in Assembly(Nat) /\ staging.painted \subseteq display
    BY <1>1 DEF IInv, TypeOK, PaintedShown
  <2> QED
    BY <1>1, <2>1, <2>2 DEF AddingPart
<1>3. /\ Pending = [hdr |-> staging.hdr, parts |-> staging.next,
                    got |-> [c \in staging.painted |-> mem[spare][c]]]
      /\ Pending # None
  <2>1. staging.hdr \in Header /\ staging.next \in Nat /\ staging.painted \in SUBSET Cells
    BY <1>2 DEF AddingPart, Assembly
  <2>2. Pending = [hdr |-> staging.hdr, parts |-> staging.next,
                   got |-> [c \in staging.painted |-> mem[spare][c]]]
    BY <1>1 DEF Serving, Pending
  <2>3. [c \in staging.painted |-> mem[spare][c]] \in [staging.painted -> Colors]
    BY <1>2, <2>1 DEF AddingPart
  <2>4. Pending \in [hdr: Header, parts: Nat, got: UNION {[area -> Colors] : area \in SUBSET Cells}]
    BY <2>1, <2>2, <2>3
  <2> QED
    BY <2>2, <2>4, NoneAssumption
<1>4. m.paint \in Paint /\ DOMAIN m.paint = Area(m) /\ m.paint \in [Area(m) -> Colors] /\ Area(m) \in SUBSET Cells
  BY PaintType DEF FramePart, Area
<1>5. DOMAIN Pending.got = staging.painted /\ \A c \in staging.painted : Pending.got[c] = mem[spare][c]
  BY <1>3
<1>6. Abstract!Joined(m.paint) = [c \in staging.painted \cup Area(m) |->
                                    IF c \in Area(m) THEN m.paint[c] ELSE mem[spare][c]]
  <2>1. Area(m) \cup staging.painted = staging.painted \cup Area(m)
    OBVIOUS
  <2> QED
    BY <1>4, <1>5, <2>1 DEF Abstract!Joined
<1>7. CASE result' = "fatal"
  BY <1>2, <1>7, FailedPartMaps
<1>8. CASE result' = "ok"
  <2>1. /\ m.index = staging.next /\ m.index + 1 < staging.hdr.count /\ Area(m) \cap staging.painted = {}
        /\ UNCHANGED <<generation, frameSequence, Visible>>
        /\ Pending' = [hdr |-> staging.hdr, parts |-> staging.next + 1,
                       got |-> [c \in staging.painted \cup Area(m) |->
                                   IF c \in Area(m) THEN m.paint[c] ELSE mem[spare][c]]]
    BY <1>2, <1>8, CollectedPart
  <2>2. Pending' = [Pending EXCEPT !.parts = @ + 1, !.got = Abstract!Joined(m.paint)]
    <3>1. PICK got : got = Abstract!Joined(m.paint)
      OBVIOUS
    <3>2. PICK before : before = [c \in staging.painted |-> mem[spare][c]]
      OBVIOUS
    <3>3. PICK next : next = staging.next + 1
      OBVIOUS
    <3>4. Pending = [hdr |-> staging.hdr, parts |-> staging.next, got |-> before]
      BY <1>3, <3>2
    <3>5. Pending' = [hdr |-> staging.hdr, parts |-> next, got |-> got]
      BY <1>6, <2>1, <3>1, <3>3
    <3>6. PICK after : after = [Pending EXCEPT !.parts = @ + 1, !.got = Abstract!Joined(m.paint)]
      OBVIOUS
    <3>7. Pending \in [hdr: {staging.hdr}, parts: {staging.next}, got: {before}] /\ Pending.parts + 1 = next
      BY <3>3, <3>4
    <3>8. after \in [hdr: {staging.hdr}, parts: {next}, got: {got}]
      BY <3>1, <3>6, <3>7
    <3>9. after = [hdr |-> after.hdr, parts |-> after.parts, got |-> after.got]
      BY <3>8
    <3> QED
      BY <3>5, <3>6, <3>8, <3>9
  <2>3. Abstract!Disjoint(m.paint)
    BY <1>4, <1>5, <2>1 DEF Abstract!Disjoint
  <2>4. Pending.parts + 1 < Pending.hdr.count
    BY <1>3, <2>1
  <2>5. Abstract!NextPart
    BY <1>3, <1>4, <2>1, <2>2, <2>3, <2>4 DEF Abstract!NextPart
  <2> QED
    BY <2>5 DEF AbstractStep, Abstract!Next
<1>9. CASE result' = "committed"
  <2>1. /\ m.index = staging.next /\ m.index + 1 >= staging.hdr.count
        /\ Area(m) \subseteq display /\ Area(m) \cap staging.painted = {}
        /\ staging.hdr.key => staging.painted \cup Area(m) = display
        /\ Commit(staging.hdr, Blit(mem[spare], m.paint))
    BY <1>1, <1>9 DEF AddPart, Fatal, Overlaps
  <2>2. Blit(mem[spare], m.paint) \in [Cells -> Colors]
    BY <1>2, <1>4, BlitType DEF AddingPart
  <2>3. \A c \in display : Blit(mem[spare], m.paint)[c]
           = IF c \in DOMAIN Abstract!Joined(m.paint) THEN Abstract!Joined(m.paint)[c] ELSE mem[pixels][c]
    <3>1. display \subseteq Cells
      BY DEF IInv, TypeOK
    <3> QED
      BY <1>1, <1>4, <1>6, <2>1, <3>1 DEF Blit, IInv, StagedOverCommitted
  <2>4. /\ DOMAIN Abstract!Joined(m.paint) = staging.painted \cup Area(m)
        /\ DOMAIN Abstract!Joined(m.paint) \subseteq display
    BY <1>2, <1>6, <2>1 DEF AddingPart
  <2>5. Abstract!Show(staging.hdr, Abstract!Joined(m.paint))
    BY <1>1, <2>1, <2>2, <2>3, <2>4, CommitShows
  <2>6. Abstract!Disjoint(m.paint)
    BY <1>4, <1>5, <2>1 DEF Abstract!Disjoint
  <2>7. Pending.parts + 1 = Pending.hdr.count /\ Pending.hdr = staging.hdr
    BY <1>1, <1>3, <2>1
  <2>8. Abstract!LastPart
    BY <1>3, <1>4, <2>5, <2>6, <2>7 DEF Abstract!LastPart
  <2> QED
    BY <2>8 DEF AbstractStep, Abstract!Next
<1> QED
  BY <1>1, <1>7, <1>8, <1>9 DEF AddPart, Fatal, Commit

\* Refused and drained parts leave no trace in the abstract display.
LEMMA OtherPartMaps ==
    ASSUME IInv, Serving, NEW m \in FramePart,
           RejectPart(m) \/ BeginDiscard(m) \/ DrainPart(m) \/ BadDrain(m)
    PROVE  AbstractStep
<1>1. UNCHANGED <<generation, frameSequence, Visible>>
  BY DEF RejectPart, BeginDiscard, DrainPart, BadDrain, Visible
<1>2. Pending' = None \/ Pending' = Pending
  <2>1. CASE result' = "fatal"
    BY <2>1 DEF Pending
  <2>2. CASE result' # "fatal"
    <3>1. UNCHANGED <<staging, mem, spare>>
      BY <2>2 DEF RejectPart, BeginDiscard, DrainPart, BadDrain, Fatal
    <3> QED
      BY <2>2, <3>1 DEF Pending, Serving
  <2> QED
    BY <2>1, <2>2
<1> QED
  BY <1>1, <1>2, Abandons

\* Every step of the framebuffer is a step of the abstract display, or none.
LEMMA NextMaps == ASSUME IInv, PaintedShown, [Next]_fbVars PROVE AbstractStep
<1>1. CASE Reset
  BY <1>1, ResetMaps
<1>2. CASE ReceiveConfig
  BY <1>2, ConfigureMaps DEF ReceiveConfig
<1>3. CASE ReceiveFrame
  BY <1>3, ApplyMaps DEF ReceiveFrame
<1>4. CASE ReceivePart
  <2>1. PICK m \in FramePart : ApplyPart(m) /\ Serving
    BY <1>4 DEF ReceivePart
  <2> QED
    BY <2>1, OtherPartMaps, StartStagingMaps, ContinueStagingMaps DEF ApplyPart
<1>5. CASE UNCHANGED fbVars
  BY <1>5, Abandons DEF fbVars, Visible, Pending
<1> QED
  BY <1>1, <1>2, <1>3, <1>4, <1>5 DEF Next

LEMMA InitMaps == ASSUME Init PROVE Abstract!Init
<1>1. Visible = <<>>
  BY DEF Init, Visible
<1> QED
  BY <1>1 DEF Init, Pending, Abstract!Init

LEMMA PaintedInvariance == Spec => []PaintedShown
<1>1. Init => PaintedShown
  BY DEF Init, PaintedShown
<1>2. IInv /\ PaintedShown /\ [Next]_fbVars => PaintedShown'
  BY PaintedStep
<1> QED
  BY <1>1, <1>2, Invariance, PTL DEF Spec

\* The buffers, the reassembler and the drain implement a display that changes
\* by whole frames (framebuffer.go: ApplyPart, commitStagingLocked).
THEOREM Refinement == Spec => ImplementsAtomicDisplay
<1>1. Init => Abstract!Init
  BY InitMaps
<1>2. IInv /\ PaintedShown /\ [Next]_fbVars => [Abstract!Next]_(Abstract!absVars)
  BY NextMaps DEF AbstractStep
<1> QED
  BY <1>1, <1>2, Invariance, PaintedInvariance, PTL DEF Spec, ImplementsAtomicDisplay, Abstract!Spec
==============================================================================
