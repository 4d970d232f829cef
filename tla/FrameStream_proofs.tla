------------------------- MODULE FrameStream_proofs -------------------------
(***************************************************************************)
(* The safety of the frame stream, for every size of the screen, of the    *)
(* frames, of the connection, and for every number of sessions: whatever   *)
(* the host plans is legal, whatever it sends applies, and, when no two    *)
(* colors share a hash, the renderer is handed the published captures,     *)
(* whole and in their order.                                               *)
(*                                                                         *)
(* What makes it inductive is a run T of the client over the messages that *)
(* are still coming, on the wire or in the hands of the send loop: T[0] is *)
(* where the client is, each message takes T[i - 1] to T[i] without an     *)
(* objection, and the last stage is where the detector is, its generation, *)
(* sequence and image.  Receiving drops the first stage, a frame that the  *)
(* host publishes adds one stage for each of its messages (RunExtended), a *)
(* lost connection cuts the run short, and nothing else touches it.        *)
(***************************************************************************)
EXTENDS FrameStream, FiniteSetTheorems, SequenceTheorems, TLAPS

USE StreamAssumption

------------------------------------------------------------------------------
\* Splitting a frame

\* SetToSeq lists a finite set, each element once.
LEMMA ListOf ==
    ASSUME NEW S, IsFiniteSet(S), NEW q, q = SetToSeq(S)
    PROVE  /\ q \in [1 .. Cardinality(S) -> S] /\ Len(q) = Cardinality(S) /\ Cardinality(S) \in Nat
           /\ \A i, j \in 1 .. Cardinality(S) : i # j => q[i] # q[j]
           /\ \A x \in S : \E i \in 1 .. Cardinality(S) : q[i] = x
<1> DEFINE n == Cardinality(S)
<1>1. n \in Nat /\ \E f \in [1 .. n -> S] : IsInjective(f)
  BY FS_CardinalityType DEF ExistsBijection, Bijection, Injection
<1>2. q \in [1 .. n -> S] /\ IsInjective(q)
  BY <1>1 DEF SetToSeq
<1>3. \A i, j \in 1 .. n : i # j => q[i] # q[j]
  BY <1>2 DEF IsInjective
<1>4. q \in Seq(S) /\ Len(q) = n
  BY <1>1, <1>2, SeqDef, LenProperties
<1>5. \A x \in S : \E i \in 1 .. n : q[i] = x
  <2>1. q \in Injection(1 .. n, S)
    BY <1>2, <1>3 DEF Injection, IsInjective
  <2>2. IsFiniteSet(1 .. n) /\ Cardinality(1 .. n) = n
    BY SMTT(30), <1>1, FS_Interval
  <2>3. q \in Surjection(1 .. n, S)
    BY <2>1, <2>2, FS_Injection
  <2> QED BY <2>3 DEF Surjection
<1> QED BY <1>1, <1>2, <1>3, <1>4, <1>5

\* The rectangles of the first k parts, and of part i alone.
FirstParts(S, k) == {SetToSeq(S)[j] : j \in {x \in 1 .. Cardinality(S) : x <= k * PartCapacity}}
PartArea(S, i) == {SetToSeq(S)[j] : j \in {x \in 1 .. Cardinality(S) : i * PartCapacity < x /\ x <= (i + 1) * PartCapacity}}

\* planFrame's count is the least that holds all the rectangles.
LEMMA PartsArithmetic ==
    ASSUME NEW n \in Nat \ {0}, NEW parts, parts = (n + PartCapacity - 1) \div PartCapacity
    PROVE  /\ parts \in Nat \ {0} /\ n <= parts * PartCapacity
           /\ \A i \in 0 .. parts - 1 : i * PartCapacity < n
<1> DEFINE C == PartCapacity
<1>1. C \in Nat \ {0}
  OBVIOUS
<1> HIDE DEF C
<1>2. PICK m \in Nat : m = n + C - 1
  BY <1>1
<1>3. parts = m \div C
  BY <1>2 DEF C
<1>4. parts \in Nat /\ m < parts * C + C /\ parts * C <= m
  BY <1>1, <1>3
<1>5. parts # 0 /\ n <= parts * C
  BY <1>1, <1>2, <1>4
<1>6. ASSUME NEW i \in 0 .. parts - 1  PROVE i * C < n
  <2>0. parts - (i + 1) \in Nat /\ parts = i + 1 + (parts - (i + 1)) /\ i \in Nat
    BY <1>4
  <2>1. PICK d \in Nat : parts = i + 1 + d
    BY <2>0
  <2>2. parts * C = i * C + C + d * C /\ d * C \in Nat /\ i * C \in Nat
    BY <1>1, <2>0, <2>1
  <2> QED BY <1>1, <1>2, <1>4, <2>2
<1> QED BY <1>4, <1>5, <1>6 DEF C

\* The areas of the parts of a frame are nonempty, fit one message, and make up
\* the frame without touching one another.
LEMMA PartAreas ==
    ASSUME NEW S, IsFiniteSet(S), S # {},
           NEW parts, parts = (Cardinality(S) + PartCapacity - 1) \div PartCapacity
    PROVE  /\ parts \in Nat \ {0} /\ FirstParts(S, 0) = {} /\ FirstParts(S, parts) = S
           /\ \A i \in 0 .. parts - 1 :
                 /\ PartArea(S, i) # {} /\ PartArea(S, i) \subseteq S
                 /\ Cardinality(PartArea(S, i)) \in 1 .. PartCapacity
                 /\ FirstParts(S, i) \subseteq S
                 /\ FirstParts(S, i) \cap PartArea(S, i) = {}
                 /\ FirstParts(S, i + 1) = FirstParts(S, i) \cup PartArea(S, i)
<1> DEFINE n == Cardinality(S)
           q == SetToSeq(S)
           C == PartCapacity
<1>1. n \in Nat \ {0}
  BY FS_CardinalityType, FS_EmptySet
<1>2. /\ q \in [1 .. n -> S]
      /\ \A i, j \in 1 .. n : i # j => q[i] # q[j]
      /\ \A x \in S : \E i \in 1 .. n : q[i] = x
  BY ListOf
<1>3. parts \in Nat \ {0} /\ n <= parts * C /\ \A i \in 0 .. parts - 1 : i * C < n
  BY <1>1, PartsArithmetic
<1>4. C \in Nat \ {0}
  OBVIOUS
<1>5. FirstParts(S, 0) = {} /\ FirstParts(S, parts) = S
  <2>1. \A x \in 1 .. n : ~(x <= 0 * C) /\ x <= parts * C
    BY <1>1, <1>3, <1>4
  <2> QED BY <1>2, <2>1 DEF FirstParts
<1>6. ASSUME NEW i \in 0 .. parts - 1
      PROVE  /\ PartArea(S, i) # {} /\ PartArea(S, i) \subseteq S
             /\ Cardinality(PartArea(S, i)) \in 1 .. C
             /\ FirstParts(S, i) \subseteq S
             /\ FirstParts(S, i) \cap PartArea(S, i) = {}
             /\ FirstParts(S, i + 1) = FirstParts(S, i) \cup PartArea(S, i)
  <2>1. PICK a \in Nat : a = i * C /\ a < n /\ (i + 1) * C = a + C
    BY <1>3, <1>4
  <2> DEFINE lower == {x \in 1 .. n : x <= a}
             upper == {x \in 1 .. n : a < x /\ x <= a + C}
  <2>2. FirstParts(S, i) = {q[j] : j \in lower} /\ PartArea(S, i) = {q[j] : j \in upper}
        /\ FirstParts(S, i + 1) = {q[j] : j \in lower \cup upper}
    <3>1. {x \in 1 .. n : x <= (i + 1) * C} = lower \cup upper
      BY <1>4, <2>1
    <3> QED BY <2>1, <3>1 DEF FirstParts, PartArea
  <2>3. a + 1 \in upper
    BY <1>1, <1>4, <2>1
  <2>4. Cardinality(PartArea(S, i)) \in 1 .. C
    <3>1. IsFiniteSet(a + 1 .. a + C) /\ Cardinality(a + 1 .. a + C) = C
      <4>1. a + 1 \in Int /\ a + C \in Int /\ ~(a + 1 > a + C) /\ (a + C) - (a + 1) + 1 = C
        BY <1>4, <2>1
      <4> QED BY <4>1, FS_Interval
    <3>2. upper \subseteq a + 1 .. a + C
      BY <1>1, <1>4, <2>1
    <3>3. IsFiniteSet(upper) /\ Cardinality(upper) <= C
      BY <3>1, <3>2, FS_Subset
    <3>4. [j \in upper |-> q[j]] \in Surjection(upper, PartArea(S, i))
      BY <2>2 DEF Surjection
    <3> HIDE DEF upper, q
    <3>5. IsFiniteSet(PartArea(S, i)) /\ Cardinality(PartArea(S, i)) <= Cardinality(upper)
      BY <3>3, <3>4, FS_Surjection
    <3>6. PartArea(S, i) # {}
      BY <2>2, <2>3, q[a + 1] \in {q[j] : j \in upper}
    <3>7. Cardinality(PartArea(S, i)) \in Nat \ {0} /\ Cardinality(upper) \in Nat
      BY <3>3, <3>5, <3>6, FS_CardinalityType, FS_EmptySet
    <3> QED BY <1>4, <3>3, <3>5, <3>7
  <2>5. \A x \in lower : x \notin upper
    BY <1>1, <2>1
  <2>6. lower \subseteq 1 .. n /\ upper \subseteq 1 .. n
    OBVIOUS
  <2> HIDE DEF lower, upper, q
  <2>7. FirstParts(S, i) \cap PartArea(S, i) = {}
    BY <1>2, <2>2, <2>5, <2>6
  <2>8. FirstParts(S, i + 1) = FirstParts(S, i) \cup PartArea(S, i)
    BY <2>2
  <2>9. PartArea(S, i) # {} /\ q[a + 1] \in PartArea(S, i)
    BY <2>2, <2>3
  <2>10. FirstParts(S, i) \subseteq S /\ PartArea(S, i) \subseteq S
    BY <1>2, <2>2, <2>6
  <2> QED BY <2>4, <2>7, <2>8, <2>9, <2>10
<1> QED BY <1>3, <1>5, <1>6

\* Part i of a frame has the rectangles of its area.
LEMMA PieceOf ==
    ASSUME NEW paint, IsFiniteSet(DOMAIN paint), NEW i \in Nat
    PROVE  /\ DOMAIN Piece(paint, i) = PartArea(DOMAIN paint, i)
           /\ \A c \in PartArea(DOMAIN paint, i) : Piece(paint, i)[c] = paint[c]
<1> DEFINE S == DOMAIN paint
           q == SetToSeq(S)
           n == Cardinality(S)
           C == PartCapacity
           last == IF (i + 1) * C < Len(q) THEN (i + 1) * C ELSE Len(q)
<1>1. n \in Nat /\ Len(q) = n
  BY ListOf
<1>2. PICK a \in Nat : a = i * C /\ (i + 1) * C = a + C
  OBVIOUS
<1>3. i * C + 1 .. last = {x \in 1 .. n : i * C < x /\ x <= (i + 1) * C}
  <2>1. C \in Nat /\ a \in Nat /\ i * C = a /\ (i + 1) * C = a + C
    BY <1>2, StreamAssumption
  <2>2. last = IF a + C < n THEN a + C ELSE n
    BY <1>1, <2>1
  <2> HIDE DEF last, C, n
  <2>3. a + 1 .. last = {x \in 1 .. n : a < x /\ x <= a + C}
    BY <1>1, <2>1, <2>2
  <2> QED
    BY <2>1, <2>3
<1>4. Piece(paint, i) = [c \in PartArea(S, i) |-> paint[c]]
  BY <1>3 DEF Piece, PartArea
<1> QED BY <1>4

------------------------------------------------------------------------------
\* What is coming

\* Different colors have different hashes.
Injective == \A c, d \in Colors : Hash[c] = Hash[d] => c = d

Paints == UNION {[area -> Colors] : area \in SUBSET Cells}
Messages ==
    [kind : {"config"}, body : [gen : Nat \ {0}, area : Geometries]]
    \cup [kind : {"frame"}, body : [hdr : FB!Header, paint : Paints, sound : BOOLEAN]]
    \cup [kind : {"part"}, body : [hdr : FB!Header, index : Nat, paint : Paints, sound : BOOLEAN]]

Index(m) == IF m.kind = "part" THEN m.body.index ELSE 0
Closes(m) == m.kind # "config" /\ Index(m) + 1 = m.body.hdr.count

\* A stage is what the client is after a message: its framebuffer's numbers,
\* the sequence it reassembles, the image it shows (image), the one the sequence
\* will give (target), and how many frames it has committed (count).
StageOK(v) ==
    /\ v.gen \in Nat /\ v.seq \in Nat /\ v.next \in Nat /\ v.count \in Nat
    /\ v.area \in SUBSET Cells /\ v.painted \in SUBSET v.area
    /\ v.gen # 0 => v.area \in Geometries
    /\ v.need \in BOOLEAN /\ v.staged \in BOOLEAN
    /\ v.staged => v.hdr \in FB!Header /\ v.next # 0
    /\ ~v.staged => v.painted = {}

\* The stage b follows the stage a when the client takes a DISPLAY_CONFIG, or a
\* FRAME, or a FRAME_PART, without an objection.
TakesConfig(a, m, b) ==
    /\ ~a.staged /\ m.body.gen > a.gen
    /\ b.gen = m.body.gen /\ b.area = m.body.area /\ b.seq = 0 /\ b.need /\ ~b.staged
    /\ b.count = a.count

Carries(a, h) == /\ h.key => h.seq > a.seq
                 /\ ~h.key => ~a.need /\ h.base = a.seq

TakesPixels(a, m, b) ==
    LET h == m.body.hdr
        area == DOMAIN m.body.paint
    IN  /\ h.gen = a.gen /\ m.body.sound /\ area \subseteq a.area
        /\ m.kind = "frame" => h.count = 1
        /\ m.kind = "part" => Cardinality(a.painted) + Cardinality(area) <= MaxRectangles
        /\ IF a.staged THEN m.kind = "part" /\ h = a.hdr /\ Index(m) = a.next
                       ELSE Index(m) = 0 /\ Carries(a, h)
        /\ area \cap a.painted = {}
        /\ Index(m) < h.count
        /\ b.gen = a.gen /\ b.area = a.area
        /\ ~Closes(m) => /\ b.staged /\ b.hdr = h /\ b.next = Index(m) + 1 /\ b.painted = a.painted \cup area
                         /\ b.seq = a.seq /\ b.need = a.need /\ b.count = a.count
        /\ Closes(m) => /\ h.key => a.painted \cup area = a.area
                        /\ ~b.staged /\ b.seq = h.seq /\ ~b.need /\ b.count = a.count + 1

Takes(a, m, b) == IF m.kind = "config" THEN TakesConfig(a, m, b) ELSE TakesPixels(a, m, b)

\* The rectangles of a message are those of the target, and outside all of a
\* delta the target is what was shown before.
Targets(a, m, b) ==
    m.kind # "config" =>
        LET area == DOMAIN m.body.paint
        IN  /\ \A c \in area : m.body.paint[c] = b.target[c]
            /\ a.staged => b.target = a.target
            /\ ~Closes(m) => b.image = a.image
            /\ Closes(m) => /\ b.image = b.target /\ DOMAIN b.image = a.area
                            /\ ~m.body.hdr.key =>
                                  \A c \in a.area \ (a.painted \cup area) : b.target[c] = a.image[c]

\* The client is at stage v.
Assembled(v) == [hdr |-> v.hdr, next |-> v.next, painted |-> v.painted]
ClientAt(v) ==
    /\ generation = v.gen /\ frameSequence = v.seq /\ display = v.area /\ fbKeyframeRequired = v.need
    /\ discard = None /\ staging = IF v.staged THEN Assembled(v) ELSE None

Buffers ==
    /\ mem \in [1 .. 2 -> [Cells -> Colors]]
    /\ generation # 0 => pixels \in 1 .. 2 /\ spare \in 1 .. 2 /\ pixels # spare

PixelsAt(v) ==
    /\ v.gen # 0 /\ ~v.need => DOMAIN v.image = v.area /\ \A c \in v.area : mem[pixels][c] = v.image[c]
    /\ v.staged => /\ \A c \in v.painted : mem[spare][c] = v.target[c]
                   /\ ~v.hdr.key => /\ ~v.need
                                    /\ \A c \in v.area \ v.painted : mem[spare][c] = mem[pixels][c]

------------------------------------------------------------------------------
\* The client takes a message

LEMMA MessageKinds ==
    ASSUME NEW m \in Messages
    PROVE  /\ m.kind \in {"config", "frame", "part"}
           /\ m.kind = "config" => m.body.gen \in Nat \ {0} /\ m.body.area \in Geometries
           /\ m.kind # "config" => m.body.hdr \in FB!Header /\ m.body.paint \in Paints /\ m.body.sound \in BOOLEAN
           /\ m.kind = "part" => m.body.index \in Nat
           /\ Index(m) \in Nat
BY DEF Messages, Index

LEMMA HeaderFields ==
    ASSUME NEW h \in FB!Header
    PROVE  /\ h.gen \in Nat \ {0} /\ h.seq \in Nat \ {0} /\ h.base \in Nat /\ h.key \in BOOLEAN /\ h.count \in Nat \ {0}
           /\ (h.key <=> h.base = 0) /\ h.base < h.seq
BY DEF FB!Header

LEMMA AssembledIsNone ==
    ASSUME NEW v, StageOK(v), v.staged
    PROVE  Assembled(v) # None
<1>1. Assembled(v) \in FB!Assembly(Nat)
  BY DEF StageOK, Assembled, FB!Assembly
<1> QED BY <1>1, NoneAssumption

LEMMA BlitType ==
    ASSUME NEW buffer \in [Cells -> Colors], NEW paint \in Paints
    PROVE  FB!Blit(buffer, paint) \in [Cells -> Colors]
BY DEF FB!Blit, Paints

\* A DISPLAY_CONFIG.
LEMMA TakeConfig ==
    ASSUME NEW a, NEW b, NEW m \in Messages, StageOK(a), StageOK(b), m.kind = "config",
           TakesConfig(a, m, b), ClientAt(a), Buffers, FB!Configure(m.body)
    PROVE  ClientAt(b)' /\ Buffers' /\ PixelsAt(b)' /\ result' = "ok"
<1>1. m.body.gen \in Nat \ {0} /\ generation \in Nat /\ m.body.gen > generation /\ ~(m.body.gen <= generation)
  BY MessageKinds DEF TakesConfig, ClientAt, StageOK
<1>2. FB!NewConfig(m.body)
  BY <1>1 DEF FB!Configure, FB!StaleConfig
<1>3. Blank \in Colors
  OBVIOUS
<1>4. Buffers'
  BY <1>2, <1>3 DEF FB!NewConfig, Buffers
<1>5. ClientAt(b)' /\ result' = "ok"
  BY <1>2 DEF FB!NewConfig, ClientAt, TakesConfig
<1> QED BY <1>4, <1>5 DEF PixelsAt, TakesConfig

LEMMA BuffersOf ==
    ASSUME NEW a, NEW m \in Messages, StageOK(a), m.kind # "config",
           m.body.hdr.gen = a.gen, ClientAt(a), Buffers
    PROVE  /\ generation # 0 /\ display \in Geometries /\ mem[pixels] \in [Cells -> Colors] /\ mem[spare] \in [Cells -> Colors]
           /\ pixels \in 1 .. 2 /\ spare \in 1 .. 2 /\ pixels # spare
           /\ FB!Scratch(m.body.hdr) \in [Cells -> Colors]
<1>1. m.body.hdr.gen \in Nat \ {0}
  BY MessageKinds, HeaderFields
<1> QED BY <1>1 DEF ClientAt, Buffers, StageOK, FB!Scratch

\* The header of the first message of a frame passes the client's tests.
LEMMA Carried ==
    ASSUME NEW a, NEW h \in FB!Header, StageOK(a), ClientAt(a), Carries(a, h), h.gen = a.gen
    PROVE  ~FB!WrongGeneration(h) /\ ~FB!BaseMissing(h) /\ ~FB!Replayed(h)
<1>1. h.seq \in Nat /\ a.seq \in Nat /\ (h.key => ~(h.seq <= a.seq))
  BY HeaderFields DEF StageOK, Carries
<1> QED BY <1>1 DEF ClientAt, Carries, FB!WrongGeneration, FB!BaseMissing, FB!Replayed

\* A commit shows what the scratch buffer was painted to.
LEMMA Committed ==
    ASSUME NEW a, NEW b, NEW m \in Messages, StageOK(a), StageOK(b), m.kind # "config",
           TakesPixels(a, m, b), Closes(m), ClientAt(a), Buffers,
           NEW buffer \in [Cells -> Colors], FB!Commit(m.body.hdr, buffer)
    PROVE  /\ ClientAt(b)' /\ Buffers' /\ result' = "committed"
           /\ mem'[pixels'] = buffer
<1>1. pixels \in 1 .. 2 /\ spare \in 1 .. 2 /\ pixels # spare /\ generation # 0
  BY BuffersOf DEF TakesPixels
<1>2. Buffers' /\ mem'[pixels'] = buffer
  BY <1>1 DEF FB!Commit, Buffers
<1>3. ClientAt(b)' /\ result' = "committed"
  <2>1. b.need = FALSE /\ b.staged = FALSE
    BY DEF TakesPixels, StageOK
  <2> QED BY <2>1 DEF FB!Commit, ClientAt, TakesPixels
<1> QED BY <1>2, <1>3

\* A FRAME.
LEMMA TakeFrame ==
    ASSUME NEW a, NEW b, NEW m \in Messages, StageOK(a), StageOK(b), m.kind = "frame",
           TakesPixels(a, m, b), ClientAt(a), Buffers, FB!Apply(m.body)
    PROVE  /\ ClientAt(b)' /\ Buffers' /\ result' = "committed" /\ Closes(m)
           /\ Targets(a, m, b) /\ PixelsAt(a) =>
                 PixelsAt(b)' /\ \A c \in display : mem'[pixels'][c] = b.image[c]
<1> DEFINE h == m.body.hdr
           paint == m.body.paint
           buffer == FB!Blit(FB!Scratch(h), paint)
<1>1. h \in FB!Header /\ paint \in Paints /\ m.body.sound
  BY MessageKinds DEF TakesPixels
<1>2. ~a.staged /\ Carries(a, h) /\ h.gen = a.gen /\ Index(m) = 0 /\ h.count = 1 /\ DOMAIN paint \subseteq a.area
  BY DEF TakesPixels
<1>3. Closes(m)
  BY <1>2 DEF Closes
<1>4. ~FB!WrongGeneration(h) /\ ~FB!BaseMissing(h) /\ ~FB!Replayed(h)
  BY <1>1, <1>2, Carried
<1>5. staging = None /\ discard = None
  BY <1>2 DEF ClientAt
<1>6. h.key => DOMAIN paint = display
  BY <1>2, <1>3 DEF TakesPixels, ClientAt, StageOK
<1>7. FB!CommitFrame(m.body)
  BY <1>1, <1>2, <1>4, <1>5, <1>6
     DEF FB!Apply, FB!RejectFrame, FB!RefuseFrame, FB!SpoiltFrame, FB!FrameWellTimed, FB!Area, ClientAt
<1>8. FB!Scratch(h) \in [Cells -> Colors] /\ generation # 0
  BY <1>2, BuffersOf
<1>9. buffer \in [Cells -> Colors]
  BY <1>1, <1>8, BlitType
<1>10. FB!Commit(h, buffer)
  BY <1>7 DEF FB!CommitFrame
<1>11. ClientAt(b)' /\ Buffers' /\ result' = "committed" /\ mem'[pixels'] = buffer
  BY <1>3, <1>9, <1>10, Committed
<1>12. ASSUME Targets(a, m, b), PixelsAt(a)
       PROVE  PixelsAt(b)' /\ \A c \in display : mem'[pixels'][c] = b.image[c]
  <2>1. DOMAIN b.image = a.area /\ b.area = a.area /\ ~b.staged /\ display = a.area /\ display \subseteq Cells /\ a.painted = {}
    BY <1>2, <1>3, <1>12 DEF Targets, TakesPixels, ClientAt, StageOK
  <2>2. ASSUME NEW c \in display  PROVE buffer[c] = b.image[c]
    <3>1. CASE c \in DOMAIN paint
      BY <1>3, <1>12, <2>1, <3>1 DEF Targets, FB!Blit
    <3>2. CASE c \notin DOMAIN paint
      <4>1. ~h.key /\ ~a.need /\ a.gen # 0
        BY <1>2, <1>6, <1>8, <3>2 DEF Carries, ClientAt
      <4>2. b.image[c] = a.image[c]
        BY <1>3, <1>12, <2>1, <3>2, <4>1 DEF Targets
      <4>3. mem[pixels][c] = a.image[c]
        BY <1>12, <2>1, <4>1 DEF PixelsAt
      <4> QED BY <2>1, <3>2, <4>1, <4>2, <4>3 DEF FB!Blit, FB!Scratch
    <3> QED BY <3>1, <3>2
  <2> QED BY <1>11, <2>1, <2>2 DEF PixelsAt
<1> QED BY <1>3, <1>11, <1>12

\* The framebuffer counts as FiniteSets does.
LEMMA SameCount == \A S : FB!Cardinality(S) = Cardinality(S)
BY DEF FB!Cardinality, Cardinality

\* A part that the client adds to the sequence q: to the one it began, or to an
\* empty one.
LEMMA AddsPart ==
    ASSUME NEW a, NEW b, NEW m \in Messages, StageOK(a), StageOK(b), m.kind = "part",
           TakesPixels(a, m, b), ClientAt(a), Buffers,
           NEW q, q = [hdr |-> m.body.hdr, next |-> m.body.index, painted |-> a.painted],
           NEW buffer \in [Cells -> Colors], FB!AddPart(q, buffer, m.body)
    PROVE  /\ ClientAt(b)' /\ Buffers' /\ result' = IF Closes(m) THEN "committed" ELSE "ok"
           /\ Closes(m) => mem'[pixels'] = FB!Blit(buffer, m.body.paint)
           /\ ~Closes(m) => /\ mem'[spare'] = FB!Blit(buffer, m.body.paint)
                            /\ mem'[pixels'] = mem[pixels]
<1> DEFINE h == m.body.hdr
           i == m.body.index
           paint == m.body.paint
           next == FB!Blit(buffer, paint)
<1>1. h \in FB!Header /\ i \in Nat /\ h.count \in Nat \ {0} /\ paint \in Paints /\ m.body.sound /\ i = Index(m) /\ i < h.count
  BY MessageKinds, HeaderFields DEF TakesPixels, Index
<1>2. pixels \in 1 .. 2 /\ spare \in 1 .. 2 /\ pixels # spare /\ generation # 0
  BY BuffersOf DEF TakesPixels
<1>3. next \in [Cells -> Colors]
  BY <1>1, BlitType
<1>4. q.hdr = h /\ q.next = i /\ q.painted = a.painted
  OBVIOUS
<1>5. FB!Area(m.body) = DOMAIN paint /\ DOMAIN paint \subseteq display /\ ~FB!Overlaps(q.painted, m.body)
  BY <1>4 DEF FB!Area, FB!Overlaps, TakesPixels, ClientAt
<1>6. ~FB!TooMany(q.painted, m.body)
  <2>1. /\ Cardinality(a.painted) + Cardinality(DOMAIN paint) <= MaxRectangles
        /\ Cardinality(a.painted) \in Nat /\ Cardinality(DOMAIN paint) \in Nat
    <3>1. a.painted \in SUBSET Cells /\ DOMAIN paint \in SUBSET Cells
      BY <1>1 DEF StageOK, Paints
    <3>2. IsFiniteSet(a.painted) /\ IsFiniteSet(DOMAIN paint)
      BY <3>1, FS_Subset
    <3> QED BY <3>2, FS_CardinalityType DEF TakesPixels
  <2>2. ~(Cardinality(a.painted) + Cardinality(DOMAIN paint) > MaxRectangles)
    BY <2>1
  <2>3. Cardinality(q.painted) = Cardinality(a.painted) /\ Cardinality(FB!Area(m.body)) = Cardinality(DOMAIN paint)
    BY <1>4, <1>5
  <2> QED BY <2>2, <2>3, SameCount DEF FB!TooMany
<1>7. CASE Closes(m)
  <2>1. i + 1 >= h.count /\ ~(i + 1 < h.count) /\ (h.key => q.painted \cup DOMAIN paint = display)
    BY <1>1, <1>4, <1>7 DEF Closes, TakesPixels, ClientAt
  <2>2. FB!Commit(h, next)
    BY <1>1, <1>4, <1>5, <1>6, <2>1 DEF FB!AddPart
  <2> QED BY <1>3, <1>7, <2>2, Committed
<1>8. CASE ~Closes(m)
  <2>1. i + 1 < h.count /\ ~(i + 1 >= h.count)
    BY <1>1, <1>8 DEF Closes
  <2>2. /\ staging' = [q EXCEPT !.painted = @ \cup DOMAIN paint, !.next = @ + 1]
        /\ mem' = [mem EXCEPT ![spare] = next]
        /\ result' = "ok"
        /\ UNCHANGED <<generation, frameSequence, display, pixels, spare, fbKeyframeRequired, discard>>
    BY <1>1, <1>4, <1>5, <1>6, <2>1 DEF FB!AddPart
  <2>3. PICK n \in Nat : n = i + 1
    BY <1>1
  <2>4. staging' = [hdr |-> h, next |-> n, painted |-> a.painted \cup DOMAIN paint]
    BY <2>2, <2>3
  <2>5. b.hdr = h /\ b.next = n /\ b.painted = a.painted \cup DOMAIN paint /\ b.staged = TRUE
    BY <1>1, <1>8, <2>3 DEF TakesPixels, StageOK
  <2>6. ClientAt(b)'
    BY <1>8, <2>2, <2>4, <2>5 DEF ClientAt, Assembled, TakesPixels
  <2>7. Buffers' /\ mem'[spare'] = next /\ mem'[pixels'] = mem[pixels]
    BY <1>2, <1>3, <2>2 DEF Buffers
  <2> QED BY <1>8, <2>2, <2>6, <2>7
<1> QED BY <1>7, <1>8

\* A FRAME_PART.
LEMMA TakePart ==
    ASSUME NEW a, NEW b, NEW m \in Messages, StageOK(a), StageOK(b), m.kind = "part",
           TakesPixels(a, m, b), ClientAt(a), Buffers, FB!ApplyPart(m.body)
    PROVE  /\ ClientAt(b)' /\ Buffers' /\ result' = IF Closes(m) THEN "committed" ELSE "ok"
           /\ Targets(a, m, b) /\ PixelsAt(a) =>
                 PixelsAt(b)' /\ (Closes(m) => \A c \in display : mem'[pixels'][c] = b.image[c])
<1> DEFINE h == m.body.hdr
           i == m.body.index
           paint == m.body.paint
           q == [hdr |-> h, next |-> i, painted |-> a.painted]
           buffer == IF a.staged THEN mem[spare] ELSE FB!Scratch(h)
<1>1. h \in FB!Header /\ i \in Nat /\ paint \in Paints /\ i = Index(m) /\ h.gen = a.gen
  BY MessageKinds DEF TakesPixels, Index
<1>2. /\ generation # 0 /\ pixels \in 1 .. 2 /\ spare \in 1 .. 2 /\ pixels # spare
      /\ mem[spare] \in [Cells -> Colors] /\ FB!Scratch(h) \in [Cells -> Colors]
  BY <1>1, BuffersOf
<1>3. buffer \in [Cells -> Colors]
  BY <1>2
<1>4. ~FB!WrongGeneration(h) /\ discard = None
  BY <1>1 DEF FB!WrongGeneration, ClientAt
<1>5. ASSUME a.staged  PROVE FB!AddPart(q, buffer, m.body)
  <2>1. staging # None /\ staging = q /\ h = a.hdr /\ i # 0
    <3>1. h = a.hdr /\ i = a.next /\ a.next # 0
      BY <1>1, <1>5 DEF TakesPixels, StageOK
    <3>2. staging = Assembled(a) /\ staging # None
      BY <1>5, AssembledIsNone DEF ClientAt
    <3> QED BY <3>1, <3>2 DEF Assembled
  <2>2. staging.hdr = h
    BY <2>1
  <2>3. FB!ContinueStaging(m.body)
    BY <1>4, <2>1, <2>2
       DEF FB!ApplyPart, FB!RejectPart, FB!BeginDiscard, FB!StartStaging, FB!StartPossible, FB!DrainPart, FB!BadDrain
  <2> QED BY <1>5, <2>1, <2>3 DEF FB!ContinueStaging
<1>6. ASSUME ~a.staged  PROVE FB!AddPart(q, buffer, m.body)
  <2>1. Carries(a, h) /\ i = 0 /\ a.painted = {} /\ staging = None
    BY <1>1, <1>6 DEF TakesPixels, StageOK, ClientAt
  <2>2. ~FB!BaseMissing(h) /\ ~FB!Replayed(h)
    BY <1>1, <2>1, Carried
  <2>3. FB!StartStaging(m.body)
    BY <1>4, <2>1, <2>2
       DEF FB!ApplyPart, FB!RejectPart, FB!BeginDiscard, FB!ContinueStaging, FB!DrainPart, FB!BadDrain
  <2> QED BY <1>6, <2>1, <2>3 DEF FB!StartStaging
<1>7. /\ ClientAt(b)' /\ Buffers' /\ result' = IF Closes(m) THEN "committed" ELSE "ok"
      /\ Closes(m) => mem'[pixels'] = FB!Blit(buffer, paint)
      /\ ~Closes(m) => mem'[spare'] = FB!Blit(buffer, paint) /\ mem'[pixels'] = mem[pixels]
  <2>1. FB!AddPart(q, buffer, m.body)
    BY <1>5, <1>6
  <2> HIDE DEF buffer
  <2> QED BY <1>3, <2>1, AddsPart
<1>8. ASSUME Targets(a, m, b), PixelsAt(a)
      PROVE  PixelsAt(b)' /\ (Closes(m) => \A c \in display : mem'[pixels'][c] = b.image[c])
  <2> DEFINE done == a.painted \cup DOMAIN paint
             next == FB!Blit(buffer, paint)
  <2>1. /\ a.area \subseteq Cells /\ display = a.area /\ b.area = a.area /\ a.gen # 0 /\ b.gen # 0 /\ generation = a.gen
        /\ h.key \in BOOLEAN /\ a.painted \cap DOMAIN paint = {} /\ done \subseteq a.area
    BY <1>1, <1>2, HeaderFields DEF TakesPixels, StageOK, ClientAt
  <2>2. \A c \in a.painted : buffer[c] = b.target[c]
    <3>1. CASE a.staged
      BY <1>8, <3>1 DEF Targets, PixelsAt
    <3>2. CASE ~a.staged
      BY <3>2 DEF StageOK
    <3> QED BY <3>1, <3>2
  <2>3. ~h.key => ~a.need /\ \A c \in a.area \ a.painted : buffer[c] = mem[pixels][c]
    <3>1. CASE a.staged
      <4>1. h = a.hdr
        BY <3>1 DEF TakesPixels
      <4> QED BY <1>8, <3>1, <4>1 DEF PixelsAt
    <3>2. CASE ~a.staged
      BY <3>2 DEF TakesPixels, Carries, FB!Scratch
    <3> QED BY <3>1, <3>2
  <2>4. \A c \in DOMAIN paint : paint[c] = b.target[c]
    BY <1>8 DEF Targets
  <2> HIDE DEF buffer
  <2>5. \A c \in done : next[c] = b.target[c]
    BY <2>1, <2>2, <2>4 DEF FB!Blit
  <2>6. ~h.key => \A c \in a.area \ done : next[c] = mem[pixels][c]
    BY <2>1, <2>3 DEF FB!Blit
  <2>7. CASE Closes(m)
    <3>1. /\ b.image = b.target /\ DOMAIN b.image = a.area /\ ~b.staged /\ ~b.need
          /\ h.key => done = a.area
          /\ ~h.key => \A c \in a.area \ done : b.target[c] = a.image[c]
      BY <1>8, <2>7 DEF Targets, TakesPixels
    <3>2. ~h.key => \A c \in a.area : mem[pixels][c] = a.image[c]
      BY <1>8, <2>1, <2>3 DEF PixelsAt
    <3>3. \A c \in a.area : next[c] = b.image[c]
      <4> TAKE c \in a.area
      <4>1. CASE c \in done
        BY <2>5, <3>1, <4>1
      <4>2. CASE c \notin done
        BY <2>6, <3>1, <3>2, <4>2
      <4> QED BY <4>1, <4>2
    <3>4. \A c \in a.area : mem'[pixels'][c] = b.image[c]
      BY <1>7, <2>7, <3>3
    <3> QED BY <2>1, <3>1, <3>4 DEF PixelsAt
  <2>8. CASE ~Closes(m)
    <3>1. b.staged /\ b.hdr = h /\ b.painted = done /\ b.need = a.need /\ b.image = a.image
      BY <1>8, <2>8 DEF Targets, TakesPixels
    <3>2. a.gen # 0 /\ ~a.need => DOMAIN a.image = a.area /\ \A c \in a.area : mem[pixels][c] = a.image[c]
      BY <1>8 DEF PixelsAt
    <3>3. mem'[spare'] = next /\ mem'[pixels'] = mem[pixels]
      BY <1>7, <2>8
    <3> HIDE DEF next, done
    <3>4. \A c \in b.painted : mem'[spare'][c] = b.target[c]
      BY <2>5, <3>1, <3>3
    <3>5. ~h.key => \A c \in b.area \ b.painted : mem'[spare'][c] = mem'[pixels'][c]
      BY <2>1, <2>6, <3>1, <3>3
    <3>6. ~b.need => DOMAIN b.image = b.area /\ \A c \in b.area : mem'[pixels'][c] = b.image[c]
      BY <2>1, <3>1, <3>2, <3>3
    <3> QED BY <2>3, <2>8, <3>1, <3>4, <3>5, <3>6 DEF PixelsAt
  <2> QED BY <2>7, <2>8
<1> QED BY <1>7, <1>8

------------------------------------------------------------------------------
\* The inductive invariant

Live == phase \in {"initial", "running"}

\* The messages the client will read: those on the wire, and, while the session
\* lives, those the send loop still has to send.
Count == Len(wire) + (IF Live THEN Len(outbox) ELSE 0)
Coming(i) == IF i <= Len(wire) THEN wire[i] ELSE outbox[i - Len(wire)]

\* Once it has read them all, the client is where the detector is.
Settled(v, count) ==
    /\ v.gen = detGeneration /\ v.seq = detSequence
    /\ v.area = (IF previous = None THEN {} ELSE DOMAIN previous)
    /\ ~v.need /\ ~v.staged /\ v.image = previous /\ v.count = count + Len(unshown)

\* T is a run of the client from where it is, over all that is coming, that
\* meets no objection, commits the captures published, and ends settled.
Follows(T) == \A i \in 1 .. Count : Takes(T[i - 1], Coming(i), T[i])
Paint(T)   == Injective => PixelsAt(T[0]) /\ \A i \in 1 .. Count : Targets(T[i - 1], Coming(i), T[i])
Commits(T) ==
    /\ \A i, j \in 0 .. Count : i <= j => T[i].count <= T[j].count
    /\ \A i \in 1 .. Count : Closes(Coming(i)) =>
          /\ T[i].count - T[0].count \in 1 .. Len(unshown)
          /\ unshown[T[i].count - T[0].count] = T[i].image
Ends(T) == Live => Settled(T[Count], T[0].count)

Runs(T) == /\ \A i \in Nat : StageOK(T[i])
           /\ ClientAt(T[0]) /\ Follows(T) /\ Paint(T) /\ Commits(T) /\ Ends(T)

\* A generation is announced before its frames, and only once there is one.
Announced ==
    /\ phase = "running" => previous # None
    /\ Live /\ previous = None => outbox = <<>> /\ detGeneration = 0 /\ detSequence = 0
    /\ Live /\ previous # None => detGeneration # 0 /\ detSequence # 0
    /\ Live => IF outbox # <<>> /\ outbox[1].kind = "config"
                  THEN outbox[1].body.gen = detGeneration
                  ELSE svcGeneration = detGeneration
    /\ \A i \in 2 .. Len(outbox) : outbox[i].kind # "config"

Lists == wire \in Seq(Messages) /\ outbox \in Seq(Messages) /\ unshown \in Seq(Images)

Room == camera = "push" => slot = None

IInv == /\ TypeOK /\ Lists /\ Buffers /\ Room /\ Announced
        /\ result \in {"none", "ok", "committed"}
        /\ \E T : Runs(T)

------------------------------------------------------------------------------
\* Steps that send nothing and deliver nothing

LEMMA Lengths == Lists => /\ Len(wire) \in Nat /\ Len(outbox) \in Nat /\ Len(unshown) \in Nat /\ Count \in Nat
                          /\ Live \in BOOLEAN
BY LenProperties DEF Lists, Count, Live

\* What is coming stays the same, or its tail is cut off with the session.
LEMMA RunsKept ==
    ASSUME NEW T, Runs(T), Lists, Count' \in 0 .. Count, Live' => Live /\ Count' = Count,
           \A i \in 1 .. Count' : Coming(i)' = Coming(i),
           UNCHANGED <<fbVars, unshown>>, Live' => UNCHANGED detVars
    PROVE  Runs(T)'
<1>1. Count \in Nat /\ Count' \in Nat /\ Count' <= Count
  BY Lengths
<1>2. ClientAt(T[0])'
  BY DEF Runs, ClientAt, fbVars, Assembled
<1>3. Follows(T)'
  BY <1>1 DEF Runs, Follows
<1>4. Paint(T)'
  BY <1>1 DEF Runs, Paint, PixelsAt, fbVars
<1>5. Commits(T)'
  <2>1. \A i \in 0 .. Count' : i \in 0 .. Count
    BY <1>1
  <2>2. \A i \in 1 .. Count' : i \in 1 .. Count /\ Closes(Coming(i)') = Closes(Coming(i))
    BY <1>1
  <2>3. /\ \A i, j \in 0 .. Count' : i <= j => T[i].count <= T[j].count
        /\ \A i \in 1 .. Count' : Closes(Coming(i)') =>
              /\ T[i].count - T[0].count \in 1 .. Len(unshown)
              /\ unshown[T[i].count - T[0].count] = T[i].image
    BY <2>1, <2>2 DEF Runs, Commits
  <2> QED BY <2>3 DEF Commits, Closes, Index
<1>6. Ends(T)'
  BY DEF Runs, Ends, Settled, detVars
<1> QED BY <1>2, <1>3, <1>4, <1>5, <1>6 DEF Runs

\* Nothing of the stream changes.
LEMMA Elsewhere ==
    ASSUME IInv, Live' = Live, phase' = "running" => previous # None, TypeOK', Room',
           UNCHANGED <<fbVars, detVars, unshown, wire, outbox, svcGeneration>>
    PROVE  IInv'
<1>1. Count' = Count /\ \A i \in 1 .. Count : Coming(i)' = Coming(i)
  BY DEF Count, Coming
<1>2. PICK T : Runs(T)
  BY DEF IInv
<1>3. Runs(T)'
  BY <1>1, <1>2, Lengths, RunsKept DEF IInv
<1>4. Lists' /\ Buffers' /\ Announced' /\ result' \in {"none", "ok", "committed"}
  BY DEF IInv, Lists, Buffers, Announced, fbVars, detVars
<1> QED BY <1>3, <1>4 DEF IInv

LEMMA CaptureLoopStep ==
    ASSUME IInv, CaptureLoop
    PROVE  IInv'
<1>1. /\ phase' = phase /\ phase = "running"
      /\ UNCHANGED <<fbVars, detVars, unshown, wire, outbox, svcGeneration>>
  BY DEF CaptureLoop, Capture, Offer, Drain, Push, Camera, Running, svcVars, netVars
<1>2. /\ UNCHANGED <<desktop, requests, spurious, sessions, keyframeRequested, keyframeDue, presented>>
      /\ camera' \in {"idle", "offer", "drain", "push"}
      /\ held' \in {held, desktop, None} /\ slot' \in {slot, held, None}
  BY DEF CaptureLoop, Capture, Offer, Drain, Push, Camera, Running, svcVars, netVars
<1>3. TypeOK'
  BY <1>1, <1>2 DEF IInv, TypeOK, detVars, ImageOrNone, MessageOK
<1>4. Room'
  BY DEF IInv, Room, CaptureLoop, Capture, Offer, Drain, Push, Camera
<1> QED BY <1>1, <1>3, <1>4, Elsewhere DEF Live, IInv, Announced

LEMMA QuietStep ==
    ASSUME IInv, StartLoops \/ AskForKeyframe \/ HandleKeyframeRequest \/ ChangeDesktop \/ KeyframeIntervalElapses
    PROVE  IInv'
<1>1. /\ Live' = Live /\ (phase' = "running" => previous # None)
      /\ phase' \in {phase, "running"}
      /\ UNCHANGED <<fbVars, detVars, unshown, wire, outbox, svcGeneration, camera, held, slot, sessions, presented>>
  BY DEF StartLoops, AskForKeyframe, HandleKeyframeRequest, ChangeDesktop, KeyframeIntervalElapses,
         svcVars, netVars, capVars, Live, Running, IInv, Announced
<1>2. /\ desktop' \in Images /\ requests' \in Nat /\ spurious' \in Nat
      /\ keyframeRequested' \in BOOLEAN /\ keyframeDue' \in BOOLEAN
  <2>1. requests \in Nat /\ spurious \in Nat /\ keyframeRequested \in BOOLEAN /\ keyframeDue \in BOOLEAN /\ desktop \in Images
    BY DEF IInv, TypeOK
  <2>2. CASE StartLoops
    BY <2>1, <2>2 DEF StartLoops, svcVars, netVars
  <2>3. CASE AskForKeyframe
    BY <2>1, <2>3 DEF AskForKeyframe, svcVars
  <2>4. CASE HandleKeyframeRequest
    BY <2>1, <2>4 DEF HandleKeyframeRequest
  <2>5. CASE ChangeDesktop
    BY <2>1, <2>5 DEF ChangeDesktop, svcVars, netVars
  <2>6. CASE KeyframeIntervalElapses
    BY <2>1, <2>6 DEF KeyframeIntervalElapses, netVars
  <2> QED BY <2>2, <2>3, <2>4, <2>5, <2>6
<1>3. TypeOK'
  BY <1>1, <1>2 DEF IInv, TypeOK, detVars, ImageOrNone, MessageOK
<1>4. Room'
  BY <1>1 DEF IInv, Room
<1> QED BY <1>1, <1>3, <1>4, Elsewhere

LEMMA SendMessageStep ==
    ASSUME IInv, SendMessage
    PROVE  IInv'
<1> DEFINE w == Len(wire)
           o == Len(outbox)
<1>1. Lists /\ w \in Nat /\ o \in Nat /\ outbox # <<>> /\ Live /\ Live'
  BY Lengths DEF IInv, SendMessage, Live
<1>2. /\ outbox[1] \in Messages /\ Head(outbox) = outbox[1] /\ o # 0
      /\ outbox' \in Seq(Messages) /\ Len(outbox') = o - 1 /\ \A i \in 1 .. o - 1 : outbox'[i] = outbox[i + 1]
  BY <1>1, HeadTailProperties, EmptySeq, ElementOfSeq DEF Lists, SendMessage
<1>3. /\ wire' \in Seq(Messages) /\ Len(wire') = w + 1
      /\ \A i \in 1 .. w : wire'[i] = wire[i]
      /\ wire'[w + 1] = outbox[1]
  BY <1>1, <1>2, AppendProperties DEF Lists, SendMessage
<1>4. Count' = Count /\ Count \in Nat
  BY <1>1, <1>2, <1>3 DEF Count
<1>5. ASSUME NEW i \in 1 .. Count  PROVE Coming(i)' = Coming(i)
  <2>1. Count = w + o
    BY <1>1 DEF Count
  <2>2. CASE i <= w
    BY <1>1, <1>3, <2>2 DEF Coming
  <2>3. CASE i = w + 1
    BY <1>1, <1>3, <2>3 DEF Coming
  <2>4. CASE i > w + 1
    <3>1. i - (w + 1) \in 1 .. o - 1 /\ (i - (w + 1)) + 1 = i - w /\ ~(i <= w) /\ ~(i <= w + 1)
      BY <1>1, <2>1, <2>4
    <3> QED BY <1>2, <1>3, <3>1 DEF Coming
  <2> QED BY <1>1, <2>2, <2>3, <2>4
<1>6. /\ UNCHANGED <<fbVars, detVars, unshown, phase, camera, held, slot, desktop, keyframeRequested, keyframeDue,
                     requests, spurious, sessions, presented>>
      /\ svcGeneration' = IF outbox[1].kind = "config" THEN outbox[1].body.gen ELSE svcGeneration
  BY <1>2 DEF SendMessage, capVars
<1>7. TypeOK'
  <2>1. \A i \in 1 .. Len(outbox') : MessageOK(outbox'[i])
    <3>1. \A i \in 1 .. o - 1 : i + 1 \in 1 .. o
      BY <1>1
    <3> QED BY <1>2, <3>1 DEF IInv, TypeOK
  <2>2. \A i \in 1 .. Len(wire') : MessageOK(wire'[i])
    <3>1. \A i \in 1 .. w + 1 : i \in 1 .. w \/ i = w + 1
      BY <1>1
    <3>2. 1 \in 1 .. o
      BY <1>1, <1>2
    <3> QED BY <1>2, <1>3, <3>1, <3>2 DEF IInv, TypeOK
  <2>3. svcGeneration' \in Nat
    BY <1>2, <1>6, MessageKinds DEF IInv, TypeOK
  <2>4. (\A i \in 1 .. Len(outbox) : MessageOK(outbox[i]))' /\ (\A i \in 1 .. Len(wire) : MessageOK(wire[i]))'
    BY <2>1, <2>2 DEF MessageOK
  <2> QED BY <1>6, <2>3, <2>4 DEF IInv, TypeOK, detVars, ImageOrNone
<1>8. Lists' /\ Buffers' /\ Room'
  BY <1>2, <1>3, <1>6 DEF IInv, Lists, Buffers, Room, fbVars
<1>9. Announced'
  <2>1. \A i \in 1 .. Len(outbox') : outbox'[i].kind # "config"
    <3>1. \A i \in 1 .. o - 1 : i + 1 \in 2 .. o
      BY <1>1
    <3> QED BY <1>2, <3>1 DEF IInv, Announced
  <2>2. svcGeneration' = detGeneration
    BY <1>1, <1>2, <1>6 DEF IInv, Announced
  <2> QED BY <1>1, <1>6, <2>1, <2>2 DEF IInv, Announced, detVars, Live
<1>10. PICK T : Runs(T)
  BY DEF IInv
<1>11. Runs(T)'
  BY <1>1, <1>4, <1>5, <1>6, <1>10, RunsKept
<1> QED BY <1>6, <1>7, <1>8, <1>9, <1>11 DEF IInv, fbVars

------------------------------------------------------------------------------
\* The client reads

\* What the client reads is the next message of its run.
LEMMA Delivered ==
    ASSUME IInv, NEW T, Runs(T), Receive
    PROVE  /\ 1 \in 1 .. Len(wire) /\ Head(wire) = wire[1] /\ wire[1] \in Messages /\ 1 \in 1 .. Count
           /\ ClientAt(T[1])' /\ Buffers'
           /\ result' = IF Closes(wire[1]) THEN "committed" ELSE "ok"
           /\ Injective => /\ PixelsAt(T[1])'
                           /\ Closes(wire[1]) => /\ DOMAIN T[1].image = display'
                                                 /\ \A c \in display' : mem'[pixels'][c] = T[1].image[c]
<1> DEFINE m == wire[1]
<1>1. Len(wire) \in Nat \ {0} /\ Head(wire) = m /\ m \in Messages
  BY HeadTailProperties, EmptySeq, ElementOfSeq, LenProperties DEF IInv, Lists, Receive
<1>2. 1 \in 1 .. Len(wire) /\ 1 \in 1 .. Count /\ Coming(1) = m
  BY <1>1, Lengths DEF IInv, Count, Coming
<1>3. /\ StageOK(T[0]) /\ StageOK(T[1]) /\ ClientAt(T[0]) /\ Buffers
      /\ Takes(T[0], m, T[1])
      /\ Injective => PixelsAt(T[0]) /\ Targets(T[0], m, T[1])
  <2>1. 1 - 1 = 0
    OBVIOUS
  <2> QED BY <1>2, <2>1 DEF Runs, Follows, Paint, IInv
<1>4. Deliver(m)
  BY <1>1 DEF Receive
<1>5. m.kind \in {"config", "frame", "part"}
  BY <1>1, MessageKinds
<1>6. CASE m.kind = "config"
  <2>1. FB!Configure(m.body) /\ TakesConfig(T[0], m, T[1])
    BY <1>3, <1>4, <1>6 DEF Deliver, Takes
  <2>2. ~Closes(m)
    BY <1>6 DEF Closes
  <2>3. ClientAt(T[1])' /\ Buffers' /\ PixelsAt(T[1])' /\ result' = "ok"
    BY <1>1, <1>3, <1>6, <2>1, TakeConfig
  <2> QED BY <1>1, <1>2, <2>2, <2>3
<1>7. ASSUME m.kind # "config"
      PROVE  /\ TakesPixels(T[0], m, T[1]) /\ (m.kind = "frame" => FB!Apply(m.body))
             /\ (m.kind = "part" => FB!ApplyPart(m.body))
             /\ (ClientAt(T[1])' => display' = display)
             /\ (Injective /\ Closes(m) => DOMAIN T[1].image = display)
  BY <1>3, <1>4, <1>7 DEF Deliver, Takes, TakesPixels, Targets, ClientAt
<1>8. CASE m.kind = "frame"
  <2>1. /\ ClientAt(T[1])' /\ Buffers' /\ result' = "committed" /\ Closes(m)
        /\ Targets(T[0], m, T[1]) /\ PixelsAt(T[0]) =>
              PixelsAt(T[1])' /\ \A c \in display : mem'[pixels'][c] = T[1].image[c]
    BY <1>1, <1>3, <1>7, <1>8, TakeFrame
  <2> QED BY <1>1, <1>2, <1>3, <1>7, <1>8, <2>1
<1>9. CASE m.kind = "part"
  <2>1. /\ ClientAt(T[1])' /\ Buffers' /\ result' = IF Closes(m) THEN "committed" ELSE "ok"
        /\ Targets(T[0], m, T[1]) /\ PixelsAt(T[0]) =>
              PixelsAt(T[1])' /\ (Closes(m) => \A c \in display : mem'[pixels'][c] = T[1].image[c])
    BY <1>1, <1>3, <1>7, <1>9, TakePart
  <2> QED BY <1>1, <1>2, <1>3, <1>7, <1>9, <2>1
<1> QED BY <1>5, <1>6, <1>8, <1>9

\* The frame the client commits is the first one it has not shown.
LEMMA FirstUnshown ==
    ASSUME IInv, NEW T, Runs(T), Receive, Closes(wire[1])
    PROVE  /\ T[1].count = T[0].count + 1 /\ Len(unshown) \in Nat \ {0}
           /\ Head(unshown) = T[1].image /\ T[1].image \in Images
<1>1. Len(unshown) \in Nat /\ 1 \in 1 .. Count /\ Count \in Nat
  BY Delivered, Lengths DEF IInv
<1>2. Coming(1) = wire[1] /\ 1 - 1 = 0
  BY Delivered DEF Coming
<1>3. Takes(T[0], wire[1], T[1]) /\ StageOK(T[0])
  BY <1>1, <1>2 DEF Runs, Follows
<1>4. T[1].count = T[0].count + 1 /\ T[0].count \in Nat
  BY <1>3 DEF Takes, TakesPixels, Closes, StageOK
<1>5. T[1].count - T[0].count \in 1 .. Len(unshown) /\ unshown[T[1].count - T[0].count] = T[1].image
  BY <1>1, <1>2 DEF Runs, Commits
<1>6. T[1].count - T[0].count = 1
  BY <1>4
<1>7. unshown[1] = T[1].image /\ Len(unshown) # 0
  BY <1>1, <1>5, <1>6
<1>8. unshown # <<>> /\ unshown[1] \in Images
  BY <1>1, <1>7, EmptySeq, ElementOfSeq DEF IInv, Lists
<1> QED BY <1>1, <1>4, <1>7, <1>8, HeadTailProperties DEF IInv, Lists

\* The run of the client after its first message.
LEMMA RunGoesOn ==
    ASSUME IInv, NEW T, Runs(T), Receive, NEW U, U = [i \in Nat |-> T[i + 1]]
    PROVE  Runs(U)'
<1> DEFINE m == wire[1]
<1>1. /\ 1 \in 1 .. Len(wire) /\ Head(wire) = m /\ 1 \in 1 .. Count
      /\ ClientAt(T[1])' /\ (Injective => PixelsAt(T[1])')
      /\ result' = IF Closes(m) THEN "committed" ELSE "ok"
  BY Delivered
<1>2. PICK w \in Nat, c \in Nat, n \in Nat : w = Len(wire) /\ c = Count /\ n = Len(unshown)
  BY Lengths DEF IInv
<1>3. w # 0 /\ c # 0 /\ Len(outbox) \in Nat
  BY <1>1, <1>2, Lengths DEF IInv
<1>4. Len(wire') = w - 1 /\ \A i \in 1 .. w - 1 : wire'[i] = wire[i + 1]
  BY <1>1, <1>2, HeadTailProperties, EmptySeq DEF IInv, Lists, Receive
<1>5. phase' = phase /\ outbox' = outbox /\ UNCHANGED detVars
      /\ unshown' = IF Closes(m) THEN Tail(unshown) ELSE unshown
  BY <1>1 DEF Receive, svcVars
<1>6. Live' = Live /\ Count' = c - 1 /\ c - 1 \in Nat
  <2>1. Live' = Live /\ Len(wire') = w - 1
    BY <1>4, <1>5 DEF Live
  <2>2. Count = w + (IF Live THEN Len(outbox) ELSE 0) /\ Count' = (w - 1) + (IF Live THEN Len(outbox) ELSE 0)
    BY <1>2, <1>5, <2>1 DEF Count
  <2>3. PICK o \in Nat : o = IF Live THEN Len(outbox) ELSE 0
    BY <1>3
  <2>4. c = w + o /\ Count' = (w - 1) + o
    BY <1>2, <2>2, <2>3
  <2> QED BY <1>3, <2>1, <2>4
<1>7. ASSUME NEW i \in 1 .. c - 1
      PROVE  Coming(i)' = Coming(i + 1) /\ i + 1 \in 1 .. Count /\ i \in Nat /\ i - 1 \in Nat /\ (i - 1) + 1 = i
             /\ 1 \in 0 .. Count /\ i \in 0 .. Count /\ 1 <= i
  <2>0. 1 \in 0 .. Count /\ i \in 0 .. Count /\ 1 <= i
    BY <1>2, <1>3
  <2>1. i + 1 \in 1 .. Count /\ i \in Nat /\ i - 1 \in Nat /\ (i - 1) + 1 = i
    BY <1>2, <1>3
  <2>2. CASE i <= w - 1
    <3>1. i \in 1 .. w - 1 /\ i <= Len(wire') /\ i + 1 <= Len(wire)
      <4>1. Len(wire') = w - 1
        BY <1>4
      <4> QED BY <1>2, <1>3, <2>1, <2>2, <4>1
    <3>2. wire'[i] = wire[i + 1]
      BY <1>4, <3>1
    <3>3. Coming(i)' = wire'[i] /\ Coming(i + 1) = wire[i + 1]
      BY <3>1 DEF Coming
    <3> QED BY <2>0, <2>1, <3>2, <3>3
  <2>3. CASE i > w - 1
    <3>1. i - (w - 1) = (i + 1) - Len(wire) /\ ~(i <= w - 1) /\ ~(i + 1 <= Len(wire))
      BY <1>2, <2>1, <2>3
    <3>2. Len(wire') = w - 1 /\ outbox' = outbox
      BY <1>4, <1>5
    <3>3. Coming(i)' = outbox[i - (w - 1)] /\ Coming(i + 1) = outbox[(i + 1) - Len(wire)]
      BY <3>1, <3>2 DEF Coming
    <3> QED BY <2>0, <2>1, <3>1, <3>3
  <2> QED BY <1>3, <2>0, <2>1, <2>2, <2>3
<1>8. \A i \in Nat : U[i] = T[i + 1] /\ StageOK(U[i])
  BY DEF Runs
<1>9. U[0] = T[1] /\ U[c - 1] = T[Count]
  <2>1. (c - 1) + 1 = Count /\ 0 + 1 = 1
    BY <1>2
  <2> QED BY <1>6, <1>8, <2>1
<1>10. \A i \in 1 .. c - 1 : U[i] = T[i + 1] /\ U[i - 1] = T[(i + 1) - 1] /\ (i + 1) - 1 = i
  <2> TAKE i \in 1 .. c - 1
  <2>1. i \in Nat /\ i - 1 \in Nat /\ (i - 1) + 1 = i /\ (i + 1) - 1 = i
    BY <1>7
  <2> QED BY <1>8, <2>1
<1>11. Follows(U)'
  <2>1. \A i \in 1 .. c - 1 : Takes(U[i - 1], Coming(i)', U[i])
    BY <1>7, <1>10 DEF Runs, Follows
  <2> QED BY <1>6, <2>1 DEF Follows, Takes, TakesConfig, TakesPixels, Carries, Closes, Index
<1>12. Paint(U)'
  <2>1. Injective => \A i \in 1 .. c - 1 : Targets(U[i - 1], Coming(i)', U[i])
    BY <1>7, <1>10 DEF Runs, Paint
  <2> QED BY <1>1, <1>6, <1>9, <2>1 DEF Paint, Targets, Closes, Index
<1>13. \A i \in Nat : T[i].count \in Nat
  BY DEF Runs, StageOK
<1>14. PICK d \in 0 .. 1 : d = IF Closes(m) THEN 1 ELSE 0
  OBVIOUS
<1>15. T[1].count = T[0].count + d /\ Len(unshown') = n - d
  <2>1. CASE Closes(m)
    <3>1. T[1].count = T[0].count + 1 /\ Len(unshown) \in Nat \ {0}
      BY <2>1, FirstUnshown
    <3>2. unshown # <<>>
      BY <3>1, EmptySeq
    <3>3. Len(Tail(unshown)) = Len(unshown) - 1
      BY <3>2, HeadTailProperties DEF IInv, Lists
    <3> QED BY <1>2, <1>5, <1>14, <2>1, <3>1, <3>3
  <2>2. CASE ~Closes(m)
    <3>1. Coming(1) = m /\ 1 - 1 = 0
      BY <1>1 DEF Coming
    <3>2. Takes(T[0], m, T[1])
      BY <1>1, <3>1 DEF Runs, Follows
    <3>3. T[1].count = T[0].count
      BY <2>2, <3>2 DEF Takes, TakesConfig, TakesPixels
    <3>4. PICK t0 \in Nat : t0 = T[0].count
      BY <1>13
    <3>5. d = 0 /\ t0 + 0 = t0 /\ n - 0 = n
      BY <1>14, <2>2
    <3> QED BY <1>2, <1>5, <2>2, <3>3, <3>4, <3>5
  <2> QED BY <2>1, <2>2
<1>16. ASSUME NEW k \in 1 .. n, k - d \in 1 .. n - d  PROVE unshown'[k - d] = unshown[k]
  <2>1. CASE Closes(m)
    <3>1. d = 1 /\ k - 1 \in 1 .. n - 1 /\ (k - 1) + 1 = k /\ n # 0
      BY <1>14, <1>16, <2>1
    <3>2. unshown # <<>>
      BY <1>2, <3>1, EmptySeq
    <3>3. \A j \in 1 .. n - 1 : Tail(unshown)[j] = unshown[j + 1]
      BY <1>2, <3>2, HeadTailProperties DEF IInv, Lists
    <3> QED BY <1>5, <2>1, <3>1, <3>3
  <2>2. CASE ~Closes(m)
    <3>1. d = 0 /\ k - 0 = k
      BY <1>14, <2>2
    <3> QED BY <1>5, <2>2, <3>1
  <2> QED BY <2>1, <2>2
<1>17. Commits(U)'
  <2>1. \A i, j \in 0 .. c - 1 : i <= j => U[i].count <= U[j].count
    <3> TAKE i, j \in 0 .. c - 1
    <3>1. i + 1 \in 0 .. Count /\ j + 1 \in 0 .. Count /\ (i <= j => i + 1 <= j + 1) /\ i \in Nat /\ j \in Nat
      BY <1>2
    <3> QED BY <1>8, <3>1 DEF Runs, Commits
  <2>2. ASSUME NEW i \in 1 .. c - 1, Closes(Coming(i)')
        PROVE  /\ U[i].count - U[0].count \in 1 .. Len(unshown')
               /\ unshown'[U[i].count - U[0].count] = U[i].image
    <3>1. Coming(i)' = Coming(i + 1) /\ i + 1 \in 1 .. Count /\ U[i] = T[i + 1] /\ i \in Nat /\ (i + 1) - 1 = i
      BY <1>7, <1>10
    <3>2. Closes(Coming(i + 1)) /\ Takes(T[i], Coming(i + 1), T[i + 1])
      BY <2>2, <3>1 DEF Closes, Index, Runs, Follows
    <3>3. T[i + 1].count = T[i].count + 1
      BY <3>2 DEF Takes, TakesPixels, Closes
    <3>4. T[1].count <= T[i].count
      <4>1. 1 \in 0 .. Count /\ i \in 0 .. Count /\ 1 <= i
        BY <1>7
      <4> QED BY <4>1 DEF Runs, Commits
    <3>5. PICK k \in 1 .. n : k = T[i + 1].count - T[0].count /\ unshown[k] = T[i + 1].image
      BY <1>2, <3>1, <3>2 DEF Runs, Commits
    <3>6. PICK t0 \in Nat, t1 \in Nat, ti \in Nat : t0 = T[0].count /\ t1 = T[1].count /\ ti = T[i].count
      BY <1>13, <3>1
    <3>7. t1 = t0 + d /\ t1 <= ti /\ k = (ti + 1) - t0 /\ T[i + 1].count = ti + 1
      <4>1. t1 = t0 + d
        BY <1>15, <3>6
      <4>2. T[i + 1].count = ti + 1
        BY <3>3, <3>6
      <4>3. k = (ti + 1) - t0
        BY <3>5, <3>6, <4>2
      <4> QED BY <3>4, <3>6, <4>1, <4>2, <4>3
    <3>8. k - d = (ti + 1) - t1 /\ k - d \in 1 .. n - d
      BY <3>7
    <3>9. U[i].count - U[0].count = k - d
      BY <1>9, <3>1, <3>6, <3>7, <3>8, U[i].count = ti + 1, U[0].count = t1
    <3>10. unshown'[k - d] = unshown[k]
      BY <1>16, <3>8
    <3> QED BY <1>15, <3>1, <3>5, <3>8, <3>9, <3>10
  <2> QED BY <1>6, <2>1, <2>2 DEF Commits
<1>18. Ends(U)'
  <2> DEFINE v == U[c - 1]
  <2>1. ASSUME Live  PROVE Settled(v, U[0].count)'
    <3>1. Settled(T[Count], T[0].count)
      BY <2>1 DEF Runs, Ends
    <3>2. PICK t0 \in Nat : t0 = T[0].count
      BY <1>13
    <3>3. T[Count].count = t0 + n /\ U[0].count = t0 + d
      BY <1>2, <1>9, <1>15, <3>1, <3>2 DEF Settled
    <3>4. t0 + n = (t0 + d) + (n - d)
      BY <3>2
    <3>5. T[Count].count = U[0].count + Len(unshown')
      BY <1>15, <3>3, <3>4
    <3>6. v = T[Count]
      BY <1>9
    <3> QED BY <1>5, <3>1, <3>5, <3>6 DEF Settled, detVars
  <2> QED BY <1>6, <2>1 DEF Ends
<1> QED BY <1>1, <1>8, <1>9, <1>11, <1>12, <1>17, <1>18 DEF Runs

\* What Receive does to everything: the frame committed is shown whole.
LEMMA ReceiveStep ==
    ASSUME IInv, Receive
    PROVE  /\ IInv'
           /\ unshown' = IF result' = "committed" THEN Tail(unshown) ELSE unshown
           /\ result' = "committed" => unshown # <<>>
           /\ Injective /\ result' = "committed" => presented' = Head(unshown)
           /\ result' # "committed" => presented' = presented
<1> DEFINE m == wire[1]
<1>1. PICK T : Runs(T)
  BY DEF IInv
<1>2. /\ 1 \in 1 .. Len(wire) /\ Head(wire) = m /\ ClientAt(T[1])' /\ Buffers'
      /\ result' = IF Closes(m) THEN "committed" ELSE "ok"
      /\ Injective /\ Closes(m) => /\ DOMAIN T[1].image = display'
                                   /\ \A c \in display' : mem'[pixels'][c] = T[1].image[c]
  BY <1>1, Delivered
<1>3. /\ UNCHANGED <<phase, desktop, camera, held, slot, previous, detGeneration, detSequence, svcGeneration,
                     keyframeRequested, keyframeDue, outbox, requests, spurious, sessions>>
      /\ wire' = Tail(wire)
      /\ presented' = IF Closes(m) THEN Snapshot' ELSE presented
      /\ unshown' = IF Closes(m) THEN Tail(unshown) ELSE unshown
  BY <1>2 DEF Receive, capVars, detVars, svcVars
<1>4. (Closes(m) => Snapshot' \in Images) /\ (Closes(m) /\ Injective => Snapshot' = T[1].image)
  <2> SUFFICES ASSUME Closes(m)  PROVE Snapshot' \in Images /\ (Injective => Snapshot' = T[1].image)
    OBVIOUS
  <2>1. Coming(1) = m /\ 1 - 1 = 0 /\ 1 \in 1 .. Count
    BY <1>1, <1>2, Delivered DEF Coming
  <2>2. Takes(T[0], m, T[1]) /\ StageOK(T[1]) /\ m \in Messages
    BY <1>1, <2>1, Delivered DEF Runs, Follows
  <2>3. T[1].gen = m.body.hdr.gen /\ m.body.hdr.gen \in Nat \ {0}
    BY <2>2, MessageKinds, HeaderFields DEF Takes, TakesPixels, Closes
  <2>4. generation' # 0 /\ display' \in Geometries /\ display' \subseteq Cells
    BY <1>2, <2>2, <2>3 DEF ClientAt, StageOK
  <2>5. mem'[pixels'] \in [Cells -> Colors]
    BY <1>2, <2>4 DEF Buffers
  <2>6. Snapshot' = [c \in display' |-> mem'[pixels'][c]]
    BY DEF Snapshot
  <2>7. Snapshot' \in [display' -> Colors]
    BY <2>4, <2>5, <2>6
  <2>8. T[1].image \in Images
    BY <1>1, FirstUnshown
  <2>9. Injective => Snapshot' = T[1].image
    BY <1>2, <2>6, <2>8 DEF Images
  <2> QED BY <2>4, <2>7, <2>9 DEF Images
<1>5. Len(wire) \in Nat /\ wire # <<>> /\ wire' \in Seq(Messages) /\ Len(wire') = Len(wire) - 1
      /\ \A i \in 1 .. Len(wire) - 1 : wire'[i] = wire[i + 1]
  BY <1>2, <1>3, HeadTailProperties, EmptySeq, LenProperties DEF IInv, Lists
<1>6. Closes(m) => Head(unshown) = T[1].image /\ unshown # <<>> /\ Tail(unshown) \in Seq(Images)
  <2> SUFFICES ASSUME Closes(m)  PROVE Head(unshown) = T[1].image /\ unshown # <<>> /\ Tail(unshown) \in Seq(Images)
    OBVIOUS
  <2>1. Head(unshown) = T[1].image /\ Len(unshown) # 0
    BY <1>1, FirstUnshown
  <2>2. unshown # <<>>
    BY <2>1, EmptySeq
  <2> QED BY <2>1, <2>2, HeadTailProperties DEF IInv, Lists
<1>7. TypeOK'
  <2>1. \A i \in 1 .. Len(wire') : MessageOK(wire'[i])
    <3>1. \A i \in 1 .. Len(wire) - 1 : i + 1 \in 1 .. Len(wire)
      BY <1>5
    <3> QED BY <1>5, <3>1 DEF IInv, TypeOK
  <2>2. (\A i \in 1 .. Len(wire) : MessageOK(wire[i]))' /\ (\A i \in 1 .. Len(outbox) : MessageOK(outbox[i]))'
    BY <1>3, <2>1 DEF IInv, TypeOK, MessageOK
  <2>3. presented' \in Images \cup {<<>>}
    BY <1>3, <1>4 DEF IInv, TypeOK
  <2> QED BY <1>3, <2>2, <2>3 DEF IInv, TypeOK, ImageOrNone
<1>8. Lists' /\ Room' /\ Announced'
  BY <1>3, <1>5, <1>6 DEF IInv, Lists, Room, Announced, Live
<1>9. Runs([i \in Nat |-> T[i + 1]])'
  BY <1>1, RunGoesOn
<1>10. IInv'
  BY <1>2, <1>7, <1>8, <1>9 DEF IInv
<1> QED BY <1>2, <1>3, <1>4, <1>6, <1>10

LEMMA LoseConnectionStep ==
    ASSUME IInv, LoseConnection
    PROVE  IInv'
<1>1. PICK n \in 0 .. Len(wire) : wire' = SubSeq(wire, 1, n)
  BY DEF LoseConnection
<1>2. Len(wire) \in Nat /\ wire' \in Seq(Messages) /\ Len(wire') = n /\ \A i \in 1 .. n : wire'[i] = wire[i]
  <2>1. Len(wire) \in Nat /\ n \in Nat /\ \A i \in 1 .. n : i \in 1 .. Len(wire) /\ wire[i] \in Messages
    BY Lengths, ElementOfSeq DEF IInv, Lists
  <2>2. n - 1 + 1 = n
    BY <2>1
  <2> QED BY <1>1, <2>1, <2>2, SubSeqProperties DEF IInv, Lists
<1>3. /\ UNCHANGED <<fbVars, detVars, unshown, desktop, camera, held, slot, svcGeneration,
                     keyframeRequested, keyframeDue, outbox, requests, spurious, sessions, presented>>
      /\ phase' = "ended" /\ ~Live'
  BY DEF LoseConnection, capVars, svcVars, Live
<1>4. TypeOK'
  <2>1. \A i \in 1 .. Len(wire') : MessageOK(wire'[i])
    <3>1. \A i \in 1 .. n : i \in 1 .. Len(wire)
      BY <1>2
    <3> QED BY <1>2, <3>1 DEF IInv, TypeOK
  <2>2. (\A i \in 1 .. Len(wire) : MessageOK(wire[i]))' /\ (\A i \in 1 .. Len(outbox) : MessageOK(outbox[i]))'
    BY <1>3, <2>1 DEF IInv, TypeOK, MessageOK
  <2> QED BY <1>3, <2>2 DEF IInv, TypeOK, ImageOrNone, detVars
<1>5. Lists' /\ Room' /\ Announced' /\ Buffers' /\ result' = result
  BY <1>2, <1>3 DEF IInv, Lists, Room, Announced, Buffers, fbVars
<1>6. Count' = n /\ n \in 0 .. Count
  BY <1>2, <1>3, Lengths DEF IInv, Count
<1>7. \A i \in 1 .. n : Coming(i)' = Coming(i)
  <2> TAKE i \in 1 .. n
  <2>1. i <= Len(wire) /\ i <= Len(wire')
    BY <1>2
  <2> QED BY <1>2, <2>1 DEF Coming
<1>8. PICK T : Runs(T)
  BY DEF IInv
<1>9. Runs(T)'
  BY <1>3, <1>6, <1>7, <1>8, RunsKept DEF IInv
<1> QED BY <1>4, <1>5, <1>9 DEF IInv

\* A session begins with both sides at zero.
Zero == [gen |-> 0, seq |-> 0, area |-> {}, need |-> FALSE, staged |-> FALSE, hdr |-> None, next |-> 0,
         painted |-> {}, image |-> None, target |-> None, count |-> 0]

Fresh ==
    /\ desktop \in Images /\ phase \in {"connecting", "initial"}
    /\ camera = "idle" /\ held = None /\ slot = None
    /\ previous = None /\ detGeneration = 0 /\ detSequence = 0
    /\ svcGeneration = 0 /\ keyframeRequested = FALSE /\ keyframeDue = TRUE
    /\ outbox = <<>> /\ wire = <<>> /\ requests = 0 /\ spurious \in Nat /\ sessions \in Nat
    /\ FB!Init /\ presented \in Images \cup {<<>>} /\ unshown = <<>>

LEMMA Beginning == Fresh => IInv
<1> SUFFICES ASSUME Fresh  PROVE IInv
  OBVIOUS
<1> DEFINE T == [i \in Nat |-> Zero]
<1>0. generation = 0 /\ frameSequence = 0 /\ display = {} /\ fbKeyframeRequired = FALSE /\ staging = None /\ discard = None
      /\ wire = <<>> /\ outbox = <<>> /\ unshown = <<>> /\ previous = None /\ detGeneration = 0 /\ detSequence = 0
  BY DEF Fresh, FB!Init
<1>1. Lists /\ Count = 0 /\ Len(unshown) = 0
  <2>1. Lists /\ Len(wire) = 0 /\ Len(outbox) = 0 /\ Len(unshown) = 0
    BY <1>0, EmptySeq DEF Lists
  <2> QED BY <2>1 DEF Count
<1>2. T[0] = Zero /\ \A i \in Nat : T[i] = Zero
  OBVIOUS
<1>3. StageOK(Zero) /\ ClientAt(Zero) /\ PixelsAt(Zero) /\ Settled(Zero, 0)
  <2>1. /\ Zero.gen = 0 /\ Zero.seq = 0 /\ Zero.area = {} /\ Zero.need = FALSE /\ Zero.staged = FALSE
        /\ Zero.next = 0 /\ Zero.painted = {} /\ Zero.image = None /\ Zero.count = 0
    BY DEF Zero
  <2>2. StageOK(Zero)
    <3>1. Zero.need \in BOOLEAN /\ Zero.staged \in BOOLEAN /\ ~Zero.staged
      BY <2>1
    <3>2. Zero.gen \in Nat /\ Zero.seq \in Nat /\ Zero.next \in Nat /\ Zero.count \in Nat /\ ~(Zero.gen # 0)
      BY <2>1
    <3>3. Zero.area \in SUBSET Cells /\ Zero.painted \in SUBSET Zero.area
      BY <2>1
    <3> QED BY <2>1, <3>1, <3>2, <3>3 DEF StageOK
  <2>3. ClientAt(Zero)
    BY <1>0, <2>1 DEF ClientAt
  <2>4. PixelsAt(Zero)
    BY <2>1 DEF PixelsAt
  <2>5. Settled(Zero, 0)
    BY <1>0, <1>1, <2>1 DEF Settled
  <2> QED BY <2>2, <2>3, <2>4, <2>5
<1> HIDE DEF T
<1>4. Follows(T) /\ Paint(T) /\ Commits(T) /\ Ends(T)
  <2>1. \A i \in 1 .. Count : FALSE
    BY <1>1
  <2>2. \A i, j \in 0 .. Count : T[i].count <= T[j].count
    BY <1>1, <1>2 DEF Zero
  <2>3. Zero.count = 0
    BY DEF Zero
  <2> QED BY <1>1, <1>2, <1>3, <2>1, <2>2, <2>3 DEF Follows, Paint, Commits, Ends
<1>5. Runs(T)
  BY <1>2, <1>3, <1>4 DEF Runs
<1>6. TypeOK
  <2>1. Len(wire) = 0 /\ Len(outbox) = 0
    BY <1>0, EmptySeq
  <2>2. (\A i \in 1 .. Len(wire) : MessageOK(wire[i])) /\ (\A i \in 1 .. Len(outbox) : MessageOK(outbox[i]))
    BY <2>1
  <2>3. keyframeRequested \in BOOLEAN /\ keyframeDue \in BOOLEAN
    BY DEF Fresh
  <2>4. {held, slot, previous} \subseteq ImageOrNone
    BY DEF Fresh, ImageOrNone
  <2>5. {detGeneration, detSequence, svcGeneration, requests, spurious, sessions} \subseteq Nat
    BY DEF Fresh
  <2> QED BY <2>2, <2>3, <2>4, <2>5 DEF Fresh, TypeOK
<1>7. Buffers
  <2>1. Blank \in Colors
    OBVIOUS
  <2> QED BY <2>1 DEF Fresh, FB!Init, Buffers
<1>8. Announced /\ Room /\ result \in {"none", "ok", "committed"}
  <2>1. Len(outbox) = 0
    BY <1>0, EmptySeq
  <2> QED BY <2>1 DEF Fresh, FB!Init, Announced, Room, Live
<1> QED BY <1>1, <1>5, <1>6, <1>7, <1>8 DEF IInv

LEMMA ConnectStep ==
    ASSUME IInv, Connect
    PROVE  IInv'
<1>1. Fresh'
  BY DEF IInv, TypeOK, Connect, Fresh, FB!Reset, FB!Init
<1>2. Fresh' => IInv'
  BY Beginning, PTL
<1> QED BY <1>1, <1>2

------------------------------------------------------------------------------
\* sendCapture

Parts(paint) == IF Fits(paint) THEN 1 ELSE PartsNeeded(paint)

\* The messages of a frame carry the header, their number and their place, and
\* the rectangles of each come on top of those before it.
PlanMessage(m, h, k, paint) ==
    /\ m \in Messages /\ MessageOK(m) /\ m.kind \in {"frame", "part"}
    /\ m.kind = "frame" => h.count = 1
    /\ m.body.hdr = h /\ Index(m) = k - 1 /\ m.body.sound = TRUE
    /\ DOMAIN m.body.paint \subseteq DOMAIN paint
    /\ \A c \in DOMAIN m.body.paint : m.body.paint[c] = paint[c]

LEMMA PlanUnsplit ==
    ASSUME NEW header \in FB!Header, header.count = 1, NEW paint \in Paints, DOMAIN paint # {}, Fits(paint)
    PROVE  /\ Plan(header, paint) \in Seq(Messages) /\ Len(Plan(header, paint)) = 1
           /\ PlanMessage(Plan(header, paint)[1], header, 1, paint)
           /\ DOMAIN Plan(header, paint)[1].body.paint = DOMAIN paint
<1> DEFINE m == [kind |-> "frame", body |-> [hdr |-> header, paint |-> paint, sound |-> TRUE]]
<1>1. Plan(header, paint) = <<m>>
  BY DEF Plan
<1>2. m \in Messages
  BY DEF Messages
<1>3. /\ m.kind = "frame" /\ m.body.hdr = header /\ m.body.paint = paint /\ m.body.sound = TRUE
      /\ Index(m) = 0 /\ 1 - 1 = 0
  BY DEF Index
<1> HIDE DEF m
<1>4. PlanMessage(m, header, 1, paint)
  BY <1>2, <1>3 DEF PlanMessage, MessageOK, Fits
<1>5. <<m>> \in Seq(Messages) /\ Len(<<m>>) = 1 /\ <<m>>[1] = m
  BY <1>2
<1> QED BY <1>1, <1>3, <1>4, <1>5

LEMMA PlanSplit ==
    ASSUME NEW header \in FB!Header, NEW paint \in Paints, DOMAIN paint # {}, ~Fits(paint), ~Unsplittable(paint),
           NEW n, n = PartsNeeded(paint), NEW h, h = [header EXCEPT !.count = n]
    PROVE  /\ n \in Nat \ {0} /\ h \in FB!Header
           /\ Plan(header, paint) \in Seq(Messages) /\ Len(Plan(header, paint)) = n
           /\ FirstParts(DOMAIN paint, 0) = {} /\ FirstParts(DOMAIN paint, n) = DOMAIN paint
           /\ \A k \in 1 .. n :
                 LET area == DOMAIN Plan(header, paint)[k].body.paint
                 IN  /\ PlanMessage(Plan(header, paint)[k], h, k, paint)
                     /\ FirstParts(DOMAIN paint, k - 1) \cap area = {}
                     /\ FirstParts(DOMAIN paint, k) = FirstParts(DOMAIN paint, k - 1) \cup area
<1> DEFINE S == DOMAIN paint
           C == PartCapacity
<1>1. S \in SUBSET Cells /\ IsFiniteSet(S)
  BY FS_Subset DEF Paints
<1>2. /\ n \in Nat \ {0} /\ FirstParts(S, 0) = {} /\ FirstParts(S, n) = S
      /\ \A i \in 0 .. n - 1 :
            /\ PartArea(S, i) # {} /\ PartArea(S, i) \subseteq S
            /\ Cardinality(PartArea(S, i)) \in 1 .. C
            /\ FirstParts(S, i) \subseteq S
            /\ FirstParts(S, i) \cap PartArea(S, i) = {}
            /\ FirstParts(S, i + 1) = FirstParts(S, i) \cup PartArea(S, i)
  BY <1>1, PartAreas DEF PartsNeeded
<1>3. n \in 2 .. MaxFrameParts
  <2>1. Cardinality(S) \in Nat \ {0} /\ Cardinality(S) > C /\ n <= MaxFrameParts
    BY <1>1, <1>2, FS_CardinalityType, FS_EmptySet DEF Fits, Unsplittable
  <2>2. Cardinality(S) <= n * C
    BY <2>1, PartsArithmetic DEF PartsNeeded
  <2>3. n # 1
    BY <2>1, <2>2
  <2> QED BY <1>2, <2>1, <2>3
<1>4. h \in FB!Header /\ h.count = n
  BY <1>2, <1>3 DEF FB!Header
<1> DEFINE M(k) == [kind |-> "part", body |-> [hdr |-> h, index |-> k - 1, paint |-> Piece(paint, k - 1), sound |-> TRUE]]
<1>5. Plan(header, paint) = [k \in 1 .. n |-> M(k)]
  BY DEF Plan
<1>6. ASSUME NEW k \in 1 .. n
      PROVE  /\ PlanMessage(M(k), h, k, paint)
             /\ FirstParts(S, k - 1) \cap DOMAIN M(k).body.paint = {}
             /\ FirstParts(S, k) = FirstParts(S, k - 1) \cup DOMAIN M(k).body.paint
  <2>1. PICK i \in 0 .. n - 1 : i = k - 1 /\ i + 1 = k /\ i \in Nat
    BY <1>2
  <2>2. DOMAIN Piece(paint, i) = PartArea(S, i) /\ \A c \in PartArea(S, i) : Piece(paint, i)[c] = paint[c]
    BY <1>1, <2>1, PieceOf
  <2>3. Piece(paint, i) \in Paints
    <3>1. PartArea(S, i) \in SUBSET Cells /\ \A c \in PartArea(S, i) : paint[c] \in Colors
      BY <1>1, <1>2, <2>1 DEF Paints
    <3>2. Piece(paint, i) = [c \in PartArea(S, i) |-> paint[c]]
      BY <2>2 DEF Piece
    <3>3. Piece(paint, i) \in [PartArea(S, i) -> Colors]
      BY <3>1, <3>2
    <3> QED BY <3>1, <3>3 DEF Paints
  <2> DEFINE m == [kind |-> "part", body |-> [hdr |-> h, index |-> i, paint |-> Piece(paint, i), sound |-> TRUE]]
  <2>4. M(k) = m
    BY <2>1
  <2>5. m \in Messages
    BY <1>4, <2>1, <2>3 DEF Messages
  <2>6. m.kind = "part" /\ m.body.hdr = h /\ m.body.paint = Piece(paint, i) /\ m.body.sound = TRUE /\ Index(m) = i
    BY DEF Index
  <2> HIDE DEF m, M
  <2>7. MessageOK(m)
    BY <1>2, <1>3, <1>4, <2>1, <2>2, <2>6 DEF MessageOK
  <2>8. PlanMessage(m, h, k, paint)
    BY <1>2, <2>1, <2>2, <2>5, <2>6, <2>7 DEF PlanMessage
  <2> QED BY <1>2, <2>1, <2>2, <2>4, <2>6, <2>8
<1> HIDE DEF M
<1>7. \A k \in 1 .. n : M(k) \in Messages
  BY <1>6 DEF PlanMessage
<1>8. Plan(header, paint) \in [1 .. n -> Messages]
  BY <1>5, <1>7
<1>9. Plan(header, paint) \in Seq(Messages) /\ Len(Plan(header, paint)) = n
  BY <1>2, <1>8, SeqDef, LenProperties
<1>10. \A k \in 1 .. n : Plan(header, paint)[k] = M(k)
  BY <1>5
<1>11. ASSUME NEW k \in 1 .. n
       PROVE  /\ PlanMessage(Plan(header, paint)[k], h, k, paint)
              /\ FirstParts(S, k - 1) \cap DOMAIN Plan(header, paint)[k].body.paint = {}
              /\ FirstParts(S, k) = FirstParts(S, k - 1) \cup DOMAIN Plan(header, paint)[k].body.paint
  <2>1. Plan(header, paint)[k] = M(k)
    BY <1>10
  <2> QED BY <1>6, <2>1
<1> QED BY <1>2, <1>4, <1>9, <1>11

\* Both kinds of plan at once: done says what is painted after each message.
Layers(plan, h, n, paint, done) ==
    /\ done[0] = {} /\ done[n] = DOMAIN paint
    /\ \A k \in 1 .. n :
          LET area == DOMAIN plan[k].body.paint
          IN  /\ PlanMessage(plan[k], h, k, paint)
              /\ done[k - 1] \cap area = {} /\ done[k] = done[k - 1] \cup area
              /\ done[k - 1] \subseteq DOMAIN paint /\ done[k] \subseteq DOMAIN paint

LEMMA PlanOf ==
    ASSUME NEW header \in FB!Header, header.count = 1, NEW paint \in Paints, DOMAIN paint # {}, ~Unsplittable(paint),
           NEW n, n = Parts(paint), NEW h, h = [header EXCEPT !.count = n], NEW plan, plan = Plan(header, paint)
    PROVE  /\ n \in Nat \ {0} /\ h \in FB!Header
           /\ h.count = n /\ h.gen = header.gen /\ h.seq = header.seq /\ h.base = header.base /\ h.key = header.key
           /\ plan \in Seq(Messages) /\ Len(plan) = n
           /\ \E done : Layers(plan, h, n, paint, done)
<1>0. h.gen = header.gen /\ h.seq = header.seq /\ h.base = header.base /\ h.key = header.key /\ h.count = n
  BY DEF FB!Header
<1> DEFINE S == DOMAIN paint
<1>1. CASE Fits(paint)
  <2>1. n = 1 /\ h = header
    BY <1>1 DEF Parts, FB!Header
  <2>2. plan \in Seq(Messages) /\ Len(plan) = 1 /\ PlanMessage(plan[1], header, 1, paint) /\ DOMAIN plan[1].body.paint = S
    BY <1>1, PlanUnsplit
  <2> DEFINE done == [k \in Nat |-> IF k = 0 THEN {} ELSE S]
  <2>3. done[0] = {} /\ done[1] = S /\ 1 - 1 = 0
    OBVIOUS
  <2>4. ASSUME NEW k \in 1 .. 1
        PROVE  /\ PlanMessage(plan[k], h, k, paint)
               /\ done[k - 1] \cap DOMAIN plan[k].body.paint = {}
               /\ done[k] = done[k - 1] \cup DOMAIN plan[k].body.paint
               /\ done[k - 1] \subseteq S /\ done[k] \subseteq S
    <3>1. k = 1
      OBVIOUS
    <3> HIDE DEF done
    <3> QED BY <2>1, <2>2, <2>3, <3>1
  <2> HIDE DEF done
  <2>5. Layers(plan, h, n, paint, done)
    BY <2>1, <2>3, <2>4 DEF Layers
  <2> QED BY <1>0, <2>1, <2>2, <2>5
<1>2. CASE ~Fits(paint)
  <2>1. n = PartsNeeded(paint)
    BY <1>2 DEF Parts
  <2>2. /\ n \in Nat \ {0} /\ h \in FB!Header
        /\ plan \in Seq(Messages) /\ Len(plan) = n
        /\ FirstParts(S, 0) = {} /\ FirstParts(S, n) = S
        /\ \A k \in 1 .. n : /\ PlanMessage(plan[k], h, k, paint)
                             /\ FirstParts(S, k - 1) \cap DOMAIN plan[k].body.paint = {}
                             /\ FirstParts(S, k) = FirstParts(S, k - 1) \cup DOMAIN plan[k].body.paint
    BY <1>2, <2>1, PlanSplit
  <2> DEFINE done == [k \in Nat |-> FirstParts(S, k)]
  <2>3. \A k \in Nat : done[k] = FirstParts(S, k)
    OBVIOUS
  <2> HIDE DEF done
  <2>4. ASSUME NEW k \in 1 .. n
        PROVE  /\ PlanMessage(plan[k], h, k, paint)
               /\ done[k - 1] \cap DOMAIN plan[k].body.paint = {}
               /\ done[k] = done[k - 1] \cup DOMAIN plan[k].body.paint
               /\ done[k - 1] \subseteq S /\ done[k] \subseteq S
    <3>1. k \in Nat /\ k - 1 \in Nat
      BY <2>2
    <3>2. DOMAIN plan[k].body.paint \subseteq S
      BY <2>2 DEF PlanMessage
    <3>3. \A i \in Nat : FirstParts(S, i) \subseteq S
      <4>1. IsFiniteSet(S)
        <5>1. S \in SUBSET Cells
          BY DEF Paints
        <5> QED BY <5>1, FS_Subset
      <4>2. SetToSeq(S) \in [1 .. Cardinality(S) -> S]
        BY <4>1, ListOf
      <4> QED BY ZenonT(40), <4>2 DEF FirstParts
    <3>4. done[k] = FirstParts(S, k) /\ done[k - 1] = FirstParts(S, k - 1)
      BY <2>3, <3>1
    <3>5. done[k - 1] \subseteq S /\ done[k] \subseteq S
      BY <3>1, <3>3, <3>4
    <3>6. /\ PlanMessage(plan[k], h, k, paint)
          /\ FirstParts(S, k - 1) \cap DOMAIN plan[k].body.paint = {}
          /\ FirstParts(S, k) = FirstParts(S, k - 1) \cup DOMAIN plan[k].body.paint
      BY <2>2
    <3> QED BY <3>4, <3>5, <3>6
  <2>5. done[0] = {} /\ done[n] = S
    BY <2>2, <2>3
  <2>6. Layers(plan, h, n, paint, done)
    BY <2>4, <2>5 DEF Layers
  <2> QED BY <1>0, <2>2, <2>6
<1> QED BY <1>1, <1>2

\* The rectangles of a frame: those that changed, or all.
LEMMA DamageOf ==
    ASSUME NEW image \in Images, NEW force \in BOOLEAN, previous \in ImageOrNone, ~Unchanged(image, force)
    PROVE  LET paint == Damage(image, force)
           IN  /\ DOMAIN image \in Geometries /\ DOMAIN image \in SUBSET Cells
               /\ paint \in Paints /\ DOMAIN paint # {} /\ DOMAIN paint \subseteq DOMAIN image
               /\ \A c \in DOMAIN paint : paint[c] = image[c]
               /\ Keyframe(image, force) => DOMAIN paint = DOMAIN image
               /\ ~Keyframe(image, force) =>
                     /\ ~GeometryChanged(image)
                     /\ Injective => \A c \in DOMAIN image \ DOMAIN paint : image[c] = previous[c]
<1> DEFINE paint == Damage(image, force)
           key == Keyframe(image, force)
           area == IF key THEN DOMAIN image ELSE Dirty(image)
<1>1. DOMAIN image \in Geometries /\ DOMAIN image # {} /\ DOMAIN image \in SUBSET Cells /\ \A c \in DOMAIN image : image[c] \in Colors
  BY DEF Images
<1>2. paint = [c \in area |-> image[c]]
  BY DEF Damage
<1>3. area \subseteq DOMAIN image /\ area # {}
  BY <1>1 DEF Dirty, Unchanged, Keyframe
<1>4. paint \in Paints
  <2>1. paint \in [area -> Colors] /\ area \in SUBSET Cells
    BY <1>1, <1>2, <1>3
  <2> QED BY <2>1 DEF Paints
<1>5. ~key => ~GeometryChanged(image)
  BY DEF Keyframe
<1>6. ASSUME ~key, Injective, NEW c \in DOMAIN image, c \notin area  PROVE image[c] = previous[c]
  <2>1. previous \in Images /\ DOMAIN previous = DOMAIN image
    BY <1>5, <1>6 DEF GeometryChanged, ImageOrNone
  <2>2. image[c] \in Colors /\ previous[c] \in Colors
    BY <1>1, <2>1 DEF Images
  <2>3. Hash[image[c]] = Hash[previous[c]]
    BY <1>6 DEF Dirty
  <2> QED BY <1>6, <2>2, <2>3 DEF Injective
<1>7. DOMAIN paint = area /\ \A c \in area : paint[c] = image[c]
  BY <1>2
<1> HIDE DEF paint
<1>8. key => DOMAIN paint = DOMAIN image
  BY <1>7
<1>9. ~key /\ Injective => \A c \in DOMAIN image \ DOMAIN paint : image[c] = previous[c]
  BY <1>6, <1>7
<1> QED BY <1>1, <1>3, <1>4, <1>5, <1>7, <1>8, <1>9 DEF paint

\* The header of a frame: a keyframe has no base, a delta has the frame before.
HeaderOf(image, force) ==
    [gen |-> NextGeneration(image), seq |-> detSequence + 1,
     base |-> Base(image, force), key |-> Keyframe(image, force), count |-> 1]

LEMMA HeaderIs ==
    ASSUME IInv, Live, NEW image \in Images, NEW force \in BOOLEAN
    PROVE  LET h == HeaderOf(image, force)
           IN  /\ h \in FB!Header /\ h.count = 1 /\ h.seq = detSequence + 1 /\ h.gen = NextGeneration(image)
               /\ h.key <=> Keyframe(image, force)
               /\ ~h.key => h.base = detSequence
<1>1. detGeneration \in Nat /\ detSequence \in Nat
  BY DEF IInv, TypeOK
<1>2. previous # None => detGeneration # 0 /\ detSequence # 0
  BY DEF IInv, Announced
<1>3. PICK g \in Nat \ {0} : g = NextGeneration(image)
  BY <1>1, <1>2 DEF NextGeneration, GeometryChanged
<1>4. PICK q \in Nat \ {0} : q = detSequence + 1
  BY <1>1
<1>5. PICK key \in BOOLEAN : key = Keyframe(image, force)
  BY DEF Keyframe, GeometryChanged, TooDirty
<1>6. ~key => previous # None
  BY <1>5 DEF Keyframe, GeometryChanged
<1>7. PICK b \in Nat : b = Base(image, force) /\ (key <=> b = 0) /\ b < q /\ (~key => b = detSequence)
  BY <1>1, <1>2, <1>4, <1>5, <1>6 DEF Base
<1> DEFINE h == [gen |-> g, seq |-> q, base |-> b, key |-> key, count |-> 1]
<1>8. HeaderOf(image, force) = h
  BY <1>3, <1>4, <1>5, <1>7 DEF HeaderOf
<1>9. h \in FB!Header
  BY <1>7 DEF FB!Header
<1> QED BY <1>3, <1>4, <1>5, <1>7, <1>8, <1>9

\* W leads over the k messages of out, the last of which alone closes a frame.
Leads(W, out, k) ==
    /\ \A j \in Nat : StageOK(W[j])
    /\ \A j \in 1 .. k : /\ Takes(W[j - 1], out[j], W[j])
                         /\ Injective => Targets(W[j - 1], out[j], W[j])
                         /\ Closes(out[j]) => j = k
                         /\ j < k => W[j].count = W[0].count

\* The stage after the frame that shows image.
Arrives(v, image, count, gen, seq) ==
    /\ v.count = count + 1 /\ v.image = image /\ v.area = DOMAIN image /\ ~v.need /\ ~v.staged
    /\ v.gen = gen /\ v.seq = seq

\* The stages of the client over the messages of one frame, from the stage B it
\* is at when it has the frame's generation.
LEMMA FrameStages ==
    ASSUME NEW B, StageOK(B), ~B.staged, NEW image, DOMAIN image = B.area,
           NEW header \in FB!Header, header.count = 1, header.gen = B.gen, Carries(B, header),
           NEW paint \in Paints, DOMAIN paint # {}, DOMAIN paint \subseteq DOMAIN image,
           \A c \in DOMAIN paint : paint[c] = image[c],
           Cardinality(DOMAIN paint) <= MaxRectangles, ~Unsplittable(paint),
           header.key => DOMAIN paint = DOMAIN image,
           Injective /\ ~header.key => \A c \in DOMAIN image \ DOMAIN paint : image[c] = B.image[c],
           NEW plan, plan = Plan(header, paint), NEW n, n = Parts(paint)
    PROVE  /\ n \in Nat \ {0} /\ plan \in Seq(Messages) /\ Len(plan) = n
           /\ \A k \in 1 .. n : MessageOK(plan[k]) /\ plan[k].kind # "config" /\ plan[k].body.hdr.key = header.key
           /\ \E P : P[0] = B /\ Leads(P, plan, n) /\ Arrives(P[n], image, B.count, B.gen, header.seq)
<1> DEFINE S == DOMAIN paint
<1>0. PICK h : h = [header EXCEPT !.count = n]
  OBVIOUS
<1>1. /\ n \in Nat \ {0} /\ h \in FB!Header
      /\ h.count = n /\ h.gen = header.gen /\ h.seq = header.seq /\ h.base = header.base /\ h.key = header.key
      /\ plan \in Seq(Messages) /\ Len(plan) = n
      /\ \E done : Layers(plan, h, n, paint, done)
  BY <1>0, PlanOf
<1>2. PICK done : /\ done[0] = {} /\ done[n] = S
                  /\ \A k \in 1 .. n :
                        LET area == DOMAIN plan[k].body.paint
                        IN  /\ PlanMessage(plan[k], h, k, paint)
                            /\ done[k - 1] \cap area = {} /\ done[k] = done[k - 1] \cup area
                            /\ done[k - 1] \subseteq S /\ done[k] \subseteq S
  BY <1>1 DEF Layers
<1>13. PICK count \in Nat, next \in Nat : count = B.count /\ next = B.count + 1
  BY DEF StageOK
<1>14. PICK seq \in Nat, last \in Nat : seq = B.seq /\ last = h.seq
  <2>1. B.seq \in Nat /\ h.seq \in Nat
    BY <1>1, HeaderFields DEF StageOK
  <2> QED BY <2>1
<1>15. PICK need \in BOOLEAN : need = B.need
  BY DEF StageOK
<1>3. count = B.count /\ seq = B.seq /\ need = B.need /\ last = h.seq /\ next = B.count + 1
  BY <1>13, <1>14, <1>15
<1> DEFINE middle(k) == [gen |-> B.gen, seq |-> seq, area |-> B.area, need |-> need, staged |-> TRUE, hdr |-> h,
                         next |-> k, painted |-> done[k], image |-> B.image, target |-> image, count |-> count]
           final == [gen |-> B.gen, seq |-> last, area |-> B.area, need |-> FALSE, staged |-> FALSE, hdr |-> None,
                     next |-> 0, painted |-> {}, image |-> image, target |-> image, count |-> next]
           P == [k \in Nat |-> IF k = 0 THEN B ELSE IF k < n THEN middle(k) ELSE final]
<1>4. P[0] = B /\ P[n] = final /\ (\A k \in Nat \ {0} : k < n => P[k] = middle(k)) /\ \A k \in Nat : ~(k < n) => P[k] = final
  BY <1>1
<1> HIDE DEF P
<1>5. StageOK(final)
  <2>1. /\ final.gen = B.gen /\ final.area = B.area /\ final.seq = last /\ final.need = FALSE /\ final.staged = FALSE
        /\ final.next = 0 /\ final.painted = {} /\ final.count = next
    OBVIOUS
  <2> HIDE DEF final
  <2>2. final.need \in BOOLEAN /\ final.staged \in BOOLEAN /\ ~final.staged
    BY <2>1
  <2>3. final.gen \in Nat /\ final.seq \in Nat /\ final.next \in Nat /\ final.count \in Nat
        /\ final.area \in SUBSET Cells /\ (final.gen # 0 => final.area \in Geometries)
    BY <2>1 DEF StageOK
  <2>4. final.painted \in SUBSET final.area
    BY <2>1
  <2> QED BY <2>1, <2>2, <2>3, <2>4 DEF StageOK
<1>6. ASSUME NEW k \in Nat \ {0}, k < n  PROVE StageOK(middle(k))
  <2>1. /\ middle(k).gen = B.gen /\ middle(k).area = B.area /\ middle(k).seq = seq /\ middle(k).need = need
        /\ middle(k).staged = TRUE /\ middle(k).hdr = h
        /\ middle(k).next = k /\ middle(k).painted = done[k] /\ middle(k).count = count
    OBVIOUS
  <2>2. done[k] \in SUBSET B.area
    <3>1. k \in 1 .. n
      BY <1>1, <1>6
    <3> QED BY <1>2, <3>1
  <2> HIDE DEF middle
  <2> QED BY <1>1, <1>3, <2>1, <2>2 DEF StageOK
<1>7. \A k \in Nat : StageOK(P[k])
  <2> TAKE k \in Nat
  <2>1. CASE k = 0
    BY <1>4, <2>1
  <2>2. CASE k # 0 /\ k < n
    <3>1. k \in Nat \ {0} /\ k < n
      BY <2>2
    <3>2. P[k] = middle(k) /\ StageOK(middle(k))
      BY <1>4, <1>6, <3>1
    <3> HIDE DEF middle
    <3> QED BY <3>2
  <2>3. CASE ~(k < n)
    <3>1. P[k] = final
      BY <1>4, <2>3
    <3> QED BY <1>5, <3>1
  <2> QED BY <2>1, <2>2, <2>3
<1>8. ASSUME NEW k \in 1 .. n
      PROVE  /\ Takes(P[k - 1], plan[k], P[k])
             /\ Injective => Targets(P[k - 1], plan[k], P[k])
             /\ Closes(plan[k]) => k = n
             /\ k < n => P[k].count = B.count
  <2> DEFINE m == plan[k]
             a == P[k - 1]
             b == P[k]
             area == DOMAIN plan[k].body.paint
  <2>1. PICK i \in Nat : i = k - 1 /\ i + 1 = k /\ k \in Nat \ {0} /\ i < n
    BY <1>1
  <2>2. /\ m \in Messages /\ m.kind \in {"frame", "part"} /\ m.kind # "config" /\ (m.kind = "frame" => h.count = 1)
        /\ m.body.hdr = h /\ Index(m) = i /\ m.body.sound
        /\ area \subseteq S /\ \A c \in area : m.body.paint[c] = paint[c]
    BY <1>2, <2>1 DEF PlanMessage
  <2>3. /\ done[i] \cap area = {} /\ done[k] = done[i] \cup area /\ done[i] \subseteq S
    BY <1>2, <2>1
  <2>4. Closes(m) <=> k = n
    BY <1>1, <2>1, <2>2 DEF Closes
  <2>5. /\ a.gen = B.gen /\ a.area = B.area /\ a.seq = B.seq /\ a.need = B.need /\ a.image = B.image /\ a.count = B.count
        /\ a.painted = done[i] /\ (a.staged <=> i # 0)
        /\ i # 0 => a.hdr = h /\ a.next = i /\ a.target = image
    <3>1. CASE i = 0
      <4>1. a = B /\ done[i] = {} /\ B.painted = {}
        BY <1>2, <1>4, <2>1, <3>1 DEF StageOK
      <4> QED BY <3>1, <4>1
    <3>2. CASE i # 0
      <4>1. a = middle(i)
        BY <1>4, <2>1, <3>2
      <4> QED BY <1>3, <3>2, <4>1
    <3> QED BY <3>1, <3>2
  <2>6. k # n => /\ b.staged /\ b.hdr = h /\ b.next = k /\ b.painted = done[k] /\ b.gen = B.gen /\ b.area = B.area
                 /\ b.seq = B.seq /\ b.need = B.need /\ b.image = B.image /\ b.target = image /\ b.count = B.count
    <3> SUFFICES ASSUME k # n PROVE /\ b.staged /\ b.hdr = h /\ b.next = k /\ b.painted = done[k] /\ b.gen = B.gen /\ b.area = B.area
                 /\ b.seq = B.seq /\ b.need = B.need /\ b.image = B.image /\ b.target = image /\ b.count = B.count
      OBVIOUS
    <3>1. b = middle(k)
      BY <1>1, <1>4, <2>1
    <3> QED BY <1>3, <3>1
  <2>7. k = n => /\ ~b.staged /\ ~b.need /\ b.seq = h.seq /\ b.gen = B.gen /\ b.area = B.area
                 /\ b.image = image /\ b.target = image /\ b.count = B.count + 1
    <3> SUFFICES ASSUME k = n PROVE /\ ~b.staged /\ ~b.need /\ b.seq = h.seq /\ b.gen = B.gen /\ b.area = B.area
                 /\ b.image = image /\ b.target = image /\ b.count = B.count + 1
      OBVIOUS
    <3>1. b = final
      BY <1>4
    <3> QED BY <1>3, <3>1
  <2>8. Cardinality(a.painted) + Cardinality(area) <= MaxRectangles
    <3>1. S \in SUBSET Cells
      BY DEF Paints
    <3>2. IsFiniteSet(S) /\ IsFiniteSet(done[i]) /\ IsFiniteSet(area) /\ done[i] \cup area \subseteq S
      BY <2>2, <2>3, <3>1, FS_Subset
    <3>3. Cardinality(done[i] \cup area) = Cardinality(done[i]) + Cardinality(area)
      <4>1. Cardinality(done[i] \cup area) = Cardinality(done[i]) + Cardinality(area) - Cardinality(done[i] \cap area)
        BY <3>2, FS_Union
      <4>2. Cardinality(done[i] \cap area) = 0
        BY <2>3, FS_EmptySet
      <4>3. Cardinality(done[i]) \in Nat /\ Cardinality(area) \in Nat
        BY <3>2, FS_CardinalityType
      <4> QED BY <4>1, <4>2, <4>3
    <3>4. Cardinality(done[i] \cup area) <= Cardinality(S)
      BY <3>2, FS_Subset
    <3>5. Cardinality(S) \in Nat /\ Cardinality(done[i] \cup area) \in Nat
      BY <3>2, FS_CardinalityType, FS_Subset
    <3> QED BY <2>5, <3>3, <3>4, <3>5
  <2>9. a.staged => m.kind = "part"
    BY <1>1, <2>1, <2>2, <2>5
  <2>10. Carries(a, h)
    BY <1>1, <2>5 DEF Carries
  <2>11. h.key /\ k = n => done[i] \cup area = B.area
    BY <1>1, <1>2, <2>3
  <2>12. i < h.count /\ i + 1 = k /\ h.gen = B.gen /\ area \subseteq B.area
    BY <1>1, <2>1, <2>2
  <2>13. Injective /\ ~h.key /\ k = n => \A c \in B.area \ (done[i] \cup area) : image[c] = B.image[c]
    BY <1>1, <1>2, <2>3
  <2> HIDE DEF m, a, b, area
  <2>14. TakesPixels(a, m, b)
    <3>1. /\ m.body.hdr = h /\ h.gen = a.gen /\ m.body.sound /\ area \subseteq a.area
          /\ (m.kind = "frame" => h.count = 1) /\ Cardinality(a.painted) + Cardinality(area) <= MaxRectangles
          /\ area \cap a.painted = {} /\ Index(m) < h.count /\ b.gen = a.gen /\ b.area = a.area
      BY <2>2, <2>3, <2>5, <2>6, <2>7, <2>8, <2>12
    <3>2. a.staged => m.kind = "part" /\ h = a.hdr /\ Index(m) = a.next
      BY <2>2, <2>5, <2>9
    <3>3. ~a.staged => Index(m) = 0 /\ Carries(a, h)
      BY <2>2, <2>5, <2>10
    <3>4. ~Closes(m) => /\ b.staged /\ b.hdr = h /\ b.next = Index(m) + 1 /\ b.painted = a.painted \cup area
                        /\ b.seq = a.seq /\ b.need = a.need /\ b.count = a.count
      BY <2>2, <2>3, <2>4, <2>5, <2>6, <2>12
    <3>5. Closes(m) => /\ h.key => a.painted \cup area = a.area
                       /\ ~b.staged /\ b.seq = h.seq /\ ~b.need /\ b.count = a.count + 1
      BY <2>4, <2>5, <2>7, <2>11
    <3> QED BY <3>1, <3>2, <3>3, <3>4, <3>5 DEF TakesPixels, area, m
  <2>15. Injective => Targets(a, m, b)
    BY <2>2, <2>3, <2>4, <2>5, <2>6, <2>7, <2>13 DEF Targets, area, m
  <2> QED BY <1>1, <2>2, <2>4, <2>6, <2>14, <2>15 DEF Takes, m, a, b
<1>9. /\ P[n].gen = B.gen /\ P[n].area = B.area /\ P[n].seq = header.seq
      /\ ~P[n].need /\ ~P[n].staged /\ P[n].image = image /\ P[n].count = B.count + 1
  BY <1>1, <1>3, <1>4
<1>10. \A k \in 1 .. n : MessageOK(plan[k]) /\ plan[k].kind # "config" /\ plan[k].body.hdr.key = header.key
  BY <1>1, <1>2 DEF PlanMessage
<1>11. P[0] = B
  BY <1>4
<1> HIDE DEF final, middle
<1>12. Leads(P, plan, n)
  BY <1>7, <1>8, <1>11 DEF Leads
<1>16. Arrives(P[n], image, B.count, B.gen, header.seq)
  BY <1>9 DEF Arrives
<1> QED BY <1>1, <1>10, <1>11, <1>12, <1>16

\* The order of the counts is transitive.
LEMMA Counting ==
    \A a, b, c \in Nat : a <= b /\ b <= c => a <= c
OBVIOUS

\* A run of the client goes on over the messages of a new frame.
LEMMA RunExtended ==
    ASSUME IInv, NEW T, Runs(T), Live, Live', outbox = <<>>, UNCHANGED <<wire, fbVars>>,
           NEW image \in Images, unshown' = Append(unshown, image), previous' = image,
           outbox' \in Seq(Messages), NEW k \in Nat \ {0}, Len(outbox') = k,
           NEW W, NEW out, out = outbox', W[0] = T[Count], Leads(W, out, k),
           Arrives(W[k], image, W[0].count, detGeneration', detSequence')
    PROVE  \E U : Runs(U)'
<1>1. PICK L \in Nat, N \in Nat : L = Len(wire) /\ N = Len(unshown)
  BY Lengths DEF IInv
<1>2. Count = L /\ Count' = L + k
  <2>1. Len(outbox) = 0
    BY EmptySeq
  <2> QED BY <1>1, <2>1 DEF Count
<1>3. /\ Len(unshown') = N + 1 /\ unshown'[N + 1] = image /\ \A i \in 1 .. N : unshown'[i] = unshown[i]
  BY <1>1, AppendProperties DEF IInv, Lists
<1> DEFINE U == [i \in Nat |-> IF i <= L THEN T[i] ELSE W[i - L]]
<1>4. /\ \A i \in 0 .. L : U[i] = T[i]
      /\ \A j \in 1 .. k : U[L + j] = W[j]
  BY <1>1
<1>5. \A i \in Nat : StageOK(U[i])
  <2> TAKE i \in Nat
  <2>1. CASE i <= L
    BY <2>1 DEF Runs
  <2>2. CASE ~(i <= L)
    <3>1. i - L \in Nat
      BY <2>2
    <3> QED BY <2>2, <3>1 DEF Leads
  <2> QED BY <2>1, <2>2
<1> HIDE DEF U
<1>6. \A i \in 1 .. L : /\ Coming(i)' = Coming(i) /\ i \in 1 .. Count /\ U[i] = T[i] /\ U[i - 1] = T[i - 1]
  <2> TAKE i \in 1 .. L
  <2>1. i <= Len(wire) /\ i \in 0 .. L /\ i - 1 \in 0 .. L /\ wire' = wire
    BY <1>1
  <2> QED BY <1>2, <1>4, <2>1 DEF Coming
<1>7. ASSUME NEW i \in 1 .. L + k, ~(i <= L)
      PROVE  \E j \in 1 .. k : /\ i = L + j /\ U[i] = W[j] /\ U[i - 1] = W[j - 1] /\ Coming(i)' = out[j]
  <2>1. PICK j \in 1 .. k : i = L + j /\ i - L = j /\ i - 1 = L + (j - 1)
    <3>1. i - L \in 1 .. k /\ i = L + (i - L) /\ i - 1 = L + ((i - L) - 1)
      BY <1>7
    <3> QED BY <3>1
  <2>2. Coming(i)' = out[j]
    <3>1. ~(i <= Len(wire')) /\ i - Len(wire') = j
      BY <1>1, <1>7, <2>1
    <3> QED BY <3>1 DEF Coming
  <2>3. U[i - 1] = W[j - 1]
    <3>1. CASE j = 1
      <4>1. i - 1 = L /\ j - 1 = 0 /\ L \in 0 .. L
        BY <2>1, <3>1
      <4> QED BY <1>2, <1>4, <4>1
    <3>2. CASE j # 1
      <4>1. j - 1 \in 1 .. k
        BY <3>2
      <4> QED BY <1>4, <2>1, <4>1
    <3> QED BY <3>1, <3>2
  <2> QED BY <1>4, <2>1, <2>2, <2>3
<1>8. U[0] = T[0] /\ U[L + k] = W[k]
  BY <1>4
<1>9. ClientAt(U[0])'
  BY <1>8 DEF Runs, ClientAt, Assembled, fbVars
<1>10. \A i \in 1 .. L + k : Takes(U[i - 1], Coming(i)', U[i])
  <2> TAKE i \in 1 .. L + k
  <2>1. CASE i <= L
    <3>1. i \in 1 .. L
      BY <2>1
    <3> QED BY <1>6, <3>1 DEF Runs, Follows
  <2>2. CASE ~(i <= L)
    <3>1. PICK j \in 1 .. k : U[i] = W[j] /\ U[i - 1] = W[j - 1] /\ Coming(i)' = out[j]
      BY <1>7, <2>2
    <3>2. Takes(W[j - 1], out[j], W[j])
      BY DEF Leads
    <3> QED BY <3>1, <3>2
  <2> QED BY <2>1, <2>2
<1>11. Follows(U)'
  BY <1>2, <1>10 DEF Follows, Takes, TakesConfig, TakesPixels, Carries, Closes, Index
<1>12. Injective => \A i \in 1 .. L + k : Targets(U[i - 1], Coming(i)', U[i])
  <2> SUFFICES ASSUME Injective, NEW i \in 1 .. L + k  PROVE Targets(U[i - 1], Coming(i)', U[i])
    OBVIOUS
  <2>1. CASE i <= L
    <3>1. i \in 1 .. L
      BY <2>1
    <3> QED BY <1>6, <3>1 DEF Runs, Paint
  <2>2. CASE ~(i <= L)
    <3>1. PICK j \in 1 .. k : U[i] = W[j] /\ U[i - 1] = W[j - 1] /\ Coming(i)' = out[j]
      BY <1>7, <2>2
    <3>2. Targets(W[j - 1], out[j], W[j])
      BY DEF Leads
    <3> QED BY <3>1, <3>2
  <2> QED BY <2>1, <2>2
<1>13. Paint(U)'
  BY <1>2, <1>8, <1>12 DEF Runs, Paint, PixelsAt, Targets, Closes, Index, fbVars
<1>23. PICK t0 \in Nat : t0 = T[0].count
  BY DEF Runs, StageOK
<1>24. PICK s \in Nat : s = t0 + N /\ s + 1 = t0 + (N + 1) /\ (s + 1) - t0 = N + 1
  <2>1. /\ t0 + N \in Nat /\ (t0 + N) + 1 = t0 + (N + 1) /\ ((t0 + N) + 1) - t0 = N + 1
    OBVIOUS
  <2> QED BY <2>1
<1>14. t0 = T[0].count /\ s = T[L].count /\ s = t0 + N
  <2>1. T[L].count = T[0].count + N
    BY <1>1, <1>2 DEF Runs, Ends, Settled
  <2> QED BY <1>23, <1>24, <2>1
<1>15. W[0].count = s /\ W[k].count = s + 1
  BY <1>2, <1>14 DEF Arrives
<1>16. \A i \in 0 .. L : U[i].count \in Nat /\ U[i].count <= s
  <2> TAKE i \in 0 .. L
  <2>1. i \in Nat /\ i \in 0 .. Count /\ L \in 0 .. Count /\ i <= L
    BY <1>2
  <2>2. T[i].count \in Nat
    BY <2>1 DEF Runs, StageOK
  <2>3. T[i].count <= T[L].count
    BY <2>1 DEF Runs, Commits
  <2> QED BY <1>4, <1>14, <2>2, <2>3
<1>17. \A i \in 1 .. L + k : ~(i <= L) => IF i = L + k THEN U[i].count = s + 1 ELSE U[i].count = s
  <2> SUFFICES ASSUME NEW i \in 1 .. L + k, ~(i <= L)  PROVE IF i = L + k THEN U[i].count = s + 1 ELSE U[i].count = s
    OBVIOUS
  <2>1. CASE i = L + k
    BY <1>8, <1>15, <2>1
  <2>2. CASE i # L + k
    <3>1. PICK j \in 1 .. k : i = L + j /\ U[i] = W[j]
      BY <1>7
    <3>2. j < k
      BY <2>2, <3>1
    <3>3. W[j].count = W[0].count
      BY <3>2 DEF Leads
    <3> QED BY <1>15, <2>2, <3>1, <3>3
  <2> QED BY <2>1, <2>2
<1>18. \A i, j \in 0 .. L + k : i <= j => U[i].count <= U[j].count
  <2> SUFFICES ASSUME NEW i \in 0 .. L + k, NEW j \in 0 .. L + k, i <= j  PROVE U[i].count <= U[j].count
    OBVIOUS
  <2>1. CASE j <= L
    <3>1. i \in 0 .. Count /\ j \in 0 .. Count /\ i \in 0 .. L /\ j \in 0 .. L
      BY <1>2, <2>1
    <3> QED BY <1>4, <3>1 DEF Runs, Commits
  <2>2. CASE ~(j <= L) /\ i <= L
    <3>1. j \in 1 .. L + k /\ i \in 0 .. L
      BY <2>2
    <3>2. PICK v \in Nat : v = U[j].count /\ s <= v
      <4>1. U[j].count = s \/ U[j].count = s + 1
        BY <1>17, <2>2, <3>1
      <4>2. s \in Nat /\ s + 1 \in Nat /\ s <= s /\ s <= s + 1
        OBVIOUS
      <4> QED BY <4>1, <4>2
    <3>3. PICK u \in Nat : u = U[i].count /\ u <= s
      BY <1>16, <3>1
    <3>4. u <= v
      BY <3>2, <3>3, Counting, Zenon
    <3> QED BY <3>2, <3>3, <3>4
  <2>3. CASE ~(i <= L)
    <3>1. i \in 1 .. L + k /\ j \in 1 .. L + k /\ ~(j <= L) /\ (i = L + k => j = L + k)
      BY <2>3
    <3>2. s \in Nat /\ s + 1 \in Nat /\ s <= s /\ s + 1 <= s + 1 /\ s <= s + 1
      OBVIOUS
    <3>3. CASE i = L + k
      <4>1. U[i].count = s + 1 /\ U[j].count = s + 1
        BY <1>17, <2>3, <3>1, <3>3
      <4> QED BY <3>2, <4>1
    <3>4. CASE i # L + k
      <4>1. U[i].count = s
        BY <1>17, <2>3, <3>1, <3>4
      <4>2. U[j].count = s \/ U[j].count = s + 1
        BY <1>17, <3>1
      <4> QED BY <3>2, <4>1, <4>2
    <3> QED BY <3>3, <3>4
  <2> QED BY <2>1, <2>2, <2>3
<1>19. ASSUME NEW i \in 1 .. L + k, Closes(Coming(i)')
       PROVE  /\ U[i].count - U[0].count \in 1 .. Len(unshown')
              /\ unshown'[U[i].count - U[0].count] = U[i].image
  <2>1. CASE i <= L
    <3>1. i \in 1 .. L /\ i \in Nat
      BY <2>1
    <3>2. Closes(Coming(i)) /\ U[i] = T[i]
      BY <1>6, <1>19, <3>1 DEF Closes, Index
    <3>3. PICK d \in 1 .. N : d = T[i].count - T[0].count /\ unshown[d] = T[i].image
      BY <1>1, <1>6, <3>1, <3>2 DEF Runs, Commits
    <3>4. U[i].count - U[0].count = d
      BY <1>8, <3>2, <3>3
    <3>5. d \in 1 .. N + 1 /\ unshown'[d] = unshown[d]
      BY SMTT(30), <1>3
    <3> QED BY <1>3, <3>2, <3>3, <3>4, <3>5
  <2>2. CASE ~(i <= L)
    <3>1. PICK j \in 1 .. k : i = L + j /\ U[i] = W[j] /\ Coming(i)' = out[j]
      BY <1>7, <2>2
    <3>2. j = k
      BY <1>19, <3>1 DEF Closes, Index, Leads
    <3>3. U[i].count = s + 1 /\ U[0].count = t0 /\ U[i].image = image
      BY <1>8, <1>14, <1>15, <3>1, <3>2 DEF Arrives
    <3>4. (s + 1) - t0 = N + 1 /\ N + 1 \in 1 .. N + 1
      <4>1. (s + 1) - t0 = N + 1
        BY <1>24
      <4> QED BY <4>1
    <3>5. U[i].count - U[0].count = N + 1
      BY <3>3, <3>4
    <3> QED BY <1>3, <3>3, <3>4, <3>5
  <2> QED BY <2>1, <2>2
<1>20. Commits(U)'
  BY <1>2, <1>18, <1>19 DEF Commits, Closes, Index
<1>21. Ends(U)'
  <2>1. W[k].count = T[0].count + Len(unshown')
    <3>1. s + 1 = t0 + (N + 1)
      BY <1>24
    <3>2. T[0].count + Len(unshown') = t0 + (N + 1)
      BY <1>3, <1>14
    <3> QED BY <1>15, <3>1, <3>2
  <2>2. previous' # None
    BY NoneAssumption
  <2>3. U[Count'] = W[k] /\ U[0].count = T[0].count
    BY <1>2, <1>8
  <2>4. Settled(W[k], T[0].count)'
    BY <2>1, <2>2 DEF Settled, Arrives
  <2> QED BY <2>3, <2>4 DEF Ends
<1>22. Runs(U)'
  BY <1>5, <1>9, <1>11, <1>13, <1>20, <1>21 DEF Runs
<1> QED BY <1>22

\* Everything about a frame that the two cases of Publish need.
LEMMA FrameIs ==
    ASSUME IInv, Live, outbox = <<>>, NEW image \in Images, NEW force \in BOOLEAN, Publish(image, force),
           NEW B, StageOK(B), ~B.staged, B.area = DOMAIN image, B.gen = NextGeneration(image),
           IF GeometryChanged(image) THEN B.seq = 0 ELSE B.seq = detSequence /\ ~B.need /\ B.image = previous,
           NEW plan, plan = Plan(HeaderOf(image, force), Damage(image, force)), NEW n, n = Parts(Damage(image, force))
    PROVE  /\ n \in Nat \ {0} /\ plan \in Seq(Messages) /\ Len(plan) = n
           /\ \A k \in 1 .. n : MessageOK(plan[k]) /\ plan[k].kind # "config"
           /\ Keyframe(image, force) => \A k \in 1 .. n : plan[k].body.hdr.key
           /\ \E P : P[0] = B /\ Leads(P, plan, n) /\ Arrives(P[n], image, B.count, NextGeneration(image), detSequence + 1)
<1>1. PICK paint : paint = Damage(image, force)
  OBVIOUS
<1>2. PICK header : header = HeaderOf(image, force)
  OBVIOUS
<1>3. PICK key \in BOOLEAN : key <=> Keyframe(image, force)
  OBVIOUS
<1>4. /\ paint \in Paints /\ DOMAIN paint # {} /\ DOMAIN paint \subseteq DOMAIN image
      /\ \A c \in DOMAIN paint : paint[c] = image[c]
      /\ key => DOMAIN paint = DOMAIN image
      /\ ~key => /\ ~GeometryChanged(image)
                 /\ Injective => \A c \in DOMAIN image \ DOMAIN paint : image[c] = previous[c]
  <2>1. previous \in ImageOrNone /\ ~Unchanged(image, force)
    BY DEF IInv, TypeOK, Publish
  <2> QED BY <1>1, <1>3, <2>1, DamageOf
<1>5. /\ header \in FB!Header /\ header.count = 1 /\ header.seq = detSequence + 1 /\ header.gen = B.gen
      /\ (header.key <=> key) /\ (~key => header.base = detSequence)
  BY <1>2, <1>3, HeaderIs
<1>6. Cardinality(DOMAIN paint) <= MaxRectangles /\ ~Unsplittable(paint)
  <2>1. ~(Cardinality(DOMAIN paint) > MaxRectangles) /\ ~Unsplittable(paint)
    BY <1>1 DEF Publish, RectLimit
  <2>2. Cardinality(DOMAIN paint) \in Nat
    <3>1. DOMAIN paint \in SUBSET Cells
      BY <1>4 DEF Paints
    <3> QED BY <3>1, FS_Subset, FS_CardinalityType
  <2> QED BY <2>1, <2>2
<1>7. detSequence \in Nat /\ B.seq \in Nat
  BY DEF IInv, TypeOK, StageOK
<1>8. Carries(B, header)
  <2>1. ~key => ~B.need /\ header.base = B.seq
    BY <1>4, <1>5
  <2>2. header.seq > B.seq
    <3>1. B.seq = 0 \/ B.seq = detSequence
      OBVIOUS
    <3>2. PICK d \in Nat : d = detSequence /\ d + 1 > d /\ d + 1 > 0
      BY <1>7
    <3> QED BY <1>5, <3>1, <3>2
  <2> QED BY <1>5, <2>1, <2>2 DEF Carries
<1>9. Injective /\ ~key => \A c \in DOMAIN image \ DOMAIN paint : image[c] = B.image[c]
  BY <1>4
<1>10. /\ n \in Nat \ {0} /\ plan \in Seq(Messages) /\ Len(plan) = n
       /\ \A k \in 1 .. n : MessageOK(plan[k]) /\ plan[k].kind # "config" /\ plan[k].body.hdr.key = header.key
       /\ \E P : P[0] = B /\ Leads(P, plan, n) /\ Arrives(P[n], image, B.count, B.gen, header.seq)
  BY <1>1, <1>2, <1>4, <1>5, <1>6, <1>8, <1>9, FrameStages
<1>11. Keyframe(image, force) => \A k \in 1 .. n : plan[k].body.hdr.key
  BY <1>3, <1>5, <1>10
<1> QED BY <1>5, <1>10, <1>11

\* A frame of the generation announced.
LEMMA PublishSame ==
    ASSUME IInv, Live, Live', outbox = <<>>, NEW image \in Images, NEW force \in BOOLEAN, Publish(image, force),
           ~GeometryChanged(image), UNCHANGED <<svcGeneration, wire, fbVars>>
    PROVE  /\ \E U : Runs(U)'
           /\ outbox' \in Seq(Messages) /\ \A i \in 1 .. Len(outbox') : MessageOK(outbox'[i])
           /\ \A i \in 1 .. Len(outbox') : outbox'[i].kind # "config"
           /\ Keyframe(image, force) =>
                 \E i \in 1 .. Len(outbox') : outbox'[i].kind # "config" /\ outbox'[i].body.hdr.key
<1>1. PICK T : Runs(T)
  BY DEF IInv
<1>2. PICK S : S = T[Count]
  OBVIOUS
<1>3. StageOK(S) /\ Settled(S, T[0].count)
  BY <1>1, <1>2, Lengths DEF IInv, Runs, Ends
<1>4. NextGeneration(image) = detGeneration /\ DOMAIN previous = DOMAIN image /\ previous # None
      /\ svcGeneration = detGeneration
  BY DEF NextGeneration, GeometryChanged, IInv, Announced
<1>5. PICK plan : plan = Plan(HeaderOf(image, force), Damage(image, force))
  OBVIOUS
<1>6. PICK n : n = Parts(Damage(image, force))
  OBVIOUS
<1>7. /\ ~S.staged /\ S.area = DOMAIN image /\ S.gen = NextGeneration(image)
      /\ S.seq = detSequence /\ ~S.need /\ S.image = previous
  BY <1>3, <1>4 DEF Settled
<1>8. /\ n \in Nat \ {0} /\ plan \in Seq(Messages) /\ Len(plan) = n
      /\ \A k \in 1 .. n : MessageOK(plan[k]) /\ plan[k].kind # "config"
      /\ Keyframe(image, force) => \A k \in 1 .. n : plan[k].body.hdr.key
      /\ \E P : P[0] = S /\ Leads(P, plan, n) /\ Arrives(P[n], image, S.count, NextGeneration(image), detSequence + 1)
  BY <1>3, <1>5, <1>6, <1>7, FrameIs
<1>9. PICK P : P[0] = S /\ Leads(P, plan, n) /\ Arrives(P[n], image, S.count, NextGeneration(image), detSequence + 1)
  BY <1>8
<1>10. outbox' = plan
  <2>1. outbox' = <<>> \o plan
    BY <1>4, <1>5 DEF Publish, Ordered, HeaderOf
  <2> QED BY <1>8, <2>1, ConcatEmptySeq
<1>11. unshown' = Append(unshown, image) /\ previous' = image /\ detGeneration' = NextGeneration(image)
       /\ detSequence' = detSequence + 1
  BY DEF Publish
<1>12. \E U : Runs(U)'
  BY <1>1, <1>2, <1>8, <1>9, <1>10, <1>11, RunExtended
<1>13. 1 \in 1 .. n
  BY <1>8
<1> QED BY <1>8, <1>10, <1>12, <1>13

\* The first frame of a generation: its DISPLAY_CONFIG goes ahead of it.
LEMMA PublishNew ==
    ASSUME IInv, Live, Live', outbox = <<>>, NEW image \in Images, NEW force \in BOOLEAN, Publish(image, force),
           GeometryChanged(image), UNCHANGED <<svcGeneration, wire, fbVars>>
    PROVE  /\ \E U : Runs(U)'
           /\ outbox' \in Seq(Messages) /\ \A i \in 1 .. Len(outbox') : MessageOK(outbox'[i])
           /\ outbox' # <<>> /\ outbox'[1].kind = "config" /\ outbox'[1].body.gen = detGeneration'
           /\ \A i \in 2 .. Len(outbox') : outbox'[i].kind # "config"
           /\ Keyframe(image, force) =>
                 \E i \in 1 .. Len(outbox') : outbox'[i].kind # "config" /\ outbox'[i].body.hdr.key
<1>1. PICK T : Runs(T)
  BY DEF IInv
<1>2. PICK S : S = T[Count]
  OBVIOUS
<1>3. StageOK(S) /\ Settled(S, T[0].count)
  BY <1>1, <1>2, Lengths DEF IInv, Runs, Ends
<1>4. PICK gen \in Nat \ {0} : gen = NextGeneration(image) /\ gen > detGeneration /\ gen # svcGeneration
  <2>1. detGeneration \in Nat /\ svcGeneration = detGeneration
    BY DEF IInv, TypeOK, Announced
  <2>2. PICK d \in Nat : d = detGeneration
    BY <2>1
  <2>3. d + 1 \in Nat \ {0} /\ d + 1 > d /\ d + 1 # d
    OBVIOUS
  <2> QED BY <2>1, <2>2, <2>3 DEF NextGeneration
<1>5. PICK plan : plan = Plan(HeaderOf(image, force), Damage(image, force))
  OBVIOUS
<1>6. PICK n : n = Parts(Damage(image, force))
  OBVIOUS
<1>7. PICK count \in Nat : count = S.count
  BY <1>3 DEF StageOK
<1>8. DOMAIN image \in Geometries /\ DOMAIN image \in SUBSET Cells
  BY DEF Images
<1> DEFINE c == [kind |-> "config", body |-> [gen |-> gen, area |-> DOMAIN image]]
           B == [gen |-> gen, seq |-> 0, area |-> DOMAIN image, need |-> TRUE, staged |-> FALSE, hdr |-> None,
                 next |-> 0, painted |-> {}, image |-> previous, target |-> previous, count |-> count]
<1>9. /\ B.gen = gen /\ B.seq = 0 /\ B.area = DOMAIN image /\ B.need = TRUE /\ B.staged = FALSE
      /\ B.next = 0 /\ B.painted = {} /\ B.count = count
  OBVIOUS
<1>10. c \in Messages /\ c.kind = "config" /\ c.body.gen = gen /\ c.body.area = DOMAIN image
  BY <1>8 DEF Messages
<1> HIDE DEF B, c
<1>11. StageOK(B)
  <2>1. B.need \in BOOLEAN /\ B.staged \in BOOLEAN /\ ~B.staged
    BY <1>9
  <2>2. /\ B.gen \in Nat /\ B.seq \in Nat /\ B.next \in Nat /\ B.count \in Nat /\ B.area \in SUBSET Cells
        /\ (B.gen # 0 => B.area \in Geometries)
    BY <1>8, <1>9
  <2>3. B.painted \in SUBSET B.area
    BY <1>9
  <2> QED BY <1>9, <2>1, <2>2, <2>3 DEF StageOK
<1>12. TakesConfig(S, c, B)
  BY <1>3, <1>4, <1>7, <1>9, <1>10 DEF TakesConfig, Settled
<1>13. /\ n \in Nat \ {0} /\ plan \in Seq(Messages) /\ Len(plan) = n
       /\ \A k \in 1 .. n : MessageOK(plan[k]) /\ plan[k].kind # "config"
       /\ Keyframe(image, force) => \A k \in 1 .. n : plan[k].body.hdr.key
       /\ \E P : P[0] = B /\ Leads(P, plan, n) /\ Arrives(P[n], image, B.count, NextGeneration(image), detSequence + 1)
  BY <1>4, <1>5, <1>6, <1>9, <1>11, FrameIs
<1>14. PICK P : P[0] = B /\ Leads(P, plan, n) /\ Arrives(P[n], image, B.count, NextGeneration(image), detSequence + 1)
  BY <1>13
<1>15. PICK out : out = outbox'
  OBVIOUS
<1>16. /\ out \in Seq(Messages) /\ Len(out) = n + 1 /\ out[1] = c
       /\ \A j \in 2 .. n + 1 : out[j] = plan[j - 1] /\ j - 1 \in 1 .. n
  <2>1. out = <<c>> \o plan
    BY <1>4, <1>5, <1>15 DEF Publish, Ordered, HeaderOf, c
  <2>2. <<c>> \in Seq(Messages) /\ Len(<<c>>) = 1 /\ <<c>>[1] = c
    BY <1>10
  <2>3. /\ out \in Seq(Messages) /\ Len(out) = 1 + n
        /\ \A j \in 1 .. 1 + n : out[j] = IF j <= 1 THEN <<c>>[j] ELSE plan[j - 1]
    BY <1>13, <2>1, <2>2, ConcatProperties
  <2>4. 1 + n = n + 1 /\ \A j \in 2 .. n + 1 : j \in 1 .. 1 + n /\ ~(j <= 1) /\ j - 1 \in 1 .. n
    BY <1>13
  <2>5. 1 \in 1 .. 1 + n /\ 1 <= 1
    BY <1>13
  <2> QED BY <2>2, <2>3, <2>4, <2>5
<1> DEFINE W == [j \in Nat |-> IF j = 0 THEN S ELSE P[j - 1]]
<1>17. W[0] = S /\ W[1] = B /\ \A j \in Nat \ {0} : W[j] = P[j - 1] /\ j - 1 \in Nat
  BY <1>14
<1> HIDE DEF W
<1>18. Leads(W, out, n + 1)
  <2>1. \A j \in Nat : StageOK(W[j])
    BY <1>3, <1>14, <1>17 DEF Leads
  <2>2. ASSUME NEW j \in 1 .. n + 1
        PROVE  /\ Takes(W[j - 1], out[j], W[j])
               /\ Injective => Targets(W[j - 1], out[j], W[j])
               /\ Closes(out[j]) => j = n + 1
               /\ j < n + 1 => W[j].count = W[0].count
    <3>1. CASE j = 1
      <4>1. W[j - 1] = S /\ out[j] = c /\ W[j] = B
        BY <1>16, <1>17, <3>1
      <4>2. Takes(S, c, B) /\ Targets(S, c, B) /\ ~Closes(c)
        BY <1>10, <1>12 DEF Takes, Targets, Closes
      <4>3. B.count = S.count
        BY <1>7, <1>9
      <4> QED BY <1>17, <4>1, <4>2, <4>3
    <3>2. CASE j # 1
      <4>1. PICK i \in 1 .. n : i = j - 1 /\ (j = n + 1 <=> i = n) /\ (j < n + 1 <=> i < n) /\ j \in Nat \ {0}
                                /\ i \in Nat \ {0} /\ j \in 2 .. n + 1
        <5>1. j - 1 \in 1 .. n /\ (j = n + 1 <=> j - 1 = n) /\ (j < n + 1 <=> j - 1 < n) /\ j \in Nat \ {0}
              /\ j - 1 \in Nat \ {0} /\ j \in 2 .. n + 1
          BY <1>13, <3>2
        <5> QED BY <5>1
      <4>2. W[j - 1] = P[i - 1] /\ W[j] = P[i] /\ out[j] = plan[i]
        BY <1>16, <1>17, <4>1
      <4>3. /\ Takes(P[i - 1], plan[i], P[i]) /\ (Injective => Targets(P[i - 1], plan[i], P[i]))
            /\ (Closes(plan[i]) => i = n) /\ (i < n => P[i].count = P[0].count)
        BY <1>14 DEF Leads
      <4>4. P[0].count = W[0].count
        BY <1>7, <1>9, <1>14, <1>17
      <4> QED BY <4>1, <4>2, <4>3, <4>4
    <3> QED BY <3>1, <3>2
  <2> QED BY <2>1, <2>2 DEF Leads
<1>19. Arrives(W[n + 1], image, W[0].count, NextGeneration(image), detSequence + 1)
  <2>1. n + 1 \in Nat \ {0} /\ (n + 1) - 1 = n
    BY <1>13
  <2>2. W[n + 1] = P[n] /\ W[0].count = B.count
    BY <1>7, <1>9, <1>17, <2>1
  <2> QED BY <1>14, <2>2
<1>20. unshown' = Append(unshown, image) /\ previous' = image /\ detGeneration' = NextGeneration(image)
       /\ detSequence' = detSequence + 1
  BY DEF Publish
<1>21. \E U : Runs(U)'
  <2>1. n + 1 \in Nat \ {0}
    BY <1>13
  <2> QED BY <1>1, <1>2, <1>15, <1>16, <1>17, <1>18, <1>19, <1>20, <2>1, RunExtended
<1>22. \A i \in 2 .. Len(out) : MessageOK(out[i]) /\ out[i].kind # "config"
  BY <1>13, <1>16
<1>23. MessageOK(out[1]) /\ out[1].kind = "config" /\ out[1].body.gen = detGeneration'
  BY <1>4, <1>8, <1>10, <1>16, <1>20 DEF MessageOK
<1>24. \A i \in 1 .. Len(out) : i = 1 \/ i \in 2 .. Len(out)
  BY <1>13, <1>16
<1>25. out # <<>>
  BY <1>13, <1>16, EmptySeq
<1>26. Keyframe(image, force) => 2 \in 1 .. Len(out) /\ out[2].kind # "config" /\ out[2].body.hdr.key
  <2>1. 2 \in 2 .. n + 1 /\ 2 \in 1 .. n + 1
    BY <1>13
  <2> QED BY <1>13, <1>16, <2>1
<1> QED BY <1>15, <1>16, <1>21, <1>22, <1>23, <1>24, <1>25, <1>26

LEMMA SendCaptureStep ==
    ASSUME IInv, Live, NEW image \in Images, NEW force \in BOOLEAN, SendCapture(image, force),
           UNCHANGED <<camera, held>>, slot' \in {slot, None}
    PROVE  /\ IInv' /\ presented' = presented /\ unshown' \in {unshown, Append(unshown, image)}
           /\ force => \/ phase' = "ended"
                       \/ \E i \in 1 .. Len(outbox') : outbox'[i].kind # "config" /\ outbox'[i].body.hdr.key
<1>1. /\ outbox = <<>> /\ keyframeRequested' = FALSE
      /\ UNCHANGED <<svcGeneration, desktop, changes, wire, requests, spurious, sessions, fbVars, presented>>
  BY DEF SendCapture, netVars
<1>2. Room' /\ Buffers' /\ result' \in {"none", "ok", "committed"} /\ Len(outbox) = 0 /\ Len(wire) \in Nat
  BY <1>1, EmptySeq, Lengths DEF IInv, Room, Buffers, fbVars
<1>3. /\ desktop' \in Images /\ camera' \in {"idle", "offer", "drain", "push"} /\ {held', slot'} \subseteq ImageOrNone
      /\ {svcGeneration', requests', spurious', sessions'} \subseteq Nat
      /\ keyframeRequested' \in BOOLEAN /\ (\A i \in 1 .. Len(wire) : MessageOK(wire[i]))'
      /\ presented' \in Images \cup {<<>>}
  BY <1>1 DEF IInv, TypeOK, ImageOrNone, MessageOK
<1>4. detGeneration \in Nat /\ detSequence \in Nat /\ NextGeneration(image) \in Nat /\ detSequence + 1 \in Nat
  BY SMTT(30) DEF IInv, TypeOK, NextGeneration
<1>5. CASE NothingToSend(image, force)
  <2>1. UNCHANGED <<phase, detVars, outbox, keyframeDue, unshown>>
    BY <1>5 DEF NothingToSend
  <2>2. TypeOK'
    <3>1. (\A i \in 1 .. Len(outbox) : MessageOK(outbox[i]))'
      BY <2>1 DEF IInv, TypeOK, MessageOK
    <3> QED BY <1>3, <2>1, <3>1 DEF IInv, TypeOK, ImageOrNone, detVars
  <2>3. phase' = "running" => previous # None
    BY <2>1 DEF IInv, Announced
  <2>4. Live' = Live /\ ~force
    BY <1>5, <2>1 DEF Live, NothingToSend, Unchanged
  <2> QED BY <1>1, <1>2, <2>1, <2>2, <2>3, <2>4, Elsewhere
<1>6. CASE Unsendable(image, force)
  <2>1. /\ phase' = "ended" /\ UNCHANGED <<outbox, keyframeDue, unshown>>
        /\ detGeneration' = NextGeneration(image) /\ detSequence' = detSequence + 1 /\ previous' \in {previous, image}
    BY <1>6 DEF Unsendable
  <2>2. TypeOK'
    <3>1. (\A i \in 1 .. Len(outbox) : MessageOK(outbox[i]))'
      BY <2>1 DEF IInv, TypeOK, MessageOK
    <3>2. previous' \in ImageOrNone /\ keyframeDue' \in BOOLEAN /\ phase' \in {"connecting", "initial", "running", "ended"}
      BY <2>1 DEF IInv, TypeOK, ImageOrNone
    <3> QED BY <1>3, <1>4, <2>1, <3>1, <3>2 DEF TypeOK
  <2>3. ~Live' /\ Count = Len(wire) /\ Count' = Len(wire) /\ \A i \in 1 .. Len(wire) : Coming(i)' = Coming(i)
    BY <1>1, <1>2, <2>1 DEF Live, Count, Coming
  <2>4. Lists' /\ Announced'
    <3>1. Len(outbox') = 0
      BY <1>2, <2>1
    <3> QED BY <1>1, <2>1, <2>3, <3>1 DEF IInv, Lists, Announced
  <2>5. PICK T : Runs(T)
    BY DEF IInv
  <2>6. Runs(T)'
    BY <1>1, <1>2, <2>1, <2>3, <2>5, RunsKept DEF IInv
  <2> QED BY <1>1, <1>2, <2>1, <2>2, <2>4, <2>6 DEF IInv
<1>7. CASE Publish(image, force)
  <2>1. /\ phase' = phase /\ Live' /\ previous' = image /\ image # None /\ unshown' = Append(unshown, image)
        /\ detGeneration' = NextGeneration(image) /\ detSequence' = detSequence + 1 /\ detSequence' # 0
        /\ keyframeDue' \in {FALSE, keyframeDue}
    BY <1>4, <1>7, NoneAssumption DEF Publish, Live
  <2>2. svcGeneration = detGeneration
    BY <1>1 DEF IInv, Announced
  <2>3. /\ outbox' \in Seq(Messages) /\ (\A i \in 1 .. Len(outbox') : MessageOK(outbox'[i]))
        /\ \E T : Runs(T)'
        /\ IF outbox' # <<>> /\ outbox'[1].kind = "config"
              THEN outbox'[1].body.gen = detGeneration'
              ELSE svcGeneration' = detGeneration'
        /\ \A i \in 2 .. Len(outbox') : outbox'[i].kind # "config"
        /\ Keyframe(image, force) =>
              \E i \in 1 .. Len(outbox') : outbox'[i].kind # "config" /\ outbox'[i].body.hdr.key
    <3>1. CASE GeometryChanged(image)
      BY <1>1, <1>7, <2>1, <3>1, PublishNew
    <3>2. CASE ~GeometryChanged(image)
      <4>1. /\ \E U : Runs(U)'
            /\ outbox' \in Seq(Messages) /\ \A i \in 1 .. Len(outbox') : MessageOK(outbox'[i])
            /\ \A i \in 1 .. Len(outbox') : outbox'[i].kind # "config"
            /\ Keyframe(image, force) =>
                  \E i \in 1 .. Len(outbox') : outbox'[i].kind # "config" /\ outbox'[i].body.hdr.key
        BY <1>1, <1>7, <2>1, <3>2, PublishSame
      <4>2. svcGeneration' = detGeneration'
        BY <1>1, <2>1, <2>2, <3>2 DEF NextGeneration
      <4>3. Len(outbox') \in Nat /\ (outbox' # <<>> => 1 \in 1 .. Len(outbox'))
        BY <4>1, EmptySeq, LenProperties
      <4>4. \A i \in 2 .. Len(outbox') : i \in 1 .. Len(outbox')
        BY <4>3
      <4> QED BY <4>1, <4>2, <4>3, <4>4
    <3> QED BY <3>1, <3>2
  <2>4. detGeneration' # 0
    <3>1. ~GeometryChanged(image) => detGeneration # 0
      BY DEF GeometryChanged, IInv, Announced
    <3>2. detGeneration + 1 # 0
      BY <1>4
    <3> QED BY <2>1, <3>1, <3>2 DEF NextGeneration
  <2>5. Announced'
    BY <2>1, <2>3, <2>4 DEF Announced, Live
  <2>6. Lists'
    BY <1>1, <2>1, <2>3, AppendProperties DEF IInv, Lists
  <2>7. TypeOK'
    <3>1. (\A i \in 1 .. Len(outbox) : MessageOK(outbox[i]))'
      BY <2>3 DEF MessageOK
    <3>2. previous' \in ImageOrNone /\ keyframeDue' \in BOOLEAN /\ phase' \in {"connecting", "initial", "running", "ended"}
      BY <2>1 DEF IInv, TypeOK, ImageOrNone
    <3> QED BY <1>3, <1>4, <2>1, <3>1, <3>2 DEF TypeOK
  <2>8. force => Keyframe(image, force)
    BY DEF Keyframe
  <2> QED BY <1>1, <1>2, <2>1, <2>3, <2>5, <2>6, <2>7, <2>8 DEF IInv
<1> QED BY <1>5, <1>6, <1>7 DEF SendCapture

\* The two occasions of sendCapture.
LEMMA CaptureTaken ==
    ASSUME IInv, InitialCapture \/ TakeCapture
    PROVE  /\ IInv' /\ presented' = presented
           /\ unshown' = unshown \/ \E image \in Images : unshown' = Append(unshown, image)
           /\ keyframeRequested => \/ phase' = "ended"
                                   \/ \E i \in 1 .. Len(outbox') : outbox'[i].kind # "config" /\ outbox'[i].body.hdr.key
<1>1. CASE InitialCapture
  <2>1. Live /\ SendCapture(desktop, TRUE) /\ UNCHANGED <<camera, held>> /\ slot' \in {slot, None} /\ desktop \in Images
    BY <1>1 DEF InitialCapture, Live, capVars, IInv, TypeOK
  <2>2. /\ IInv' /\ presented' = presented /\ unshown' \in {unshown, Append(unshown, desktop)}
        /\ \/ phase' = "ended"
           \/ \E i \in 1 .. Len(outbox') : outbox'[i].kind # "config" /\ outbox'[i].body.hdr.key
    BY <2>1, SendCaptureStep
  <2> QED BY <2>1, <2>2
<1>2. CASE TakeCapture
  <2>1. PICK force \in BOOLEAN : force = (keyframeDue \/ keyframeRequested)
    OBVIOUS
  <2>2. Live /\ SendCapture(slot, force) /\ UNCHANGED <<camera, held>> /\ slot' \in {slot, None} /\ slot \in Images
    BY <1>2, <2>1 DEF TakeCapture, Running, Live, IInv, TypeOK, ImageOrNone
  <2>3. /\ IInv' /\ presented' = presented /\ unshown' \in {unshown, Append(unshown, slot)}
        /\ force => \/ phase' = "ended"
                    \/ \E i \in 1 .. Len(outbox') : outbox'[i].kind # "config" /\ outbox'[i].body.hdr.key
    BY <2>2, SendCaptureStep
  <2> QED BY <2>1, <2>2, <2>3
<1> QED BY <1>1, <1>2

------------------------------------------------------------------------------
\* The theorems

LEMMA NextPreserves ==
    ASSUME IInv, [Next]_vars
    PROVE  IInv'
<1>1. CASE CaptureLoop
  BY <1>1, CaptureLoopStep
<1>2. CASE InitialCapture \/ TakeCapture
  BY <1>2, CaptureTaken
<1>3. CASE SendMessage
  BY <1>3, SendMessageStep
<1>4. CASE Receive
  BY <1>4, ReceiveStep
<1>5. CASE StartLoops \/ AskForKeyframe \/ HandleKeyframeRequest \/ ChangeDesktop \/ KeyframeIntervalElapses
  BY <1>5, QuietStep
<1>6. CASE LoseConnection
  BY <1>6, LoseConnectionStep
<1>7. CASE Connect
  BY <1>7, ConnectStep
<1>8. CASE UNCHANGED vars
  <2>1. /\ UNCHANGED <<fbVars, detVars, unshown, wire, outbox, svcGeneration>>
        /\ UNCHANGED <<phase, desktop, camera, held, slot, keyframeRequested, keyframeDue, requests, spurious,
                       sessions, presented>>
    BY <1>8 DEF vars, capVars, svcVars, netVars
  <2>2. Live' = Live /\ (phase' = "running" => previous # None)
    BY <2>1 DEF Live, IInv, Announced
  <2>3. TypeOK' /\ Room'
    BY <2>1 DEF IInv, TypeOK, Room, detVars, ImageOrNone, MessageOK
  <2> QED BY <2>1, <2>2, <2>3, Elsewhere
<1> QED BY <1>1, <1>2, <1>3, <1>4, <1>5, <1>6, <1>7, <1>8 DEF Next, SendLoop

LEMMA Invariance == Spec => []IInv
<1>1. Init => IInv
  <2>1. Init => Fresh
    BY DEF Init, Fresh
  <2> QED BY <2>1, Beginning
<1>2. IInv /\ [Next]_vars => IInv'
  BY NextPreserves
<1> QED BY <1>1, <1>2, PTL DEF Spec

\* Every variable keeps its type, and every message the host plans is one its
\* validator accepts: not empty, within the capacity of a message and the number
\* of parts (planFrame, SplitFrame).
THEOREM TypeCorrect == Spec => []TypeOK
<1>1. IInv => TypeOK
  BY DEF IInv
<1> QED BY <1>1, Invariance, PTL

\* Every frame of the host applies: the client never has to ask for a keyframe
\* and never gives the session up, whatever the desktop does and wherever the
\* connections are cut.
THEOREM FramesAlwaysApply == Spec => []HostFramesAlwaysApply
<1>1. IInv => HostFramesAlwaysApply
  BY DEF IInv, HostFramesAlwaysApply
<1> QED BY <1>1, Invariance, PTL

\* captureLoop's second, blocking offer always finds the channel empty.
THEOREM OfferNeverWaits == Spec => []SecondOfferNeverWaits
<1>1. IInv => SecondOfferNeverWaits
  BY DEF IInv, Room, SecondOfferNeverWaits
<1> QED BY <1>1, Invariance, PTL

\* sendCapture forgets a KEYFRAME_REQUEST only in the step that plans a keyframe,
\* for any number of parts, or ends the session.
THEOREM RequestsGetKeyframes == Spec => AnswersWithKeyframe
<1> DEFINE A == keyframeRequested /\ ~keyframeRequested' /\ phase' # "initial"
                   => \/ phase' = "ended"
                      \/ \E i \in 1..Len(outbox') : outbox'[i].kind # "config" /\ outbox'[i].body.hdr.key
<1>1. ASSUME IInv, [Next]_vars  PROVE A
  <2>1. CASE InitialCapture \/ TakeCapture
    BY <1>1, <2>1, CaptureTaken
  <2>2. CASE Connect
    BY <2>2 DEF Connect
  <2>3. CASE HandleKeyframeRequest
    BY <2>3 DEF HandleKeyframeRequest
  <2>4. CASE CaptureLoop \/ SendMessage \/ Receive \/ StartLoops \/ AskForKeyframe \/ ChangeDesktop
             \/ KeyframeIntervalElapses \/ LoseConnection \/ UNCHANGED vars
    <3>1. keyframeRequested' = keyframeRequested
      BY <2>4 DEF CaptureLoop, Capture, Offer, Drain, Push, Camera, SendMessage, Receive, StartLoops, AskForKeyframe,
                  ChangeDesktop, KeyframeIntervalElapses, LoseConnection, vars, svcVars
    <3> QED BY <3>1
  <2> QED BY <1>1, <2>1, <2>2, <2>3, <2>4 DEF Next, SendLoop
<1> QED BY <1>1, Invariance, PTL DEF Spec, AnswersWithKeyframe

\* When the tile hashes do not collide, the renderer is handed the captures the
\* host published, each of them whole and in their order: the stream implements
\* what Mirror promises, its fairness aside.
THEOREM MirrorSafety == Injective => (Spec => Faithful!Safety)
<1> SUFFICES ASSUME Injective  PROVE Spec => Faithful!Safety
  OBVIOUS
<1>1. Init => Faithful!Init
  BY DEF Init, Faithful!Init
<1>2. ASSUME IInv, [Next]_vars
      PROVE  [Faithful!Next]_(Faithful!mirrorVars)
  <2>1. CASE InitialCapture \/ TakeCapture
    BY <1>2, <2>1, CaptureTaken DEF Faithful!Next, Faithful!Publish, Faithful!mirrorVars
  <2>2. CASE Receive
    BY <1>2, <2>2, ReceiveStep DEF Faithful!Next, Faithful!Show, Faithful!mirrorVars
  <2>3. CASE Connect
    BY <2>3 DEF Connect, Faithful!Next, Faithful!Forget
  <2>4. CASE CaptureLoop \/ SendMessage \/ StartLoops \/ AskForKeyframe \/ HandleKeyframeRequest \/ ChangeDesktop
             \/ KeyframeIntervalElapses \/ LoseConnection \/ UNCHANGED vars
    <3>1. presented' = presented /\ unshown' = unshown
      BY <2>4 DEF CaptureLoop, Capture, Offer, Drain, Push, Camera, SendMessage, StartLoops, AskForKeyframe,
                  HandleKeyframeRequest, ChangeDesktop, KeyframeIntervalElapses, LoseConnection, vars
    <3> QED BY <3>1 DEF Faithful!mirrorVars
  <2> QED BY <1>2, <2>1, <2>2, <2>3, <2>4 DEF Next, SendLoop
<1> QED BY <1>1, <1>2, Invariance, PTL DEF Spec, Faithful!Safety
==============================================================================
