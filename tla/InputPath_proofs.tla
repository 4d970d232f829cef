-------------------------- MODULE InputPath_proofs --------------------------
(***************************************************************************)
(* The keys and buttons of the client and of the injector agree, for every *)
(* number of keys, events, resizes and sessions.                           *)
(*                                                                         *)
(* NothingStuck says what holds when the connection is empty; between two  *)
(* such moments the messages on their way count (Lifted).                  *)
(***************************************************************************)
EXTENDS InputPath, FiniteSetTheorems, SequenceTheorems, TLAPS

\* What a message says.
Body == [kind : {"key"}, what : Usages, action : {"down", "up"}, shift : BOOLEAN]
        \cup [kind : {"button"}, what : Buttons, action : {"down", "up"}]
        \cup [kind : {"pointer", "focus_lost"}]

UserTyped == physical \subseteq Usages /\ shift \in BOOLEAN /\ quit \in BOOLEAN /\ events \in Nat

InputTyped ==
    /\ cGeneration \in Nat /\ cSequence \in Nat /\ connected \in BOOLEAN /\ focused \in BOOLEAN
    /\ DOMAIN keys \subseteq Usages /\ \A u \in DOMAIN keys : keys[u] \in BOOLEAN
    /\ buttons \subseteq Buttons
    /\ IsFiniteSet(DOMAIN keys) /\ IsFiniteSet(buttons)

NetTyped ==
    /\ serving \in {"idle", "establishing", "admitted", "configured", "loop"}
    /\ up \in Seq(Messages) /\ down \in Seq(Nat \ {0})

HostTyped ==
    /\ session \in {"up", "down"} /\ resizing \in {"no", "captured", "announced"}
    /\ sessions \in Nat /\ hGeneration \in Nat /\ lastInputSeq \in Nat
    /\ rateCount \in 0 .. RateLimit /\ spoilt \subseteq {"shed", "early"}
    /\ advertised \in Nat \ {0} /\ native \in Nat \ {0}

InjectorTyped ==
    /\ pressedKeys \subseteq Usages \cup {LeftShift} /\ pressedButtons \subseteq Buttons
    /\ moved \in (Nat \ {0}) \X (Nat \ {0})

\* The client's side and the host's side of the connection belong together: a
\* session that is up is the one ServeConn is in, and the InputState is connected
\* by ConnectInput, or from the start until the end of the first connection.
Together ==
    /\ session = "up" => serving \in {"admitted", "configured", "loop"} /\ sessions >= 1
    /\ session = "down" => up = <<>> /\ pressedKeys = {} /\ pressedButtons = {} /\ resizing = "no"
    /\ connected => \/ serving = "loop"
                    \/ serving \in {"idle", "establishing"} /\ sessions = 0
                    \/ serving \in {"admitted", "configured"} /\ sessions = 1

\* Nothing is sent before the peer is Active, and in a later connection nothing
\* before ConnectInput.
Quiet ==
    session = "up" /\ (serving = "admitted" \/ (serving = "configured" /\ (sessions # 1 \/ cSequence = 0))) =>
        up = <<>> /\ pressedKeys = {} /\ pressedButtons = {}

\* The numbers on their way are the client's last ones.
Ordered ==
    /\ lastInputSeq <= cSequence
    /\ \A i \in 1 .. Len(up) : up[i].seq <= cSequence
    /\ InOrder

Screen ==
    session = "up" => /\ resizing = "no" => advertised = native
                      /\ resizing # "no" => native = advertised + 1

LiftsKey(m, u)    == m.kind = "focus_lost" \/ (m.kind = "key" /\ m.action = "up" /\ m.what = u)
LiftsButton(m, b) == m.kind = "focus_lost" \/ (m.kind = "button" /\ m.action = "up" /\ m.what = b)

KeyDown(m, u)    == m.kind = "key" /\ m.action = "down" /\ m.what = u
ButtonDown(m, b) == m.kind = "button" /\ m.action = "down" /\ m.what = b

\* What is pressed, or will be, is held by the client or lifted further on.
KeyLifted(u) ==
    /\ u \in pressedKeys => u \in DOMAIN keys \/ \E j \in 1 .. Len(up) : LiftsKey(up[j].body, u)
    /\ \A i \in 1 .. Len(up) : KeyDown(up[i].body, u) =>
          u \in DOMAIN keys \/ \E j \in i .. Len(up) : LiftsKey(up[j].body, u)

ButtonLifted(b) ==
    /\ b \in pressedButtons => b \in buttons \/ \E j \in 1 .. Len(up) : LiftsButton(up[j].body, b)
    /\ \A i \in 1 .. Len(up) : ButtonDown(up[i].body, b) =>
          b \in buttons \/ \E j \in i .. Len(up) : LiftsButton(up[j].body, b)

Lifted ==
    session = "up" /\ spoilt = {} => /\ \A u \in Usages \ {LeftShift} : KeyLifted(u)
                                     /\ \A b \in Buttons : ButtonLifted(b)

\* Without the focus, the last message on its way gives it up.
Unfocused ==
    session = "up" /\ spoilt = {} /\ serving = "loop" /\ connected /\ ~focused =>
        \/ up = <<>> /\ pressedKeys = {} /\ pressedButtons = {}
        \/ Len(up) # 0 /\ up[Len(up)].body.kind = "focus_lost"

Path == InputTyped /\ NetTyped /\ HostTyped /\ InjectorTyped
        /\ Together /\ Quiet /\ Ordered /\ Screen /\ Lifted /\ Unfocused

IInv == UserTyped /\ Path

------------------------------------------------------------------------------
\* Lists of what is held

LEMMA LeastNumber ==
    ASSUME NEW T, T \subseteq Nat, T # {}
    PROVE  \E x \in T : \A y \in T : ~(y < x)
<1>1. IsWellFoundedOn(OpToRel(<, Nat), Nat)
  BY NatLessThanWellFounded
<1>2. \E x \in T : \A y \in T : <<y, x>> \notin OpToRel(<, Nat)
  BY <1>1, WFMin
<1>3. \A x, y \in Nat : y < x => <<y, x>> \in OpToRel(<, Nat)
  BY DEF OpToRel
<1> HIDE DEF OpToRel
<1> QED BY <1>2, <1>3

Rising(q, S) == q \in SetToSeqs(S) /\ \A i, j \in DOMAIN q : i < j => q[i] < q[j]

\* Every finite set of numbers can be listed upwards: a smallest one that cannot
\* has a least number, and what is left of it can.
LEMMA RisingListExists ==
    ASSUME NEW S, S \subseteq Nat, IsFiniteSet(S)
    PROVE  \E q : Rising(q, S)
<1> DEFINE Unlisted == {n \in Nat : \E T \in SUBSET Nat : IsFiniteSet(T) /\ Cardinality(T) = n /\ ~\E q : Rising(q, T)}
<1>1. SUFFICES Unlisted = {}
  <2>1. Cardinality(S) \in Nat
    BY FS_CardinalityType
  <2> QED BY <1>1, <2>1
<1>2. SUFFICES ASSUME Unlisted # {}  PROVE FALSE
  OBVIOUS
<1>3. PICK n \in Unlisted : \A m \in Unlisted : ~(m < n)
  <2> HIDE DEF Unlisted
  <2>1. Unlisted \subseteq Nat
    BY DEF Unlisted
  <2> QED BY <1>2, <2>1, LeastNumber
<1>4. PICK T \in SUBSET Nat : IsFiniteSet(T) /\ Cardinality(T) = n /\ ~\E q : Rising(q, T)
  OBVIOUS
<1>5. n \in Nat
  OBVIOUS
<1>6. CASE T = {}
  <2>1. n = 0
    BY <1>4, <1>6, FS_EmptySet
  <2>2. Rising([i \in 1 .. 0 |-> i], T)
    <3>1. 1 .. 0 = {}
      OBVIOUS
    <3> QED BY <1>4, <1>6, <2>1, <3>1 DEF Rising, SetToSeqs
  <2> QED BY <1>4, <2>2
<1>7. CASE T # {}
  <2>1. PICK x \in T : \A y \in T : ~(y < x)
    BY <1>7, LeastNumber
  <2> DEFINE R == T \ {x}
  <2>2. IsFiniteSet(R) /\ Cardinality(R) = n - 1
    BY <1>4, <2>1, FS_RemoveElement
  <2>3. n - 1 \in Nat
    BY <2>2, FS_CardinalityType
  <2>4. n - 1 \notin Unlisted
    BY <1>3, <1>5, <2>3
  <2>5. PICK q : Rising(q, R)
    BY <2>2, <2>3, <2>4
  <2>6. /\ q \in [1 .. n - 1 -> R] /\ \A i, j \in 1 .. n - 1 : i # j => q[i] # q[j]
        /\ \A i, j \in 1 .. n - 1 : i < j => q[i] < q[j]
    BY <2>2, <2>5 DEF Rising, SetToSeqs
  <2> DEFINE p == [i \in 1 .. n |-> IF i = 1 THEN x ELSE q[i - 1]]
  <2> HIDE DEF Unlisted
  <2>7. \A i \in 1 .. n : i = 1 \/ i - 1 \in 1 .. n - 1
    BY <1>5
  <2>8. \A y \in R : y \in Nat /\ x \in Nat /\ x < y
    BY <2>1
  <2>9. p \in [1 .. n -> T]
    BY <2>1, <2>6, <2>7
  <2>10. \A i, j \in 1 .. n : i < j => p[i] < p[j]
    <3> SUFFICES ASSUME NEW i \in 1 .. n, NEW j \in 1 .. n, i < j  PROVE p[i] < p[j]
      OBVIOUS
    <3>1. j # 1 /\ j - 1 \in 1 .. n - 1 /\ p[j] = q[j - 1]
      BY <1>5, <2>7
    <3>2. CASE i = 1
      BY <2>6, <2>8, <3>1, <3>2
    <3>3. CASE i # 1
      <4>1. i - 1 \in 1 .. n - 1 /\ p[i] = q[i - 1] /\ i - 1 < j - 1
        BY <1>5, <2>7, <3>3
      <4> QED BY <2>6, <3>1, <4>1
    <3> QED BY <3>2, <3>3
  <2>11. \A i, j \in 1 .. n : i # j => p[i] # p[j]
    <3> SUFFICES ASSUME NEW i \in 1 .. n, NEW j \in 1 .. n, i # j  PROVE p[i] # p[j]
      OBVIOUS
    <3>1. p[i] \in Nat /\ p[j] \in Nat
      BY <2>9
    <3>2. i < j \/ j < i
      BY <1>5
    <3> HIDE DEF p
    <3> QED BY <2>10, <3>1, <3>2
  <2>12. Rising(p, T)
    <3> HIDE DEF p
    <3> QED BY <1>4, <2>9, <2>10, <2>11 DEF Rising, SetToSeqs
  <2> QED BY <1>4, <2>12
<1> QED BY <1>6, <1>7

\* A list without repetition as long as the set has all of it.
LEMMA ListHasAll ==
    ASSUME NEW S, IsFiniteSet(S), NEW q \in [1 .. Cardinality(S) -> S],
           \A i, j \in 1 .. Cardinality(S) : i # j => q[i] # q[j]
    PROVE  /\ q \in Seq(S) /\ Len(q) = Cardinality(S) /\ Cardinality(S) \in Nat
           /\ \A x \in S : \E i \in 1 .. Cardinality(S) : q[i] = x
<1>1. Cardinality(S) \in Nat
  BY FS_CardinalityType
<1>2. q \in Seq(S)
  BY <1>1, SeqDef
<1>3. Len(q) = Cardinality(S)
  BY <1>1, <1>2, LenProperties
<1>4. q \in Injection(1 .. Cardinality(S), S)
  BY DEF Injection, IsInjective
<1>5. IsFiniteSet(1 .. Cardinality(S)) /\ Cardinality(1 .. Cardinality(S)) = Cardinality(S)
  BY <1>1, FS_Interval
<1>6. q \in Surjection(1 .. Cardinality(S), S)
  BY <1>4, <1>5, FS_Injection
<1> QED BY <1>1, <1>2, <1>3, <1>6 DEF Surjection

LEMMA AscendingHasAll ==
    ASSUME NEW S, S \subseteq Nat, IsFiniteSet(S), NEW q, q = Ascending(S)
    PROVE  /\ q \in Seq(S) /\ Len(q) = Cardinality(S) /\ Cardinality(S) \in Nat
           /\ \A x \in S : \E i \in 1 .. Cardinality(S) : q[i] = x
<1>1. \E p : Rising(p, S)
  BY RisingListExists
<1>2. q \in SetToSeqs(S)
  BY <1>1 DEF Rising, Ascending
<1> QED BY <1>2, ListHasAll DEF SetToSeqs

LEMMA SetToSeqHasAll ==
    ASSUME NEW S, IsFiniteSet(S), NEW q, q = SetToSeq(S)
    PROVE  /\ q \in Seq(S) /\ Len(q) = Cardinality(S) /\ Cardinality(S) \in Nat
           /\ \A x \in S : \E i \in 1 .. Cardinality(S) : q[i] = x
<1>1. \E f \in [1 .. Cardinality(S) -> S] : IsInjective(f)
  BY FS_CardinalityType DEF ExistsBijection, Bijection, Injection
<1>2. q \in [1 .. Cardinality(S) -> S] /\ IsInjective(q)
  BY <1>1 DEF SetToSeq
<1>3. \A i, j \in 1 .. Cardinality(S) : i # j => q[i] # q[j]
  BY <1>2 DEF IsInjective
<1> QED BY <1>2, <1>3, ListHasAll

------------------------------------------------------------------------------
\* What the client sends

LEMMA Bodies == Messages = [gen : Nat, seq : Nat \ {0}, body : Body]
BY DEF Messages, Body

LEMMA KindsOfBody ==
    /\ \A u \in Usages, a \in {"down", "up"}, s \in BOOLEAN : KeyMsg(u, a, s) \in Body
    /\ \A b \in Buttons, a \in {"down", "up"} : ButtonMsg(b, a) \in Body
    /\ PointerMsg \in Body /\ FocusLostMsg \in Body
BY DEF Body, KeyMsg, ButtonMsg, PointerMsg, FocusLostMsg

LEMMA KindsOfMessage ==
    /\ \A u, a, s : LET m == KeyMsg(u, a, s) IN m.kind = "key" /\ m.what = u /\ m.action = a /\ m.shift = s
    /\ \A b, a : LET m == ButtonMsg(b, a) IN m.kind = "button" /\ m.what = b /\ m.action = a
    /\ PointerMsg.kind = "pointer" /\ FocusLostMsg.kind = "focus_lost"
BY DEF KeyMsg, ButtonMsg, PointerMsg, FocusLostMsg

\* The header of sendLocked.
LEMMA StampedList ==
    ASSUME InputTyped, NEW msgs \in Seq(Body), NEW n \in 0 .. Len(msgs), NEW new, new = Stamped(msgs, n)
    PROVE  /\ new \in Seq(Messages) /\ Len(new) = n
           /\ \A i \in 1 .. n : new[i].gen = cGeneration /\ new[i].seq = cSequence + i /\ new[i].body = msgs[i]
<1>1. Len(msgs) \in Nat /\ msgs \in [1 .. Len(msgs) -> Body]
  BY LenProperties
<1>2. n \in Nat /\ \A i \in 1 .. n : i \in 1 .. Len(msgs)
  BY <1>1
<1>3. \A i \in 1 .. n : new[i] = [gen |-> cGeneration, seq |-> cSequence + i, body |-> msgs[i]]
  BY DEF Stamped
<1>4. \A i \in 1 .. n : new[i] \in Messages
  <2> TAKE i \in 1 .. n
  <2>1. cGeneration \in Nat /\ cSequence + i \in Nat \ {0} /\ msgs[i] \in Body
    BY <1>1, <1>2 DEF InputTyped
  <2>2. PICK k \in Nat \ {0} : k = cSequence + i
    BY <2>1
  <2>3. new[i] = [gen |-> cGeneration, seq |-> k, body |-> msgs[i]]
    BY <1>3, <2>2
  <2> QED BY <2>1, <2>3, Bodies
<1>5. new \in [1 .. n -> Messages]
  BY <1>3, <1>4 DEF Stamped
<1>6. new \in Seq(Messages)
  BY <1>2, <1>5, SeqDef
<1>7. Len(new) = n
  BY <1>2, <1>5, <1>6, LenProperties
<1> QED BY <1>3, <1>6, <1>7

\* releaseAllLocked tells of everything that is held, and of nothing else.
LEMMA ReleaseList ==
    ASSUME InputTyped
    PROVE  /\ ReleaseMsgs \in Seq(Body)
           /\ \A u \in DOMAIN keys : \E i \in 1 .. Len(ReleaseMsgs) : LiftsKey(ReleaseMsgs[i], u)
           /\ \A b \in buttons : \E i \in 1 .. Len(ReleaseMsgs) : LiftsButton(ReleaseMsgs[i], b)
           /\ \A i \in 1 .. Len(ReleaseMsgs) : ReleaseMsgs[i].kind # "focus_lost" /\ ReleaseMsgs[i].action = "up"
<1> DEFINE hk == Ascending(DOMAIN keys)
           hb == SetToSeq(buttons)
           ks == [i \in 1 .. Len(hk) |-> KeyMsg(hk[i], "up", keys[hk[i]])]
           bs == [i \in 1 .. Len(hb) |-> ButtonMsg(hb[i], "up")]
<1>1. ReleaseMsgs = ks \o bs
  BY DEF ReleaseMsgs
<1>2. /\ hk \in Seq(DOMAIN keys) /\ Len(hk) \in Nat /\ \A x \in DOMAIN keys : \E i \in 1 .. Len(hk) : hk[i] = x
  <2>1. DOMAIN keys \subseteq Nat /\ IsFiniteSet(DOMAIN keys)
    BY InputAssumption DEF InputTyped
  <2> QED BY <2>1, AscendingHasAll
<1>3. /\ hb \in Seq(buttons) /\ Len(hb) \in Nat /\ \A x \in buttons : \E i \in 1 .. Len(hb) : hb[i] = x
  BY SetToSeqHasAll DEF InputTyped
<1> HIDE DEF hk, hb
<1>4. \A i \in 1 .. Len(hk) : hk[i] \in Usages /\ keys[hk[i]] \in BOOLEAN
  BY <1>2, ElementOfSeq DEF InputTyped
<1>5. \A i \in 1 .. Len(hb) : hb[i] \in Buttons
  BY <1>3, ElementOfSeq DEF InputTyped
<1>6. \A i \in 1 .. Len(hk) : ks[i] = KeyMsg(hk[i], "up", keys[hk[i]]) /\ ks[i] \in Body
  BY <1>4, KindsOfBody
<1>7. \A i \in 1 .. Len(hb) : bs[i] = ButtonMsg(hb[i], "up") /\ bs[i] \in Body
  BY <1>5, KindsOfBody
<1>8. ks \in Seq(Body) /\ Len(ks) = Len(hk)
  <2>1. ks \in [1 .. Len(hk) -> Body]
    BY <1>6
  <2>2. ks \in Seq(Body)
    BY <1>2, <2>1, SeqDef
  <2> HIDE DEF ks
  <2> QED BY <1>2, <2>1, <2>2, LenProperties
<1>9. bs \in Seq(Body) /\ Len(bs) = Len(hb)
  <2>1. bs \in [1 .. Len(hb) -> Body]
    BY <1>7
  <2>2. bs \in Seq(Body)
    BY <1>3, <2>1, SeqDef
  <2> HIDE DEF bs
  <2> QED BY <1>3, <2>1, <2>2, LenProperties
<1> HIDE DEF ks, bs
<1>10. /\ ReleaseMsgs \in Seq(Body) /\ Len(ReleaseMsgs) = Len(ks) + Len(bs)
       /\ \A i \in 1 .. Len(ks) + Len(bs) : ReleaseMsgs[i] = IF i <= Len(ks) THEN ks[i] ELSE bs[i - Len(ks)]
  <2>1. /\ ks \o bs \in Seq(Body) /\ Len(ks \o bs) = Len(ks) + Len(bs)
        /\ \A i \in 1 .. Len(ks) + Len(bs) : (ks \o bs)[i] = IF i <= Len(ks) THEN ks[i] ELSE bs[i - Len(ks)]
    BY <1>8, <1>9, ConcatProperties
  <2> QED BY <1>1, <2>1
<1>11. \A i \in 1 .. Len(hk) : i \in 1 .. Len(ReleaseMsgs) /\ ReleaseMsgs[i] = ks[i]
  BY <1>2, <1>3, <1>8, <1>9, <1>10
<1>12. \A i \in 1 .. Len(hb) : Len(hk) + i \in 1 .. Len(ReleaseMsgs) /\ ReleaseMsgs[Len(hk) + i] = bs[i]
  <2> TAKE i \in 1 .. Len(hb)
  <2>1. Len(hk) + i \in 1 .. Len(hk) + Len(hb) /\ ~(Len(hk) + i <= Len(hk)) /\ (Len(hk) + i) - Len(hk) = i
    BY <1>2, <1>3
  <2> QED BY <1>8, <1>9, <1>10, <2>1
<1>13. \A i \in 1 .. Len(ReleaseMsgs) : i \in 1 .. Len(hk) \/ \E j \in 1 .. Len(hb) : i = Len(hk) + j
  <2> TAKE i \in 1 .. Len(ReleaseMsgs)
  <2>1. i \in 1 .. Len(hk) \/ (i - Len(hk) \in 1 .. Len(hb) /\ i = Len(hk) + (i - Len(hk)))
    BY <1>2, <1>3, <1>8, <1>9, <1>10
  <2> QED BY <2>1
<1>14. \A u \in DOMAIN keys : \E i \in 1 .. Len(ReleaseMsgs) : LiftsKey(ReleaseMsgs[i], u)
  <2> TAKE u \in DOMAIN keys
  <2>1. PICK i \in 1 .. Len(hk) : hk[i] = u
    BY <1>2
  <2>2. i \in 1 .. Len(ReleaseMsgs) /\ ReleaseMsgs[i] = KeyMsg(u, "up", keys[u])
    BY <1>6, <1>11, <2>1
  <2>3. LiftsKey(ReleaseMsgs[i], u)
    BY <2>2, KindsOfMessage DEF LiftsKey
  <2> QED BY <2>2, <2>3
<1>15. \A b \in buttons : \E i \in 1 .. Len(ReleaseMsgs) : LiftsButton(ReleaseMsgs[i], b)
  <2> TAKE b \in buttons
  <2>1. PICK i \in 1 .. Len(hb) : hb[i] = b
    BY <1>3
  <2>2. Len(hk) + i \in 1 .. Len(ReleaseMsgs) /\ ReleaseMsgs[Len(hk) + i] = ButtonMsg(b, "up")
    BY <1>7, <1>12, <2>1
  <2>3. LiftsButton(ReleaseMsgs[Len(hk) + i], b)
    BY <2>2, KindsOfMessage DEF LiftsButton
  <2> QED BY <2>2, <2>3
<1>16. \A i \in 1 .. Len(ReleaseMsgs) : ReleaseMsgs[i].kind # "focus_lost" /\ ReleaseMsgs[i].action = "up"
  <2> TAKE i \in 1 .. Len(ReleaseMsgs)
  <2>1. CASE i \in 1 .. Len(hk)
    <3>1. ReleaseMsgs[i] = KeyMsg(hk[i], "up", keys[hk[i]])
      BY <1>6, <1>11, <2>1
    <3> QED BY <3>1, KindsOfMessage
  <2>2. ASSUME NEW j \in 1 .. Len(hb), i = Len(hk) + j
        PROVE  ReleaseMsgs[i].kind # "focus_lost" /\ ReleaseMsgs[i].action = "up"
    <3>1. ReleaseMsgs[i] = ButtonMsg(hb[j], "up")
      BY <1>7, <1>12, <2>2
    <3> QED BY <3>1, KindsOfMessage
  <2> QED BY <1>13, <2>1, <2>2
<1> QED BY <1>10, <1>14, <1>15, <1>16

------------------------------------------------------------------------------
LEMMA AcceptedCount ==
    ASSUME NEW msgs \in Seq(Body), NEW n \in Accepted(msgs)
    PROVE  /\ n \in 0 .. Len(msgs) /\ n \in Nat /\ Len(msgs) \in Nat
           /\ session = "up" => (serving = "admitted" => n = 0)
           /\ session = "up" /\ serving \in {"configured", "loop"} => n = Len(msgs)
<1>1. Len(msgs) \in Nat
  BY LenProperties
<1>2. n \in 0 .. Len(msgs)
  BY <1>1 DEF Accepted
<1> QED BY <1>1, <1>2 DEF Accepted

\* What a client that is connected sends, with the keys and buttons it holds then.
LEMMA SendKeeps ==
    ASSUME Path, NEW msgs \in Seq(Body), NEW n \in Accepted(msgs), Send(msgs, n), connected,
           UNCHANGED <<serving, down, hostVars, injVars>>,
           n = Len(msgs) => \A u \in Usages :
              /\ u \in DOMAIN keys => u \in DOMAIN keys' \/ \E i \in 1 .. Len(msgs) : LiftsKey(msgs[i], u)
              /\ \A i \in 1 .. Len(msgs) : KeyDown(msgs[i], u) =>
                    u \in DOMAIN keys' \/ \E j \in i .. Len(msgs) : LiftsKey(msgs[j], u),
           n = Len(msgs) => \A b \in Buttons :
              /\ b \in buttons => b \in buttons' \/ \E i \in 1 .. Len(msgs) : LiftsButton(msgs[i], b)
              /\ \A i \in 1 .. Len(msgs) : ButtonDown(msgs[i], b) =>
                    b \in buttons' \/ \E j \in i .. Len(msgs) : LiftsButton(msgs[j], b)
    PROVE  /\ cSequence' \in Nat /\ NetTyped' /\ HostTyped' /\ InjectorTyped'
           /\ Together' /\ Quiet' /\ Ordered' /\ Screen' /\ Lifted'
           /\ session = "up" /\ n # 0 /\ n = Len(msgs) =>
                 Len(up') # 0 /\ up'[Len(up')].body = msgs[Len(msgs)]
<1> DEFINE L == Len(up)
           tail == Stamped(msgs, n)
<1>1. /\ n \in 0 .. Len(msgs) /\ n \in Nat /\ Len(msgs) \in Nat
      /\ session = "up" => (serving = "admitted" => n = 0)
      /\ session = "up" /\ serving \in {"configured", "loop"} => n = Len(msgs)
  BY AcceptedCount
<1>2. /\ up \in Seq(Messages) /\ L \in Nat /\ cSequence \in Nat /\ lastInputSeq \in Nat
      /\ lastInputSeq <= cSequence
  BY LenProperties DEF Path, NetTyped, InputTyped, HostTyped, Ordered
<1>3. /\ cSequence' = cSequence + n /\ up' = IF session = "up" THEN up \o tail ELSE up
      /\ serving' = serving /\ down' = down /\ session' = session /\ sessions' = sessions
      /\ resizing' = resizing /\ hGeneration' = hGeneration /\ advertised' = advertised /\ native' = native
      /\ lastInputSeq' = lastInputSeq /\ rateCount' = rateCount /\ spoilt' = spoilt
      /\ pressedKeys' = pressedKeys /\ pressedButtons' = pressedButtons /\ moved' = moved
  BY DEF Send, hostVars, injVars
<1>4. /\ tail \in Seq(Messages) /\ Len(tail) = n
      /\ \A i \in 1 .. n : tail[i].gen = cGeneration /\ tail[i].seq = cSequence + i /\ tail[i].body = msgs[i]
  BY <1>1, StampedList DEF Path
<1>5. session = "up" => serving \in {"admitted", "configured", "loop"}
  BY DEF Path, Together
<1> HIDE DEF tail, L
<1>6. session = "up" => /\ up' \in Seq(Messages) /\ Len(up') = L + n
                        /\ \A i \in 1 .. L : up'[i] = up[i] /\ i \in 1 .. Len(up')
                        /\ \A i \in 1 .. n : /\ L + i \in 1 .. Len(up') /\ up'[L + i].seq = cSequence + i
                                             /\ up'[L + i].body = msgs[i] /\ up'[L + i].gen = cGeneration
  <2> SUFFICES ASSUME session = "up"
               PROVE  /\ up' \in Seq(Messages) /\ Len(up') = L + n
                      /\ \A i \in 1 .. L : up'[i] = up[i] /\ i \in 1 .. Len(up')
                      /\ \A i \in 1 .. n : /\ L + i \in 1 .. Len(up') /\ up'[L + i].seq = cSequence + i
                                           /\ up'[L + i].body = msgs[i] /\ up'[L + i].gen = cGeneration
    OBVIOUS
  <2>1. up' = up \o tail
    BY <1>3
  <2>2. /\ up' \in Seq(Messages) /\ Len(up') = L + n
        /\ \A i \in 1 .. L + n : up'[i] = IF i <= L THEN up[i] ELSE tail[i - L]
    <3>1. /\ up \o tail \in Seq(Messages) /\ Len(up \o tail) = Len(up) + Len(tail)
          /\ \A i \in 1 .. Len(up) + Len(tail) : (up \o tail)[i] = IF i <= Len(up) THEN up[i] ELSE tail[i - Len(up)]
      BY <1>2, <1>4, ConcatProperties
    <3> QED BY <1>4, <2>1, <3>1 DEF L
  <2>3. \A i \in 1 .. L : i \in 1 .. L + n /\ i <= L
    BY <1>1, <1>2
  <2>4. \A i \in 1 .. n : L + i \in 1 .. L + n /\ ~(L + i <= L) /\ (L + i) - L = i
    BY <1>1, <1>2
  <2>5. \A i \in 1 .. n : up'[L + i] = tail[i]
    BY <2>2, <2>4
  <2> QED BY <1>4, <2>2, <2>3, <2>4, <2>5
<1>7. session = "up" /\ n = 0 => up' = up
  <2> SUFFICES ASSUME session = "up", n = 0  PROVE up' = up
    OBVIOUS
  <2>1. tail = <<>>
    BY <1>4, EmptySeq
  <2> QED BY <1>2, <1>3, <2>1, ConcatEmptySeq
<1>8. cSequence' \in Nat /\ NetTyped' /\ HostTyped' /\ InjectorTyped'
  <2>1. up' \in Seq(Messages)
    BY <1>2, <1>3, <1>6
  <2> QED BY <1>1, <1>2, <1>3, <2>1 DEF Path, NetTyped, HostTyped, InjectorTyped
<1>9. Together' /\ Screen'
  BY <1>3 DEF Path, Together, Screen
<1>10. Quiet'
  <2> SUFFICES ASSUME session = "up",
                      serving = "admitted" \/ (serving = "configured" /\ (sessions # 1 \/ cSequence' = 0))
               PROVE  up' = <<>> /\ pressedKeys = {} /\ pressedButtons = {}
    BY <1>3 DEF Quiet
  <2>1. CASE serving = "admitted"
    BY <1>1, <1>7, <2>1 DEF Path, Quiet
  <2>2. CASE serving = "configured"
    <3>1. sessions = 1
      BY <2>2 DEF Path, Together
    <3>2. n = 0 /\ cSequence = 0
      BY <1>1, <1>2, <1>3, <2>2, <3>1
    <3> QED BY <1>7, <2>2, <3>2 DEF Path, Quiet
  <2> QED BY <2>1, <2>2
<1>11. Ordered'
  <2>1. lastInputSeq' <= cSequence'
    BY <1>1, <1>2, <1>3
  <2>2. CASE session # "up"
    <3>1. up' = <<>>
      BY <1>3, <2>2 DEF Path, Together, HostTyped
    <3>2. \A i \in 1 .. Len(up') : up'[i].seq <= cSequence'
      BY <3>1
    <3> QED BY <1>3, <2>1, <2>2, <3>2 DEF Ordered, InOrder
  <2>3. CASE session = "up"
    <3>1. \A i \in 1 .. L : /\ up[i].seq \in Nat /\ up[i].seq <= cSequence
                            /\ up[i].gen = hGeneration => up[i].seq > lastInputSeq
                            /\ \A j \in 1 .. L : i < j => up[i].seq < up[j].seq
      <4>1. DOMAIN up = 1 .. L
        BY <1>2, LenProperties DEF L
      <4>2. \A i \in 1 .. L : up[i] \in Messages
        BY <1>2, ElementOfSeq DEF L
      <4>3. \A i \in 1 .. L : up[i].seq \in Nat
        BY <4>2 DEF Messages
      <4> QED BY <2>3, <4>1, <4>3 DEF Path, Ordered, InOrder, L
    <3>2. \A i \in 1 .. Len(up') : i \in 1 .. L \/ \E x \in 1 .. n : i = L + x
      <4> TAKE i \in 1 .. Len(up')
      <4>1. i \in 1 .. L \/ (i - L \in 1 .. n /\ i = L + (i - L))
        BY <1>1, <1>2, <1>6, <2>3
      <4> QED BY <4>1
    <3>3. \A i \in 1 .. Len(up') : /\ up'[i].seq \in Nat /\ up'[i].seq <= cSequence'
                                   /\ up'[i].gen = hGeneration => up'[i].seq > lastInputSeq
      <4> TAKE i \in 1 .. Len(up')
      <4>1. CASE i \in 1 .. L
        <5>1. PICK a \in Nat : a = up[i].seq /\ a <= cSequence
          BY <3>1, <4>1
        <5> QED BY SMTT(30), <1>1, <1>2, <1>3, <1>6, <2>3, <3>1, <4>1, <5>1
      <4>2. CASE \E x \in 1 .. n : i = L + x
        <5>1. PICK x \in 1 .. n : i = L + x
          BY <4>2
        <5>2. up'[i].seq = cSequence + x
          BY <1>6, <2>3, <5>1
        <5> QED BY SMTT(30), <1>1, <1>2, <1>3, <5>2
      <4> QED BY <3>2, <4>1, <4>2
    <3>4. \A i, j \in 1 .. Len(up') : i < j => up'[i].seq < up'[j].seq
      <4> SUFFICES ASSUME NEW i \in 1 .. Len(up'), NEW j \in 1 .. Len(up'), i < j
                   PROVE  up'[i].seq < up'[j].seq
        OBVIOUS
      <4>1. CASE i \in 1 .. L /\ j \in 1 .. L
        BY <1>6, <2>3, <3>1, <4>1
      <4>2. ASSUME i \in 1 .. L, NEW y \in 1 .. n, j = L + y
            PROVE  up'[i].seq < up'[j].seq
        <5>1. PICK a \in Nat : a = up[i].seq /\ a <= cSequence
          BY <3>1, <4>2
        <5>2. up'[j].seq = cSequence + y /\ up'[i].seq = a
          BY <1>6, <2>3, <4>2, <5>1
        <5> QED BY <1>1, <1>2, <5>1, <5>2
      <4>3. ASSUME NEW x \in 1 .. n, i = L + x, NEW y \in 1 .. n, j = L + y
            PROVE  up'[i].seq < up'[j].seq
        <5>1. x < y
          BY <1>1, <1>2, <4>3
        <5>2. up'[j].seq = cSequence + y /\ up'[i].seq = cSequence + x
          BY <1>6, <2>3, <4>3
        <5> QED BY <1>1, <1>2, <5>1, <5>2
      <4>4. ASSUME NEW x \in 1 .. n, i = L + x, j \in 1 .. L
            PROVE  FALSE
        BY <1>1, <1>2, <4>4
      <4> QED BY <3>2, <4>1, <4>2, <4>3, <4>4
    <3>5. DOMAIN up' = 1 .. Len(up')
      BY <1>6, <2>3, LenProperties
    <3> QED BY <1>3, <2>1, <3>3, <3>4, <3>5 DEF Ordered, InOrder
  <2> QED BY <2>2, <2>3
<1>12. ASSUME session = "up", spoilt = {}, serving # "admitted", NEW u \in Usages \ {LeftShift}
      PROVE  KeyLifted(u)'
  <2>1. n = Len(msgs) /\ KeyLifted(u)
    BY <1>1, <1>12, <1>5 DEF Path, Together, Lifted
  <2>2. /\ \A i \in 1 .. Len(msgs) : up'[L + i].body = msgs[i] /\ L + i \in 1 .. Len(up')
        /\ \A i \in 1 .. L : up'[i] = up[i] /\ i \in 1 .. Len(up')
    BY <1>2, <1>12, <1>6, <2>1
  <2>3. u \in DOMAIN keys => u \in DOMAIN keys' \/ \E i \in 1 .. Len(msgs) : LiftsKey(up'[L + i].body, u)
    BY <2>1, <2>2
  <2>4. \A i \in 1 .. L : \A j \in 1 .. Len(msgs) : L + j \in i .. Len(up')
    BY <1>2, <1>12, <1>6, <2>1
  <2>5. \A i \in 1 .. L : \A j \in i .. L : j \in 1 .. L /\ j \in i .. Len(up')
    BY <1>2, <1>12, <1>6, <2>1
  <2>6. ASSUME u \in pressedKeys'
        PROVE  u \in DOMAIN keys' \/ \E j \in 1 .. Len(up') : LiftsKey(up'[j].body, u)
    <3>1. u \in DOMAIN keys \/ \E j \in 1 .. L : LiftsKey(up[j].body, u)
      BY <1>3, <2>1, <2>6 DEF KeyLifted, L
    <3> QED BY <2>2, <2>3, <3>1
  <2>7. ASSUME NEW i \in 1 .. Len(up'), KeyDown(up'[i].body, u)
        PROVE  u \in DOMAIN keys' \/ \E j \in i .. Len(up') : LiftsKey(up'[j].body, u)
    <3>1. CASE i \in 1 .. L
      <4>1. u \in DOMAIN keys \/ \E j \in i .. L : LiftsKey(up[j].body, u)
        BY <2>1, <2>2, <2>7, <3>1 DEF KeyLifted, L
      <4>2. CASE u \in DOMAIN keys
        BY <2>3, <2>4, <3>1, <4>2
      <4>3. CASE \E j \in i .. L : LiftsKey(up[j].body, u)
        BY <2>2, <2>5, <3>1, <4>3
      <4> QED BY <4>1, <4>2, <4>3
    <3>2. CASE i \notin 1 .. L
      <4>1. PICK x \in 1 .. Len(msgs) : i = L + x
        <5>1. i - L \in 1 .. Len(msgs) /\ i = L + (i - L)
          BY <1>2, <1>12, <1>6, <2>1, <3>2
        <5> QED BY <5>1
      <4>2. u \in DOMAIN keys' \/ \E j \in x .. Len(msgs) : LiftsKey(msgs[j], u)
        BY <2>1, <2>2, <2>7, <4>1
      <4>3. \A j \in x .. Len(msgs) : j \in 1 .. Len(msgs) /\ L + j \in i .. Len(up')
        BY <1>2, <1>12, <1>6, <2>1, <4>1
      <4> QED BY <2>2, <4>2, <4>3
    <3> QED BY <3>1, <3>2
  <2> QED BY <2>6, <2>7 DEF KeyLifted
<1>13. ASSUME session = "up", spoilt = {}, serving # "admitted", NEW b \in Buttons
      PROVE  ButtonLifted(b)'
  <2>1. n = Len(msgs) /\ ButtonLifted(b)
    BY <1>1, <1>13, <1>5 DEF Path, Together, Lifted
  <2>2. /\ \A i \in 1 .. Len(msgs) : up'[L + i].body = msgs[i] /\ L + i \in 1 .. Len(up')
        /\ \A i \in 1 .. L : up'[i] = up[i] /\ i \in 1 .. Len(up')
    BY <1>2, <1>13, <1>6, <2>1
  <2>3. b \in buttons => b \in buttons' \/ \E i \in 1 .. Len(msgs) : LiftsButton(up'[L + i].body, b)
    BY <2>1, <2>2
  <2>4. \A i \in 1 .. L : \A j \in 1 .. Len(msgs) : L + j \in i .. Len(up')
    BY <1>2, <1>13, <1>6, <2>1
  <2>5. \A i \in 1 .. L : \A j \in i .. L : j \in 1 .. L /\ j \in i .. Len(up')
    BY <1>2, <1>13, <1>6, <2>1
  <2>6. ASSUME b \in pressedButtons'
        PROVE  b \in buttons' \/ \E j \in 1 .. Len(up') : LiftsButton(up'[j].body, b)
    <3>1. b \in buttons \/ \E j \in 1 .. L : LiftsButton(up[j].body, b)
      BY <1>3, <2>1, <2>6 DEF ButtonLifted, L
    <3> QED BY <2>2, <2>3, <3>1
  <2>7. ASSUME NEW i \in 1 .. Len(up'), ButtonDown(up'[i].body, b)
        PROVE  b \in buttons' \/ \E j \in i .. Len(up') : LiftsButton(up'[j].body, b)
    <3>1. CASE i \in 1 .. L
      <4>1. b \in buttons \/ \E j \in i .. L : LiftsButton(up[j].body, b)
        BY <2>1, <2>2, <2>7, <3>1 DEF ButtonLifted, L
      <4>2. CASE b \in buttons
        BY <2>3, <2>4, <3>1, <4>2
      <4>3. CASE \E j \in i .. L : LiftsButton(up[j].body, b)
        BY <2>2, <2>5, <3>1, <4>3
      <4> QED BY <4>1, <4>2, <4>3
    <3>2. CASE i \notin 1 .. L
      <4>1. PICK x \in 1 .. Len(msgs) : i = L + x
        <5>1. i - L \in 1 .. Len(msgs) /\ i = L + (i - L)
          BY <1>2, <1>13, <1>6, <2>1, <3>2
        <5> QED BY <5>1
      <4>2. b \in buttons' \/ \E j \in x .. Len(msgs) : LiftsButton(msgs[j], b)
        BY <2>1, <2>2, <2>7, <4>1
      <4>3. \A j \in x .. Len(msgs) : j \in 1 .. Len(msgs) /\ L + j \in i .. Len(up')
        BY <1>2, <1>13, <1>6, <2>1, <4>1
      <4> QED BY <2>2, <4>2, <4>3
    <3> QED BY <3>1, <3>2
  <2> QED BY <2>6, <2>7 DEF ButtonLifted
<1>14. Lifted'
  <2> SUFFICES ASSUME session = "up", spoilt = {}
               PROVE  /\ \A u \in Usages \ {LeftShift} : KeyLifted(u)'
                      /\ \A b \in Buttons : ButtonLifted(b)'
    BY <1>3 DEF Lifted
  <2>1. CASE serving # "admitted"
    BY <1>12, <1>13, <2>1
  <2>2. CASE serving = "admitted"
    <3>1. up' = <<>> /\ pressedKeys' = {} /\ pressedButtons' = {}
      BY <1>1, <1>3, <1>7, <2>2 DEF Path, Quiet
    <3>2. 1 .. Len(up') = {}
      BY <3>1
    <3> QED BY <3>1, <3>2 DEF KeyLifted, ButtonLifted
  <2> QED BY <2>1, <2>2
<1>15. ASSUME session = "up", n # 0, n = Len(msgs)
       PROVE  Len(up') # 0 /\ up'[Len(up')].body = msgs[Len(msgs)]
  <2>1. n \in 1 .. n /\ Len(up') = L + n
    BY <1>1, <1>6, <1>15
  <2>2. Len(up') # 0
    BY <1>1, <1>2, <2>1
  <2> QED BY <1>6, <1>15, <2>1, <2>2
<1> QED BY <1>8, <1>9, <1>10, <1>11, <1>14, <1>15

LEMMA OneMessage ==
    ASSUME NEW m \in Body
    PROVE  <<m>> \in Seq(Body) /\ Len(<<m>>) = 1 /\ <<m>>[1] = m
OBVIOUS

\* Nothing is sent, and the focus is not lost.
LEMMA NothingSent ==
    ASSUME Path, focused' \in BOOLEAN, (connected /\ ~focused') => ~focused,
           UNCHANGED <<cGeneration, cSequence, connected, keys, buttons, up, serving, down, hostVars, injVars>>
    PROVE  Path'
BY SMTT(30) DEF Path, hostVars, injVars, InputTyped, NetTyped, HostTyped, InjectorTyped, Together, Quiet, Ordered, InOrder,
       Screen, Lifted, KeyLifted, ButtonLifted, Unfocused

\* InputState.Key
LEMMA KeyKeeps ==
    ASSUME Path, NEW u \in Usages, NEW action \in {"down", "up"}, NEW bit \in BOOLEAN,
           InputKey(u, action, bit), UNCHANGED <<serving, down, hostVars, injVars>>
    PROVE  Path'
<1> DEFINE m == KeyMsg(u, action, bit)
<1>1. CASE UNCHANGED <<inputVars, up>>
  BY <1>1, NothingSent DEF inputVars, Path, InputTyped
<1>2. CASE Active /\ (action = "down") # (u \in DOMAIN keys)
  <2>1. PICK n \in Accepted(<<m>>) :
           /\ Send(<<m>>, n)
           /\ keys' = IF n = 0 THEN keys
                      ELSE IF action = "down"
                      THEN [k \in DOMAIN keys \cup {u} |-> IF k = u THEN bit ELSE keys[k]]
                      ELSE [k \in DOMAIN keys \ {u} |-> keys[k]]
           /\ UNCHANGED <<cGeneration, connected, focused, buttons>>
    BY <1>2 DEF InputKey
  <2>2. connected /\ focused
    BY <1>2 DEF Active
  <2>3. m \in Body /\ m.kind = "key" /\ m.what = u /\ m.action = action
    BY KindsOfBody, KindsOfMessage
  <2> HIDE DEF m
  <2>4. <<m>> \in Seq(Body) /\ Len(<<m>>) = 1 /\ <<m>>[1] = m
    BY <2>3, OneMessage
  <2>5. /\ n = 0 => keys' = keys
        /\ n # 0 /\ action = "down" => /\ DOMAIN keys' = DOMAIN keys \cup {u}
                                       /\ \A k \in DOMAIN keys' : keys'[k] = bit \/ (k \in DOMAIN keys /\ keys'[k] = keys[k])
        /\ n # 0 /\ action = "up" => /\ DOMAIN keys' = DOMAIN keys \ {u}
                                     /\ \A k \in DOMAIN keys' : keys'[k] = keys[k]
    BY <2>1
  <2>6. /\ DOMAIN keys' \subseteq Usages /\ IsFiniteSet(DOMAIN keys')
        /\ \A k \in DOMAIN keys' : keys'[k] \in BOOLEAN
    <3>1. DOMAIN keys \subseteq Usages /\ IsFiniteSet(DOMAIN keys) /\ \A k \in DOMAIN keys : keys[k] \in BOOLEAN
      BY DEF Path, InputTyped
    <3>2. IsFiniteSet(DOMAIN keys \cup {u}) /\ IsFiniteSet(DOMAIN keys \ {u})
      BY <3>1, FS_AddElement, FS_RemoveElement
    <3>3. CASE n = 0
      BY <2>5, <3>1, <3>3
    <3>4. CASE n # 0 /\ action = "down"
      BY <2>5, <3>1, <3>2, <3>4
    <3>5. CASE n # 0 /\ action = "up"
      BY <2>5, <3>1, <3>2, <3>5
    <3> QED BY <3>3, <3>4, <3>5
  <2>7. 1 \in 1 .. 1 /\ 1 \in 1 .. Len(<<m>>) /\ \A i \in 1 .. Len(<<m>>) : i = 1
    BY <2>4
  <2>8. n = Len(<<m>>) => \A v \in Usages :
           /\ v \in DOMAIN keys => v \in DOMAIN keys' \/ \E i \in 1 .. Len(<<m>>) : LiftsKey(<<m>>[i], v)
           /\ \A i \in 1 .. Len(<<m>>) : KeyDown(<<m>>[i], v) =>
                 v \in DOMAIN keys' \/ \E j \in i .. Len(<<m>>) : LiftsKey(<<m>>[j], v)
    <3> SUFFICES ASSUME n = 1, NEW v \in Usages
                 PROVE  /\ v \in DOMAIN keys => v \in DOMAIN keys' \/ LiftsKey(m, v)
                        /\ KeyDown(m, v) => v \in DOMAIN keys'
      BY <2>4, <2>7
    <3>1. CASE action = "down"
      BY <2>3, <2>5, <3>1 DEF KeyDown
    <3>2. CASE action = "up"
      BY <2>3, <2>5, <3>2 DEF KeyDown, LiftsKey
    <3> QED BY <3>1, <3>2
  <2>9. n = Len(<<m>>) => \A b \in Buttons :
           /\ b \in buttons => b \in buttons' \/ \E i \in 1 .. Len(<<m>>) : LiftsButton(<<m>>[i], b)
           /\ \A i \in 1 .. Len(<<m>>) : ButtonDown(<<m>>[i], b) =>
                 b \in buttons' \/ \E j \in i .. Len(<<m>>) : LiftsButton(<<m>>[j], b)
    BY <2>1, <2>3, <2>4, <2>7 DEF ButtonDown
  <2>10. /\ cSequence' \in Nat /\ NetTyped' /\ HostTyped' /\ InjectorTyped'
         /\ Together' /\ Quiet' /\ Ordered' /\ Screen' /\ Lifted'
    BY <2>1, <2>2, <2>4, <2>8, <2>9, SendKeeps
  <2>11. InputTyped'
    BY <2>1, <2>6, <2>10 DEF Path, InputTyped
  <2>12. Unfocused'
    BY <2>1, <2>2 DEF Unfocused
  <2> QED BY <2>10, <2>11, <2>12 DEF Path
<1> QED BY <1>1, <1>2 DEF InputKey

\* InputState.Button
LEMMA ButtonKeeps ==
    ASSUME Path, NEW c \in Buttons, NEW action \in {"down", "up"},
           InputButton(c, action), UNCHANGED <<serving, down, hostVars, injVars>>
    PROVE  Path'
<1> DEFINE m == ButtonMsg(c, action)
<1>1. CASE UNCHANGED <<inputVars, up>>
  BY <1>1, NothingSent DEF inputVars, Path, InputTyped
<1>2. CASE Active /\ (action = "down") # (c \in buttons)
  <2>1. PICK n \in Accepted(<<m>>) :
           /\ Send(<<m>>, n)
           /\ buttons' = IF n = 0 THEN buttons
                         ELSE IF action = "down" THEN buttons \cup {c} ELSE buttons \ {c}
           /\ UNCHANGED <<cGeneration, connected, focused, keys>>
    BY <1>2 DEF InputButton
  <2>2. connected /\ focused
    BY <1>2 DEF Active
  <2>3. m \in Body /\ m.kind = "button" /\ m.what = c /\ m.action = action
    BY KindsOfBody, KindsOfMessage
  <2> HIDE DEF m
  <2>4. <<m>> \in Seq(Body) /\ Len(<<m>>) = 1 /\ <<m>>[1] = m
    BY <2>3, OneMessage
  <2>5. buttons' \subseteq Buttons /\ IsFiniteSet(buttons')
    <3>1. buttons \subseteq Buttons /\ IsFiniteSet(buttons)
      BY DEF Path, InputTyped
    <3>2. IsFiniteSet(buttons \cup {c}) /\ IsFiniteSet(buttons \ {c})
      BY <3>1, FS_AddElement, FS_RemoveElement
    <3> QED BY <2>1, <3>1, <3>2
  <2>6. 1 \in 1 .. 1 /\ 1 \in 1 .. Len(<<m>>) /\ \A i \in 1 .. Len(<<m>>) : i = 1
    BY <2>4
  <2>7. n = Len(<<m>>) => \A b \in Buttons :
           /\ b \in buttons => b \in buttons' \/ \E i \in 1 .. Len(<<m>>) : LiftsButton(<<m>>[i], b)
           /\ \A i \in 1 .. Len(<<m>>) : ButtonDown(<<m>>[i], b) =>
                 b \in buttons' \/ \E j \in i .. Len(<<m>>) : LiftsButton(<<m>>[j], b)
    <3> SUFFICES ASSUME n = 1, NEW b \in Buttons
                 PROVE  /\ b \in buttons => b \in buttons' \/ LiftsButton(m, b)
                        /\ ButtonDown(m, b) => b \in buttons'
      BY <2>4, <2>6
    <3> QED BY <2>1, <2>3 DEF ButtonDown, LiftsButton
  <2>8. n = Len(<<m>>) => \A v \in Usages :
           /\ v \in DOMAIN keys => v \in DOMAIN keys' \/ \E i \in 1 .. Len(<<m>>) : LiftsKey(<<m>>[i], v)
           /\ \A i \in 1 .. Len(<<m>>) : KeyDown(<<m>>[i], v) =>
                 v \in DOMAIN keys' \/ \E j \in i .. Len(<<m>>) : LiftsKey(<<m>>[j], v)
    BY <2>1, <2>3, <2>4, <2>6 DEF KeyDown
  <2>9. /\ cSequence' \in Nat /\ NetTyped' /\ HostTyped' /\ InjectorTyped'
        /\ Together' /\ Quiet' /\ Ordered' /\ Screen' /\ Lifted'
    BY <2>1, <2>2, <2>4, <2>7, <2>8, SendKeeps
  <2>10. InputTyped'
    BY <2>1, <2>5, <2>9 DEF Path, InputTyped
  <2>11. Unfocused'
    BY <2>1, <2>2 DEF Unfocused
  <2> QED BY <2>9, <2>10, <2>11 DEF Path
<1> QED BY <1>1, <1>2 DEF InputButton

\* A pointer event or a wheel detent, with the focus.
LEMMA PointerKeeps ==
    ASSUME Path, connected, NEW n \in Accepted(<<PointerMsg>>), Send(<<PointerMsg>>, n), focused' = TRUE,
           UNCHANGED <<cGeneration, connected, keys, buttons, serving, down, hostVars, injVars>>
    PROVE  Path'
<1>1. PointerMsg \in Body /\ PointerMsg.kind = "pointer"
  BY KindsOfBody, KindsOfMessage
<1>2. <<PointerMsg>> \in Seq(Body) /\ Len(<<PointerMsg>>) = 1 /\ <<PointerMsg>>[1] = PointerMsg
  BY <1>1, OneMessage
<1>3. \A i \in 1 .. Len(<<PointerMsg>>) : <<PointerMsg>>[i].kind = "pointer"
  BY <1>1, <1>2
<1>4. /\ cSequence' \in Nat /\ NetTyped' /\ HostTyped' /\ InjectorTyped'
      /\ Together' /\ Quiet' /\ Ordered' /\ Screen' /\ Lifted'
  BY <1>2, <1>3, SendKeeps DEF KeyDown, ButtonDown
<1>5. InputTyped'
  BY <1>4 DEF Path, InputTyped
<1>6. Unfocused'
  BY DEF Unfocused
<1> QED BY <1>4, <1>5, <1>6 DEF Path

LEMMA StillHeldTyped ==
    ASSUME Path, NEW n, StillHeld(n)
    PROVE  /\ DOMAIN keys' \subseteq Usages /\ IsFiniteSet(DOMAIN keys')
           /\ \A k \in DOMAIN keys' : keys'[k] \in BOOLEAN
           /\ buttons' \subseteq Buttons /\ IsFiniteSet(buttons')
<1>1. /\ DOMAIN keys' \subseteq DOMAIN keys /\ \A k \in DOMAIN keys' : keys'[k] = keys[k]
      /\ buttons' \subseteq buttons
  BY DEF StillHeld
<1>2. /\ DOMAIN keys \subseteq Usages /\ IsFiniteSet(DOMAIN keys) /\ \A k \in DOMAIN keys : keys[k] \in BOOLEAN
      /\ buttons \subseteq Buttons /\ IsFiniteSet(buttons)
  BY DEF Path, InputTyped
<1>3. IsFiniteSet(DOMAIN keys') /\ IsFiniteSet(buttons')
  BY <1>1, <1>2, FS_Subset
<1> QED BY <1>1, <1>2, <1>3

\* SetFocused(false)
LEMMA UnfocusKeeps ==
    ASSUME Path, Unfocus, UNCHANGED <<serving, down, hostVars, injVars>>
    PROVE  Path'
<1> DEFINE msgs == ReleaseMsgs \o <<FocusLostMsg>>
           l == Len(ReleaseMsgs)
<1>1. CASE UNCHANGED <<inputVars, up>>
  BY <1>1, NothingSent DEF inputVars, Path, InputTyped
<1>2. CASE connected /\ focused
  <2>1. PICK n \in Accepted(msgs) : /\ Send(msgs, n) /\ StillHeld(n)
                                    /\ connected' = (n = l + 1) /\ focused' = ~(n = l + 1)
                                    /\ UNCHANGED cGeneration
    BY <1>2 DEF Unfocus
  <2>2. FocusLostMsg \in Body /\ FocusLostMsg.kind = "focus_lost"
    BY KindsOfBody, KindsOfMessage
  <2>3. ReleaseMsgs \in Seq(Body) /\ \A i \in 1 .. l : ReleaseMsgs[i].kind # "focus_lost" /\ ReleaseMsgs[i].action = "up"
    BY ReleaseList DEF Path
  <2>4. /\ msgs \in Seq(Body) /\ Len(msgs) = l + 1 /\ l \in Nat
        /\ \A i \in 1 .. l : msgs[i] = ReleaseMsgs[i]
        /\ msgs[l + 1] = FocusLostMsg
    <3>1. <<FocusLostMsg>> \in Seq(Body) /\ Len(<<FocusLostMsg>>) = 1 /\ <<FocusLostMsg>>[1] = FocusLostMsg
      BY <2>2, OneMessage
    <3>2. /\ msgs \in Seq(Body) /\ Len(msgs) = l + 1
          /\ \A i \in 1 .. l + 1 : msgs[i] = IF i <= l THEN ReleaseMsgs[i] ELSE <<FocusLostMsg>>[i - l]
      BY <2>3, <3>1, ConcatProperties
    <3>3. l \in Nat
      BY <2>3, LenProperties
    <3> HIDE DEF msgs, l
    <3>4. \A i \in 1 .. l : i \in 1 .. l + 1 /\ i <= l
      BY <3>3
    <3>5. l + 1 \in 1 .. l + 1 /\ ~(l + 1 <= l) /\ (l + 1) - l = 1
      BY <3>3
    <3>6. msgs[l + 1] = <<FocusLostMsg>>[(l + 1) - l]
      BY <3>2, <3>5
    <3> QED BY <3>1, <3>2, <3>3, <3>4, <3>5, <3>6
  <2> HIDE DEF msgs, l
  <2>5. \A i \in 1 .. Len(msgs) : ~KeyDown(msgs[i], msgs[i].what) /\ ~ButtonDown(msgs[i], msgs[i].what)
    <3> TAKE i \in 1 .. Len(msgs)
    <3>1. i \in 1 .. l \/ i = l + 1
      BY <2>4
    <3> QED BY <2>2, <2>3, <2>4, <3>1 DEF KeyDown, ButtonDown
  <2>6. Len(msgs) \in 1 .. Len(msgs) /\ msgs[Len(msgs)].kind = "focus_lost" /\ Len(msgs) # 0
    BY <2>2, <2>4
  <2>7. /\ \A u \in Usages : LiftsKey(msgs[Len(msgs)], u) /\ \A i \in 1 .. Len(msgs) : ~KeyDown(msgs[i], u)
        /\ \A b \in Buttons : LiftsButton(msgs[Len(msgs)], b) /\ \A i \in 1 .. Len(msgs) : ~ButtonDown(msgs[i], b)
    BY <2>5, <2>6 DEF LiftsKey, LiftsButton, KeyDown, ButtonDown
  <2>8. /\ cSequence' \in Nat /\ NetTyped' /\ HostTyped' /\ InjectorTyped'
        /\ Together' /\ Quiet' /\ Ordered' /\ Screen' /\ Lifted'
        /\ session = "up" /\ n # 0 /\ n = Len(msgs) => Len(up') # 0 /\ up'[Len(up')].body = msgs[Len(msgs)]
    BY <1>2, <2>1, <2>4, <2>6, <2>7, SendKeeps
  <2>9. InputTyped'
    BY <2>1, <2>8, StillHeldTyped DEF Path, InputTyped
  <2>10. Unfocused'
    BY <2>1, <2>4, <2>6, <2>8 DEF Unfocused, hostVars
  <2> QED BY <2>8, <2>9, <2>10 DEF Path
<1> QED BY <1>1, <1>2 DEF Unfocus

\* Disconnect
LEMMA DisconnectKeeps ==
    ASSUME Path, Disconnect, UNCHANGED <<serving, down, hostVars, injVars>>
    PROVE  Path'
<1>1. CASE UNCHANGED <<inputVars, up>>
  BY <1>1, NothingSent DEF inputVars, Path, InputTyped
<1>2. CASE connected
  <2>1. PICK n \in Accepted(ReleaseMsgs) : /\ Send(ReleaseMsgs, n) /\ StillHeld(n)
                                           /\ connected' = FALSE /\ focused' = FALSE
                                           /\ UNCHANGED cGeneration
    BY <1>2 DEF Disconnect
  <2>2. /\ ReleaseMsgs \in Seq(Body)
        /\ \A u \in DOMAIN keys : \E i \in 1 .. Len(ReleaseMsgs) : LiftsKey(ReleaseMsgs[i], u)
        /\ \A b \in buttons : \E i \in 1 .. Len(ReleaseMsgs) : LiftsButton(ReleaseMsgs[i], b)
        /\ \A i \in 1 .. Len(ReleaseMsgs) : ReleaseMsgs[i].action = "up"
    BY ReleaseList DEF Path
  <2>3. \A i \in 1 .. Len(ReleaseMsgs) : /\ \A u \in Usages : ~KeyDown(ReleaseMsgs[i], u)
                                         /\ \A b \in Buttons : ~ButtonDown(ReleaseMsgs[i], b)
    BY <2>2 DEF KeyDown, ButtonDown
  <2>4. /\ cSequence' \in Nat /\ NetTyped' /\ HostTyped' /\ InjectorTyped'
        /\ Together' /\ Quiet' /\ Ordered' /\ Screen' /\ Lifted'
    BY <1>2, <2>1, <2>2, <2>3, SendKeeps
  <2>5. InputTyped'
    BY <2>1, <2>4, StillHeldTyped DEF Path, InputTyped
  <2>6. Unfocused'
    BY <2>1 DEF Unfocused
  <2> QED BY <2>4, <2>5, <2>6 DEF Path
<1> QED BY <1>1, <1>2 DEF Disconnect

------------------------------------------------------------------------------
\* handleInput

\* Taking the first message.
LEMMA TakesFirst ==
    ASSUME NEW q \in Seq(Messages), q # <<>>
    PROVE  /\ Tail(q) \in Seq(Messages) /\ Head(q) = q[1] /\ Len(q) \in Nat /\ 1 \in 1 .. Len(q)
           /\ Len(Tail(q)) = Len(q) - 1
           /\ \A i \in 1 .. Len(Tail(q)) : i + 1 \in 1 .. Len(q) /\ Tail(q)[i] = q[i + 1]
           /\ \A i \in 1 .. Len(q) : i # 1 => i - 1 \in 1 .. Len(Tail(q)) /\ Tail(q)[i - 1] = q[i]
           /\ \A i \in 1 .. Len(q) : q[i] \in Messages
<1>1. /\ Tail(q) \in Seq(Messages) /\ Len(Tail(q)) = Len(q) - 1
      /\ \A i \in 1 .. Len(Tail(q)) : Tail(q)[i] = q[i + 1]
  BY HeadTailProperties
<1>2. Len(q) \in Nat /\ Len(q) >= 1
  BY LenProperties, EmptySeq
<1>3. Head(q) = q[1]
  BY <1>2
<1>4. \A i \in 1 .. Len(q) : i # 1 => i - 1 \in 1 .. Len(Tail(q)) /\ Tail(q)[i - 1] = q[i]
  <2> SUFFICES ASSUME NEW i \in 1 .. Len(q), i # 1
               PROVE  i - 1 \in 1 .. Len(Tail(q)) /\ Tail(q)[i - 1] = q[i]
    OBVIOUS
  <2>1. i - 1 \in 1 .. Len(Tail(q)) /\ (i - 1) + 1 = i
    BY <1>1, <1>2
  <2> QED BY <1>1, <2>1
<1> QED BY <1>1, <1>2, <1>3, <1>4, ElementOfSeq

\* Run's deferred ReleaseAll.
LEMMA EndKeeps ==
    ASSUME Path, session = "up", EndSession,
           UNCHANGED <<inputVars, serving, down, sessions, hGeneration, advertised, native,
                       lastInputSeq, rateCount, spoilt, moved>>
    PROVE  Path'
<1>1. up' = <<>> /\ session' = "down" /\ pressedKeys' = {} /\ pressedButtons' = {} /\ resizing' = "no"
  BY DEF EndSession
<1>2. InputTyped' /\ HostTyped' /\ InjectorTyped'
  BY <1>1 DEF Path, inputVars, InputTyped, HostTyped, InjectorTyped
<1>3. NetTyped'
  BY <1>1, EmptySeq DEF Path, NetTyped
<1>4. Together'
  BY <1>1 DEF Path, Together, inputVars
<1>5. Ordered'
  BY <1>1 DEF Path, Ordered, InOrder, inputVars
<1>6. Quiet' /\ Screen' /\ Lifted' /\ Unfocused'
  BY <1>1 DEF Quiet, Screen, Lifted, Unfocused
<1> QED BY <1>2, <1>3, <1>4, <1>5, <1>6 DEF Path

LEMMA ShedKeeps ==
    ASSUME Path, ShedInput
    PROVE  Path'
<1>1. /\ session = "up" /\ up # <<>> /\ up' = Tail(up) /\ spoilt' = spoilt \cup {"shed"}
      /\ UNCHANGED <<inputVars, serving, down, session, sessions, resizing, hGeneration,
                     advertised, native, lastInputSeq, rateCount, injVars>>
  BY DEF ShedInput
<1>2. /\ up' \in Seq(Messages) /\ Len(up') = Len(up) - 1 /\ Len(up) \in Nat
      /\ \A i \in 1 .. Len(up') : i + 1 \in 1 .. Len(up) /\ up'[i] = up[i + 1]
  BY <1>1, TakesFirst DEF Path, NetTyped
<1>3. InputTyped' /\ NetTyped' /\ HostTyped' /\ InjectorTyped' /\ Together' /\ Screen'
  BY <1>1, <1>2 DEF Path, inputVars, injVars, InputTyped, NetTyped, HostTyped, InjectorTyped, Together, Screen
<1>4. Quiet'
  BY <1>1 DEF Path, Quiet, inputVars
<1>5. Ordered'
  <2>1. DOMAIN up = 1 .. Len(up) /\ DOMAIN up' = 1 .. Len(up')
    BY <1>2, LenProperties DEF Path, NetTyped
  <2>2. \A i, j \in 1 .. Len(up') : i < j => i + 1 < j + 1
    BY <1>2
  <2> QED BY <1>1, <1>2, <2>1, <2>2 DEF Path, Ordered, InOrder, inputVars
<1>6. Lifted' /\ Unfocused'
  BY <1>1 DEF Lifted, Unfocused
<1> QED BY <1>3, <1>4, <1>5, <1>6 DEF Path

LEMMA InjectKeeps ==
    ASSUME Path, InjectInput
    PROVE  Path'
<1> DEFINE L == Len(up)
           m == up[1].body
<1>1. /\ session = "up" /\ up # <<>> /\ up' = Tail(up) /\ rateCount < RateLimit /\ rateCount' = rateCount + 1
      /\ lastInputSeq' = Head(up).seq
      /\ UNCHANGED <<inputVars, serving, down, session, sessions, resizing, hGeneration, advertised, native, spoilt>>
      /\ UNCHANGED <<cGeneration, cSequence, connected, focused, keys, buttons>>
  BY DEF InjectInput, WithinRate, inputVars
<1>2. /\ up' \in Seq(Messages) /\ Len(up') = L - 1 /\ L \in Nat /\ 1 \in 1 .. L /\ Head(up) = up[1]
      /\ \A i \in 1 .. Len(up') : i + 1 \in 1 .. L /\ up'[i] = up[i + 1]
      /\ \A i \in 1 .. L : i # 1 => i - 1 \in 1 .. Len(up') /\ up'[i - 1] = up[i]
      /\ \A i \in 1 .. L : up[i] \in Messages
  BY <1>1, TakesFirst DEF Path, NetTyped
<1>3. up[1].seq \in Nat \ {0} /\ m \in Body
  BY <1>2, Bodies
<1>4. /\ pressedKeys' = IF m.kind = "key" THEN Injected(pressedKeys, m)
                        ELSE IF m.kind = "focus_lost" THEN {} ELSE pressedKeys
      /\ pressedButtons' = IF m.kind = "focus_lost" THEN {}
                           ELSE IF m.kind # "button" THEN pressedButtons
                           ELSE IF m.action = "down" THEN pressedButtons \cup {m.what}
                           ELSE pressedButtons \ {m.what}
      /\ moved' = IF m.kind = "pointer" THEN <<advertised, native>> ELSE moved
  BY <1>2 DEF InjectInput
<1>5. /\ m.kind = "key" => m.what \in Usages /\ m.action \in {"down", "up"} /\ m.shift \in BOOLEAN
      /\ m.kind = "button" => m.what \in Buttons /\ m.action \in {"down", "up"}
  <2> HIDE DEF m
  <2> QED BY <1>3 DEF Body
<1> HIDE DEF m, L
<1>6. InjectorTyped'
  <2>1. pressedKeys' \subseteq Usages \cup {LeftShift}
    <3>1. m.kind = "key" => Injected(pressedKeys, m) \subseteq pressedKeys \cup {LeftShift, m.what}
      BY DEF Injected, Synced
    <3> QED BY <1>4, <1>5, <3>1 DEF Path, InjectorTyped
  <2>2. pressedButtons' \subseteq Buttons
    BY <1>4, <1>5 DEF Path, InjectorTyped
  <2>3. moved' \in (Nat \ {0}) \X (Nat \ {0})
    BY <1>4 DEF Path, InjectorTyped, HostTyped
  <2> QED BY <2>1, <2>2, <2>3 DEF InjectorTyped
<1>7. HostTyped'
  <2>1. rateCount' \in 0 .. RateLimit
    BY <1>1, InputAssumption DEF Path, HostTyped
  <2> QED BY <1>1, <1>2, <1>3, <2>1 DEF Path, HostTyped
<1>8. InputTyped' /\ NetTyped' /\ Together' /\ Screen'
  BY <1>1, <1>2 DEF Path, InputTyped, NetTyped, Together, Screen
<1>9. Quiet'
  BY <1>1 DEF Path, Quiet
<1>10. Ordered'
  <2>1. DOMAIN up = 1 .. L /\ DOMAIN up' = 1 .. Len(up')
    BY <1>2, LenProperties DEF Path, NetTyped, L
  <2>2. \A i, j \in 1 .. L : i < j => up[i].seq < up[j].seq
    BY <1>1, <2>1 DEF Path, Ordered, InOrder
  <2>3. \A i \in 1 .. L : up[i].seq <= cSequence
    BY DEF Path, Ordered, L
  <2>4. \A i, j \in 1 .. Len(up') : i < j => up'[i].seq < up'[j].seq
    <3>1. \A i, j \in 1 .. Len(up') : i < j => i + 1 < j + 1
      BY <1>2
    <3> QED BY <1>2, <2>2, <3>1
  <2>5. \A i \in 1 .. Len(up') : up'[i].seq > lastInputSeq'
    <3> TAKE i \in 1 .. Len(up')
    <3>1. i + 1 \in 1 .. L /\ 1 < i + 1 /\ up'[i] = up[i + 1]
      BY <1>2
    <3>2. up[1].seq < up[i + 1].seq
      BY <1>2, <2>2, <3>1
    <3>3. up[i + 1].seq \in Nat
      BY <1>2, <3>1, Bodies
    <3> QED BY <1>1, <1>2, <1>3, <3>1, <3>2, <3>3
  <2>6. lastInputSeq' <= cSequence' /\ \A i \in 1 .. Len(up') : up'[i].seq <= cSequence'
    BY <1>1, <1>2, <2>3
  <2> QED BY <2>1, <2>4, <2>5, <2>6 DEF Ordered, InOrder
<1>11. \A u \in Usages \ {LeftShift} : /\ u \in pressedKeys' => u \in pressedKeys \/ KeyDown(m, u)
                                       /\ LiftsKey(m, u) => u \notin pressedKeys'
  BY <1>4, <1>5 DEF KeyDown, LiftsKey, Injected, Synced
<1>12. \A b \in Buttons : /\ b \in pressedButtons' => b \in pressedButtons \/ ButtonDown(m, b)
                          /\ LiftsButton(m, b) => b \notin pressedButtons'
  BY <1>4, <1>5 DEF ButtonDown, LiftsButton
<1>13. ASSUME session = "up", spoilt = {}, NEW u \in Usages \ {LeftShift}
      PROVE  KeyLifted(u)'
  <2>1. KeyLifted(u)
    BY <1>13 DEF Path, Lifted
  <2>2. \A i \in 1 .. L : \A j \in i .. L : LiftsKey(up[j].body, u) => j = 1 \/ \E x \in 1 .. Len(up') : x = j - 1 /\ LiftsKey(up'[x].body, u)
    <3> SUFFICES ASSUME NEW i \in 1 .. L, NEW j \in i .. L, LiftsKey(up[j].body, u), j # 1
                 PROVE  j - 1 \in 1 .. Len(up') /\ LiftsKey(up'[j - 1].body, u)
      OBVIOUS
    <3>1. j \in 1 .. L
      BY <1>2
    <3> QED BY <1>2, <3>1
  <2>3. ASSUME u \in pressedKeys'
        PROVE  u \in DOMAIN keys' \/ \E j \in 1 .. Len(up') : LiftsKey(up'[j].body, u)
    <3>1. ~LiftsKey(m, u) /\ (u \in pressedKeys \/ KeyDown(m, u))
      BY <1>11, <1>13, <2>3
    <3>2. u \in DOMAIN keys \/ \E j \in 1 .. L : LiftsKey(up[j].body, u)
      BY <1>2, <2>1, <3>1 DEF KeyLifted, L, m
    <3> QED BY <1>1, <1>2, <2>2, <3>1, <3>2 DEF m
  <2>4. ASSUME NEW i \in 1 .. Len(up'), KeyDown(up'[i].body, u)
        PROVE  u \in DOMAIN keys' \/ \E j \in i .. Len(up') : LiftsKey(up'[j].body, u)
    <3>1. i + 1 \in 1 .. L /\ up'[i] = up[i + 1]
      BY <1>2
    <3>2. u \in DOMAIN keys \/ \E j \in i + 1 .. L : LiftsKey(up[j].body, u)
      BY <2>1, <2>4, <3>1 DEF KeyLifted, L
    <3>3. CASE u \in DOMAIN keys
      BY <1>1, <3>3
    <3>4. CASE \E j \in i + 1 .. L : LiftsKey(up[j].body, u)
      <4>1. PICK j \in i + 1 .. L : LiftsKey(up[j].body, u)
        BY <3>4
      <4>2. j # 1 /\ j - 1 \in i .. Len(up')
        BY <1>2, <4>1
      <4>3. PICK x \in 1 .. Len(up') : x = j - 1 /\ LiftsKey(up'[x].body, u)
        BY <2>2, <3>1, <4>1, <4>2
      <4> QED BY <4>2, <4>3
    <3> QED BY <3>2, <3>3, <3>4
  <2> QED BY <2>3, <2>4 DEF KeyLifted
<1>14. ASSUME session = "up", spoilt = {}, NEW b \in Buttons
      PROVE  ButtonLifted(b)'
  <2>1. ButtonLifted(b)
    BY <1>14 DEF Path, Lifted
  <2>2. \A i \in 1 .. L : \A j \in i .. L : LiftsButton(up[j].body, b) => j = 1 \/ \E x \in 1 .. Len(up') : x = j - 1 /\ LiftsButton(up'[x].body, b)
    <3> SUFFICES ASSUME NEW i \in 1 .. L, NEW j \in i .. L, LiftsButton(up[j].body, b), j # 1
                 PROVE  j - 1 \in 1 .. Len(up') /\ LiftsButton(up'[j - 1].body, b)
      OBVIOUS
    <3>1. j \in 1 .. L
      BY <1>2
    <3> QED BY <1>2, <3>1
  <2>3. ASSUME b \in pressedButtons'
        PROVE  b \in buttons' \/ \E j \in 1 .. Len(up') : LiftsButton(up'[j].body, b)
    <3>1. ~LiftsButton(m, b) /\ (b \in pressedButtons \/ ButtonDown(m, b))
      BY <1>12, <1>14, <2>3
    <3>2. b \in buttons \/ \E j \in 1 .. L : LiftsButton(up[j].body, b)
      BY <1>2, <2>1, <3>1 DEF ButtonLifted, L, m
    <3> QED BY <1>1, <1>2, <2>2, <3>1, <3>2 DEF m
  <2>4. ASSUME NEW i \in 1 .. Len(up'), ButtonDown(up'[i].body, b)
        PROVE  b \in buttons' \/ \E j \in i .. Len(up') : LiftsButton(up'[j].body, b)
    <3>1. i + 1 \in 1 .. L /\ up'[i] = up[i + 1]
      BY <1>2
    <3>2. b \in buttons \/ \E j \in i + 1 .. L : LiftsButton(up[j].body, b)
      BY <2>1, <2>4, <3>1 DEF ButtonLifted, L
    <3>3. CASE b \in buttons
      BY <1>1, <3>3
    <3>4. CASE \E j \in i + 1 .. L : LiftsButton(up[j].body, b)
      <4>1. PICK j \in i + 1 .. L : LiftsButton(up[j].body, b)
        BY <3>4
      <4>2. j # 1 /\ j - 1 \in i .. Len(up')
        BY <1>2, <4>1
      <4>3. PICK x \in 1 .. Len(up') : x = j - 1 /\ LiftsButton(up'[x].body, b)
        BY <2>2, <3>1, <4>1, <4>2
      <4> QED BY <4>2, <4>3
    <3> QED BY <3>2, <3>3, <3>4
  <2> QED BY <2>3, <2>4 DEF ButtonLifted
<1>15. Lifted'
  BY <1>1, <1>13, <1>14 DEF Lifted
<1>16. Unfocused'
  <2> SUFFICES ASSUME spoilt = {}, serving = "loop", connected, ~focused
               PROVE  \/ up' = <<>> /\ pressedKeys' = {} /\ pressedButtons' = {}
                      \/ Len(up') # 0 /\ up'[Len(up')].body.kind = "focus_lost"
    BY <1>1 DEF Unfocused
  <2>1. up[L].body.kind = "focus_lost"
    BY <1>1 DEF Path, Unfocused, L
  <2>2. CASE L = 1
    <3>1. m.kind = "focus_lost"
      BY <2>1, <2>2 DEF m
    <3>2. up' = <<>>
      BY <1>2, <2>2, EmptySeq
    <3> QED BY <1>4, <3>1, <3>2
  <2>3. CASE L # 1
    <3>1. L \in 1 .. L /\ L - 1 \in 1 .. Len(up') /\ Len(up') = L - 1 /\ Len(up') # 0
      BY <1>2, <2>3
    <3>2. up'[L - 1] = up[L]
      BY <1>2, <2>3, <3>1
    <3> QED BY <2>1, <3>1, <3>2
  <2> QED BY <2>2, <2>3
<1> QED BY <1>6, <1>7, <1>8, <1>9, <1>10, <1>15, <1>16 DEF Path

------------------------------------------------------------------------------
\* ServeConn, sendCapture and the connections

\* The messages on their way, and what they have to agree with, stay.
LEMMA SamePath ==
    ASSUME Path, UNCHANGED <<inputVars, up, session, spoilt, hGeneration, lastInputSeq, pressedKeys, pressedButtons>>,
           (serving' = "loop") <=> (serving = "loop"),
           NetTyped', HostTyped', InjectorTyped', Together', Quiet', Screen'
    PROVE  Path'
<1>1. InputTyped' /\ Ordered'
  BY DEF Path, inputVars, InputTyped, Ordered, InOrder
<1>2. Lifted'
  BY DEF Path, inputVars, Lifted, KeyLifted, ButtonLifted
<1>3. Unfocused'
  BY DEF Path, inputVars, Unfocused
<1> QED BY <1>1, <1>2, <1>3 DEF Path

LEMMA BeginServeKeeps ==
    ASSUME Path, BeginServe
    PROVE  Path'
<1>1. /\ serving = "idle" /\ session = "down" /\ serving' = "establishing"
      /\ UNCHANGED <<inputVars, up, down, hostVars, injVars>>
  BY DEF BeginServe
<1>2. NetTyped' /\ HostTyped' /\ InjectorTyped' /\ Together' /\ Quiet' /\ Screen'
  BY <1>1 DEF Path, inputVars, hostVars, injVars, NetTyped, HostTyped, InjectorTyped, Together, Quiet, Screen
<1> QED BY <1>1, <1>2, SamePath DEF hostVars, injVars

LEMMA ApplyDisplayKeeps ==
    ASSUME Path, ApplyDisplay
    PROVE  Path'
<1>1. /\ serving \in {"admitted", "loop"} /\ down # <<>> /\ cGeneration' = Head(down) /\ down' = Tail(down)
      /\ serving' = IF serving = "admitted" THEN "configured" ELSE "loop"
      /\ UNCHANGED <<cSequence, connected, focused, keys, buttons, up, hostVars, injVars>>
  BY DEF ApplyDisplay
<1>2. Head(down) \in Nat \ {0} /\ Tail(down) \in Seq(Nat \ {0})
  BY <1>1, HeadTailProperties DEF Path, NetTyped
<1>3. InputTyped' /\ NetTyped' /\ HostTyped' /\ InjectorTyped'
  BY <1>1, <1>2 DEF Path, hostVars, injVars, InputTyped, NetTyped, HostTyped, InjectorTyped
<1>4. Together' /\ Quiet' /\ Screen'
  BY <1>1 DEF Path, hostVars, injVars, Together, Quiet, Screen
<1>5. Ordered'
  BY <1>1 DEF Path, hostVars, Ordered, InOrder
<1>6. Lifted'
  BY <1>1 DEF Path, hostVars, injVars, Lifted, KeyLifted, ButtonLifted
<1>7. Unfocused'
  BY <1>1 DEF Path, hostVars, injVars, Unfocused
<1> QED BY <1>3, <1>4, <1>5, <1>6, <1>7 DEF Path

LEMMA ConnectInputKeeps ==
    ASSUME Path, ConnectInput
    PROVE  Path'
<1>1. /\ serving = "configured" /\ serving' = "loop" /\ connected' = TRUE /\ focused' = FALSE
      /\ keys' = NoKeys /\ buttons' = {}
      /\ spoilt' = IF sessions = 1 /\ cSequence > 0 THEN spoilt \cup {"early"} ELSE spoilt
      /\ UNCHANGED <<cGeneration, cSequence, up, down, session, sessions, resizing,
                     hGeneration, advertised, native, lastInputSeq, rateCount>>
      /\ UNCHANGED <<pressedKeys, pressedButtons, moved>>
  BY DEF ConnectInput, injVars
<1>2. InputTyped'
  <2>1. DOMAIN keys' = {}
    BY <1>1 DEF NoKeys
  <2> QED BY <1>1, <2>1, FS_EmptySet DEF Path, InputTyped
<1>3. NetTyped' /\ HostTyped' /\ InjectorTyped'
  BY <1>1 DEF Path, NetTyped, HostTyped, InjectorTyped
<1>4. Together' /\ Quiet' /\ Screen'
  BY <1>1 DEF Path, Together, Quiet, Screen
<1>5. Ordered'
  BY <1>1 DEF Path, Ordered, InOrder
<1>6. ASSUME session = "up", spoilt' = {}
      PROVE  up' = <<>> /\ pressedKeys' = {} /\ pressedButtons' = {}
  <2>1. sessions # 1 \/ cSequence = 0
    BY <1>1, <1>6 DEF Path, InputTyped
  <2> QED BY <1>1, <1>6, <2>1 DEF Path, Quiet
<1>7. Lifted'
  <2> SUFFICES ASSUME session = "up", spoilt' = {}
               PROVE  /\ \A u \in Usages \ {LeftShift} : KeyLifted(u)'
                      /\ \A b \in Buttons : ButtonLifted(b)'
    BY <1>1 DEF Lifted
  <2>1. 1 .. Len(up') = {}
    BY <1>6
  <2> QED BY <1>6, <2>1 DEF KeyLifted, ButtonLifted
<1>8. Unfocused'
  BY <1>1, <1>6 DEF Unfocused
<1> QED BY <1>2, <1>3, <1>4, <1>5, <1>7, <1>8 DEF Path

LEMMA TeardownKeeps ==
    ASSUME Path, Teardown
    PROVE  Path'
<1>1. /\ serving # "idle" /\ session = "down" /\ serving' = "idle" /\ down' = <<>> /\ connected' = FALSE
      /\ focused' = (focused /\ ~connected)
      /\ UNCHANGED <<cGeneration, cSequence, keys, buttons, up, hostVars, injVars>>
  BY DEF Teardown
<1>2. InputTyped'
  BY <1>1 DEF Path, InputTyped
<1>3. NetTyped'
  BY <1>1, EmptySeq DEF Path, NetTyped
<1>4. HostTyped' /\ InjectorTyped' /\ Together'
  BY <1>1 DEF Path, hostVars, injVars, HostTyped, InjectorTyped, Together
<1>5. Ordered'
  BY <1>1 DEF Path, hostVars, Ordered, InOrder
<1>6. Quiet' /\ Screen' /\ Lifted' /\ Unfocused'
  BY <1>1 DEF hostVars, Quiet, Screen, Lifted, Unfocused
<1> QED BY <1>2, <1>3, <1>4, <1>5, <1>6 DEF Path

LEMMA NewSessionKeeps ==
    ASSUME Path, NewSession
    PROVE  Path'
<1>1. /\ session = "down" /\ serving = "establishing" /\ serving' = "admitted"
      /\ session' = "up" /\ sessions' = sessions + 1
      /\ hGeneration' = 1 /\ lastInputSeq' = 0 /\ rateCount' = 0 /\ spoilt' = {}
      /\ advertised' = native /\ down' = <<1>>
      /\ UNCHANGED <<up, resizing, native>>
      /\ UNCHANGED <<cGeneration, cSequence, connected, focused, keys, buttons>>
      /\ UNCHANGED <<pressedKeys, pressedButtons, moved>>
  BY DEF NewSession, inputVars, injVars
<1>2. up = <<>> /\ pressedKeys = {} /\ pressedButtons = {} /\ resizing = "no" /\ (connected => sessions = 0)
  BY <1>1 DEF Path, Together
<1>3. InputTyped' /\ InjectorTyped'
  BY <1>1 DEF Path, InputTyped, InjectorTyped
<1>4. NetTyped'
  BY <1>1 DEF Path, NetTyped
<1>5. HostTyped'
  <2>1. 0 \in 0 .. RateLimit /\ 0 \in Nat /\ 1 \in Nat
    BY InputAssumption
  <2> QED BY <1>1, <2>1 DEF Path, HostTyped
<1>6. Together'
  BY <1>1, <1>2, <1>5 DEF Path, Together, HostTyped
<1>7. Quiet' /\ Screen' /\ Unfocused'
  BY <1>1, <1>2 DEF Quiet, Screen, Unfocused
<1>8. Ordered'
  BY <1>1, <1>2 DEF Path, InputTyped, Ordered, InOrder
<1>9. Lifted'
  BY <1>1, <1>2 DEF Lifted, KeyLifted, ButtonLifted
<1> QED BY <1>3, <1>4, <1>5, <1>6, <1>7, <1>8, <1>9 DEF Path

LEMMA ResizeKeeps ==
    ASSUME Path, Resize
    PROVE  Path'
<1>1. CASE CaptureResized
  <2>1. /\ session = "up" /\ resizing = "no" /\ resizing' = "captured" /\ native' = native + 1
        /\ UNCHANGED <<inputVars, netVars, session, sessions, hGeneration, advertised, lastInputSeq,
                       rateCount, spoilt, injVars>>
    BY <1>1 DEF CaptureResized
  <2>2. NetTyped' /\ HostTyped' /\ InjectorTyped' /\ Together' /\ Quiet' /\ Screen'
    BY <2>1 DEF Path, inputVars, netVars, injVars, NetTyped, HostTyped, InjectorTyped, Together, Quiet, Screen
  <2> QED BY <2>1, <2>2, SamePath DEF netVars, injVars
<1>2. CASE AnnounceResized
  <2>1. /\ session = "up" /\ resizing = "captured" /\ resizing' = "announced" /\ down' = Append(down, hGeneration + 1)
        /\ UNCHANGED <<inputVars, serving, up, session, sessions, hGeneration, advertised, native, lastInputSeq,
                       rateCount, spoilt, injVars>>
    BY <1>2 DEF AnnounceResized
  <2>2. down' \in Seq(Nat \ {0})
    <3>1. hGeneration + 1 \in Nat \ {0}
      BY DEF Path, HostTyped
    <3> QED BY <2>1, <3>1, AppendProperties DEF Path, NetTyped
  <2>3. NetTyped' /\ HostTyped' /\ InjectorTyped' /\ Together' /\ Quiet' /\ Screen'
    BY <2>1, <2>2 DEF Path, inputVars, injVars, NetTyped, HostTyped, InjectorTyped, Together, Quiet, Screen
  <2> QED BY <2>1, <2>3, SamePath DEF injVars
<1>3. CASE AdoptResized
  <2>1. /\ session = "up" /\ resizing = "announced" /\ resizing' = "no" /\ hGeneration' = hGeneration + 1
        /\ advertised' = native /\ lastInputSeq' = 0
        /\ UNCHANGED <<inputVars, netVars, session, sessions, native, rateCount, spoilt, injVars>>
        /\ UNCHANGED <<cGeneration, cSequence, connected, focused, keys, buttons>>
        /\ UNCHANGED <<serving, up, down, pressedKeys, pressedButtons, moved>>
    BY <1>3 DEF AdoptResized, inputVars, netVars, injVars
  <2>2. InputTyped' /\ NetTyped' /\ HostTyped' /\ InjectorTyped'
    BY <2>1 DEF Path, InputTyped, NetTyped, HostTyped, InjectorTyped
  <2>3. Together' /\ Quiet' /\ Screen'
    BY <2>1 DEF Path, Together, Quiet, Screen
  <2>4. Ordered'
    <3>1. DOMAIN up = 1 .. Len(up)
      BY LenProperties DEF Path, NetTyped
    <3>2. \A k \in 1 .. Len(up) : up[k].seq > 0
      <4> TAKE k \in 1 .. Len(up)
      <4>1. up[k] \in Messages
        BY ElementOfSeq DEF Path, NetTyped
      <4> QED BY <4>1, Bodies
    <3> QED BY <2>1, <3>1, <3>2 DEF Path, InputTyped, Ordered, InOrder
  <2>5. Lifted'
    BY <2>1 DEF Path, Lifted, KeyLifted, ButtonLifted
  <2>6. Unfocused'
    BY <2>1 DEF Path, Unfocused
  <2> QED BY <2>2, <2>3, <2>4, <2>5, <2>6 DEF Path
<1> QED BY <1>1, <1>2, <1>3 DEF Resize

------------------------------------------------------------------------------
\* The user

LEMMA UserKeeps ==
    ASSUME IInv, User \/ LetGo
    PROVE  IInv'
<1> USE DEF IInv
<1>1. ASSUME NEW u \in Usages, PressKey(u)  PROVE IInv'
  <2>1. /\ physical' = physical \cup {u} /\ shift' = (shift \/ u \in ShiftUsages) /\ events' = events + 1
        /\ InputKey(u, "down", shift') /\ UNCHANGED <<quit, serving, down, hostVars, injVars>>
    BY <1>1 DEF PressKey, UserActs
  <2>2. shift' \in BOOLEAN
    BY <2>1
  <2>3. UserTyped'
    BY <2>1, <2>2 DEF UserTyped
  <2>4. Path'
    BY <2>1, <2>2, KeyKeeps
  <2> QED BY <2>3, <2>4
<1>2. ASSUME NEW u \in Usages, ReleaseKey(u)  PROVE IInv'
  <2>1. /\ physical' = physical \ {u} /\ shift' = (shift /\ u \notin ShiftUsages)
        /\ InputKey(u, "up", shift) /\ UNCHANGED <<events, quit, serving, down, hostVars, injVars>>
    BY <1>2 DEF ReleaseKey
  <2>2. UserTyped'
    BY <2>1 DEF UserTyped
  <2>3. Path'
    BY <2>1, KeyKeeps DEF UserTyped
  <2> QED BY <2>2, <2>3
<1>3. ASSUME NEW b \in Buttons, NEW action \in {"down", "up"}, Click(b, action)  PROVE IInv'
  <2>1. /\ events' = events + 1 /\ InputButton(b, action)
        /\ UNCHANGED <<physical, shift, quit, serving, down, hostVars, injVars>>
    BY <1>3 DEF Click, UserActs
  <2>2. UserTyped'
    BY <2>1 DEF UserTyped
  <2> QED BY <2>1, <2>2, ButtonKeeps
<1>4. ASSUME PointAt  PROVE IInv'
  <2>1. /\ events' = events + 1 /\ InputPointer
        /\ UNCHANGED <<physical, shift, quit, serving, down, hostVars, injVars>>
    BY <1>4 DEF PointAt, UserActs
  <2>2. UserTyped'
    BY <2>1 DEF UserTyped
  <2>3. CASE Active
    <3>1. connected /\ focused
      BY <2>3 DEF Active
    <3>2. PICK n \in Accepted(<<PointerMsg>>) :
             Send(<<PointerMsg>>, n) /\ UNCHANGED <<cGeneration, connected, focused, keys, buttons>>
      BY <2>1, <2>3 DEF InputPointer
    <3>3. Path'
      BY <2>1, <3>1, <3>2, PointerKeeps DEF Path, InputTyped
    <3> QED BY <2>2, <3>3
  <2>4. CASE ~Active
    <3>1. UNCHANGED <<inputVars, up>>
      BY <2>1, <2>4 DEF InputPointer
    <3>2. Path'
      BY <2>1, <3>1, NothingSent DEF inputVars, Path, InputTyped
    <3> QED BY <2>2, <3>2
  <2> QED BY <2>3, <2>4
<1>5. ASSUME FocusGained  PROVE IInv'
  <2>1. /\ events' = events + 1 /\ focused' = (focused \/ connected)
        /\ UNCHANGED <<physical, shift, quit, cGeneration, cSequence, connected, keys, buttons, netVars,
                       hostVars, injVars>>
    BY <1>5 DEF FocusGained, UserActs
  <2>2. UserTyped'
    BY <2>1 DEF UserTyped
  <2>3. focused' \in BOOLEAN
    BY <2>1
  <2>4. Path'
    BY <2>1, <2>3, NothingSent DEF netVars
  <2> QED BY <2>2, <2>4
<1>6. ASSUME FocusLost \/ MouseOut  PROVE IInv'
  <2>1. /\ events' = events + 1 /\ Unfocus
        /\ UNCHANGED <<physical, quit, serving, down, hostVars, injVars>>
    BY <1>6 DEF FocusLost, MouseOut, UserActs
  <2>2. shift' \in BOOLEAN
    <3>1. CASE FocusLost
      BY <3>1 DEF FocusLost
    <3>2. CASE MouseOut
      BY <3>2 DEF MouseOut, UserTyped
    <3> QED BY <1>6, <3>1, <3>2
  <2>3. UserTyped'
    BY <2>1, <2>2 DEF UserTyped
  <2> QED BY <2>1, <2>3, UnfocusKeeps
<1>7. ASSUME MouseIn  PROVE IInv'
  <2>1. /\ events' = events + 1 /\ focused' = (focused \/ connected)
        /\ UNCHANGED <<physical, shift, quit, cGeneration, connected, keys, buttons, serving,
                       down, hostVars, injVars>>
    BY <1>7 DEF MouseIn, UserActs
  <2>2. UserTyped'
    BY <2>1 DEF UserTyped
  <2>3. CASE connected /\ cGeneration # 0
    <3>1. PICK n \in Accepted(<<PointerMsg>>) : Send(<<PointerMsg>>, n)
      BY <1>7, <2>3 DEF MouseIn
    <3>2. focused' = TRUE
      BY <2>1, <2>3
    <3>3. Path'
      BY <2>1, <2>3, <3>1, <3>2, PointerKeeps
    <3> QED BY <2>2, <3>3
  <2>4. CASE ~(connected /\ cGeneration # 0)
    <3>1. UNCHANGED <<cSequence, up>>
      BY <1>7, <2>4 DEF MouseIn
    <3>2. focused' \in BOOLEAN
      BY <2>1
    <3>3. Path'
      BY <2>1, <3>1, <3>2, NothingSent
    <3> QED BY <2>2, <3>3
  <2> QED BY <2>3, <2>4
<1>8. ASSUME Quit  PROVE IInv'
  <2>1. quit' = TRUE /\ Disconnect /\ UNCHANGED <<physical, shift, events, serving, down, hostVars, injVars>>
    BY <1>8 DEF Quit
  <2>2. UserTyped'
    BY <2>1 DEF UserTyped
  <2> QED BY <2>1, <2>2, DisconnectKeeps
<1> QED BY <1>1, <1>2, <1>3, <1>4, <1>5, <1>6, <1>7, <1>8 DEF User, LetGo

------------------------------------------------------------------------------
LEMMA Start ==
    ASSUME Init
    PROVE  IInv
<1> USE DEF Init
<1>1. UserTyped
  BY DEF UserTyped
<1>2. InputTyped
  <2>1. DOMAIN keys = {}
    BY DEF NoKeys
  <2> QED BY <2>1, FS_EmptySet DEF InputTyped
<1>3. NetTyped
  BY EmptySeq DEF NetTyped
<1>4. HostTyped
  <2>1. 0 \in 0 .. RateLimit
    BY InputAssumption
  <2> QED BY <2>1 DEF HostTyped
<1>5. InjectorTyped /\ Together /\ Quiet /\ Screen /\ Lifted /\ Unfocused
  BY DEF InjectorTyped, Together, Quiet, Screen, Lifted, Unfocused
<1>6. Ordered
  BY DEF Ordered, InOrder
<1> QED BY <1>1, <1>2, <1>3, <1>4, <1>5, <1>6 DEF IInv, Path

LEMMA Step ==
    ASSUME IInv, [Next]_vars
    PROVE  IInv'
<1>1. ASSUME Client  PROVE IInv'
  <2>1. UNCHANGED userVars
    BY <1>1 DEF Client, BeginServe, ApplyDisplay, ConnectInput, Teardown
  <2> QED BY <1>1, <2>1, BeginServeKeeps, ApplyDisplayKeeps, ConnectInputKeeps, TeardownKeeps
          DEF Client, IInv, UserTyped, userVars
<1>2. ASSUME RejectInput \/ LoseConnection  PROVE IInv'
  <2>1. /\ session = "up" /\ EndSession
        /\ UNCHANGED <<userVars, inputVars, serving, down, sessions, hGeneration, advertised, native,
                       lastInputSeq, rateCount, spoilt, moved>>
    BY <1>2 DEF RejectInput, LoseConnection
  <2> QED BY <2>1, EndKeeps DEF IInv, UserTyped, userVars
<1>3. ASSUME ShedInput  PROVE IInv'
  BY <1>3, ShedKeeps DEF ShedInput, IInv, UserTyped, userVars
<1>4. ASSUME InjectInput  PROVE IInv'
  <2>1. UNCHANGED userVars
    BY <1>4 DEF InjectInput
  <2> QED BY <1>4, <2>1, InjectKeeps DEF IInv, UserTyped, userVars
<1>5. ASSUME NewRateWindow  PROVE IInv'
  <2>1. /\ rateCount' = 0
        /\ UNCHANGED <<userVars, inputVars, netVars, session, sessions, resizing, hGeneration,
                       advertised, native, lastInputSeq, spoilt, injVars>>
    BY <1>5 DEF NewRateWindow
  <2>2. 0 \in 0 .. RateLimit
    BY InputAssumption
  <2>3. NetTyped' /\ HostTyped' /\ InjectorTyped' /\ Together' /\ Quiet' /\ Screen'
    BY <2>1, <2>2 DEF IInv, Path, inputVars, netVars, injVars, NetTyped, HostTyped, InjectorTyped, Together,
                      Quiet, Screen
  <2>4. Path'
    BY <2>1, <2>3, SamePath DEF IInv, netVars, injVars
  <2> QED BY <2>1, <2>4 DEF IInv, UserTyped, userVars
<1>6. ASSUME Resize  PROVE IInv'
  <2>1. UNCHANGED userVars
    BY <1>6 DEF Resize, CaptureResized, AnnounceResized, AdoptResized
  <2> QED BY <1>6, <2>1, ResizeKeeps DEF IInv, UserTyped, userVars
<1>7. ASSUME NewSession  PROVE IInv'
  <2>1. UNCHANGED userVars
    BY <1>7 DEF NewSession
  <2> QED BY <1>7, <2>1, NewSessionKeeps DEF IInv, UserTyped, userVars
<1>8. ASSUME UNCHANGED vars  PROVE IInv'
  <2>1. UNCHANGED <<userVars, inputVars, netVars, hostVars, injVars>>
    BY <1>8 DEF vars
  <2>2. Path'
    BY <2>1, NothingSent DEF IInv, Path, InputTyped, inputVars, netVars
  <2> QED BY <2>1, <2>2 DEF IInv, UserTyped, userVars
<1> QED BY <1>1, <1>2, <1>3, <1>4, <1>5, <1>6, <1>7, <1>8, UserKeeps DEF Next, Host

LEMMA Invariant == Spec => []IInv
<1>1. Init => IInv
  BY Start
<1>2. IInv /\ [Next]_vars => IInv'
  BY Step
<1> QED BY <1>1, <1>2, PTL DEF Spec

------------------------------------------------------------------------------
\* Every variable keeps its type, and handleInput never counts more events in a
\* rate window than MaxInputEventsPerSecond.
THEOREM TypeCorrect == Spec => []TypeOK
<1>1. ASSUME IInv  PROVE TypeOK
  <2>1. UserTyped /\ InputTyped /\ NetTyped /\ HostTyped /\ InjectorTyped
    BY <1>1 DEF IInv, Path
  <2>2. \A i \in DOMAIN up : up[i] \in Messages
    BY <2>1, LenProperties, ElementOfSeq DEF NetTyped
  <2> QED BY <2>1, <2>2 DEF TypeOK, UserTyped, InputTyped, NetTyped, HostTyped, InjectorTyped
<1> QED BY <1>1, Invariant, PTL

\* handleInput's sequence check never refuses what an honest client sent.
THEOREM InputInOrder == Spec => []InOrder
<1>1. IInv => InOrder
  BY DEF IInv, Path, Ordered
<1> QED BY <1>1, Invariant, PTL

\* Whatever the user does, whatever resizes and however often the client
\* reconnects: once the host has read everything, the injector holds no key and
\* no button the client does not hold (releaseAllLocked, handleInput).
THEOREM NothingStaysStuck == Spec => []NothingStuck
<1>1. ASSUME IInv  PROVE NothingStuck
  <2> SUFFICES ASSUME session = "up", up = <<>>, spoilt = {}
               PROVE  HeldByClient
    BY DEF NothingStuck
  <2>1. 1 .. Len(up) = {}
    OBVIOUS
  <2>2. /\ pressedKeys \subseteq Usages \cup {LeftShift} /\ pressedButtons \subseteq Buttons
        /\ \A u \in Usages \ {LeftShift} : u \in pressedKeys => u \in DOMAIN keys
        /\ \A b \in Buttons : b \in pressedButtons => b \in buttons
    BY <1>1, <2>1 DEF IInv, Path, InjectorTyped, Lifted, KeyLifted, ButtonLifted
  <2> QED BY <2>2 DEF HeldByClient
<1> QED BY <1>1, Invariant, PTL

\* Once the view has given up the focus and the host has read everything, the
\* injector holds nothing, the Shift of syncModifiers included.
THEOREM NothingIsHeldUnfocused == Spec => []NothingHeldUnfocused
<1>1. ASSUME IInv  PROVE NothingHeldUnfocused
  BY <1>1 DEF IInv, Path, Unfocused, NothingHeldUnfocused
<1> QED BY <1>1, Invariant, PTL

\* A pointer coordinate is mapped between two sizes of one geometry, or of two
\* neighbouring ones while sendCapture is in the middle of a resize.
THEOREM GeometryIsOne == Spec => GeometryMixedOnlyInResize
<1>1. ASSUME IInv, [Next]_vars, moved' # moved
      PROVE  moved'[1] = moved'[2] \/ (resizing # "no" /\ moved'[2] = moved'[1] + 1)
  <2>1. CASE InjectInput
    <3>1. session = "up" /\ moved' = <<advertised, native>>
      BY <1>1, <2>1 DEF InjectInput
    <3>2. resizing = "no" => advertised = native
      BY <1>1, <3>1 DEF IInv, Path, Screen
    <3>3. resizing # "no" => native = advertised + 1
      BY <1>1, <3>1 DEF IInv, Path, Screen
    <3>4. moved'[1] = advertised /\ moved'[2] = native
      BY <3>1
    <3> QED BY <3>2, <3>3, <3>4
  <2>2. CASE ~InjectInput
    <3>1. moved' = moved
      BY <1>1, <2>2 DEF Next, User, LetGo, Client, Host, Resize, PressKey, ReleaseKey, Click, PointAt, FocusGained,
         FocusLost, MouseIn, MouseOut, Quit, BeginServe, ApplyDisplay, ConnectInput, Teardown, RejectInput, ShedInput,
         NewRateWindow, CaptureResized, AnnounceResized, AdoptResized, NewSession, LoseConnection, injVars, vars
    <3> QED BY <1>1, <3>1
  <2> QED BY <2>1, <2>2
<1>2. IInv /\ [Next]_vars => [moved' # moved => \/ moved'[1] = moved'[2]
                                                \/ resizing # "no" /\ moved'[2] = moved'[1] + 1]_vars
  BY <1>1
<1> QED BY <1>2, Invariant, PTL DEF Spec, GeometryMixedOnlyInResize

==============================================================================
