-------------------------- MODULE Injectors_proofs --------------------------
(***************************************************************************)
(* What Injectors checks on two keys and a button, for any codes, bitmap   *)
(* and wheel: whatever requests fail, the desktop is as the client means   *)
(* it, but for what a failed request left down, and the Linux adapter      *)
(* notes nothing that is not down.                                         *)
(*                                                                         *)
(* IInv is the inductive invariant.  What it adds accounts for every code  *)
(* that is down: it is noted, so a release will reach it, or a request     *)
(* about it failed (Accounted); and while the session runs a key that is   *)
(* noted is down (KeysNotedAreDown), so leaving out the modifiers already  *)
(* in place is right.                                                      *)
(***************************************************************************)
EXTENDS Injectors, FiniteSetTheorems, WellFoundedInduction, TLAPS

Held == Keys \cup Lefts \cup Buttons

TypeOK ==
    /\ platform \in Platforms /\ dead \in BOOLEAN
    /\ session \in {"up", "ending", "closing", "down"}
    /\ pressed \subseteq Held /\ meant \subseteq Held
    /\ desk \subseteq Held \cup WheelButtons /\ lost \subseteq desk

Accounted == desk \subseteq pressed \cup lost

KeysNotedAreDown == session = "up" => pressed \ Buttons \subseteq desk

MeansNothing == session # "up" => meant = {}

\* After the first of the two releases nothing is down but what it failed on.
Released ==
    session \in {"closing", "down"} =>
        /\ desk \subseteq lost
        /\ pressed \subseteq Buttons
        /\ platform = "linux" => pressed = {}

IInv ==
    /\ TypeOK /\ Accounted /\ KeysNotedAreDown /\ MeansNothing /\ Released
    /\ DesktopAsMeant /\ NotedIsDown

------------------------------------------------------------------------------
\* What is down after some requests

\* A code is down after some requests when no request is about it and it was
\* down before, or the last request about it is to press it.
LEMMA AfterCases ==
    ASSUME NEW held, NEW R, NEW x
    PROVE  x \in After(held, R) <=>
             \/ x \in held /\ \A i \in DOMAIN R : R[i].code # x
             \/ \E i \in DOMAIN R :
                   /\ R[i].down /\ R[i].code = x
                   /\ \A j \in DOMAIN R : j > i => R[j].code # x
BY DEF After

LEMMA AfterNothing == ASSUME NEW held PROVE After(held, <<>>) = held
BY DEF After

\* A request more.
LEMMA AfterAppend ==
    ASSUME NEW held, NEW T, NEW R \in Seq(T), NEW r \in T
    PROVE  /\ r.down => After(held, Append(R, r)) = After(held, R) \cup {r.code}
           /\ ~r.down => After(held, Append(R, r)) = After(held, R) \ {r.code}
<1> DEFINE Q == Append(R, r)
<1>1. /\ Q \in Seq(T) /\ Len(R) \in Nat
      /\ DOMAIN Q = 1 .. Len(R) + 1 /\ DOMAIN R = 1 .. Len(R)
      /\ Q[Len(R) + 1] = r /\ \A i \in 1 .. Len(R) : Q[i] = R[i]
  OBVIOUS
<1>2. ASSUME NEW x, x # r.code PROVE x \in After(held, Q) <=> x \in After(held, R)
  <2>1. (\A i \in DOMAIN Q : Q[i].code # x) <=> (\A i \in DOMAIN R : R[i].code # x)
    BY <1>1, <1>2
  <2>2. ASSUME NEW i \in DOMAIN R
        PROVE  (\A j \in DOMAIN Q : j > i => Q[j].code # x) <=> (\A j \in DOMAIN R : j > i => R[j].code # x)
    BY <1>1, <1>2
  <2>3. (\E i \in DOMAIN Q : Q[i].down /\ Q[i].code = x /\ \A j \in DOMAIN Q : j > i => Q[j].code # x)
        <=> (\E i \in DOMAIN R : R[i].down /\ R[i].code = x /\ \A j \in DOMAIN R : j > i => R[j].code # x)
    BY <1>1, <1>2, <2>2
  <2> HIDE DEF Q
  <2> QED
    BY <2>1, <2>3, AfterCases
<1>3. r.code \in After(held, Q) <=> r.down
  <2>1. Len(R) + 1 \in DOMAIN Q /\ \A j \in DOMAIN Q : ~(j > Len(R) + 1)
    BY <1>1
  <2>2. ASSUME NEW i \in DOMAIN Q, \A j \in DOMAIN Q : j > i => Q[j].code # r.code
        PROVE  i = Len(R) + 1
    BY <1>1, <2>1, <2>2
  <2> HIDE DEF Q
  <2> QED
    BY <1>1, <2>1, <2>2, AfterCases
<1> HIDE DEF Q
<1>4. CASE r.down
  <2>1. ASSUME NEW x PROVE x \in After(held, Q) <=> x \in After(held, R) \cup {r.code}
    BY <1>2, <1>3, <1>4
  <2> QED
    BY <1>4, <2>1 DEF Q
<1>5. CASE ~r.down
  <2>1. ASSUME NEW x PROVE x \in After(held, Q) <=> x \in After(held, R) \ {r.code}
    BY <1>2, <1>3, <1>5
  <2> QED
    BY <1>5, <2>1 DEF Q
<1> QED
  BY <1>4, <1>5 DEF Q

LEMMA AfterDown ==
    ASSUME NEW held, NEW T, NEW R \in Seq(T), NEW c, Down(c) \in T
    PROVE  After(held, Append(R, Down(c))) = After(held, R) \cup {c}
<1> DEFINE r == Down(c)
<1>1. r.down /\ r.code = c
  BY DEF Down
<1>2. r \in T
  OBVIOUS
<1> HIDE DEF r
<1>3. r.down => After(held, Append(R, r)) = After(held, R) \cup {r.code}
  BY <1>2, AfterAppend
<1>4. After(held, Append(R, r)) = After(held, R) \cup {c}
  BY <1>1, <1>3
<1> QED
  BY <1>4 DEF r

LEMMA AfterUp ==
    ASSUME NEW held, NEW T, NEW R \in Seq(T), NEW c, Up(c) \in T
    PROVE  After(held, Append(R, Up(c))) = After(held, R) \ {c}
<1> DEFINE r == Up(c)
<1>1. ~r.down /\ r.code = c
  BY DEF Up
<1>2. r \in T
  OBVIOUS
<1> HIDE DEF r
<1>3. ~r.down => After(held, Append(R, r)) = After(held, R) \ {r.code}
  BY <1>2, AfterAppend
<1>4. After(held, Append(R, r)) = After(held, R) \ {c}
  BY <1>1, <1>3
<1> QED
  BY <1>4 DEF r

\* The same requests bring two sets closer: they differ only where they did.
LEMMA AfterCloser ==
    ASSUME NEW S, NEW T, NEW R
    PROVE  After(S, R) \ After(T, R) \subseteq S \ T
BY AfterCases

\* Only what some request presses comes down.
LEMMA AfterWithin ==
    ASSUME NEW S, NEW R, NEW x \in After(S, R)
    PROVE  x \in S \/ \E i \in DOMAIN R : R[i].down /\ R[i].code = x
BY AfterCases

\* The first n requests of a list, and the one after them.
LEMMA Prefix ==
    ASSUME NEW T, NEW R \in Seq(T), NEW n \in 0 .. Len(R)
    PROVE  /\ SubSeq(R, 1, n) \in Seq(T)
           /\ DOMAIN SubSeq(R, 1, n) = 1 .. n
           /\ \A i \in 1 .. n : SubSeq(R, 1, n)[i] = R[i]
           /\ n = Len(R) => SubSeq(R, 1, n) = R
           /\ n < Len(R) => SubSeq(R, 1, n + 1) = Append(SubSeq(R, 1, n), R[n + 1]) /\ R[n + 1] \in T
OBVIOUS

------------------------------------------------------------------------------
\* The modifiers

\* Induction over the bits, from the theorem that a set of numbers has a least
\* element.
LEMMA CountUp ==
    ASSUME NEW n \in Nat, NEW T, 0 \in T, \A i \in 0 .. n : i \in T /\ i < n => i + 1 \in T
    PROVE  \A i \in 0 .. n : i \in T
<1> DEFINE Rest == {i \in 0 .. n : i \notin T}
<1>1. SUFFICES ASSUME Rest # {} PROVE FALSE
  OBVIOUS
<1>2. PICK i \in Rest : \A j \in Rest : ~(<<j, i>> \in OpToRel(<, Nat))
  <2>1. Rest \subseteq Nat
    OBVIOUS
  <2> HIDE DEF Rest
  <2> QED
    BY <1>1, <2>1, NatLessThanWellFounded, WFMin
<1>3. i # 0 /\ i - 1 \in 0 .. n /\ i - 1 < n /\ i \in Nat
  OBVIOUS
<1>4. <<i - 1, i>> \in OpToRel(<, Nat)
  BY <1>3 DEF OpToRel
<1>5. i - 1 \in T
  BY <1>2, <1>3, <1>4
<1> QED
  BY <1>3, <1>5

\* The request that syncModifiers makes of a bit.
SyncRequest(b, bits) == [code |-> LeftCodes[b], down |-> b \in bits]

\* The requests of the first m bits: one of each bit that is off.
SyncsOf(R, m, c, bits) ==
    /\ R \in Seq([code : Lefts, down : BOOLEAN])
    /\ \A i \in DOMAIN R : \E b \in 1 .. m : Off(b, c, bits) /\ R[i] = SyncRequest(b, bits)
    /\ \A b \in 1 .. m : Off(b, c, bits) => \E i \in DOMAIN R : R[i] = SyncRequest(b, bits)
    /\ \A i, j \in DOMAIN R : R[i].code = R[j].code => i = j

LEMMA SyncsStep ==
    ASSUME NEW c, NEW bits, NEW m \in Nat, m < Len(LeftCodes), NEW R, SyncsOf(R, m, c, bits)
    PROVE  /\ Off(m + 1, c, bits) => SyncsOf(Append(R, SyncRequest(m + 1, bits)), m + 1, c, bits)
           /\ ~Off(m + 1, c, bits) => SyncsOf(R, m + 1, c, bits)
<1> DEFINE T == [code : Lefts, down : BOOLEAN]
           r == SyncRequest(m + 1, bits)
           Q == Append(R, r)
<1>1. /\ R \in Seq(T) /\ m + 1 \in DOMAIN LeftCodes /\ DOMAIN LeftCodes = 1 .. Len(LeftCodes)
      /\ r \in T /\ r.code = LeftCodes[m + 1]
  BY InjectorsAssumption DEF SyncsOf, SyncRequest, Lefts
<1>2. /\ Q \in Seq(T) /\ DOMAIN R = 1 .. Len(R) /\ DOMAIN Q = 1 .. Len(R) + 1 /\ Len(R) \in Nat
      /\ Q[Len(R) + 1] = r /\ \A i \in 1 .. Len(R) : Q[i] = R[i]
  BY <1>1
<1>3. ASSUME NEW i \in DOMAIN R PROVE R[i].code # r.code
  <2>1. PICK b \in 1 .. m : R[i] = SyncRequest(b, bits)
    BY DEF SyncsOf
  <2>2. b \in DOMAIN LeftCodes /\ b # m + 1 /\ R[i].code = LeftCodes[b]
    BY <1>1, <2>1 DEF SyncRequest
  <2> QED
    BY <1>1, <2>2, InjectorsAssumption
<1>4. ASSUME Off(m + 1, c, bits) PROVE SyncsOf(Q, m + 1, c, bits)
  <2>1. ASSUME NEW i \in DOMAIN Q
        PROVE  \E b \in 1 .. m + 1 : Off(b, c, bits) /\ Q[i] = SyncRequest(b, bits)
    <3>1. CASE i = Len(R) + 1
      BY <1>2, <1>4, <3>1
    <3>2. CASE i \in DOMAIN R
      <4>1. PICK b \in 1 .. m : Off(b, c, bits) /\ R[i] = SyncRequest(b, bits)
        BY <3>2 DEF SyncsOf
      <4>2. b \in 1 .. m + 1 /\ Q[i] = R[i]
        BY <1>2, <3>2
      <4> QED
        BY <4>1, <4>2
    <3> QED
      BY <1>2, <3>1, <3>2
  <2>2. ASSUME NEW b \in 1 .. m + 1, Off(b, c, bits)
        PROVE  \E i \in DOMAIN Q : Q[i] = SyncRequest(b, bits)
    <3>1. CASE b = m + 1
      BY <1>2, <3>1
    <3>2. CASE b \in 1 .. m
      <4>1. PICK i \in DOMAIN R : R[i] = SyncRequest(b, bits)
        BY <2>2, <3>2 DEF SyncsOf
      <4>2. i \in DOMAIN Q /\ Q[i] = R[i]
        BY <1>2
      <4> QED
        BY <4>1, <4>2
    <3> QED
      BY <3>1, <3>2
  <2>3. ASSUME NEW i \in DOMAIN Q, NEW j \in DOMAIN Q, Q[i].code = Q[j].code PROVE i = j
    <3>1. \A k, l \in DOMAIN R : R[k].code = R[l].code => k = l
      BY DEF SyncsOf
    <3>2. \A k \in DOMAIN R : k \in 1 .. Len(R) /\ Q[k] = R[k] /\ R[k].code # r.code
      BY <1>2, <1>3
    <3>3. \A k \in DOMAIN Q : k \in DOMAIN R \/ (k = Len(R) + 1 /\ Q[k] = r)
      BY <1>2
    <3> HIDE DEF r, Q
    <3> QED
      BY <2>3, <3>1, <3>2, <3>3
  <2> HIDE DEF Q
  <2> QED
    BY <1>2, <2>1, <2>2, <2>3 DEF SyncsOf
<1>5. ASSUME ~Off(m + 1, c, bits) PROVE SyncsOf(R, m + 1, c, bits)
  <2>1. \A b \in 1 .. m : b \in 1 .. m + 1
    OBVIOUS
  <2>2. \A b \in 1 .. m + 1 : Off(b, c, bits) => b \in 1 .. m
    BY <1>5
  <2> QED
    BY <2>1, <2>2 DEF SyncsOf
<1> QED
  BY <1>4, <1>5

\* What syncModifiers asks for is one request of each bit that is off.
LEMMA SyncRequestsOff ==
    ASSUME NEW c, NEW bits
    PROVE  SyncsOf(SyncRequests(c, bits), Len(LeftCodes), c, bits)
<1> DEFINE N == Len(LeftCodes)
           Following(f, b) == IF b = 0 THEN <<>>
                              ELSE IF Off(b, c, bits)
                                   THEN Append(f[b - 1], [code |-> LeftCodes[b], down |-> b \in bits])
                                   ELSE f[b - 1]
           Defined == {m \in 0 .. N : \E f : f = [b \in 0 .. m |-> Following(f, b)]}
           upTo == CHOOSE f : f = [b \in 0 .. N |-> Following(f, b)]
<1>1. N \in Nat
  BY InjectorsAssumption
\* The recursion defines a function.
<1>2. upTo = [b \in 0 .. N |-> Following(upTo, b)]
  <2>1. 0 \in Defined
    <3> DEFINE e == [b \in 0 .. 0 |-> <<>>]
    <3>1. ASSUME NEW b \in 0 .. 0 PROVE e[b] = Following(e, b)
      OBVIOUS
    <3>2. e = [b \in 0 .. 0 |-> e[b]]
      OBVIOUS
    <3> HIDE DEF e, Following
    <3>3. e = [b \in 0 .. 0 |-> Following(e, b)]
      BY <3>1, <3>2
    <3> QED
      BY <1>1, <3>3
  <2>2. ASSUME NEW m \in 0 .. N, m \in Defined, m < N PROVE m + 1 \in Defined
    <3>1. PICK f : f = [b \in 0 .. m |-> Following(f, b)]
      BY <2>2
    <3> DEFINE g == [b \in 0 .. m + 1 |-> IF b <= m THEN f[b] ELSE Following(f, b)]
    <3>2. ASSUME NEW b \in 0 .. m + 1 PROVE g[b] = Following(g, b)
      <4>1. b # 0 => g[b - 1] = f[b - 1]
        BY <1>1
      <4>2. b <= m => f[b] = Following(f, b)
        <5> HIDE DEF Following
        <5>1. b <= m => b \in 0 .. m
          BY <1>1
        <5> QED
          BY <3>1, <5>1
      <4>3. g[b] = Following(f, b)
        BY <4>2
      <4> QED
        BY <4>1, <4>3
    <3>3. g = [b \in 0 .. m + 1 |-> g[b]]
      OBVIOUS
    <3> HIDE DEF g, Following
    <3>4. g = [b \in 0 .. m + 1 |-> Following(g, b)]
      BY <3>2, <3>3
    <3> QED
      BY <1>1, <2>2, <3>4
  <2> HIDE DEF Following
  <2>3. N \in Defined
    <3> HIDE DEF Defined, N
    <3>1. \A i \in 0 .. N : i \in Defined
      BY <1>1, <2>1, <2>2, CountUp
    <3> QED
      BY <1>1, <3>1
  <2> QED
    BY <2>3
<1>3. SyncRequests(c, bits) = upTo[N]
  BY DEF SyncRequests
<1> HIDE DEF upTo
<1> DEFINE Good == {m \in 0 .. N : SyncsOf(upTo[m], m, c, bits)}
<1>4. 0 \in Good
  <2>1. upTo[0] = <<>>
    BY <1>1, <1>2
  <2>2. SyncsOf(<<>>, 0, c, bits)
    BY DEF SyncsOf
  <2> QED
    BY <1>1, <2>1, <2>2
<1>5. ASSUME NEW m \in 0 .. N, m \in Good, m < N PROVE m + 1 \in Good
  <2>1. upTo[m + 1] = IF Off(m + 1, c, bits) THEN Append(upTo[m], SyncRequest(m + 1, bits)) ELSE upTo[m]
    <3>1. upTo[m + 1] = Following(upTo, m + 1)
      <4> HIDE DEF Following, N
      <4>1. m + 1 \in 0 .. N
        BY <1>1, <1>5
      <4> QED
        BY <1>2, <4>1
    <3>2. m + 1 # 0 /\ (m + 1) - 1 = m
      BY <1>1
    <3> QED
      BY <3>1, <3>2 DEF SyncRequest
  <2>2. SyncsOf(upTo[m], m, c, bits)
    BY <1>5
  <2>3. SyncsOf(upTo[m + 1], m + 1, c, bits)
    BY <1>1, <1>5, <2>1, <2>2, SyncsStep
  <2> QED
    BY <1>1, <1>5, <2>3
<1>6. N \in Good
  <2> HIDE DEF Good, N
  <2>1. \A i \in 0 .. N : i \in Good
    BY <1>1, <1>4, <1>5, CountUp
  <2> QED
    BY <1>1, <2>1
<1> QED
  BY <1>3, <1>6

\* After them a code of a bit that is off is as the bitmap wants it, and every
\* other code as it was.
LEMMA AfterSync ==
    ASSUME NEW c, NEW bits \in SUBSET DOMAIN LeftCodes, NEW held, NEW x
    PROVE  /\ \A b \in DOMAIN LeftCodes : x = LeftCodes[b] /\ Off(b, c, bits) =>
                 (x \in After(held, SyncRequests(c, bits)) <=> b \in bits)
           /\ (\A b \in DOMAIN LeftCodes : x = LeftCodes[b] => ~Off(b, c, bits)) =>
                 (x \in After(held, SyncRequests(c, bits)) <=> x \in held)
<1> DEFINE R == SyncRequests(c, bits)
<1>1. /\ \A i \in DOMAIN R : \E b \in DOMAIN LeftCodes : Off(b, c, bits) /\ R[i] = SyncRequest(b, bits)
      /\ \A b \in DOMAIN LeftCodes : Off(b, c, bits) => \E i \in DOMAIN R : R[i] = SyncRequest(b, bits)
      /\ \A i, j \in DOMAIN R : R[i].code = R[j].code => i = j
      /\ R \in Seq([code : Lefts, down : BOOLEAN])
  <2>1. DOMAIN LeftCodes = 1 .. Len(LeftCodes)
    BY InjectorsAssumption
  <2>2. SyncsOf(R, Len(LeftCodes), c, bits)
    BY SyncRequestsOff
  <2> HIDE DEF R
  <2> QED
    BY <2>1, <2>2 DEF SyncsOf
<1> HIDE DEF R
<1>2. ASSUME NEW b \in DOMAIN LeftCodes, x = LeftCodes[b], Off(b, c, bits)
      PROVE  x \in After(held, R) <=> b \in bits
  <2>1. PICK i \in DOMAIN R : R[i] = SyncRequest(b, bits)
    BY <1>1, <1>2
  <2>2. R[i].code = x /\ (R[i].down <=> b \in bits)
    <3>1. R[i].code = x
      BY <1>2, <2>1 DEF SyncRequest
    <3>2. R[i].down <=> b \in bits
      <4>1. R[i].down = (b \in bits)
        BY <2>1 DEF SyncRequest
      <4> QED
        BY <4>1
    <3> QED
      BY <3>1, <3>2
  <2>3. \A j \in DOMAIN R : R[j].code = x => j = i
    BY <1>1, <2>2
  <2>4. i \in Nat
    BY <1>1
  <2> QED
    BY <2>2, <2>3, <2>4, AfterCases
<1>3. ASSUME \A b \in DOMAIN LeftCodes : x = LeftCodes[b] => ~Off(b, c, bits)
      PROVE  x \in After(held, R) <=> x \in held
  <2>1. ASSUME NEW i \in DOMAIN R PROVE R[i].code # x
    <3>1. PICK b \in DOMAIN LeftCodes : Off(b, c, bits) /\ R[i] = SyncRequest(b, bits)
      BY <1>1
    <3> QED
      BY <1>3, <3>1 DEF SyncRequest
  <2> QED
    BY <2>1, AfterCases
<1> QED
  BY <1>2, <1>3 DEF R

------------------------------------------------------------------------------
\* Calls

\* Each code means one thing.
LEMMA Kinds ==
    /\ Keys \cap Lefts = {} /\ Keys \cap Buttons = {} /\ Lefts \cap Buttons = {}
    /\ Held \cap WheelButtons = {} /\ "motion" \notin Held \cup WheelButtons
<1> DEFINE kinds == <<Keys, Lefts, Buttons, WheelButtons, {"motion"}>>
<1>1. \A k, l \in 1 .. 5 : k # l => kinds[k] \cap kinds[l] = {}
  BY InjectorsAssumption
<1>2. /\ kinds[1] = Keys /\ kinds[2] = Lefts /\ kinds[3] = Buttons /\ kinds[4] = WheelButtons
      /\ kinds[5] = {"motion"}
  OBVIOUS
<1> HIDE DEF kinds
<1>3. /\ Keys \cap Lefts = {} /\ Keys \cap Buttons = {} /\ Lefts \cap Buttons = {}
      /\ Keys \cap WheelButtons = {} /\ Lefts \cap WheelButtons = {} /\ Buttons \cap WheelButtons = {}
      /\ Keys \cap {"motion"} = {} /\ Lefts \cap {"motion"} = {}
      /\ Buttons \cap {"motion"} = {} /\ WheelButtons \cap {"motion"} = {}
  BY <1>1, <1>2
<1> QED
  BY <1>3 DEF Held

\* What a call may leave down when all of its requests are done: what its
\* events mean, but for the codes that are lost already.
Meets(requests, asked) == After(desk, requests) \ lost = asked \ (lost \cap After(desk, requests))

\* A call that takes note of its requests.
LEMMA TrackedCall ==
    ASSUME IInv, session = "up", NEW T, \A r \in T : r.code \in Held, NEW R \in Seq(T),
           NEW asked \in SUBSET Held, Meets(R, asked), Call(R, TRUE, asked)
    PROVE  IInv'
<1> DEFINE First(k) == SubSeq(R, 1, k)
<1>1. PICK n \in 0 .. Len(R), effects \in 0 .. Len(R) :
        /\ Attempt(R, n, effects)
        /\ desk' = After(desk, First(effects))
        /\ pressed' = After(pressed, First(Noted(n, Len(R))))
        /\ IF n = Len(R)
           THEN session' = "up" /\ meant' = asked /\ lost' = lost \cap desk'
           ELSE session' = "ending" /\ meant' = {} /\ lost' = (lost \cup {R[n + 1].code}) \cap desk'
        /\ UNCHANGED platform
  BY DEF Call
<1>2. Len(R) \in Nat
  OBVIOUS
<1>3. /\ effects \in {n, n + 1} /\ Noted(n, Len(R)) \in {n, n + 1} /\ dead' \in BOOLEAN
      /\ n = Len(R) => effects = n /\ Noted(n, Len(R)) = n
      /\ platform = "linux" => Noted(n, Len(R)) = n
      /\ ~dead' => ~dead /\ effects = n
  <2>1. dead \in BOOLEAN /\ n \in Nat /\ n <= Len(R)
    BY <1>2 DEF IInv, TypeOK
  <2>2. /\ effects \in {n, n + 1} /\ dead' \in BOOLEAN
        /\ n = Len(R) => effects = n
        /\ ~dead' => ~dead /\ effects = n
    <3>1. CASE effects = n /\ dead' = dead
      BY <2>1, <3>1
    <3>2. CASE n < Len(R) /\ effects \in {n, n + 1} /\ dead' = TRUE
      BY <1>2, <2>1, <3>2
    <3> QED
      BY <1>1, <3>1, <3>2 DEF Attempt
  <2>3. /\ Noted(n, Len(R)) \in {n, n + 1}
        /\ n = Len(R) => Noted(n, Len(R)) = n
        /\ platform = "linux" => Noted(n, Len(R)) = n
    BY <1>2, <2>1 DEF Noted
  <2> QED
    BY <2>2, <2>3
<1>4. ASSUME NEW k \in 0 .. Len(R), NEW S, S \subseteq Held \cup WheelButtons
      PROVE  After(S, First(k)) \subseteq S \cup Held
  <2>1. First(k) \in Seq(T) /\ DOMAIN First(k) = 1 .. k /\ \A i \in 1 .. k : First(k)[i] = R[i]
    BY Prefix
  <2>2. ASSUME NEW i \in 1 .. k PROVE R[i].code \in Held
    <3>1. i \in 1 .. Len(R)
      BY <1>2
    <3>2. R[i] \in T
      BY <3>1
    <3> QED
      BY <3>2
  <2> HIDE DEF First
  <2> QED
    BY <2>1, <2>2, AfterWithin
<1>5. TypeOK'
  <2>1. desk' \subseteq Held \cup WheelButtons /\ pressed' \subseteq Held
    <3>1. effects \in 0 .. Len(R) /\ Noted(n, Len(R)) \in 0 .. Len(R)
      BY <1>1, <1>2, <1>3
    <3> HIDE DEF First
    <3> QED
      BY <1>1, <1>4, <3>1 DEF IInv, TypeOK
  <2> QED
    BY <1>1, <1>3, <2>1 DEF IInv, TypeOK
\* All requests are done: the two sets went through the same.
<1>6. CASE n = Len(R)
  <2>1. /\ desk' = After(desk, R) /\ pressed' = After(pressed, R) /\ session' = "up"
        /\ meant' = asked /\ lost' = lost \cap desk' /\ platform' = platform
    BY <1>1, <1>3, <1>6, Prefix
  <2>2. desk' \ pressed' \subseteq desk \ pressed /\ pressed' \ desk' \subseteq pressed \ desk
    BY <2>1, AfterCloser
  <2>3. Accounted' /\ KeysNotedAreDown' /\ NotedIsDown'
    BY <1>3, <2>1, <2>2 DEF IInv, Accounted, KeysNotedAreDown, NotedIsDown
  <2>4. DesktopAsMeant'
    BY <2>1 DEF DesktopAsMeant, Meets
  <2> QED
    BY <1>5, <2>1, <2>3, <2>4 DEF IInv, MeansNothing, Released
\* One failed: nothing is different but its code, which is lost if it is down.
<1>7. CASE n < Len(R)
  <2> DEFINE D == After(desk, First(n))
             P == After(pressed, First(n))
             c == R[n + 1].code
  <2>1. D \ P \subseteq desk \ pressed /\ P \ D \subseteq pressed \ desk
    BY AfterCloser
  <2>2. First(n) \in Seq(T) /\ First(n + 1) = Append(First(n), R[n + 1]) /\ R[n + 1] \in T
    BY <1>7, Prefix
  <2>3. ASSUME NEW S
        PROVE  After(S, First(n + 1)) = IF R[n + 1].down THEN After(S, First(n)) \cup {c} ELSE After(S, First(n)) \ {c}
    <3> DEFINE Q == First(n)
               r == R[n + 1]
    <3>1. Q \in Seq(T) /\ r \in T /\ First(n + 1) = Append(Q, r)
      BY <2>2
    <3> HIDE DEF First, Q, r
    <3>2. After(S, Append(Q, r)) = IF r.down THEN After(S, Q) \cup {r.code} ELSE After(S, Q) \ {r.code}
      BY <3>1, AfterAppend
    <3> QED
      BY <3>1, <3>2 DEF Q, r
  <2>4. /\ session' = "ending" /\ meant' = {} /\ lost' = (lost \cup {c}) \cap desk'
        /\ platform' = platform
    BY <1>1, <1>7
  <2> HIDE DEF First
  <2>5. desk' \subseteq D \cup {c} /\ P \ {c} \subseteq pressed'
    BY <1>1, <1>3, <2>3
  <2>6. Accounted'
    <3> HIDE DEF D, P, c
    <3> QED
      BY <2>1, <2>4, <2>5 DEF IInv, Accounted
  <2>7. NotedIsDown'
    <3>1. platform = "linux" /\ ~dead' => desk' = D /\ pressed' = P
      BY <1>1, <1>3
    <3> HIDE DEF D, P
    <3> QED
      BY <1>3, <2>1, <2>4, <3>1 DEF IInv, NotedIsDown
  <2> QED
    BY <1>5, <2>4, <2>6, <2>7 DEF IInv, KeysNotedAreDown, MeansNothing, Released, DesktopAsMeant
<1> QED
  BY <1>1, <1>2, <1>6, <1>7

\* A call that takes no note: its requests are about one code, which no session
\* means to hold, and bring nothing down when all of them are done.
LEMMA UntrackedCall ==
    ASSUME IInv, session = "up", NEW w, w \notin Held,
           NEW T, \A r \in T : r.code = w /\ (r.down => w \in WheelButtons), NEW R \in Seq(T),
           After(desk, R) \subseteq desk, Call(R, FALSE, meant)
    PROVE  IInv'
<1> DEFINE First(k) == SubSeq(R, 1, k)
<1>1. PICK n \in 0 .. Len(R), effects \in 0 .. Len(R) :
        /\ Attempt(R, n, effects)
        /\ desk' = After(desk, First(effects))
        /\ pressed' = pressed
        /\ IF n = Len(R)
           THEN session' = "up" /\ meant' = meant /\ lost' = lost \cap desk'
           ELSE session' = "ending" /\ meant' = {} /\ lost' = (lost \cup {R[n + 1].code}) \cap desk'
        /\ UNCHANGED platform
  BY DEF Call
<1>2. Len(R) \in Nat
  OBVIOUS
<1>3. ASSUME NEW i \in 1 .. Len(R) PROVE R[i].code = w /\ (R[i].down => w \in WheelButtons)
  <2>1. R[i] \in T
    OBVIOUS
  <2> QED
    BY <2>1
<1>4. /\ n = Len(R) => effects = n
      /\ dead' \in BOOLEAN /\ (~dead' => ~dead)
  <2>1. CASE effects = n /\ dead' = dead
    BY <2>1 DEF IInv, TypeOK
  <2>2. CASE n < Len(R) /\ dead' = TRUE
    BY <1>2, <2>2
  <2> QED
    BY <1>1, <2>1, <2>2 DEF Attempt
<1>5. desk' \ {w} = desk \ {w} /\ desk' \subseteq Held \cup WheelButtons
  <2>1. /\ DOMAIN First(effects) = 1 .. effects
        /\ \A i \in 1 .. effects : First(effects)[i] = R[i] /\ i \in 1 .. Len(R)
    BY <1>2, Prefix
  <2> HIDE DEF First
  <2>2. ASSUME NEW x, x # w PROVE x \in desk' <=> x \in desk
    BY <1>1, <1>3, <2>1, <2>2, AfterCases
  <2>3. w \in desk' => w \in Held \cup WheelButtons
    BY <1>1, <1>3, <2>1, AfterWithin DEF IInv, TypeOK
  <2> QED
    BY <2>2, <2>3 DEF IInv, TypeOK
<1>6. w \notin pressed /\ w \notin meant
  BY DEF IInv, TypeOK
<1>7. TypeOK'
  BY <1>1, <1>4, <1>5 DEF IInv, TypeOK
<1>8. NotedIsDown'
  BY <1>1, <1>4, <1>5, <1>6 DEF IInv, NotedIsDown
<1>9. CASE n = Len(R)
  <2>1. /\ desk' \subseteq desk /\ session' = "up" /\ meant' = meant /\ lost' = lost \cap desk'
    BY <1>1, <1>4, <1>9, Prefix
  <2>2. Accounted' /\ KeysNotedAreDown'
    BY <1>1, <1>5, <1>6, <2>1 DEF IInv, Accounted, KeysNotedAreDown
  <2>3. DesktopAsMeant'
    BY <1>5, <1>6, <2>1 DEF IInv, TypeOK, DesktopAsMeant
  <2> QED
    BY <1>7, <1>8, <2>1, <2>2, <2>3 DEF IInv, MeansNothing, Released
<1>10. CASE n < Len(R)
  <2>1. session' = "ending" /\ meant' = {} /\ lost' = (lost \cup {w}) \cap desk'
    <3>1. n + 1 \in 1 .. Len(R) /\ n # Len(R)
      BY <1>2, <1>10
    <3> QED
      BY <1>1, <1>3, <3>1
  <2>2. Accounted'
    BY <1>1, <1>5, <2>1 DEF IInv, Accounted
  <2> QED
    BY <1>7, <1>8, <2>1, <2>2 DEF IInv, KeysNotedAreDown, MeansNothing, Released, DesktopAsMeant
<1> QED
  BY <1>2, <1>9, <1>10

------------------------------------------------------------------------------
\* Events

LEMMA KeyStep ==
    ASSUME IInv, NEW c \in Keys \cup Lefts, NEW down \in BOOLEAN,
           NEW bits \in SUBSET DOMAIN LeftCodes, Key(c, down, bits)
    PROVE  IInv'
<1> DEFINE T == [code : Held, down : BOOLEAN]
           sync == SyncRequests(c, bits)
           R == KeyRequests(c, down, bits)
           asked == Asked(c, down, bits)
           Sync(held) == After(held, sync)
<1>1. /\ session = "up" /\ Call(R, TRUE, asked) /\ pressed \ Buttons \subseteq desk
      /\ desk \subseteq pressed \cup lost /\ lost \subseteq desk /\ desk \ lost = meant \ lost
  BY DEF Key, IInv, KeysNotedAreDown, Accounted, TypeOK, DesktopAsMeant
<1>2. sync \in Seq(T)
  <2> DEFINE L == [code : Lefts, down : BOOLEAN]
  <2>1. sync \in Seq(L)
    BY SyncRequestsOff DEF SyncsOf
  <2>2. L \subseteq T
    BY DEF Held
  <2> HIDE DEF sync, L, T
  <2> QED
    BY <2>1, <2>2
<1>3. Down(c) \in T /\ Up(c) \in T /\ Down(c).down /\ ~Up(c).down /\ Down(c).code = c /\ Up(c).code = c
  BY DEF Down, Up, Held
<1>4. R = IF down THEN Append(sync, Down(c))
          ELSE IF c \in Sync(pressed) THEN Append(sync, Up(c))
          ELSE sync
  BY DEF KeyRequests
<1>5. R \in Seq(T)
  <2> HIDE DEF R, T, sync
  <2> QED
    BY <1>2, <1>3, <1>4
<1>6. After(desk, R) = IF down THEN Sync(desk) \cup {c}
                       ELSE IF c \in Sync(pressed) THEN Sync(desk) \ {c}
                       ELSE Sync(desk)
  <2> HIDE DEF R, T, sync
  <2>1. After(desk, Append(sync, Down(c))) = Sync(desk) \cup {c}
    BY <1>2, <1>3, AfterDown
  <2>2. After(desk, Append(sync, Up(c))) = Sync(desk) \ {c}
    BY <1>2, <1>3, AfterUp
  <2> QED
    BY <1>4, <2>1, <2>2
<1>7. asked \subseteq Held
  BY DEF Asked, Lefts, Held, IInv, TypeOK
<1>8. Sync(desk) \ Sync(pressed) \subseteq desk \ pressed
  BY AfterCloser
\* The event's own key
<1>9. c \in After(desk, R) \ lost <=> c \in asked \ (lost \cap After(desk, R))
  <2>1. c \in asked <=> down
    BY DEF Asked
  <2>2. CASE down
    BY <1>6, <2>1, <2>2
  <2>3. CASE ~down
    <3>1. c \in After(desk, R) => c \in lost
      BY <1>1, <1>6, <1>8, <2>3
    <3> QED
      BY <2>1, <2>3, <3>1
  <2> QED
    BY <2>2, <2>3
<1>10. ASSUME NEW x, x # c PROVE x \in After(desk, R) <=> x \in Sync(desk)
  BY <1>6, <1>10
\* A left modifier: the bitmap decides.
<1>11. ASSUME NEW b \in DOMAIN LeftCodes, LeftCodes[b] # c
       PROVE  LET x == LeftCodes[b] IN x \in After(desk, R) \ lost <=> x \in asked \ (lost \cap After(desk, R))
  <2> DEFINE x == LeftCodes[b]
  <2>1. x \in asked <=> b \in bits
    BY <1>11, InjectorsAssumption DEF Asked, Lefts
  <2>2. CASE Off(b, c, bits)
    BY <1>10, <1>11, <2>1, <2>2, AfterSync
  <2>3. CASE ~Off(b, c, bits)
    <3>1. b \in bits <=> x \in pressed
      BY <1>11, <2>3 DEF Off
    <3>2. x \in Sync(desk) <=> x \in desk
      BY <2>3, AfterSync, InjectorsAssumption
    <3>3. x \notin Buttons
      BY Kinds DEF Lefts
    <3> QED
      BY <1>1, <1>10, <1>11, <2>1, <3>1, <3>2, <3>3
  <2> QED
    BY <2>2, <2>3
<1>12. ASSUME NEW x, x # c, x \notin Lefts
       PROVE  x \in After(desk, R) \ lost <=> x \in asked \ (lost \cap After(desk, R))
  <2>1. x \in asked <=> x \in meant
    BY <1>12 DEF Asked, Lefts
  <2>2. x \in Sync(desk) <=> x \in desk
    BY <1>12, AfterSync DEF Lefts
  <2> QED
    BY <1>1, <1>10, <1>12, <2>1, <2>2
<1>13. Meets(R, asked)
  <2>1. ASSUME NEW x PROVE x \in After(desk, R) \ lost <=> x \in asked \ (lost \cap After(desk, R))
    <3>1. CASE x = c
      BY <1>9, <3>1
    <3>2. CASE x # c /\ x \in Lefts
      BY <1>11, <3>2 DEF Lefts
    <3>3. CASE x # c /\ x \notin Lefts
      BY <1>12, <3>3
    <3> QED
      BY <3>1, <3>2, <3>3
  <2> HIDE DEF R, asked
  <2> QED
    BY <2>1 DEF Meets
<1> QED
  <2>1. \A r \in T : r.code \in Held
    OBVIOUS
  <2> HIDE DEF R, asked, T
  <2> QED
    BY <1>1, <1>5, <1>7, <1>13, <2>1, TrackedCall

LEMMA ButtonStep ==
    ASSUME IInv, NEW b \in Buttons, NEW down \in BOOLEAN, Button(b, down)
    PROVE  IInv'
<1> DEFINE T == [code : Held, down : BOOLEAN]
           R == ButtonRequests(b, down)
           asked == IF down THEN meant \cup {b} ELSE meant \ {b}
<1>1. /\ session = "up" /\ Call(R, TRUE, asked)
      /\ desk \subseteq pressed \cup lost /\ lost \subseteq desk /\ desk \ lost = meant \ lost
  BY DEF Button, IInv, Accounted, TypeOK, DesktopAsMeant
<1>2. Down(b) \in T /\ Up(b) \in T /\ Down(b).down /\ ~Up(b).down /\ Down(b).code = b /\ Up(b).code = b
  BY DEF Down, Up, Held
<1>3. R = IF down THEN Append(<<>>, Down(b))
          ELSE IF platform = "linux" /\ b \notin pressed THEN <<>>
          ELSE Append(<<>>, Up(b))
  BY DEF ButtonRequests
<1> HIDE DEF R, T
<1>4. <<>> \in Seq(T) /\ R \in Seq(T)
  BY <1>2, <1>3
<1> DEFINE none == <<>>
<1>5. none \in Seq(T) /\ After(desk, none) = desk
  BY <1>4, AfterNothing
<1>6. After(desk, Append(<<>>, Down(b))) = desk \cup {b} /\ After(desk, Append(<<>>, Up(b))) = desk \ {b}
  <2> HIDE DEF none
  <2>1. After(desk, Append(none, Down(b))) = desk \cup {b} /\ After(desk, Append(none, Up(b))) = desk \ {b}
    BY <1>2, <1>5, AfterDown, AfterUp
  <2> QED
    BY <2>1 DEF none
<1>7. Meets(R, asked)
  <2>1. CASE down
    BY <1>1, <1>3, <1>6, <2>1 DEF Meets
  <2>2. CASE ~down /\ platform = "linux" /\ b \notin pressed
    BY <1>1, <1>3, <2>2, AfterNothing DEF Meets
  <2>3. CASE ~down /\ ~(platform = "linux" /\ b \notin pressed)
    BY <1>1, <1>3, <1>6, <2>3 DEF Meets
  <2> QED
    BY <2>1, <2>2, <2>3
<1>8. asked \subseteq Held /\ \A r \in T : r.code \in Held
  BY DEF T, Held, IInv, TypeOK
<1> HIDE DEF asked
<1> QED
  BY <1>1, <1>4, <1>7, <1>8, TrackedCall

LEMMA WheelStep ==
    ASSUME IInv, NEW w \in WheelButtons, NEW clicks \in 0 .. MaxClicks, Wheel(w, clicks)
    PROVE  IInv'
<1> DEFINE R == WheelRequests(w, clicks)
<1>1. session = "up" /\ Call(R, FALSE, meant) /\ clicks \in Nat
  <2>1. MaxClicks \in Nat
    BY InjectorsAssumption
  <2>2. clicks \in Nat
    BY <2>1
  <2>3. session = "up" /\ Call(R, FALSE, meant)
    BY DEF Wheel
  <2> QED
    BY <2>2, <2>3
\* X11: the wheel's button goes up last.
<1>2. CASE platform = "linux"
  <2> DEFINE T == {Down(w), Up(w)}
  <2>1. \A r \in T : r.code = w /\ (r.down => w \in WheelButtons)
    BY DEF Down, Up
  <2>2. R = [i \in 1 .. 2 * clicks |-> IF i % 2 = 1 THEN Down(w) ELSE Up(w)]
    BY <1>2 DEF WheelRequests
  <2>3. R \in Seq(T)
    BY <1>1, <2>2
  <2>4. After(desk, R) \subseteq desk
    <3>1. SUFFICES ASSUME NEW i \in DOMAIN R, R[i].down, \A j \in DOMAIN R : j > i => R[j].code # R[i].code
                   PROVE  FALSE
      BY AfterCases
    <3>2. i \in 1 .. 2 * clicks /\ i % 2 = 1
      <4>1. i \in 1 .. 2 * clicks /\ (i % 2 # 1 => R[i] = Up(w))
        BY <2>2
      <4>2. ~Up(w).down
        BY DEF Up
      <4> QED
        BY <3>1, <4>1, <4>2
    <3>3. i + 1 \in 1 .. 2 * clicks /\ i + 1 > i
      BY <1>1, <3>2
    <3>4. R[i + 1].code = w /\ R[i].code = w
      BY <2>1, <2>2, <3>2, <3>3
    <3> QED
      BY <2>2, <3>1, <3>3, <3>4
  <2> HIDE DEF R, T
  <2> QED
    BY <1>1, <2>1, <2>3, <2>4, Kinds, UntrackedCall
\* Windows: a detent holds nothing down.
<1>3. CASE platform # "linux"
  <2> DEFINE T == {Motion}
  <2>1. \A r \in T : r.code = "motion" /\ ~r.down
    BY DEF Motion, Up
  <2>2. R = [i \in 1 .. clicks |-> Motion]
    BY <1>3 DEF WheelRequests
  <2>3. R \in Seq(T) /\ \A i \in DOMAIN R : R[i] \in T
    BY <1>1, <2>2
  <2> HIDE DEF R, T
  <2>4. After(desk, R) \subseteq desk
    BY <2>1, <2>3, AfterCases
  <2> QED
    BY <1>1, <2>1, <2>3, <2>4, Kinds, UntrackedCall
<1> QED
  BY <1>2, <1>3

LEMMA MoveStep == ASSUME IInv, Move PROVE IInv'
<1> DEFINE T == {Motion}
           R == <<Motion>>
<1>1. session = "up" /\ Call(R, FALSE, meant)
  BY DEF Move
<1>2. \A r \in T : r.code = "motion" /\ ~r.down
  BY DEF Motion, Up
<1>3. R \in Seq(T) /\ \A i \in DOMAIN R : R[i] \in T
  OBVIOUS
<1> HIDE DEF R, T
<1>4. After(desk, R) \subseteq desk
  BY <1>2, <1>3, AfterCases
<1> QED
  BY <1>1, <1>2, <1>3, <1>4, Kinds, UntrackedCall

------------------------------------------------------------------------------
\* The end of a session

\* What a ReleaseAll leaves down is lost, or was not noted.
LEMMA Releasing ==
    ASSUME IInv, NEW fails \in SUBSET pressed, Release(fails)
    PROVE  /\ desk' \subseteq lost' /\ lost' \subseteq desk' /\ desk' \subseteq desk
           /\ pressed' \subseteq pressed \cap Buttons /\ (platform = "linux" => pressed' = {})
           /\ dead' \in BOOLEAN
<1>1. PICK effects \in SUBSET fails :
        /\ Failing(fails, effects)
        /\ desk' = desk \ ((pressed \ fails) \cup effects)
        /\ lost' = (lost \cup fails) \cap desk'
        /\ pressed' = IF platform = "linux" THEN {} ELSE pressed \cap Buttons
  BY DEF Release
<1>2. dead' \in BOOLEAN
  BY <1>1 DEF Failing, IInv, TypeOK
<1> QED
  BY <1>1, <1>2 DEF IInv, Accounted

LEMMA FocusLostStep == ASSUME IInv, FocusLost PROVE IInv'
<1>1. PICK fails \in SUBSET pressed :
        /\ Release(fails)
        /\ session' = IF fails = {} THEN "up" ELSE "ending"
  BY DEF FocusLost
<1>2. meant' = {} /\ platform' = platform
  BY DEF FocusLost
<1>3. /\ desk' \subseteq lost' /\ lost' \subseteq desk' /\ desk' \subseteq desk
      /\ pressed' \subseteq pressed \cap Buttons /\ (platform = "linux" => pressed' = {})
      /\ dead' \in BOOLEAN
  BY <1>1, Releasing
<1>4. TypeOK'
  BY <1>1, <1>2, <1>3 DEF IInv, TypeOK
<1> QED
  BY <1>1, <1>2, <1>3, <1>4
  DEF IInv, Accounted, KeysNotedAreDown, MeansNothing, Released, DesktopAsMeant, NotedIsDown

LEMMA EndSessionStep == ASSUME IInv, EndSession PROVE IInv'
<1>1. PICK fails \in SUBSET pressed : Release(fails)
  BY DEF EndSession
<1>2. /\ session' \in {"closing", "down"} /\ meant' = meant /\ meant = {} /\ platform' = platform
  BY DEF EndSession, IInv, MeansNothing
<1>3. /\ desk' \subseteq lost' /\ lost' \subseteq desk' /\ desk' \subseteq desk
      /\ pressed' \subseteq pressed \cap Buttons /\ (platform = "linux" => pressed' = {})
      /\ dead' \in BOOLEAN
  BY <1>1, Releasing
<1>4. TypeOK'
  BY <1>2, <1>3 DEF IInv, TypeOK
<1> QED
  BY <1>2, <1>3, <1>4
  DEF IInv, Accounted, KeysNotedAreDown, MeansNothing, Released, DesktopAsMeant, NotedIsDown

------------------------------------------------------------------------------

LEMMA InitIInv == Init => IInv
BY DEF Init, IInv, TypeOK, Accounted, KeysNotedAreDown, MeansNothing, Released, DesktopAsMeant, NotedIsDown

LEMMA Inductive == Spec => []IInv
<1>1. ASSUME IInv, [Next]_vars PROVE IInv'
  <2> USE DEF IInv, TypeOK, Accounted, KeysNotedAreDown, MeansNothing, Released, DesktopAsMeant, NotedIsDown
  <2>1. CASE Refuse \/ LoseSession
    BY <1>1, <2>1 DEF Refuse, LoseSession
  <2>2. CASE NewSession
    BY <1>1, <2>2 DEF NewSession
  <2>3. CASE UNCHANGED vars
    BY <1>1, <2>3 DEF vars
  <2> QED
    BY <1>1, <2>1, <2>2, <2>3, KeyStep, ButtonStep, WheelStep, MoveStep, FocusLostStep, EndSessionStep
    DEF Next, Event
<1> QED
  BY <1>1, InitIInv, PTL DEF Spec

\* Every variable keeps its type, and nothing is lost that is not down.
THEOREM TypeCorrect == Spec => []TypeOK
<1>1. IInv => TypeOK
  BY DEF IInv
<1> QED
  BY <1>1, Inductive, PTL

\* Whatever is down on the desktop is noted, so that a release reaches it
\* (ReleaseAll: "every key and button still held"), or a request about it failed.
THEOREM NothingForgotten == Spec => []Accounted
<1>1. IInv => Accounted
  BY DEF IInv
<1> QED
  BY <1>1, Inductive, PTL

\* In a session the desktop holds what the client's events mean, and between
\* sessions nothing, but for what a failed request left down.
THEOREM DesktopCorrect == Spec => []DesktopAsMeant
<1>1. IInv => DesktopAsMeant
  BY DEF IInv
<1> QED
  BY <1>1, Inductive, PTL

\* The Linux adapter notes nothing that is not down, so it releases nothing that
\* it did not press.
THEOREM LinuxNotesWhatIsDown == Spec => []NotedIsDown
<1>1. IInv => NotedIsDown
  BY DEF IInv
<1> QED
  BY <1>1, Inductive, PTL
==============================================================================
