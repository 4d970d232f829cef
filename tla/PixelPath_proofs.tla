-------------------------- MODULE PixelPath_proofs --------------------------
(***************************************************************************)
(* Proofs about PixelPath: for every limit, image and dirty tiles, the     *)
(* rectangles of a frame cover what changed and nothing twice; what        *)
(* planFrame lets through passes the check of every message; what it       *)
(* refuses cannot be sent; and a pointer lands where the user aimed.       *)
(*                                                                         *)
(* The recursive functions of PixelPath (the scan of the tiles, the bands, *)
(* the length of a message, the closing of parts) are shown to exist and   *)
(* to follow their equation by Recursion; what holds of every value of one *)
(* is shown by CountUp.                                                    *)
(***************************************************************************)
EXTENDS PixelPath, FiniteSetTheorems, WellFoundedInduction, TLAPS

------------------------------------------------------------------------------
\* Induction and recursion over an interval

\* Induction, from the theorem that a set of numbers has a least element.
LEMMA CountUp ==
    ASSUME NEW a \in Int, NEW b \in Int, NEW T, a \in T,
           \A i \in a .. b : i \in T /\ i < b => i + 1 \in T
    PROVE  \A i \in a .. b : i \in T
<1> DEFINE Rest == {n \in Nat : a + n \in a .. b /\ a + n \notin T}
<1>1. SUFFICES ASSUME NEW i \in a .. b, i \notin T PROVE FALSE
  OBVIOUS
<1>2. i - a \in Rest
  BY <1>1
<1>3. PICK n \in Rest : \A m \in Rest : ~(<<m, n>> \in OpToRel(<, Nat))
  <2>1. Rest \subseteq Nat
    OBVIOUS
  <2> HIDE DEF Rest
  <2> QED
    BY <1>2, <2>1, NatLessThanWellFounded, WFMin
<1>4. n # 0 /\ n - 1 \in Nat /\ n \in Nat /\ a + n \in a .. b /\ a + n \notin T
  <2>1. n \in Rest
    BY <1>3
  <2>2. n \in Nat /\ a + n \in a .. b /\ a + n \notin T
    BY <2>1
  <2>3. n # 0
    BY <2>2
  <2> QED
    BY <2>2, <2>3
<1>5. <<n - 1, n>> \in OpToRel(<, Nat)
  BY <1>4 DEF OpToRel
<1>6. n - 1 \notin Rest
  BY <1>3, <1>5
<1>7. a + (n - 1) \in a .. b /\ a + (n - 1) \in T /\ (a + (n - 1)) + 1 = a + n /\ a + (n - 1) < b
  BY <1>4, <1>6
<1> QED
  BY <1>4, <1>7

\* The least number of an interval with some property, as the set of those that have it.
LEMMA LeastOf ==
    ASSUME NEW a \in Int, NEW b \in Int, NEW S \in SUBSET (a .. b), S # {}
    PROVE  \E i \in S : \A j \in a .. i - 1 : j \notin S
<1>1. SUFFICES ASSUME \A i \in S : \E j \in a .. i - 1 : j \in S PROVE FALSE
  OBVIOUS
<1> DEFINE T == {i \in a .. b : \A j \in a .. i : j \notin S}
<1>2. PICK k \in S : TRUE
  OBVIOUS
<1>3. a \in T
  BY <1>1, <1>2
<1>4. ASSUME NEW i \in a .. b, i \in T, i < b PROVE i + 1 \in T
  BY <1>1, <1>4
<1>5. \A i \in a .. b : i \in T
  <2> HIDE DEF T
  <2> QED
    BY <1>3, <1>4, CountUp
<1> QED
  BY <1>2, <1>5

\* f[i] is made of i and f[i - 1].
Follows(f, a, b, step) == \A i \in a .. b : i # a => f[i] = step[i][f[i - 1]]

\* There is such a function, for every first value and step.
LEMMA Recursion ==
    ASSUME NEW a \in Int, NEW b \in Int, a <= b, NEW S, NEW base \in S, NEW step \in [a .. b -> [S -> S]]
    PROVE  \E f \in [a .. b -> S] : f[a] = base /\ Follows(f, a, b, step)
<1> DEFINE Upto(m, f) == f[a] = base /\ \A i \in a .. m : i # a => f[i] = step[i][f[i - 1]]
           Defined == {m \in a .. b : \E f \in [a .. m -> S] : Upto(m, f)}
<1>1. a \in Defined
  <2> DEFINE f == [i \in a .. a |-> base]
  <2>1. f \in [a .. a -> S] /\ Upto(a, f) /\ a \in a .. b
    OBVIOUS
  <2> HIDE DEF Upto, f
  <2> QED
    BY <2>1
<1>2. ASSUME NEW m \in a .. b, m \in Defined, m < b PROVE m + 1 \in Defined
  <2>1. PICK f \in [a .. m -> S] : Upto(m, f)
    BY <1>2
  <2> DEFINE v == step[m + 1][f[m]]
             g == [i \in a .. m + 1 |-> IF i = m + 1 THEN v ELSE f[i]]
  <2>2. v \in S
    BY <1>2, <2>1
  <2>3. g \in [a .. m + 1 -> S]
    BY <1>2, <2>1, <2>2
  <2>4. g[a] = base
    BY <1>2, <2>1
  <2>5. ASSUME NEW i \in a .. m + 1, i # a PROVE g[i] = step[i][g[i - 1]]
    <3>1. CASE i = m + 1
      <4>1. g[m + 1] = v /\ (m + 1) - 1 = m /\ g[m] = f[m]
        BY <1>2, <2>1
      <4> HIDE DEF g
      <4> QED
        BY <3>1, <4>1
    <3>2. CASE i # m + 1
      <4>1. i \in a .. m /\ g[i] = f[i] /\ g[i - 1] = f[i - 1]
        BY <2>5, <3>2, <1>2
      <4>2. f[i] = step[i][f[i - 1]]
        BY <2>1, <2>5, <4>1
      <4> QED
        BY <4>1, <4>2
    <3> QED
      BY <3>1, <3>2
  <2>6. m + 1 \in a .. b
    BY <1>2
  <2>7. Upto(m + 1, g)
    BY <2>4, <2>5
  <2> HIDE DEF Upto, g
  <2> QED
    BY <2>3, <2>6, <2>7
<1>3. b \in Defined
  <2> HIDE DEF Defined
  <2>1. \A i \in a .. b : i \in Defined
    BY <1>1, <1>2, CountUp
  <2> QED
    BY <2>1
<1> QED
  BY <1>3 DEF Follows

------------------------------------------------------------------------------
\* Division

\* Integer division, by what multiplies back.
LEMMA Quotient ==
    ASSUME NEW a \in Int, NEW d \in Nat \ {0}
    PROVE  /\ a \div d \in Int /\ (a \div d) * d <= a /\ a < (a \div d) * d + d
           /\ a >= 0 => a \div d \in Nat
OBVIOUS

\* The quotient is the only number the divisor multiplies to so much.
LEMMA QuotientIs ==
    ASSUME NEW a \in Int, NEW d \in Nat \ {0}, NEW q \in Int, q * d <= a, a < q * d + d
    PROVE  a \div d = q
<1>1. q <= a \div d
  BY Quotient
<1>2. a \div d <= q
  BY Quotient
<1> QED
  BY <1>1, <1>2, Quotient

------------------------------------------------------------------------------
\* What the limits and the sizes are

\* The limits are positive, and the budget leaves room for the metadata of one rectangle
\* (Limits.bounded, normalizeConfig).
LEMMA SetupIs ==
    ASSUME setup \in Setups
    PROVE  /\ setup.version \in {1, 2} /\ setup.tile \in Nat \ {0} /\ setup.cell \in Nat \ {0}
           /\ setup.version = 1 => setup.tile * setup.cell >= 256 /\ DirtyPercent <= 75
           /\ DirtyPercent \in Nat
           /\ Payload \in Nat \ {0} /\ MaxRects \in Nat \ {0} /\ MaxParts \in Nat \ {0}
           /\ Budget \in Nat /\ (Payload > WireFloor => Budget <= Payload - WireFloor)
           /\ Payload <= WireFloor => Budget = 0
<1>1. /\ setup.version \in {1, 2} /\ setup.tile \in Nat \ {0} /\ setup.cell \in Nat \ {0}
      /\ setup.version = 1 => setup.tile * setup.cell >= 256 /\ DirtyPercent <= 75
      /\ DirtyPercent \in Nat
      /\ setup.payload \in Nat /\ setup.rectangles \in Nat /\ setup.parts \in Nat
  BY PixelAssumption
<1>2. /\ HardPayload \in Nat \ {0} /\ HardRectangles \in Nat \ {0} /\ HardParts \in Nat \ {0}
      /\ DefaultBudget \in Nat \ {0}
  BY PixelAssumption
<1>3. Payload \in Nat \ {0} /\ MaxRects \in Nat \ {0} /\ MaxParts \in Nat \ {0}
  BY <1>1, <1>2 DEF Payload, MaxRects, MaxParts, Bounded
<1> QED
  BY <1>1, <1>2, <1>3 DEF Budget, Smaller, WireFloor, PartHeader, RectHeader

\* Each power that halving uses is twice the one before.
LEMMA Doubling == \A k \in 0 .. 30 : 2^(k + 1) = 2 * 2^k
<1> SUFFICES ASSUME NEW k \in 0 .. 30 PROVE 2^(k + 1) = 2 * 2^k
  OBVIOUS
<1>0. CASE k = 0 BY <1>0, SMT
<1>1. CASE k = 1 BY <1>1, SMT
<1>2. CASE k = 2 BY <1>2, SMT
<1>3. CASE k = 3 BY <1>3, SMT
<1>4. CASE k = 4 BY <1>4, SMT
<1>5. CASE k = 5 BY <1>5, SMT
<1>6. CASE k = 6 BY <1>6, SMT
<1>7. CASE k = 7 BY <1>7, SMT
<1>8. CASE k = 8 BY <1>8, SMT
<1>9. CASE k = 9 BY <1>9, SMT
<1>10. CASE k = 10 BY <1>10, SMT
<1>11. CASE k = 11 BY <1>11, SMT
<1>12. CASE k = 12 BY <1>12, SMT
<1>13. CASE k = 13 BY <1>13, SMT
<1>14. CASE k = 14 BY <1>14, SMT
<1>15. CASE k = 15 BY <1>15, SMT
<1>16. CASE k = 16 BY <1>16, SMT
<1>17. CASE k = 17 BY <1>17, SMT
<1>18. CASE k = 18 BY <1>18, SMT
<1>19. CASE k = 19 BY <1>19, SMT
<1>20. CASE k = 20 BY <1>20, SMT
<1>21. CASE k = 21 BY <1>21, SMT
<1>22. CASE k = 22 BY <1>22, SMT
<1>23. CASE k = 23 BY <1>23, SMT
<1>24. CASE k = 24 BY <1>24, SMT
<1>25. CASE k = 25 BY <1>25, SMT
<1>26. CASE k = 26 BY <1>26, SMT
<1>27. CASE k = 27 BY <1>27, SMT
<1>28. CASE k = 28 BY <1>28, SMT
<1>29. CASE k = 29 BY <1>29, SMT
<1>30. CASE k = 30 BY <1>30, SMT
<1>31. k = 0 \/ k = 1 \/ k = 2 \/ k = 3 \/ k = 4 \/ k = 5 \/ k = 6 \/ k = 7 \/ k \in 8 .. 30
  BY SMT
<1>32. k \in 8 .. 30 => k = 8 \/ k = 9 \/ k = 10 \/ k = 11 \/ k = 12 \/ k = 13 \/ k = 14 \/ k = 15 \/ k \in 16 .. 30
  BY SMT
<1>33. k \in 16 .. 30 => k = 16 \/ k = 17 \/ k = 18 \/ k = 19 \/ k = 20 \/ k = 21 \/ k = 22 \/ k = 23 \/ k \in 24 .. 30
  BY SMT
<1>34. k \in 24 .. 30 => k = 24 \/ k = 25 \/ k = 26 \/ k = 27 \/ k = 28 \/ k = 29 \/ k = 30
  BY SMT
<1> QED
  BY <1>0, <1>1, <1>2, <1>3, <1>4, <1>5, <1>6, <1>7, <1>8, <1>9, <1>10, <1>11, <1>12, <1>13, <1>14, <1>15, <1>16, <1>17,
     <1>18, <1>19, <1>20, <1>21, <1>22, <1>23, <1>24, <1>25, <1>26, <1>27, <1>28, <1>29, <1>30, <1>31, <1>32, <1>33, <1>34

\* The powers that halving uses are positive and grow.
LEMMA Powers == \A k \in 0 .. 31 : 2^k \in Nat \ {0} /\ \A j \in 0 .. k : 2^j <= 2^k
<1> DEFINE P(k) == 2^k
           T == {k \in 0 .. 31 : P(k) \in Nat \ {0} /\ \A j \in 0 .. k : P(j) \in Nat /\ P(j) <= P(k)}
<1>1. P(0) = 1
  BY SMT
<1>2. \A k \in 0 .. 30 : P(k + 1) = 2 * P(k)
  BY Doubling, Zenon
<1> HIDE DEF P
<1>3. 0 \in T
  <2>1. \A j \in 0 .. 0 : j = 0
    OBVIOUS
  <2> QED
    BY <1>1, <2>1
<1>4. ASSUME NEW k \in 0 .. 31, k \in T, k < 31 PROVE k + 1 \in T
  <2>1. P(k + 1) = 2 * P(k) /\ k + 1 \in 0 .. 31
    <3>1. k \in 0 .. 30
      BY <1>4
    <3> QED
      BY <1>2, <3>1
  <2>2. P(k) \in Nat \ {0} /\ \A j \in 0 .. k : P(j) \in Nat /\ P(j) <= P(k)
    BY <1>4
  <2>3. P(k + 1) \in Nat \ {0} /\ P(k) <= P(k + 1)
    BY <2>1, <2>2
  <2>4. ASSUME NEW j \in 0 .. k + 1 PROVE P(j) \in Nat /\ P(j) <= P(k + 1)
    <3>1. CASE j = k + 1
      BY <2>3, <3>1
    <3>2. CASE j # k + 1
      <4>1. j \in 0 .. k
        BY <1>4, <3>2
      <4>2. P(j) \in Nat /\ P(j) <= P(k)
        BY <2>2, <4>1
      <4> QED
        BY <2>2, <2>3, <4>2
    <3> QED
      BY <3>1, <3>2
  <2> QED
    BY <2>1, <2>3, <2>4
<1>5. \A k \in 0 .. 31 : k \in T
  <2>1. 0 \in Int /\ 31 \in Int /\ \A i \in 0 .. 31 : i \in T /\ i < 31 => i + 1 \in T
    BY <1>4
  <2> HIDE DEF T
  <2> QED
    BY <1>3, <2>1, CountUp
<1>6. \A k \in 0 .. 31 : P(k) \in Nat \ {0} /\ \A j \in 0 .. k : P(j) <= P(k)
  BY <1>5
<1> QED
  BY <1>6, Zenon DEF P

Size == (1 .. HighestSide) \X (1 .. HighestSide)

\* Halving does end, and with a side left in both directions.
LEMMA FactorIs ==
    ASSUME setup \in Setups, NEW size \in Size
    PROVE  /\ Factor(size) \in 0 .. 31
           /\ \A i \in {1, 2} : size[i] \div 2^Factor(size) \in Nat \ {0}
<1> DEFINE Empty(k) == 0 \in {Halved(size, k)[1], Halved(size, k)[2]}
           Done(k) == Empty(k) \/ Bytes(Halved(size, k)) <= Budget
           IsFirst(k) == Done(k) /\ \A j \in 0 .. k - 1 : ~Empty(j) /\ Bytes(Halved(size, j)) > Budget
           first == CHOOSE k \in 0 .. 31 : IsFirst(k)
           S == {k \in 0 .. 31 : Done(k)}
<1>1. size[1] \in 1 .. HighestSide /\ size[2] \in 1 .. HighestSide
  BY DEF Size
<1>2. \A k \in 0 .. 31 : /\ Halved(size, k)[1] = size[1] \div 2^k /\ Halved(size, k)[2] = size[2] \div 2^k
                         /\ Halved(size, k)[1] \in Nat /\ Halved(size, k)[2] \in Nat
  <2>1. size[1] \in Nat /\ size[2] \in Nat
    BY <1>1
  <2>2. ASSUME NEW k \in 0 .. 31 PROVE size[1] \div 2^k \in Nat /\ size[2] \div 2^k \in Nat
    <3> DEFINE B == 2^k
    <3>1. B \in Nat \ {0}
      BY Powers
    <3> HIDE DEF B
    <3>2. size[1] \div B \in Nat /\ size[2] \div B \in Nat
      BY <2>1, <3>1, Quotient
    <3> QED
      BY <3>2 DEF B
  <2> QED
    BY <2>2 DEF Halved
<1>3. 31 \in S
  <2>1. HighestSide \in Nat /\ HighestSide < 2^31 /\ 2^31 \in Nat \ {0}
    BY SMT DEF HighestSide
  <2>2. \A q \in Nat \ {0} : HighestSide < q => size[1] \div q = 0
    BY <1>1, <2>1, QuotientIs
  <2>3. Halved(size, 31)[1] = 0
    BY <2>1, <2>2 DEF Halved
  <2> QED
    BY <2>3
<1>4. \A k \in 0 .. 31 : Bytes(Halved(size, k)) \in Nat
  BY <1>2, SetupIs DEF Bytes
<1>5. PICK k \in S : \A j \in 0 .. k - 1 : j \notin S
  <2>1. S \in SUBSET (0 .. 31) /\ S # {}
    BY <1>3
  <2> HIDE DEF S
  <2> QED
    BY <2>1, LeastOf
<1>6. IsFirst(k)
  <2>1. ASSUME NEW j \in 0 .. k - 1 PROVE ~Empty(j) /\ Bytes(Halved(size, j)) > Budget
    <3>1. j \in 0 .. 31 /\ ~Done(j)
      BY <1>5
    <3>2. Bytes(Halved(size, j)) \in Nat /\ Budget \in Nat
      BY <1>4, <3>1, SetupIs
    <3> QED
      BY <3>1, <3>2
  <2> QED
    BY <1>5, <2>1
<1>7. first \in 0 .. 31 /\ IsFirst(first)
  <2> HIDE DEF IsFirst
  <2> QED
    BY <1>5, <1>6
<1>8. Factor(size) = IF Empty(first) THEN first - 1 ELSE first
  BY DEF Factor
<1> HIDE DEF first
<1>9. ~Empty(0)
  <2>1. 2^0 = 1
    OBVIOUS
  <2> QED
    BY <1>1, <2>1 DEF Halved
<1>10. Factor(size) \in 0 .. 31 /\ ~Empty(Factor(size))
  BY <1>7, <1>8, <1>9
<1> QED
  BY <1>2, <1>10

\* When some halving fits and leaves something, the one it ends with fits (downscaleFactor: "the smallest
\* k").
LEMMA FactorFits ==
    ASSUME setup \in Setups, NEW size \in Size, NEW n \in 0 .. 31, Bytes(Halved(size, n)) \in 1 .. Budget
    PROVE  Bytes(Halved(size, Factor(size))) <= Budget
<1> DEFINE Empty(k) == 0 \in {Halved(size, k)[1], Halved(size, k)[2]}
           Done(k) == Empty(k) \/ Bytes(Halved(size, k)) <= Budget
           IsFirst(k) == Done(k) /\ \A j \in 0 .. k - 1 : ~Empty(j) /\ Bytes(Halved(size, j)) > Budget
           first == CHOOSE k \in 0 .. 31 : IsFirst(k)
           S == {k \in 0 .. 31 : Done(k)}
<1>1. size[1] \in Nat /\ size[2] \in Nat /\ setup.cell \in Nat /\ Budget \in Nat
  <2>1. \A k \in 1 .. HighestSide : k \in Nat
    OBVIOUS
  <2> QED
    BY <2>1, SetupIs DEF Size
<1>2. \A k \in 0 .. 31 : /\ Halved(size, k)[1] = size[1] \div 2^k /\ Halved(size, k)[2] = size[2] \div 2^k
                         /\ Halved(size, k)[1] \in Nat /\ Halved(size, k)[2] \in Nat
                         /\ Bytes(Halved(size, k)) \in Nat
  <2> SUFFICES ASSUME NEW k \in 0 .. 31
               PROVE  LET h == Halved(size, k)
                      IN  /\ h[1] = size[1] \div 2^k /\ h[2] = size[2] \div 2^k
                          /\ h[1] \in Nat /\ h[2] \in Nat /\ Bytes(h) \in Nat
    BY Zenon
  <2> DEFINE B == 2^k
             h == Halved(size, k)
  <2>1. B \in Nat \ {0}
    BY Powers
  <2>2. h[1] = size[1] \div B /\ h[2] = size[2] \div B
    BY DEF Halved
  <2> HIDE DEF B, h
  <2>3. h[1] \in Nat /\ h[2] \in Nat
    BY <1>1, <2>1, <2>2, Quotient
  <2>4. Bytes(h) \in Nat
    BY <1>1, <2>3 DEF Bytes
  <2> QED
    BY <2>2, <2>3, <2>4 DEF B, h
<1>3. ~Empty(n) /\ Bytes(Halved(size, n)) <= Budget
  <2> DEFINE h == Halved(size, n)
  <2>1. h[1] \in Nat /\ h[2] \in Nat /\ Bytes(h) \in 1 .. Budget
    BY <1>2
  <2> HIDE DEF h
  <2>2. h[1] # 0 /\ h[2] # 0 /\ Bytes(h) <= Budget
    BY <1>1, <2>1 DEF Bytes
  <2> QED
    BY <2>2 DEF h
\* A side that vanished stays so.
<1>4. ASSUME NEW k \in 0 .. n PROVE ~Empty(k)
  <2>1. 2^k \in Nat \ {0} /\ 2^n \in Nat \ {0} /\ 2^k <= 2^n /\ k \in 0 .. 31
    <3>1. k \in 0 .. 31
      OBVIOUS
    <3> QED
      BY <3>1, Powers, Zenon
  <2> DEFINE C == 2^k
             D == 2^n
  <2>2. \A i \in {1, 2} : size[i] \div D \in Nat \ {0}
    BY <1>2, <1>3
  <2>3. C \in Nat \ {0} /\ D \in Nat \ {0} /\ C <= D
    BY <2>1
  <2> HIDE DEF C, D
  <2>4. ASSUME NEW i \in {1, 2} PROVE size[i] \div C # 0
    <3> DEFINE q == size[i] \div D
               s == size[i]
    <3>1. s \in Nat /\ q \in Nat \ {0} /\ q * D <= s
      BY <1>1, <2>2, <2>3, Quotient
    <3> HIDE DEF q, s
    <3>2. D <= q * D
      BY <2>3, <3>1
    <3>3. C <= s
      BY <2>3, <3>1, <3>2
    <3>4. s < (s \div C) * C + C
      BY <2>3, <3>1, Quotient
    <3> QED
      BY <2>3, <3>1, <3>3, <3>4 DEF s
  <2> QED
    BY <1>2, <2>1, <2>4 DEF C
<1>5. PICK k \in S : \A j \in 0 .. k - 1 : j \notin S
  <2>1. S \in SUBSET (0 .. 31) /\ S # {}
    <3>1. Done(n)
      BY <1>3
    <3>2. n \in S
      <4> HIDE DEF Done
      <4> QED
        BY <3>1, Zenon
    <3>3. S \in SUBSET (0 .. 31)
      <4> HIDE DEF Done
      <4> QED
        BY Zenon
    <3> QED
      BY <3>2, <3>3, Zenon
  <2> HIDE DEF S
  <2>2. 0 \in Int /\ 31 \in Int
    OBVIOUS
  <2> QED
    BY <2>1, <2>2, LeastOf, ZenonT(30)
<1>6. IsFirst(k)
  <2>1. ASSUME NEW j \in 0 .. k - 1 PROVE ~Empty(j) /\ Bytes(Halved(size, j)) > Budget
    <3>1. j \in 0 .. 31 /\ ~Done(j)
      BY <1>5
    <3>2. Bytes(Halved(size, j)) \in Nat /\ Budget \in Nat
      BY <1>1, <1>2, <3>1
    <3> QED
      BY <3>1, <3>2
  <2> QED
    BY <1>5, <2>1
<1>7. first \in 0 .. 31 /\ IsFirst(first)
  <2> HIDE DEF IsFirst
  <2> QED
    BY <1>5, <1>6
<1>8. Factor(size) = IF Empty(first) THEN first - 1 ELSE first
  BY DEF Factor
<1> HIDE DEF first
<1>9. first \in 0 .. n
  <2>1. n \notin 0 .. first - 1
    <3>1. Bytes(Halved(size, n)) \in Nat
      BY <1>2
    <3> QED
      BY <1>1, <1>3, <1>7, <3>1
  <2> QED
    BY <1>7, <2>1
<1> QED
  BY <1>4, <1>7, <1>8, <1>9

------------------------------------------------------------------------------
\* The pointer

\* A pixel of a display halved to blocks of B pixels leads into its own block or the next.
LEMMA RemapIs ==
    ASSUME NEW shown \in Nat \ {0}, NEW actual \in Nat, NEW B \in Nat \ {0},
           shown * B <= actual, actual < shown * B + B, NEW r \in 0 .. shown - 1
    PROVE  LET p == Remap(r, shown, actual)
           IN  /\ p \in 0 .. actual - 1 /\ p >= r * B /\ p < (r + 2) * B
               /\ r = shown - 1 /\ shown > 1 => p = actual - 1
<1> DEFINE p == Remap(r, shown, actual)
           span == shown - 1
           last == actual - 1
           h == span \div 2
           q == (r * last + h) \div span
<1>1. actual >= 1
  BY shown * B >= 1
<1>2. CASE shown = 1
  <2>1. r = 0 /\ p = 0
    BY <1>2 DEF Remap
  <2> QED
    BY <1>1, <1>2, <2>1
<1>3. CASE shown > 1
  <2>1. span \in Nat \ {0} /\ last \in Nat /\ r \in Nat /\ r <= span
    BY <1>1, <1>3
  <2>2. h \in Nat /\ 2 * h <= span
    BY <2>1
  <2>3. p = Smaller(q, last)
    BY <1>1, <1>3 DEF Remap, Smaller
  <2>4. last >= span * B /\ last <= span * B + 2 * B - 2
    BY <1>1
  <2> HIDE DEF p, span, last, h
  <2>5. r * last \in Nat
    BY <2>1
  <2>6. q \in Nat /\ q * span <= r * last + h /\ r * last + h < q * span + span
    BY <2>1, <2>2, <2>5, Quotient
  <2> HIDE DEF q
  <2>7. q <= last
    <3>1. r * last <= span * last
      BY <2>1
    <3>2. q * span < (last + 1) * span
      BY <2>1, <2>2, <2>5, <2>6, <3>1
    <3> QED
      BY <2>1, <2>6, <3>2
  <2>8. q >= r * B
    <3>1. r * last >= r * (span * B)
      BY <2>1, <2>4
    <3>2. (r * B) * span < (q + 1) * span
      BY <2>1, <2>2, <2>5, <2>6, <3>1
    <3> QED
      BY <2>1, <2>6, <3>2
  <2>9. q < (r + 2) * B
    <3>1. r * last <= r * (span * B + 2 * B - 2)
      BY <2>1, <2>4
    <3>2. r * (span * B + 2 * B - 2) = (r * B) * span + 2 * (r * (B - 1))
      BY <2>1
    <3>3. r * (B - 1) <= span * (B - 1)
      BY <2>1
    <3>4. span * (B - 1) = span * B - span
      BY <2>1
    <3>5. ((r + 2) * B) * span = (r * B) * span + 2 * (span * B)
      BY <2>1
    <3>6. q * span < ((r + 2) * B) * span
      <4> DEFINE X == (r * B) * span
                 Y == span * B
                 Z == r * (B - 1)
                 L == r * last
                 Q == q * span
      <4>1. X \in Nat /\ Y \in Nat /\ Z \in Nat /\ L \in Nat /\ Q \in Nat
        BY <2>1, <2>5, <2>6
      <4>2. Q <= L + h /\ L <= X + 2 * Z /\ Z <= Y - span /\ ((r + 2) * B) * span = X + 2 * Y
        BY <2>6, <3>1, <3>2, <3>3, <3>4, <3>5
      <4> HIDE DEF X, Y, Z, L, Q
      <4>3. Q < X + 2 * Y
        BY <2>1, <2>2, <4>1, <4>2
      <4> QED
        BY <4>2, <4>3 DEF Q
    <3> QED
      BY <2>1, <2>6, <3>6
  <2>10. r = span => q = last
    <3>1. r = span => last * span <= r * last + h /\ r * last + h < last * span + span
      BY <2>1, <2>2
    <3> QED
      BY <2>1, <2>2, <2>5, <3>1, QuotientIs DEF q
  <2>11. p = q
    BY <2>1, <2>3, <2>6, <2>7 DEF Smaller
  <2> QED
    BY <1>1, <2>6, <2>7, <2>8, <2>9, <2>10, <2>11 DEF p, span, last
<1> QED
  BY <1>2, <1>3

\* The position of the view is inside the pixel it is mapped to, or on its far border.
LEMMA MappedIs ==
    ASSUME NEW view \in (Nat \ {0}) \X (Nat \ {0}), NEW at, NEW i \in {1, 2}, at[i] \in Nat,
           image \in (Nat \ {0}) \X (Nat \ {0}), NEW m \in Mapped(view, at, i)
    PROVE  LET whole == view[1] * image[2] <= view[2] * image[1]
               scaleNum == IF whole THEN view[1] ELSE view[2]
               scaleDen == IF whole THEN image[1] ELSE image[2]
               inside == 2 * at[i] * scaleDen - (view[i] * scaleDen - image[i] * scaleNum)
           IN  2 * m * scaleNum <= inside /\ inside <= 2 * (m + 1) * scaleNum
<1> DEFINE whole == view[1] * image[2] <= view[2] * image[1]
           side == IF whole THEN 1 ELSE 2
           num == IF whole THEN view[1] ELSE view[2]
           den == IF whole THEN image[1] ELSE image[2]
           scaled == 2 * at[i] * image[side] - (view[i] * image[side] - image[i] * view[side])
           pixel == scaled \div (2 * view[side])
<1>1. view[side] = num /\ image[side] = den /\ num \in Nat \ {0} /\ den \in Nat \ {0}
  OBVIOUS
<1>2. view[i] \in Nat /\ image[i] \in Nat
  OBVIOUS
<1>3. m \in {pixel - 1, pixel} /\ scaled <= 2 * view[side] * (m + 1)
  BY DEF Mapped
<1> HIDE DEF side, num, den, whole
<1>4. scaled \in Int
  BY <1>1, <1>2
<1> HIDE DEF scaled
<1>5. pixel \in Int /\ pixel * (2 * num) <= scaled
  <2>1. 2 * num \in Nat \ {0} /\ pixel = scaled \div (2 * num)
    BY <1>1
  <2> HIDE DEF pixel
  <2> QED
    BY <1>4, <2>1, Quotient
<1> HIDE DEF pixel
<1>6. m \in Int /\ 2 * m * num <= scaled
  <2>1. 2 * (pixel - 1) * num = pixel * (2 * num) - 2 * num /\ 2 * pixel * num = pixel * (2 * num)
    BY <1>1, <1>5
  <2> QED
    BY <1>1, <1>3, <1>4, <1>5, <2>1
<1>7. scaled <= 2 * (m + 1) * num
  <2>1. 2 * num * (m + 1) = 2 * (m + 1) * num
    BY <1>1, <1>6
  <2> QED
    BY <1>1, <1>3, <2>1
<1>8. scaled = 2 * at[i] * den - (view[i] * den - image[i] * num)
  BY <1>1 DEF scaled
<1> QED
  BY <1>6, <1>7, <1>8 DEF num, den, whole

------------------------------------------------------------------------------
\* The length of a message, as a difference of running sums

WeightOf(g, bodies) ==
    /\ g \in [0 .. Len(bodies) -> Nat] /\ g[0] = 0
    /\ \A i \in 1 .. Len(bodies) : g[i] = g[i - 1] + RectHeader + bodies[i]

\* Every sequence of bodies has its running sums.
LEMMA HasWeight == ASSUME NEW bodies \in Seq(Nat) PROVE \E g : WeightOf(g, bodies)
<1> DEFINE n == Len(bodies)
           a == 0
           step == [i \in a .. n |-> [v \in Nat |-> v + RectHeader + (IF i = a THEN 0 ELSE bodies[i])]]
<1>1. n \in Nat /\ \A i \in 1 .. n : bodies[i] \in Nat
  OBVIOUS
<1>2. /\ step \in [a .. n -> [Nat -> Nat]]
      /\ \A i \in a .. n, v \in Nat : i # a => step[i][v] = v + RectHeader + bodies[i]
  BY <1>1 DEF RectHeader
<1>3. a \in Int /\ n \in Int /\ a <= n /\ a \in Nat
  BY <1>1
<1> HIDE DEF step, n, a
<1>4. PICK g \in [a .. n -> Nat] : g[a] = a /\ Follows(g, a, n, step)
  BY <1>2, <1>3, Recursion
<1>5. ASSUME NEW i \in 1 .. n PROVE g[i] = g[i - 1] + RectHeader + bodies[i]
  <2>1. i \in a .. n /\ i # a /\ g[i - 1] \in Nat
    BY <1>1 DEF a
  <2> QED
    BY <1>2, <1>4, <2>1 DEF Follows
<1> QED
  BY <1>4, <1>5 DEF WeightOf, n, a

\* The sums grow, by a whole rectangle at each step.
LEMMA WeightGrows ==
    ASSUME NEW bodies \in Seq(Nat), NEW g, WeightOf(g, bodies),
           NEW i \in 0 .. Len(bodies), NEW j \in i .. Len(bodies)
    PROVE  g[i] <= g[j] /\ (i < j => g[i] + RectHeader + bodies[j] <= g[j])
<1> DEFINE n == Len(bodies)
           Good == {k \in i .. n : g[i] <= g[k] /\ (i < k => g[i] + RectHeader + bodies[k] <= g[k])}
<1>1. n \in Nat /\ \A k \in 1 .. n : bodies[k] \in Nat
  OBVIOUS
<1>2. g \in [0 .. n -> Nat] /\ \A k \in 1 .. n : g[k] = g[k - 1] + RectHeader + bodies[k]
  BY DEF WeightOf
<1> HIDE DEF n
<1>3. i \in 0 .. n /\ i \in Int /\ j \in i .. n
  BY <1>1 DEF n
<1>4. i \in Good
  BY <1>1, <1>2, <1>3
<1>5. ASSUME NEW k \in i .. n, k \in Good, k < n PROVE k + 1 \in Good
  <2>1. k + 1 \in 1 .. n /\ k \in 0 .. n /\ k + 1 \in i .. n /\ (k + 1) - 1 = k
    BY <1>1, <1>3, <1>5
  <2>2. g[k + 1] = g[k] + RectHeader + bodies[k + 1] /\ g[k] \in Nat /\ g[i] \in Nat /\ bodies[k + 1] \in Nat
    BY <1>1, <1>2, <1>3, <2>1
  <2>3. g[i] <= g[k] /\ g[k + 1] \in Nat
    BY <1>2, <1>5, <2>1
  <2>4. g[i] <= g[k + 1] /\ g[i] + RectHeader + bodies[k + 1] <= g[k + 1]
    <3>1. RectHeader \in Nat
      BY DEF RectHeader
    <3>2. \A p, q, r, b \in Nat : p <= q => p <= q + r + b /\ p + r + b <= q + r + b
      OBVIOUS
    <3> QED
      BY <2>2, <2>3, <3>1, <3>2
  <2> QED
    BY <2>1, <2>4
<1>6. \A k \in i .. n : k \in Good
  <2>1. i \in Int /\ n \in Int
    BY <1>1, <1>3
  <2>2. \A k \in i .. n : k \in Good /\ k < n => k + 1 \in Good
    BY <1>5
  <2> HIDE DEF Good
  <2> QED
    BY <1>4, <2>1, <2>2, CountUp
<1> QED
  BY <1>3, <1>6

\* rectListPayloadSize and framePartPayloadSize are a header and a difference of sums.
LEMMA PayloadIs ==
    ASSUME NEW bodies \in Seq(Nat), NEW g, WeightOf(g, bodies), NEW header \in Nat,
           NEW from \in 1 .. Len(bodies), NEW to \in from - 1 .. Len(bodies)
    PROVE  PayloadSize(header, bodies, from, to) = header + (g[to] - g[from - 1])
<1> DEFINE n == Len(bodies)
           a == from - 1
           upTo[i \in a .. to] ==
               IF i < from THEN header ELSE upTo[i - 1] + RectHeader + bodies[i]
           step == [i \in a .. to |-> [v \in Nat |-> v + RectHeader + (IF i = a THEN 0 ELSE bodies[i])]]
           Body(f) == [i \in a .. to |-> IF i < from THEN header ELSE f[i - 1] + RectHeader + bodies[i]]
<1>1. n \in Nat /\ \A i \in 1 .. n : bodies[i] \in Nat
  OBVIOUS
<1>2. /\ a \in Int /\ to \in Int /\ a <= to /\ a \in 0 .. n /\ from \in 1 .. n /\ to \in a .. n
      /\ \A i \in a .. to : i # a => i \in 1 .. n /\ i - 1 \in a .. to /\ ~(i < from)
      /\ a < from
  BY <1>1
<1>3. g \in [0 .. n -> Nat] /\ \A k \in 1 .. n : g[k] = g[k - 1] + RectHeader + bodies[k]
  BY DEF WeightOf
<1>9. PayloadSize(header, bodies, from, to) = upTo[to]
  BY DEF PayloadSize
<1> HIDE DEF n, a
<1>4. /\ step \in [a .. to -> [Nat -> Nat]]
      /\ \A i \in a .. to, v \in Nat : i # a => step[i][v] = v + RectHeader + bodies[i]
  BY <1>1, <1>2 DEF RectHeader
<1> HIDE DEF step
<1>5. PICK f \in [a .. to -> Nat] :
          f[a] = header /\ Follows(f, a, to, step)
  BY <1>2, <1>4, Recursion
<1>6. ASSUME NEW i \in a .. to
      PROVE  /\ i = a => f[i] = header /\ i < from
             /\ i # a => ~(i < from) /\ f[i] = f[i - 1] + RectHeader + bodies[i]
  BY <1>2, <1>4, <1>5 DEF Follows
<1>7. f = Body(f)
  <2>1. f = [i \in a .. to |-> f[i]]
    BY <1>5
  <2>2. \A i \in a .. to : f[i] = IF i < from THEN header ELSE f[i - 1] + RectHeader + bodies[i]
    BY <1>6
  <2> QED
    BY <2>1, <2>2
<1>8. upTo = Body(upTo) /\ upTo = CHOOSE h : h = Body(h)
  <2>1. upTo = CHOOSE h : h = Body(h)
    BY DEF upTo
  <2> HIDE DEF upTo, Body
  <2> QED
    BY <1>7, <2>1
<1> HIDE DEF upTo
<1>10. \A i \in a .. to : upTo[i] = IF i < from THEN header ELSE upTo[i - 1] + RectHeader + bodies[i]
  <2> DEFINE V(i) == IF i < from THEN header ELSE upTo[i - 1] + RectHeader + bodies[i]
  <2>1. upTo = [i \in a .. to |-> V(i)]
    BY <1>8
  <2> HIDE DEF V
  <2>2. \A i \in a .. to : upTo[i] = V(i)
    BY <2>1
  <2> QED
    BY <2>2 DEF V
<1> DEFINE Good == {i \in a .. to : upTo[i] = header + (g[i] - g[a])}
<1>11. a \in Good
  <2>1. upTo[a] = header
    BY <1>2, <1>10
  <2>2. g[a] \in Nat
    BY <1>2, <1>3
  <2>3. a \in a .. to
    BY <1>2
  <2> QED
    BY <2>1, <2>2, <2>3
<1>12. ASSUME NEW i \in a .. to, i \in Good, i < to PROVE i + 1 \in Good
  <2>1. i + 1 \in a .. to /\ i + 1 \in 1 .. n /\ i \in 0 .. n /\ (i + 1) - 1 = i /\ ~(i + 1 < from)
    <3>1. i \in Int /\ i >= a /\ i < to /\ a \in Int /\ to \in Int
      BY <1>2, <1>12
    <3>2. i + 1 \in a .. to /\ i + 1 # a /\ (i + 1) - 1 = i
      BY <3>1
    <3>3. i + 1 \in 1 .. n /\ ~(i + 1 < from)
      BY <1>2, <3>2
    <3>4. i \in 0 .. n
      BY <1>1, <3>1, <3>3
    <3> QED
      BY <3>2, <3>3, <3>4
  <2>2. upTo[i + 1] = upTo[i] + RectHeader + bodies[i + 1]
    BY <1>10, <2>1
  <2>3. /\ g[i + 1] = g[i] + RectHeader + bodies[i + 1] /\ bodies[i + 1] \in Nat
        /\ g[i] \in Nat /\ g[i + 1] \in Nat /\ g[a] \in Nat
    BY SMTT(30), <1>1, <1>2, <1>3, <2>1
  <2>4. upTo[i] = header + (g[i] - g[a])
    BY <1>12
  <2>5. upTo[i + 1] = header + (g[i + 1] - g[a])
    <3>1. RectHeader \in Nat
      BY DEF RectHeader
    <3> DEFINE u == upTo[i]
               p == g[i]
               q == g[a]
               b == bodies[i + 1]
               r == RectHeader
    <3>2. u = header + (p - q) /\ p \in Nat /\ q \in Nat /\ b \in Nat /\ r \in Nat
      BY <2>3, <2>4, <3>1
    <3>3. upTo[i + 1] = u + r + b /\ g[i + 1] = p + r + b
      BY <2>2, <2>3
    <3> HIDE DEF u, p, q, b, r
    <3>4. u + r + b = header + (p + r + b - q)
      BY <3>2
    <3>5. upTo[i + 1] = header + (g[i + 1] - q)
      BY <3>2, <3>3, <3>4
    <3> QED
      BY <3>5 DEF q
  <2> QED
    BY <2>1, <2>5
<1>13. \A i \in a .. to : i \in Good
  <2> HIDE DEF Good, a
  <2> QED
    BY <1>2, <1>11, <1>12, CountUp
<1>14. to \in a .. to
  BY <1>2
<1>15. upTo[to] = header + (g[to] - g[a])
  <2> HIDE DEF a
  <2> QED
    BY <1>13, <1>14
<1> QED
  BY <1>9, <1>15 DEF a

------------------------------------------------------------------------------
\* Splitting

\* Whether some rectangles are a part, by the sums.
LEMMA FitsIs ==
    ASSUME NEW bodies \in Seq(Nat), NEW g, WeightOf(g, bodies),
           NEW from \in 1 .. Len(bodies), NEW to \in from .. Len(bodies)
    PROVE  PartFits(bodies, from, to) <=> PartHeader + (g[to] - g[from - 1]) <= Payload
<1>1. to \in from - 1 .. Len(bodies) /\ PartHeader \in Nat
  BY DEF PartHeader
<1> QED
  BY <1>1, PayloadIs DEF PartFits

\* What fits still fits with fewer rectangles.
LEMMA FitsShrinks ==
    ASSUME setup \in Setups, NEW bodies \in Seq(Nat), NEW from \in 1 .. Len(bodies), NEW to \in from .. Len(bodies),
           NEW first \in from .. to, NEW last \in first .. to, PartFits(bodies, from, to)
    PROVE  PartFits(bodies, first, last)
<1>1. PICK g : WeightOf(g, bodies)
  BY HasWeight
<1> DEFINE n == Len(bodies)
<1>2. n \in Nat /\ g \in [0 .. n -> Nat]
  BY <1>1 DEF WeightOf
<1>3. /\ first \in 1 .. n /\ last \in first .. n /\ last \in 0 .. n /\ to \in last .. n /\ to \in 0 .. n
      /\ from - 1 \in 0 .. n /\ first - 1 \in from - 1 .. n /\ first - 1 \in 0 .. n
  OBVIOUS
<1>4. g[last] <= g[to] /\ g[from - 1] <= g[first - 1]
  BY <1>1, <1>3, WeightGrows
<1>5. PartFits(bodies, from, to) <=> PartHeader + (g[to] - g[from - 1]) <= Payload
  BY <1>1, FitsIs
<1>6. PartFits(bodies, first, last) <=> PartHeader + (g[last] - g[first - 1]) <= Payload
  BY <1>1, <1>3, FitsIs
<1>7. g[last] \in Nat /\ g[to] \in Nat /\ g[from - 1] \in Nat /\ g[first - 1] \in Nat
  BY <1>2, <1>3
<1>8. Payload \in Nat /\ PartHeader \in Nat
  BY SetupIs DEF PartHeader
<1> DEFINE a == g[from - 1]
           b == g[first - 1]
           c == g[last]
           d == g[to]
           fits == PartFits(bodies, first, last)
<1>9. /\ a \in Nat /\ b \in Nat /\ c \in Nat /\ d \in Nat /\ c <= d /\ a <= b
      /\ PartHeader + (d - a) <= Payload
      /\ fits <=> PartHeader + (c - b) <= Payload
  BY <1>4, <1>5, <1>6, <1>7
<1> HIDE DEF a, b, c, d, fits
<1>10. PartHeader + (c - b) <= Payload
  BY <1>8, <1>9
<1> QED
  BY <1>9, <1>10 DEF fits

\* The parts closed before rectangle i end at the entries of ends but the first:
\* none of them had room for the rectangle that follows.
Closed(bodies, ends, i) ==
    /\ ends \in Seq(Nat) /\ Len(ends) >= 1 /\ ends[1] = 0
    /\ \A k \in 1 .. Len(ends) : ends[k] < i
    /\ \A k \in 1 .. Len(ends) - 1 : ends[k] < ends[k + 1] /\ ~PartFits(bodies, ends[k] + 1, ends[k + 1] + 1)

\* Each part fits, and there are not too many.
AllFit(bodies, ends, i) ==
    /\ Len(ends) <= MaxParts
    /\ \A k \in 1 .. Len(ends) - 1 : PartFits(bodies, ends[k] + 1, ends[k + 1])
    /\ PartFits(bodies, ends[Len(ends)] + 1, i)

\* The state of SplitFrame at rectangle i.
SplitAt(bodies, c, i) ==
    /\ Closed(bodies, c.ends, i)
    /\ c.failed => Len(c.ends) > MaxParts \/ \E j \in 1 .. Len(bodies) : ~PartFits(bodies, j, j)
    /\ ~c.failed => AllFit(bodies, c.ends, i)

SplitNext(bodies, c, i) ==
    IF c.failed \/ PartFits(bodies, c.ends[Len(c.ends)] + 1, i) THEN c
    ELSE [ends |-> Append(c.ends, i - 1),
          failed |-> ~AnotherPart(Len(c.ends)) \/ ~PartFits(bodies, i, i)]

\* A rectangle that does not fit closes a part, and the ends of the parts still rise.
LEMMA ClosedMore ==
    ASSUME NEW bodies, NEW ends, NEW i \in Nat \ {0, 1}, Closed(bodies, ends, i - 1)
    PROVE  /\ Closed(bodies, ends, i)
           /\ ~PartFits(bodies, ends[Len(ends)] + 1, i) /\ ends[Len(ends)] < i - 1
                  => Closed(bodies, Append(ends, i - 1), i)
<1>1. ends \in Seq(Nat) /\ Len(ends) >= 1 /\ Len(ends) \in Nat /\ \A k \in 1 .. Len(ends) : ends[k] \in Nat
  BY DEF Closed
<1>2. Closed(bodies, ends, i)
  BY <1>1 DEF Closed
<1>3. ASSUME ~PartFits(bodies, ends[Len(ends)] + 1, i), ends[Len(ends)] < i - 1
      PROVE  Closed(bodies, Append(ends, i - 1), i)
  <2> DEFINE L == Len(ends)
             e == Append(ends, i - 1)
  <2>1. e \in Seq(Nat) /\ Len(e) = L + 1 /\ e[L + 1] = i - 1 /\ \A k \in 1 .. L : e[k] = ends[k]
    BY <1>1
  <2>2. e[1] = 0 /\ Len(e) >= 1
    BY <1>1, <2>1 DEF Closed
  <2>3. \A k \in 1 .. L : ends[k] < i - 1
    BY DEF Closed
  <2>4. \A k \in 1 .. L - 1 : ends[k] < ends[k + 1] /\ ~PartFits(bodies, ends[k] + 1, ends[k + 1] + 1)
    BY DEF Closed
  <2> HIDE DEF e
  <2>5. L \in Nat /\ L >= 1
    BY <1>1
  <2>6. ~PartFits(bodies, ends[L] + 1, i) /\ ends[L] < i - 1
    BY <1>3
  <2> HIDE DEF L
  <2>7. ASSUME NEW k \in 1 .. L + 1 PROVE e[k] < i
    <3>1. k = L + 1 \/ k \in 1 .. L
      BY <2>5
    <3>2. k \in 1 .. L => ends[k] \in Nat /\ ends[k] < i
      BY <1>1, <2>3 DEF L
    <3> QED
      BY <2>1, <3>1, <3>2
  <2>8. ASSUME NEW k \in 1 .. L PROVE e[k] < e[k + 1] /\ ~PartFits(bodies, e[k] + 1, e[k + 1] + 1)
    <3>1. CASE k = L
      <4>1. e[k] = ends[L] /\ e[k + 1] = i - 1 /\ (i - 1) + 1 = i
        BY <2>1, <2>5, <3>1
      <4> QED
        BY <2>6, <4>1
    <3>2. CASE k # L
      <4>1. k \in 1 .. L - 1 /\ k + 1 \in 1 .. L
        BY <2>5, <3>2
      <4> QED
        BY <2>1, <2>4, <4>1
    <3> QED
      BY <3>1, <3>2
  <2>9. Len(e) - 1 = L
    BY <2>1, <2>5
  <2> QED
    BY <2>1, <2>2, <2>7, <2>8, <2>9 DEF Closed, e
<1> QED
  BY <1>2, <1>3

\* What SplitFrame knows at a rectangle it knows at the next.
LEMMA SplitAtNext ==
    ASSUME setup \in Setups, NEW bodies \in Seq(Nat), NEW i \in 2 .. Len(bodies), NEW c,
           c \in [ends : Seq(Nat), failed : BOOLEAN], SplitAt(bodies, c, i - 1)
    PROVE  SplitAt(bodies, SplitNext(bodies, c, i), i)
<1> DEFINE L == Len(c.ends)
           last == c.ends[L]
<1>1. /\ L \in Nat /\ L >= 1 /\ c.ends \in Seq(Nat) /\ last \in Nat /\ last < i - 1
      /\ \A k \in 1 .. L : c.ends[k] \in Nat /\ c.ends[k] < i - 1
  <2> DEFINE e == c.ends
  <2>1. Closed(bodies, e, i - 1)
    BY DEF SplitAt
  <2> HIDE DEF e
  <2>2. e \in Seq(Nat) /\ Len(e) >= 1 /\ \A k \in 1 .. Len(e) : e[k] < i - 1
    BY <2>1, Zenon DEF Closed
  <2>3. Len(e) \in Nat /\ Len(e) \in 1 .. Len(e) /\ \A k \in 1 .. Len(e) : e[k] \in Nat
    BY <2>2
  <2> QED
    BY <2>2, <2>3, Zenon DEF e
<1>2. i \in Nat \ {0, 1} /\ MaxParts \in Nat
  BY SMTT(30), SetupIs
<1>3. Closed(bodies, c.ends, i)
  BY <1>2, ClosedMore DEF SplitAt
<1>4. CASE c.failed
  <2>1. SplitNext(bodies, c, i) = c
    BY <1>4 DEF SplitNext
  <2> QED
    BY <1>3, <1>4, <2>1 DEF SplitAt
<1>5. CASE ~c.failed /\ PartFits(bodies, last + 1, i)
  <2>1. SplitNext(bodies, c, i) = c
    BY <1>5 DEF SplitNext
  <2> QED
    BY <1>3, <1>5, <2>1 DEF SplitAt, AllFit
<1>6. CASE ~c.failed /\ ~PartFits(bodies, last + 1, i)
  <2> DEFINE e == Append(c.ends, i - 1)
             bad == ~AnotherPart(L) \/ ~PartFits(bodies, i, i)
             d == [ends |-> e, failed |-> bad]
  <2>1. SplitNext(bodies, c, i) = d
    BY <1>6 DEF SplitNext
  <2>2. Closed(bodies, e, i)
    BY <1>1, <1>2, <1>6, ClosedMore DEF SplitAt
  <2>3. e \in Seq(Nat) /\ Len(e) = L + 1 /\ e[L + 1] = i - 1 /\ \A k \in 1 .. L : e[k] = c.ends[k]
    BY <1>1
  <2>4. AllFit(bodies, c.ends, i - 1)
    BY <1>6 DEF SplitAt
  <2> HIDE DEF e
  <2>5. bad => Len(e) > MaxParts \/ \E j \in 1 .. Len(bodies) : ~PartFits(bodies, j, j)
    <3>1. i \in 1 .. Len(bodies)
      OBVIOUS
    <3> QED
      BY <1>1, <1>2, <2>3, <3>1 DEF AnotherPart
  <2>6. ASSUME ~bad PROVE AllFit(bodies, e, i)
    <3>1. Len(e) <= MaxParts
      BY <1>1, <1>2, <2>3, <2>6 DEF AnotherPart
    <3>2. ASSUME NEW k \in 1 .. L PROVE PartFits(bodies, e[k] + 1, e[k + 1])
      <4>1. CASE k = L
        <5>1. e[k] = last /\ e[k + 1] = i - 1
          BY <1>1, <2>3, <4>1
        <5> QED
          BY <2>4, <5>1 DEF AllFit
      <4>2. CASE k # L
        <5>1. k \in 1 .. L - 1 /\ k + 1 \in 1 .. L
          BY <1>1, <4>2
        <5>2. PartFits(bodies, c.ends[k] + 1, c.ends[k + 1])
          BY <2>4, <5>1 DEF AllFit
        <5> QED
          BY <2>3, <5>1, <5>2
      <4> QED
        BY <4>1, <4>2
    <3>3. PartFits(bodies, e[Len(e)] + 1, i)
      <4>1. e[Len(e)] + 1 = i
        BY <1>2, <2>3
      <4> QED
        BY <2>6, <4>1
    <3>4. Len(e) - 1 = L
      BY <1>1, <2>3
    <3> QED
      BY <3>1, <3>2, <3>3, <3>4 DEF AllFit
  <2>7. d.ends = e /\ d.failed = bad
    OBVIOUS
  <2> HIDE DEF d, bad
  <2> QED
    BY <2>1, <2>2, <2>5, <2>6, <2>7 DEF SplitAt
<1> QED
  BY <1>4, <1>5, <1>6

------------------------------------------------------------------------------
SplitStates == [ends : Seq(Nat), failed : BOOLEAN]

SplitFirst(bodies) == [ends |-> <<0>>, failed |-> ~PartFits(bodies, 1, 1)]

\* The states of SplitFrame lead to such states.
LEMMA SplitNextType ==
    ASSUME NEW bodies, NEW i \in Nat \ {0}, NEW c \in SplitStates
    PROVE  SplitNext(bodies, c, i) \in SplitStates
<1>1. c.ends \in Seq(Nat) /\ c.failed \in BOOLEAN /\ i - 1 \in Nat
  BY DEF SplitStates
<1>2. Append(c.ends, i - 1) \in Seq(Nat)
  BY <1>1
<1> DEFINE e == Append(c.ends, i - 1)
           f == ~AnotherPart(Len(c.ends)) \/ ~PartFits(bodies, i, i)
<1>3. e \in Seq(Nat) /\ f \in BOOLEAN
  BY <1>2
<1>4. SplitNext(bodies, c, i) = c \/ SplitNext(bodies, c, i) = [ends |-> e, failed |-> f]
  BY DEF SplitNext
<1> HIDE DEF e, f
<1>5. [ends |-> e, failed |-> f] \in SplitStates
  BY <1>3 DEF SplitStates
<1> QED
  BY <1>4, <1>5

\* SplitFrame goes through such states.
LEMMA SplitRuns ==
    ASSUME setup \in Setups, NEW bodies \in Seq(Nat), Len(bodies) >= 1
    PROVE  \E c \in SplitStates :
              /\ SplitAt(bodies, c, Len(bodies))
              /\ LET ends == Append(c.ends, Len(bodies))
                 IN  Split(bodies) = IF c.failed THEN <<>>
                                     ELSE [k \in 1 .. Len(ends) - 1 |-> <<ends[k] + 1, ends[k + 1]>>]
<1> DEFINE n == Len(bodies)
           a == 1
           closed[i \in 1 .. n] ==
               IF i = 1 THEN [ends |-> <<0>>, failed |-> ~PartFits(bodies, 1, 1)]
               ELSE LET before == closed[i - 1]
                    IN  IF before.failed \/ PartFits(bodies, before.ends[Len(before.ends)] + 1, i) THEN before
                        ELSE [ends |-> Append(before.ends, i - 1),
                              failed |-> ~AnotherPart(Len(before.ends)) \/ ~PartFits(bodies, i, i)]
           Body(f) == [i \in 1 .. n |-> IF i = 1 THEN SplitFirst(bodies) ELSE SplitNext(bodies, f[i - 1], i)]
           step == [i \in a .. n |-> [c \in SplitStates |-> SplitNext(bodies, c, i)]]
           ends == Append(closed[n].ends, n)
<1>1. n \in Nat /\ n >= 1
  OBVIOUS
<1>2. Split(bodies) = IF closed[n].failed THEN <<>>
                      ELSE [k \in 1 .. Len(ends) - 1 |-> <<ends[k] + 1, ends[k + 1]>>]
  BY DEF Split
<1>3. closed = CHOOSE f : f = Body(f)
  BY DEF closed, SplitFirst, SplitNext
<1> HIDE DEF closed
<1>4. SplitFirst(bodies) \in SplitStates
  BY DEF SplitFirst, SplitStates
<1>5. a \in Int /\ n \in Int /\ a <= n /\ \A i \in a .. n : i \in Nat \ {0} /\ (i # a => i - 1 \in a .. n)
  BY <1>1
<1>6. step \in [a .. n -> [SplitStates -> SplitStates]]
  BY <1>5, SplitNextType
<1>7. \A i \in a .. n, c \in SplitStates : step[i][c] = SplitNext(bodies, c, i)
  OBVIOUS
<1> HIDE DEF n, step
<1>8. PICK f \in [a .. n -> SplitStates] : f[a] = SplitFirst(bodies) /\ Follows(f, a, n, step)
  <2> HIDE DEF a
  <2> QED
    BY <1>4, <1>5, <1>6, Recursion
<1>9. f = Body(f)
  <2>1. f = [i \in 1 .. n |-> f[i]]
    BY <1>8
  <2>2. ASSUME NEW i \in 1 .. n, i # 1 PROVE f[i] = SplitNext(bodies, f[i - 1], i)
    <3>1. f[i] = step[i][f[i - 1]] /\ f[i - 1] \in SplitStates
      BY <1>5, <1>8, <2>2 DEF Follows
    <3> QED
      BY <1>7, <3>1
  <2> QED
    BY <1>8, <2>1, <2>2
<1>10. closed = Body(closed)
  <2> HIDE DEF Body
  <2> QED
    BY <1>3, <1>9
<1>11. ASSUME NEW i \in 1 .. n
       PROVE  closed[i] = IF i = 1 THEN SplitFirst(bodies) ELSE SplitNext(bodies, closed[i - 1], i)
  <2> DEFINE V(k) == IF k = 1 THEN SplitFirst(bodies) ELSE SplitNext(bodies, closed[k - 1], k)
  <2>1. closed = [k \in 1 .. n |-> V(k)]
    BY <1>10
  <2> HIDE DEF V
  <2>2. closed[i] = V(i)
    BY <2>1
  <2> QED
    BY <2>2 DEF V
<1> DEFINE Good == {i \in 1 .. n : closed[i] \in SplitStates /\ SplitAt(bodies, closed[i], i)}
<1>12. 1 \in Good
  <2>1. closed[1] = SplitFirst(bodies) /\ 1 \in 1 .. n
    BY <1>1, <1>11
  <2> DEFINE bad == ~PartFits(bodies, 1, 1)
             c == SplitFirst(bodies)
             e == <<0>>
  <2>2. c.ends = e /\ c.failed = bad
    BY DEF SplitFirst
  <2>3. e \in Seq(Nat) /\ Len(e) = 1 /\ e[1] = 0
    OBVIOUS
  <2> HIDE DEF e, c
  <2>4. Closed(bodies, e, 1)
    BY <2>3 DEF Closed
  <2>5. ~bad => AllFit(bodies, e, 1)
    BY <2>3, SetupIs DEF AllFit
  <2>6. bad => \E j \in 1 .. Len(bodies) : ~PartFits(bodies, j, j)
    <3>1. 1 \in 1 .. Len(bodies)
      OBVIOUS
    <3> QED
      BY <3>1
  <2> HIDE DEF bad
  <2>7. SplitAt(bodies, c, 1)
    BY <2>2, <2>4, <2>5, <2>6 DEF SplitAt
  <2> QED
    BY <1>4, <2>1, <2>7 DEF c
<1>13. ASSUME NEW i \in 1 .. n, i \in Good, i < n PROVE i + 1 \in Good
  <2>1. i + 1 \in 2 .. n /\ i + 1 \in 1 .. n /\ i + 1 # 1 /\ (i + 1) - 1 = i /\ i + 1 \in Nat \ {0}
    BY <1>1, <1>13
  <2>2. closed[i + 1] = SplitNext(bodies, closed[i], i + 1)
    BY <1>11, <2>1
  <2>3. closed[i] \in SplitStates /\ SplitAt(bodies, closed[i], i)
    BY <1>13
  <2>4. SplitNext(bodies, closed[i], i + 1) \in SplitStates
    BY <2>1, <2>3, SplitNextType
  <2>5. SplitAt(bodies, SplitNext(bodies, closed[i], i + 1), i + 1)
    <3> DEFINE c == closed[i]
               j == i + 1
    <3>1. c \in [ends : Seq(Nat), failed : BOOLEAN] /\ j \in 2 .. Len(bodies) /\ SplitAt(bodies, c, j - 1)
      BY <2>1, <2>3 DEF SplitStates, n
    <3> HIDE DEF c, j
    <3>2. SplitAt(bodies, SplitNext(bodies, c, j), j)
      BY <3>1, SplitAtNext
    <3> QED
      BY <3>2 DEF c, j
  <2> QED
    BY <2>1, <2>2, <2>4, <2>5
<1>14. \A i \in 1 .. n : i \in Good
  <2> HIDE DEF Good
  <2> QED
    BY <1>5, <1>12, <1>13, CountUp
<1>15. closed[n] \in SplitStates /\ SplitAt(bodies, closed[n], n)
  BY <1>1, <1>14
<1> QED
  BY <1>2, <1>15 DEF n

------------------------------------------------------------------------------
\* What SplitFrame refuses cannot be sent

\* The greatest number of an interval with some property.
LEMMA GreatestOf ==
    ASSUME NEW a \in Int, NEW b \in Int, NEW S \in SUBSET (a .. b), S # {}
    PROVE  \E i \in S : \A j \in S : j <= i
<1> DEFINE M == {x \in -b .. -a : -x \in S}
<1>1. M \in SUBSET (-b .. -a) /\ M # {}
  <2>1. PICK s \in S : TRUE
    OBVIOUS
  <2>2. s \in a .. b /\ -s \in -b .. -a /\ -(-s) = s
    OBVIOUS
  <2> QED
    BY <2>2
<1>2. \A s \in S : s \in Int /\ -s \in M /\ -(-s) = s
  OBVIOUS
<1>3. PICK m \in M : \A j \in -b .. m - 1 : j \notin M
  <2> HIDE DEF M
  <2>1. -b \in Int /\ -a \in Int
    OBVIOUS
  <2> QED
    BY <1>1, <2>1, LeastOf
<1>4. -m \in S /\ m \in Int
  OBVIOUS
<1>5. ASSUME NEW s \in S PROVE s <= -m
  <2>1. -s \in -b .. -a /\ s \in Int
    OBVIOUS
  <2> HIDE DEF M
  <2>2. ~(-s < m)
    BY <1>2, <1>3, <1>4, <2>1
  <2> QED
    BY <1>4, <2>1, <2>2
<1> QED
  BY <1>4, <1>5

\* Where the part that ends at a cut begins, among any cuts.
From(cuts, to) == CHOOSE a \in cuts \cup {0} : a < to /\ \A c \in cuts : c <= a \/ c >= to

\* Every part between the cuts fits.
Works(bodies, cuts) == \A to \in cuts \cup {Len(bodies)} : PartFits(bodies, From(cuts, to) + 1, to)

\* Every rectangle is in a part.
LEMMA PartAround ==
    ASSUME NEW n \in Nat \ {0}, NEW cuts \in SUBSET (1 .. n - 1), NEW j \in 1 .. n
    PROVE  \E to \in cuts \cup {n} : From(cuts, to) \in cuts \cup {0} /\ From(cuts, to) < j /\ j <= to
<1> DEFINE S == {x \in j .. n : x \in cuts \cup {n}}
<1>1. PICK to \in S : \A x \in j .. to - 1 : x \notin S
  <2>1. S \in SUBSET (j .. n) /\ n \in S /\ S # {} /\ j \in Int /\ n \in Int
    OBVIOUS
  <2> HIDE DEF S
  <2> QED
    BY <2>1, LeastOf
<1>2. to \in cuts \cup {n} /\ to \in j .. n /\ to \in Nat /\ to >= 1
  OBVIOUS
<1> DEFINE B == {x \in 0 .. to - 1 : x \in cuts \cup {0}}
<1>3. PICK a \in B : \A x \in B : x <= a
  <2>1. B \in SUBSET (0 .. to - 1) /\ 0 \in B /\ B # {} /\ 0 \in Int /\ to - 1 \in Int
    BY <1>2
  <2> HIDE DEF B
  <2> QED
    BY <2>1, GreatestOf
<1>4. a \in cuts \cup {0} /\ a < to /\ \A c \in cuts : c <= a \/ c >= to
  <2>1. ASSUME NEW c \in cuts, ~(c >= to) PROVE c <= a
    <3>1. c \in B
      BY <1>2, <2>1
    <3> QED
      BY <1>3, <3>1
  <2> QED
    BY <1>2, <2>1
<1> DEFINE from == From(cuts, to)
<1>5. from \in cuts \cup {0} /\ from < to
  BY <1>4 DEF From
<1>6. from \in Nat /\ to <= n /\ (from # 0 => from \in cuts)
  <2>1. \A x \in cuts : x \in Nat
    OBVIOUS
  <2> HIDE DEF from
  <2> QED
    BY <1>2, <1>5, <2>1
<1> HIDE DEF from
<1>7. from < j
  <2>1. SUFFICES ASSUME from >= j PROVE FALSE
    BY <1>6
  <2>2. from \in j .. n /\ from \in cuts
    BY <1>2, <1>5, <1>6, <2>1
  <2>3. from \in S /\ from \in j .. to - 1
    BY <1>2, <1>5, <1>6, <2>1, <2>2
  <2> QED
    BY <1>1, <2>3
<1> QED
  BY <1>2, <1>5, <1>7 DEF from

\* No packing helps a rectangle that fits no part.
LEMMA MisfitIsMisfit ==
    ASSUME setup \in Setups, NEW bodies \in Seq(Nat), NEW j \in 1 .. Len(bodies),
           NEW cuts \in SUBSET (1 .. Len(bodies) - 1), Works(bodies, cuts)
    PROVE  PartFits(bodies, j, j)
<1> DEFINE n == Len(bodies)
<1>1. n \in Nat \ {0}
  OBVIOUS
<1>2. PICK to \in cuts \cup {n} : From(cuts, to) \in cuts \cup {0} /\ From(cuts, to) < j /\ j <= to
  BY <1>1, PartAround
<1> DEFINE f == From(cuts, to)
           from == f + 1
<1>3. PartFits(bodies, from, to)
  BY <1>2 DEF Works
<1>4. f \in Nat /\ to \in Nat /\ f < j /\ j <= to /\ to <= n
  <2>1. \A x \in cuts : x \in Nat /\ x <= n
    OBVIOUS
  <2>2. f \in cuts \cup {0} /\ f < j /\ j <= to /\ to \in cuts \cup {n}
    BY <1>2
  <2> HIDE DEF f
  <2> QED
    BY <1>1, <2>1, <2>2
<1> HIDE DEF f
<1>5. from \in 1 .. n /\ to \in from .. n /\ j \in from .. to /\ j \in j .. to
  BY <1>1, <1>4
<1> HIDE DEF from
<1> QED
  BY <1>3, <1>5, FitsShrinks

\* Up to the end of a part SplitFrame closed, every packing has as many cuts.
LEMMA GreedyIsBest ==
    ASSUME setup \in Setups, NEW bodies \in Seq(Nat), NEW i \in 1 .. Len(bodies), NEW ends, Closed(bodies, ends, i),
           NEW cuts \in SUBSET (1 .. Len(bodies) - 1), Works(bodies, cuts)
    PROVE  Cardinality(cuts) \in Nat /\ Cardinality(cuts) >= Len(ends) - 1
<1> DEFINE n == Len(bodies)
           L == Len(ends)
           Before(k) == cuts \cap (1 .. ends[k])
           Good == {k \in 1 .. L : Cardinality(Before(k)) >= k - 1}
<1>1. n \in Nat \ {0} /\ i \in 1 .. n /\ cuts \in SUBSET (1 .. n - 1)
  OBVIOUS
<1>2. /\ L \in Nat /\ L >= 1 /\ ends[1] = 0
      /\ \A k \in 1 .. L : ends[k] \in Nat /\ ends[k] < i
      /\ \A k \in 1 .. L - 1 : ends[k] < ends[k + 1] /\ ~PartFits(bodies, ends[k] + 1, ends[k + 1] + 1)
  BY DEF Closed
<1>3. IsFiniteSet(cuts) /\ Cardinality(cuts) \in Nat
  <2>1. IsFiniteSet(1 .. n - 1)
    BY <1>1, FS_Interval
  <2> QED
    BY <1>1, <2>1, FS_Subset, FS_CardinalityType
<1>4. \A k \in 1 .. L : /\ IsFiniteSet(Before(k)) /\ Cardinality(Before(k)) \in Nat
                        /\ Cardinality(Before(k)) <= Cardinality(cuts)
  <2>1. ASSUME NEW k \in 1 .. L PROVE Before(k) \in SUBSET cuts
    OBVIOUS
  <2> HIDE DEF Before
  <2> QED
    BY <1>3, <2>1, FS_Subset, FS_CardinalityType
<1>5. 1 \in Good
  <2>1. 1 \in 1 .. L
    BY <1>2
  <2>2. Cardinality(Before(1)) \in Nat
    BY <1>4, <2>1
  <2> QED
    BY <2>1, <2>2
<1>6. ASSUME NEW k \in 1 .. L, k \in Good, k < L PROVE k + 1 \in Good
  <2> DEFINE a == ends[k]
             b == ends[k + 1]
  <2>1. /\ k \in 1 .. L - 1 /\ k + 1 \in 1 .. L /\ a \in Nat /\ b \in Nat /\ a < b /\ b < i
        /\ ~PartFits(bodies, a + 1, b + 1)
    <3>1. k \in 1 .. L - 1 /\ k + 1 \in 1 .. L
      BY <1>2, <1>6
    <3> QED
      BY <1>2, <3>1
  <2>2. PICK c \in cuts : a < c /\ c <= b
    <3> HIDE DEF a, b
    <3>1. SUFFICES ASSUME \A c \in cuts : ~(a < c /\ c <= b) PROVE FALSE
      OBVIOUS
    <3>2. b + 1 \in 1 .. n /\ i \in Nat
      BY <1>1, <2>1
    <3>3. PICK to \in cuts \cup {n} : /\ From(cuts, to) \in cuts \cup {0}
                                      /\ From(cuts, to) < b + 1 /\ b + 1 <= to
      BY <1>1, <3>2, PartAround
    <3> DEFINE f == From(cuts, to)
               from == f + 1
    <3>4. PartFits(bodies, from, to)
      BY <3>3 DEF Works
    <3>5. f \in cuts \cup {0} /\ f < b + 1 /\ b + 1 <= to
      BY <3>3
    <3> HIDE DEF f
    <3>6. \A x \in cuts : x \in Nat /\ x <= n
      BY <1>1
    <3>7. f \in Nat /\ to \in Nat /\ to <= n
      BY <1>1, <3>5, <3>6
    <3>8. f <= a
      BY <2>1, <3>1, <3>5, <3>7
    <3>9. from \in 1 .. n /\ to \in from .. n /\ a + 1 \in from .. to /\ b + 1 \in a + 1 .. to
      <4> HIDE DEF n
      <4> QED
        BY <1>1, <2>1, <3>5, <3>7, <3>8
    <3> HIDE DEF from
    <3>10. PartFits(bodies, a + 1, b + 1)
      BY <3>4, <3>9, FitsShrinks
    <3> QED
      BY <2>1, <3>10
  <2>3. c \in Before(k + 1) /\ c \notin Before(k) /\ Before(k) \cup {c} \in SUBSET Before(k + 1)
    <3>1. \A x \in Before(k) : x \in Before(k + 1)
      <4>1. ASSUME NEW x \in 1 .. a PROVE x \in 1 .. b
        <5> HIDE DEF a, b
        <5> QED
          BY <2>1, <4>1
      <4> QED
        BY <4>1
    <3>2. c \in 1 .. b /\ c \notin 1 .. a
      BY <1>1, <2>1, <2>2
    <3> QED
      BY <2>2, <3>1, <3>2
  <2> DEFINE P == Before(k)
             Q == Before(k + 1)
  <2>4. IsFiniteSet(P) /\ IsFiniteSet(Q) /\ Cardinality(P) \in Nat /\ Cardinality(Q) \in Nat /\ Cardinality(P) >= k - 1
    BY <1>4, <1>6, <2>1
  <2>5. c \notin P /\ P \cup {c} \in SUBSET Q
    BY <2>3
  <2> HIDE DEF P, Q
  <2>6. Cardinality(P \cup {c}) = Cardinality(P) + 1
    BY <2>4, <2>5, FS_AddElement
  <2>7. Cardinality(P \cup {c}) <= Cardinality(Q)
    BY <2>4, <2>5, FS_Subset
  <2>8. Cardinality(Q) >= (k + 1) - 1
    BY <1>2, <2>4, <2>6, <2>7
  <2> QED
    BY <2>1, <2>8 DEF Q
<1>7. \A k \in 1 .. L : k \in Good
  <2>1. 1 \in Int /\ L \in Int
    BY <1>2
  <2> HIDE DEF Good, L
  <2> QED
    BY <1>5, <1>6, <2>1, CountUp
<1> HIDE DEF L
<1>8. L \in 1 .. L /\ L - 1 \in Nat
  BY <1>2
<1>9. Cardinality(Before(L)) >= L - 1
  BY <1>7, <1>8
<1>10. Cardinality(Before(L)) \in Nat /\ Cardinality(Before(L)) <= Cardinality(cuts)
  BY <1>4, <1>8
<1>11. Cardinality(cuts) >= L - 1
  <2> HIDE DEF Before
  <2> QED
    BY <1>3, <1>8, <1>9, <1>10
<1> QED
  BY <1>3, <1>11 DEF L

------------------------------------------------------------------------------
LEMMA SplitRefuses ==
    ASSUME setup \in Setups, NEW bodies \in Seq(Nat), Len(bodies) >= 1, Split(bodies) = <<>>
    PROVE  /\ \A cuts \in SUBSET (1 .. Len(bodies) - 1) : Cardinality(cuts) < MaxParts => ~Works(bodies, cuts)
           /\ MaxParts >= 2 /\ (\A j \in 1 .. Len(bodies) : PartFits(bodies, j, j)) =>
                 PayloadSize(FrameHeader, bodies, 1, Len(bodies)) > Payload
<1> DEFINE n == Len(bodies)
<1>1. n \in Nat \ {0} /\ n \in 1 .. n
  OBVIOUS
<1>2. PICK c \in SplitStates :
          /\ SplitAt(bodies, c, n)
          /\ LET ends == Append(c.ends, n)
             IN  Split(bodies) = IF c.failed THEN <<>>
                                 ELSE [k \in 1 .. Len(ends) - 1 |-> <<ends[k] + 1, ends[k + 1]>>]
  BY SplitRuns
<1>3. /\ Closed(bodies, c.ends, n)
      /\ c.failed => Len(c.ends) > MaxParts \/ \E j \in 1 .. n : ~PartFits(bodies, j, j)
  BY <1>2 DEF SplitAt
<1> DEFINE e == c.ends
           L == Len(e)
<1>4. /\ L \in Nat /\ L >= 1 /\ e \in Seq(Nat) /\ e[1] = 0
      /\ \A k \in 1 .. L : e[k] \in Nat /\ e[k] < n
      /\ \A k \in 1 .. L - 1 : e[k] < e[k + 1] /\ ~PartFits(bodies, e[k] + 1, e[k + 1] + 1)
  BY <1>3 DEF Closed
<1>5. c.failed
  <2>1. SUFFICES ASSUME ~c.failed PROVE FALSE
    OBVIOUS
  <2> DEFINE a == Append(e, n)
             s == [k \in 1 .. Len(a) - 1 |-> <<a[k] + 1, a[k + 1]>>]
  <2>2. s = <<>>
    BY <1>2, <2>1
  <2>3. Len(a) - 1 = L
    BY <1>4
  <2>4. DOMAIN s = 1 .. L
    BY <2>3
  <2> HIDE DEF s
  <2>5. DOMAIN s = {}
    BY <2>2
  <2> QED
    BY <1>4, <2>4, <2>5
<1>6. L > MaxParts \/ \E j \in 1 .. n : ~PartFits(bodies, j, j)
  BY <1>3, <1>5
<1>7. MaxParts \in Nat \ {0} /\ Payload \in Nat
  BY SetupIs
<1>8. ASSUME NEW cuts \in SUBSET (1 .. n - 1), Cardinality(cuts) < MaxParts, Works(bodies, cuts) PROVE FALSE
  <2>1. \A j \in 1 .. n : PartFits(bodies, j, j)
    BY <1>8, MisfitIsMisfit
  <2>2. Cardinality(cuts) \in Nat /\ Cardinality(cuts) >= L - 1
    BY <1>1, <1>3, <1>8, GreedyIsBest
  <2>3. L > MaxParts
    BY <1>6, <2>1
  <2> HIDE DEF L
  <2> QED
    BY <1>4, <1>7, <1>8, <2>2, <2>3
<1>9. ASSUME MaxParts >= 2, \A j \in 1 .. n : PartFits(bodies, j, j)
      PROVE  PayloadSize(FrameHeader, bodies, 1, n) > Payload
  <2>1. PICK g : WeightOf(g, bodies)
    BY HasWeight
  <2>2. L > MaxParts
    BY <1>6, <1>9
  <2>3. 1 \in 1 .. L - 1 /\ 2 \in 1 .. L - 1 /\ 2 \in 1 .. L /\ 3 \in 1 .. L
    <3> HIDE DEF L
    <3> QED
      BY <1>4, <1>7, <1>9, <2>2
  <2> DEFINE a == e[2]
             b == e[3]
  <2>4. a \in Nat /\ b \in Nat /\ 0 < a /\ a < b /\ b < n /\ ~PartFits(bodies, a + 1, b + 1)
    <3>1. 1 + 1 = 2 /\ 2 + 1 = 3
      OBVIOUS
    <3> HIDE DEF e, L
    <3> QED
      BY <1>4, <2>3, <3>1
  <2> HIDE DEF a, b
  <2>5. PartFits(bodies, a + 1, b + 1) <=> PartHeader + (g[b + 1] - g[a]) <= Payload
    <3>1. a + 1 \in 1 .. n /\ b + 1 \in a + 1 .. n /\ (a + 1) - 1 = a
      BY <1>1, <2>4
    <3> QED
      BY <2>1, <3>1, FitsIs
  <2>6. g[0] + RectHeader + bodies[a] <= g[a] /\ g[b + 1] <= g[n] /\ bodies[a] \in Nat
    <3>1. 0 \in 0 .. n /\ a \in 0 .. n /\ b + 1 \in 0 .. n /\ n \in b + 1 .. n /\ a \in 1 .. n
      BY <1>1, <2>4
    <3> QED
      BY <2>1, <2>4, <3>1, WeightGrows
  <2>7. g[0] = 0 /\ g[a] \in Nat /\ g[b + 1] \in Nat /\ g[n] \in Nat
    <3>1. 0 \in 0 .. n /\ a \in 0 .. n /\ b + 1 \in 0 .. n /\ n \in 0 .. n
      BY <1>1, <2>4
    <3> QED
      BY <2>1, <3>1 DEF WeightOf
  <2>8. PayloadSize(FrameHeader, bodies, 1, n) = FrameHeader + (g[n] - g[0])
    <3>1. 1 \in 1 .. n /\ n \in 1 - 1 .. n /\ 1 - 1 = 0 /\ FrameHeader \in Nat
      BY <1>1 DEF FrameHeader
    <3> QED
      BY <2>1, <3>1, PayloadIs
  <2> DEFINE p == g[a]
             q == g[b + 1]
             r == g[n]
             x == bodies[a]
             size == PayloadSize(FrameHeader, bodies, 1, n)
  <2>9. /\ ~(PartHeader + (q - p) <= Payload) /\ RectHeader + x <= p /\ q <= r
        /\ p \in Nat /\ q \in Nat /\ r \in Nat /\ x \in Nat /\ size = FrameHeader + r
    BY <2>4, <2>5, <2>6, <2>7, <2>8 DEF RectHeader
  <2> HIDE DEF p, q, r, x, size
  <2>10. size > Payload
    BY <1>7, <2>9 DEF PartHeader, RectHeader, FrameHeader
  <2> QED
    BY <2>10 DEF size
<1> QED
  BY <1>8, <1>9

\* The parts follow one another from the first rectangle to the last, and fit.
Packs(parts, bodies) ==
    /\ DOMAIN parts = 1 .. Len(parts) /\ Len(parts) \in 1 .. MaxParts
    /\ parts[1][1] = 1 /\ parts[Len(parts)][2] = Len(bodies)
    /\ \A k \in 1 .. Len(parts) : /\ parts[k][1] \in 1 .. Len(bodies) /\ parts[k][2] \in parts[k][1] .. Len(bodies)
                                  /\ PartFits(bodies, parts[k][1], parts[k][2])
    /\ \A k \in 1 .. Len(parts) - 1 : parts[k + 1][1] = parts[k][2] + 1

\* The parts SplitFrame makes hold every rectangle once, in their order, and fit.
LEMMA SplitPacks ==
    ASSUME setup \in Setups, NEW bodies \in Seq(Nat), Len(bodies) >= 1, Split(bodies) # <<>>
    PROVE  Packs(Split(bodies), bodies)
<1> DEFINE n == Len(bodies)
<1>1. n \in Nat \ {0} /\ n \in 1 .. n
  OBVIOUS
<1>2. PICK c \in SplitStates :
          /\ SplitAt(bodies, c, n)
          /\ LET ends == Append(c.ends, n)
             IN  Split(bodies) = IF c.failed THEN <<>>
                                 ELSE [k \in 1 .. Len(ends) - 1 |-> <<ends[k] + 1, ends[k + 1]>>]
  BY SplitRuns
<1> DEFINE e == c.ends
           L == Len(e)
           a == Append(e, n)
           s == [k \in 1 .. Len(a) - 1 |-> <<a[k] + 1, a[k + 1]>>]
<1>3. ~c.failed /\ Split(bodies) = s
  BY <1>2
<1>4. Closed(bodies, e, n) /\ AllFit(bodies, e, n)
  BY <1>2, <1>3 DEF SplitAt
<1>5. /\ L \in Nat /\ L >= 1 /\ e \in Seq(Nat) /\ e[1] = 0
      /\ \A k \in 1 .. L : e[k] \in Nat /\ e[k] < n
      /\ \A k \in 1 .. L - 1 : e[k] < e[k + 1]
  BY <1>4 DEF Closed
<1>6. /\ L <= MaxParts /\ PartFits(bodies, e[L] + 1, n)
      /\ \A k \in 1 .. L - 1 : PartFits(bodies, e[k] + 1, e[k + 1])
  BY <1>4 DEF AllFit
<1>7. Len(a) - 1 = L /\ a[L + 1] = n /\ \A k \in 1 .. L : a[k] = e[k]
  BY <1>5
<1> HIDE DEF e, L, a
<1>8. DOMAIN s = 1 .. L /\ Len(s) = L /\ \A k \in 1 .. L : s[k] = <<a[k] + 1, a[k + 1]>>
  BY <1>5, <1>7
<1> HIDE DEF s, n
<1>9. ASSUME NEW k \in 1 .. L
      PROVE  /\ a[k] = e[k] /\ a[k] \in Nat /\ a[k] < n
             /\ a[k + 1] \in Nat /\ a[k] < a[k + 1] /\ a[k + 1] <= n
             /\ PartFits(bodies, a[k] + 1, a[k + 1])
  <2>1. a[k] = e[k] /\ e[k] \in Nat /\ e[k] < n
    BY <1>5, <1>7
  <2>2. CASE k = L
    BY <1>1, <1>6, <1>7, <2>1, <2>2
  <2>3. CASE k # L
    <3>1. k \in 1 .. L - 1 /\ k + 1 \in 1 .. L
      BY <1>5, <2>3
    <3>2. a[k + 1] = e[k + 1] /\ e[k + 1] \in Nat /\ e[k + 1] < n
      BY <1>5, <1>7, <3>1
    <3> QED
      BY <1>1, <1>5, <1>6, <2>1, <3>1, <3>2
  <2> QED
    BY <2>2, <2>3
<1>10. ASSUME NEW k \in 1 .. L
       PROVE  s[k][1] \in 1 .. n /\ s[k][2] \in s[k][1] .. n /\ PartFits(bodies, s[k][1], s[k][2])
  <2>1. s[k][1] = a[k] + 1 /\ s[k][2] = a[k + 1]
    BY <1>8
  <2>2. a[k] + 1 \in 1 .. n /\ a[k + 1] \in a[k] + 1 .. n
    BY <1>1, <1>9
  <2> QED
    BY <1>9, <2>1, <2>2
<1>11. ASSUME NEW k \in 1 .. L - 1 PROVE s[k + 1][1] = s[k][2] + 1
  <2>1. k \in 1 .. L /\ k + 1 \in 1 .. L
    BY <1>5
  <2> QED
    BY <1>8, <2>1
<1>12. s[1][1] = 1 /\ s[L][2] = n
  <2>1. 1 \in 1 .. L /\ L \in 1 .. L
    BY <1>5
  <2>2. a[1] = 0
    BY <1>5, <1>7, <2>1
  <2> QED
    BY <1>7, <1>8, <2>1, <2>2
<1>13. L \in 1 .. MaxParts
  BY <1>5, <1>6, SetupIs
<1>14. Packs(s, bodies)
  BY <1>8, <1>10, <1>11, <1>12, <1>13 DEF Packs, n
<1> QED
  BY <1>3, <1>14

------------------------------------------------------------------------------
\* Sets of rectangles that cover some cells, each of them once

Rectangle == [x : Nat, y : Nat, w : Nat \ {0}, h : Nat \ {0}]

Tiling(rects, S) ==
    /\ rects \in Seq(Rectangle)
    /\ \A i \in 1 .. Len(rects) : Cells(rects[i]) \subseteq S
    /\ \A c \in S : \E i \in 1 .. Len(rects) : c \in Cells(rects[i])
    /\ \A i, j \in 1 .. Len(rects) : i # j => Cells(rects[i]) \cap Cells(rects[j]) = {}

\* A rectangle has the fields it was made of.
LEMMA RectIs ==
    ASSUME NEW x \in Nat, NEW y \in Nat, NEW w \in Nat \ {0}, NEW h \in Nat \ {0}
    PROVE  /\ Rect(x, y, w, h) \in Rectangle
           /\ Rect(x, y, w, h).x = x /\ Rect(x, y, w, h).y = y
           /\ Rect(x, y, w, h).w = w /\ Rect(x, y, w, h).h = h
BY DEF Rect, Rectangle

\* The cells of a rectangle, by its sides.
LEMMA CellIn ==
    ASSUME NEW r \in Rectangle, NEW p \in Int, NEW q \in Int
    PROVE  <<p, q>> \in Cells(r) <=> r.x <= p /\ p < r.x + r.w /\ r.y <= q /\ q < r.y + r.h
BY DEF Cells, Rectangle

\* A cell is its column and its row.
LEMMA CellsArePairs ==
    ASSUME NEW r \in Rectangle, NEW c \in Cells(r)
    PROVE  c \in Nat \X Nat /\ c = <<c[1], c[2]>>
BY DEF Cells, Rectangle

\* No rectangle covers nothing.
LEMMA TilingNothing == Tiling(<<>>, {})
BY DEF Tiling

\* A rectangle covers its own cells.
LEMMA TilingOne == ASSUME NEW r \in Rectangle PROVE Tiling(<<r>>, Cells(r))
<1>1. <<r>> \in Seq(Rectangle) /\ Len(<<r>>) = 1 /\ <<r>>[1] = r
  OBVIOUS
<1> QED
  BY <1>1 DEF Tiling

\* Two tilings of different cells are one tiling of both.
LEMMA TilingBoth ==
    ASSUME NEW p, NEW S, Tiling(p, S), NEW q, NEW T, Tiling(q, T), S \cap T = {}
    PROVE  Tiling(p \o q, S \cup T)
<1> DEFINE m == Len(p)
           n == Len(q)
<1>1. p \in Seq(Rectangle) /\ q \in Seq(Rectangle)
  BY DEF Tiling
<1>2. /\ p \o q \in Seq(Rectangle) /\ Len(p \o q) = m + n /\ m \in Nat /\ n \in Nat
      /\ \A i \in 1 .. m + n : (p \o q)[i] = IF i <= m THEN p[i] ELSE q[i - m]
  BY <1>1
<1> DEFINE C(i) == Cells((p \o q)[i])
<1>3. \A i \in 1 .. m : i \in 1 .. m + n /\ C(i) = Cells(p[i])
  BY <1>2
<1>4. \A i \in 1 .. n : m + i \in 1 .. m + n /\ C(m + i) = Cells(q[i])
  <2> SUFFICES ASSUME NEW i \in 1 .. n PROVE m + i \in 1 .. m + n /\ C(m + i) = Cells(q[i])
    OBVIOUS
  <2>1. m + i \in 1 .. m + n /\ ~(m + i <= m) /\ (m + i) - m = i
    BY <1>2
  <2> QED
    BY <1>2, <2>1
<1>5. \A i \in 1 .. m + n : i \in 1 .. m \/ \E k \in 1 .. n : i = m + k
  <2> SUFFICES ASSUME NEW i \in 1 .. m + n, i \notin 1 .. m PROVE \E k \in 1 .. n : i = m + k
    OBVIOUS
  <2> i - m \in 1 .. n /\ i = m + (i - m)
    BY <1>2
  <2> QED
    OBVIOUS
<1>6. /\ \A i \in 1 .. m : Cells(p[i]) \subseteq S
      /\ \A c \in S : \E i \in 1 .. m : c \in Cells(p[i])
      /\ \A i, j \in 1 .. m : i # j => Cells(p[i]) \cap Cells(p[j]) = {}
  BY DEF Tiling
<1>7. /\ \A i \in 1 .. n : Cells(q[i]) \subseteq T
      /\ \A c \in T : \E i \in 1 .. n : c \in Cells(q[i])
      /\ \A i, j \in 1 .. n : i # j => Cells(q[i]) \cap Cells(q[j]) = {}
  BY DEF Tiling
<1> HIDE DEF C, m, n
<1>8. \A i \in 1 .. m + n : C(i) \subseteq S \cup T
  BY <1>3, <1>4, <1>5, <1>6, <1>7
<1>9. \A c \in S \cup T : \E i \in 1 .. m + n : c \in C(i)
  BY <1>3, <1>4, <1>6, <1>7
<1>10. ASSUME NEW i \in 1 .. m + n, NEW j \in 1 .. m + n, i # j PROVE C(i) \cap C(j) = {}
  <2>1. CASE i \in 1 .. m /\ j \in 1 .. m
    BY <1>3, <1>6, <1>10, <2>1
  <2>2. CASE \E k, l \in 1 .. n : i = m + k /\ j = m + l
    BY <1>4, <1>7, <1>10, <2>2
  <2>3. CASE i \in 1 .. m /\ \E l \in 1 .. n : j = m + l
    BY <1>3, <1>4, <1>6, <1>7, <2>3
  <2>4. CASE j \in 1 .. m /\ \E l \in 1 .. n : i = m + l
    BY <1>3, <1>4, <1>6, <1>7, <2>4
  <2> QED
    BY <1>5, <2>1, <2>2, <2>3, <2>4
<1> QED
  BY <1>2, <1>8, <1>9, <1>10 DEF Tiling, C, m, n

\* A rectangle of a tiling is replaced by one that covers more.
LEMMA TilingGrown ==
    ASSUME NEW p, NEW S, Tiling(p, S), NEW k \in 1 .. Len(p), NEW r \in Rectangle, NEW T,
           Cells(r) = Cells(p[k]) \cup T, S \cap T = {}
    PROVE  Tiling([p EXCEPT ![k] = r], S \cup T)
<1> DEFINE n == Len(p)
           q == [p EXCEPT ![k] = r]
<1>1. p \in Seq(Rectangle)
  BY DEF Tiling
<1>2. q \in Seq(Rectangle) /\ Len(q) = n /\ n \in Nat /\ \A i \in 1 .. n : q[i] = IF i = k THEN r ELSE p[i]
  BY <1>1
<1>3. /\ \A i \in 1 .. n : Cells(p[i]) \subseteq S
      /\ \A c \in S : \E i \in 1 .. n : c \in Cells(p[i])
      /\ \A i, j \in 1 .. n : i # j => Cells(p[i]) \cap Cells(p[j]) = {}
  BY DEF Tiling
<1>4. k \in 1 .. n
  OBVIOUS
<1> DEFINE C(i) == Cells(q[i])
           D(i) == Cells(p[i])
<1>5. \A i \in 1 .. n : C(i) = IF i = k THEN D(k) \cup T ELSE D(i)
  <2> SUFFICES ASSUME NEW i \in 1 .. n PROVE C(i) = IF i = k THEN D(k) \cup T ELSE D(i)
    OBVIOUS
  <2>1. CASE i = k
    <3>1. q[i] = r
      BY <1>2, <2>1
    <3> QED
      BY <2>1, <3>1
  <2>2. CASE i # k
    <3>1. q[i] = p[i]
      BY <1>2, <2>2
    <3> QED
      BY <2>2, <3>1
  <2> QED
    BY <2>1, <2>2
<1>6. q \in Seq(Rectangle) /\ Len(q) = n /\ S \cap T = {}
  BY <1>2
<1> HIDE DEF n, q, C
<1>7. (\A i \in 1 .. n : C(i) \subseteq S \cup T) /\ \A c \in S \cup T : \E i \in 1 .. n : c \in C(i)
  BY <1>3, <1>4, <1>5
<1>8. \A i, j \in 1 .. n : i # j => C(i) \cap C(j) = {}
  BY <1>3, <1>4, <1>5, <1>6
<1> QED
  BY <1>6, <1>7, <1>8 DEF Tiling, C, q

------------------------------------------------------------------------------
\* Bands

\* bandRows: as many rows as the budget holds, one at least.
LEMMA BandRowsIs ==
    ASSUME setup \in Setups, NEW w \in Nat \ {0}
    PROVE  /\ BandRows(w) \in Nat \ {0}
           /\ w * setup.cell <= Budget => BandRows(w) * (w * setup.cell) <= Budget
           /\ \A h \in Nat : h * (w * setup.cell) <= Budget => h <= BandRows(w)
<1> DEFINE d == w * setup.cell
           q == Budget \div d
<1>1. setup.cell \in Nat \ {0} /\ Budget \in Nat
  BY SetupIs
<1>2. d \in Nat \ {0}
  BY <1>1
<1>3. BandRows(w) = IF q < 1 THEN 1 ELSE q
  BY DEF BandRows
<1> HIDE DEF d
<1>4. q \in Nat /\ q * d <= Budget /\ Budget < q * d + d
  BY <1>1, <1>2, Quotient
<1> HIDE DEF q
<1>5. BandRows(w) \in Nat \ {0} /\ BandRows(w) >= q
  BY <1>3, <1>4
<1>6. d <= Budget => BandRows(w) * d <= Budget
  BY <1>2, <1>3, <1>4
<1>7. ASSUME NEW h \in Nat, h * d <= Budget PROVE h <= BandRows(w)
  <2>1. h * d < (q + 1) * d
    BY <1>1, <1>2, <1>4, <1>7
  <2>2. h < q + 1
    BY <1>2, <1>4, <2>1
  <2> QED
    BY <1>4, <1>5, <2>2
<1> QED
  BY <1>5, <1>6, <1>7 DEF d

\* Band i of a rectangle, of some rows each.
LEMMA BandIs ==
    ASSUME setup \in Setups, NEW r \in Rectangle
    PROVE  LET rows == BandRows(r.w)
               n == (r.h + rows - 1) \div rows
           IN  /\ rows \in Nat \ {0} /\ n \in Nat \ {0} /\ r.h <= n * rows /\ (n - 1) * rows < r.h
               /\ Banded(r) \in Seq(Rectangle) /\ Len(Banded(r)) = n
               /\ \A i \in 1 .. n :
                     /\ Banded(r)[i] \in Rectangle
                     /\ Banded(r)[i].x = r.x /\ Banded(r)[i].w = r.w
                     /\ Banded(r)[i].y = r.y + (i - 1) * rows
                     /\ Banded(r)[i].h = Smaller(rows, r.h - (i - 1) * rows)
<1> DEFINE rows == BandRows(r.w)
           n == (r.h + rows - 1) \div rows
           B(i) == Rect(r.x, r.y + (i - 1) * rows, r.w, Smaller(rows, r.h - (i - 1) * rows))
           h == r.h
           y == r.y
           x == r.x
           w == r.w
<1>1. x \in Nat /\ y \in Nat /\ w \in Nat \ {0} /\ h \in Nat \ {0}
  BY DEF Rectangle
<1> HIDE DEF h, y, x, w
<1>2. rows \in Nat \ {0}
  BY <1>1, BandRowsIs DEF w
<1>3. Banded(r) = [i \in 1 .. n |-> B(i)]
  BY DEF Banded
<1> HIDE DEF rows
<1>4. n \in Nat \ {0} /\ h <= n * rows /\ (n - 1) * rows < h
  <2> DEFINE a == h + rows - 1
             q == a \div rows
  <2>1. a \in Nat
    BY <1>1, <1>2
  <2>2. n = q
    BY DEF h
  <2> HIDE DEF a
  <2>3. q \in Nat /\ q * rows <= a /\ a < q * rows + rows
    BY <1>2, <2>1, Quotient
  <2> HIDE DEF q, n
  <2>4. h <= q * rows /\ q * rows - rows < h
    <3> DEFINE Q == q * rows
    <3>1. Q \in Nat /\ Q <= a /\ a < Q + rows
      BY <1>2, <2>3
    <3> HIDE DEF Q
    <3>2. h <= Q /\ Q - rows < h
      BY <1>1, <1>2, <3>1 DEF a
    <3> QED
      BY <3>2 DEF Q
  <2>5. (q - 1) * rows = q * rows - rows
    BY <1>2, <2>3
  <2>6. q # 0
    BY <1>1, <1>2, <2>3, <2>4
  <2> QED
    BY <2>2, <2>3, <2>4, <2>5, <2>6
<1> HIDE DEF n
<1>5. ASSUME NEW i \in 1 .. n
      PROVE  /\ B(i) \in Rectangle /\ B(i).x = x /\ B(i).w = w
             /\ B(i).y = y + (i - 1) * rows /\ B(i).h = Smaller(rows, h - (i - 1) * rows)
  <2> DEFINE k == (i - 1) * rows
  <2>1. k \in Nat /\ k <= (n - 1) * rows
    BY <1>2, <1>4
  <2> HIDE DEF k
  <2>2. h - k \in Nat \ {0} /\ y + k \in Nat
    <3>1. k < h
      BY <1>1, <1>2, <1>4, <2>1
    <3> QED
      BY <1>1, <2>1, <3>1
  <2>3. Smaller(rows, h - k) \in Nat \ {0}
    BY <1>2, <2>2 DEF Smaller
  <2>4. B(i) = Rect(x, y + k, w, Smaller(rows, h - k))
    BY DEF k, x, y, w, h
  <2>5. B(i) \in Rectangle /\ B(i).x = x /\ B(i).w = w /\ B(i).y = y + k /\ B(i).h = Smaller(rows, h - k)
    <3> DEFINE s == Smaller(rows, h - k)
               v == y + k
    <3>1. s \in Nat \ {0} /\ v \in Nat /\ B(i) = Rect(x, v, w, s)
      BY <2>2, <2>3, <2>4
    <3> HIDE DEF B, s, v
    <3>2. /\ Rect(x, v, w, s) \in Rectangle
          /\ Rect(x, v, w, s).x = x /\ Rect(x, v, w, s).y = v
          /\ Rect(x, v, w, s).w = w /\ Rect(x, v, w, s).h = s
      BY <1>1, <3>1, RectIs
    <3> QED
      BY <3>1, <3>2 DEF s, v
  <2> QED
    BY <2>5 DEF k
<1> HIDE DEF B
<1>6. Banded(r) \in Seq(Rectangle) /\ Len(Banded(r)) = n /\ \A i \in 1 .. n : Banded(r)[i] = B(i)
  BY <1>3, <1>4, <1>5
<1> QED
  BY <1>2, <1>4, <1>5, <1>6 DEF rows, n, x, y, w, h

\* The bands of a rectangle cover it (encodeRectBanded).
LEMMA BandedTiles ==
    ASSUME setup \in Setups, NEW r \in Rectangle
    PROVE  Tiling(Banded(r), Cells(r)) /\ Len(Banded(r)) >= 1
<1> DEFINE rows == BandRows(r.w)
           n == (r.h + rows - 1) \div rows
           b == Banded(r)
           h == r.h
           y == r.y
           x == r.x
           w == r.w
           at(i) == (i - 1) * rows
<1>1. x \in Nat /\ y \in Nat /\ w \in Nat \ {0} /\ h \in Nat \ {0}
  BY DEF Rectangle
<1>2. /\ rows \in Nat \ {0} /\ n \in Nat \ {0} /\ h <= n * rows /\ (n - 1) * rows < h
      /\ b \in Seq(Rectangle) /\ Len(b) = n
      /\ \A i \in 1 .. n : /\ b[i] \in Rectangle /\ b[i].x = x /\ b[i].w = w
                           /\ b[i].y = y + at(i) /\ b[i].h = Smaller(rows, h - at(i))
  BY BandIs
<1>3. \A i \in 1 .. n : at(i) \in Nat /\ at(i) + rows = i * rows
  BY <1>2
<1>4. \A i, j \in 1 .. n : i < j => at(i) + rows <= at(j)
  <2> SUFFICES ASSUME NEW i \in 1 .. n, NEW j \in 1 .. n, i < j PROVE at(i) + rows <= at(j)
    OBVIOUS
  <2>1. i <= j - 1 /\ i \in Nat /\ j - 1 \in Nat
    BY <1>2
  <2>2. i * rows <= (j - 1) * rows
    <3>1. \A k, l, m \in Nat : k <= l => k * m <= l * m
      OBVIOUS
    <3> QED
      BY <1>2, <2>1, <3>1
  <2> QED
    BY <1>3, <2>2
<1> HIDE DEF rows, n, b, h, y, x, w, at
<1>5. ASSUME NEW i \in 1 .. n, NEW p \in Int, NEW q \in Int
      PROVE  <<p, q>> \in Cells(b[i]) <=>
                 x <= p /\ p < x + w /\ y + at(i) <= q /\ q < y + h /\ q < y + at(i) + rows
  <2>1. <<p, q>> \in Cells(b[i]) <=>
            x <= p /\ p < x + w /\ y + at(i) <= q /\ q < y + at(i) + Smaller(rows, h - at(i))
    BY <1>2, CellIn
  <2>2. at(i) \in Nat
    BY <1>3
  <2>3. q < y + at(i) + Smaller(rows, h - at(i)) <=> q < y + h /\ q < y + at(i) + rows
    BY <1>1, <1>2, <2>2 DEF Smaller
  <2> QED
    BY <2>1, <2>3
<1>6. \A p, q \in Int : <<p, q>> \in Cells(r) <=> x <= p /\ p < x + w /\ y <= q /\ q < y + h
  BY CellIn DEF x, y, w, h
<1>7. ASSUME NEW i \in 1 .. n PROVE Cells(b[i]) \subseteq Cells(r)
  <2> SUFFICES ASSUME NEW c \in Cells(b[i]) PROVE c \in Cells(r)
    OBVIOUS
  <2>1. c[1] \in Int /\ c[2] \in Int /\ c = <<c[1], c[2]>>
    BY <1>2, CellsArePairs
  <2>2. x <= c[1] /\ c[1] < x + w /\ y + at(i) <= c[2] /\ c[2] < y + h
    BY <1>5, <2>1
  <2>3. y <= c[2]
    BY <1>1, <1>3, <2>1, <2>2
  <2> QED
    BY <1>6, <2>1, <2>2, <2>3
<1>8. ASSUME NEW c \in Cells(r) PROVE \E i \in 1 .. n : c \in Cells(b[i])
  <2> DEFINE p == c[1]
             d == c[2] - y
             k == d \div rows
  <2>1. c[1] \in Int /\ c[2] \in Int /\ c = <<c[1], c[2]>>
    BY CellsArePairs
  <2>2. x <= p /\ p < x + w /\ d \in Nat /\ d < h /\ c[2] = y + d
    BY <1>1, <1>6, <2>1
  <2> HIDE DEF d
  <2>3. k \in Nat /\ k * rows <= d /\ d < k * rows + rows
    BY <1>2, <2>2, Quotient
  <2> HIDE DEF k, p
  <2>4. k < n
    <3>1. k * rows < n * rows
      <4> DEFINE K == k * rows
                 N == n * rows
      <4>1. K \in Nat /\ N \in Nat /\ K <= d /\ h <= N
        BY <1>2, <2>3
      <4> HIDE DEF K, N
      <4>2. K < N
        BY <1>1, <2>2, <4>1
      <4> QED
        BY <4>2 DEF K, N
    <3> QED
      BY <1>2, <2>3, <3>1
  <2>5. k + 1 \in 1 .. n /\ at(k + 1) = k * rows
    BY <1>2, <2>3, <2>4 DEF at
  <2>6. at(k + 1) \in Nat /\ y + at(k + 1) <= y + d /\ y + d < y + h /\ y + d < y + at(k + 1) + rows
    <3> DEFINE u == at(k + 1)
               K == k * rows
    <3>1. u \in Nat /\ u = K /\ K <= d /\ d < K + rows
      BY <1>3, <2>3, <2>5
    <3> HIDE DEF u, K
    <3>2. y + u <= y + d /\ y + d < y + h /\ y + d < y + u + rows
      BY <1>1, <1>2, <2>2, <3>1
    <3> QED
      BY <3>1, <3>2 DEF u
  <2>7. p \in Int /\ y + d \in Int /\ c = <<p, y + d>>
    BY <1>1, <2>1, <2>2 DEF p
  <2>8. c \in Cells(b[k + 1])
    BY <1>5, <2>2, <2>5, <2>6, <2>7
  <2> QED
    BY <2>5, <2>8
<1>9. ASSUME NEW i \in 1 .. n, NEW j \in 1 .. n, i < j PROVE Cells(b[i]) \cap Cells(b[j]) = {}
  <2> SUFFICES ASSUME NEW c \in Cells(b[i]), c \in Cells(b[j]) PROVE FALSE
    OBVIOUS
  <2>1. c[1] \in Int /\ c[2] \in Int /\ c = <<c[1], c[2]>>
    BY <1>2, CellsArePairs
  <2>2. c[2] < y + at(i) + rows /\ y + at(j) <= c[2]
    BY <1>5, <2>1
  <2>3. at(i) + rows <= at(j) /\ at(i) \in Nat /\ at(j) \in Nat
    BY <1>3, <1>4, <1>9
  <2> DEFINE u == at(i)
             v == at(j)
  <2>4. c[2] < y + u + rows /\ y + v <= c[2] /\ u + rows <= v /\ u \in Nat /\ v \in Nat
    BY <2>2, <2>3
  <2> DEFINE e == c[2]
  <2>5. rows \in Nat /\ y \in Nat /\ e \in Int /\ e < y + u + rows /\ y + v <= e
    BY <1>1, <1>2, <2>1, <2>4
  <2> HIDE DEF u, v, e
  <2> QED
    BY <2>4, <2>5
<1>10. \A i, j \in 1 .. n : i # j => Cells(b[i]) \cap Cells(b[j]) = {}
  <2>1. \A i, j \in 1 .. n : i # j => i < j \/ j < i
    BY <1>2
  <2>2. \A i, j \in 1 .. n : i < j => Cells(b[i]) \cap Cells(b[j]) = {}
    BY <1>9
  <2> QED
    BY <2>1, <2>2
<1>11. Tiling(b, Cells(r)) /\ Len(b) >= 1
  <2>1. n >= 1
    BY <1>2
  <2> QED
    BY <1>2, <1>7, <1>8, <1>10, <2>1 DEF Tiling
<1> QED
  BY <1>11 DEF b

\* A band fits the budget when one of its rows does.
LEMMA BandsFit ==
    ASSUME setup \in Setups, NEW r \in Rectangle, NEW i \in 1 .. Len(Banded(r)), r.w * setup.cell <= Budget
    PROVE  RawLength(Banded(r)[i]) <= Budget
<1> DEFINE rows == BandRows(r.w)
           b == Banded(r)[i]
           w == r.w
           cell == setup.cell
           k == b.h
           n == Len(Banded(r))
<1>1. w \in Nat \ {0} /\ cell \in Nat \ {0} /\ Budget \in Nat
  BY SetupIs DEF Rectangle
<1>2. rows \in Nat \ {0} /\ n \in Nat /\ i \in 1 .. n /\ b.w = w /\ b.h = Smaller(rows, r.h - (i - 1) * rows)
      /\ r.h \in Nat /\ b \in Rectangle
  BY BandIs DEF Rectangle
<1>3. k \in Nat /\ k <= rows
  <2>1. k \in Nat
    BY <1>2 DEF Rectangle
  <2> DEFINE u == (i - 1) * rows
  <2>2. u \in Int
    BY <1>2
  <2> HIDE DEF u
  <2>3. Smaller(rows, r.h - u) <= rows
    BY <1>2, <2>2 DEF Smaller
  <2> QED
    BY <1>2, <2>1, <2>3 DEF u
<1>4. rows * (w * cell) <= Budget
  BY <1>1, BandRowsIs
<1>5. RawLength(b) = w * k * cell
  BY <1>2 DEF RawLength
<1> HIDE DEF rows, b, w, cell, k
<1>6. w * k * cell = k * (w * cell) /\ w * cell \in Nat
  BY <1>1, <1>3
<1>7. k * (w * cell) <= rows * (w * cell)
  <2> DEFINE c == w * cell
             d == rows - k
  <2>1. c \in Nat /\ d \in Nat /\ k \in Nat /\ rows = k + d
    BY <1>2, <1>3, <1>6
  <2> HIDE DEF c, d
  <2>2. d * c \in Nat /\ k * c \in Nat /\ (k + d) * c = k * c + d * c
    BY <2>1
  <2>3. k * c <= rows * c
    BY <2>1, <2>2
  <2> QED
    BY <2>3 DEF c
<1>8. k * (w * cell) \in Nat /\ rows * (w * cell) \in Nat
  BY <1>2, <1>3, <1>6
<1>9. w * k * cell <= Budget
  BY <1>1, <1>4, <1>6, <1>7, <1>8
<1> QED
  BY <1>5, <1>9 DEF b

\* A rectangle within the budget is one band.
LEMMA OneBand ==
    ASSUME setup \in Setups, NEW r \in Rectangle, RawLength(r) <= Budget
    PROVE  Banded(r) = <<r>>
<1> DEFINE rows == BandRows(r.w)
           n == (r.h + rows - 1) \div rows
           h == r.h
           w == r.w
<1>1. h \in Nat \ {0} /\ w \in Nat \ {0} /\ r = [x |-> r.x, y |-> r.y, w |-> w, h |-> h] /\ r.y \in Nat
  BY DEF Rectangle
<1>2. rows \in Nat \ {0}
  BY <1>1, BandRowsIs
<1>3. h <= rows
  <2>1. setup.cell \in Nat \ {0}
    BY SetupIs
  <2>2. h * (w * setup.cell) = RawLength(r)
    BY <1>1, <2>1 DEF RawLength
  <2> QED
    BY <1>1, <2>2, BandRowsIs
<1>4. n = 1
  <2> DEFINE a == h + rows - 1
  <2>1. a \in Int /\ 1 * rows <= a /\ a < 1 * rows + rows
    BY <1>1, <1>2, <1>3
  <2> HIDE DEF a
  <2>2. a \div rows = 1
    BY <1>2, <2>1, QuotientIs
  <2> QED
    BY <2>2 DEF a
<1>5. Banded(r) = [i \in 1 .. n |-> Rect(r.x, r.y + (i - 1) * rows, w, Smaller(rows, h - (i - 1) * rows))]
  BY DEF Banded
<1> HIDE DEF n, rows
<1>6. (1 - 1) * rows = 0
  BY <1>2
<1>7. Rect(r.x, r.y + (1 - 1) * rows, w, Smaller(rows, h - (1 - 1) * rows)) = r
  <2>1. r.y + 0 = r.y /\ Smaller(rows, h - 0) = h
    BY <1>1, <1>2, <1>3 DEF Smaller
  <2>2. Rect(r.x, r.y + 0, w, Smaller(rows, h - 0)) = r
    BY <1>1, <2>1 DEF Rect
  <2> QED
    BY <1>6, <2>2
<1>8. Len(Banded(r)) = 1 /\ Banded(r)[1] = r /\ DOMAIN Banded(r) = 1 .. 1
  BY <1>4, <1>5, <1>7
<1> HIDE DEF w, h
<1>9. Banded(r) = [i \in 1 .. 1 |-> r]
  <2>1. Banded(r) = [i \in 1 .. 1 |-> Banded(r)[i]]
    BY <1>4, <1>5
  <2>2. \A i \in 1 .. 1 : Banded(r)[i] = r
    BY <1>8
  <2> QED
    BY <2>1, <2>2
<1>10. <<r>> = [i \in 1 .. 1 |-> r]
  OBVIOUS
<1> QED
  BY <1>9, <1>10

------------------------------------------------------------------------------
\* Tiles

Image == (Nat \ {0}) \X (Nat \ {0})

\* Halfway between two multiples of d.
LEMMA RoundUp ==
    ASSUME NEW a \in Nat \ {0}, NEW d \in Nat \ {0}
    PROVE  /\ (a + d - 1) \div d \in Nat \ {0}
           /\ a <= ((a + d - 1) \div d) * d
           /\ ((a + d - 1) \div d) * d - d < a
<1> DEFINE s == a + d - 1
           q == s \div d
           Q == q * d
<1>1. s \in Nat
  OBVIOUS
<1> HIDE DEF s
<1>2. q \in Nat /\ Q <= s /\ s < Q + d
  BY <1>1, Quotient
<1> HIDE DEF q
<1>3. Q \in Nat
  BY <1>2
<1> HIDE DEF Q
<1>4. a <= Q /\ Q - d < a
  BY <1>1, <1>2, <1>3 DEF s
<1>5. q # 0
  BY <1>2, <1>4 DEF Q
<1> QED
  BY <1>2, <1>4, <1>5 DEF Q, q, s

\* The grid of tiles holds the image, and its last tiles begin inside.
LEMMA GridIs ==
    ASSUME setup \in Setups, image \in Image
    PROVE  /\ Columns \in Nat \ {0} /\ image[1] <= Columns * setup.tile /\ Columns * setup.tile - setup.tile < image[1]
           /\ Rows \in Nat \ {0} /\ image[2] <= Rows * setup.tile /\ Rows * setup.tile - setup.tile < image[2]
<1>1. image[1] \in Nat \ {0} /\ image[2] \in Nat \ {0} /\ setup.tile \in Nat \ {0}
  BY SetupIs DEF Image
<1> QED
  BY <1>1, RoundUp DEF Columns, Rows

\* Column or row k of tiles begins inside the image.
LEMMA BeginsInside ==
    ASSUME NEW n \in Nat \ {0}, NEW d \in Nat \ {0}, NEW a \in Nat, n * d - d < a, NEW k \in 0 .. n - 1
    PROVE  k * d \in Nat /\ k * d < a /\ (k + 1) * d = k * d + d
<1>1. k * d <= (n - 1) * d /\ k * d \in Nat /\ (n - 1) * d = n * d - d /\ (k + 1) * d = k * d + d
  <2>1. k \in Nat /\ n - 1 \in Nat /\ k <= n - 1
    OBVIOUS
  <2>2. \A p, q, c \in Nat : p <= q => p * c <= q * c
    OBVIOUS
  <2> QED
    BY <2>1, <2>2
<1> DEFINE u == k * d
           v == n * d
<1>2. u \in Nat /\ v \in Nat /\ u <= v - d /\ v - d < a
  BY <1>1
<1> HIDE DEF u, v
<1>3. u < a
  BY <1>2
<1> QED
  BY <1>1, <1>3 DEF u

\* A cell of some tiles, by the tile it is in.
LEMMA CellOf ==
    ASSUME setup \in Setups, image \in Image, NEW T, NEW p \in Int, NEW q \in Int
    PROVE  <<p, q>> \in CellsOf(T) <=>
               /\ p \in 0 .. image[1] - 1 /\ q \in 0 .. image[2] - 1
               /\ <<p \div setup.tile, q \div setup.tile>> \in T
BY DEF CellsOf, Image

\* A cell of some tiles is its column and its row.
LEMMA CellsOfPairs ==
    ASSUME NEW T, NEW c \in CellsOf(T)
    PROVE  c[1] \in Int /\ c[2] \in Int /\ c = <<c[1], c[2]>>
BY DEF CellsOf

\* Where the quotient of p by d lies says where p lies.
LEMMA QuotientIn ==
    ASSUME NEW p \in Nat, NEW d \in Nat \ {0}, NEW a \in Nat, NEW b \in Nat
    PROVE  a <= p \div d /\ p \div d < b <=> a * d <= p /\ p < b * d
<1> DEFINE q == p \div d
           Q == q * d
           A == a * d
           B == b * d
<1>1. q \in Nat /\ Q <= p /\ p < Q + d
  BY Quotient
<1> HIDE DEF q
<1>2. Q \in Nat /\ A \in Nat /\ B \in Nat
  BY <1>1
<1>3. \A x, y, c \in Nat : x <= y => x * c <= y * c
  OBVIOUS
<1>4. (a <= q => A <= Q) /\ (q + 1 <= a => Q + d <= A) /\ (q + 1 <= b => Q + d <= B) /\ (b <= q => B <= Q)
  <2>1. q + 1 \in Nat /\ (q + 1) * d = Q + d
    BY <1>1
  <2> QED
    BY <1>1, <1>3, <2>1
<1> HIDE DEF Q, A, B
<1>5. a <= q <=> A <= p
  BY <1>1, <1>2, <1>4
<1>6. q < b <=> p < B
  BY <1>1, <1>2, <1>4
<1> QED
  BY <1>5, <1>6 DEF q, A, B

RunOf(t, e) == {<<v, t[2]>> : v \in t[1] .. e - 1}

\* The run of dirty tiles from t ends before column e.
IsRun(tiles, t, e) ==
    /\ e \in t[1] + 1 .. Columns /\ <<e, t[2]>> \notin tiles
    /\ \A v \in t[1] .. e - 1 : <<v, t[2]>> \in tiles
    /\ RunRect(tiles, t) \in Rectangle
    /\ RunRect(tiles, t).x = t[1] * setup.tile /\ RunRect(tiles, t).y = t[2] * setup.tile
    /\ RunRect(tiles, t).w = Smaller(e * setup.tile, image[1]) - t[1] * setup.tile
    /\ RunRect(tiles, t).h = Smaller(setup.tile, image[2] - t[2] * setup.tile)
    /\ Cells(RunRect(tiles, t)) = CellsOf(RunOf(t, e))

\* A run has an end, and its rectangle holds the cells of its tiles.
LEMMA RunIs ==
    ASSUME setup \in Setups, image \in Image, NEW tiles \in SUBSET Tiles, NEW t \in tiles
    PROVE  \E e : IsRun(tiles, t, e)
<1> DEFINE IsEnd(u) == <<u, t[2]>> \notin tiles /\ \A v \in t[1] .. u - 1 : <<v, t[2]>> \in tiles
           end == CHOOSE u \in t[1] + 1 .. Columns : IsEnd(u)
           W == image[1]
           H == image[2]
           tile == setup.tile
           a == t[1]
           b == t[2]
           S == {u \in a + 1 .. Columns : <<u, b>> \notin tiles}
<1>1. W \in Nat \ {0} /\ H \in Nat \ {0} /\ tile \in Nat \ {0}
  BY SetupIs DEF Image
<1>2. /\ Columns \in Nat \ {0} /\ W <= Columns * tile /\ Columns * tile - tile < W
      /\ Rows \in Nat \ {0} /\ H <= Rows * tile /\ Rows * tile - tile < H
  BY GridIs
<1>3. a \in 0 .. Columns - 1 /\ b \in 0 .. Rows - 1 /\ t = <<a, b>>
  BY DEF Tiles
<1>4. \E u \in a + 1 .. Columns : IsEnd(u)
  <2>1. Columns \in S
    <3>1. <<Columns, b>> \notin Tiles
      BY <1>2 DEF Tiles
    <3> QED
      BY <1>2, <1>3, <3>1
  <2>2. PICK u \in S : \A j \in a + 1 .. u - 1 : j \notin S
    <3>1. S \in SUBSET (a + 1 .. Columns) /\ a + 1 \in Int /\ Columns \in Int /\ S # {}
      BY <1>2, <1>3, <2>1
    <3> HIDE DEF S
    <3> QED
      BY <3>1, LeastOf
  <2>3. ASSUME NEW v \in a .. u - 1 PROVE <<v, b>> \in tiles
    <3>1. CASE v = a
      BY <1>3, <3>1
    <3>2. CASE v # a
      <4>1. v \in a + 1 .. u - 1 /\ v \in a + 1 .. Columns
        BY <1>2, <1>3, <2>2, <2>3, <3>2
      <4> QED
        BY <2>2, <4>1
    <3> QED
      BY <3>1, <3>2
  <2> QED
    BY <2>2, <2>3
<1>5. end \in a + 1 .. Columns /\ IsEnd(end)
  <2> HIDE DEF IsEnd
  <2> QED
    BY <1>4
<1> DEFINE r == RunRect(tiles, t)
           w == Smaller(end * tile, W) - a * tile
           h == Smaller(tile, H - b * tile)
<1>6. r = [TileRect(t) EXCEPT !.w = w]
  BY DEF RunRect
<1> HIDE DEF end
<1>7. /\ a * tile \in Nat /\ a * tile < W /\ (a + 1) * tile = a * tile + tile
      /\ b * tile \in Nat /\ b * tile < H /\ (b + 1) * tile = b * tile + tile
  <2> HIDE DEF tile, W, H, a, b
  <2> QED
    BY <1>1, <1>2, <1>3, BeginsInside
<1>8. end * tile \in Nat /\ a * tile < end * tile
  <2>1. end \in Nat /\ a + 1 <= end /\ a + 1 \in Nat
    BY <1>2, <1>3, <1>5
  <2>2. (a + 1) * tile <= end * tile
    <3>1. \A x, y, c \in Nat : x <= y => x * c <= y * c
      OBVIOUS
    <3> QED
      BY <1>1, <2>1, <3>1
  <2>3. end * tile \in Nat
    BY <1>1, <2>1
  <2> DEFINE A == a * tile
             E == end * tile
  <2>4. A \in Nat /\ E \in Nat /\ A + tile <= E
    BY <1>7, <2>2, <2>3
  <2> HIDE DEF A, E
  <2>5. A < E
    BY <1>1, <2>4
  <2> QED
    BY <2>3, <2>5 DEF A, E
<1> DEFINE A == a * tile
           B == b * tile
           E == end * tile
<1>9. w \in Nat \ {0} /\ h \in Nat \ {0} /\ A + w = Smaller(E, W) /\ B + h = Smaller(B + tile, H)
  <2>1. A \in Nat /\ B \in Nat /\ E \in Nat /\ A < W /\ B < H /\ A < E
    BY <1>7, <1>8
  <2>2. w = Smaller(E, W) - A /\ h = Smaller(tile, H - B)
    OBVIOUS
  <2> HIDE DEF A, B, E, w, h
  <2> QED
    BY <1>1, <2>1, <2>2 DEF Smaller
<1>10. r = Rect(A, B, w, h)
  BY <1>6 DEF TileRect, Rect
<1>11. r \in Rectangle /\ r.x = A /\ r.y = B /\ r.w = w /\ r.h = h
  <2> HIDE DEF r, w, h, A, B
  <2>1. A \in Nat /\ B \in Nat
    BY <1>7 DEF A, B
  <2>2. w \in Nat \ {0} /\ h \in Nat \ {0}
    BY <1>9
  <2>3. /\ Rect(A, B, w, h) \in Rectangle
        /\ Rect(A, B, w, h).x = A /\ Rect(A, B, w, h).y = B
        /\ Rect(A, B, w, h).w = w /\ Rect(A, B, w, h).h = h
    BY <2>1, <2>2, RectIs
  <2> QED
    BY <1>10, <2>3
<1> HIDE DEF r, w, h
<1>12. ASSUME NEW p \in Int, NEW q \in Int PROVE <<p, q>> \in Cells(r) <=> <<p, q>> \in CellsOf(RunOf(t, end))
  <2> DEFINE P == p \div tile
             Q == q \div tile
  <2>1. <<p, q>> \in CellsOf(RunOf(t, end)) <=>
            p \in 0 .. W - 1 /\ q \in 0 .. H - 1 /\ <<P, Q>> \in RunOf(t, end)
    BY CellOf
  <2>2. <<p, q>> \in Cells(r) <=> A <= p /\ p < A + w /\ B <= q /\ q < B + h
    <3> HIDE DEF A, B
    <3> QED
      BY <1>11, CellIn
  <2>3. (A + w = Smaller(E, W)) /\ (B + h = Smaller(B + tile, H)) /\ A \in Nat /\ B \in Nat /\ E \in Nat
    BY <1>7, <1>8, <1>9
  <2>4. <<p, q>> \in Cells(r) <=> A <= p /\ p < E /\ p < W /\ B <= q /\ q < B + tile /\ q < H
    <3>0. w \in Nat /\ h \in Nat
      BY <1>9
    <3> HIDE DEF A, B, E, W, H, tile
    <3>1. p < A + w <=> p < E /\ p < W
      BY <1>1, <2>3 DEF Smaller
    <3>2. q < B + h <=> q < B + tile /\ q < H
      BY <1>1, <2>3 DEF Smaller
    <3> QED
      BY <2>2, <3>1, <3>2
  <2>5. <<P, Q>> \in RunOf(t, end) <=> P \in a .. end - 1 /\ Q = b
    <3> HIDE DEF P, Q
    <3> QED
      BY DEF RunOf
  <2>6. CASE p \in Nat /\ q \in Nat
    <3>1. P \in Nat /\ Q \in Nat
      BY <1>1, <2>6, Quotient
    <3>2. a \in Nat /\ b \in Nat /\ b + 1 \in Nat /\ end \in Nat
      BY <1>2, <1>3, <1>5
    <3>3. a <= P /\ P < end <=> A <= p /\ p < E
      <4> HIDE DEF a, tile
      <4> QED
        BY <1>1, <2>6, <3>2, QuotientIn
    <3>4. b <= Q /\ Q < b + 1 <=> B <= q /\ q < (b + 1) * tile
      <4> HIDE DEF b, tile
      <4> QED
        BY <1>1, <2>6, <3>2, QuotientIn
    <3>5. (b + 1) * tile = B + tile
      BY <1>7
    <3> HIDE DEF P, Q, A, B, E, W, H, tile, a, b
    <3>6. P \in a .. end - 1 <=> a <= P /\ P < end
      BY <3>1, <3>2
    <3>7. Q = b <=> b <= Q /\ Q < b + 1
      BY <3>1, <3>2
    <3>8. p \in 0 .. W - 1 /\ q \in 0 .. H - 1 <=> p < W /\ q < H
      BY <1>1, <2>6
    <3> QED
      BY <2>1, <2>4, <2>5, <3>3, <3>4, <3>5, <3>6, <3>7, <3>8
  <2>7. CASE ~(p \in Nat /\ q \in Nat)
    <3> HIDE DEF P, Q, A, B, E, W, H, tile, a, b
    <3>1. ~(p \in 0 .. W - 1 /\ q \in 0 .. H - 1)
      BY <1>1, <2>7
    <3>2. ~(A <= p /\ B <= q)
      BY <2>3, <2>7
    <3> QED
      BY <2>1, <2>4, <3>1, <3>2
  <2> QED
    BY <2>6, <2>7
<1>13. Cells(r) = CellsOf(RunOf(t, end))
  <2>1. ASSUME NEW c \in Cells(r) PROVE c \in CellsOf(RunOf(t, end))
    <3>1. c[1] \in Int /\ c[2] \in Int /\ c = <<c[1], c[2]>>
      BY <1>11, CellsArePairs
    <3> QED
      BY <1>12, <3>1
  <2>2. ASSUME NEW c \in CellsOf(RunOf(t, end)) PROVE c \in Cells(r)
    <3>1. c[1] \in Int /\ c[2] \in Int /\ c = <<c[1], c[2]>>
      BY CellsOfPairs
    <3> QED
      BY <1>12, <3>1
  <2> QED
    BY <2>1, <2>2
<1> QED
  BY <1>5, <1>11, <1>13 DEF r, w, h, IsRun

------------------------------------------------------------------------------
\* The scan of a row, of the rows and of the rectangles

\* A rectangle that grows by its continuation holds the cells of both.
LEMMA GrownIs ==
    ASSUME NEW last \in Rectangle, NEW r \in Rectangle, Continues(last, r)
    PROVE  LET grown == [last EXCEPT !.h = @ + r.h]
           IN  /\ grown \in Rectangle /\ Cells(grown) = Cells(last) \cup Cells(r)
               /\ grown.x = r.x /\ grown.w = r.w /\ grown.y + grown.h = r.y + r.h
               /\ grown.h = last.h + r.h
<1> DEFINE grown == [last EXCEPT !.h = @ + r.h]
<1>1. /\ grown \in Rectangle /\ grown.x = last.x /\ grown.y = last.y /\ grown.w = last.w /\ grown.h = last.h + r.h
  BY DEF Rectangle
<1>2. last.x = r.x /\ last.w = r.w /\ last.y + last.h = r.y
  BY DEF Continues
<1>3. /\ last.x \in Nat /\ last.y \in Nat /\ last.w \in Nat /\ last.h \in Nat \ {0}
      /\ r.x \in Nat /\ r.y \in Nat /\ r.w \in Nat /\ r.h \in Nat \ {0}
  BY DEF Rectangle
<1> HIDE DEF grown
<1>4. ASSUME NEW p \in Int, NEW q \in Int
      PROVE  <<p, q>> \in Cells(grown) <=> <<p, q>> \in Cells(last) \cup Cells(r)
  <2>1. /\ <<p, q>> \in Cells(grown) <=>
               grown.x <= p /\ p < grown.x + grown.w /\ grown.y <= q /\ q < grown.y + grown.h
        /\ <<p, q>> \in Cells(last) <=>
               last.x <= p /\ p < last.x + last.w /\ last.y <= q /\ q < last.y + last.h
        /\ <<p, q>> \in Cells(r) <=> r.x <= p /\ p < r.x + r.w /\ r.y <= q /\ q < r.y + r.h
    BY <1>1, CellIn
  <2> QED
    BY <1>1, <1>2, <1>3, <2>1
<1>5. Cells(grown) = Cells(last) \cup Cells(r)
  <2>1. \A c : c \in Cells(grown) \/ c \in Cells(last) \/ c \in Cells(r) =>
                   c[1] \in Int /\ c[2] \in Int /\ c = <<c[1], c[2]>>
    BY <1>1, CellsArePairs
  <2> QED
    BY <1>4, <2>1
<1> QED
  BY <1>1, <1>2, <1>3, <1>5 DEF grown

\* Merging makes rectangles of rectangles.
LEMMA MergedType ==
    ASSUME NEW rects \in Seq(Rectangle), NEW r \in Rectangle
    PROVE  Merged(rects, r) \in Seq(Rectangle)
<1>1. CASE rects # <<>> /\ Continues(rects[Len(rects)], r)
  <2> DEFINE n == Len(rects)
             grown == [rects[n] EXCEPT !.h = @ + r.h]
  <2>1. n \in 1 .. n /\ rects[n] \in Rectangle
    BY <1>1
  <2>2. grown \in Rectangle
    <3> HIDE DEF n
    <3> QED
      BY <1>1, <2>1, GrownIs DEF n
  <2>3. Merged(rects, r) = [rects EXCEPT ![n] = grown]
    BY <1>1 DEF Merged
  <2> HIDE DEF grown
  <2> QED
    BY <2>1, <2>2, <2>3
<1>2. CASE ~(rects # <<>> /\ Continues(rects[Len(rects)], r))
  <2>1. Merged(rects, r) = Append(rects, r)
    BY <1>2 DEF Merged
  <2> QED
    BY <2>1
<1> QED
  BY <1>1, <1>2

\* Merging a run with the rectangle above covers the cells of both (changedRectangles).
LEMMA MergedTiles ==
    ASSUME NEW rects, NEW S, Tiling(rects, S), NEW r \in Rectangle, S \cap Cells(r) = {}
    PROVE  Tiling(Merged(rects, r), S \cup Cells(r)) /\ Len(Merged(rects, r)) >= 1
<1>0. rects \in Seq(Rectangle)
  BY DEF Tiling
<1>1. CASE rects # <<>> /\ Continues(rects[Len(rects)], r)
  <2> DEFINE n == Len(rects)
             grown == [rects[n] EXCEPT !.h = @ + r.h]
  <2>1. n \in 1 .. n /\ rects[n] \in Rectangle
    BY <1>0, <1>1
  <2>2. grown \in Rectangle /\ Cells(grown) = Cells(rects[n]) \cup Cells(r)
    <3> HIDE DEF n
    <3> QED
      BY <1>1, <2>1, GrownIs DEF n
  <2>3. Merged(rects, r) = [rects EXCEPT ![n] = grown]
    BY <1>1 DEF Merged
  <2> HIDE DEF grown
  <2>4. Tiling(Merged(rects, r), S \cup Cells(r))
    <3> DEFINE T == Cells(r)
    <3>1. n \in 1 .. Len(rects) /\ Cells(grown) = Cells(rects[n]) \cup T /\ S \cap T = {} /\ grown \in Rectangle
      BY <2>1, <2>2
    <3> HIDE DEF n, T
    <3>2. Tiling([rects EXCEPT ![n] = grown], S \cup T)
      BY <3>1, TilingGrown
    <3> QED
      BY <2>3, <3>2 DEF T
  <2>5. Len([rects EXCEPT ![n] = grown]) = n /\ n >= 1
    BY <1>0, <2>1, <2>2
  <2> QED
    BY <2>3, <2>4, <2>5
<1>2. CASE ~(rects # <<>> /\ Continues(rects[Len(rects)], r))
  <2>1. Merged(rects, r) = Append(rects, r)
    BY <1>2 DEF Merged
  <2>2. Append(rects, r) = rects \o <<r>> /\ Len(Append(rects, r)) >= 1
    BY <1>0
  <2>3. Tiling(rects \o <<r>>, S \cup Cells(r))
    BY TilingOne, TilingBoth
  <2> QED
    BY <2>1, <2>2, <2>3
<1> QED
  BY <1>1, <1>2

RowStep(tiles, y, x, rects) ==
    IF BeginsRun(tiles, <<x - 1, y>>) THEN Merged(rects, RunRect(tiles, <<x - 1, y>>)) ELSE rects

\* What holds of the rectangles before a row, and is kept by every tile of it, holds after the row.
LEMMA RowScan ==
    ASSUME setup \in Setups, image \in Image, NEW tiles \in SUBSET Tiles, NEW y,
           NEW above \in Seq(Rectangle), NEW G, <<0, above>> \in G,
           \A x \in 1 .. Columns, rects \in Seq(Rectangle) :
               <<x - 1, rects>> \in G => <<x, RowStep(tiles, y, x, rects)>> \in G
    PROVE  WithRow(tiles, above, y) \in Seq(Rectangle) /\ <<Columns, WithRow(tiles, above, y)>> \in G
<1> DEFINE a == 0
           n == Columns
           RS == Seq(Rectangle)
           upTo[x \in a .. n] ==
               IF x = a THEN above
               ELSE IF BeginsRun(tiles, <<x - 1, y>>)
                    THEN Merged(upTo[x - 1], RunRect(tiles, <<x - 1, y>>))
                    ELSE upTo[x - 1]
           Body(f) == [x \in a .. n |->
               IF x = a THEN above
               ELSE IF BeginsRun(tiles, <<x - 1, y>>)
                    THEN Merged(f[x - 1], RunRect(tiles, <<x - 1, y>>))
                    ELSE f[x - 1]]
           step == [x \in a .. n |-> [v \in RS |-> RowStep(tiles, y, x, v)]]
<1>1. a \in Int /\ n \in Int /\ a <= n /\ above \in RS
  BY GridIs
<1>2. WithRow(tiles, above, y) = upTo[n]
  BY DEF WithRow
<1>3. \A x \in 1 .. n, rects \in RS :
          <<x - 1, rects>> \in G => <<x, RowStep(tiles, y, x, rects)>> \in G
  OBVIOUS
<1>4. <<a, above>> \in G
  OBVIOUS
<1>5. \A x \in a .. n : x # a => x \in 1 .. n /\ x - 1 \in a .. n
  BY <1>1
<1> HIDE DEF n, RS
<1>6. ASSUME NEW x, NEW v \in RS PROVE RowStep(tiles, y, x, v) \in RS
  <2>1. CASE BeginsRun(tiles, <<x - 1, y>>)
    <3>1. RunRect(tiles, <<x - 1, y>>) \in Rectangle
      <4> DEFINE t == <<x - 1, y>>
      <4>1. t \in tiles
        BY <2>1 DEF BeginsRun
      <4> HIDE DEF t
      <4>2. RunRect(tiles, t) \in Rectangle
        BY <4>1, RunIs DEF IsRun
      <4> QED
        BY <4>2 DEF t
    <3>2. RowStep(tiles, y, x, v) = Merged(v, RunRect(tiles, <<x - 1, y>>))
      BY <2>1 DEF RowStep
    <3> QED
      BY <3>1, <3>2, MergedType DEF RS
  <2>2. CASE ~BeginsRun(tiles, <<x - 1, y>>)
    BY <2>2 DEF RowStep
  <2> QED
    BY <2>1, <2>2
<1>7. /\ step \in [a .. n -> [RS -> RS]]
      /\ \A x \in a .. n, v \in RS : step[x][v] = RowStep(tiles, y, x, v)
  BY <1>6
<1> HIDE DEF step, a
<1>8. PICK f \in [a .. n -> RS] : f[a] = above /\ Follows(f, a, n, step)
  BY <1>1, <1>7, Recursion
<1>9. ASSUME NEW x \in a .. n
      PROVE  (x = a => f[x] = above) /\ (x # a => f[x] = RowStep(tiles, y, x, f[x - 1]))
  BY <1>5, <1>7, <1>8 DEF Follows
<1>10. f = Body(f)
  <2>1. f = [i \in a .. n |-> f[i]]
    BY <1>8
  <2>2. \A x \in a .. n : f[x] = IF x = a THEN above
               ELSE IF BeginsRun(tiles, <<x - 1, y>>)
                    THEN Merged(f[x - 1], RunRect(tiles, <<x - 1, y>>))
                    ELSE f[x - 1]
    BY <1>9 DEF RowStep
  <2> QED
    BY <2>1, <2>2
<1>11. upTo = Body(upTo)
  <2>1. upTo = CHOOSE h : h = Body(h)
    BY DEF upTo
  <2> HIDE DEF upTo, Body
  <2> QED
    BY <1>10, <2>1
<1> HIDE DEF upTo
<1>12. \A x \in a .. n : upTo[x] = IF x = a THEN above ELSE RowStep(tiles, y, x, upTo[x - 1])
  <2> DEFINE V(x) == IF x = a THEN above
               ELSE IF BeginsRun(tiles, <<x - 1, y>>)
                    THEN Merged(upTo[x - 1], RunRect(tiles, <<x - 1, y>>))
                    ELSE upTo[x - 1]
  <2>1. upTo = [i \in a .. n |-> V(i)]
    BY <1>11
  <2> HIDE DEF V
  <2>2. \A i \in a .. n : upTo[i] = V(i)
    BY <2>1
  <2> QED
    BY <2>2 DEF V, RowStep
<1> DEFINE Good == {x \in a .. n : upTo[x] \in RS /\ <<x, upTo[x]>> \in G}
<1>13. a \in Good
  <2>1. a \in a .. n
    BY <1>1
  <2>2. upTo[a] = above
    BY <1>12, <2>1
  <2> QED
    BY <1>1, <1>4, <2>1, <2>2
<1>14. ASSUME NEW x \in a .. n, x \in Good, x < n PROVE x + 1 \in Good
  <2>1. x + 1 \in a .. n /\ x + 1 # a /\ (x + 1) - 1 = x
    BY <1>1, <1>14
  <2>2. upTo[x + 1] = RowStep(tiles, y, x + 1, upTo[x]) /\ x + 1 \in 1 .. n
    BY <1>5, <1>12, <2>1
  <2>3. upTo[x] \in RS /\ <<x, upTo[x]>> \in G
    BY <1>14
  <2>4. <<x + 1, RowStep(tiles, y, x + 1, upTo[x])>> \in G
    BY <1>3, <2>1, <2>2, <2>3
  <2> QED
    BY <1>6, <2>1, <2>2, <2>3, <2>4
<1>15. \A x \in a .. n : x \in Good
  <2> HIDE DEF Good
  <2> QED
    BY <1>1, <1>13, <1>14, CountUp
<1>16. n \in a .. n
  BY <1>1
<1> QED
  BY <1>2, <1>15, <1>16 DEF n, RS

\* The same of the rows.
LEMMA RowsScan ==
    ASSUME setup \in Setups, image \in Image, NEW tiles \in SUBSET Tiles, NEW G, <<0, <<>>>> \in G,
           \A y \in 1 .. Rows, rects \in Seq(Rectangle) :
               <<y - 1, rects>> \in G => <<y, WithRow(tiles, rects, y - 1)>> \in G
    PROVE  Changed(tiles) \in Seq(Rectangle) /\ <<Rows, Changed(tiles)>> \in G
<1> DEFINE a == 0
           n == Rows
           RS == Seq(Rectangle)
           none == <<>>
           upTo[y \in a .. n] == IF y = a THEN none ELSE WithRow(tiles, upTo[y - 1], y - 1)
           Body(f) == [y \in a .. n |-> IF y = a THEN none ELSE WithRow(tiles, f[y - 1], y - 1)]
           step == [y \in a .. n |-> [v \in RS |-> WithRow(tiles, v, y - 1)]]
<1>1. a \in Int /\ n \in Int /\ a <= n /\ none \in RS
  BY GridIs
<1>2. Changed(tiles) = upTo[n]
  BY DEF Changed
<1>3. \A y \in 1 .. n, rects \in RS :
          <<y - 1, rects>> \in G => <<y, WithRow(tiles, rects, y - 1)>> \in G
  OBVIOUS
<1>4. <<a, none>> \in G
  OBVIOUS
<1>5. \A y \in a .. n : y # a => y \in 1 .. n /\ y - 1 \in a .. n
  BY <1>1
<1> HIDE DEF n, RS, none
<1>6. ASSUME NEW y, NEW v \in RS PROVE WithRow(tiles, v, y - 1) \in RS
  <2> DEFINE All == (0 .. Columns) \X RS
             z == y - 1
  <2>0. Columns \in Nat
    BY GridIs
  <2>1. <<0, v>> \in All
    BY <2>0
  <2>2. ASSUME NEW x \in 1 .. Columns, NEW rects \in RS PROVE RowStep(tiles, z, x, rects) \in RS
    <3> DEFINE t == <<x - 1, z>>
    <3>1. CASE BeginsRun(tiles, t)
      <4>1. t \in tiles
        BY <3>1 DEF BeginsRun
      <4>2. RowStep(tiles, z, x, rects) = Merged(rects, RunRect(tiles, t))
        BY <3>1 DEF RowStep
      <4> HIDE DEF t
      <4>3. RunRect(tiles, t) \in Rectangle
        BY <4>1, RunIs DEF IsRun
      <4> QED
        BY <4>2, <4>3, MergedType DEF RS
    <3>2. CASE ~BeginsRun(tiles, t)
      BY <3>2 DEF RowStep
    <3> QED
      BY <3>1, <3>2
  <2>3. \A x \in 1 .. Columns, rects \in RS : <<x - 1, rects>> \in All => <<x, RowStep(tiles, z, x, rects)>> \in All
    BY <2>0, <2>2
  <2> HIDE DEF All, z
  <2>4. WithRow(tiles, v, z) \in RS
    BY <2>1, <2>3, RowScan DEF RS
  <2> QED
    BY <2>4 DEF z
<1>7. /\ step \in [a .. n -> [RS -> RS]]
      /\ \A y \in a .. n, v \in RS : step[y][v] = WithRow(tiles, v, y - 1)
  BY <1>6
<1> HIDE DEF step, a
<1>8. PICK f \in [a .. n -> RS] : f[a] = none /\ Follows(f, a, n, step)
  BY <1>1, <1>7, Recursion
<1>9. ASSUME NEW y \in a .. n
      PROVE  f[y] = IF y = a THEN none ELSE WithRow(tiles, f[y - 1], y - 1)
  BY <1>5, <1>7, <1>8 DEF Follows
<1>10. f = Body(f)
  <2>1. f = [i \in a .. n |-> f[i]]
    BY <1>8
  <2> QED
    BY <1>9, <2>1
<1>11. upTo = Body(upTo)
  <2>1. upTo = CHOOSE h : h = Body(h)
    BY DEF upTo
  <2> HIDE DEF upTo, Body
  <2> QED
    BY <1>10, <2>1
<1> HIDE DEF upTo
<1>12. \A y \in a .. n : upTo[y] = IF y = a THEN none ELSE WithRow(tiles, upTo[y - 1], y - 1)
  <2> DEFINE V(y) == IF y = a THEN none ELSE WithRow(tiles, upTo[y - 1], y - 1)
  <2>1. upTo = [i \in a .. n |-> V(i)]
    BY <1>11
  <2> HIDE DEF V
  <2>2. \A i \in a .. n : upTo[i] = V(i)
    BY <2>1
  <2> QED
    BY <2>2 DEF V
<1> DEFINE Good == {y \in a .. n : upTo[y] \in RS /\ <<y, upTo[y]>> \in G}
<1>13. a \in Good
  <2>1. a \in a .. n
    BY <1>1
  <2>2. upTo[a] = none
    BY <1>12, <2>1
  <2> QED
    BY <1>1, <1>4, <2>1, <2>2
<1>14. ASSUME NEW y \in a .. n, y \in Good, y < n PROVE y + 1 \in Good
  <2>1. y + 1 \in a .. n /\ y + 1 # a /\ (y + 1) - 1 = y
    BY <1>1, <1>14
  <2>2. upTo[y + 1] = WithRow(tiles, upTo[y], (y + 1) - 1) /\ y + 1 \in 1 .. n
    BY <1>5, <1>12, <2>1
  <2>3. upTo[y] \in RS /\ <<y, upTo[y]>> \in G
    BY <1>14
  <2>4. <<y + 1, WithRow(tiles, upTo[y], (y + 1) - 1)>> \in G
    BY <1>3, <2>1, <2>2, <2>3
  <2> QED
    BY <1>6, <2>1, <2>2, <2>3, <2>4
<1>15. \A y \in a .. n : y \in Good
  <2> HIDE DEF Good
  <2> QED
    BY <1>1, <1>13, <1>14, CountUp
<1>16. n \in a .. n
  BY <1>1
<1> QED
  BY <1>2, <1>15, <1>16 DEF n, RS

\* The same of the bands.
LEMMA BandsScan ==
    ASSUME setup \in Setups, NEW rects \in Seq(Rectangle), NEW G, <<0, <<>>>> \in G,
           \A i \in 1 .. Len(rects), bands \in Seq(Rectangle) :
               <<i - 1, bands>> \in G => <<i, bands \o Banded(rects[i])>> \in G
    PROVE  BandedAll(rects) \in Seq(Rectangle) /\ <<Len(rects), BandedAll(rects)>> \in G
<1> DEFINE a == 0
           n == Len(rects)
           RS == Seq(Rectangle)
           none == <<>>
           upTo[i \in a .. n] == IF i = a THEN none ELSE upTo[i - 1] \o Banded(rects[i])
           Body(f) == [i \in a .. n |-> IF i = a THEN none ELSE f[i - 1] \o Banded(rects[i])]
           step == [i \in a .. n |-> [v \in RS |-> IF i = a THEN none ELSE v \o Banded(rects[i])]]
<1>1. a \in Int /\ n \in Int /\ a <= n /\ none \in RS
  OBVIOUS
<1>2. BandedAll(rects) = upTo[n]
  BY DEF BandedAll
<1>3. \A i \in 1 .. n, bands \in RS :
          <<i - 1, bands>> \in G => <<i, bands \o Banded(rects[i])>> \in G
  OBVIOUS
<1>4. <<a, none>> \in G
  OBVIOUS
<1>5. \A i \in a .. n : i # a => i \in 1 .. n /\ i - 1 \in a .. n
  BY <1>1
<1>6. \A i \in 1 .. n : rects[i] \in Rectangle
  OBVIOUS
<1> HIDE DEF n, none
<1>7. ASSUME NEW i \in 1 .. n, NEW v \in RS PROVE v \o Banded(rects[i]) \in RS
  <2>1. Banded(rects[i]) \in RS
    BY <1>6, BandIs
  <2> QED
    BY <2>1
<1> HIDE DEF RS
<1>8. /\ step \in [a .. n -> [RS -> RS]]
      /\ \A i \in a .. n, v \in RS : i # a => step[i][v] = v \o Banded(rects[i])
  BY <1>1, <1>5, <1>7
<1> HIDE DEF step, a
<1>9. PICK f \in [a .. n -> RS] : f[a] = none /\ Follows(f, a, n, step)
  BY <1>1, <1>8, Recursion
<1>10. ASSUME NEW i \in a .. n
      PROVE  f[i] = IF i = a THEN none ELSE f[i - 1] \o Banded(rects[i])
  BY <1>5, <1>8, <1>9 DEF Follows
<1>11. f = Body(f)
  <2>1. f = [i \in a .. n |-> f[i]]
    BY <1>9
  <2> QED
    BY <1>10, <2>1
<1>12. upTo = Body(upTo)
  <2>1. upTo = CHOOSE h : h = Body(h)
    BY DEF upTo
  <2> HIDE DEF upTo, Body
  <2> QED
    BY <1>11, <2>1
<1> HIDE DEF upTo
<1>13. \A i \in a .. n : upTo[i] = IF i = a THEN none ELSE upTo[i - 1] \o Banded(rects[i])
  <2> DEFINE V(i) == IF i = a THEN none ELSE upTo[i - 1] \o Banded(rects[i])
  <2>1. upTo = [i \in a .. n |-> V(i)]
    BY <1>12
  <2> HIDE DEF V
  <2>2. \A i \in a .. n : upTo[i] = V(i)
    BY <2>1
  <2> QED
    BY <2>2 DEF V
<1> DEFINE Good == {i \in a .. n : upTo[i] \in RS /\ <<i, upTo[i]>> \in G}
<1>14. a \in Good
  <2>1. a \in a .. n
    BY <1>1
  <2>2. upTo[a] = none
    BY <1>13, <2>1
  <2> QED
    BY <1>1, <1>4, <2>1, <2>2
<1>15. ASSUME NEW i \in a .. n, i \in Good, i < n PROVE i + 1 \in Good
  <2>1. i + 1 \in a .. n /\ i + 1 # a /\ (i + 1) - 1 = i
    BY <1>1, <1>15
  <2>2. upTo[i + 1] = upTo[i] \o Banded(rects[i + 1]) /\ i + 1 \in 1 .. n
    BY <1>5, <1>13, <2>1
  <2>3. upTo[i] \in RS /\ <<i, upTo[i]>> \in G
    BY <1>15
  <2>4. <<i + 1, upTo[i] \o Banded(rects[i + 1])>> \in G
    BY <1>3, <2>1, <2>2, <2>3
  <2> QED
    BY <1>7, <2>1, <2>2, <2>3, <2>4
<1>16. \A i \in a .. n : i \in Good
  <2> HIDE DEF Good
  <2> QED
    BY <1>1, <1>14, <1>15, CountUp
<1>17. n \in a .. n
  BY <1>1
<1> QED
  BY <1>2, <1>16, <1>17 DEF n, RS

------------------------------------------------------------------------------
\* The rectangles of some tiles cover these

\* The cells of more tiles are more cells.
LEMMA CellsOfBoth ==
    ASSUME NEW A, NEW B
    PROVE  /\ CellsOf(A \cup B) = CellsOf(A) \cup CellsOf(B)
           /\ A \cap B = {} => CellsOf(A) \cap CellsOf(B) = {}
           /\ CellsOf({}) = {}
BY DEF CellsOf

Above(tiles, y) == {t \in tiles : t[2] < y}

\* The tiles of row y whose run begins left of column x.
Reach(tiles, y, x) ==
    {t \in tiles : t[2] = y /\ \E s \in 0 .. x - 1 : s <= t[1] /\ \A v \in s .. t[1] : <<v, y>> \in tiles}

\* No tile is reached before a row, and all of its own are after it.
LEMMA ReachIs ==
    ASSUME setup \in Setups, image \in Image, NEW tiles \in SUBSET Tiles, NEW y \in 0 .. Rows - 1
    PROVE  /\ Reach(tiles, y, 0) = {}
           /\ Above(tiles, y) \cup Reach(tiles, y, Columns) = Above(tiles, y + 1)
           /\ Above(tiles, 0) = {} /\ Above(tiles, Rows) = tiles
           /\ \A x : Above(tiles, y) \cap Reach(tiles, y, x) = {}
<1>1. Columns \in Nat /\ Rows \in Nat
  BY GridIs
<1>2. \A t \in tiles : t = <<t[1], t[2]>> /\ t[1] \in 0 .. Columns - 1 /\ t[2] \in 0 .. Rows - 1
  BY DEF Tiles
<1>3. Reach(tiles, y, 0) = {}
  BY DEF Reach
<1>4. \A x : Above(tiles, y) \cap Reach(tiles, y, x) = {}
  BY <1>1, <1>2 DEF Reach, Above
<1>5. Above(tiles, 0) = {} /\ Above(tiles, Rows) = tiles
  BY <1>1, <1>2 DEF Above
<1>6. ASSUME NEW t \in tiles, t[2] = y PROVE t \in Reach(tiles, y, Columns)
  <2>1. t[1] \in 0 .. Columns - 1 /\ t = <<t[1], y>>
    BY <1>2, <1>6
  <2>2. \A v \in t[1] .. t[1] : <<v, y>> \in tiles
    BY <2>1
  <2> QED
    BY <1>6, <2>1, <2>2 DEF Reach
<1>7. \A t \in tiles : t[2] < y + 1 <=> t[2] < y \/ t[2] = y
  BY <1>1, <1>2
<1>8. Above(tiles, y) \cup Reach(tiles, y, Columns) = Above(tiles, y + 1)
  BY <1>6, <1>7 DEF Above, Reach
<1> QED
  BY <1>3, <1>4, <1>5, <1>8

\* The run that begins at x - 1 reaches what no run before does.
LEMMA ReachMore ==
    ASSUME setup \in Setups, image \in Image, NEW tiles \in SUBSET Tiles, NEW y \in 0 .. Rows - 1,
           NEW x \in 1 .. Columns, BeginsRun(tiles, <<x - 1, y>>), NEW e \in x .. Columns,
           <<e, y>> \notin tiles, \A v \in x - 1 .. e - 1 : <<v, y>> \in tiles
    PROVE  /\ Reach(tiles, y, x) = Reach(tiles, y, x - 1) \cup RunOf(<<x - 1, y>>, e)
           /\ Reach(tiles, y, x - 1) \cap RunOf(<<x - 1, y>>, e) = {}
<1> DEFINE In(v) == <<v, y>> \in tiles
           a == x - 1
<1>1. Columns \in Nat /\ Rows \in Nat
  BY GridIs
<1>2. \A t \in tiles : t = <<t[1], t[2]>> /\ t[1] \in 0 .. Columns - 1 /\ t[2] \in 0 .. Rows - 1
  BY DEF Tiles
<1>3. In(x - 1) /\ ~In((x - 1) - 1) /\ (x - 1) - 1 = x - 2 /\ ~In(e)
  BY DEF BeginsRun
<1>4. \A t : t \in RunOf(<<x - 1, y>>, e) <=> \E v \in x - 1 .. e - 1 : t = <<v, y>>
  BY DEF RunOf
<1> DEFINE R(t, b) == \E s \in 0 .. b : s <= t[1] /\ \A v \in s .. t[1] : In(v)
<1>5. /\ \A t : t \in Reach(tiles, y, x) <=> t \in tiles /\ t[2] = y /\ R(t, x - 1)
      /\ \A t : t \in Reach(tiles, y, x - 1) <=> t \in tiles /\ t[2] = y /\ R(t, x - 2)
  BY <1>3 DEF Reach
<1>6. ASSUME NEW t \in tiles, t[2] = y, R(t, x - 1)
      PROVE  R(t, x - 2) \/ t \in RunOf(<<x - 1, y>>, e)
  <2>1. PICK s \in 0 .. x - 1 : s <= t[1] /\ \A v \in s .. t[1] : In(v)
    BY <1>6
  <2>2. CASE s = x - 1
    <3>1. ~(e \in s .. t[1])
      BY <1>3, <2>1
    <3>2. t[1] \in x - 1 .. e - 1 /\ t = <<t[1], y>>
      BY <1>1, <1>2, <1>6, <2>1, <2>2, <3>1
    <3> QED
      BY <1>4, <3>2
  <2>3. CASE s # x - 1
    <3>1. s \in 0 .. x - 2
      BY <2>3
    <3> QED
      BY <2>1, <3>1
  <2> QED
    BY <2>2, <2>3
<1>7. ASSUME NEW t \in RunOf(<<x - 1, y>>, e) PROVE t \in tiles /\ t[2] = y /\ R(t, x - 1) /\ ~R(t, x - 2)
  <2>1. PICK u \in x - 1 .. e - 1 : t = <<u, y>>
    BY <1>4
  <2>2. t[1] = u /\ t[2] = y /\ t \in tiles
    BY <2>1
  <2>3. R(t, x - 1)
    <3>1. x - 1 \in 0 .. x - 1 /\ x - 1 <= u
      BY <1>1
    <3>2. \A v \in x - 1 .. u : In(v)
      BY <1>1, <2>1
    <3> QED
      BY <2>2, <3>1, <3>2
  <2>4. ASSUME R(t, x - 2) PROVE FALSE
    <3>1. PICK s \in 0 .. x - 2 : \A v \in s .. t[1] : In(v)
      BY <2>4
    <3>2. x - 2 \in s .. u
      BY <1>1, <2>1
    <3> QED
      BY <1>3, <2>2, <3>1, <3>2
  <2> QED
    BY <2>2, <2>3, <2>4
<1>8. \A t : R(t, x - 2) => R(t, x - 1)
  <2>1. \A s \in 0 .. x - 2 : s \in 0 .. x - 1
    BY <1>1
  <2> QED
    BY <2>1
<1> HIDE DEF R, In
<1>9. Reach(tiles, y, x) = Reach(tiles, y, x - 1) \cup RunOf(<<x - 1, y>>, e)
  BY <1>5, <1>6, <1>7, <1>8
<1>10. Reach(tiles, y, x - 1) \cap RunOf(<<x - 1, y>>, e) = {}
  BY <1>5, <1>7
<1> QED
  BY <1>9, <1>10

\* Where no run begins, no more is reached.
LEMMA ReachSame ==
    ASSUME setup \in Setups, image \in Image, NEW tiles \in SUBSET Tiles, NEW y \in 0 .. Rows - 1,
           NEW x \in 1 .. Columns, ~BeginsRun(tiles, <<x - 1, y>>)
    PROVE  Reach(tiles, y, x) = Reach(tiles, y, x - 1)
<1> DEFINE In(v) == <<v, y>> \in tiles
           R(t, b) == \E s \in 0 .. b : s <= t[1] /\ \A v \in s .. t[1] : In(v)
<1>1. Columns \in Nat /\ Rows \in Nat
  BY GridIs
<1>2. \A t \in tiles : t = <<t[1], t[2]>> /\ t[1] \in 0 .. Columns - 1 /\ t[2] \in 0 .. Rows - 1
  BY DEF Tiles
<1>3. ~In(x - 1) \/ (In(x - 2) /\ x - 2 >= 0)
  <2>1. (x - 1) - 1 = x - 2
    OBVIOUS
  <2>2. In(x - 2) => <<x - 2, y>>[1] \in 0 .. Columns - 1
    BY <1>2
  <2> QED
    BY <1>1, <2>1, <2>2 DEF BeginsRun
<1>5. /\ \A t : t \in Reach(tiles, y, x) <=> t \in tiles /\ t[2] = y /\ R(t, x - 1)
      /\ \A t : t \in Reach(tiles, y, x - 1) <=> t \in tiles /\ t[2] = y /\ R(t, x - 2)
  <2>1. (x - 1) - 1 = x - 2
    OBVIOUS
  <2> QED
    BY <2>1 DEF Reach
<1>6. ASSUME NEW t \in tiles, t[2] = y, R(t, x - 1) PROVE R(t, x - 2)
  <2>1. PICK s \in 0 .. x - 1 : s <= t[1] /\ \A v \in s .. t[1] : In(v)
    BY <1>6
  <2>0. t[1] \in Nat
    BY <1>1, <1>2
  <2>2. CASE s = x - 1
    <3>1. x - 1 \in s .. t[1]
      BY <2>0, <2>1, <2>2
    <3>2. In(x - 1) /\ In(x - 2) /\ x - 2 \in 0 .. x - 2 /\ x - 2 <= t[1]
      BY <1>1, <1>3, <2>0, <2>1, <2>2, <3>1
    <3>3. \A v \in x - 2 .. t[1] : v = x - 2 \/ v \in s .. t[1]
      BY <2>0, <2>2
    <3> QED
      BY <2>1, <3>2, <3>3
  <2>3. CASE s # x - 1
    <3>1. s \in 0 .. x - 2
      BY <2>3
    <3> QED
      BY <2>1, <3>1
  <2> QED
    BY <2>2, <2>3
<1>8. \A t : R(t, x - 2) => R(t, x - 1)
  <2>1. \A s \in 0 .. x - 2 : s \in 0 .. x - 1
    BY <1>1
  <2> QED
    BY <2>1
<1> HIDE DEF R, In
<1> QED
  BY <1>5, <1>6, <1>8

\* The rectangles after a row cover the tiles up to it.
LEMMA RowTiles ==
    ASSUME setup \in Setups, image \in Image, NEW tiles \in SUBSET Tiles, NEW y \in 0 .. Rows - 1,
           NEW above, Tiling(above, CellsOf(Above(tiles, y)))
    PROVE  Tiling(WithRow(tiles, above, y), CellsOf(Above(tiles, y + 1)))
<1> DEFINE RS == Seq(Rectangle)
           Covered(x) == CellsOf(Above(tiles, y) \cup Reach(tiles, y, x))
           G == {g \in (0 .. Columns) \X RS : Tiling(g[2], Covered(g[1]))}
<1>1. above \in RS /\ Columns \in Nat \ {0}
  BY GridIs DEF Tiling
<1>2. <<0, above>> \in G
  <2>1. Covered(0) = CellsOf(Above(tiles, y))
    BY ReachIs
  <2> HIDE DEF RS, Covered
  <2> QED
    BY <1>1, <2>1
<1>3. ASSUME NEW x \in 1 .. Columns, NEW rects \in RS, <<x - 1, rects>> \in G
      PROVE  <<x, RowStep(tiles, y, x, rects)>> \in G
  <2> DEFINE t == <<x - 1, y>>
             r == RunRect(tiles, t)
  <2>1. Tiling(rects, Covered(x - 1)) /\ x \in 0 .. Columns
    <3> HIDE DEF Covered, RS
    <3> QED
      BY <1>1, <1>3
  <2>2. CASE BeginsRun(tiles, t)
    <3>1. t \in tiles /\ t[1] = x - 1 /\ t[2] = y /\ (x - 1) + 1 = x
      BY <2>2 DEF BeginsRun
    <3>2. PICK e : IsRun(tiles, t, e)
      <4>1. t \in tiles
        BY <3>1
      <4> HIDE DEF t
      <4> QED
        BY <4>1, RunIs
    <3>a. r \in Rectangle /\ Cells(r) = CellsOf(RunOf(t, e))
      BY <3>2 DEF IsRun
    <3>3. e \in x .. Columns /\ <<e, y>> \notin tiles /\ \A v \in x - 1 .. e - 1 : <<v, y>> \in tiles
      BY <3>1, <3>2 DEF IsRun
    <3>4. /\ Reach(tiles, y, x) = Reach(tiles, y, x - 1) \cup RunOf(t, e)
          /\ Reach(tiles, y, x - 1) \cap RunOf(t, e) = {}
      BY <2>2, <3>3, ReachMore
    <3>5. Above(tiles, y) \cap RunOf(t, e) = {}
      BY <3>4, ReachIs
    <3> HIDE DEF t, r
    <3>6. Covered(x) = Covered(x - 1) \cup Cells(r) /\ Covered(x - 1) \cap Cells(r) = {}
      <4> DEFINE A == Above(tiles, y) \cup Reach(tiles, y, x - 1)
                 B == RunOf(t, e)
      <4>1. Above(tiles, y) \cup Reach(tiles, y, x) = A \cup B /\ A \cap B = {}
        BY <3>4, <3>5
      <4>2. Covered(x) = CellsOf(A \cup B) /\ Covered(x - 1) = CellsOf(A)
        BY <4>1
      <4> HIDE DEF A, B, Covered
      <4>3. CellsOf(A \cup B) = CellsOf(A) \cup CellsOf(B) /\ CellsOf(A) \cap CellsOf(B) = {}
        BY <4>1, CellsOfBoth
      <4>4. Cells(r) = CellsOf(B)
        BY <3>a DEF B
      <4> QED
        BY <4>2, <4>3, <4>4
    <3> HIDE DEF Covered
    <3>7. Tiling(Merged(rects, r), Covered(x))
      BY <2>1, <3>a, <3>6, MergedTiles
    <3>8. Merged(rects, r) \in RS
      BY <3>a, MergedType
    <3>9. RowStep(tiles, y, x, rects) = Merged(rects, r)
      BY <2>2 DEF RowStep, t, r
    <3> HIDE DEF RS
    <3> QED
      BY <2>1, <3>7, <3>8, <3>9
  <2>3. CASE ~BeginsRun(tiles, t)
    <3>1. RowStep(tiles, y, x, rects) = rects
      BY <2>3 DEF RowStep
    <3>2. Covered(x) = Covered(x - 1)
      BY <2>3, ReachSame
    <3> HIDE DEF Covered, RS
    <3> QED
      BY <2>1, <3>1, <3>2
  <2> QED
    BY <2>2, <2>3
<1>4. <<Columns, WithRow(tiles, above, y)>> \in G
  <2> HIDE DEF G
  <2> QED
    BY <1>1, <1>2, <1>3, RowScan
<1>5. Tiling(WithRow(tiles, above, y), Covered(Columns))
  <2> HIDE DEF Covered, RS
  <2> QED
    BY <1>4
<1>6. Covered(Columns) = CellsOf(Above(tiles, y + 1))
  BY ReachIs
<1> QED
  BY <1>5, <1>6

\* changedRectangles covers the tiles that changed, each once.
LEMMA ChangedTiles ==
    ASSUME setup \in Setups, image \in Image, NEW tiles \in SUBSET Tiles
    PROVE  Tiling(Changed(tiles), CellsOf(tiles))
<1> DEFINE RS == Seq(Rectangle)
           Covered(y) == CellsOf(Above(tiles, y))
           G == {g \in (0 .. Rows) \X RS : Tiling(g[2], Covered(g[1]))}
<1>1. Rows \in Nat \ {0} /\ 0 \in 0 .. Rows - 1
  BY GridIs
<1>2. <<0, <<>>>> \in G
  <2>1. Covered(0) = {}
    BY <1>1, ReachIs, CellsOfBoth
  <2>2. Tiling(<<>>, Covered(0)) /\ <<>> \in RS
    BY <2>1, TilingNothing
  <2> HIDE DEF Covered, RS
  <2> QED
    BY <1>1, <2>2
<1>3. ASSUME NEW y \in 1 .. Rows, NEW rects \in RS, <<y - 1, rects>> \in G
      PROVE  <<y, WithRow(tiles, rects, y - 1)>> \in G
  <2> DEFINE z == y - 1
  <2>1. z \in 0 .. Rows - 1 /\ z + 1 = y /\ y \in 0 .. Rows
    BY <1>1
  <2>2. Tiling(rects, Covered(z))
    BY <1>3
  <2> HIDE DEF z
  <2>3. Tiling(WithRow(tiles, rects, z), Covered(y))
    BY <2>1, <2>2, RowTiles
  <2>4. WithRow(tiles, rects, z) \in RS
    BY <2>3 DEF Tiling
  <2> HIDE DEF Covered, RS
  <2>5. <<y, WithRow(tiles, rects, z)>> \in G
    BY <2>1, <2>3, <2>4
  <2> QED
    BY <2>5 DEF z
<1>4. <<Rows, Changed(tiles)>> \in G
  <2> HIDE DEF G
  <2> QED
    BY <1>2, <1>3, RowsScan
<1>5. Tiling(Changed(tiles), Covered(Rows))
  <2> HIDE DEF Covered, RS
  <2> QED
    BY <1>4
<1>6. Covered(Rows) = CellsOf(tiles)
  BY <1>1, ReachIs
<1> QED
  BY <1>5, <1>6

\* A rectangle of a tiling of cells of the image is no larger than the image.
LEMMA WithinImage ==
    ASSUME setup \in Setups, image \in Image, NEW T, NEW r \in Rectangle, Cells(r) \subseteq CellsOf(T)
    PROVE  r.x + r.w <= image[1] /\ r.y + r.h <= image[2]
<1> DEFINE p == r.x + r.w - 1
           q == r.y + r.h - 1
<1>1. /\ r.x \in Nat /\ r.y \in Nat /\ r.w \in Nat \ {0} /\ r.h \in Nat \ {0}
      /\ image[1] \in Nat /\ image[2] \in Nat
  BY DEF Rectangle, Image
<1>2. /\ p \in Int /\ q \in Int /\ r.x <= p /\ p < r.x + r.w /\ r.y <= q /\ q < r.y + r.h
  <2>1. \A a \in Nat, b \in Nat \ {0} : a + b - 1 \in Int /\ a <= a + b - 1 /\ a + b - 1 < a + b
    OBVIOUS
  <2> QED
    BY <1>1, <2>1
<1> HIDE DEF p, q
<1>3. <<p, q>> \in CellsOf(T)
  BY <1>2, CellIn
<1>4. p \in 0 .. image[1] - 1 /\ q \in 0 .. image[2] - 1
  BY <1>2, <1>3, CellOf
<1> QED
  BY <1>1, <1>4 DEF p, q

\* The bands cover what the rectangles do; they fit the budget when one of their rows does;
\* rectangles within the budget stay as they are (encodeRects).
LEMMA BandedAllTiles ==
    ASSUME setup \in Setups, NEW rects, NEW S, Tiling(rects, S)
    PROVE  /\ Tiling(BandedAll(rects), S) /\ Len(BandedAll(rects)) >= Len(rects)
           /\ (\A i \in 1 .. Len(rects) : rects[i].w * setup.cell <= Budget)
              => \A k \in 1 .. Len(BandedAll(rects)) : RawLength(BandedAll(rects)[k]) <= Budget
           /\ (\A i \in 1 .. Len(rects) : RawLength(rects[i]) <= Budget) => BandedAll(rects) = rects
<1> DEFINE n == Len(rects)
           RS == Seq(Rectangle)
           Covered(i) == UNION {Cells(rects[k]) : k \in 1 .. i}
           RowFits == \A i \in 1 .. n : rects[i].w * setup.cell <= Budget
           AllFits == \A i \in 1 .. n : RawLength(rects[i]) <= Budget
           Good(i, bands) ==
               /\ Tiling(bands, Covered(i)) /\ Len(bands) >= i
               /\ RowFits => \A k \in 1 .. Len(bands) : RawLength(bands[k]) <= Budget
               /\ AllFits => bands = SubSeq(rects, 1, i)
           G == {g \in (0 .. n) \X RS : Good(g[1], g[2])}
<1>1. rects \in RS
  BY DEF Tiling
<1>2. n \in Nat /\ (\A i \in 1 .. n : rects[i] \in Rectangle) /\ SubSeq(rects, 1, n) = rects /\ SubSeq(rects, 1, 0) = <<>>
  BY <1>1
<1>3. /\ \A c \in S : \E i \in 1 .. n : c \in Cells(rects[i])
      /\ \A i, j \in 1 .. n : i # j => Cells(rects[i]) \cap Cells(rects[j]) = {}
      /\ \A i \in 1 .. n : Cells(rects[i]) \subseteq S
  BY DEF Tiling
<1>4. \A i \in 1 .. n : SubSeq(rects, 1, i - 1) \o <<rects[i]>> = SubSeq(rects, 1, i)
  BY <1>1
<1>5. <<0, <<>>>> \in G
  <2>1. Covered(0) = {}
    OBVIOUS
  <2>2. Good(0, <<>>)
    <3>1. Tiling(<<>>, Covered(0))
      BY <2>1, TilingNothing
    <3>2. Len(<<>>) = 0 /\ 1 .. 0 = {}
      OBVIOUS
    <3> QED
      BY <1>2, <3>1, <3>2
  <2>3. <<>> \in RS /\ 0 \in 0 .. n
    BY <1>2
  <2> HIDE DEF Good, RS
  <2> QED
    BY <2>2, <2>3
<1>6. ASSUME NEW i \in 1 .. n, NEW bands \in RS, <<i - 1, bands>> \in G
      PROVE  <<i, bands \o Banded(rects[i])>> \in G
  <2> DEFINE b == Banded(rects[i])
             r == rects[i]
  <2>1. Good(i - 1, bands) /\ i \in 0 .. n /\ r \in Rectangle
    <3> HIDE DEF Good, RS
    <3> QED
      BY <1>2, <1>6
  <2>2. Tiling(b, Cells(r)) /\ Len(b) >= 1 /\ b \in RS /\ Len(b) \in Nat
    BY <2>1, BandedTiles, BandIs
  <2>3. Covered(i) = Covered(i - 1) \cup Cells(r) /\ Covered(i - 1) \cap Cells(r) = {}
    <3>1. \A k : k \in 1 .. i <=> k \in 1 .. i - 1 \/ k = i
      BY <1>2
    <3>2. \A k \in 1 .. i - 1 : k \in 1 .. n /\ k # i
      BY <1>2
    <3>3. \A m, c : c \in Covered(m) <=> \E k \in 1 .. m : c \in Cells(rects[k])
      OBVIOUS
    <3> HIDE DEF Covered
    <3>4. Covered(i) = Covered(i - 1) \cup Cells(r)
      BY <3>1, <3>3
    <3>5. \A k \in 1 .. i - 1 : Cells(rects[k]) \cap Cells(r) = {}
      BY <1>3, <3>2
    <3>6. Covered(i - 1) \cap Cells(r) = {}
      <4> HIDE DEF r
      <4> QED
        BY <3>3, <3>5
    <3> QED
      BY <3>4, <3>6
  <2>4. Tiling(bands \o b, Covered(i))
    <3> HIDE DEF Covered, b, r
    <3> QED
      BY <2>1, <2>2, <2>3, TilingBoth
  <2>5. /\ bands \o b \in RS /\ Len(bands \o b) = Len(bands) + Len(b) /\ Len(bands) \in Nat
        /\ \A k \in 1 .. Len(bands) + Len(b) :
              (bands \o b)[k] = IF k <= Len(bands) THEN bands[k] ELSE b[k - Len(bands)]
    <3> HIDE DEF b
    <3> QED
      BY <2>2
  <2>6. Len(bands \o b) >= i
    <3>1. Len(bands) >= i - 1
      BY <2>1
    <3> HIDE DEF b
    <3> QED
      BY <2>2, <2>5, <3>1
  <2>7. ASSUME RowFits PROVE \A k \in 1 .. Len(bands \o b) : RawLength((bands \o b)[k]) <= Budget
    <3>1. \A k \in 1 .. Len(bands) : RawLength(bands[k]) <= Budget
      BY <2>1, <2>7
    <3>2. r.w * setup.cell <= Budget
      BY <2>7
    <3>3. \A k \in 1 .. Len(b) : RawLength(b[k]) <= Budget
      <4> HIDE DEF r
      <4> QED
        BY <2>1, <3>2, BandsFit DEF r
    <3> HIDE DEF b
    <3>4. \A k \in 1 .. Len(bands \o b) : k \in 1 .. Len(bands) \/ (~(k <= Len(bands)) /\ k - Len(bands) \in 1 .. Len(b))
      BY <2>2, <2>5
    <3> QED
      BY <2>5, <3>1, <3>3, <3>4
  <2>8. ASSUME AllFits PROVE bands \o b = SubSeq(rects, 1, i)
    <3>1. bands = SubSeq(rects, 1, i - 1)
      BY <2>1, <2>8
    <3>2. RawLength(r) <= Budget
      BY <2>8
    <3>3. b = <<r>>
      <4> HIDE DEF r
      <4> QED
        BY <2>1, <3>2, OneBand DEF r
    <3> QED
      BY <1>4, <3>1, <3>3
  <2>9. Good(i, bands \o b)
    BY <2>4, <2>6, <2>7, <2>8
  <2> HIDE DEF Good, RS, b
  <2>10. <<i, bands \o b>> \in G
    BY <2>1, <2>5, <2>9
  <2> QED
    BY <2>10 DEF b
<1>7. <<n, BandedAll(rects)>> \in G
  <2> HIDE DEF G
  <2> QED
    BY <1>1, <1>5, <1>6, BandsScan
<1>8. Good(n, BandedAll(rects))
  <2> HIDE DEF Good, RS
  <2> QED
    BY <1>7
<1>9. Covered(n) = S
  BY <1>3
<1> QED
  BY <1>2, <1>8, <1>9

------------------------------------------------------------------------------
\* How many rectangles, and of what area in all

AreaOf(g, rects) ==
    /\ g \in [0 .. Len(rects) -> Nat] /\ g[0] = 0
    /\ \A i \in 1 .. Len(rects) : g[i] = g[i - 1] + rects[i].w * rects[i].h

\* The area of no rectangle.
LEMMA AreaNone == AreaOf([i \in 0 .. 0 |-> 0], <<>>)
BY DEF AreaOf

\* Merging adds the area of the run, a rectangle at most, and none when the run continues the last.
LEMMA MergedArea ==
    ASSUME NEW rects \in Seq(Rectangle), NEW g, AreaOf(g, rects), NEW r \in Rectangle
    PROVE  LET n == Len(rects)
               m == Merged(rects, r)
           IN  /\ m \in Seq(Rectangle) /\ Len(m) \in Nat \ {0}
               /\ m[Len(m)].x = r.x /\ m[Len(m)].w = r.w /\ m[Len(m)].y + m[Len(m)].h = r.y + r.h
               /\ Len(m) <= n + 1
               /\ n >= 1 /\ Continues(rects[n], r) => Len(m) <= n
               /\ \E k : AreaOf(k, m) /\ k[Len(m)] = g[n] + r.w * r.h
<1> DEFINE n == Len(rects)
           m == Merged(rects, r)
           area(q) == q.w * q.h
<1>1. n \in Nat /\ (\A i \in 1 .. n : rects[i] \in Rectangle) /\ (rects # <<>> <=> n >= 1)
  OBVIOUS
<1>2. g \in [0 .. n -> Nat] /\ g[0] = 0 /\ \A i \in 1 .. n : g[i] = g[i - 1] + area(rects[i])
  BY DEF AreaOf
<1>3. \A q \in Rectangle : area(q) \in Nat
  BY DEF Rectangle
<1>4. CASE n >= 1 /\ Continues(rects[n], r)
  <2> DEFINE last == rects[n]
             grown == [last EXCEPT !.h = @ + r.h]
             k == [g EXCEPT ![n] = @ + area(r)]
  <2>1. n \in 1 .. n /\ last \in Rectangle
    BY <1>1, <1>4
  <2>2. /\ grown \in Rectangle /\ grown.x = r.x /\ grown.w = r.w /\ grown.y + grown.h = r.y + r.h
        /\ grown.h = last.h + r.h
    <3> HIDE DEF last
    <3> QED
      BY <1>4, <2>1, GrownIs DEF last
  <2>3. m = [rects EXCEPT ![n] = grown]
    BY <1>1, <1>4 DEF Merged
  <2> HIDE DEF grown, m
  <2>4. /\ m \in Seq(Rectangle) /\ Len(m) = n /\ m[n] = grown
        /\ \A i \in 1 .. n : i # n => m[i] = rects[i]
    BY <1>1, <2>1, <2>2, <2>3
  <2>5. area(grown) = area(last) + area(r)
    <3>1. last.w = r.w /\ r.w \in Nat /\ r.h \in Nat /\ last.h \in Nat
      BY <1>4, <2>1 DEF Rectangle, Continues
    <3> DEFINE w == r.w
               a == last.h
               b == r.h
    <3>2. area(grown) = w * (a + b) /\ area(last) = w * a /\ area(r) = w * b /\ w \in Nat /\ a \in Nat /\ b \in Nat
      BY <2>2, <3>1
    <3> HIDE DEF w, a, b, area
    <3>3. w * (a + b) = w * a + w * b
      BY <3>2
    <3> QED
      BY <3>2, <3>3
  <2>6. area(last) \in Nat /\ area(r) \in Nat /\ area(grown) \in Nat
    BY <1>3, <2>1, <2>2
  <2>7. k[n] = g[n] + area(r) /\ k \in [0 .. n -> Nat] /\ \A i \in 0 .. n : i # n => k[i] = g[i]
    <3> HIDE DEF area
    <3> QED
      BY SMTT(30), <1>1, <1>2, <2>6
  <2> HIDE DEF k
  <2>8. \A i \in 1 .. n : k[i] = k[i - 1] + area(m[i])
    <3> HIDE DEF area
    <3> SUFFICES ASSUME NEW i \in 1 .. n PROVE k[i] = k[i - 1] + area(m[i])
      OBVIOUS
    <3>1. i - 1 \in 0 .. n /\ i - 1 # n /\ i \in 0 .. n
      BY <1>1
    <3>2. k[i - 1] = g[i - 1] /\ g[i - 1] \in Nat
      BY <1>2, <2>7, <3>1
    <3>3. CASE i = n
      <4>1. k[n] = g[n - 1] + area(last) + area(r)
        BY <1>2, <2>1, <2>7
      <4>2. m[n] = grown
        BY <2>4
      <4> DEFINE p == g[n - 1]
                 s == area(last)
                 t == area(r)
      <4>3. p \in Nat /\ s \in Nat /\ t \in Nat /\ k[n] = p + s + t /\ area(m[n]) = s + t /\ k[n - 1] = p
        BY <2>5, <2>6, <3>2, <3>3, <4>1, <4>2
      <4> HIDE DEF p, s, t
      <4>4. k[n] = k[n - 1] + area(m[n])
        BY <4>3
      <4> QED
        BY <3>3, <4>4
    <3>4. CASE i # n
      BY <1>2, <2>4, <2>7, <3>1, <3>2, <3>4
    <3> QED
      BY <3>3, <3>4
  <2>9. k[0] = 0
    BY <1>1, <1>2, <1>4, <2>7
  <2>10. AreaOf(k, m)
    BY <2>4, <2>7, <2>8, <2>9 DEF AreaOf
  <2>11. Len(m) \in Nat \ {0} /\ Len(m) <= n + 1 /\ Len(m) <= n
    BY <1>1, <1>4, <2>4
  <2>12. k[Len(m)] = g[n] + area(r)
    BY <2>4, <2>7
  <2>13. m[Len(m)].x = r.x /\ m[Len(m)].w = r.w /\ m[Len(m)].y + m[Len(m)].h = r.y + r.h
    BY <2>2, <2>4
  <2> HIDE DEF n
  <2> QED
    BY <2>4, <2>10, <2>11, <2>12, <2>13 DEF m, n
<1>5. CASE ~(n >= 1 /\ Continues(rects[n], r))
  <2> DEFINE k == [i \in 0 .. n + 1 |-> IF i = n + 1 THEN g[n] + area(r) ELSE g[i]]
  <2>1. m = Append(rects, r)
    BY <1>1, <1>5 DEF Merged
  <2> HIDE DEF m
  <2>2. m \in Seq(Rectangle) /\ Len(m) = n + 1 /\ m[n + 1] = r /\ \A i \in 1 .. n : m[i] = rects[i]
    BY <2>1
  <2>3. area(r) \in Nat
    BY <1>3
  <2> HIDE DEF area
  <2>4. /\ k \in [0 .. n + 1 -> Nat] /\ k[n + 1] = g[n] + area(r)
        /\ \A i \in 0 .. n : k[i] = g[i]
    <3> DEFINE v == g[n] + area(r)
    <3>1. v \in Nat
      BY <1>1, <1>2, <2>3
    <3>2. n + 1 \in 0 .. n + 1 /\ \A i \in 0 .. n : i \in 0 .. n + 1 /\ i # n + 1
      BY <1>1
    <3>3. \A i \in 0 .. n + 1 : i # n + 1 => g[i] \in Nat
      <4>1. \A i \in 0 .. n + 1 : i # n + 1 => i \in 0 .. n
        BY <1>1
      <4> QED
        BY <1>2, <4>1
    <3>4. k = [i \in 0 .. n + 1 |-> IF i = n + 1 THEN v ELSE g[i]]
      OBVIOUS
    <3> HIDE DEF v, k, n
    <3>5. k \in [0 .. n + 1 -> Nat]
      BY <3>1, <3>3, <3>4
    <3>6. k[n + 1] = v /\ \A i \in 0 .. n : k[i] = g[i]
      BY <3>2, <3>4
    <3> QED
      BY <3>5, <3>6 DEF v
  <2> HIDE DEF k
  <2>5. \A i \in 1 .. n + 1 : k[i] = k[i - 1] + area(m[i])
    <3> SUFFICES ASSUME NEW i \in 1 .. n + 1 PROVE k[i] = k[i - 1] + area(m[i])
      OBVIOUS
    <3>1. CASE i = n + 1
      <4>1. (n + 1) - 1 = n /\ n \in 0 .. n
        BY <1>1
      <4> QED
        BY <2>2, <2>4, <3>1, <4>1
    <3>2. CASE i # n + 1
      <4>1. i \in 1 .. n /\ i \in 0 .. n /\ i - 1 \in 0 .. n
        BY <1>1, <3>2
      <4> QED
        BY <1>2, <2>2, <2>4, <4>1
    <3> QED
      BY <3>1, <3>2
  <2>6. k[0] = 0
    BY <1>1, <1>2, <2>4
  <2>7. AreaOf(k, m)
    BY <2>2, <2>4, <2>5, <2>6 DEF AreaOf, area
  <2>8. Len(m) \in Nat \ {0} /\ Len(m) <= n + 1
    BY <1>1, <2>2
  <2>9. k[Len(m)] = g[n] + area(r)
    BY <2>2, <2>4
  <2>10. m[Len(m)] = r
    BY <2>2
  <2> QED
    BY <1>5, <2>2, <2>7, <2>8, <2>9, <2>10 DEF m, area
<1> QED
  BY <1>4, <1>5

------------------------------------------------------------------------------
\* A row adds a rectangle, and one more at most for each tile that leaves a gap

\* After the tiles of row y left of column x: the clean ones and
\* their columns of cells, the end of the run so far.
RowCount(tiles, y, above, g0, x, rects, m, c, e, g) ==
    LET W == image[1]
        h == Smaller(setup.tile, image[2] - y * setup.tile)
    IN  /\ m \in Nat /\ e \in x .. Columns /\ AreaOf(g, rects)
        /\ IF <<x - 1, y>> \in tiles
           THEN <<e, y>> \notin tiles /\ \A v \in x .. e - 1 : <<v, y>> \in tiles
           ELSE e = x
        /\ Len(rects) <= Len(above) + m + (IF <<x - 1, y>> \in tiles THEN 1 ELSE 0)
        /\ g[Len(rects)] + h * c <= g0[Len(above)] + h * Smaller(e * setup.tile, W)
        \* Only the tile of the last column may be narrow.
        /\ c \in Nat /\ c >= m /\ c + setup.tile >= setup.tile * m + 1
        /\ x < Columns => c >= setup.tile * m
        /\ x = 0 => rects = above
        /\ m = 0 => \A v \in 0 .. x - 1 : <<v, y>> \in tiles
        /\ m = 0 /\ x > 0 => rects = Merged(above, RunRect(tiles, <<0, y>>))

\* The count holds before a row.
LEMMA RowCountFirst ==
    ASSUME setup \in Setups, image \in Image, NEW tiles \in SUBSET Tiles, NEW y \in 0 .. Rows - 1,
           NEW above \in Seq(Rectangle), NEW g0, AreaOf(g0, above)
    PROVE  RowCount(tiles, y, above, g0, 0, above, 0, 0, 0, g0)
<1> DEFINE W == image[1]
           h == Smaller(setup.tile, image[2] - y * setup.tile)
<1>1. Columns \in Nat /\ setup.tile \in Nat \ {0} /\ W \in Nat \ {0}
  BY GridIs, SetupIs DEF Image
<1>2. <<0 - 1, y>> \notin tiles
  BY <1>1 DEF Tiles
<1>3. Smaller(0 * setup.tile, W) = 0
  BY <1>1 DEF Smaller
<1>4. h \in Int
  <2>1. y * setup.tile \in Nat /\ image[2] \in Nat
    BY SMTT(30), <1>1, GridIs DEF Image
  <2> QED
    BY <1>1, <2>1 DEF Smaller
<1> HIDE DEF h
<1>5. Len(above) \in Nat /\ g0[Len(above)] \in Nat /\ h * 0 = 0
  BY <1>4 DEF AreaOf
<1>6. g0[Len(above)] + h * 0 <= g0[Len(above)] + h * Smaller(0 * setup.tile, W)
  BY <1>3, <1>4, <1>5
<1>7. Len(above) <= Len(above) + 0 + 0
  BY <1>5
<1>8. 0 + setup.tile >= setup.tile * 0 + 1 /\ 0 >= setup.tile * 0
  BY <1>1
<1> QED
  BY <1>1, <1>2, <1>6, <1>7, <1>8 DEF RowCount, h

\* The count holds after each tile of a row: a run begins, goes on, or leaves a gap.
LEMMA RowCountNext ==
    ASSUME setup \in Setups, image \in Image, NEW tiles \in SUBSET Tiles, NEW y \in 0 .. Rows - 1,
           NEW above \in Seq(Rectangle), NEW g0, AreaOf(g0, above), NEW x \in 0 .. Columns - 1,
           NEW rects \in Seq(Rectangle), NEW m, NEW c, NEW e, NEW g,
           RowCount(tiles, y, above, g0, x, rects, m, c, e, g)
    PROVE  \E n, d, f, k : RowCount(tiles, y, above, g0, x + 1, RowStep(tiles, y, x + 1, rects), n, d, f, k)
<1> DEFINE W == image[1]
           tile == setup.tile
           h == Smaller(tile, image[2] - y * tile)
           In(v) == <<v, y>> \in tiles
           L0 == Len(above)
           A0 == g0[L0]
           L == Len(rects)
           A == g[L]
           next == RowStep(tiles, y, x + 1, rects)
           at == x * tile
<1>1. /\ Columns \in Nat \ {0} /\ tile \in Nat \ {0} /\ W \in Nat \ {0} /\ x \in Nat
      /\ W <= Columns * tile /\ Columns * tile - tile < W
  BY SMTT(30), GridIs, SetupIs DEF Image
<1>2. at \in Nat /\ at < W /\ (x + 1) * tile = at + tile
  <2> HIDE DEF W, tile
  <2>1. x * tile \in Nat /\ (x + 1) * tile = x * tile + tile
    BY <1>1
  <2>2. x * tile < W
    BY <1>1, BeginsInside
  <2> QED
    BY <2>1, <2>2
<1>3. h \in Nat \ {0}
  <2> DEFINE H == image[2]
             b == y * tile
  <2>1. b \in Nat /\ b < H /\ H \in Nat
    <3>1. Rows \in Nat \ {0} /\ H \in Nat /\ Rows * tile - tile < H
      BY GridIs DEF Image
    <3> HIDE DEF tile, H
    <3> QED
      BY <1>1, <3>1, BeginsInside
  <2>2. h = Smaller(tile, H - b)
    OBVIOUS
  <2> HIDE DEF b, H, tile, h
  <2>3. H - b \in Nat \ {0} /\ tile \in Nat \ {0}
    BY <1>1, <2>1
  <2> QED
    BY <2>2, <2>3 DEF Smaller
<1>x. x < Columns
  BY <1>1
<1>4. /\ m \in Nat /\ e \in x .. Columns /\ AreaOf(g, rects)
      /\ In(x - 1) => ~In(e) /\ \A v \in x .. e - 1 : In(v)
      /\ ~In(x - 1) => e = x
      /\ L <= L0 + m + (IF In(x - 1) THEN 1 ELSE 0)
      /\ A + h * c <= A0 + h * Smaller(e * tile, W)
      /\ c \in Nat /\ c >= m /\ c + tile >= tile * m + 1 /\ c >= tile * m
      /\ x = 0 => rects = above
      /\ m = 0 => \A v \in 0 .. x - 1 : In(v)
      /\ m = 0 /\ x > 0 => rects = Merged(above, RunRect(tiles, <<0, y>>))
  BY <1>x DEF RowCount
<1>5. L0 \in Nat /\ A0 \in Nat /\ L \in Nat /\ A \in Nat
  <2>1. L0 \in Nat /\ L \in Nat
    OBVIOUS
  <2>2. g0 \in [0 .. L0 -> Nat] /\ g \in [0 .. L -> Nat]
    BY <1>4 DEF AreaOf
  <2> HIDE DEF L0, L
  <2>3. L0 \in 0 .. L0 /\ L \in 0 .. L
    BY <2>1
  <2> QED
    BY <2>1, <2>2, <2>3
<1>6. (x + 1) - 1 = x /\ x + 1 \in Nat /\ x + 1 # 0 /\ x + 1 > 0 /\ x + 1 \in x .. Columns
  BY <1>1
<1> HIDE DEF W, h, tile, L0, A0, L, A, at
<1>7. next = IF In(x) /\ ~In(x - 1) THEN Merged(rects, RunRect(tiles, <<x, y>>)) ELSE rects
  BY <1>6 DEF RowStep, BeginsRun
<1> HIDE DEF next
\* What has to be shown, with the names above.
<1>8. ASSUME NEW n, NEW d, NEW f, NEW k,
             n \in Nat, f \in x + 1 .. Columns, AreaOf(k, next),
             In(x) => ~In(f) /\ \A v \in x + 1 .. f - 1 : In(v),
             ~In(x) => f = x + 1,
             Len(next) <= L0 + n + (IF In(x) THEN 1 ELSE 0),
             k[Len(next)] + h * d <= A0 + h * Smaller(f * tile, W),
             d \in Nat, d >= n, d + tile >= tile * n + 1, x + 1 < Columns => d >= tile * n,
             n = 0 => \A v \in 0 .. x : In(v),
             n = 0 => next = Merged(above, RunRect(tiles, <<0, y>>))
      PROVE  RowCount(tiles, y, above, g0, x + 1, next, n, d, f, k)
  BY <1>6, <1>8 DEF RowCount, L0, A0, h, tile, W
<1>9. SUFFICES \E n, d, f, k : RowCount(tiles, y, above, g0, x + 1, next, n, d, f, k)
  BY DEF next
\* A run begins.
<1>10. CASE In(x) /\ ~In(x - 1)
  <2> DEFINE t == <<x, y>>
             r == RunRect(tiles, t)
  <2>1. t \in tiles /\ t[1] = x /\ t[2] = y
    BY <1>10
  <2>2. PICK f : IsRun(tiles, t, f)
    <3> HIDE DEF t
    <3> QED
      BY <2>1, RunIs
  <2>3. /\ f \in x + 1 .. Columns /\ ~In(f) /\ \A v \in x .. f - 1 : In(v)
        /\ r \in Rectangle /\ r.w = Smaller(f * tile, W) - at /\ r.h = h
    BY <2>1, <2>2 DEF IsRun, W, h, at, tile
  <2> DEFINE E == Smaller(f * tile, W)
  <2>4. E \in Nat
    <3>1. f \in Nat
      BY <1>1, <2>3
    <3>2. f * tile \in Nat
      BY <1>1, <3>1
    <3> QED
      BY <1>1, <3>2 DEF Smaller
  <2>5. next = Merged(rects, r)
    BY <1>7, <1>10
  <2> HIDE DEF r
  <2>6. /\ Len(next) \in Nat /\ Len(next) <= L + 1
        /\ \E k : AreaOf(k, next) /\ k[Len(next)] = A + r.w * r.h
    <3> DEFINE M == Merged(rects, r)
    <3>1. AreaOf(g, rects) /\ r \in Rectangle
      BY <1>4, <2>3
    <3>2. /\ Len(M) \in Nat \ {0} /\ Len(M) <= Len(rects) + 1
          /\ \E k : AreaOf(k, M) /\ k[Len(M)] = g[Len(rects)] + r.w * r.h
      BY <3>1, MergedArea
    <3> QED
      BY <2>5, <3>2 DEF L, A
  <2>7. PICK k : AreaOf(k, next) /\ k[Len(next)] = A + (E - at) * h
    BY <2>3, <2>6
  <2>8. e = x /\ Smaller(e * tile, W) = at
    BY <1>1, <1>2, <1>4, <1>10 DEF at, Smaller
  <2>9. k[Len(next)] + h * c <= A0 + h * E
    <3>1. A + h * c <= A0 + h * at
      BY <1>4, <2>8
    <3>2. (E - at) * h = h * E - h * at
      BY <1>2, <1>3, <2>4
    <3> DEFINE P == h * c
               Q == h * at
               R == h * E
    <3>3. P \in Nat /\ Q \in Nat /\ R \in Nat
      BY <1>2, <1>3, <1>4, <2>4
    <3>4. A + P <= A0 + Q /\ k[Len(next)] = A + (R - Q)
      BY <2>7, <3>1, <3>2
    <3> HIDE DEF P, Q, R
    <3>5. k[Len(next)] + P <= A0 + R
      BY <1>5, <3>3, <3>4
    <3> QED
      BY <3>5 DEF P, R
  <2>10. Len(next) <= L0 + m + 1
    BY <1>4, <1>5, <1>10, <2>6
  <2>11. ASSUME m = 0 PROVE (\A v \in 0 .. x : In(v)) /\ next = Merged(above, RunRect(tiles, <<0, y>>))
    <3>1. x = 0
      <4>1. x # 0 => x - 1 \in 0 .. x - 1
        BY <1>1
      <4> QED
        BY <1>4, <1>10, <2>11, <4>1
    <3>2. \A v \in 0 .. x : v = x
      BY <3>1
    <3> QED
      BY <1>4, <1>10, <2>5, <3>1, <3>2 DEF r
  <2>12. RowCount(tiles, y, above, g0, x + 1, next, m, c, f, k)
    <3>1. \A v \in x + 1 .. f - 1 : v \in x .. f - 1
      BY <1>1
    <3> HIDE DEF In
    <3> QED
      BY <1>4, <1>8, <1>10, <2>3, <2>7, <2>9, <2>10, <2>11, <3>1
  <2> QED
    BY <2>12
\* A run goes on.
<1>11. CASE In(x) /\ In(x - 1)
  <2>1. next = rects
    BY <1>7, <1>11
  <2>2. e # x
    BY <1>4, <1>11
  <2>3. e \in x + 1 .. Columns /\ \A v \in x + 1 .. e - 1 : v \in x .. e - 1
    BY <1>1, <1>4, <2>2
  <2>4. ASSUME m = 0 PROVE (\A v \in 0 .. x : In(v)) /\ next = Merged(above, RunRect(tiles, <<0, y>>))
    <3>1. \A v \in 0 .. x : v = x \/ v \in 0 .. x - 1
      BY <1>1
    <3>2. x > 0
      <4>1. x # 0
        <5>1. <<0 - 1, y>> \notin Tiles
          BY <1>1 DEF Tiles
        <5> QED
          BY <1>11, <5>1
      <4> QED
        BY <1>1, <4>1
    <3> QED
      BY <1>4, <1>11, <2>1, <2>4, <3>1, <3>2
  <2>5. Len(next) <= L0 + m + 1 /\ g[Len(next)] + h * c <= A0 + h * Smaller(e * tile, W)
    BY <1>4, <1>11, <2>1 DEF L, A
  <2>6. RowCount(tiles, y, above, g0, x + 1, next, m, c, e, g)
    <3> HIDE DEF In
    <3> QED
      BY <1>4, <1>8, <1>11, <2>1, <2>3, <2>4, <2>5
  <2> QED
    BY <2>6
\* A gap.
<1>12. CASE ~In(x)
  <2>1. next = rects
    BY <1>7, <1>12
  <2>2. e = x
    <3>1. e # x /\ e \in x .. Columns => x \in x .. e - 1
      BY <1>1
    <3> QED
      BY <1>4, <1>12, <3>1
  <2>3. Smaller(e * tile, W) = at
    BY <1>1, <1>2, <2>2 DEF at, Smaller
  <2> DEFINE E == Smaller((x + 1) * tile, W)
             width == E - at
  <2>4. E \in Nat /\ width \in Nat \ {0} /\ E = at + width /\ (x + 1 < Columns => width = tile) /\ width <= tile
    <3>1. x + 1 < Columns => at + tile < W
      <4>1. ASSUME x + 1 < Columns PROVE (x + 1) * tile < W
        <5>1. x + 1 \in 0 .. Columns - 1
          BY <1>1, <4>1
        <5> HIDE DEF E, width
        <5> QED
          BY <1>1, <5>1, BeginsInside
      <4> QED
        BY <1>2, <4>1
    <3> QED
      BY <1>1, <1>2, <3>1 DEF Smaller
  <2> HIDE DEF E, width
  <2>5. g[Len(next)] + h * (c + width) <= A0 + h * E
    <3>1. A + h * c <= A0 + h * at
      BY <1>4, <2>3
    <3>2. h * (c + width) = h * c + h * width /\ h * E = h * at + h * width
      BY <1>2, <1>3, <1>4, <2>4
    <3> DEFINE P == h * c
               Q == h * at
               R == h * width
    <3>3. P \in Nat /\ Q \in Nat /\ R \in Nat
      BY <1>2, <1>3, <1>4, <2>4
    <3>4. A + P <= A0 + Q
      BY <3>1
    <3> HIDE DEF P, Q, R
    <3>5. A + (P + R) <= A0 + (Q + R)
      BY <1>5, <3>3, <3>4
    <3> QED
      BY <2>1, <3>2, <3>5 DEF P, Q, R, A, L
  <2>6. Len(next) <= L0 + (m + 1) + 0 /\ m + 1 \in Nat /\ m + 1 # 0
    BY <1>4, <1>5, <2>1 DEF L
  <2>7. x + 1 \in x + 1 .. Columns
    BY <1>1
  <2>8. /\ c + width \in Nat /\ c + width >= m + 1
        /\ (c + width) + tile >= tile * (m + 1) + 1
        /\ x + 1 < Columns => c + width >= tile * (m + 1)
    <3> DEFINE T == tile * m
    <3>1. tile * (m + 1) = T + tile /\ T \in Nat
      BY <1>1, <1>4
    <3>2. c >= T
      BY <1>4
    <3> HIDE DEF T
    <3> QED
      BY <1>1, <1>4, <2>4, <3>1, <3>2
  <2>9. RowCount(tiles, y, above, g0, x + 1, next, m + 1, c + width, x + 1, g)
    <3> HIDE DEF In
    <3> QED
      BY <1>4, <1>8, <1>12, <2>1, <2>5, <2>6, <2>7, <2>8 DEF E
  <2> QED
    BY <2>9
<1> QED
  BY <1>10, <1>11, <1>12

------------------------------------------------------------------------------
RowHeight(y) == Smaller(setup.tile, image[2] - y * setup.tile)

\* The rows of tiles fill the image from top to bottom.
LEMMA RowHeightIs ==
    ASSUME setup \in Setups, image \in Image, NEW y \in 0 .. Rows - 1
    PROVE  /\ RowHeight(y) \in Nat \ {0} /\ y * setup.tile \in Nat
           /\ Smaller(y * setup.tile, image[2]) = y * setup.tile
           /\ Smaller((y + 1) * setup.tile, image[2]) = y * setup.tile + RowHeight(y)
<1> DEFINE tile == setup.tile
           H == image[2]
           b == y * tile
           h == RowHeight(y)
<1>1. Rows \in Nat \ {0} /\ H \in Nat \ {0} /\ Rows * tile - tile < H /\ tile \in Nat \ {0}
  BY GridIs, SetupIs DEF Image
<1>2. b \in Nat /\ b < H /\ (y + 1) * tile = b + tile
  <2> HIDE DEF tile, H
  <2> QED
    BY <1>1, BeginsInside
<1>3. h = Smaller(tile, H - b)
  BY DEF RowHeight
<1>4. tile \in Nat \ {0} /\ H \in Nat
  BY <1>1
<1> HIDE DEF b, H, tile, h
<1>5. h \in Nat \ {0} /\ Smaller(b, H) = b /\ Smaller(b + tile, H) = b + h
  BY <1>2, <1>3, <1>4 DEF Smaller
<1> QED
  BY <1>2, <1>5 DEF b, H, tile, h

\* After a row: a rectangle at most, and one more for each gap; without a gap, a run as wide as the image.
LEMMA RowArea ==
    ASSUME setup \in Setups, image \in Image, NEW tiles \in SUBSET Tiles, NEW y \in 0 .. Rows - 1,
           NEW above \in Seq(Rectangle), NEW g0, AreaOf(g0, above)
    PROVE  LET row == WithRow(tiles, above, y)
           IN  \E m, c, g :
                  /\ m \in Nat /\ c \in Nat /\ row \in Seq(Rectangle) /\ AreaOf(g, row)
                  /\ Len(row) <= Len(above) + m + 1
                  /\ g[Len(row)] + RowHeight(y) * c <= g0[Len(above)] + RowHeight(y) * image[1]
                  /\ c >= m /\ c + setup.tile >= setup.tile * m + 1
                  /\ m = 0 => \E r \in Rectangle : /\ row = Merged(above, r) /\ r.x = 0 /\ r.w = image[1]
                                                   /\ r.y = y * setup.tile /\ r.h = RowHeight(y)
<1> DEFINE RS == Seq(Rectangle)
           Good(x, rects) == \E m, c, e, g : RowCount(tiles, y, above, g0, x, rects, m, c, e, g)
           G == {p \in (0 .. Columns) \X RS : Good(p[1], p[2])}
           row == WithRow(tiles, above, y)
           n == Columns
           W == image[1]
<1>1. n \in Nat \ {0} /\ W \in Nat \ {0} /\ setup.tile \in Nat \ {0} /\ W <= n * setup.tile
  BY GridIs, SetupIs DEF Image
<1>2. <<0, above>> \in G
  <2>1. Good(0, above)
    BY RowCountFirst
  <2> HIDE DEF Good
  <2> QED
    BY <1>1, <2>1
<1>3. ASSUME NEW x \in 1 .. Columns, NEW rects \in RS, <<x - 1, rects>> \in G
      PROVE  <<x, RowStep(tiles, y, x, rects)>> \in G
  <2> DEFINE z == x - 1
             next == RowStep(tiles, y, x, rects)
  <2>1. z \in 0 .. Columns - 1 /\ z + 1 = x /\ x \in 0 .. Columns
    BY <1>1
  <2>2. Good(z, rects)
    <3> HIDE DEF Good, RS
    <3> QED
      BY <1>3
  <2> HIDE DEF z
  <2>3. PICK m, c, e, g : RowCount(tiles, y, above, g0, z, rects, m, c, e, g)
    BY <2>2
  <2>4. \E k, d, f, l : RowCount(tiles, y, above, g0, z + 1, RowStep(tiles, y, z + 1, rects), k, d, f, l)
    BY <2>1, <2>3, RowCountNext
  <2>5. Good(x, next)
    BY <2>1, <2>4
  <2>6. next \in RS
    <3>1. CASE BeginsRun(tiles, <<x - 1, y>>)
      <4> DEFINE t == <<x - 1, y>>
      <4>1. t \in tiles /\ next = Merged(rects, RunRect(tiles, t))
        BY <3>1 DEF BeginsRun, RowStep
      <4> HIDE DEF t, next
      <4>2. RunRect(tiles, t) \in Rectangle
        BY <4>1, RunIs DEF IsRun
      <4> QED
        BY <4>1, <4>2, MergedType
    <3>2. CASE ~BeginsRun(tiles, <<x - 1, y>>)
      BY <3>2 DEF RowStep
    <3> QED
      BY <3>1, <3>2
  <2> HIDE DEF Good, RS, next
  <2>7. <<x, next>> \in G
    BY <2>1, <2>5, <2>6
  <2> QED
    BY <2>7 DEF next
<1>4. row \in RS /\ <<n, row>> \in G
  <2> HIDE DEF G
  <2> QED
    BY <1>2, <1>3, RowScan
<1>5. PICK m, c, e, g : RowCount(tiles, y, above, g0, n, row, m, c, e, g)
  <2>1. Good(n, row)
    <3> HIDE DEF Good, RS, row
    <3> QED
      BY <1>4
  <2> QED
    BY <2>1
<1> DEFINE h == RowHeight(y)
<1> HIDE DEF row
<1>6. /\ m \in Nat /\ e \in n .. n /\ AreaOf(g, row)
      /\ Len(row) <= Len(above) + m + (IF <<n - 1, y>> \in tiles THEN 1 ELSE 0)
      /\ g[Len(row)] + h * c <= g0[Len(above)] + h * Smaller(e * setup.tile, W)
      /\ c \in Nat /\ c >= m /\ c + setup.tile >= setup.tile * m + 1
      /\ m = 0 => \A v \in 0 .. n - 1 : <<v, y>> \in tiles
      /\ m = 0 /\ n > 0 => row = Merged(above, RunRect(tiles, <<0, y>>))
  BY <1>5 DEF RowCount, RowHeight
<1>7. e = n /\ Smaller(n * setup.tile, W) = W
  BY <1>1, <1>6 DEF Smaller
<1>8. Len(row) <= Len(above) + m + 1
  <2>1. Len(above) \in Nat /\ Len(row) \in Nat
    BY <1>4
  <2> QED
    BY <1>6, <2>1
<1>9. ASSUME m = 0
      PROVE  \E r \in Rectangle : /\ row = Merged(above, r) /\ r.x = 0 /\ r.w = W
                                  /\ r.y = y * setup.tile /\ r.h = h
  <2> DEFINE t == <<0, y>>
  <2>1. t \in tiles /\ t[1] = 0 /\ t[2] = y
    BY <1>1, <1>6, <1>9
  <2>2. PICK f : IsRun(tiles, t, f)
    <3> HIDE DEF t
    <3> QED
      BY <2>1, RunIs
  <2> DEFINE r == RunRect(tiles, t)
  <2>3. /\ f \in 1 .. n /\ <<f, y>> \notin tiles /\ r \in Rectangle
        /\ r.x = 0 * setup.tile /\ r.y = y * setup.tile /\ r.h = h
        /\ r.w = Smaller(f * setup.tile, W) - 0 * setup.tile
    BY <2>1, <2>2 DEF IsRun, RowHeight
  <2>4. f = n
    BY <1>1, <1>6, <1>9, <2>3
  <2>5. row = Merged(above, r)
    BY <1>1, <1>6, <1>9
  <2> HIDE DEF r
  <2>6. r.x = 0 /\ r.w = W
    BY <1>1, <1>7, <2>3, <2>4
  <2> QED
    BY <2>3, <2>5, <2>6
<1>10. g[Len(row)] + h * c <= g0[Len(above)] + h * W
  BY <1>6, <1>7
<1> QED
  BY <1>4, <1>6, <1>8, <1>9, <1>10 DEF row

\* After y rows: M clean tiles of F cells, and three rectangles for each of them at most, but for a
\* last one as wide as the image.
RowsCount(y, rects, M, F, g) ==
    LET n == Len(rects)
        H == Smaller(y * setup.tile, image[2])
    IN  /\ M \in Nat /\ F \in Nat /\ AreaOf(g, rects)
        /\ g[n] + F <= image[1] * H
        \* Only the tile in the corner may be smaller than a row of cells.
        /\ F + setup.tile >= setup.tile * M + 1
        /\ y * setup.tile <= image[2] => F >= setup.tile * M
        /\ \/ n <= 3 * M
           \/ /\ n >= 1 /\ n <= 3 * M + 1
              /\ rects[n].x = 0 /\ rects[n].w = image[1] /\ rects[n].y + rects[n].h = H

\* The count of the rows holds after one more.
LEMMA RowsCountNext ==
    ASSUME setup \in Setups, image \in Image, NEW tiles \in SUBSET Tiles, NEW y \in 0 .. Rows - 1,
           NEW rects \in Seq(Rectangle), NEW M, NEW F, NEW g0, RowsCount(y, rects, M, F, g0)
    PROVE  \E N, E, g : RowsCount(y + 1, WithRow(tiles, rects, y), N, E, g)
<1> DEFINE W == image[1]
           tile == setup.tile
           h == RowHeight(y)
           b == y * tile
           n == Len(rects)
           A0 == g0[n]
           row == WithRow(tiles, rects, y)
<1>1. /\ h \in Nat \ {0} /\ b \in Nat /\ Smaller(b, image[2]) = b
      /\ Smaller((y + 1) * tile, image[2]) = b + h /\ tile \in Nat \ {0}
  BY RowHeightIs, SetupIs
<1>r. b <= image[2] /\ ((y + 1) * tile <= image[2] => h = tile)
  <2>1. image[2] \in Nat /\ (y + 1) * tile = b + tile
    <3>1. y \in Nat /\ image[2] \in Nat /\ tile \in Nat
      BY <1>1, GridIs DEF Image
    <3> HIDE DEF tile
    <3>2. (y + 1) * tile = y * tile + tile
      BY <3>1
    <3> QED
      BY <3>1, <3>2
  <2> DEFINE H == image[2]
  <2>2. H \in Nat /\ Smaller(b, H) = b /\ h = Smaller(tile, H - b) /\ (y + 1) * tile = b + tile
    BY <1>1, <2>1 DEF RowHeight
  <2> HIDE DEF H, b, tile, h
  <2>3. b <= H /\ (b + tile <= H => h = tile)
    BY <1>1, <2>2 DEF Smaller
  <2> QED
    BY <2>2, <2>3 DEF H
<1>2. /\ M \in Nat /\ F \in Nat /\ AreaOf(g0, rects) /\ A0 + F <= W * b /\ F >= tile * M
      /\ \/ n <= 3 * M
         \/ /\ n >= 1 /\ n <= 3 * M + 1
            /\ rects[n].x = 0 /\ rects[n].w = W /\ rects[n].y + rects[n].h = b
  BY <1>1, <1>r DEF RowsCount
<1>3. PICK m, c, g :
          /\ m \in Nat /\ c \in Nat /\ row \in Seq(Rectangle) /\ AreaOf(g, row)
          /\ Len(row) <= n + m + 1
          /\ g[Len(row)] + h * c <= A0 + h * W
          /\ c >= m /\ c + tile >= tile * m + 1
          /\ m = 0 => \E r \in Rectangle : /\ row = Merged(rects, r) /\ r.x = 0 /\ r.w = W
                                           /\ r.y = b /\ r.h = h
  BY <1>2, RowArea
<1>m. m \in Nat /\ c \in Nat
  BY <1>3
<1> DEFINE k == Len(row)
           A == g[k]
           clean == F + h * c
<1>4. n \in Nat /\ k \in Nat /\ A0 \in Nat /\ A \in Nat /\ W \in Nat
  <2>1. n \in Nat /\ k \in Nat /\ W \in Nat
    BY <1>3 DEF Image
  <2>2. g0 \in [0 .. n -> Nat] /\ g \in [0 .. k -> Nat]
    BY <1>2, <1>3 DEF AreaOf
  <2> HIDE DEF n, k
  <2>3. n \in 0 .. n /\ k \in 0 .. k
    BY <2>1
  <2> QED
    BY <2>1, <2>2, <2>3
<1>5. M + m \in Nat /\ clean \in Nat
  <2>1. h \in Nat /\ c \in Nat /\ F \in Nat /\ M \in Nat
    BY <1>1, <1>2, <1>m
  <2> HIDE DEF h
  <2> QED
    BY <1>m, <2>1
<1>6. A + clean <= W * (b + h)
  <2> DEFINE P == h * c
             Q == h * W
             R == W * b
  <2>1. P \in Nat /\ Q \in Nat /\ R \in Nat
    <3>1. h \in Nat /\ b \in Nat /\ c \in Nat
      BY <1>1, <1>m
    <3> HIDE DEF h, b, W
    <3> QED
      BY <1>4, <3>1
  <2>2. A + P <= A0 + Q /\ A0 + F <= R /\ W * (b + h) = R + Q
    <3>1. h \in Nat \ {0} /\ b \in Nat
      BY <1>1
    <3>2. A + P <= A0 + Q /\ A0 + F <= R
      BY <1>2, <1>3
    <3> HIDE DEF h, b, W
    <3>3. W * (b + h) = R + Q
      BY <1>4, <3>1
    <3> QED
      BY <3>2, <3>3
  <2> HIDE DEF P, Q, R, A, A0
  <2>3. A + (F + P) <= R + Q
    BY <1>2, <1>4, <2>1, <2>2
  <2> QED
    BY <2>2, <2>3 DEF P
<1>c. clean + tile >= tile * (M + m) + 1 /\ ((y + 1) * tile <= image[2] => clean >= tile * (M + m))
  <2> DEFINE P == h * c
             S == tile * M
             T == tile * m
  <2>1. \A p, q, d \in Nat : p <= q => d * p <= d * q
    OBVIOUS
  <2>2. h \in Nat \ {0} /\ tile \in Nat \ {0} /\ c \in Nat /\ m \in Nat /\ M \in Nat /\ m <= c
    BY <1>1, <1>2, <1>3
  <2>3. F >= S /\ c + tile >= T + 1 /\ ((y + 1) * tile <= image[2] => h = tile)
    BY <1>2, <1>3, <1>r
  <2> HIDE DEF h, tile
  <2>4. P \in Nat /\ S \in Nat /\ T \in Nat /\ tile * (M + m) = S + T
    BY <2>2
  <2>5. c <= P
    <3>1. \A p \in Nat \ {0}, q \in Nat : q <= p * q
      OBVIOUS
    <3> QED
      BY <2>2, <3>1
  <2>6. h = tile => T <= P
    BY <2>1, <2>2
  <2> HIDE DEF P, S, T
  <2>7. (F + P) + tile >= (S + T) + 1 /\ ((y + 1) * tile <= image[2] => F + P >= S + T)
    BY <1>2, <2>2, <2>3, <2>4, <2>5, <2>6
  <2> QED
    BY <2>4, <2>7 DEF P
<1> HIDE DEF clean
<1>7. CASE m = 0
  <2>1. PICK r \in Rectangle : /\ row = Merged(rects, r) /\ r.x = 0 /\ r.w = W /\ r.y = b /\ r.h = h
    BY <1>3, <1>7
  <2>2. /\ Len(row) \in Nat \ {0}
        /\ row[k].x = 0 /\ row[k].w = W /\ row[k].y + row[k].h = b + h
        /\ Len(row) <= n + 1
        /\ n >= 1 /\ Continues(rects[n], r) => Len(row) <= n
    <3> DEFINE q == Merged(rects, r)
    <3>1. /\ Len(q) \in Nat \ {0}
          /\ q[Len(q)].x = r.x /\ q[Len(q)].w = r.w /\ q[Len(q)].y + q[Len(q)].h = r.y + r.h
          /\ Len(q) <= n + 1
          /\ n >= 1 /\ Continues(rects[n], r) => Len(q) <= n
      BY <1>2, MergedArea
    <3> HIDE DEF row
    <3> QED
      BY <2>1, <3>1
  <2>3. k <= 3 * (M + m) + 1 /\ k >= 1
    <3>1. CASE n <= 3 * M
      <4> HIDE DEF n, k
      <4> QED
        BY <1>2, <1>4, <1>7, <1>m, <2>2, <3>1 DEF n, k
    <3>2. CASE ~(n <= 3 * M)
      <4>1. n >= 1 /\ Continues(rects[n], r) /\ n <= 3 * M + 1
        BY <1>2, <2>1, <3>2 DEF Continues
      <4>2. k <= n
        BY <2>2, <4>1
      <4>3. k >= 1
        BY <2>2
      <4> HIDE DEF n, k
      <4> QED
        BY <1>2, <1>4, <1>7, <4>1, <4>2, <4>3
    <3> QED
      BY <3>1, <3>2
  <2>4. RowsCount(y + 1, row, M + m, clean, g)
    <3> HIDE DEF row, h, b
    <3> QED
      BY <1>1, <1>3, <1>5, <1>6, <1>c, <2>2, <2>3 DEF RowsCount
  <2> QED
    BY <2>4
<1>8. CASE m # 0
  <2>1. k <= 3 * (M + m)
    <3>1. n <= 3 * M + 1 /\ k <= n + m + 1
      BY <1>2, <1>3, <1>4
    <3> HIDE DEF n, k
    <3> QED
      BY <1>2, <1>4, <1>8, <1>m, <3>1
  <2>2. RowsCount(y + 1, row, M + m, clean, g)
    <3> HIDE DEF row, h, b
    <3> QED
      BY <1>1, <1>3, <1>5, <1>6, <1>c, <2>1 DEF RowsCount
  <2> QED
    BY <2>2
<1> QED
  BY <1>7, <1>8

\* Every rectangle but one leaves a third of a tile unchanged.
LEMMA ChangedCount ==
    ASSUME setup \in Setups, image \in Image, NEW tiles \in SUBSET Tiles
    PROVE  \E M, F, g :
              /\ M \in Nat /\ F \in Nat /\ AreaOf(g, Changed(tiles)) /\ Len(Changed(tiles)) <= 3 * M + 1
              /\ g[Len(Changed(tiles))] + F <= image[1] * image[2]
              /\ F + setup.tile >= setup.tile * M + 1
<1> DEFINE RS == Seq(Rectangle)
           Good(y, rects) == \E M, F, g : RowsCount(y, rects, M, F, g)
           G == {p \in (0 .. Rows) \X RS : Good(p[1], p[2])}
           none == [i \in 0 .. 0 |-> 0]
<1>1. /\ Rows \in Nat \ {0} /\ image[1] \in Nat /\ image[2] \in Nat /\ image[2] <= Rows * setup.tile
      /\ setup.tile \in Nat \ {0}
  BY GridIs, SetupIs DEF Image
<1>2. <<0, <<>>>> \in G
  <2>1. Smaller(0 * setup.tile, image[2]) = 0 /\ none[0] = 0 /\ Len(<<>>) = 0
    BY <1>1 DEF Smaller
  <2>2. /\ none[0] + 0 <= image[1] * 0 /\ 0 <= 3 * 0
        /\ 0 + setup.tile >= setup.tile * 0 + 1 /\ 0 >= setup.tile * 0
    BY <1>1, <2>1
  <2>3. AreaOf(none, <<>>)
    BY AreaNone
  <2> HIDE DEF none
  <2>4. RowsCount(0, <<>>, 0, 0, none)
    BY <2>1, <2>2, <2>3 DEF RowsCount
  <2>5. Good(0, <<>>) /\ <<>> \in RS
    BY <2>4
  <2> HIDE DEF Good, RS
  <2> QED
    BY <1>1, <2>5
<1>3. ASSUME NEW y \in 1 .. Rows, NEW rects \in RS, <<y - 1, rects>> \in G
      PROVE  <<y, WithRow(tiles, rects, y - 1)>> \in G
  <2> DEFINE z == y - 1
  <2>1. z \in 0 .. Rows - 1 /\ z + 1 = y /\ y \in 0 .. Rows
    BY <1>1
  <2>2. Good(z, rects)
    <3> HIDE DEF Good, RS
    <3> QED
      BY <1>3
  <2> HIDE DEF z
  <2>3. PICK M, F, g : RowsCount(z, rects, M, F, g)
    BY <2>2
  <2>4. \E N, E, k : RowsCount(z + 1, WithRow(tiles, rects, z), N, E, k)
    BY <2>1, <2>3, RowsCountNext
  <2>5. Good(y, WithRow(tiles, rects, z))
    BY <2>1, <2>4
  <2>6. WithRow(tiles, rects, z) \in RS
    <3>1. AreaOf(g, rects)
      BY <2>3 DEF RowsCount
    <3> QED
      BY <2>1, <3>1, RowArea
  <2> HIDE DEF Good, RS
  <2>7. <<y, WithRow(tiles, rects, z)>> \in G
    BY <2>1, <2>5, <2>6
  <2> QED
    BY <2>7 DEF z
<1>4. <<Rows, Changed(tiles)>> \in G
  <2> HIDE DEF G
  <2> QED
    BY <1>2, <1>3, RowsScan
<1>5. PICK M, F, g : RowsCount(Rows, Changed(tiles), M, F, g)
  <2>1. Good(Rows, Changed(tiles))
    <3> HIDE DEF Good, RS
    <3> QED
      BY <1>4
  <2> QED
    BY <2>1
<1>6. Changed(tiles) \in Seq(Rectangle)
  BY <1>4
<1> DEFINE n == Len(Changed(tiles))
<1>7. Smaller(Rows * setup.tile, image[2]) = image[2]
  BY <1>1 DEF Smaller
<1>8. /\ M \in Nat /\ F \in Nat /\ AreaOf(g, Changed(tiles)) /\ g[n] + F <= image[1] * image[2]
      /\ (n <= 3 * M \/ n <= 3 * M + 1) /\ n \in Nat /\ F + setup.tile >= setup.tile * M + 1
  BY <1>5, <1>6, <1>7 DEF RowsCount
<1>9. n <= 3 * M + 1
  <2> HIDE DEF n
  <2> QED
    BY <1>8
<1> QED
  BY <1>8, <1>9

------------------------------------------------------------------------------
\* A delta of v1 within the budget is a message

\* Bodies weigh no more than metadata and the pixels they carry.
LEMMA WeightWithin ==
    ASSUME setup \in Setups, NEW rects \in Seq(Rectangle), NEW bodies \in Seq(Nat), Len(bodies) = Len(rects),
           \A i \in 1 .. Len(rects) : bodies[i] <= RawLength(rects[i]),
           NEW a, AreaOf(a, rects), NEW g, WeightOf(g, bodies)
    PROVE  g[Len(bodies)] <= RectHeader * Len(bodies) + setup.cell * a[Len(bodies)]
<1> DEFINE n == Len(bodies)
           cell == setup.cell
           Good == {i \in 0 .. n : g[i] <= RectHeader * i + cell * a[i]}
<1>1. n \in Nat /\ cell \in Nat \ {0} /\ RectHeader \in Nat
  BY SetupIs DEF RectHeader
<1>2. g \in [0 .. n -> Nat] /\ g[0] = 0 /\ \A i \in 1 .. n : g[i] = g[i - 1] + RectHeader + bodies[i]
  BY DEF WeightOf
<1>3. a \in [0 .. n -> Nat] /\ a[0] = 0 /\ \A i \in 1 .. n : a[i] = a[i - 1] + rects[i].w * rects[i].h
  BY DEF AreaOf
<1>4. \A i \in 1 .. n : rects[i].w * rects[i].h \in Nat /\ bodies[i] <= rects[i].w * rects[i].h * cell /\ bodies[i] \in Nat
  <2> SUFFICES ASSUME NEW i \in 1 .. n
               PROVE  rects[i].w * rects[i].h \in Nat /\ bodies[i] <= rects[i].w * rects[i].h * cell /\ bodies[i] \in Nat
    OBVIOUS
  <2>1. rects[i] \in Rectangle
    OBVIOUS
  <2>2. rects[i].w \in Nat /\ rects[i].h \in Nat
    BY <2>1 DEF Rectangle
  <2> QED
    BY <2>2 DEF RawLength
<1> HIDE DEF n, cell
<1>5. 0 \in Good
  BY <1>1, <1>2, <1>3
<1>6. ASSUME NEW i \in 0 .. n, i \in Good, i < n PROVE i + 1 \in Good
  <2>1. i + 1 \in 1 .. n /\ (i + 1) - 1 = i /\ i \in Nat /\ i + 1 \in 0 .. n
    BY <1>1, <1>6
  <2> DEFINE s == rects[i + 1].w * rects[i + 1].h
             b == bodies[i + 1]
             p == g[i]
             q == a[i]
             R == RectHeader
  <2>2. /\ g[i + 1] = p + R + b /\ a[i + 1] = q + s /\ p \in Nat /\ q \in Nat /\ s \in Nat /\ b \in Nat
        /\ b <= s * cell /\ p <= R * i + cell * q /\ R \in Nat
    BY <1>1, <1>2, <1>3, <1>4, <1>6, <2>1
  <2> HIDE DEF s, b, p, q, R
  <2>3. R * (i + 1) = R * i + R /\ cell * (q + s) = cell * q + s * cell
    BY <1>1, <2>1, <2>2
  <2>4. p + R + b <= R * (i + 1) + cell * (q + s)
    <3> DEFINE X == R * i
               Y == cell * q
               Z == s * cell
    <3>1. X \in Nat /\ Y \in Nat /\ Z \in Nat
      BY <1>1, <2>1, <2>2
    <3>2. b <= Z /\ p <= X + Y
      BY <2>2
    <3> HIDE DEF X, Y, Z
    <3>3. p + R + b <= (X + R) + (Y + Z)
      BY <2>2, <3>1, <3>2
    <3> QED
      BY <2>3, <3>3 DEF X, Y, Z
  <2> QED
    BY <2>1, <2>2, <2>4 DEF R
<1>7. \A i \in 0 .. n : i \in Good
  <2>1. 0 \in Int /\ n \in Int
    BY <1>1
  <2> HIDE DEF Good
  <2> QED
    BY <1>5, <1>6, <2>1, CountUp
<1>8. n \in 0 .. n
  BY <1>1
<1> QED
  BY <1>7, <1>8 DEF n, cell

\* A v1 frame within the budget is a FRAME within the payload, though it is cut in rectangles: each
\* of them but one costs less metadata than the clean tiles save, or, when the one clean tile is
\* small, than the quarter of the image that is clean.
LEMMA OneMessage ==
    ASSUME setup \in Setups, image \in Image, setup.version = 1, Bytes(image) <= Budget,
           NEW rects \in Seq(Rectangle), NEW bodies \in Seq(Nat), Len(bodies) = Len(rects), Len(rects) >= 1,
           \A i \in 1 .. Len(rects) : bodies[i] <= RawLength(rects[i]),
           NEW a, AreaOf(a, rects), NEW M \in Nat, NEW F \in Nat, Len(rects) <= 3 * M + 1,
           a[Len(rects)] + F <= image[1] * image[2], F + setup.tile >= setup.tile * M + 1,
           M = 1 => 4 * a[Len(rects)] <= 3 * (image[1] * image[2]) /\ setup.tile <= image[1] * image[2]
    PROVE  PayloadSize(FrameHeader, bodies, 1, Len(bodies)) <= Payload
<1> DEFINE n == Len(bodies)
           cell == setup.cell
           tile == setup.tile
           B == Bytes(image)
           A == a[n]
           D == image[1] * image[2]
<1>1. PICK g : WeightOf(g, bodies)
  BY HasWeight
<1>2. g[n] <= RectHeader * n + cell * A
  BY <1>1, WeightWithin
<1>3. g \in [0 .. n -> Nat] /\ g[0] = 0
  BY <1>1 DEF WeightOf
<1>4. a \in [0 .. n -> Nat]
  BY DEF AreaOf
<1>5. /\ n \in Nat /\ n >= 1 /\ n <= 3 * M + 1 /\ A + F <= D /\ F + tile >= tile * M + 1
      /\ M = 1 => 4 * A <= 3 * D /\ tile <= D
  OBVIOUS
<1>6. PayloadSize(FrameHeader, bodies, 1, n) = FrameHeader + (g[n] - g[0])
  <2>1. 1 \in 1 .. Len(bodies) /\ n \in 1 - 1 .. Len(bodies) /\ FrameHeader \in Nat
    BY <1>5 DEF FrameHeader
  <2>2. PayloadSize(FrameHeader, bodies, 1, n) = FrameHeader + (g[n] - g[1 - 1])
    BY <1>1, <2>1, PayloadIs
  <2> QED
    BY <2>2
<1>7. /\ cell \in Nat \ {0} /\ tile \in Nat \ {0} /\ tile * cell >= 256
      /\ Budget \in Nat /\ Payload \in Nat
      /\ Payload > WireFloor => Budget <= Payload - WireFloor
      /\ Payload <= WireFloor => Budget = 0
  BY SetupIs
<1>8. B = D * cell /\ D \in Nat \ {0}
  <2>1. image[1] \in Nat \ {0} /\ image[2] \in Nat \ {0}
    BY DEF Image
  <2>2. B = D * cell
    BY DEF Bytes
  <2>3. \A p, q \in Nat \ {0} : p * q \in Nat \ {0}
    OBVIOUS
  <2> QED
    BY <2>1, <2>2, <2>3
<1> HIDE DEF n, cell, tile, B, D
<1>9. g[n] \in Nat /\ A \in Nat
  <2>1. n \in 0 .. n
    BY <1>5
  <2> QED
    BY <1>3, <1>4, <2>1
<1> DEFINE P == g[n]
           C == cell * A
<1>11. P <= RectHeader * n + C
  BY <1>2
<1>10. C \in Nat /\ B \in Nat /\ P \in Nat /\ B >= 1
  <2>1. \A p, q \in Nat \ {0} : p * q \in Nat \ {0}
    OBVIOUS
  <2>2. B \in Nat \ {0}
    BY <1>7, <1>8, <2>1
  <2> QED
    BY <1>7, <1>9, <2>2
<1>u. \A p, q, d \in Nat : p <= q => d * p <= d * q /\ p * d <= q * d
  OBVIOUS
\* The metadata is paid for.
<1>12. 22 * n + C <= B + 26
  <2> HIDE DEF P, A
  <2>1. CASE M = 0
    <3>1. n = 1 /\ A <= D
      BY <1>5, <1>8, <1>9, <2>1
    <3>2. C <= B
      <4>1. cell * A <= cell * D /\ cell * D = D * cell
        BY <1>7, <1>8, <1>9, <1>u, <3>1
      <4> QED
        BY <1>8, <4>1
    <3> HIDE DEF C
    <3> QED
      BY <1>10, <3>1, <3>2
  <2>2. CASE M = 1
    <3>1. n <= 4 /\ 4 * A <= 3 * D /\ tile <= D
      BY <1>5, <2>2
    <3>2. tile * cell <= D * cell
      BY <1>7, <1>8, <1>u, <3>1
    <3>3. B >= 256
      <4> DEFINE X == tile * cell
      <4>1. X >= 256 /\ X <= B /\ X \in Nat
        BY <1>7, <1>8, <3>2
      <4> HIDE DEF X
      <4> QED
        BY <1>10, <4>1
    <3>4. 4 * C <= 3 * B
      <4>1. cell * (4 * A) <= cell * (3 * D)
        BY <1>7, <1>8, <1>9, <1>u, <3>1
      <4>2. cell * (4 * A) = 4 * C /\ cell * (3 * D) = 3 * B
        BY <1>7, <1>8, <1>9
      <4> QED
        BY <4>1, <4>2
    <3> HIDE DEF C
    <3> QED
      BY <1>5, <1>10, <3>1, <3>3, <3>4
  <2>3. CASE M >= 2
    <3> DEFINE K == M - 1
               E == cell * F
    <3>1. K \in Nat /\ K >= 1 /\ F >= tile * K
      <4> DEFINE X == tile * K
      <4>1. K \in Nat /\ K >= 1
        BY <2>3
      <4>2. tile * M = X + tile /\ X \in Nat
        BY <1>7, <4>1
      <4>3. F + tile >= (X + tile) + 1
        BY <1>5, <4>2
      <4> HIDE DEF X
      <4>4. F >= X
        BY <1>7, <4>2, <4>3
      <4> QED
        BY <4>1, <4>4 DEF X
    <3>2. C + E <= B /\ E \in Nat
      <4>1. cell * (A + F) <= cell * D
        BY <1>5, <1>7, <1>8, <1>9, <1>u
      <4>2. cell * (A + F) = C + E /\ cell * D = B
        BY <1>7, <1>8, <1>9
      <4>3. E \in Nat
        BY <1>7
      <4> QED
        BY <4>1, <4>2, <4>3
    <3>3. 256 * K <= E
      <4> DEFINE X == tile * K
                 Y == tile * cell
      <4>1. X \in Nat /\ Y \in Nat /\ 256 <= Y
        BY <1>7, <3>1
      <4>2. cell * X <= cell * F
        BY <1>7, <1>u, <3>1, <4>1
      <4>3. cell * X = Y * K
        BY <1>7, <3>1
      <4> HIDE DEF X, Y
      <4>4. 256 * K <= Y * K
        <5> HIDE DEF K
        <5>1. 256 \in Nat /\ Y \in Nat /\ K \in Nat /\ 256 <= Y
          BY <3>1, <4>1
        <5> QED
          BY <1>u, <5>1
      <4>5. 256 * K \in Nat /\ Y * K \in Nat /\ cell * F \in Nat
        BY <1>7, <3>1, <4>1
      <4> QED
        BY <4>2, <4>3, <4>4, <4>5
    <3>4. n <= 3 * K + 4
      BY <1>5, <3>1
    <3> HIDE DEF C, E, K
    <3> QED
      BY <1>5, <1>10, <3>1, <3>2, <3>3, <3>4
  <2> QED
    BY <2>1, <2>2, <2>3
<1> HIDE DEF P, A, C
<1>13. B <= Budget
  BY DEF B
<1>15. 27 + P <= Payload
  <2>1. Budget >= 1
    BY <1>7, <1>10, <1>13
  <2>2. Budget + 53 <= Payload
    BY <1>7, <2>1 DEF WireFloor, PartHeader, RectHeader
  <2>3. P <= 22 * n + C
    BY <1>11 DEF RectHeader
  <2> QED
    BY <1>5, <1>7, <1>10, <1>12, <1>13, <2>2, <2>3
<1>16. FrameHeader + (P - 0) = 27 + P
  BY <1>10 DEF FrameHeader
<1>17. PayloadSize(FrameHeader, bodies, 1, n) <= Payload
  BY <1>3, <1>6, <1>15, <1>16 DEF P
<1> QED
  BY <1>17 DEF n

\* A rectangle has as many cells as its area.
LEMMA CellsCounted ==
    ASSUME NEW r \in Rectangle
    PROVE  IsFiniteSet(Cells(r)) /\ Cardinality(Cells(r)) = r.w * r.h
<1> DEFINE x == r.x
           y == r.y
           w == r.w
           h == r.h
           X == x .. x + w - 1
           Y == y .. y + h - 1
<1>1. x \in Nat /\ y \in Nat /\ w \in Nat \ {0} /\ h \in Nat \ {0} /\ Cells(r) = X \X Y
  BY DEF Rectangle, Cells
<1> HIDE DEF x, y, w, h
<1>2. IsFiniteSet(X) /\ Cardinality(X) = w /\ IsFiniteSet(Y) /\ Cardinality(Y) = h
  <2>1. /\ x \in Int /\ x + w - 1 \in Int /\ ~(x > x + w - 1) /\ (x + w - 1) - x + 1 = w
        /\ y \in Int /\ y + h - 1 \in Int /\ ~(y > y + h - 1) /\ (y + h - 1) - y + 1 = h
    BY <1>1
  <2> QED
    BY <2>1, FS_Interval
<1> HIDE DEF X, Y
<1>3. IsFiniteSet(X \X Y) /\ Cardinality(X \X Y) = w * h
  BY <1>2, FS_Product
<1> QED
  BY <1>1, <1>3 DEF w, h

\* A tiling has as many cells as the areas of its rectangles together: what changedRectangles
\* counts as dirtyPixels is what its rectangles carry.
LEMMA TilingCounted ==
    ASSUME NEW rects, NEW S, Tiling(rects, S), NEW a, AreaOf(a, rects)
    PROVE  IsFiniteSet(S) /\ Cardinality(S) = a[Len(rects)]
<1> DEFINE n == Len(rects)
           Upto(k) == UNION {Cells(rects[i]) : i \in 1 .. k}
           Good == {k \in 0 .. n : IsFiniteSet(Upto(k)) /\ Cardinality(Upto(k)) = a[k]}
<1>1. /\ rects \in Seq(Rectangle) /\ n \in Nat
      /\ \A i \in 1 .. n : rects[i] \in Rectangle
      /\ \A i, j \in 1 .. n : i # j => Cells(rects[i]) \cap Cells(rects[j]) = {}
      /\ a \in [0 .. n -> Nat] /\ a[0] = 0 /\ \A i \in 1 .. n : a[i] = a[i - 1] + rects[i].w * rects[i].h
  <2>1. rects \in Seq(Rectangle)
    BY DEF Tiling
  <2>2. n \in Nat /\ \A i \in 1 .. n : rects[i] \in Rectangle
    BY <2>1
  <2> QED
    BY <2>1, <2>2 DEF Tiling, AreaOf
<1>2. Upto(n) = S
  BY DEF Tiling
<1> HIDE DEF n
<1>3. 0 \in Good
  <2>1. Upto(0) = {}
    OBVIOUS
  <2>2. 0 \in 0 .. n
    BY <1>1
  <2> HIDE DEF Upto
  <2> QED
    BY <1>1, <2>1, <2>2, FS_EmptySet
<1>4. ASSUME NEW k \in 0 .. n, k \in Good, k < n PROVE k + 1 \in Good
  <2> DEFINE r == rects[k + 1]
             P == Upto(k)
             Q == Cells(r)
  <2>1. k + 1 \in 1 .. n /\ k + 1 \in 0 .. n /\ (k + 1) - 1 = k /\ k \in Nat
    BY <1>1, <1>4
  <2>2. r \in Rectangle /\ a[k + 1] = a[k] + r.w * r.h
    BY <1>1, <2>1
  <2>3. Upto(k + 1) = P \cup Q
    <3>1. 1 .. k + 1 = (1 .. k) \cup {k + 1}
      BY <2>1
    <3> QED
      BY <3>1
  <2>4. P \cap Q = {}
    <3>1. \A i \in 1 .. k : i \in 1 .. n /\ i # k + 1
      <4>1. k < n /\ k \in Nat /\ n \in Nat
        BY <1>1, <1>4, <2>1
      <4> HIDE DEF Good
      <4> QED
        BY <4>1
    <3>2. \A i \in 1 .. k : Cells(rects[i]) \cap Q = {}
      BY <1>1, <2>1, <3>1
    <3> QED
      BY <3>2
  <2>5. IsFiniteSet(P) /\ Cardinality(P) = a[k] /\ a[k] \in Nat
    BY <1>1, <1>4
  <2>6. IsFiniteSet(Q) /\ Cardinality(Q) = r.w * r.h /\ r.w * r.h \in Nat
    BY <2>2, CellsCounted DEF Rectangle
  <2> HIDE DEF P, Q, Upto
  <2>7. IsFiniteSet(P \cup Q) /\ Cardinality(P \cup Q) = Cardinality(P) + Cardinality(Q) - Cardinality(P \cap Q)
    BY <2>5, <2>6, FS_Union
  <2>8. Cardinality(P \cap Q) = 0
    BY <2>4, FS_EmptySet
  <2> HIDE DEF r
  <2>9. Cardinality(P \cup Q) = a[k + 1]
    BY <2>2, <2>5, <2>6, <2>7, <2>8 DEF r
  <2> QED
    BY <2>1, <2>3, <2>7, <2>9
<1>5. \A k \in 0 .. n : k \in Good
  <2>1. 0 \in Int /\ n \in Int
    BY <1>1
  <2> HIDE DEF Good
  <2> QED
    BY <1>3, <1>4, <2>1, CountUp
<1>6. n \in Good
  <2>1. n \in 0 .. n
    BY <1>1
  <2> HIDE DEF Good
  <2> QED
    BY <1>5, <2>1
<1> QED
  BY <1>2, <1>6 DEF n

------------------------------------------------------------------------------
\* The inductive invariant

\* What the capture becomes on the display.
Shown == IF setup.version = 1 THEN Halved(native, Factor(native)) ELSE native

\* The rectangles of a frame and their bodies, of some tiles that changed.
FrameOf(tiles, rects, bodies) ==
    /\ Tiling(rects, CellsOf(tiles)) /\ Len(rects) \in 1 .. MaxRects
    /\ bodies \in Seq(Nat) /\ Len(bodies) = Len(rects)
    /\ \A i \in 1 .. Len(rects) : bodies[i] <= RawLength(rects[i])
    /\ image[1] * setup.cell <= Budget => \A i \in 1 .. Len(rects) : RawLength(rects[i]) <= Budget
    /\ setup.version = 1 /\ Bytes(image) <= Budget =>
          PayloadSize(FrameHeader, bodies, 1, Len(bodies)) <= Payload

FrameIs == FrameOf(IF frame.keyframe THEN Tiles ELSE dirty, frame.rects, frame.bodies)

PlanIs ==
    IF setup.version = 1 THEN plan = <<<<1, Len(frame.bodies)>>>> ELSE Packs(plan, frame.bodies)

Stages == {"captured", "infeasible", "prepared", "compared", "refused", "planned", "unsendable", "pointed"}

PixelInv ==
    /\ setup \in Setups /\ native \in Sizes /\ stage \in Stages
    /\ stage \notin {"captured", "infeasible"} => image = Shown
    /\ stage \in {"compared", "planned", "unsendable"} => FrameIs
    /\ stage = "planned" => PlanIs
    /\ RefusedOnlyIfImpossible
    /\ PointerLands

\* The limits change only with the setup.
LEMMA LimitsKept ==
    ASSUME UNCHANGED setup
    PROVE  Payload' = Payload /\ Budget' = Budget /\ MaxRects' = MaxRects /\ MaxParts' = MaxParts
BY DEF Payload, Budget, Bounded, Smaller, MaxRects, MaxParts

\* The factor changes only with the setup and the capture.
LEMMA FactorKept == ASSUME UNCHANGED <<setup, native>> PROVE Factor(native)' = Factor(native)
BY LimitsKept DEF Factor, Bytes, Halved

\* So does the size of the display.
LEMMA ShownKept == ASSUME UNCHANGED <<setup, native>> PROVE Shown' = Shown
BY FactorKept DEF Shown, Halved

\* A frame that was just made is what it was made of.
LEMMA FrameIsNow ==
    ASSUME UNCHANGED <<setup, image>>, NEW k \in BOOLEAN, NEW r, NEW b, NEW d,
           frame' = [keyframe |-> k, rects |-> r, bodies |-> b], dirty' = d,
           FrameOf(IF k THEN Tiles ELSE d, r, b)
    PROVE  FrameIs'
<1>1. frame'.keyframe = k /\ frame'.rects = r /\ frame'.bodies = b
  OBVIOUS
<1>2. CellsOf(IF frame.keyframe THEN Tiles ELSE dirty)' = CellsOf(IF k THEN Tiles ELSE d)
  BY <1>1 DEF CellsOf, Tiles, Columns, Rows
<1> QED
  BY <1>1, <1>2, LimitsKept DEF FrameIs, FrameOf, RawLength, Bytes

\* A frame stays what it is.
LEMMA FrameIsKept == ASSUME UNCHANGED <<setup, image, dirty, frame>>, FrameIs PROVE FrameIs'
<1>1. CellsOf(IF frame.keyframe THEN Tiles ELSE dirty)' = CellsOf(IF frame.keyframe THEN Tiles ELSE dirty)
  BY DEF CellsOf, Tiles, Columns, Rows
<1> QED
  BY <1>1, LimitsKept DEF FrameIs, FrameOf, RawLength, Bytes

\* A plan stays what it is.
LEMMA PlanIsKept == ASSUME UNCHANGED <<setup, frame, plan>>, PlanIs PROVE PlanIs'
BY LimitsKept DEF PlanIs, Packs, PartFits

\* The invariant holds after a step that changes nothing.
LEMMA Unmoved ==
    ASSUME PixelInv, UNCHANGED vars
    PROVE  PixelInv'
<1>1. PointerLands'
  BY FactorKept DEF PixelInv, vars, PointerLands
<1>2. RefusedOnlyIfImpossible'
  BY LimitsKept DEF PixelInv, vars, RefusedOnlyIfImpossible
<1> QED
  BY <1>1, <1>2, ShownKept, FrameIsKept, PlanIsKept DEF PixelInv, vars

------------------------------------------------------------------------------
\* Comparing

\* The display has both sides, and is the capture divided by a power of two (prepareCapture).
LEMMA ShownIs ==
    ASSUME setup \in Setups, native \in Sizes
    PROVE  /\ native \in Size /\ Shown \in Image /\ Factor(native) \in 0 .. 31
           /\ setup.version = 1 => \A i \in {1, 2} : Shown[i] = native[i] \div 2^Factor(native)
<1>1. native \in Size /\ native = <<native[1], native[2]>>
  BY PixelAssumption DEF Size
<1>2. native \in Image
  <2>1. \A i \in 1 .. HighestSide : i \in Nat \ {0}
    OBVIOUS
  <2> QED
    BY <1>1, <2>1, Zenon DEF Size, Image
<1>3. Factor(native) \in 0 .. 31 /\ \A i \in {1, 2} : native[i] \div 2^Factor(native) \in Nat \ {0}
  BY <1>1, FactorIs
<1> DEFINE p == native[1] \div 2^Factor(native)
           q == native[2] \div 2^Factor(native)
<1>4. p \in Nat \ {0} /\ q \in Nat \ {0}
  BY <1>3
<1>5. Halved(native, Factor(native)) = <<p, q>>
  BY DEF Halved
<1> HIDE DEF p, q
<1>6. Halved(native, Factor(native)) \in Image
  BY <1>4, <1>5 DEF Image
<1>7. \A i \in {1, 2} : Halved(native, Factor(native))[i] = native[i] \div 2^Factor(native)
  BY DEF Halved
<1> QED
  BY <1>1, <1>2, <1>3, <1>6, <1>7 DEF Shown

\* A rectangle has a positive length.
LEMMA RawLengthIs ==
    ASSUME setup \in Setups, NEW r \in Rectangle
    PROVE  RawLength(r) \in Nat \ {0}
<1>1. r.w \in Nat \ {0} /\ r.h \in Nat \ {0} /\ setup.cell \in Nat \ {0}
  BY SetupIs DEF Rectangle
<1>2. r.w * r.h \in Nat \ {0}
  BY <1>1
<1> QED
  BY <1>1, <1>2 DEF RawLength

\* A body is no longer than the raw rectangle (encodeRectangle).
LEMMA EncodedIs ==
    ASSUME setup \in Setups, NEW rects \in Seq(Rectangle), NEW b \in Encoded(rects)
    PROVE  /\ b \in Seq(Nat) /\ Len(b) = Len(rects)
           /\ \A i \in 1 .. Len(rects) : b[i] <= RawLength(rects[i])
<1> DEFINE n == Len(rects)
<1>1. DOMAIN rects = 1 .. n /\ n \in Nat /\ \A i \in 1 .. n : rects[i] \in Rectangle
  OBVIOUS
<1>2. PICK zlib \in SUBSET {i \in DOMAIN rects : Squeezed < RawLength(rects[i])} :
          b = [i \in DOMAIN rects |-> IF i \in zlib THEN Squeezed ELSE RawLength(rects[i])]
  BY DEF Encoded
<1>3. Squeezed \in Nat /\ \A i \in 1 .. n : RawLength(rects[i]) \in Nat
  BY <1>1, PixelAssumption, RawLengthIs
<1>4. \A i \in 1 .. n : b[i] \in Nat /\ b[i] <= RawLength(rects[i])
  BY <1>1, <1>2, <1>3
<1>5. b = [i \in 1 .. n |-> b[i]]
  BY <1>1, <1>2
<1> HIDE DEF n
<1>6. b \in Seq(Nat) /\ Len(b) = n
  BY <1>1, <1>4, <1>5
<1> QED
  BY <1>4, <1>6 DEF n

\* The whole image is the cells of all the tiles.
LEMMA WholeIs ==
    ASSUME setup \in Setups, image \in Image
    PROVE  LET whole == Rect(0, 0, image[1], image[2])
           IN  /\ whole \in Rectangle /\ whole.w = image[1] /\ whole.h = image[2]
               /\ Cells(whole) = CellsOf(Tiles)
<1> DEFINE W == image[1]
           H == image[2]
           whole == Rect(0, 0, W, H)
           tile == setup.tile
<1>1. /\ W \in Nat \ {0} /\ H \in Nat \ {0} /\ tile \in Nat \ {0}
      /\ Columns \in Nat \ {0} /\ W <= Columns * tile /\ Rows \in Nat \ {0} /\ H <= Rows * tile
  BY GridIs, SetupIs DEF Image
<1>2. whole \in Rectangle /\ whole.x = 0 /\ whole.y = 0 /\ whole.w = W /\ whole.h = H
  <2> HIDE DEF W, H, whole
  <2> QED
    BY <1>1, RectIs DEF whole
<1> HIDE DEF whole
<1>3. ASSUME NEW p \in Int, NEW q \in Int PROVE <<p, q>> \in Cells(whole) <=> <<p, q>> \in CellsOf(Tiles)
  <2>1. <<p, q>> \in Cells(whole) <=> p \in 0 .. W - 1 /\ q \in 0 .. H - 1
    BY <1>1, <1>2, CellIn
  <2>2. p \in 0 .. W - 1 => p \div tile \in 0 .. Columns - 1
    <3> SUFFICES ASSUME p \in 0 .. W - 1 PROVE p \div tile \in 0 .. Columns - 1
      OBVIOUS
    <3>1. p \in Nat /\ 0 * tile <= p /\ p < Columns * tile
      BY <1>1
    <3> HIDE DEF tile
    <3>2. 0 <= p \div tile /\ p \div tile < Columns
      BY <1>1, <3>1, QuotientIn
    <3>3. p \div tile \in Nat
      <4>1. p \in Int /\ p >= 0 /\ tile \in Nat \ {0}
        BY <1>1
      <4> QED
        BY <4>1, Quotient
    <3> QED
      BY <1>1, <3>2, <3>3
  <2>3. q \in 0 .. H - 1 => q \div tile \in 0 .. Rows - 1
    <3> SUFFICES ASSUME q \in 0 .. H - 1 PROVE q \div tile \in 0 .. Rows - 1
      OBVIOUS
    <3>1. q \in Nat /\ 0 * tile <= q /\ q < Rows * tile
      BY <1>1
    <3> HIDE DEF tile
    <3>2. 0 <= q \div tile /\ q \div tile < Rows
      BY <1>1, <3>1, QuotientIn
    <3>3. q \div tile \in Nat
      <4>1. q \in Int /\ q >= 0 /\ tile \in Nat \ {0}
        BY <1>1
      <4> QED
        BY <4>1, Quotient
    <3> QED
      BY <1>1, <3>2, <3>3
  <2>4. <<p, q>> \in CellsOf(Tiles) <=>
            p \in 0 .. W - 1 /\ q \in 0 .. H - 1 /\ <<p \div tile, q \div tile>> \in Tiles
    BY CellOf
  <2> QED
    BY <2>1, <2>2, <2>3, <2>4 DEF Tiles
<1>4. Cells(whole) = CellsOf(Tiles)
  <2>1. \A c : c \in Cells(whole) \/ c \in CellsOf(Tiles) => c[1] \in Int /\ c[2] \in Int /\ c = <<c[1], c[2]>>
    BY <1>2, CellsArePairs, CellsOfPairs
  <2> QED
    BY <1>3, <2>1
<1> QED
  BY <1>2, <1>4 DEF whole

\* AreaOf exists for one rectangle.
LEMMA AreaOne ==
    ASSUME NEW r \in Rectangle
    PROVE  \E g : AreaOf(g, <<r>>) /\ g[1] = r.w * r.h
<1> DEFINE v == r.w * r.h
           g == [i \in 0 .. 1 |-> IF i = 0 THEN 0 ELSE v]
<1>1. v \in Nat
  BY DEF Rectangle
<1>2. Len(<<r>>) = 1 /\ <<r>>[1] = r
  OBVIOUS
<1>3. g \in [0 .. 1 -> Nat] /\ g[0] = 0 /\ g[1] = v /\ v = 0 + v
  <2> HIDE DEF v
  <2> QED
    BY <1>1
<1> HIDE DEF g
<1>4. \A i \in 1 .. 1 : g[i] = g[i - 1] + <<r>>[i].w * <<r>>[i].h
  <2> SUFFICES ASSUME NEW i \in 1 .. 1 PROVE g[i] = g[i - 1] + <<r>>[i].w * <<r>>[i].h
    OBVIOUS
  <2>1. i = 1 /\ i - 1 = 0
    OBVIOUS
  <2> QED
    BY <1>2, <1>3, <2>1
<1>5. AreaOf(g, <<r>>)
  BY <1>2, <1>3, <1>4 DEF AreaOf
<1> QED
  BY <1>3, <1>5

\* A keyframe is a frame of all the tiles.
LEMMA KeyframeIs ==
    ASSUME setup \in Setups, image \in Image,
           Len(Banded(Rect(0, 0, image[1], image[2]))) <= MaxRects,
           NEW b \in Encoded(Banded(Rect(0, 0, image[1], image[2])))
    PROVE  FrameOf(Tiles, Banded(Rect(0, 0, image[1], image[2])), b)
<1> DEFINE whole == Rect(0, 0, image[1], image[2])
           bands == Banded(whole)
<1>1. whole \in Rectangle /\ whole.w = image[1] /\ whole.h = image[2] /\ Cells(whole) = CellsOf(Tiles)
  BY WholeIs
<1>0. Len(bands) <= MaxRects /\ b \in Encoded(bands)
  OBVIOUS
<1> HIDE DEF whole
<1>2. Tiling(bands, CellsOf(Tiles)) /\ bands \in Seq(Rectangle) /\ Len(bands) >= 1
  BY <1>1, BandedTiles, BandIs
<1>3. b \in Seq(Nat) /\ Len(b) = Len(bands) /\ \A i \in 1 .. Len(bands) : b[i] <= RawLength(bands[i])
  <2> HIDE DEF bands
  <2> QED
    BY <1>0, <1>2, EncodedIs
<1>4. image[1] * setup.cell <= Budget => \A i \in 1 .. Len(bands) : RawLength(bands[i]) <= Budget
  BY <1>1, BandsFit
<1>5. ASSUME setup.version = 1, Bytes(image) <= Budget
      PROVE  PayloadSize(FrameHeader, b, 1, Len(b)) <= Payload
  <2>1. RawLength(whole) = Bytes(image)
    BY <1>1 DEF RawLength, Bytes
  <2>2. bands = <<whole>>
    BY <1>1, <1>5, <2>1, OneBand
  <2>3. PICK a : AreaOf(a, <<whole>>) /\ a[1] = whole.w * whole.h
    BY <1>1, AreaOne
  <2>4. Len(bands) = 1
    BY <2>2
  <2>5. a[1] + 0 <= image[1] * image[2]
    <3>1. image[1] * image[2] \in Nat
      BY DEF Image
    <3> QED
      BY <1>1, <2>3, <3>1
  <2> HIDE DEF bands
  <2>6. Len(bands) >= 1 /\ Len(bands) <= 3 * 0 + 1 /\ AreaOf(a, bands) /\ a[Len(bands)] + 0 <= image[1] * image[2]
        /\ 0 + setup.tile >= setup.tile * 0 + 1
    <3>1. setup.tile \in Nat \ {0}
      BY SetupIs
    <3> QED
      BY <2>2, <2>3, <2>4, <2>5, <3>1
  <2> QED
    BY <1>2, <1>3, <1>5, <2>6, OneMessage
<1>6. Len(bands) \in 1 .. MaxRects
  <2>1. Len(bands) \in Nat /\ MaxRects \in Nat
    BY <1>2, SetupIs
  <2> QED
    BY <1>0, <1>2, <2>1
<1> QED
  BY <1>2, <1>3, <1>4, <1>5, <1>6 DEF FrameOf, whole

\* The area of a v1 delta is three quarters of the image at most, and so the image is not one tile.
LEMMA MuchIsClean ==
    ASSUME setup \in Setups, image \in Image, setup.version = 1, NEW tiles \in SUBSET Tiles, tiles # {},
           ~(Cardinality(CellsOf(tiles)) * 100 > DirtyPercent * image[1] * image[2]),
           NEW rects, Tiling(rects, CellsOf(tiles)), NEW a, AreaOf(a, rects)
    PROVE  4 * a[Len(rects)] <= 3 * (image[1] * image[2]) /\ setup.tile <= image[1] * image[2]
<1> DEFINE W == image[1]
           H == image[2]
           D == W * H
           tile == setup.tile
           n == Len(rects)
           A == a[n]
           q == DirtyPercent
<1>1. W \in Nat \ {0} /\ H \in Nat \ {0} /\ D \in Nat \ {0} /\ tile \in Nat \ {0} /\ q \in Nat /\ q <= 75
  BY SetupIs DEF Image
<1>2. A \in Nat
  <2>1. rects \in Seq(Rectangle) /\ a \in [0 .. n -> Nat]
    BY DEF Tiling, AreaOf
  <2>2. n \in Nat
    BY <2>1
  <2> HIDE DEF n
  <2>3. n \in 0 .. n
    BY <2>2
  <2> QED
    BY <2>1, <2>3
<1>3. Cardinality(CellsOf(tiles)) = A
  BY TilingCounted
<1>4. 4 * A <= 3 * D
  <2>1. ~(A * 100 > q * W * H)
    BY <1>3
  <2> HIDE DEF A, q, W, H
  <2>2. q * W * H = q * D
    BY <1>1
  <2>3. \A x, y, z \in Nat : x <= y => x * z <= y * z
    OBVIOUS
  <2> HIDE DEF D
  <2>4. q * D <= 75 * D /\ q * D \in Nat
    BY <1>1, <2>3
  <2> DEFINE Q == q * D
  <2>5. ~(A * 100 > Q) /\ Q <= 75 * D /\ Q \in Nat
    BY <2>1, <2>2, <2>4
  <2> HIDE DEF Q
  <2> QED
    BY <1>1, <1>2, <2>5
\* One tile would be all dirty.
<1>5. W > tile \/ H > tile
  <2>1. SUFFICES ASSUME W <= tile, H <= tile PROVE FALSE
    BY <1>1
  <2>2. Columns = 1 /\ Rows = 1
    <3>1. /\ Columns \in Nat \ {0} /\ Columns * tile - tile < W
          /\ Rows \in Nat \ {0} /\ Rows * tile - tile < H
      BY GridIs
    <3>2. ASSUME NEW k \in Nat \ {0}, k * tile - tile < tile PROVE k = 1
      <4> HIDE DEF tile
      <4>1. k >= 2 => 2 * tile <= k * tile
        BY <1>1
      <4> QED
        BY <1>1, <3>2, <4>1
    <3> DEFINE u == Columns
               v == Rows
               x == u * tile
               y == v * tile
    <3>3. x - tile < W /\ y - tile < H /\ x \in Nat /\ y \in Nat /\ u \in Nat \ {0} /\ v \in Nat \ {0}
      BY <1>1, <3>1
    <3> HIDE DEF tile, W, H, x, y
    <3>4. x - tile < tile /\ y - tile < tile
      BY <1>1, <2>1, <3>3
    <3> HIDE DEF u, v
    <3>5. u = 1 /\ v = 1
      BY <3>2, <3>3, <3>4 DEF x, y
    <3> QED
      BY <3>5 DEF u, v
  <2>3. tiles = Tiles
    <3>1. Tiles = (0 .. 0) \X (0 .. 0)
      BY <2>2 DEF Tiles
    <3>2. \A t \in Tiles : t = <<0, 0>>
      BY <3>1
    <3> QED
      BY <3>2
  <2> DEFINE whole == Rect(0, 0, W, H)
  <2>4. whole \in Rectangle /\ whole.w = W /\ whole.h = H /\ Cells(whole) = CellsOf(Tiles)
    BY WholeIs
  <2> HIDE DEF whole
  <2>5. Cardinality(Cells(whole)) = W * H
    BY <2>4, CellsCounted
  <2>6. A = D
    BY <1>3, <2>3, <2>4, <2>5
  <2> HIDE DEF A, D
  <2> QED
    BY <1>1, <1>4, <2>6
<1>6. tile <= D
  <2> HIDE DEF tile, W, H
  <2>1. \A x, y \in Nat \ {0} : x <= x * y /\ y <= x * y
    <3>1. \A x, y, z \in Nat : y <= z => x * y <= x * z /\ y * x <= z * x
      OBVIOUS
    <3> SUFFICES ASSUME NEW x \in Nat \ {0}, NEW y \in Nat \ {0} PROVE x <= x * y /\ y <= x * y
      OBVIOUS
    <3>2. x * 1 <= x * y /\ 1 * y <= x * y
      BY <3>1
    <3> QED
      BY <3>2
  <2>2. W <= D /\ H <= D
    BY <1>1, <2>1
  <2> HIDE DEF D
  <2> QED
    BY <1>1, <1>5, <2>2
<1> QED
  BY <1>4, <1>6

\* A delta is a frame of the dirty tiles.
LEMMA DeltaIs ==
    ASSUME setup \in Setups, image \in Image, NEW tiles \in SUBSET Tiles, tiles # {},
           Len(BandedAll(Changed(tiles))) <= MaxRects, NEW b \in Encoded(BandedAll(Changed(tiles))),
           ~(Cardinality(CellsOf(tiles)) * 100 > DirtyPercent * image[1] * image[2])
    PROVE  FrameOf(tiles, BandedAll(Changed(tiles)), b)
<1> DEFINE rects == Changed(tiles)
           bands == BandedAll(rects)
           n == Len(rects)
<1>0. Len(bands) <= MaxRects /\ b \in Encoded(bands)
  OBVIOUS
<1>1. Tiling(rects, CellsOf(tiles))
  BY ChangedTiles
<1>2. rects \in Seq(Rectangle) /\ \A i \in 1 .. n : Cells(rects[i]) \subseteq CellsOf(tiles)
  BY <1>1 DEF Tiling
<1>3. n >= 1 /\ n \in Nat
  <2>1. PICK t \in tiles : TRUE
    OBVIOUS
  <2>2. PICK e : IsRun(tiles, t, e)
    BY <2>1, RunIs
  <2> DEFINE r == RunRect(tiles, t)
  <2>3. t[1] \in Nat /\ t[2] \in Nat /\ e \in t[1] + 1 .. Columns /\ r \in Rectangle /\ Cells(r) = CellsOf(RunOf(t, e))
        /\ \A v \in t[1] .. e - 1 : <<v, t[2]>> \in tiles
    BY <2>1, <2>2 DEF IsRun, Tiles
  <2> HIDE DEF r
  <2>4. <<r.x, r.y>> \in Cells(r)
    <3>1. r.x \in Nat /\ r.y \in Nat /\ r.w \in Nat \ {0} /\ r.h \in Nat \ {0}
      BY <2>3 DEF Rectangle
    <3> DEFINE p == r.x
               q == r.y
               w == r.w
               h == r.h
    <3>2. p \in Nat /\ q \in Nat /\ w \in Nat \ {0} /\ h \in Nat \ {0}
      BY <3>1
    <3> HIDE DEF p, q, w, h
    <3>3. p <= p /\ p < p + w /\ q <= q /\ q < q + h
      BY <3>2
    <3>4. r.x \in Int /\ r.y \in Int
      BY <3>1
    <3> QED
      BY <2>3, <3>3, <3>4, CellIn DEF p, q, w, h
  <2>5. RunOf(t, e) \subseteq tiles
    BY <2>3 DEF RunOf
  <2>6. CellsOf(RunOf(t, e)) \subseteq CellsOf(tiles)
    BY <2>5 DEF CellsOf
  <2>7. \E i \in 1 .. n : <<r.x, r.y>> \in Cells(rects[i])
    BY <1>1, <2>3, <2>4, <2>6 DEF Tiling
  <2>8. n \in Nat
    BY <1>2
  <2> QED
    BY <2>7, <2>8
<1>4. /\ Tiling(bands, CellsOf(tiles)) /\ Len(bands) >= n
      /\ (\A i \in 1 .. n : rects[i].w * setup.cell <= Budget)
         => \A k \in 1 .. Len(bands) : RawLength(bands[k]) <= Budget
      /\ (\A i \in 1 .. n : RawLength(rects[i]) <= Budget) => bands = rects
  <2> HIDE DEF rects
  <2> QED
    BY <1>1, BandedAllTiles
<1>5. \A i \in 1 .. n : /\ rects[i] \in Rectangle
                        /\ rects[i].w <= image[1] /\ rects[i].h <= image[2]
                        /\ rects[i].w \in Nat /\ rects[i].h \in Nat
  <2> SUFFICES ASSUME NEW i \in 1 .. n
               PROVE  /\ rects[i] \in Rectangle /\ rects[i].w <= image[1] /\ rects[i].h <= image[2]
                      /\ rects[i].w \in Nat /\ rects[i].h \in Nat
    OBVIOUS
  <2> DEFINE r == rects[i]
  <2>1. r \in Rectangle /\ Cells(r) \subseteq CellsOf(tiles)
    BY <1>2
  <2> HIDE DEF r
  <2>2. r.x + r.w <= image[1] /\ r.y + r.h <= image[2]
    BY <2>1, WithinImage
  <2>3. r.x \in Nat /\ r.y \in Nat /\ r.w \in Nat /\ r.h \in Nat /\ image[1] \in Nat /\ image[2] \in Nat
    BY <2>1 DEF Rectangle, Image
  <2>4. r.w <= image[1] /\ r.h <= image[2]
    <3>1. \A x, w, a \in Nat : x + w <= a => w <= a
      OBVIOUS
    <3> QED
      BY <2>2, <2>3, <3>1
  <2> QED
    BY <2>1, <2>3, <2>4 DEF r
<1>6. bands \in Seq(Rectangle)
  BY <1>4 DEF Tiling
<1>c. setup.cell \in Nat \ {0} /\ Budget \in Nat /\ MaxRects \in Nat /\ image[1] \in Nat /\ image[2] \in Nat
  BY SetupIs DEF Image
<1>m. \A p, q, c \in Nat : p <= q => p * c <= q * c /\ c * p <= c * q
  OBVIOUS
<1> HIDE DEF rects, n
<1>7. b \in Seq(Nat) /\ Len(b) = Len(bands) /\ \A i \in 1 .. Len(bands) : b[i] <= RawLength(bands[i])
  <2> HIDE DEF bands
  <2> QED
    BY <1>0, <1>6, EncodedIs
<1> HIDE DEF bands
<1>8. image[1] * setup.cell <= Budget => \A i \in 1 .. Len(bands) : RawLength(bands[i]) <= Budget
  <2> SUFFICES ASSUME image[1] * setup.cell <= Budget PROVE \A i \in 1 .. n : rects[i].w * setup.cell <= Budget
    BY <1>4
  <2> SUFFICES ASSUME NEW i \in 1 .. n PROVE rects[i].w * setup.cell <= Budget
    OBVIOUS
  <2> DEFINE w == rects[i].w
             c == setup.cell
             P == w * c
             Q == image[1] * c
  <2>1. P <= Q /\ P \in Nat /\ Q \in Nat
    BY SMTT(30), <1>5, <1>c, <1>m
  <2>2. Q <= Budget
    OBVIOUS
  <2> HIDE DEF P, Q
  <2>3. P <= Budget
    BY <1>c, <2>1, <2>2
  <2> QED
    BY <2>3 DEF P
<1>9. ASSUME setup.version = 1, Bytes(image) <= Budget
      PROVE  PayloadSize(FrameHeader, b, 1, Len(b)) <= Payload
  <2>1. \A i \in 1 .. n : RawLength(rects[i]) <= Budget
    <3> SUFFICES ASSUME NEW i \in 1 .. n PROVE RawLength(rects[i]) <= Budget
      OBVIOUS
    <3> DEFINE w == rects[i].w
               h == rects[i].h
               W == image[1]
               H == image[2]
               c == setup.cell
    <3>1. w \in Nat /\ h \in Nat /\ W \in Nat /\ H \in Nat /\ c \in Nat /\ w <= W /\ h <= H
      BY <1>5, <1>c
    <3>2. RawLength(rects[i]) = (w * h) * c /\ Bytes(image) = (W * H) * c
      BY DEF RawLength, Bytes
    <3> HIDE DEF w, h, W, H, c
    <3>3. w * h <= W * h /\ W * h <= W * H /\ w * h \in Nat /\ W * h \in Nat /\ W * H \in Nat
      BY <1>m, <3>1
    <3>4. w * h <= W * H
      BY <3>3
    <3>5. (w * h) * c <= (W * H) * c
      BY <1>m, <3>1, <3>3, <3>4
    <3>6. (w * h) * c \in Nat /\ (W * H) * c \in Nat
      BY <3>1, <3>3
    <3> QED
      BY <1>9, <1>c, <3>2, <3>5, <3>6
  <2>2. bands = rects
    BY <1>4, <2>1
  <2>3. PICK M, F, a :
            /\ M \in Nat /\ F \in Nat /\ AreaOf(a, rects) /\ n <= 3 * M + 1 /\ a[n] + F <= image[1] * image[2]
            /\ F + setup.tile >= setup.tile * M + 1
    BY ChangedCount DEF rects, n
  <2>4. 4 * a[n] <= 3 * (image[1] * image[2]) /\ setup.tile <= image[1] * image[2]
    BY <1>1, <1>9, <2>3, MuchIsClean DEF n
  <2>5. rects \in Seq(Rectangle) /\ Len(b) = Len(rects) /\ Len(rects) >= 1 /\ Len(rects) <= 3 * M + 1
        /\ a[Len(rects)] + F <= image[1] * image[2]
        /\ 4 * a[Len(rects)] <= 3 * (image[1] * image[2])
        /\ \A i \in 1 .. Len(rects) : b[i] <= RawLength(rects[i])
    BY <1>2, <1>3, <1>7, <2>2, <2>3, <2>4 DEF n
  <2> QED
    BY <1>7, <1>9, <2>3, <2>4, <2>5, OneMessage
<1>10. Len(bands) \in 1 .. MaxRects
  <2>1. Len(bands) \in Nat
    BY <1>6
  <2> QED
    BY <1>0, <1>3, <1>4, <1>c, <2>1
<1> QED
  BY <1>4, <1>7, <1>8, <1>9, <1>10 DEF FrameOf, bands, rects

------------------------------------------------------------------------------
\* What follows from the frame and its plan

\* The invariant has RectanglesCoverDamage.
LEMMA CoverageFollows ==
    ASSUME PixelInv
    PROVE  RectanglesCoverDamage
<1> SUFFICES ASSUME stage \in {"compared", "planned", "unsendable"}
             PROVE  LET rects == frame.rects
                    IN  /\ Len(rects) \in 1 .. MaxRects
                        /\ UNION {Cells(rects[i]) : i \in DOMAIN rects}
                           = CellsOf(IF frame.keyframe THEN Tiles ELSE dirty)
                        /\ \A i, j \in DOMAIN rects : i < j => Cells(rects[i]) \cap Cells(rects[j]) = {}
  BY DEF RectanglesCoverDamage
<1> DEFINE rects == frame.rects
           S == CellsOf(IF frame.keyframe THEN Tiles ELSE dirty)
           n == Len(rects)
<1>1. Tiling(rects, S) /\ n \in 1 .. MaxRects
  BY DEF PixelInv, FrameIs, FrameOf
<1> HIDE DEF rects, S
<1>2. rects \in Seq(Rectangle)
  BY <1>1 DEF Tiling
<1>3. DOMAIN rects = 1 .. n /\ n \in Nat
  BY <1>2
<1>4. /\ \A i \in 1 .. n : Cells(rects[i]) \subseteq S
      /\ \A c \in S : \E i \in 1 .. n : c \in Cells(rects[i])
      /\ \A i, j \in 1 .. n : i # j => Cells(rects[i]) \cap Cells(rects[j]) = {}
  BY <1>1 DEF Tiling
<1>5. \A i, j \in DOMAIN rects : i < j => Cells(rects[i]) \cap Cells(rects[j]) = {}
  BY <1>3, <1>4
<1>6. UNION {Cells(rects[i]) : i \in DOMAIN rects} = S
  BY <1>3, <1>4
<1> QED
  BY <1>1, <1>5, <1>6 DEF rects, S

\* Rectangles without a cell in common do not overlap.
LEMMA ApartIs ==
    ASSUME NEW r \in Rectangle, NEW s \in Rectangle, Cells(r) \cap Cells(s) = {}
    PROVE  ~Overlap(r, s)
<1> SUFFICES ASSUME Overlap(r, s) PROVE FALSE
  OBVIOUS
<1> DEFINE p == IF r.x <= s.x THEN s.x ELSE r.x
           q == IF r.y <= s.y THEN s.y ELSE r.y
<1>1. /\ r.x \in Nat /\ r.y \in Nat /\ r.w \in Nat \ {0} /\ r.h \in Nat \ {0}
      /\ s.x \in Nat /\ s.y \in Nat /\ s.w \in Nat \ {0} /\ s.h \in Nat \ {0}
  BY DEF Rectangle
<1>2. r.x < s.x + s.w /\ s.x < r.x + r.w /\ r.y < s.y + s.h /\ s.y < r.y + r.h
  BY DEF Overlap
<1>a. \A a, b \in Nat, v, w \in Nat \ {0} : a < b + w /\ b < a + v =>
          LET m == IF a <= b THEN b ELSE a
          IN  m \in Int /\ a <= m /\ m < a + v /\ b <= m /\ m < b + w
  OBVIOUS
<1>3. p \in Int /\ r.x <= p /\ p < r.x + r.w /\ s.x <= p /\ p < s.x + s.w
  BY <1>1, <1>2, <1>a
<1>4. q \in Int /\ r.y <= q /\ q < r.y + r.h /\ s.y <= q /\ q < s.y + s.h
  BY <1>1, <1>2, <1>a
<1> HIDE DEF p, q
<1>5. <<p, q>> \in Cells(r) /\ <<p, q>> \in Cells(s)
  BY <1>3, <1>4, CellIn
<1> QED
  BY <1>5

\* The invariant has PlanIsAccepted.
LEMMA AcceptedFollows ==
    ASSUME PixelInv
    PROVE  PlanIsAccepted
<1> SUFFICES ASSUME stage = "planned",
                    IF setup.version = 1 THEN \E k \in 0 .. 30 : Bytes(Halved(native, k)) \in 1 .. Budget
                                         ELSE image[1] * setup.cell <= Budget
             PROVE  /\ \A k \in DOMAIN plan : Valid(k)
                    /\ plan[1][1] = 1 /\ plan[Len(plan)][2] = Len(frame.rects)
                    /\ \A k \in 1 .. Len(plan) - 1 : plan[k + 1][1] = plan[k][2] + 1
  BY DEF PlanIsAccepted
<1> DEFINE rects == frame.rects
           bodies == frame.bodies
           tiles == IF frame.keyframe THEN Tiles ELSE dirty
           n == Len(rects)
<1>1. setup \in Setups /\ native \in Sizes /\ image = Shown /\ FrameIs /\ PlanIs
  BY DEF PixelInv
<1>2. image \in Image
  BY <1>1, ShownIs
<1>c. setup.version = 1 => Bytes(image) <= Budget
  <2> SUFFICES ASSUME setup.version = 1 PROVE Bytes(image) <= Budget
    OBVIOUS
  <2>1. PICK k \in 0 .. 30 : Bytes(Halved(native, k)) \in 1 .. Budget /\ k \in 0 .. 31
    OBVIOUS
  <2>2. native \in Size /\ image = Halved(native, Factor(native))
    BY <1>1, ShownIs DEF Shown
  <2> QED
    BY <1>1, <2>1, <2>2, FactorFits
<1>r. image[1] * setup.cell <= Budget
  <2>1. CASE setup.version = 1
    <3> DEFINE row == image[1] * setup.cell
    <3>1. image[1] \in Nat \ {0} /\ image[2] \in Nat \ {0} /\ setup.cell \in Nat \ {0} /\ Budget \in Nat
      BY <1>1, <1>2, SetupIs DEF Image
    <3>2. Bytes(image) = row * image[2] /\ row \in Nat
      BY <3>1 DEF Bytes
    <3> HIDE DEF row
    <3>3. row <= row * image[2]
      BY <3>1, <3>2
    <3>4. row <= Budget
      BY <1>c, <2>1, <3>1, <3>2, <3>3
    <3> QED
      BY <3>4 DEF row
  <2>2. CASE setup.version # 1
    BY <2>2
  <2> QED
    BY <2>1, <2>2
<1>3. /\ Tiling(rects, CellsOf(tiles)) /\ n \in 1 .. MaxRects
      /\ bodies \in Seq(Nat) /\ Len(bodies) = n
      /\ \A i \in 1 .. n : bodies[i] <= RawLength(rects[i])
      /\ \A i \in 1 .. n : RawLength(rects[i]) <= Budget
      /\ setup.version = 1 => PayloadSize(FrameHeader, bodies, 1, n) <= Payload
  BY <1>1, <1>c, <1>r DEF FrameIs, FrameOf
<1> HIDE DEF tiles
<1>4. rects \in Seq(Rectangle) /\ \A i, j \in 1 .. n : i # j => Cells(rects[i]) \cap Cells(rects[j]) = {}
  BY <1>3 DEF Tiling
<1>5. Budget \in Nat /\ Payload \in Nat /\ MaxRects \in Nat /\ MaxParts \in Nat /\ Budget <= Payload
  <2>1. /\ setup.cell \in Nat \ {0} /\ image[1] \in Nat \ {0} /\ Budget \in Nat /\ Payload \in Nat
        /\ MaxRects \in Nat /\ MaxParts \in Nat
        /\ Payload > WireFloor => Budget <= Payload - WireFloor
        /\ Payload <= WireFloor => Budget = 0
    BY <1>1, <1>2, SetupIs DEF Image
  <2>2. image[1] * setup.cell \in Nat \ {0}
    BY <2>1
  <2> QED
    BY <1>r, <2>1, <2>2 DEF WireFloor, PartHeader, RectHeader
<1>6. /\ DOMAIN rects = 1 .. n /\ n \in Nat
      /\ \A i \in 1 .. n : rects[i] \in Rectangle
  BY <1>3, <1>4
\* Any of the rectangles, in their order, pass the check of a message.
<1>7. ASSUME NEW from \in 1 .. n, NEW to \in from .. n
      PROVE  /\ to - from + 1 \in 1 .. MaxRects
             /\ ValidRects(SubSeq(rects, from, to))
  <2> DEFINE part == SubSeq(rects, from, to)
  <2> HIDE DEF n
  <2>1. /\ DOMAIN part = 1 .. to - from + 1
        /\ \A i \in DOMAIN part : from + i - 1 \in 1 .. n /\ part[i] = rects[from + i - 1]
    <3>1. part \in Seq(Rectangle) /\ Len(part) = to - from + 1
          /\ \A i \in 1 .. to - from + 1 : part[i] = rects[from + i - 1]
      BY <1>4, <1>6 DEF n
    <3>2. DOMAIN part = 1 .. to - from + 1
      BY <3>1
    <3> HIDE DEF part
    <3>3. \A i \in 1 .. to - from + 1 : from + i - 1 \in 1 .. n
      BY <1>6
    <3> QED
      BY <3>1, <3>2, <3>3
  <2> HIDE DEF part
  <2>2. ASSUME NEW i \in DOMAIN part
        PROVE  part[i].w # 0 /\ part[i].h # 0 /\ RawLength(part[i]) <= Payload
    <3> DEFINE r == part[i]
    <3>1. r \in Rectangle /\ RawLength(r) <= Budget
      BY <1>3, <1>6, <2>1 DEF n
    <3>2. RawLength(r) \in Nat /\ r.w # 0 /\ r.h # 0
      <4> HIDE DEF r
      <4> QED
        BY <1>1, <3>1, RawLengthIs DEF Rectangle
    <3> QED
      BY <1>5, <3>1, <3>2
  <2>3. ASSUME NEW i \in DOMAIN part, NEW j \in DOMAIN part, i < j PROVE ~Overlap(part[i], part[j])
    <3>1. from + i - 1 # from + j - 1
      BY <1>6, <2>1, <2>3
    <3>2. part[i] \in Rectangle /\ part[j] \in Rectangle /\ Cells(part[i]) \cap Cells(part[j]) = {}
      BY <1>4, <1>6, <2>1, <3>1 DEF n
    <3> QED
      BY <3>2, ApartIs
  <2>4. to - from + 1 \in 1 .. MaxRects
    <3>1. n <= MaxRects
      BY <1>3 DEF n
    <3> QED
      BY <1>5, <1>6, <3>1
  <2>5. ValidRects(part)
    BY <2>2, <2>3 DEF ValidRects
  <2> QED
    BY <2>4, <2>5 DEF part
<1>8. CASE setup.version = 1
  <2>1. plan = <<<<1, n>>>>
    BY <1>1, <1>3, <1>8 DEF PlanIs
  <2>2. Len(plan) = 1 /\ DOMAIN plan = 1 .. 1 /\ plan[1] = <<1, n>> /\ plan[1][1] = 1 /\ plan[1][2] = n
    BY <2>1
  <2>3. 1 \in 1 .. n /\ n \in 1 .. n
    BY <1>3
  <2>4. n - 1 + 1 \in 1 .. MaxRects /\ ValidRects(SubSeq(rects, 1, n))
    BY <1>7, <2>3
  <2>5. PayloadSize(FrameHeader, bodies, 1, n) <= Payload
    BY <1>3, <1>8
  <2> HIDE DEF rects, bodies, n
  <2>6. Valid(1)
    BY <2>2, <2>4, <2>5 DEF Valid, rects, bodies
  <2>7. \A k \in DOMAIN plan : k = 1
    BY <2>2
  <2> QED
    BY <2>2, <2>6, <2>7 DEF n, rects
<1>9. CASE setup.version # 1
  <2>1. Packs(plan, bodies)
    BY <1>1, <1>9 DEF PlanIs
  <2>2. /\ DOMAIN plan = 1 .. Len(plan) /\ Len(plan) \in 1 .. MaxParts
        /\ plan[1][1] = 1 /\ plan[Len(plan)][2] = n
        /\ \A k \in 1 .. Len(plan) : /\ plan[k][1] \in 1 .. n /\ plan[k][2] \in plan[k][1] .. n
                                     /\ PartFits(bodies, plan[k][1], plan[k][2])
        /\ \A k \in 1 .. Len(plan) - 1 : plan[k + 1][1] = plan[k][2] + 1
    BY <1>3, <2>1 DEF Packs
  <2> HIDE DEF n, rects, bodies
  <2>3. ASSUME NEW k \in DOMAIN plan PROVE Valid(k)
    <3> DEFINE from == plan[k][1]
               to == plan[k][2]
    <3>1. from \in 1 .. n /\ to \in from .. n /\ PartFits(bodies, from, to)
      BY <2>2
    <3> HIDE DEF from, to
    <3>2. to - from + 1 \in 1 .. MaxRects /\ ValidRects(SubSeq(rects, from, to))
      BY <1>7, <3>1
    <3>3. PayloadSize(PartHeader, bodies, from, to) <= Payload
      BY <3>1 DEF PartFits
    <3>4. PayloadSize(FrameHeader, bodies, from, to) <= Payload
      <4>1. bodies \in Seq(Nat) /\ Len(bodies) = n /\ n \in Nat
        BY <1>3, <1>6 DEF n, bodies, rects
      <4>2. PICK g : WeightOf(g, bodies)
        BY <4>1, HasWeight
      <4> DEFINE v == g[to] - g[from - 1]
      <4>3. from \in 1 .. Len(bodies) /\ to \in from - 1 .. Len(bodies) /\ PartHeader \in Nat /\ FrameHeader \in Nat
        BY <3>1, <4>1 DEF PartHeader, FrameHeader
      <4>4. /\ PayloadSize(PartHeader, bodies, from, to) = PartHeader + v
            /\ PayloadSize(FrameHeader, bodies, from, to) = FrameHeader + v
        BY <4>1, <4>2, <4>3, PayloadIs
      <4>5. v \in Int
        <5>1. g \in [0 .. n -> Nat]
          BY <4>1, <4>2 DEF WeightOf
        <5>2. to \in 0 .. n /\ from - 1 \in 0 .. n
          BY <3>1, <4>1
        <5> QED
          BY <5>1, <5>2
      <4> HIDE DEF v
      <4> QED
        BY <1>5, <3>3, <4>4, <4>5 DEF PartHeader, FrameHeader
    <3>5. IF Len(plan) = 1 THEN TRUE ELSE Len(plan) \in 2 .. MaxParts
      BY <1>5, <2>2
    <3> QED
      BY <3>2, <3>3, <3>4, <3>5 DEF Valid, from, to, rects, bodies
  <2> QED
    BY <2>2, <2>3 DEF n, rects
<1> QED
  BY <1>8, <1>9

------------------------------------------------------------------------------
\* The steps

\* The invariant holds at first.
LEMMA PixelInit == ASSUME Init PROVE PixelInv
BY DEF Init, PixelInv, Stages, RefusedOnlyIfImpossible, PointerLands

\* prepareCapture keeps it, and so does a detector that refuses its limits.
LEMMA PrepareStep ==
    ASSUME PixelInv, Prepare \/ RefuseLimits
    PROVE  PixelInv'
<1>1. UNCHANGED <<setup, native>> /\ stage' \in {"prepared", "infeasible"}
  BY DEF Prepare, RefuseLimits
<1>2. stage' = "prepared" => image' = Shown
  BY DEF Prepare, RefuseLimits, Shown
<1>3. RefusedOnlyIfImpossible' /\ PointerLands'
  BY <1>1 DEF RefusedOnlyIfImpossible, PointerLands
<1> QED
  BY <1>1, <1>2, <1>3, ShownKept DEF PixelInv, Stages

\* A keyframe keeps it.
LEMMA KeyframeStep ==
    ASSUME PixelInv, stage = "prepared", NEW tiles, CompareKeyframe(tiles)
    PROVE  PixelInv'
<1> DEFINE bands == Banded(Rect(0, 0, image[1], image[2]))
<1>1. /\ setup \in Setups /\ native \in Sizes /\ image = Shown
      /\ UNCHANGED <<setup, native, image, plan, aim>> /\ stage' \in {"refused", "compared"} /\ dirty' = tiles
  BY DEF PixelInv, CompareKeyframe
<1>2. image \in Image
  BY <1>1, ShownIs
<1>3. stage' = "compared" => FrameIs'
  <2> SUFFICES ASSUME stage' = "compared" PROVE FrameIs'
    OBVIOUS
  <2>1. Len(bands) <= MaxRects \/ Len(bands) > MaxRects
    <3>1. Rect(0, 0, image[1], image[2]) \in Rectangle
      BY <1>1, <1>2, WholeIs
    <3>2. bands \in Seq(Rectangle)
      BY <1>1, <3>1, BandIs
    <3>3. Len(bands) \in Nat /\ MaxRects \in Nat
      <4> HIDE DEF bands
      <4> QED
        BY <1>1, <3>2, SetupIs
    <3> HIDE DEF bands
    <3> QED
      BY <3>3
  <2>2. PICK b \in Encoded(bands) : frame' = [keyframe |-> TRUE, rects |-> bands, bodies |-> b]
    BY DEF CompareKeyframe
  <2>3. Len(bands) <= MaxRects
    BY <2>1 DEF CompareKeyframe
  <2>4. FrameOf(Tiles, bands, b)
    BY <1>1, <1>2, <2>3, KeyframeIs
  <2> HIDE DEF bands
  <2>5. FrameOf(IF TRUE THEN Tiles ELSE tiles, bands, b)
    BY <2>4
  <2> QED
    BY <1>1, <2>2, <2>5, FrameIsNow
<1>4. RefusedOnlyIfImpossible' /\ PointerLands'
  BY <1>1 DEF RefusedOnlyIfImpossible, PointerLands
<1> QED
  BY <1>1, <1>3, <1>4, ShownKept DEF PixelInv, Stages

\* Compare keeps it.
LEMMA CompareStep ==
    ASSUME PixelInv, Compare
    PROVE  PixelInv'
<1>1. stage = "prepared"
  BY DEF Compare
<1>2. CASE \E tiles : CompareKeyframe(tiles)
  BY <1>1, <1>2, KeyframeStep
<1>3. CASE ~\E tiles : CompareKeyframe(tiles)
  <2>1. PICK tiles \in (SUBSET Tiles) \ {{}} :
            LET bands == BandedAll(Changed(tiles))
            IN  /\ ~(Len(bands) > MaxRects)
                /\ ~(Cardinality(CellsOf(tiles)) * 100 > DirtyPercent * image[1] * image[2])
                /\ dirty' = tiles /\ stage' = "compared"
                /\ \E b \in Encoded(bands) :
                      frame' = [keyframe |-> FALSE, rects |-> bands, bodies |-> b]
                /\ UNCHANGED <<setup, native, image, plan, aim>>
    BY <1>3, Zenon DEF Compare
  <2> DEFINE bands == BandedAll(Changed(tiles))
  <2>2. PICK b \in Encoded(bands) : frame' = [keyframe |-> FALSE, rects |-> bands, bodies |-> b]
    BY <2>1
  <2>3. /\ setup \in Setups /\ native \in Sizes /\ image = Shown
        /\ UNCHANGED <<setup, native, image, plan, aim>> /\ stage' = "compared" /\ dirty' = tiles
        /\ ~(Len(bands) > MaxRects) /\ tiles \in SUBSET Tiles /\ tiles # {}
        /\ ~(Cardinality(CellsOf(tiles)) * 100 > DirtyPercent * image[1] * image[2])
    <3>1. setup \in Setups /\ native \in Sizes /\ image = Shown
      BY <1>1 DEF PixelInv
    <3>2. /\ UNCHANGED <<setup, native, image, plan, aim>> /\ stage' = "compared" /\ dirty' = tiles
          /\ ~(Len(bands) > MaxRects)
          /\ ~(Cardinality(CellsOf(tiles)) * 100 > DirtyPercent * image[1] * image[2])
      BY <2>1
    <3>3. tiles \in SUBSET Tiles /\ tiles # {}
      BY <2>1
    <3> HIDE DEF bands
    <3> QED
      BY <3>1, <3>2, <3>3
  <2>4. image \in Image
    BY <2>3, ShownIs
  <2>5. Len(bands) <= MaxRects
    <3>1. Tiling(Changed(tiles), CellsOf(tiles))
      BY <2>3, <2>4, ChangedTiles
    <3>2. Tiling(bands, CellsOf(tiles))
      BY <2>3, <3>1, BandedAllTiles
    <3>3. Len(bands) \in Nat /\ MaxRects \in Nat
      BY <2>3, <3>2, SetupIs DEF Tiling
    <3> HIDE DEF bands
    <3> QED
      BY <2>3, <3>3
  <2>6. FrameOf(tiles, bands, b)
    BY <2>2, <2>3, <2>4, <2>5, DeltaIs
  <2> HIDE DEF bands
  <2>7. FrameOf(IF FALSE THEN Tiles ELSE tiles, bands, b)
    BY <2>6
  <2>8. FrameIs'
    BY <2>2, <2>3, <2>7, FrameIsNow
  <2>9. RefusedOnlyIfImpossible' /\ PointerLands'
    BY <2>3 DEF RefusedOnlyIfImpossible, PointerLands
  <2> QED
    BY <2>3, <2>8, <2>9, ShownKept DEF PixelInv, Stages
<1> QED
  BY <1>2, <1>3

\* A single rectangle is a part, when one row of the image is within the budget.
LEMMA SinglesFit ==
    ASSUME setup \in Setups, image \in Image, FrameIs, image[1] * setup.cell <= Budget
    PROVE  \A j \in 1 .. Len(frame.bodies) : PartFits(frame.bodies, j, j)
<1> DEFINE rects == frame.rects
           bodies == frame.bodies
           n == Len(rects)
           tiles == IF frame.keyframe THEN Tiles ELSE dirty
<1>1. /\ Tiling(rects, CellsOf(tiles)) /\ n \in 1 .. MaxRects
      /\ bodies \in Seq(Nat) /\ Len(bodies) = n
      /\ \A i \in 1 .. n : bodies[i] <= RawLength(rects[i])
      /\ \A i \in 1 .. n : RawLength(rects[i]) <= Budget
  BY DEF FrameIs, FrameOf
<1> HIDE DEF tiles
<1>2. rects \in Seq(Rectangle) /\ n \in Nat /\ \A i \in 1 .. n : rects[i] \in Rectangle
  <2>1. rects \in Seq(Rectangle)
    BY <1>1 DEF Tiling
  <2> QED
    BY <2>1
<1> HIDE DEF rects, bodies, n
<1>3. PICK g : WeightOf(g, bodies)
  BY <1>1, HasWeight
<1>4. /\ Budget \in Nat /\ Payload \in Nat /\ Budget <= Payload - WireFloor
  <2>1. /\ setup.cell \in Nat \ {0} /\ image[1] \in Nat \ {0} /\ Budget \in Nat /\ Payload \in Nat
        /\ Payload > WireFloor => Budget <= Payload - WireFloor
        /\ Payload <= WireFloor => Budget = 0
    BY SetupIs DEF Image
  <2>2. image[1] * setup.cell \in Nat \ {0}
    BY <2>1
  <2> QED
    BY <2>1, <2>2 DEF WireFloor, PartHeader, RectHeader
<1>5. ASSUME NEW j \in 1 .. n PROVE PartFits(bodies, j, j)
  <2>1. j \in 1 .. Len(bodies) /\ j \in j .. Len(bodies)
    BY <1>1, <1>2
  <2>2. PartFits(bodies, j, j) <=> PartHeader + (g[j] - g[j - 1]) <= Payload
    BY <1>1, <1>3, <2>1, FitsIs
  <2> DEFINE b == bodies[j]
             p == g[j - 1]
             raw == RawLength(rects[j])
  <2>3. g[j] = p + RectHeader + b /\ p \in Nat /\ b \in Nat
    <3>1. g \in [0 .. Len(bodies) -> Nat] /\ j - 1 \in 0 .. Len(bodies)
      BY <1>1, <1>2, <1>3 DEF WeightOf
    <3>2. bodies[j] \in Nat
      BY <1>1, <2>1
    <3> QED
      BY <1>3, <2>1, <3>1, <3>2 DEF WeightOf
  <2>4. b <= raw /\ raw <= Budget /\ raw \in Nat
    BY <1>1, <1>2, RawLengthIs
  <2> HIDE DEF b, p, raw
  <2>5. g[j] - p = RectHeader + b
    BY <2>3 DEF RectHeader
  <2>6. PartHeader + (RectHeader + b) <= Payload
    BY <1>4, <2>3, <2>4 DEF PartHeader, RectHeader, WireFloor
  <2> QED
    BY <2>2, <2>5, <2>6 DEF p
<1> QED
  BY <1>1, <1>5 DEF bodies, n

\* planFrame keeps it.
LEMMA PlanStep ==
    ASSUME PixelInv, PlanFrame
    PROVE  PixelInv'
<1> DEFINE bodies == frame.bodies
<1>1. /\ setup \in Setups /\ native \in Sizes /\ image = Shown /\ FrameIs
      /\ UNCHANGED <<setup, native, image, dirty, frame, aim>>
      /\ plan' = Plan(bodies) /\ stage' = IF plan' = <<>> THEN "unsendable" ELSE "planned"
  BY DEF PixelInv, PlanFrame
<1>2. image \in Image
  BY <1>1, ShownIs
<1>3. FrameIs'
  BY <1>1, FrameIsKept
<1>4. bodies \in Seq(Nat) /\ Len(bodies) >= 1
  <2>1. bodies \in Seq(Nat) /\ Len(bodies) = Len(frame.rects) /\ Len(frame.rects) \in 1 .. MaxRects
    BY <1>1 DEF FrameIs, FrameOf
  <2> QED
    BY <2>1
<1>5. ASSUME stage' = "planned" PROVE PlanIs'
  <2>1. plan' # <<>>
    BY <1>1, <1>5
  <2>2. CASE setup.version = 1
    <3>1. plan' = <<<<1, Len(bodies)>>>>
      BY <1>1, <2>2 DEF Plan
    <3> QED
      BY <1>1, <2>2, <3>1 DEF PlanIs
  <2>3. CASE setup.version # 1
    <3>1. plan' = Split(bodies)
      BY <1>1, <2>3 DEF Plan
    <3>2. Packs(Split(bodies), bodies)
      BY <1>1, <1>4, <2>1, <3>1, SplitPacks
    <3>3. Packs(plan', bodies)
      BY <3>1, <3>2
    <3>4. Packs(plan, frame.bodies)'
      BY <1>1, <3>3, LimitsKept DEF Packs, PartFits
    <3> QED
      BY <1>1, <2>3, <3>4 DEF PlanIs
  <2> QED
    BY <2>2, <2>3
<1>6. RefusedOnlyIfImpossible'
  <2> SUFFICES ASSUME stage' = "unsendable" PROVE RefusedOnlyIfImpossible'
    BY DEF RefusedOnlyIfImpossible
  <2>1. plan' = <<>>
    BY <1>1
  <2>2. setup.version # 1
    <3>1. Len(<<<<1, Len(bodies)>>>>) # Len(<<>>)
      OBVIOUS
    <3> QED
      BY <1>1, <2>1, <3>1 DEF Plan
  <2>3. Split(bodies) = <<>>
    BY <1>1, <2>1, <2>2 DEF Plan
  <2>4. /\ \A cuts \in SUBSET (1 .. Len(bodies) - 1) : Cardinality(cuts) < MaxParts => ~Works(bodies, cuts)
        /\ MaxParts >= 2 /\ (\A j \in 1 .. Len(bodies) : PartFits(bodies, j, j)) =>
              PayloadSize(FrameHeader, bodies, 1, Len(bodies)) > Payload
    BY <1>1, <1>4, <2>3, SplitRefuses
  <2>5. image[1] * setup.cell <= Budget /\ MaxParts >= 2 => PayloadSize(FrameHeader, bodies, 1, Len(bodies)) > Payload
    BY <1>1, <1>2, <2>4, SinglesFit
  <2>6. RefusedOnlyIfImpossible' <=>
          /\ \A cuts \in SUBSET (1 .. Len(bodies) - 1) : Cardinality(cuts) < MaxParts => ~Works(bodies, cuts)
          /\ image[1] * setup.cell <= Budget /\ MaxParts >= 2 =>
                PayloadSize(FrameHeader, bodies, 1, Len(bodies)) > Payload
    BY <1>1, LimitsKept DEF RefusedOnlyIfImpossible, Works, From, PartFits
  <2> QED
    BY <2>4, <2>5, <2>6
<1>7. PointerLands'
  BY <1>1 DEF PointerLands
<1> QED
  BY <1>1, <1>3, <1>5, <1>6, <1>7, ShownKept DEF PixelInv, Stages

\* A pointer event keeps it.
LEMMA PointStep ==
    ASSUME PixelInv, NEW view \in Views, NEW x \in 0 .. view[1] - 1, NEW y \in 0 .. view[2] - 1,
           Point(view, <<x, y>>)
    PROVE  PixelInv'
<1> DEFINE at == <<x, y>>
           block == 2 ^ (IF setup.version = 1 THEN Factor(native) ELSE 0)
           whole == view[1] * image[2] <= view[2] * image[1]
           scaleNum == IF whole THEN view[1] ELSE view[2]
           scaleDen == IF whole THEN image[1] ELSE image[2]
           inside(i) == 2 * at[i] * scaleDen - (view[i] * scaleDen - image[i] * scaleNum)
<1>1. /\ setup \in Setups /\ native \in Sizes /\ image = Shown
      /\ UNCHANGED <<setup, native, image, dirty, frame, plan>> /\ stage' = "pointed"
  BY DEF PixelInv, Point
<1>9. PICK remote \in Mapped(view, at, 1) \X Mapped(view, at, 2) :
         /\ \A i \in {1, 2} : remote[i] \in 0 .. image[i] - 1
         /\ aim' = [view |-> view, at |-> at, remote |-> remote,
                    pixel |-> <<Remap(remote[1], image[1], native[1]), Remap(remote[2], image[2], native[2])>>]
  BY Zenon DEF Point
<1>2. native \in Size /\ image \in Image /\ Factor(native) \in 0 .. 31
      /\ (setup.version = 1 => \A i \in {1, 2} : image[i] = native[i] \div 2^Factor(native))
      /\ (setup.version # 1 => image = native)
  BY <1>1, ShownIs DEF Shown
<1>3. view \in (Nat \ {0}) \X (Nat \ {0}) /\ view[1] \in Nat /\ view[2] \in Nat
  <2>1. view \in (1 .. HighestView) \X (1 .. HighestView)
    BY PixelAssumption
  <2>2. \A k \in 1 .. HighestView : k \in Nat \ {0} /\ k \in Nat
    OBVIOUS
  <2> QED
    BY <2>1, <2>2, Zenon
<1>4. \A i \in {1, 2} : at[i] \in Nat
  BY <1>3
<1> DEFINE p(i) == Remap(remote[i], image[i], native[i])
<1>5. ASSUME NEW i \in {1, 2}
      PROVE  /\ p(i) \in 0 .. native[i] - 1 /\ p(i) >= remote[i] * block /\ p(i) < (remote[i] + 2) * block
             /\ remote[i] = image[i] - 1 /\ image[i] > 1 => p(i) = native[i] - 1
  <2> DEFINE shown == image[i]
             actual == native[i]
             r == remote[i]
             B == block
  <2>1. shown \in Nat \ {0} /\ actual \in Nat /\ r \in 0 .. shown - 1
    <3>1. \A k \in 1 .. HighestSide : k \in Nat
      OBVIOUS
    <3>2. native[i] \in 1 .. HighestSide
      BY <1>2, Zenon DEF Size
    <3>3. image[i] \in Nat \ {0}
      BY <1>2 DEF Image
    <3> QED
      BY <1>9, <3>1, <3>2, <3>3
  <2>2. B \in Nat \ {0} /\ shown * B <= actual /\ actual < shown * B + B
    <3>1. CASE setup.version = 1
      <4>1. B = 2^Factor(native) /\ shown = actual \div 2^Factor(native)
        BY <1>2, <3>1
      <4> DEFINE F == 2^Factor(native)
      <4>2. F \in Nat \ {0}
        BY <1>2, Powers
      <4> HIDE DEF F, actual, shown
      <4>3. (actual \div F) * F <= actual /\ actual < (actual \div F) * F + F
        BY <2>1, <4>2, Quotient
      <4> QED
        BY <4>1, <4>2, <4>3 DEF F
    <3>2. CASE setup.version # 1
      <4>1. B = 2^0 /\ 2^0 = 1
        BY <3>2
      <4>2. B = 1 /\ shown = actual
        BY <1>2, <3>2, <4>1
      <4> HIDE DEF B, actual, shown
      <4> QED
        BY <2>1, <4>2
    <3> QED
      BY <3>1, <3>2
  <2> HIDE DEF shown, actual, r, B
  <2>3. LET q == Remap(r, shown, actual)
        IN  /\ q \in 0 .. actual - 1 /\ q >= r * B /\ q < (r + 2) * B
            /\ r = shown - 1 /\ shown > 1 => q = actual - 1
    BY <2>1, <2>2, RemapIs
  <2> QED
    BY <2>3 DEF shown, actual, r, B
<1>6. ASSUME NEW i \in {1, 2}
      PROVE  2 * remote[i] * scaleNum <= inside(i) /\ inside(i) <= 2 * (remote[i] + 1) * scaleNum
  <2>1. remote[i] \in Mapped(view, at, i)
    OBVIOUS
  <2>2. at[i] \in Nat /\ image \in (Nat \ {0}) \X (Nat \ {0})
    BY <1>2, <1>4 DEF Image
  <2> HIDE DEF at
  <2> QED
    BY <1>3, <2>1, <2>2, MappedIs
<1>7. PointerLands'
  <2>1. /\ aim'.view = view /\ aim'.at = at /\ aim'.remote = remote
        /\ \A i \in {1, 2} : aim'.pixel[i] = p(i)
    BY <1>9
  <2> HIDE DEF at
  <2>2. (2 ^ (IF setup.version = 1 THEN Factor(native) ELSE 0))' = block
    BY <1>1, FactorKept
  <2>3. setup' = setup /\ native' = native /\ image' = image
    BY <1>1
  <2> HIDE DEF block, p
  <2>4. \A i \in {1, 2} :
          LET r == aim'.remote[i]
              q == aim'.pixel[i]
          IN  /\ 2 * r * scaleNum <= inside(i) /\ inside(i) <= 2 * (r + 1) * scaleNum
              /\ q \in 0 .. native[i] - 1 /\ q >= r * block /\ q < (r + 2) * block
              /\ r = image[i] - 1 /\ image[i] > 1 => q = native[i] - 1
    BY <1>5, <1>6, <2>1
  <2> QED
    BY <2>1, <2>2, <2>3, <2>4, Zenon DEF PointerLands
<1>8. RefusedOnlyIfImpossible'
  BY <1>1 DEF RefusedOnlyIfImpossible
<1> QED
  BY <1>1, <1>7, <1>8, ShownKept DEF PixelInv, Stages

\* Every step keeps it.
LEMMA PixelNext ==
    ASSUME PixelInv, [Next]_vars
    PROVE  PixelInv'
BY Unmoved, PrepareStep, CompareStep, PlanStep, PointStep DEF Next

------------------------------------------------------------------------------
\* The theorems

\* The inductive invariant: what the image, the frame and the plan are made of.
THEOREM PixelInvariant == Spec => []PixelInv
BY PixelInit, PixelNext, PTL DEF Spec

\* For every image, limits and dirty tiles, the rectangles Compare makes are disjoint, few enough, and
\* cover exactly what changed (damage.go:201-258, 332-351).
THEOREM CoverageCorrect == Spec => []RectanglesCoverDamage
BY PixelInvariant, CoverageFollows, PTL

\* For every image and limits, the messages of what planFrame lets through pass ValidateMessage, in
\* v2 by the parts of SplitFrame and in v1 because prepareCapture made the frame fit.
THEOREM AcceptedCorrect == Spec => []PlanIsAccepted
BY PixelInvariant, AcceptedFollows, PTL

\* SplitFrame, which packs by greed, refuses only what no packing could send, for all bodies and limits.
THEOREM RefusalCorrect == Spec => []RefusedOnlyIfImpossible
<1>1. PixelInv => RefusedOnlyIfImpossible
  BY DEF PixelInv
<1> QED
  BY <1>1, PixelInvariant, PTL

\* A pointer lands in the pixel the user aimed at (on a border of two, in one of them), and within a
\* block of it on the native screen, for every view below 2^16 each way, capture and factor
\* (MapCoordinates, remapCoordinate).
THEOREM PointerCorrect == Spec => []PointerLands
<1>1. PixelInv => PointerLands
  BY DEF PixelInv
<1> QED
  BY <1>1, PixelInvariant, PTL
=============================================================================
