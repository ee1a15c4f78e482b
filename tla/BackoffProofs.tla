----------------------------- MODULE BackoffProofs -----------------------------
(***************************************************************************)
(* Theorems about Backoff: the delays for every configuration, width of    *)
(* the power, reading of the clock and length of a series of failures.     *)
(***************************************************************************)
EXTENDS Backoff, WellFoundedInduction, TLAPS

\* A set of numbers that is not empty has a least one: what is shown for the least
\* counterexample is shown for all.
LEMMA LeastNumber ==
  ASSUME NEW T, T \subseteq Nat, T # {}
  PROVE  \E x \in T : \A y \in T : x <= y
<1>1. PICK x \in T : \A y \in T : <<y, x>> \notin OpToRel(<, Nat)
  <2> HIDE DEF OpToRel
  <2> QED BY NatLessThanWellFounded, WFMin
<1>2. \A y \in T : x \in Nat /\ y \in Nat /\ ~(y < x)
  BY <1>1 DEF OpToRel
<1>3. \A y \in T : x <= y
  BY <1>2
<1> QED BY <1>3

-------------------------------------------------------------------------------
(* Powers of two *)

\* The equations of the powers, up to m.
Begins(g, m) == \A n \in 0 .. m : g[n] = IF n = 0 THEN 1 ELSE 2 * g[n - 1]

\* There are powers up to every m.
LEMMA PowersBegin == \A m \in Nat : \E g : Begins(g, m)
<1> DEFINE T == {m \in Nat : ~\E g : Begins(g, m)}
<1> SUFFICES ASSUME T # {}  PROVE FALSE
  OBVIOUS
<1>1. PICK m \in T : \A k \in T : m <= k
  <2> HIDE DEF T
  <2>1. T \subseteq Nat
    BY DEF T
  <2> QED BY <2>1, LeastNumber
<1>2. CASE m = 0
  <2>1. Begins([n \in {0} |-> 1], 0)
    BY DEF Begins
  <2> QED BY <1>1, <1>2, <2>1
<1>3. CASE m # 0
  <2>1. m - 1 \in Nat /\ m - 1 \notin T
    BY <1>1, <1>3
  <2>2. PICK g : Begins(g, m - 1)
    BY <2>1
  <2> DEFINE h == [n \in 0 .. m |-> IF n = m THEN 2 * g[m - 1] ELSE g[n]]
  <2>3. ASSUME NEW n \in 0 .. m  PROVE h[n] = IF n = 0 THEN 1 ELSE 2 * h[n - 1]
    <3>1. CASE n = m
      <4>1. h[n] = 2 * g[n - 1] /\ n - 1 \in 0 .. m /\ n - 1 # m
        BY <1>3, <2>1, <3>1
      <4> QED BY <1>3, <3>1, <4>1
    <3>2. CASE n # m
      <4>1. n \in 0 .. m - 1
        BY <2>1, <3>2
      <4>2. h[n] = g[n] /\ (n # 0 => h[n - 1] = g[n - 1])
        BY <2>1, <3>2
      <4> QED BY <2>2, <4>1, <4>2 DEF Begins
    <3> QED BY <3>1, <3>2
  <2>4. Begins(h, m)
    <3> HIDE DEF h
    <3> QED BY <2>3 DEF Begins
  <2> QED BY <1>1, <2>4
<1> QED BY <1>2, <1>3

\* They are the same powers.
LEMMA PowersAgree ==
  ASSUME NEW m \in Nat, NEW k \in Nat, NEW g, NEW h, Begins(g, m), Begins(h, k)
  PROVE  \A n \in Nat : n <= m /\ n <= k => g[n] = h[n]
<1> DEFINE T == {n \in Nat : n <= m /\ n <= k /\ g[n] # h[n]}
<1> SUFFICES ASSUME T # {}  PROVE FALSE
  OBVIOUS
<1>1. PICK n \in T : \A i \in T : n <= i
  <2>1. T \subseteq Nat
    OBVIOUS
  <2> HIDE DEF T
  <2> QED BY <2>1, LeastNumber
<1>2. n \in 0 .. m /\ n \in 0 .. k /\ g[n] # h[n]
  BY <1>1
<1>3. n # 0
  BY <1>2 DEF Begins
<1>4. g[n - 1] = h[n - 1]
  <2>1. n - 1 \in Nat /\ n - 1 \notin T /\ n - 1 <= m /\ n - 1 <= k
    BY <1>1, <1>2, <1>3
  <2> QED BY <2>1
<1> QED BY <1>2, <1>3, <1>4 DEF Begins

\* The powers of two are what their equations say.
LEMMA PowerEquation ==
  \A n \in Nat : PowersOfTwo[n] = IF n = 0 THEN 1 ELSE 2 * PowersOfTwo[n - 1]
<1> DEFINE upTo(n) == CHOOSE g : Begins(g, n)
           F == [n \in Nat |-> upTo(n)[n]]
<1>1. \A n \in Nat : Begins(upTo(n), n)
  BY PowersBegin
<1> HIDE DEF upTo
<1>2. ASSUME NEW n \in Nat  PROVE F[n] = IF n = 0 THEN 1 ELSE 2 * F[n - 1]
  <2>1. upTo(n)[n] = IF n = 0 THEN 1 ELSE 2 * upTo(n)[n - 1]
    BY <1>1 DEF Begins
  <2>2. n # 0 => upTo(n)[n - 1] = upTo(n - 1)[n - 1]
    <3>1. n # 0 => n - 1 \in Nat /\ n - 1 <= n /\ n - 1 <= n - 1
      OBVIOUS
    <3> QED BY <1>1, <3>1, PowersAgree
  <2> QED BY <2>1, <2>2
<1>3. F = [n \in Nat |-> IF n = 0 THEN 1 ELSE 2 * F[n - 1]]
  <2>1. F = [n \in Nat |-> F[n]]
    OBVIOUS
  <2> HIDE DEF F
  <2> QED BY <1>2, <2>1
<1> HIDE DEF F
<1>4. PowersOfTwo = [n \in Nat |-> IF n = 0 THEN 1 ELSE 2 * PowersOfTwo[n - 1]]
  BY <1>3 DEF PowersOfTwo
<1> QED BY <1>4

\* They are numbers, each twice the one before.
LEMMA PowersDouble ==
  \A n \in Nat : PowersOfTwo[n] \in Nat \ {0} /\ PowersOfTwo[n + 1] = 2 * PowersOfTwo[n]
<1> DEFINE T == {n \in Nat : PowersOfTwo[n] \notin Nat \ {0}}
<1>1. T = {}
  <2> SUFFICES ASSUME T # {}  PROVE FALSE
    OBVIOUS
  <2>1. PICK n \in T : \A i \in T : n <= i
    <3>1. T \subseteq Nat
      OBVIOUS
    <3> HIDE DEF T
    <3> QED BY <3>1, LeastNumber
  <2>2. n # 0
    BY <2>1, PowerEquation
  <2>3. n - 1 \in Nat /\ PowersOfTwo[n - 1] \in Nat \ {0}
    BY <2>1, <2>2
  <2>4. PowersOfTwo[n] = 2 * PowersOfTwo[n - 1]
    BY <2>1, <2>2, PowerEquation
  <2> QED BY <2>1, <2>3, <2>4
<1>2. \A n \in Nat : n + 1 \in Nat /\ n + 1 # 0 /\ (n + 1) - 1 = n
  OBVIOUS
<1> QED BY <1>1, <1>2, PowerEquation

\* The saturating power: a positive number that doubles below the width and never falls.
LEMMA PowSaturates ==
  ASSUME NEW n \in Nat
  PROVE  /\ SaturatingPow(n) \in Nat \ {0} /\ SaturatingPow(n) <= SaturatingPow(n + 1)
         /\ n + 1 < PowBits => SaturatingPow(n + 1) = 2 * SaturatingPow(n)
<1>1. PowBits - 1 \in Nat /\ (PowBits - 1) + 1 = PowBits /\ n + 1 \in Nat
  BY PowAssumption
<1>2. PowersOfTwo[PowBits] = 2 * PowersOfTwo[PowBits - 1] /\ PowersOfTwo[PowBits - 1] \in Nat \ {0}
  BY <1>1, PowersDouble
<1>3. PowersOfTwo[n] \in Nat \ {0} /\ PowersOfTwo[n + 1] = 2 * PowersOfTwo[n]
  BY PowersDouble
<1>4. CASE n + 1 < PowBits
  BY <1>1, <1>3, <1>4, PowAssumption DEF SaturatingPow
<1>5. CASE n + 1 = PowBits
  <2>1. n < PowBits /\ ~(n + 1 < PowBits)
    BY <1>5, PowAssumption
  <2>2. SaturatingPow(n) = PowersOfTwo[n] /\ SaturatingPow(n + 1) = 2 * PowersOfTwo[n] - 1
    BY <1>3, <1>5, <2>1 DEF SaturatingPow
  <2> QED BY <1>3, <2>1, <2>2
<1>6. CASE n >= PowBits
  <2>1. ~(n < PowBits) /\ ~(n + 1 < PowBits)
    BY <1>6, PowAssumption
  <2> QED BY <1>2, <2>1 DEF SaturatingPow
<1> QED BY <1>4, <1>5, <1>6, PowAssumption

-------------------------------------------------------------------------------
(* Delays *)

\* A product grows with its factor.
LEMMA Multiply ==
  ASSUME NEW a \in Int, NEW b \in Int, NEW m \in Nat
  PROVE  /\ a * m \in Int /\ (a \in Nat => a * m \in Nat)
         /\ a <= b => a * m <= b * m
         /\ a \in Nat /\ b \in Nat \ {0} => a <= a * b
OBVIOUS

\* Division with what it cuts off.
LEMMA Divide ==
  ASSUME NEW x \in Nat, NEW d \in Nat \ {0}
  PROVE  /\ x \div d \in Nat
         /\ (x \div d) * d <= x /\ x < (x \div d) * d + d
OBVIOUS

\* The capped delay keeps to the maximum, to that of a Duration, and to the base.
LEMMA CappedBounds ==
  ASSUME NEW n \in Nat, NEW b \in 0 .. DurationMax, NEW m \in 0 .. DurationMax
  PROVE  /\ Capped(n, b, m) \in Nat
         /\ b >= Milli /\ m >= Milli => Capped(n, b, m) >= Milli
<1>1. Doublings(n) \in Nat
  BY DEF Doublings
<1>2. SaturatingPow(Doublings(n)) \in Nat \ {0}
  BY <1>1, PowSaturates
<1> DEFINE p == SaturatingPow(Doublings(n))
<1> HIDE DEF p
<1>3. b * p \in Nat /\ b <= b * p
  BY <1>2, Multiply, DurationAssumption DEF p
<1> QED BY <1>3, DurationAssumption, MilliAssumption DEF Capped, AtMost, p

\* Jitter moves a delay by a quarter at most, up to the millisecond that is cut off, and
\* leaves a millisecond of it.
LEMMA JitterBounds ==
  ASSUME NEW x \in Nat, NEW nanos \in Nat
  PROVE  LET d == Jittered(x, nanos) IN
         /\ d \in Nat /\ 4 * d <= 5 * x /\ 4 * d + 3 * Milli > 3 * x
         /\ x >= Milli => d > 0
<1> DEFINE ms    == x \div Milli
           range == ms \div 4
           total == ms + (nanos % (range * 2)) - range
<1>1. ms \in Nat /\ ms * Milli <= x /\ x < ms * Milli + Milli /\ Milli \in Nat \ {0}
  BY Divide, MilliAssumption
<1>2. range \in Nat /\ range * 4 <= ms
  <2> HIDE DEF ms
  <2> QED BY <1>1
<1>3. CASE range > 0
  <2>1. nanos % (range * 2) \in 0 .. range * 2 - 1
    <3> HIDE DEF range
    <3> QED BY <1>2, <1>3
  <2>2. total \in Nat \ {0} /\ 4 * total <= 5 * ms /\ 4 * total >= 3 * ms
    <3> DEFINE j == nanos % (range * 2)
    <3> HIDE DEF j, ms, range
    <3> QED BY <1>1, <1>2, <1>3, <2>1 DEF j
  <2>3. Jittered(x, nanos) = total * Milli
    BY <1>3, <2>2 DEF Jittered
  <2> HIDE DEF total, ms
  <2>4. /\ total * Milli \in Nat /\ total * Milli > 0
        /\ 4 * (total * Milli) <= 5 * (ms * Milli)
        /\ 4 * (total * Milli) >= 3 * (ms * Milli)
    <3>1. /\ (4 * total) * Milli <= (5 * ms) * Milli
          /\ (3 * ms) * Milli <= (4 * total) * Milli
      BY <1>1, <2>2, Multiply
    <3>2. total * Milli \in Nat /\ total <= total * Milli
      BY <1>1, <2>2, Multiply
    <3> QED BY <1>1, <2>2, <3>1, <3>2
  <2> QED BY <1>1, <2>3, <2>4
<1>4. CASE ~(range > 0)
  <2>1. Jittered(x, nanos) = x
    BY <1>4 DEF Jittered
  <2> QED BY <1>1, <2>1
<1> QED BY <1>3, <1>4

\* One more failure: the capped delay does not fall, and doubles unless it is cut off.
LEMMA CappedDoubles ==
  ASSUME NEW n \in Nat, n > 0, NEW b \in 0 .. DurationMax, NEW m \in 0 .. DurationMax
  PROVE  /\ Capped(n + 1, b, m) >= Capped(n, b, m)
         /\ Capped(n + 1, b, m) \in {2 * Capped(n, b, m), m, DurationMax} \/ n >= PowBits
<1> DEFINE p == SaturatingPow(n - 1)
           q == SaturatingPow(n)
<1>1. /\ p \in Nat \ {0} /\ q \in Nat \ {0} /\ p <= q
      /\ n < PowBits => q = 2 * p
  <2>1. n - 1 \in Nat /\ (n - 1) + 1 = n
    OBVIOUS
  <2> QED BY <2>1, PowSaturates
<1>2. Doublings(n) = n - 1 /\ Doublings(n + 1) = n
  BY DEF Doublings
<1>3. /\ Capped(n, b, m) = AtMost(AtMost(b * p, DurationMax), m)
      /\ Capped(n + 1, b, m) = AtMost(AtMost(b * q, DurationMax), m)
  BY <1>2 DEF Capped
<1> HIDE DEF p, q
<1>4. b * p \in Nat /\ b * q \in Nat /\ b * p <= b * q /\ (q = 2 * p => b * q = 2 * (b * p))
  <2>1. b * p = p * b /\ b * q = q * b /\ b \in Nat
    BY <1>1, DurationAssumption
  <2>2. p * b \in Nat /\ q * b \in Nat /\ p * b <= q * b
    BY <1>1, <2>1, Multiply
  <2>3. q = 2 * p => q * b = 2 * (p * b)
    BY <1>1, <2>1
  <2> QED BY <2>1, <2>2, <2>3
<1> DEFINE x == b * p
           y == b * q
<1>5. x \in Nat /\ y \in Nat /\ x <= y /\ (n < PowBits => y = 2 * x)
  BY <1>1, <1>4
<1> HIDE DEF x, y
<1>6. /\ AtMost(AtMost(y, DurationMax), m) >= AtMost(AtMost(x, DurationMax), m)
      /\ \/ AtMost(AtMost(y, DurationMax), m) \in
               {2 * AtMost(AtMost(x, DurationMax), m), m, DurationMax}
         \/ n >= PowBits
  BY <1>5, DurationAssumption, PowAssumption DEF AtMost
<1> QED BY <1>3, <1>6 DEF x, y

-------------------------------------------------------------------------------
(* The theorems *)

Inv == TypeOK /\ WithinQuarter /\ NeverHot

\* The configuration is one that was considered.
LEMMA ConfigTyped ==
  ASSUME TypeOK
  PROVE  base \in 0 .. DurationMax /\ max \in 0 .. DurationMax /\ attempt \in Nat
BY ConfigAssumption, BoundAssumption DEF TypeOK

\* Each failure computes a delay within the bounds, a success leaves none to compare.
LEMMA InvKeeps ==
  ASSUME Inv, [Next]_vars
  PROVE  Inv'
<1> USE DEF Inv
<1>1. CASE DialFails
  <2>1. base \in 0 .. DurationMax /\ max \in 0 .. DurationMax /\ attempt \in Nat
    BY ConfigTyped
  <2>2. PICK n \in Nanos : delay' = CalculateBackoff(attempt', base, max, n)
    BY <1>1 DEF DialFails
  <2>3. n \in Nat /\ attempt' = attempt + 1 /\ attempt' \in Nat /\ UNCHANGED <<base, max>>
    BY <1>1, <2>1, NanosAssumption DEF DialFails
  <2> DEFINE x == Capped(attempt', base, max)
  <2>4. x \in Nat /\ (base >= Milli /\ max >= Milli => x >= Milli)
    BY <2>1, <2>3, CappedBounds
  <2>5. delay' = Jittered(x, n)
    BY <2>2 DEF CalculateBackoff
  <2>6. x = Capped(attempt, base, max)'
    BY <2>3 DEF Capped, Doublings, SaturatingPow
  <2> HIDE DEF x
  <2>7. /\ delay' \in Nat /\ 4 * delay' <= 5 * x /\ 4 * delay' + 3 * Milli > 3 * x
        /\ x >= Milli => delay' > 0
    BY <2>3, <2>4, <2>5, JitterBounds
  <2>8. attempt' \in 0 .. AttemptBound
    BY <1>1, <2>1, <2>3, BoundAssumption DEF DialFails
  <2>9. TypeOK'
    BY <2>3, <2>7, <2>8 DEF TypeOK
  <2>10. WithinQuarter'
    BY <2>6, <2>7 DEF WithinQuarter
  <2>11. NeverHot'
    BY <2>3, <2>4, <2>7 DEF NeverHot
  <2> QED BY <2>9, <2>10, <2>11
<1>2. CASE DialSucceeds
  BY <1>2, BoundAssumption DEF DialSucceeds, TypeOK, WithinQuarter, NeverHot
<1>3. CASE UNCHANGED vars
  BY <1>3 DEF vars, TypeOK, WithinQuarter, NeverHot, Capped, Doublings, SaturatingPow
<1> QED BY <1>1, <1>2, <1>3 DEF Next

\* Before the first dial there is no delay.
LEMMA InvHolds == Init => Inv
BY BoundAssumption DEF Init, Inv, TypeOK, WithinQuarter, NeverHot

\* Every delay is a duration, never negative, for every configuration.
THEOREM BackoffTypeCorrect == Spec => []TypeOK
<1>1. Inv /\ [Next]_vars => Inv'
  BY InvKeeps
<1>2. Inv => TypeOK
  BY DEF Inv
<1> QED BY InvHolds, <1>1, <1>2, PTL DEF Spec

\* The jitter keeps every sleep within a quarter of the capped delay.
THEOREM BackoffWithinQuarter == Spec => []WithinQuarter
<1>1. Inv /\ [Next]_vars => Inv'
  BY InvKeeps
<1>2. Inv => WithinQuarter
  BY DEF Inv
<1> QED BY InvHolds, <1>1, <1>2, PTL DEF Spec

\* With delays of a millisecond or more there is a sleep after every failed dial, however
\* long the series.
THEOREM BackoffNeverHot == Spec => []NeverHot
<1>1. Inv /\ [Next]_vars => Inv'
  BY InvKeeps
<1>2. Inv => NeverHot
  BY DEF Inv
<1> QED BY InvHolds, <1>1, <1>2, PTL DEF Spec

\* A further failure never shortens the delay that jitter is added to, and doubles it
\* unless the maximum or the width of the power cuts it off.
THEOREM BackoffDoubles == Spec => Doubles
<1> DEFINE D == attempt > 0 /\ attempt' > attempt =>
                  LET old == Capped(attempt, base, max)
                      new == Capped(attempt', base, max)
                  IN  /\ new >= old
                      /\ new \in {2 * old, max, DurationMax} \/ attempt >= PowBits
<1>1. TypeOK /\ [Next]_vars => [D]_vars
  <2> SUFFICES ASSUME TypeOK, [Next]_vars, attempt > 0, attempt' > attempt
               PROVE  LET old == Capped(attempt, base, max)
                          new == Capped(attempt', base, max)
                      IN  /\ new >= old
                          /\ new \in {2 * old, max, DurationMax} \/ attempt >= PowBits
    OBVIOUS
  <2>1. base \in 0 .. DurationMax /\ max \in 0 .. DurationMax /\ attempt \in Nat
    BY ConfigTyped
  <2>2. attempt' = attempt + 1
    BY <2>1 DEF Next, DialFails, DialSucceeds, vars
  <2> QED BY <2>1, <2>2, CappedDoubles
<1> QED BY <1>1, BackoffTypeCorrect, PTL DEF Spec, Doubles

===============================================================================
