------------------------------- MODULE Backoff --------------------------------
(***************************************************************************)
(* calculate_backoff and the delays a connection task sleeps over a series *)
(* of failed dials (src/connection/player_connection.rs).  Durations are   *)
(* in the smallest unit, Milli of which make a millisecond.                *)
(***************************************************************************)
EXTENDS Integers

CONSTANTS
    Milli,         \* units in a millisecond (10^6 nanoseconds in the code)
    PowBits,       \* width of the power of two (u32)
    DurationMax,   \* Duration::MAX, where the product saturates
    Bases, Maxima, \* the configured delays that are considered
    Nanos,         \* values of the clock's subsecond nanoseconds
    AttemptBound   \* bound: the longest series of failed dials

ASSUME MilliAssumption    == Milli \in Nat \ {0}
ASSUME PowAssumption      == PowBits \in Nat \ {0}
ASSUME DurationAssumption == DurationMax \in Nat
ASSUME ConfigAssumption   ==
    Bases \subseteq 0 .. DurationMax /\ Maxima \subseteq 0 .. DurationMax
ASSUME NanosAssumption    == Nanos \subseteq Nat
ASSUME BoundAssumption    == AttemptBound \in Nat

AtMost(x, y) == IF x <= y THEN x ELSE y

PowersOfTwo[n \in Nat] == IF n = 0 THEN 1 ELSE 2 * PowersOfTwo[n - 1]

\* Mutant: a power that wraps.
MutWrappingPow(n) == PowersOfTwo[n] % PowersOfTwo[PowBits]

\* Mutant: the product in place of the power.
MutLinear(n) == IF n < PowBits THEN 2 * n ELSE PowersOfTwo[PowBits] - 1

\* 2u32.saturating_pow(n): the full power below the width, the maximum above.
SaturatingPow(n) == IF n < PowBits THEN PowersOfTwo[n] ELSE PowersOfTwo[PowBits] - 1

\* attempt.saturating_sub(1)
Doublings(attempt) == IF attempt = 0 THEN 0 ELSE attempt - 1

\* exp_delay.min(max)
Capped(attempt, base, max) ==
    AtMost(AtMost(base * SaturatingPow(Doublings(attempt)), DurationMax), max)

\* Mutant: the jitter is not added to the delay.
MutJitterOnly(capped, nanos) ==
    LET range == (capped \div Milli) \div 4
    IN  IF range > 0 THEN ((nanos % (range * 2)) - range) * Milli ELSE capped

\* Mutant: half the delay as jitter.
MutHalf(capped, nanos) ==
    LET ms    == capped \div Milli
        range == ms \div 2
        total == ms + (nanos % (range * 2)) - range
    IN  IF range > 0 THEN (IF total > 0 THEN total ELSE 0) * Milli ELSE capped

\* The delay computed from a capped delay: jitter in whole milliseconds.
Jittered(capped, nanos) ==
    LET ms    == capped \div Milli
        range == ms \div 4
        total == ms + (nanos % (range * 2)) - range
    IN  IF range > 0 THEN (IF total > 0 THEN total ELSE 0) * Milli ELSE capped

CalculateBackoff(attempt, base, max, nanos) ==
    Jittered(Capped(attempt, base, max), nanos)

VARIABLES
    base, max,   \* the configuration
    attempt,     \* the task's attempt counter
    delay        \* what it slept last

vars == <<base, max, attempt, delay>>

Init == base \in Bases /\ max \in Maxima /\ attempt = 0 /\ delay = 0

\* A dial fails and the task comes round to the top of the loop.
DialFails ==
    /\ attempt < AttemptBound
    /\ attempt' = attempt + 1
    /\ \E n \in Nanos : delay' = CalculateBackoff(attempt', base, max, n)
    /\ UNCHANGED <<base, max>>

\* A dial succeeds: the counter starts again.
DialSucceeds ==
    /\ attempt > 0 /\ attempt' = 0
    /\ UNCHANGED <<base, max, delay>>

Next == DialFails \/ DialSucceeds

Spec == Init /\ [][Next]_vars

-------------------------------------------------------------------------------
\* The types of the loop's variables.
TypeOK ==
    /\ base \in Bases /\ max \in Maxima
    /\ attempt \in 0 .. AttemptBound
    /\ delay \in Nat

\* The jitter of "+-25%" (line 481) is that: a sleep is within a quarter of the
\* capped delay, up to the millisecond the conversion cuts off.
WithinQuarter ==
    LET capped == Capped(attempt, base, max) IN
    attempt > 0 => /\ 4 * delay <= 5 * capped
                   /\ 4 * delay + 3 * Milli > 3 * capped

\* With delays of a millisecond or more there is always a sleep between two
\* failed dials: no truncation, saturation or jitter brings it to zero.
NeverHot == attempt > 0 /\ base >= Milli /\ max >= Milli => delay > 0

\* A second failure never shortens the delay that jitter is added to, and
\* doubles it unless the maximum or the width of the power cuts it off.
Doubles ==
    [][attempt > 0 /\ attempt' > attempt =>
         LET old == Capped(attempt, base, max)
             new == Capped(attempt', base, max)
         IN  /\ new >= old
             /\ new \in {2 * old, max, DurationMax} \/ attempt >= PowBits]_vars
===============================================================================
