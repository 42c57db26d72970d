---------------------------- MODULE MovingAverage ----------------------------
(***************************************************************************)
(* MovingAverage<T> (src/moving_average.h): an exponential moving average  *)
(* in 32-bit integers.  T is int16_t or uint16_t.                          *)
(***************************************************************************)
EXTENDS CppIntegers

CONSTANTS
    Alpha32,  \* mAlpha32: the weight of a new sample in 32nds
    Samples   \* the values of T that are fed in

(* No value of int16_t or uint16_t is greater in size. *)
Largest == MaxUInt16

ASSUME AlphaInRange == Alpha32 \in 1..32
ASSUME SamplesFitT == Samples \subseteq -Largest..Largest

VARIABLES
    smoothed,  \* mSmoothed, as an optional value: {} is the sentinel INT32_MIN
    seen       \* the samples since the last reset

vars == <<smoothed, seen>>

(* Variant: the old average keeps its full weight. *)
NumeratorHeavy(sample, old) == Alpha32 * sample + 32 * old

(* The sum of products in update(). *)
Numerator(sample, old) == Alpha32 * sample + (32 - Alpha32) * old

(* Variant: the half is added whatever the sign. *)
RoundedUp(num) == TruncDiv(num + 16, 32)

(* num / 32, rounded to the nearest integer, halves away from zero. *)
Rounded(num) == IF num < 0 THEN TruncDiv(num - 16, 32) ELSE TruncDiv(num + 16, 32)

Blended(sample, old) == Rounded(Numerator(sample, old))

Update(sample) ==
    /\ smoothed' = IF smoothed = {} THEN {sample}
                   ELSE {Blended(sample, old) : old \in smoothed}
    /\ seen' = seen \cup {sample}

(* Variant: the average restarts at zero. *)
ResetToZero ==
    /\ smoothed' = {0}
    /\ seen' = {}

Reset ==
    /\ smoothed' = {}
    /\ seen' = {}

Init ==
    /\ smoothed = {}
    /\ seen = {}

Next == Reset \/ \E sample \in Samples : Update(sample)

Spec == Init /\ [][Next]_vars

-----------------------------------------------------------------------------

(* The type invariant: there is one average once a sample has been seen,   *)
(* and none before.                                                        *)
TypeOK ==
    /\ seen \subseteq Samples
    /\ smoothed \subseteq Int
    /\ \A a, b \in smoothed : a = b
    /\ smoothed = {} <=> seen = {}

(* The average lies between two of the samples since the last reset: the   *)
(* rounding of update() never carries it outside, and the cast back to T   *)
(* keeps its value.                                                        *)
SmoothedInRange ==
    \A value \in smoothed : \E low, high \in seen : low <= value /\ value <= high

(* The sum in update() stays within the bound that its comment derives,    *)
(* "max 32 * 65535 = 2,097,120", far inside int32_t: the old average,      *)
(* which is an int32_t itself, never grows beyond the samples.             *)
SumBounded ==
    \A old \in smoothed, sample \in Samples :
        Numerator(sample, old) \in -(32 * Largest)..(32 * Largest)

Between(a, b, c) == (a <= b /\ b <= c) \/ (c <= b /\ b <= a)

(* A sample pulls the average towards itself and never past itself,        *)
(* whatever the weight and the signs; and the average rests only at the    *)
(* sample, so that a constant input is reached, not merely approached.     *)
(* The rounding allows the latter only where a new sample weighs more than *)
(* half.                                                                   *)
Approaches ==
    [][\A sample \in Samples, old \in smoothed, new \in smoothed' :
          Update(sample) =>
              /\ Between(old, new, sample)
              /\ Alpha32 > 16 /\ new = old => old = sample]_vars

=============================================================================
