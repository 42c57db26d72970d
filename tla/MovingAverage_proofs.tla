------------------------ MODULE MovingAverage_proofs ------------------------
(***************************************************************************)
(* The moving average for every weight and every set of samples of T.      *)
(***************************************************************************)
EXTENDS MovingAverage, TLAPS

(* Integer division by 32 with rounding stays between integer bounds.      *)
LEMMA RoundedBetween ==
    ASSUME NEW num \in Int, NEW low \in Int, NEW high \in Int,
           32 * low <= num, num <= 32 * high
    PROVE  /\ Rounded(num) \in Int
           /\ low <= Rounded(num)
           /\ Rounded(num) <= high
BY DEF Rounded, TruncDiv

(* More than a half above or below an integer is rounded away from it.     *)
LEMMA RoundedAway ==
    ASSUME NEW num \in Int, NEW x \in Int
    PROVE  /\ 32 * x + 17 <= num => x < Rounded(num)
           /\ num <= 32 * x - 17 => Rounded(num) < x
BY DEF Rounded, TruncDiv

(* Multiplying by a natural number preserves the order.                    *)
LEMMA Monotone ==
    ASSUME NEW w \in Nat, NEW x \in Int, NEW y \in Int, x <= y
    PROVE  w * x <= w * y
OBVIOUS

(* The sum in update() is a weighted mean of 32nds.                        *)
LEMMA NumeratorBetween ==
    ASSUME NEW sample \in Int, NEW old \in Int, NEW low \in Int, NEW high \in Int,
           low <= sample, sample <= high, low <= old, old <= high
    PROVE  /\ Numerator(sample, old) \in Int
           /\ 32 * low <= Numerator(sample, old)
           /\ Numerator(sample, old) <= 32 * high
<1> DEFINE w == Alpha32
           v == 32 - Alpha32
<1>1. w \in Nat /\ v \in Nat /\ w + v = 32
  BY AlphaInRange
<1>2. /\ w * low <= w * sample /\ w * sample <= w * high
      /\ v * low <= v * old    /\ v * old <= v * high
  BY <1>1, Monotone
<1>3. w * low + v * low = 32 * low /\ w * high + v * high = 32 * high
  BY <1>1
<1>4. w * low \in Int /\ v * low \in Int /\ w * high \in Int /\ v * high \in Int
      /\ w * sample \in Int /\ v * old \in Int
  BY <1>1
<1>5. Numerator(sample, old) = w * sample + v * old
  BY DEF Numerator
<1> HIDE DEF w, v
<1> QED
  BY <1>2, <1>3, <1>4, <1>5

(* The inductive invariant. *)
Inv == TypeOK /\ SmoothedInRange

LEMMA LargestIsNat == Largest \in Nat
BY DEF Largest, MaxUInt16

LEMMA SamplesAreIntegers ==
    ASSUME NEW sample \in Samples
    PROVE  sample \in Int /\ -Largest <= sample /\ sample <= Largest
BY SamplesFitT, LargestIsNat

LEMMA UpdatePreserves ==
    ASSUME Inv, NEW sample \in Samples, Update(sample)
    PROVE  Inv'
<1>1. sample \in Int
  BY SamplesAreIntegers
<1>2. CASE smoothed = {}
  <2>1. smoothed' = {sample} /\ seen' = {sample}
    BY <1>2 DEF Update, Inv, TypeOK
  <2> QED
    BY <1>1, <2>1 DEF Inv, TypeOK, SmoothedInRange
<1>3. CASE smoothed # {}
  <2>1. /\ smoothed' = {Blended(sample, old) : old \in smoothed}
        /\ seen' = seen \cup {sample}
    BY <1>3 DEF Update
  <2>2. ASSUME NEW old \in smoothed
        PROVE  /\ Blended(sample, old) \in Int
               /\ \E low, high \in seen' :
                     low <= Blended(sample, old) /\ Blended(sample, old) <= high
    <3>1. old \in Int
      BY DEF Inv, TypeOK
    <3>2. PICK low \in seen, high \in seen : low <= old /\ old <= high
      BY DEF Inv, SmoothedInRange
    <3>3. low \in Int /\ high \in Int
      BY SamplesAreIntegers DEF Inv, TypeOK
    <3> DEFINE bottom == IF sample < low THEN sample ELSE low
               top == IF sample > high THEN sample ELSE high
    <3>4. /\ bottom \in Int /\ top \in Int
          /\ bottom <= sample /\ sample <= top
          /\ bottom <= old /\ old <= top
      BY <1>1, <3>1, <3>2, <3>3
    <3>5. bottom \in seen' /\ top \in seen'
      BY <2>1, <3>2
    <3> HIDE DEF bottom, top
    <3>6. /\ Numerator(sample, old) \in Int
          /\ 32 * bottom <= Numerator(sample, old)
          /\ Numerator(sample, old) <= 32 * top
      BY <1>1, <3>1, <3>4, NumeratorBetween
    <3>7. /\ Blended(sample, old) \in Int
          /\ bottom <= Blended(sample, old)
          /\ Blended(sample, old) <= top
      BY <3>4, <3>6, RoundedBetween DEF Blended
    <3> QED
      BY <3>5, <3>7
  <2>3. TypeOK'
    BY <1>3, <2>1, <2>2 DEF Inv, TypeOK
  <2>4. SmoothedInRange'
    BY <2>1, <2>2 DEF SmoothedInRange
  <2> QED
    BY <2>3, <2>4 DEF Inv
<1> QED
  BY <1>2, <1>3

LEMMA InvInductive == Inv /\ [Next]_vars => Inv'
<1> SUFFICES ASSUME Inv, [Next]_vars PROVE Inv'
  OBVIOUS
<1>1. CASE Reset
  BY <1>1 DEF Reset, Inv, TypeOK, SmoothedInRange
<1>2. CASE \E sample \in Samples : Update(sample)
  BY <1>2, UpdatePreserves
<1>3. CASE UNCHANGED vars
  BY <1>3 DEF vars, Inv, TypeOK, SmoothedInRange
<1> QED
  BY <1>1, <1>2, <1>3 DEF Next

LEMMA InvInvariant == Spec => []Inv
<1>1. Init => Inv
  BY DEF Init, Inv, TypeOK, SmoothedInRange
<1> QED
  BY <1>1, InvInductive, PTL DEF Spec

(* There is at most one average, and there is one as soon as a sample has  *)
(* arrived since the last reset: the std::optional is never stale.         *)
THEOREM AverageFollowsReset == Spec => []TypeOK
BY InvInvariant, PTL DEF Inv

(* The average never leaves the range of the samples since the last reset, *)
(* so that the cast back to T keeps its value, whatever the weight.        *)
THEOREM AverageStaysInRange == Spec => [](TypeOK /\ SmoothedInRange)
BY InvInvariant, PTL DEF Inv

(* The sum in update() keeps within the bound its comment derives.         *)
THEOREM SumStaysBounded == Spec => []SumBounded
<1>1. Inv => SumBounded
  <2> SUFFICES ASSUME Inv, NEW old \in smoothed, NEW sample \in Samples
               PROVE  Numerator(sample, old) \in -(32 * Largest)..(32 * Largest)
    BY DEF SumBounded
  <2>1. PICK low \in seen, high \in seen : low <= old /\ old <= high
    BY DEF Inv, SmoothedInRange
  <2>2. /\ low \in Int /\ -Largest <= low
        /\ high \in Int /\ high <= Largest
        /\ old \in Int
    BY SamplesAreIntegers DEF Inv, TypeOK
  <2>3. /\ old \in Int /\ -Largest <= old /\ old <= Largest
        /\ sample \in Int /\ -Largest <= sample /\ sample <= Largest
        /\ -Largest \in Int /\ Largest \in Int
    BY <2>1, <2>2, SamplesAreIntegers, LargestIsNat
  <2>4. /\ Numerator(sample, old) \in Int
        /\ 32 * (-Largest) <= Numerator(sample, old)
        /\ Numerator(sample, old) <= 32 * Largest
    BY <2>3, NumeratorBetween
  <2> QED
    BY <2>4, LargestIsNat
<1> QED
  BY <1>1, InvInvariant, PTL

(* One update: the sum is a mean of sample and average, and with more than *)
(* half the weight on the sample it is more than a half off the average.   *)
LEMMA BlendPulls ==
    ASSUME NEW sample \in Int, NEW old \in Int
    PROVE  /\ Between(old, Blended(sample, old), sample)
           /\ Alpha32 > 16 /\ Blended(sample, old) = old => old = sample
<1> DEFINE num == Numerator(sample, old)
<1>1. num \in Int
  BY AlphaInRange DEF Numerator
<1>2. Between(old, Blended(sample, old), sample)
  <2>1. CASE old <= sample
    <3>1. 32 * old <= num /\ num <= 32 * sample
      BY <2>1, NumeratorBetween
    <3> QED
      BY <1>1, <3>1, RoundedBetween DEF Blended, Between
  <2>2. CASE sample <= old
    <3>1. 32 * sample <= num /\ num <= 32 * old
      BY <2>2, NumeratorBetween
    <3> QED
      BY <1>1, <3>1, RoundedBetween DEF Blended, Between
  <2> QED
    BY <2>1, <2>2
<1>3. ASSUME Alpha32 > 16, old # sample
      PROVE  Blended(sample, old) # old
  <2>1. num = 32 * old + Alpha32 * (sample - old)
    BY AlphaInRange DEF Numerator
  <2>2. Alpha32 \in Nat /\ 17 <= Alpha32
    BY <1>3, AlphaInRange
  <2>3. CASE old < sample
    <3>1. Alpha32 * 1 <= Alpha32 * (sample - old)
      BY <2>2, <2>3, Monotone
    <3>2. 32 * old + 17 <= num
      BY <2>1, <2>2, <3>1
    <3> QED
      BY <1>1, <3>2, RoundedAway DEF Blended
  <2>4. CASE sample < old
    <3>1. Alpha32 * (sample - old) <= Alpha32 * (-1)
      BY <2>2, <2>4, Monotone
    <3>2. num <= 32 * old - 17
      BY <2>1, <2>2, <3>1
    <3> QED
      BY <1>1, <3>2, RoundedAway DEF Blended
  <2> QED
    BY <1>3, <2>3, <2>4
<1> QED
  BY <1>2, <1>3

(* At every weight a sample pulls the average towards itself and never     *)
(* past itself; when a new sample weighs more than half, as in sensor.h,   *)
(* the average rests only at the sample.                                   *)
THEOREM AverageApproaches == Spec => Approaches
<1>1. Inv /\ [Next]_vars =>
        [\A sample \in Samples, old \in smoothed, new \in smoothed' :
            Update(sample) =>
                /\ Between(old, new, sample)
                /\ Alpha32 > 16 /\ new = old => old = sample]_vars
  <2> SUFFICES ASSUME Inv, NEW sample \in Samples, NEW old \in smoothed,
                      NEW new \in smoothed', Update(sample)
               PROVE  /\ Between(old, new, sample)
                      /\ Alpha32 > 16 /\ new = old => old = sample
    OBVIOUS
  <2>1. sample \in Int /\ old \in Int
    BY SamplesAreIntegers DEF Inv, TypeOK
  <2>2. new = Blended(sample, old)
    <3>1. smoothed = {old}
      BY DEF Inv, TypeOK
    <3>2. smoothed' = {Blended(sample, old)}
      BY <3>1 DEF Update
    <3> QED
      BY <3>2
  <2> QED
    BY <2>1, <2>2, BlendPulls
<1> QED
  BY <1>1, InvInvariant, PTL DEF Spec, Approaches

=============================================================================
