--------------------------- MODULE ReadinessProofs ---------------------------
(***************************************************************************)
(* Proofs about Backoff and Readiness for every width of the integers,     *)
(* every poll interval and every maximum of either sign, every number of   *)
(* errors, every grain of the jitter, and iterations of any length up to   *)
(* the poll interval.                                                      *)
(*                                                                         *)
(* The inductive invariant of the backoff adds that an interval that is    *)
(* not negative never falls below the poll interval before the cap, that   *)
(* no interval leaves the cap above the maximum, and what the jitter made  *)
(* of it; that of readiness, how much time can have passed at each point   *)
(* of the loop since the last success, and since recovery.                 *)
(***************************************************************************)
EXTENDS Readiness, TLAPS

(* Dividends smaller than the divisor are their own remainder. *)
LEMMA ModIdentity ==
    ASSUME NEW n \in Nat \ {0}, NEW a \in 0..(n - 1)
    PROVE  a % n = a
  BY Z3

(* A value that fits is its own two's complement representation. *)
LEMMA WrapFits ==
    ASSUME NEW x \in 0..MaxInt
    PROVE  Wrap(x) = x
  <1> DEFINE n == 2 * (MaxInt + 1)
  <1> DEFINE a == x + MaxInt + 1
  <1>1. n \in Nat \ {0} /\ a \in 0..(n - 1)
    BY BackoffAssumption
  <1>2. a % n = a
    <2> HIDE DEF n, a
    <2> QED
      BY <1>1, ModIdentity
  <1>3. Wrap(x) = (a % n) - (MaxInt + 1)
    BY DEF Wrap
  <1> HIDE DEF n
  <1> QED
    BY <1>2, <1>3, BackoffAssumption

(* Products with a positive factor keep the order. *)
LEMMA MulMono ==
    ASSUME NEW a \in Int, NEW b \in Int, NEW c \in Nat, a <= b
    PROVE  c * a <= c * b
  BY Z3

LEMMA FractionMono ==
    ASSUME NEW a \in Int, NEW b \in Int, NEW c \in Int, NEW e \in Int,
           a <= b, 5 * b <= 6 * c, c <= e
    PROVE  5 * a <= 6 * e
  BY Z3

LEMMA MulCancel ==
    ASSUME NEW a \in Int, NEW b \in Int, NEW c \in Nat \ {0}, c * a < c * b
    PROVE  a < b
  BY Z3

LEMMA DivBounds ==
    ASSUME NEW a \in Nat, NEW n \in Nat \ {0}
    PROVE  /\ a \div n \in Nat
           /\ n * (a \div n) <= a
           /\ a < n * ((a \div n) + 1)
  BY Z3

(* Two's complement stays within its width. *)
LEMMA WrapRange ==
    ASSUME NEW x \in Int
    PROVE  Wrap(x) \in Ints
  <1> DEFINE n == 2 * (MaxInt + 1)
  <1> DEFINE a == x + MaxInt + 1
  <1>1. n \in Nat \ {0} /\ a \in Int
    BY BackoffAssumption
  <1>2. a % n \in 0..(n - 1)
    <2> HIDE DEF n, a
    <2> QED
      BY <1>1
  <1>3. Wrap(x) = (a % n) - (MaxInt + 1)
    BY DEF Wrap
  <1> HIDE DEF a
  <1> QED
    BY <1>2, <1>3, BackoffAssumption DEF Ints

(* Half the maximum, towards zero. *)
LEMMA HalfBounds ==
    ASSUME NEW x \in Int
    PROVE  /\ Quotient(x, 2) \in Int
           /\ x >= 0 => 2 * Quotient(x, 2) <= x /\ x <= 2 * Quotient(x, 2) + 1
           /\ x < 0 => Quotient(x, 2) <= 0
  BY Z3 DEF Quotient

(* The jitter's factor lies in [0.8, 1.2). *)
LEMMA FactorBounds ==
    ASSUME NEW x \in Nat, NEW k \in 0..(Steps - 1)
    PROVE  LET w == (x * (4 * Steps + 2 * k)) \div (5 * Steps)
           IN  w \in Nat /\ 5 * w <= 6 * x /\ 5 * (w + 1) > 4 * x
  <1> DEFINE f == 4 * Steps + 2 * k
  <1> DEFINE n == 5 * Steps
  <1> DEFINE w == (x * f) \div n
  <1>1. f \in Nat /\ n \in Nat \ {0} /\ 4 * Steps <= f /\ f <= 6 * Steps
    BY BackoffAssumption
  <1>2. x * f \in Nat
    <2> HIDE DEF f
    <2> QED
      BY <1>1
  <1>3. w \in Nat /\ n * w <= x * f /\ x * f < n * (w + 1)
    <2> DEFINE a == x * f
    <2> HIDE DEF a, n
    <2>1. a \in Nat
      BY <1>2 DEF a
    <2>2. /\ a \div n \in Nat /\ n * (a \div n) <= a /\ a < n * ((a \div n) + 1)
      BY <2>1, <1>1, DivBounds
    <2> QED
      BY <2>2 DEF a
  <1>5. x * f <= x * (6 * Steps) /\ x * (4 * Steps) <= x * f
    <2> HIDE DEF f
    <2> QED
      BY <1>1, MulMono, BackoffAssumption
  <1>6. 5 * w <= 6 * x
    <2> HIDE DEF w, f
    <2>1. Steps * (5 * w) <= Steps * (6 * x)
      BY <1>1, <1>2, <1>3, <1>5, BackoffAssumption
    <2> QED
      BY <2>1, <1>3, BackoffAssumption
  <1>7. 4 * x < 5 * (w + 1)
    <2> HIDE DEF w, f
    <2>1. Steps * (4 * x) < Steps * (5 * (w + 1))
      BY <1>1, <1>2, <1>3, <1>5, BackoffAssumption
    <2> QED
      BY <2>1, <1>3, MulCancel, BackoffAssumption
  <1> HIDE DEF w
  <1> QED
    BY <1>3, <1>6, <1>7 DEF w

(* The scaled interval lies within 20% on both sides, for either sign. *)
LEMMA ScaledBounds ==
    ASSUME d \in Int, NEW k \in 0..(Steps - 1)
    PROVE  /\ Scaled(k) \in Int
           /\ d >= 0 => /\ Scaled(k) >= 0
                        /\ 5 * Scaled(k) <= 6 * d /\ 5 * (Scaled(k) + 1) > 4 * d
           /\ d <= 0 => /\ Scaled(k) <= 0
                        /\ 5 * Scaled(k) >= 6 * d /\ 5 * (Scaled(k) - 1) < 4 * d
  <1> DEFINE f == 4 * Steps + 2 * k
  <1> DEFINE n == 5 * Steps
  <1>1. f \in Nat \ {0} /\ n \in Nat \ {0}
    BY BackoffAssumption
  <1>2. Scaled(k) = IF d * f >= 0 THEN (d * f) \div n ELSE -((-(d * f)) \div n)
    BY DEF Scaled, Quotient
  <1>3. CASE d >= 0
    <2> DEFINE w == (d * f) \div n
    <2>0. d \in Nat
      BY <1>3
    <2>1. w \in Nat /\ 5 * w <= 6 * d /\ 5 * (w + 1) > 4 * d
      BY <2>0, FactorBounds, Zenon
    <2>2. d * f >= 0
      <3> HIDE DEF f
      <3> QED
        BY <1>1, <1>3
    <2>3. Scaled(k) = w
      BY <1>2, <2>2
    <2> HIDE DEF w
    <2> QED
      BY <1>3, <2>1, <2>3
  <1>4. CASE d < 0
    <2> DEFINE x == -d
    <2> DEFINE w == (x * f) \div n
    <2>0. x \in Nat
      BY <1>4
    <2>1. w \in Nat /\ 5 * w <= 6 * x /\ 5 * (w + 1) > 4 * x
      <3> HIDE DEF x
      <3> QED
        BY <2>0, FactorBounds
    <2>2. ~(d * f >= 0) /\ -(d * f) = x * f
      <3> HIDE DEF f
      <3> QED
        BY <1>1, <1>4
    <2>3. Scaled(k) = -w
      <3> HIDE DEF x, f, n
      <3> QED
        BY <1>2, <2>2, Zenon
    <2> HIDE DEF w
    <2> QED
      BY <1>4, <2>1, <2>3
  <1> QED
    BY <1>3, <1>4

(* What the conversion of the float makes of it. *)
LEMMA ConvertedBounds ==
    ASSUME NEW x \in Int, NEW w \in Converted(x)
    PROVE  /\ w \in Ints
           /\ x <= 0 => w <= 0
           /\ x >= 0 => w <= x
           /\ -MaxInt - 1 <= x /\ x <= MaxInt => w = x
  BY BackoffAssumption DEF Converted, Ints

(* Whatever wraps or overflows, no wait is longer than 120% of a positive maximum. *)
WaitIsBounded == pc = "sleep" /\ errorCount > 0 => wait <= 0 \/ 5 * wait <= 6 * max

(* The wait without errors, and the most there is after the first. *)
FirstWaits ==
    /\ errorCount = 0 => pc # "jitter" /\ (pc = "sleep" => wait = base)
    /\ errorCount = 1 => /\ pc = "loop" => d = base
                         /\ pc = "jitter" => d <= base
                         /\ pc = "sleep" => wait <= 0 \/ 5 * wait <= 6 * base

(* What has gone through the cap. *)
CapHolds == pc = "jitter" => d <= max

IndInv ==
    /\ TypeOK
    /\ i >= 1
    /\ WaitIsBounded
    /\ FirstWaits
    /\ CapHolds
    /\ base >= 0 => base <= ideal
    /\ DoublingIsExact
    /\ WaitIsSpread

(* The loop starts from the poll interval. *)
LEMMA InitInd == Init => IndInv
  BY BackoffAssumption DEF Init, IndInv, TypeOK, Ints, DoublingIsExact, WaitIsSpread,
                           WaitIsBounded, FirstWaits, CapHolds

(* Doubling, capping and jitter keep the invariant. *)
LEMMA IndStep == IndInv /\ [Next]_vars => IndInv'
  <1> SUFFICES ASSUME IndInv, [Next]_vars PROVE IndInv'
    OBVIOUS
  <1> USE BackoffAssumption
  <1> USE DEF IndInv, TypeOK, DoublingIsExact, WaitIsSpread, WaitIsBounded, FirstWaits, CapHolds
  <1>1. CASE NoErrors
    BY <1>1 DEF NoErrors, Ints
  <1>2. CASE Double
    <2>1. d \in Int /\ max \in Int /\ d < Quotient(max, 2)
      BY <1>2, HalfBounds DEF Double, NearCap, Ints
    <2>2. d' = Wrap(d * 2) /\ d' \in Ints
      BY <2>1, <1>2, WrapRange DEF Double
    <2>3. ASSUME base >= 0 PROVE d' = d * 2
      <3>1. d >= 0
        BY <2>1, <2>3, <1>2 DEF Double, Ints
      <3> DEFINE q == Quotient(max, 2)
      <3>2. q \in Int /\ d < q /\ (max >= 0 => 2 * q <= max) /\ (max < 0 => q <= 0)
        BY <2>1, HalfBounds
      <3>3. max <= MaxInt /\ d \in Int /\ max \in Int
        BY <2>1 DEF Ints
      <3>4. d * 2 \in 0..MaxInt
        <4> HIDE DEF q, IndInv
        <4> QED
          BY <3>1, <3>2, <3>3
      <3> QED
        BY <2>2, <3>4, WrapFits
    <2>4. UNCHANGED <<base, max, errorCount, pc, wait>> /\ pc = "loop" /\ i < errorCount
          /\ ideal' = ideal * 2 /\ i' = i + 1
      BY <1>2 DEF Double
    <2>5. TypeOK' /\ i' >= 1 /\ (base' >= 0 => base' <= ideal') /\ DoublingIsExact'
      BY <2>2, <2>3, <2>4 DEF Ints
    <2> QED
      BY <2>4, <2>5
  <1>3. CASE ReachCap
    <2>1. d \in Int /\ max \in Int /\ d >= Quotient(max, 2)
      BY <1>3 DEF ReachCap, NearCap, Ints
    <2>2. max >= 0 => 2 * d >= max - 1
      <3> DEFINE q == Quotient(max, 2)
      <3>1. q \in Int /\ d >= q /\ (max >= 0 => max <= 2 * q + 1)
        BY <2>1, HalfBounds
      <3> HIDE DEF q, IndInv
      <3> QED
        BY <2>1, <3>1
    <2> QED
      BY <1>3, <2>1, <2>2 DEF ReachCap
  <1>4. CASE LeaveLoop
    BY <1>4 DEF LeaveLoop, Capped, Ints
  <1>5. ASSUME NEW k \in 0..(Steps - 1), Jitter(k)
        PROVE  IndInv'
    <2>0. d \in Int /\ max \in Int /\ base \in Int
      BY DEF Ints
    <2> DEFINE s == Scaled(k)
    <2>1. /\ s \in Int
          /\ d >= 0 => s >= 0 /\ 5 * s <= 6 * d /\ 5 * (s + 1) > 4 * d
          /\ d <= 0 => s <= 0 /\ 5 * s >= 6 * d /\ 5 * (s - 1) < 4 * d
      BY <2>0, ScaledBounds
    <2>2. d <= max /\ (base >= 0 => base <= d \/ d = max)
      BY <1>5 DEF Jitter
    <2> HIDE DEF s
    <2>3. /\ wait' \in Ints /\ wait' \in Int
          /\ s <= 0 => wait' <= 0
          /\ s >= 0 => wait' <= s
          /\ -MaxInt - 1 <= s /\ s <= MaxInt => wait' = s
      <3>1. wait' \in Converted(s)
        BY <1>5 DEF Jitter, s
      <3> QED
        BY <2>1, <3>1, ConvertedBounds DEF Ints
    <2>4. pc = "jitter" /\ pc' = "sleep" /\ UNCHANGED <<base, max, errorCount, i, d, ideal>>
      BY <1>5 DEF Jitter
    <2>5. errorCount > 0 /\ (errorCount = 1 => d <= base)
      BY <2>4
    <2>6. wait' <= 0 \/ (5 * wait' <= 6 * max /\ (errorCount = 1 => 5 * wait' <= 6 * base))
      <3> HIDE DEF IndInv
      <3>1. CASE d <= 0
        BY <2>0, <2>1, <2>3, <3>1
      <3>2. CASE d > 0
        <4>1. wait' <= s /\ 5 * s <= 6 * d
          BY <2>0, <2>1, <2>3, <3>2
        <4>2. ASSUME NEW y \in Int, d <= y PROVE 5 * wait' <= 6 * y
          BY <2>0, <2>1, <2>3, <4>1, <4>2, FractionMono
        <4> QED
          BY <2>0, <2>2, <2>5, <4>2
      <3> QED
        BY <2>0, <3>1, <3>2
    <2>7. WaitIsBounded' /\ FirstWaits' /\ CapHolds'
      <3> HIDE DEF IndInv
      <3> QED
        BY <2>3, <2>4, <2>5, <2>6
    <2>8. WaitIsSpread'
      <3> HIDE DEF IndInv
      <3>1. d >= 0 /\ 6 * d <= 5 * MaxInt => wait' = s
        BY <2>0, <2>1, <2>3
      <3>2. d <= 0 /\ 6 * d >= -5 * MaxInt => wait' = s
        BY <2>0, <2>1, <2>3
      <3> QED
        BY <2>0, <2>1, <2>2, <2>4, <3>1, <3>2
    <2> QED
      BY <2>3, <2>4, <2>7, <2>8
  <1>6. CASE UNCHANGED vars
    BY <1>6 DEF vars
  <1> QED
    BY <1>1, <1>2, <1>3, <1>4, <1>5, <1>6 DEF Next

-----------------------------------------------------------------------------
(***************************************************************************)
(* Readiness: how old the last success can be at each point of the loop,   *)
(* with no failure since, and with one.                                    *)
(***************************************************************************)
SinceSuccess ==
    /\ ever /\ streak = 0 =>
          /\ errorCount = 0
          /\ at = "wait" => age = 0
          /\ at = "reconcile" => age <= pi
          /\ at = "outcome" => age <= 2 * pi
    /\ ever /\ streak = 1 =>
          /\ at = "wait" => errorCount = 1 /\ age <= 2 * pi
          /\ at = "reconcile" => 5 * age <= 16 * pi
          /\ at = "outcome" => 5 * age <= 21 * pi

(* The time since recovery, until the first success after it. *)
SinceHealed ==
    /\ ~healthy => late = 0
    /\ healthy /\ ~(ever /\ streak = 0) =>
          /\ at = "wait" => late = 0
          /\ at = "reconcile" => late <= LongestWait
          /\ at = "outcome" => late <= LongestWait + pi

ReadyType ==
    /\ at \in {"reconcile", "outcome", "wait"}
    /\ age \in Nat /\ late \in Nat
    /\ ever \in BOOLEAN /\ healthy \in BOOLEAN
    /\ streak \in 0..2

ReadyInd ==
    /\ IndInv
    /\ ReadyType
    /\ SinceSuccess
    /\ SinceHealed

(* The units of time: the poll interval and the longest wait. *)
LEMMA Intervals ==
    ASSUME TypeOK
    PROVE  /\ pi \in Nat \ {0} /\ base \in Int /\ base <= pi
           /\ LongestWait \in Nat /\ base <= LongestWait
           /\ \A w \in Int : w <= 0 \/ 5 * w <= 6 * max => w <= LongestWait
  <1>1. pi \in Nat \ {0} /\ base \in Int /\ base <= pi /\ max \in Int
    BY ReadinessAssumption, BackoffAssumption DEF TypeOK, Ints, pi
  <1> DEFINE q == Quotient(6 * max, 5)
  <1>2. q \in Int /\ (max >= 0 => q >= 0 /\ 5 * q <= 6 * max /\ 6 * max < 5 * (q + 1))
    BY <1>1, Z3 DEF Quotient
  <1>3. LongestWait = Most(0, Most(base, q))
    BY DEF LongestWait
  <1> HIDE DEF q
  <1>4. LongestWait \in Nat /\ base <= LongestWait /\ q <= LongestWait
    BY <1>1, <1>2, <1>3 DEF Most
  <1>5. ASSUME NEW w \in Int, w <= 0 \/ 5 * w <= 6 * max PROVE w <= LongestWait
    BY <1>1, <1>2, <1>4, <1>5
  <1> QED
    BY <1>1, <1>4, <1>5

(* A wait is no longer than the longest; after one failure, than 120% of the interval. *)
LEMMA WaitLength ==
    ASSUME IndInv, pc = "sleep"
    PROVE  /\ wait \in Int /\ wait <= LongestWait
           /\ errorCount = 0 => wait <= pi
           /\ errorCount = 1 => 5 * wait <= 6 * pi
  <1>1. /\ TypeOK /\ wait \in Int /\ errorCount \in Nat
        /\ errorCount = 0 => wait = base
        /\ errorCount = 1 => wait <= 0 \/ 5 * wait <= 6 * base
        /\ errorCount > 0 => wait <= 0 \/ 5 * wait <= 6 * max
    BY BackoffAssumption DEF IndInv, TypeOK, Ints, FirstWaits, WaitIsBounded
  <1>2. wait <= LongestWait
    BY <1>1, Intervals
  <1>3. ASSUME errorCount = 1 PROVE 5 * wait <= 6 * pi
    <2>1. base \in Int /\ pi \in Nat /\ base <= pi /\ (wait <= 0 \/ 5 * wait <= 6 * base)
      BY <1>1, <1>3, Intervals
    <2>2. CASE wait <= 0
      BY <1>1, <2>1, <2>2
    <2>3. CASE 5 * wait <= 6 * base
      BY <1>1, <2>1, <2>3, FractionMono
    <2> QED
      BY <2>1, <2>2, <2>3
  <1> QED
    BY <1>1, <1>2, <1>3, Intervals

(* What an iteration, or a wait after one failure, adds to an age. *)
LEMMA IterationAdds ==
    ASSUME NEW p \in Int, NEW a \in Int, NEW t \in Int, NEW b \in Int,
           b <= a + t, 5 * a <= 16 * p, t <= p
    PROVE  5 * b <= 21 * p
  BY Z3

LEMMA FirstRetryAdds ==
    ASSUME NEW p \in Int, NEW a \in Int, NEW t \in Int, NEW b \in Int,
           b <= a + t, a <= 2 * p, 5 * t <= 6 * p
    PROVE  5 * b <= 16 * p
  BY Z3

(* Time that passes adds at most its length, up to the caps of the counters. *)
LEMMA PassesAtMost ==
    ASSUME IndInv, ReadyType, NEW t \in Nat, Passes(t)
    PROVE  /\ age' \in Nat /\ late' \in Nat
           /\ ever => age' <= age + t
           /\ late' <= late + t
           /\ ~healthy => late' = 0
  <1>1. pi \in Nat /\ LongestWait \in Nat /\ Window \in Nat
    BY Intervals DEF IndInv, Window
  <1> QED
    BY <1>1 DEF Passes, Least, ReadyType

(* The process starts with an iteration, never having succeeded. *)
LEMMA ReadyInitInd == ReadyInit => ReadyInd
  <1> SUFFICES ASSUME ReadyInit PROVE ReadyInd
    OBVIOUS
  <1>1. IndInv
    BY InitInd DEF ReadyInit
  <1>2. ever \in BOOLEAN /\ healthy \in BOOLEAN
    BY Zenon DEF ReadyInit
  <1> QED
    BY <1>1, <1>2 DEF ReadyInit, ReadyInd, ReadyType, SinceSuccess, SinceHealed

(* Calling computeBackoffDuration starts a new run of the backoff. *)
LEMMA SleepStartsBackoff ==
    ASSUME IndInv, NEW e \in 0..MaxErrors, sleepWithBackoff(e)
    PROVE  IndInv'
  BY BackoffAssumption DEF sleepWithBackoff, IndInv, TypeOK, Ints, DoublingIsExact,
                           WaitIsSpread, WaitIsBounded, FirstWaits, CapHolds

(* Nothing of the backoff changes. *)
LEMMA BackoffStutters ==
    ASSUME IndInv, UNCHANGED vars
    PROVE  IndInv'
  BY DEF vars, IndInv, TypeOK, DoublingIsExact, WaitIsSpread, WaitIsBounded, FirstWaits, CapHolds

(* Iterations, waits, outcomes and recovery preserve the invariant. *)
LEMMA ReadyIndStep == ReadyInd /\ [ReadyNext]_allVars => ReadyInd'
  <1> SUFFICES ASSUME ReadyInd, [ReadyNext]_allVars PROVE ReadyInd'
    OBVIOUS
  <1>0. /\ IndInv /\ ReadyType /\ SinceSuccess /\ SinceHealed
        /\ pi \in Nat \ {0} /\ LongestWait \in Nat /\ errorCount \in Nat
    BY Intervals, BackoffAssumption DEF ReadyInd, IndInv, TypeOK
  <1>1. ASSUME NEW t \in 0..pi, Iterate(t) PROVE ReadyInd'
    <2>1. t \in Nat /\ t <= pi /\ Passes(t) /\ UNCHANGED <<vars, ever, streak, healthy>>
          /\ at = "reconcile" /\ at' = "outcome"
      BY <1>0, <1>1 DEF Iterate
    <2>2. IndInv' /\ pi' = pi /\ LongestWait' = LongestWait /\ errorCount' = errorCount
      BY <2>1, <1>0, BackoffStutters DEF vars, pi, LongestWait
    <2>3. /\ age' \in Nat /\ late' \in Nat /\ (~healthy => late' = 0)
          /\ ever => age' <= age + t
          /\ late' <= late + t
      BY <2>1, <1>0, PassesAtMost
    <2>4. ever' \in BOOLEAN /\ healthy' \in BOOLEAN
      BY <2>1, <1>0, Zenon DEF ReadyType
    <2>5. ReadyType'
      BY <2>1, <2>3, <2>4, <1>0 DEF ReadyType
    <2>6. SinceSuccess'
      <3>1. ASSUME ever, streak = 0 PROVE age' <= 2 * pi
        BY <3>1, <2>1, <2>3, <1>0 DEF SinceSuccess, ReadyType
      <3>2. ASSUME ever, streak = 1 PROVE 5 * age' <= 21 * pi
        <4>1. 5 * age <= 16 * pi /\ t <= pi /\ age' <= age + t
              /\ age \in Int /\ age' \in Int /\ pi \in Int /\ t \in Int
          BY <3>2, <2>1, <2>3, <1>0 DEF SinceSuccess, ReadyType
        <4> QED
          BY <4>1, IterationAdds
      <3> QED
        BY <3>1, <3>2, <2>1, <2>2, <1>0, Zenon DEF SinceSuccess
    <2>7. SinceHealed'
      BY <2>1, <2>2, <2>3, <1>0 DEF SinceHealed, ReadyType
    <2> QED
      BY <2>2, <2>5, <2>6, <2>7 DEF ReadyInd
  <1>2. CASE Succeeds
    <2>1. IndInv' /\ pi' = pi /\ LongestWait' = LongestWait
      BY <1>0, <1>2, SleepStartsBackoff, BackoffAssumption DEF Succeeds, sleepWithBackoff, pi, LongestWait
    <2>2. ever' \in BOOLEAN /\ healthy' \in BOOLEAN
      BY <1>2, <1>0, Zenon DEF Succeeds, recordSyncSuccess, ReadyType
    <2>3. ever' /\ streak' = 0 /\ age' = 0 /\ at' = "wait" /\ errorCount' = 0
      BY <1>2 DEF Succeeds, recordSyncSuccess, sleepWithBackoff
    <2> QED
      BY <1>2, <1>0, <2>1, <2>2, <2>3 DEF Succeeds, ReadyInd, ReadyType, SinceSuccess, SinceHealed
  <1>3. ASSUME NEW e \in 0..MaxErrors, Fails(e), ever /\ streak = 0 => e = 1
        PROVE  ReadyInd'
    <2>1. IndInv' /\ pi' = pi /\ LongestWait' = LongestWait
      BY <1>0, <1>3, SleepStartsBackoff DEF Fails, sleepWithBackoff, pi, LongestWait
    <2>2. ever' \in BOOLEAN /\ healthy' \in BOOLEAN
      BY <1>3, <1>0, Zenon DEF Fails, probeVars, ReadyType
    <2>3. /\ at = "outcome" /\ at' = "wait" /\ ~healthy /\ errorCount' = e
          /\ UNCHANGED <<age, ever, healthy, late>>
          /\ streak' = IF streak + 1 < 2 THEN streak + 1 ELSE 2
      BY <1>3 DEF Fails, sleepWithBackoff, probeVars, Least
    <2>4. ReadyType'
      BY <1>0, <2>2, <2>3 DEF ReadyType
    <2>5. SinceSuccess'
      BY <1>0, <1>3, <2>1, <2>3 DEF SinceSuccess, ReadyType
    <2>6. SinceHealed'
      BY <1>0, <2>3 DEF SinceHealed
    <2> QED
      BY <2>1, <2>4, <2>5, <2>6 DEF ReadyInd
  <1>4. CASE FetchFails
    BY <1>0, <1>3, <1>4, BackoffAssumption DEF FetchFails, SinceSuccess, Fails
  <1>5. CASE ApplyFails
    BY <1>3, <1>5, BackoffAssumption, ReadinessAssumption DEF ApplyFails
  <1>6. CASE Compute
    <2>1. IndInv'
      BY <1>0, <1>6, IndStep DEF Compute
    <2>2. base' = base /\ max' = max /\ errorCount' = errorCount
      BY <1>6 DEF Compute, Next, NoErrors, Double, ReachCap, LeaveLoop, Jitter
    <2>3. pi' = pi /\ LongestWait' = LongestWait
      BY <2>2 DEF pi, LongestWait
    <2>4. UNCHANGED <<at, age, ever, streak, healthy, late>>
      BY <1>6 DEF Compute, probeVars, histVars
    <2> QED
      BY <1>0, <2>1, <2>2, <2>3, <2>4 DEF ReadyInd, ReadyType, SinceSuccess, SinceHealed
  <1>7. CASE Wake
    <2> DEFINE t == IF wait > 0 THEN wait ELSE 0
    <2>1. /\ wait \in Int /\ wait <= LongestWait
          /\ errorCount = 0 => wait <= pi
          /\ errorCount = 1 => 5 * wait <= 6 * pi
      BY <1>0, <1>7, WaitLength DEF Wake
    <2>2. /\ t \in Nat /\ t <= LongestWait
          /\ errorCount = 0 => t <= pi
          /\ errorCount = 1 => 5 * t <= 6 * pi
      BY <2>1, <1>0
    <2>3. Passes(t) /\ at = "wait" /\ at' = "reconcile" /\ UNCHANGED <<vars, ever, streak, healthy>>
      BY <1>7 DEF Wake
    <2> HIDE DEF t
    <2>4. IndInv' /\ pi' = pi /\ LongestWait' = LongestWait /\ errorCount' = errorCount
      BY <2>3, <1>0, BackoffStutters DEF vars, pi, LongestWait
    <2>5. /\ age' \in Nat /\ late' \in Nat /\ (~healthy => late' = 0)
          /\ ever => age' <= age + t
          /\ late' <= late + t
      BY <2>2, <2>3, <1>0, PassesAtMost
    <2>6. ever' \in BOOLEAN /\ healthy' \in BOOLEAN
      BY <2>3, <1>0, Zenon DEF ReadyType
    <2>7. ReadyType'
      BY <2>3, <2>5, <2>6, <1>0 DEF ReadyType
    <2>8. SinceSuccess'
      <3>1. ASSUME ever, streak = 0 PROVE age' <= pi
        BY <3>1, <2>2, <2>3, <2>5, <1>0 DEF SinceSuccess, ReadyType
      <3>2. ASSUME ever, streak = 1 PROVE 5 * age' <= 16 * pi
        <4>1. age <= 2 * pi /\ 5 * t <= 6 * pi /\ age' <= age + t
              /\ age \in Int /\ age' \in Int /\ pi \in Int /\ t \in Int
          BY <3>2, <2>2, <2>3, <2>5, <1>0 DEF SinceSuccess, ReadyType
        <4> QED
          BY <4>1, FirstRetryAdds
      <3> QED
        BY <3>1, <3>2, <2>3, <2>4, <1>0 DEF SinceSuccess
    <2>9. SinceHealed'
      BY <2>2, <2>3, <2>4, <2>5, <1>0 DEF SinceHealed, ReadyType
    <2> QED
      BY <2>4, <2>7, <2>8, <2>9 DEF ReadyInd
  <1>8. CASE Heal
    <2>1. /\ at = "wait" /\ healthy' = TRUE /\ ~healthy
          /\ UNCHANGED <<at, age, ever, streak, late>> /\ UNCHANGED vars
      BY <1>8 DEF Heal, probeVars
    <2>2. IndInv' /\ pi' = pi /\ LongestWait' = LongestWait /\ errorCount' = errorCount
      BY <2>1, <1>0, BackoffStutters DEF vars, pi, LongestWait
    <2>3. ever' \in BOOLEAN /\ healthy' \in BOOLEAN
      BY <2>1, <1>0, Zenon DEF ReadyType
    <2> QED
      BY <1>0, <2>1, <2>2, <2>3 DEF ReadyInd, ReadyType, SinceSuccess, SinceHealed
  <1>9. CASE UNCHANGED allVars
    <2>1. UNCHANGED vars /\ UNCHANGED <<at, age, ever, streak, healthy, late>>
      BY <1>9 DEF allVars, probeVars, histVars
    <2>2. IndInv' /\ pi' = pi /\ LongestWait' = LongestWait /\ errorCount' = errorCount
      BY <2>1, <1>0, BackoffStutters DEF vars, pi, LongestWait
    <2> QED
      BY <1>0, <2>1, <2>2 DEF ReadyInd, ReadyType, SinceSuccess, SinceHealed
  <1> QED
    BY <1>1, <1>2, <1>4, <1>5, <1>6, <1>7, <1>8, <1>9 DEF ReadyNext

(* The inductive invariant holds in every reachable state. *)
THEOREM ReadyInvariance == ReadySpec => []ReadyInd
  BY ReadyInitInd, ReadyIndStep, PTL DEF ReadySpec

(***************************************************************************)
(* The loop of computeBackoffDuration, called again and again by the       *)
(* reconcile loop with the error counts it can have: for every poll        *)
(* interval that is not negative, every maximum of either sign and every   *)
(* width, doubling neither wraps around nor overshoots the cap.            *)
(***************************************************************************)
THEOREM DoublingSafety == ReadySpec => []DoublingIsExact
  <1>1. ReadyInd => DoublingIsExact
    BY DEF ReadyInd, IndInv
  <1> QED
    BY ReadyInvariance, <1>1, PTL

(***************************************************************************)
(* For every setting, negative ones included, the wait after an error lies *)
(* within 20% of an interval that is at most the maximum.                  *)
(***************************************************************************)
THEOREM SpreadSafety == ReadySpec => []WaitIsSpread
  <1>1. ReadyInd => WaitIsSpread
    BY DEF ReadyInd, IndInv
  <1> QED
    BY ReadyInvariance, <1>1, PTL

(***************************************************************************)
(* Ready answers every probe with true as long as no two iterations in a   *)
(* row fail: success, wait, failure, a wait of up to 120% and another      *)
(* iteration fit into five poll intervals.                                 *)
(***************************************************************************)
THEOREM LoneFailureSafety == ReadySpec => []LoneFailureTolerated
  <1>1. ASSUME ReadyInd PROVE LoneFailureTolerated
    <2> SUFFICES ASSUME ever, streak <= 1 PROVE Ready
      BY DEF LoneFailureTolerated
    <2>1. pi \in Nat \ {0} /\ age \in Nat /\ (streak = 0 \/ streak = 1)
      BY <1>1, Intervals DEF ReadyInd, IndInv, ReadyType
    <2>2. age <= 5 * pi
      BY <1>1, <2>1 DEF ReadyInd, ReadyType, SinceSuccess
    <2> QED
      BY <2>2 DEF Ready, Window
  <1> QED
    BY ReadyInvariance, <1>1, PTL

(***************************************************************************)
(* After an outage Ready is true again after one longest wait and one      *)
(* iteration, however far the backoff had grown, and stays true.           *)
(***************************************************************************)
THEOREM RecoverySafety == ReadySpec => []RecoveryIsPrompt
  <1>1. ASSUME ReadyInd PROVE RecoveryIsPrompt
    <2> SUFFICES ASSUME healthy, late > LongestWait + pi PROVE Ready
      BY DEF RecoveryIsPrompt
    <2>1. pi \in Nat \ {0} /\ LongestWait \in Nat /\ age \in Nat /\ late \in Nat
      BY <1>1, Intervals DEF ReadyInd, IndInv, ReadyType
    <2>2. ever /\ streak = 0
      BY <1>1, <2>1 DEF ReadyInd, ReadyType, SinceHealed
    <2>3. age <= 5 * pi
      BY <1>1, <2>1, <2>2 DEF ReadyInd, ReadyType, SinceSuccess
    <2> QED
      BY <2>2, <2>3 DEF Ready, Window
  <1> QED
    BY ReadyInvariance, <1>1, PTL

=============================================================================
