------------------------------- MODULE Backoff -------------------------------
(***************************************************************************)
(* computeBackoffDuration: the wait after errorCount consecutive errors,   *)
(* as the loop that doubles the poll interval, in signed integers of       *)
(* limited width.  POLL_INTERVAL and MAX_BACKOFF are whatever the          *)
(* environment says, zero and negative durations included: nothing calls   *)
(* Validate.                                                               *)
(***************************************************************************)
EXTENDS Integers

CONSTANTS
    MaxInt,      \* the largest time.Duration
    MaxErrors,   \* bound on the error count
    Steps,       \* the jitter takes Steps values in [0, 1)
    Durations    \* the durations the two variables are set to

(* Two's complement. *)
Wrap(x) == ((x + MaxInt + 1) % (2 * (MaxInt + 1))) - (MaxInt + 1)
Ints == (-MaxInt - 1)..MaxInt

ASSUME BackoffAssumption ==
    /\ MaxInt \in Nat \ {0} /\ MaxErrors \in Nat /\ Steps \in Nat \ {0}
    /\ Durations \subseteq Ints

VARIABLES
    base, max,   \* PollInterval and MaxBackoff
    errorCount,
    pc, i, d, wait,
    ideal        \* history: base * 2^(i-1), without a cap

vars == <<base, max, errorCount, pc, i, d, wait, ideal>>

(* What the reconcile loop computes with are durations, however they wrap. *)
TypeOK ==
    /\ base \in Ints /\ max \in Ints
    /\ errorCount \in 0..MaxErrors
    /\ pc \in {"loop", "jitter", "sleep"}
    /\ i \in Nat
    /\ d \in Ints /\ wait \in Ints
    /\ ideal \in Int

(* Any duration that parses is taken. *)
Init ==
    /\ base \in Durations /\ max \in Durations
    /\ errorCount = 0
    /\ pc = "loop" /\ i = 1 /\ d = base /\ wait = 0 /\ ideal = base

(* Without errors the wait is the poll interval, whatever the maximum. *)
NoErrors ==
    /\ pc = "loop" /\ errorCount = 0
    /\ wait' = base
    /\ pc' = "sleep"
    /\ UNCHANGED <<base, max, errorCount, i, d, ideal>>

(* Division, and the conversion from a float, go towards zero. *)
Quotient(x, n) == IF x >= 0 THEN x \div n ELSE -((-x) \div n)

\* Mutant: the cap is looked at only once it is passed.
NearCapLate == d >= max

NearCap == d >= Quotient(max, 2)

Double ==
    /\ pc = "loop" /\ i < errorCount
    /\ ~NearCap
    /\ d' = Wrap(d * 2)
    /\ ideal' = ideal * 2
    /\ i' = i + 1
    /\ UNCHANGED <<base, max, errorCount, pc, wait>>

(* break *)
ReachCap ==
    /\ pc = "loop" /\ i < errorCount
    /\ NearCap
    /\ d' = max
    /\ pc' = "jitter"
    /\ UNCHANGED <<base, max, errorCount, i, wait, ideal>>

Capped == IF d > max THEN max ELSE d

LeaveLoop ==
    /\ pc = "loop" /\ errorCount > 0 /\ i >= errorCount
    /\ d' = Capped
    /\ pc' = "jitter"
    /\ UNCHANGED <<base, max, errorCount, i, wait, ideal>>

\* Mutant: the spread is added to the full interval.
ScaledUp(k) == Quotient(d * (5 * Steps + 2 * k), 5 * Steps)

(* d * (0.8 + 0.4 * k / Steps) *)
Scaled(k) == Quotient(d * (4 * Steps + 2 * k), 5 * Steps)

(* A float beyond the range becomes the smallest integer on amd64, the nearest on arm64. *)
Converted(x) == CASE x > MaxInt      -> {-MaxInt - 1, MaxInt}
                  [] x < -MaxInt - 1 -> {-MaxInt - 1}
                  [] OTHER           -> {x}

Jitter(k) ==
    /\ pc = "jitter"
    /\ wait' \in Converted(Scaled(k))
    /\ pc' = "sleep"
    /\ UNCHANGED <<base, max, errorCount, i, d, ideal>>

Next == NoErrors \/ Double \/ ReachCap \/ LeaveLoop \/ \E k \in 0..(Steps - 1) : Jitter(k)

-----------------------------------------------------------------------------
(***************************************************************************)
(* The doubling of a poll interval that is not negative never wraps around *)
(* and never overshoots, whatever the maximum, a negative one included:    *)
(* until the cap is reached the interval is exactly base * 2^(i-1), and    *)
(* the capped one is that or the maximum, taken at most one unit early.    *)
(***************************************************************************)
DoublingIsExact ==
    base >= 0 =>
        /\ pc = "loop" => d = ideal
        /\ pc = "jitter" => \/ d = ideal /\ i >= errorCount /\ d <= max
                            \/ d = max /\ i >= errorCount /\ ideal >= max
                            \/ d = max /\ i < errorCount /\ 2 * ideal >= max - 1

(***************************************************************************)
(* For every setting, also one whose doubling wraps around, the interval   *)
(* before the jitter is at most the maximum (for a poll interval that is   *)
(* not negative also at least the poll interval or the maximum), and the   *)
(* wait after an error lies within 20% of it on both sides, where that     *)
(* still is a duration.  That is neither the documented maximum, which the *)
(* jitter may exceed, nor the documented full jitter; and with a maximum   *)
(* that is not positive it is no wait at all.                              *)
(***************************************************************************)
WaitIsSpread ==
    pc = "sleep" /\ errorCount > 0 =>
        /\ d <= max
        /\ base >= 0 => base <= d \/ d = max
        /\ d >= 0 /\ 6 * d <= 5 * MaxInt => 5 * wait <= 6 * d /\ 5 * (wait + 1) > 4 * d
        /\ d <= 0 /\ 6 * d >= -5 * MaxInt => 5 * wait >= 6 * d /\ 5 * (wait - 1) < 4 * d

=============================================================================
