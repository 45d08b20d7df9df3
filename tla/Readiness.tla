------------------------------ MODULE Readiness ------------------------------
(***************************************************************************)
(* The reconcile loop in time: iterations that succeed or fail, the waits  *)
(* computeBackoffDuration gives between them (Backoff), and what the       *)
(* readiness probe (Ready, behind /readyz) makes of the time since the     *)
(* last success.                                                           *)
(*                                                                         *)
(* Time passes in the lengths of iterations and waits.  A verdict only     *)
(* ever turns from ready to not ready as time passes, so the one at the    *)
(* end of an iteration or a wait tells of every probe during it.           *)
(***************************************************************************)
EXTENDS Backoff

CONSTANTS
    Second,   \* time.Second
    Followed  \* bound: the settings of the processes that get to a success

ASSUME ReadinessAssumption ==
    Second \in Nat \ {0} /\ MaxErrors # 0

VARIABLES
    at,       \* "reconcile", "outcome" or "wait"
    age,      \* time since lastSuccessfulReconcile, up to just past the window
    ever,     \* lastSuccessfulReconcile is not zero
    streak,   \* history: iterations that failed since the last success, up to 2
    healthy,  \* history: no iteration fails any more
    late      \* history: time since then, up to just past the bound on recovery

probeVars == <<age, ever>>
histVars  == <<streak, healthy, late>>
allVars   == <<vars, at, probeVars, histVars>>

(* The poll interval, where it is set. *)
pi == IF base > 0 THEN base ELSE Second

\* Mutant: readiness lasts three intervals.
WindowShort == 3 * pi

Window == 5 * pi

Ready == ever /\ age <= Window

Least(x, y) == IF x < y THEN x ELSE y
Most(x, y)  == IF x > y THEN x ELSE y

(* The longest wait: the poll interval, or the maximum and 20%. *)
LongestWait == Most(0, Most(base, Quotient(6 * max, 5)))

IsFollowed == base \in Followed /\ max \in Followed

Passes(t) ==
    /\ age' = IF ever THEN Least(age + t, Window + 1) ELSE 0
    /\ late' = IF healthy THEN Least(late + t, LongestWait + pi + 1) ELSE 0

ReadyInit ==
    /\ Init
    /\ at = "reconcile"
    /\ age = 0 /\ ever = FALSE
    /\ streak = 0 /\ healthy = FALSE /\ late = 0

-----------------------------------------------------------------------------
(* Fetch, decide and apply take time t, at most a poll interval. *)
Iterate(t) ==
    /\ at = "reconcile"
    /\ Passes(t)
    /\ at' = "outcome"
    /\ UNCHANGED <<vars, ever, streak, healthy>>

(* computeBackoffDuration is called. *)
sleepWithBackoff(errors) ==
    /\ errorCount' = errors
    /\ pc' = "loop" /\ i' = 1 /\ d' = base /\ wait' = 0 /\ ideal' = base
    /\ at' = "wait"
    /\ UNCHANGED <<base, max>>

\* Mutant: the time of the first success stays.
recordFirstSuccess ==
    /\ age' = IF ever THEN age ELSE 0
    /\ ever' = TRUE

(* lastSuccessfulReconcile *)
recordSyncSuccess ==
    /\ age' = 0
    /\ ever' = TRUE

(* An apply, or nothing to apply. *)
Succeeds ==
    /\ at = "outcome"
    /\ IsFollowed
    /\ recordSyncSuccess
    /\ streak' = 0
    /\ sleepWithBackoff(0)
    /\ UNCHANGED <<healthy, late>>

Fails(errors) ==
    /\ at = "outcome"
    /\ ~healthy
    /\ streak' = Least(streak + 1, 2)
    /\ sleepWithBackoff(errors)
    /\ UNCHANGED <<probeVars, healthy, late>>

FetchFails == errorCount < MaxErrors /\ Fails(errorCount + 1)

(* The error count is reset between fetch and apply. *)
ApplyFails == Fails(1)

(* The duration is computed in no time. *)
Compute ==
    /\ at = "wait"
    /\ Next
    /\ UNCHANGED <<at, probeVars, histVars>>

(* A timer with a negative duration fires at once. *)
Wake ==
    /\ at = "wait"
    /\ pc = "sleep"
    /\ Passes(IF wait > 0 THEN wait ELSE 0)
    /\ at' = "reconcile"
    /\ UNCHANGED <<vars, ever, streak, healthy>>

-----------------------------------------------------------------------------
(* The upstream and the API recover; an iteration under way may still fail first. *)
Heal ==
    /\ at = "wait" /\ pc = "loop" /\ i = 1
    /\ IsFollowed /\ ~healthy
    /\ healthy' = TRUE
    /\ UNCHANGED <<vars, at, probeVars, streak, late>>

ReadyNext ==
    \/ \E t \in 0..pi : Iterate(t)
    \/ Succeeds \/ FetchFails \/ ApplyFails
    \/ Compute \/ Wake \/ Heal

ReadySpec == ReadyInit /\ [][ReadyNext]_allVars

-----------------------------------------------------------------------------
(***************************************************************************)
(* One failed iteration does not show: as long as no two iterations in a   *)
(* row fail, every probe after the first success is answered with ready,   *)
(* for any poll interval, maximum and jitter, if an iteration takes no     *)
(* longer than the poll interval.                                          *)
(***************************************************************************)
LoneFailureTolerated == ever /\ streak <= 1 => Ready

(***************************************************************************)
(* However far the backoff had grown, a process whose iterations no longer *)
(* fail is ready after one longest wait and one iteration, and stays so.   *)
(***************************************************************************)
RecoveryIsPrompt == healthy /\ late > LongestWait + pi => Ready

=============================================================================
