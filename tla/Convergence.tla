----------------------------- MODULE Convergence -----------------------------
(***************************************************************************)
(* What applyConfig promises the reconcile loop: a round moves the managed *)
(* objects one by one towards its configuration and nowhere else, reports  *)
(* success only when they are there, and ends.  Phases, their order and    *)
(* the semaphore do not appear; ApplyPhases implements this.               *)
(***************************************************************************)
CONSTANTS
    Object,   \* managed objects
    Goal      \* configurations: what is to be held of each object

VARIABLES
    goal,     \* the configuration of the current or last round
    holds,    \* what the cluster holds of each object
    status    \* "running", "ok" or "failed"

vars == <<goal, holds, status>>

Init ==
    /\ goal \in Goal
    /\ holds = goal
    /\ status = "ok"

Begin ==
    /\ status # "running"
    /\ status' = "running"
    /\ goal' \in Goal
    /\ UNCHANGED holds

(* One object is created, updated or deleted. *)
Repair(o) ==
    /\ status = "running"
    /\ holds' = [holds EXCEPT ![o] = goal[o]]
    /\ UNCHANGED <<goal, status>>

Succeed ==
    /\ status = "running"
    /\ holds = goal
    /\ status' = "ok"
    /\ UNCHANGED <<goal, holds>>

Fail ==
    /\ status = "running"
    /\ status' = "failed"
    /\ UNCHANGED <<goal, holds>>

Next == Begin \/ Succeed \/ Fail \/ \E o \in Object : Repair(o)

SafeSpec == Init /\ [][Next]_vars

Spec == SafeSpec /\ WF_vars(Succeed \/ Fail)

=============================================================================
