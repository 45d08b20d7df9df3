------------------------------ MODULE Lifecycle ------------------------------
(***************************************************************************)
(* Replicas of the controller process: start-up, the errgroup of HTTP      *)
(* server, leader election and label monitor (internal/orchestration), the *)
(* reconcile loop run under the leader's context, the grace workers run    *)
(* under the process's, loss of leadership and shutdown.                   *)
(*                                                                         *)
(* The lease and client-go's elector are external.  Clocks keep to the     *)
(* elector's contract: NewLeaderElector refuses a renewal deadline that is *)
(* not below the lease duration, so a leader notices that it cannot renew  *)
(* before its lease runs out.                                              *)
(***************************************************************************)
EXTENDS Naturals

CONSTANTS
    Replica,       \* controller processes
    NoOne,         \* nobody holds the lease
    Settings,      \* ENABLE_LEADER_ELECTION, ON_LOSE and whether there is a GC_GRACE_PERIOD
    MaxLosses,     \* bound on leaderships lost while the process runs
    MaxFaults,     \* bound on failing components and crashes
    MaxRestarts    \* bound on Pod restarts

ASSUME LifecycleAssumption ==
    /\ NoOne \notin Replica
    /\ Settings \subseteq [leader : BOOLEAN, onLose : {"exit", "pause"}, grace : BOOLEAN]
    /\ MaxLosses \in Nat
    /\ MaxFaults \in Nat
    /\ MaxRestarts \in Nat

VARIABLES
    holder,   \* who holds the lease
    rep,      \* rep[r]: the process of replica r
    losses, faults, restarts

vars == <<holder, rep, losses, faults, restarts>>

(***************************************************************************)
(* One process.                                                            *)
(***************************************************************************)
Process ==
    [cfg     : Settings,
     main    : {"starting", "running", "draining", "returned"},
     result  : {"none", "nil", "error", "exit", "crash"},
     gdone   : BOOLEAN,                          \* gctx is cancelled
     err     : BOOLEAN,                          \* a group member failed
     http    : {"down", "serving"},
     mon     : {"off", "running"},
     elect   : {"off", "acquiring", "leading", "stopping", "over"},
     ldone   : BOOLEAN,                          \* the leader's context is cancelled
     loop    : {"off", "waiting", "applying"},
     grace   : BOOLEAN,                          \* a grace deletion is pending
     exitReq : BOOLEAN,                          \* exitRequested
     lost    : BOOLEAN]                          \* history: leadership was lost

NewProcess(c) ==
    [cfg |-> c, main |-> "starting", result |-> "none", gdone |-> FALSE, err |-> FALSE,
     http |-> "down", mon |-> "off", elect |-> "off", ldone |-> FALSE,
     loop |-> "off", grace |-> FALSE, exitReq |-> FALSE, lost |-> FALSE]

TypeOK ==
    /\ holder \in Replica \cup {NoOne}
    /\ rep \in [Replica -> Process]
    /\ losses \in 0..MaxLosses
    /\ faults \in 0..MaxFaults
    /\ restarts \in 0..MaxRestarts

Init ==
    /\ holder = NoOne
    /\ \E c \in Settings : rep = [r \in Replica |-> NewProcess(c)]
    /\ losses = 0 /\ faults = 0 /\ restarts = 0

-----------------------------------------------------------------------------
Fault == faults < MaxFaults /\ faults' = faults + 1

LeaderEnabled(r) == rep[r].cfg.leader

Alive(r) == rep[r].main \in {"running", "draining"}

\* Mutant: the loop runs under the process's context.
LoopCtxDoneGroup(r) == rep[r].gdone

(* The context of the reconcile loop. *)
LoopCtxDone(r) == rep[r].gdone \/ (LeaderEnabled(r) /\ rep[r].ldone)

(***************************************************************************)
(* Start-up: clients and the instance label, then the members of the group.*)
(* The monitor returns at once when there is no label to verify.           *)
(***************************************************************************)
Start(r) ==
    /\ rep[r].main = "starting"
    /\ \E m \in {"off", "running"} :
          rep' = [rep EXCEPT ![r].main = "running",
                             ![r].http = "serving",
                             ![r].mon = m,
                             ![r].elect = IF LeaderEnabled(r) THEN "acquiring" ELSE "off",
                             ![r].loop = IF LeaderEnabled(r) THEN "off" ELSE "waiting"]
    /\ UNCHANGED <<holder, losses, faults, restarts>>

StartFails(r) ==
    /\ rep[r].main = "starting"
    /\ Fault
    /\ rep' = [rep EXCEPT ![r].main = "returned", ![r].result = "error", ![r].err = TRUE]
    /\ UNCHANGED <<holder, losses, restarts>>

(* The context given to Run is cancelled by a signal. *)
Signal(r) ==
    /\ Alive(r)
    /\ ~rep[r].gdone
    /\ rep' = [rep EXCEPT ![r].gdone = TRUE]
    /\ UNCHANGED <<holder, losses, faults, restarts>>

(* A member of the group returns an error, which cancels gctx. *)
HTTPFails(r) ==
    /\ rep[r].http = "serving" /\ Alive(r)
    /\ Fault
    /\ rep' = [rep EXCEPT ![r].http = "down", ![r].err = TRUE, ![r].gdone = TRUE]
    /\ UNCHANGED <<holder, losses, restarts>>

(* Strict verification of the IngressClass label found a mismatch. *)
MonitorFails(r) ==
    /\ rep[r].mon = "running"
    /\ Fault
    /\ rep' = [rep EXCEPT ![r].mon = "off", ![r].err = TRUE, ![r].gdone = TRUE]
    /\ UNCHANGED <<holder, losses, restarts>>

MonitorReturns(r) ==
    /\ rep[r].mon = "running"
    /\ rep[r].gdone
    /\ rep' = [rep EXCEPT ![r].mon = "off"]
    /\ UNCHANGED <<holder, losses, faults, restarts>>

-----------------------------------------------------------------------------
(***************************************************************************)
(* Leader election.                                                        *)
(***************************************************************************)
Acquire(r) ==
    /\ rep[r].elect = "acquiring"
    /\ ~rep[r].gdone
    /\ holder = NoOne
    /\ holder' = r
    /\ rep' = [rep EXCEPT ![r].elect = "leading", ![r].loop = "waiting"]
    /\ UNCHANGED <<losses, faults, restarts>>

(***************************************************************************)
(* OnStoppedLeading.  Its cancel ends a context that nobody uses any more: *)
(* the elector has returned.                                               *)
(***************************************************************************)
handleLeadershipLoss(p) ==
    [p EXCEPT !.elect = "over", !.ldone = TRUE,
              !.exitReq = p.cfg.onLose = "exit" \/ p.exitReq]

GivesUp(r) == rep[r].elect = "acquiring" /\ rep[r].gdone

(* A candidate is cancelled; the elector calls OnStoppedLeading all the same. *)
AcquireCancelled(r) ==
    /\ GivesUp(r)
    /\ rep' = [rep EXCEPT ![r] = handleLeadershipLoss(@)]
    /\ UNCHANGED <<holder, losses, faults, restarts>>

(***************************************************************************)
(* The leader cannot renew, or is cancelled: it tries to release the lease *)
(* (ReleaseOnCancel) before the context of the loop is cancelled.          *)
(***************************************************************************)
RenewEnds(r) ==
    /\ rep[r].elect = "leading"
    /\ IF rep[r].gdone THEN UNCHANGED losses
                       ELSE losses < MaxLosses /\ losses' = losses + 1
    /\ holder' \in {NoOne, r}
    /\ rep' = [rep EXCEPT ![r].elect = "stopping", ![r].lost = ~rep[r].gdone]
    /\ UNCHANGED <<faults, restarts>>

StopLeading(r) ==
    /\ rep[r].elect = "stopping"
    /\ rep' = [rep EXCEPT ![r] = handleLeadershipLoss(@)]
    /\ UNCHANGED <<holder, losses, faults, restarts>>

RunsOut(r) == rep[r].elect # "leading"

LeaseExpires(r) ==
    /\ holder = r
    /\ RunsOut(r)
    /\ holder' = NoOne
    /\ UNCHANGED <<rep, losses, faults, restarts>>

-----------------------------------------------------------------------------
(***************************************************************************)
(* What a leader does: the loop and the grace workers.                     *)
(***************************************************************************)
BeginApply(r) ==
    /\ rep[r].loop = "waiting"
    /\ ~LoopCtxDone(r)
    /\ rep' = [rep EXCEPT ![r].loop = "applying"]
    /\ UNCHANGED <<holder, losses, faults, restarts>>

(* One write to the cluster; g tells whether it queued a grace deletion. *)
LoopWrites(r, g) ==
    /\ rep[r].loop = "applying"
    /\ ~LoopCtxDone(r)
    /\ g => rep[r].cfg.grace
    /\ rep' = [rep EXCEPT ![r].grace = @ \/ g]
    /\ UNCHANGED <<holder, losses, faults, restarts>>

EndApply(r) ==
    /\ rep[r].loop = "applying"
    /\ rep' = [rep EXCEPT ![r].loop = "waiting"]
    /\ UNCHANGED <<holder, losses, faults, restarts>>

LoopExits(r) ==
    /\ rep[r].loop = "waiting"
    /\ LoopCtxDone(r)
    /\ rep' = [rep EXCEPT ![r].loop = "off"]
    /\ UNCHANGED <<holder, losses, faults, restarts>>

(* A worker deletes after the grace period, or returns on gctx. *)
GraceDelete(r) ==
    /\ rep[r].grace
    /\ ~rep[r].gdone
    /\ rep' = [rep EXCEPT ![r].grace = FALSE]
    /\ UNCHANGED <<holder, losses, faults, restarts>>

-----------------------------------------------------------------------------
(***************************************************************************)
(* Shutdown.                                                               *)
(***************************************************************************)
\* Mutant: the caller's context is waited for, which a failing member does not cancel.
ShutdownOnSignal(r) ==
    /\ rep[r].main = "running"
    /\ rep[r].gdone /\ ~rep[r].err
    /\ rep' = [rep EXCEPT ![r].main = "draining", ![r].http = "down"]
    /\ UNCHANGED <<holder, losses, faults, restarts>>

Shutdown(r) ==
    /\ rep[r].main = "running"
    /\ rep[r].gdone
    /\ rep' = [rep EXCEPT ![r].main = "draining", ![r].http = "down"]
    /\ UNCHANGED <<holder, losses, faults, restarts>>

(* Leader election has returned; it does not wait for the loop it started. *)
ElectionReturned(r) ==
    IF LeaderEnabled(r) THEN rep[r].elect = "over" ELSE rep[r].loop = "off"

\* Mutant: the group is not waited for.
GroupReturnedEarly(r) == TRUE

GroupReturned(r) == rep[r].http = "down" /\ rep[r].mon = "off" /\ ElectionReturned(r)

ReturnValue(p) == CASE p.err -> "error" [] p.exitReq /\ ~p.err -> "exit" [] OTHER -> "nil"

(* The end of a process takes its goroutines with it. *)
Ended(p, res) ==
    [p EXCEPT !.main = "returned", !.result = res, !.gdone = TRUE, !.http = "down",
              !.mon = "off", !.elect = "off", !.loop = "off", !.grace = FALSE]

Return(r) ==
    /\ rep[r].main = "draining"
    /\ GroupReturned(r)
    /\ rep' = [rep EXCEPT ![r] = Ended(@, ReturnValue(@))]
    /\ UNCHANGED <<holder, losses, faults, restarts>>

Crash(r) ==
    /\ Alive(r)
    /\ Fault
    /\ rep' = [rep EXCEPT ![r] = Ended(@, "crash")]
    /\ UNCHANGED <<holder, losses, restarts>>

Restart(r) ==
    /\ rep[r].main = "returned"
    /\ restarts < MaxRestarts
    /\ restarts' = restarts + 1
    /\ rep' = [rep EXCEPT ![r] = NewProcess(@.cfg)]
    /\ UNCHANGED <<holder, losses, faults>>

-----------------------------------------------------------------------------
Election(r) == Acquire(r) \/ AcquireCancelled(r) \/ RenewEnds(r) \/ StopLeading(r)

Loop(r) ==
    \/ BeginApply(r) \/ EndApply(r) \/ LoopExits(r)
    \/ \E g \in BOOLEAN : LoopWrites(r, g)

Next ==
    \E r \in Replica :
        \/ Start(r) \/ StartFails(r) \/ Signal(r) \/ HTTPFails(r)
        \/ MonitorFails(r) \/ MonitorReturns(r)
        \/ Election(r) \/ LeaseExpires(r)
        \/ Loop(r) \/ GraceDelete(r)
        \/ Shutdown(r) \/ Return(r) \/ Crash(r) \/ Restart(r)

Spec == Init /\ [][Next]_vars

(***************************************************************************)
(* Goroutines run, API calls return, leases run out and are taken.  No     *)
(* signal, failure, loss or restart is promised.                           *)
(***************************************************************************)
Fairness ==
    \A r \in Replica :
        /\ WF_vars(Start(r) \/ StartFails(r))
        /\ WF_vars(MonitorReturns(r))
        /\ WF_vars(AcquireCancelled(r))
        /\ WF_vars(rep[r].gdone /\ RenewEnds(r))
        /\ WF_vars(StopLeading(r))
        /\ WF_vars(LeaseExpires(r))
        /\ WF_vars(Acquire(r))
        /\ WF_vars(EndApply(r))
        /\ WF_vars(LoopExits(r))
        /\ WF_vars(Shutdown(r))
        /\ WF_vars(Return(r))

FairSpec == Spec /\ Fairness

-----------------------------------------------------------------------------
(***************************************************************************)
(* Properties.                                                             *)
(***************************************************************************)

LoopMayWrite(r) == rep[r].loop = "applying" /\ ~LoopCtxDone(r)

(***************************************************************************)
(* Loops of two replicas write at the same time only in the handover       *)
(* window, between the release of the lease and the cancellation of the    *)
(* old leader's context.                                                   *)
(***************************************************************************)
OverlapOnlyInHandover ==
    \A r, s \in Replica :
        r # s /\ LeaderEnabled(r) /\ LoopMayWrite(r) /\ rep[s].elect = "leading"
            => rep[r].elect = "stopping"

(***************************************************************************)
(* A nil result hides nothing: no member of the group failed, and no       *)
(* leadership was lost under ON_LOSE=exit - also when the loss races the   *)
(* signal.                                                                 *)
(***************************************************************************)
NilMeansClean ==
    \A r \in Replica :
        rep[r].result = "nil" => ~rep[r].err /\ (rep[r].lost => rep[r].cfg.onLose = "pause")

(***************************************************************************)
(* A signal or a failing member ends the process, wherever leader election *)
(* and the loop are.                                                       *)
(***************************************************************************)
ShutdownCompletes ==
    \A r \in Replica :
        rep[r].gdone \/ rep[r].err ~> rep[r].main = "returned"

(***************************************************************************)
(* Documented, and not so: a process that lost the leadership exits under  *)
(* ON_LOSE=exit, and under ON_LOSE=pause pauses until it leads again.      *)
(* RunLeaderElection returns nil to the group with the elector: nothing    *)
(* cancels gctx, nobody runs for leader again, and the process idles with  *)
(* its endpoints up.                                                       *)
(***************************************************************************)
LossIsHandled ==
    \A r \in Replica :
        rep[r].elect = "over" ~>
            \/ rep[r].main = "returned"
            \/ rep[r].cfg.onLose = "pause" /\ rep[r].elect = "leading"

=============================================================================
