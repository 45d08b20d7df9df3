----------------------------- MODULE ApplyPhases -----------------------------
(***************************************************************************)
(* applyConfig across the resource kinds: one phase per kind, one after    *)
(* the other or in an errgroup behind a semaphore.  A phase applies its    *)
(* desired objects, then deletes the stale ones of its kind (the grace     *)
(* queue is the subject of Reconciler).                                    *)
(*                                                                         *)
(* Objects refer to objects of other kinds: routers to middlewares and     *)
(* services, services to transports.                                       *)
(***************************************************************************)
EXTENDS Naturals, FiniteSets, Sequences

CONSTANTS
    Name,        \* object names
    Desired,     \* sanitized configurations: functions from objects to references
    Max,         \* RECONCILE_MAX
    MaxRounds,   \* bound on rounds
    MaxFaults    \* bound on failing API calls and transformations

Order == <<"middlewares", "routers", "serversTransports", "services", "tcp", "udp">>
Phase == {Order[i] : i \in 1..Len(Order)}

(* The sanitized configuration has no TCP and no UDP section. *)
Dropped == {"tcp", "udp"}

Object == (Phase \ Dropped) \X Name
OfKind(k, s) == {o \in s : o[1] = k}

(* Every configuration the endpoint serves refers to objects it defines. *)
ASSUME PhasesAssumption ==
    /\ \A c \in Desired : \E s \in SUBSET Object : c \in [s -> SUBSET s]
    /\ Max \in Nat
    /\ MaxRounds \in Nat
    /\ MaxFaults \in Nat

VARIABLES
    parallel, \* RECONCILE_PARALLEL, fixed while the process runs
    cluster,  \* the managed objects and the references they hold
    want,     \* the configuration of the current or last round
    round,    \* "idle" or "running"
    failed,   \* the last round failed, or there has been none
    phase,    \* phase[k]: where the phase is
    todo,     \* todo[k]: objects to apply, or to delete
    rounds, faults

vars == <<parallel, cluster, want, round, failed, phase, todo, rounds, faults>>

TypeOK ==
    /\ parallel \in BOOLEAN
    /\ cluster \in [DOMAIN cluster -> SUBSET Object] /\ DOMAIN cluster \subseteq Object
    /\ want \in Desired
    /\ round \in {"idle", "running"}
    /\ failed \in BOOLEAN
    /\ phase \in [Phase -> {"waiting", "apply", "gc", "ok", "error"}]
    /\ todo \in [Phase -> SUBSET Object] /\ \A k \in Phase : todo[k] = OfKind(k, todo[k])
    /\ rounds \in 0..MaxRounds
    /\ faults \in 0..MaxFaults

(* The cluster holds some configuration applied before. *)
Init ==
    /\ parallel \in BOOLEAN
    /\ want \in Desired
    /\ cluster = want
    /\ round = "idle" /\ failed = FALSE
    /\ phase = [k \in Phase |-> "ok"]
    /\ todo = [k \in Phase |-> {}]
    /\ rounds = 0 /\ faults = 0

-----------------------------------------------------------------------------
(***************************************************************************)
(* The loop applies a body that changed or failed; two bodies may well     *)
(* sanitize to the same configuration.                                     *)
(***************************************************************************)
BeginRound(c) ==
    /\ round = "idle"
    /\ rounds < MaxRounds
    /\ rounds' = rounds + 1
    /\ want' = c
    /\ round' = "running"
    /\ phase' = [k \in Phase |-> "waiting"]
    /\ todo' = [k \in Phase |-> {}]
    /\ UNCHANGED <<parallel, cluster, failed, faults>>

Active == {k \in Phase : phase[k] \in {"apply", "gc"}}
Errors == {k \in Phase : phase[k] = "error"}

Slots == IF Max < 1 THEN 1 ELSE Max

\* Mutant: services and routers go before middlewares.
InTurnReversed(k) ==
    \E i \in 1..Len(Order) :
        /\ Order[i] = k
        /\ \A j \in (i + 1)..Len(Order) : phase[Order[j]] = "ok"

(* applyConfigSequential *)
InTurn(k) ==
    \E i \in 1..Len(Order) :
        /\ Order[i] = k
        /\ \A j \in 1..(i - 1) : phase[Order[j]] = "ok"

(* tcp and udp return at once: their sections are nil. *)
StartPhase(k) ==
    /\ round = "running"
    /\ phase[k] = "waiting"
    /\ IF parallel THEN Cardinality(Active) < Slots ELSE InTurn(k)
    /\ phase' = [phase EXCEPT ![k] = IF k \in Dropped THEN "ok" ELSE "apply"]
    /\ todo' = [todo EXCEPT ![k] = OfKind(k, DOMAIN want)]
    /\ UNCHANGED <<parallel, cluster, want, round, failed, rounds, faults>>

ApplyObject(k, o) ==
    /\ phase[k] = "apply"
    /\ o \in todo[k]
    /\ cluster' = [x \in DOMAIN cluster \cup {o} |-> IF x = o THEN want[o] ELSE cluster[x]]
    /\ todo' = [todo EXCEPT ![k] = @ \ {o}]
    /\ UNCHANGED <<parallel, want, round, failed, phase, rounds, faults>>

StaleOf(k) == OfKind(k, DOMAIN cluster \ DOMAIN want)

ListStale(k) ==
    /\ phase[k] = "apply"
    /\ todo[k] = {}
    /\ phase' = [phase EXCEPT ![k] = "gc"]
    /\ todo' = [todo EXCEPT ![k] = StaleOf(k)]
    /\ UNCHANGED <<parallel, cluster, want, round, failed, rounds, faults>>

DeleteObject(k, o) ==
    /\ phase[k] = "gc"
    /\ o \in todo[k]
    /\ cluster' = [x \in DOMAIN cluster \ {o} |-> cluster[x]]
    /\ todo' = [todo EXCEPT ![k] = @ \ {o}]
    /\ UNCHANGED <<parallel, want, round, failed, phase, rounds, faults>>

PhaseDone(k) ==
    /\ phase[k] = "gc"
    /\ todo[k] = {}
    /\ phase' = [phase EXCEPT ![k] = "ok"]
    /\ UNCHANGED <<parallel, cluster, want, round, failed, todo, rounds, faults>>

(* The first error of an errgroup cancels the calls of the other phases. *)
Cancelled == parallel /\ Errors # {}

PhaseFails(k) ==
    /\ k \in Active
    /\ IF Cancelled THEN UNCHANGED faults ELSE faults < MaxFaults /\ faults' = faults + 1
    /\ phase' = [phase EXCEPT ![k] = "error"]
    /\ UNCHANGED <<parallel, cluster, want, round, failed, todo, rounds>>

\* Mutant: the first error ends the wait for the group.
WaitedFirst == Errors # {} \/ \A k \in Phase : phase[k] = "ok"

Waited ==
    IF parallel THEN \A k \in Phase : phase[k] \in {"ok", "error"}
                ELSE Errors # {} \/ \A k \in Phase : phase[k] = "ok"

\* Mutant: errors of the phases are only logged.
RoundErrorLogged == FALSE

RoundError == Errors # {}

EndRound ==
    /\ round = "running"
    /\ Waited
    /\ round' = "idle"
    /\ failed' = RoundError
    /\ UNCHANGED <<parallel, cluster, want, phase, todo, rounds, faults>>

-----------------------------------------------------------------------------
PhaseStep(k) ==
    \/ StartPhase(k) \/ ListStale(k) \/ PhaseDone(k)
    \/ \E o \in Object : ApplyObject(k, o) \/ DeleteObject(k, o)

Next ==
    \/ \E c \in Desired : BeginRound(c)
    \/ \E k \in Phase : PhaseStep(k) \/ PhaseFails(k)
    \/ EndRound

Spec == Init /\ [][Next]_vars

(* The goroutines of a round run and its calls return. *)
FairSpec ==
    Spec /\ WF_vars(EndRound) /\ \A k \in Phase : WF_vars(PhaseStep(k))

-----------------------------------------------------------------------------
(***************************************************************************)
(* A round that reports success leaves exactly the desired objects, of     *)
(* every kind and with their references, however earlier rounds failed     *)
(* and however the phases interleaved.                                     *)
(***************************************************************************)
SuccessMeansConverged == round = "idle" /\ ~failed => cluster = want

(***************************************************************************)
(* Without the errgroup, a router applied in this round finds the          *)
(* middlewares it names: their phase has applied and collected before.     *)
(***************************************************************************)
RoutersFindMiddlewares ==
    ~parallel /\ phase["routers"] \in {"apply", "gc", "ok"} =>
        \A o \in OfKind("routers", DOMAIN cluster \cap DOMAIN want) :
            phase["routers"] # "apply" \/ o \notin todo["routers"] =>
                OfKind("middlewares", want[o]) \subseteq DOMAIN cluster

(***************************************************************************)
(* The refinement mapping: what the cluster holds of every object, the     *)
(* set of its one value or the empty set.                                  *)
(***************************************************************************)
Held(c) == [o \in Object |-> {c[x] : x \in DOMAIN c \cap {o}}]
Status == IF round = "running" THEN "running" ELSE IF failed THEN "failed" ELSE "ok"

Round == INSTANCE Convergence WITH
    Goal <- {Held(c) : c \in Desired}, goal <- Held(want), holds <- Held(cluster), status <- Status

(***************************************************************************)
(* In both modes a round of phases is one convergence: whatever fails and  *)
(* however the phases interleave, every write is a step towards the        *)
(* round's own configuration (no phase of an earlier round still writes),  *)
(* success is reported only at the goal, and every round ends.             *)
(***************************************************************************)
ImplementsConvergence == Round!Spec

=============================================================================
