-------------------------- MODULE ApplyPhasesProofs --------------------------
(***************************************************************************)
(* Proofs about ApplyPhases, for every set of names, every family of       *)
(* configurations that refer to what they define, both modes, any number   *)
(* of semaphore slots, rounds and faults.                                  *)
(***************************************************************************)
EXTENDS ApplyPhases, TLAPS

(* The desired objects of the kind are in the cluster as wanted. *)
Applied(k, s) ==
    \A o \in OfKind(k, DOMAIN want) \ s : o \in DOMAIN cluster /\ cluster[o] = want[o]

(***************************************************************************)
(* What is still to do accounts for all that keeps the kind from its goal, *)
(* and nothing else is still to do.                                        *)
(***************************************************************************)
PhaseProgress(k) ==
    /\ phase[k] = "apply" => todo[k] \subseteq DOMAIN want /\ Applied(k, todo[k])
    /\ phase[k] = "gc" => todo[k] = StaleOf(k) /\ Applied(k, {})
    /\ phase[k] = "ok" => StaleOf(k) = {} /\ Applied(k, {})

(* One after the other: a phase has left "waiting" after all before it were done. *)
InSequence ==
    ~parallel =>
        \A i, j \in 1..6 : i < j /\ phase[Order[j]] # "waiting" => phase[Order[i]] = "ok"

(* Between rounds no phase is at work. *)
QuietWhenIdle == round = "idle" => \A k \in Phase : phase[k] \notin {"apply", "gc"}

(* Success is the success of every phase. *)
SuccessMeansAll == round = "idle" /\ ~failed => \A k \in Phase : phase[k] = "ok"

IndInv ==
    /\ TypeOK
    /\ \A k \in Phase : PhaseProgress(k)
    /\ InSequence
    /\ QuietWhenIdle
    /\ SuccessMeansAll

-----------------------------------------------------------------------------
(* The phases and their order. *)
LEMMA OrderFacts ==
    /\ Phase = {"middlewares", "routers", "serversTransports", "services", "tcp", "udp"}
    /\ Len(Order) = 6
    /\ \A i \in 1..6 : Order[i] \in Phase
    /\ \A i, j \in 1..6 : Order[i] = Order[j] => i = j
    /\ \A k \in Phase : \E i \in 1..6 : Order[i] = k
    /\ Order[1] = "middlewares" /\ Order[2] = "routers"
  BY DEF Phase, Order

(* An object is of one kind, and that kind has a phase with work to do. *)
LEMMA KindOfObject ==
    ASSUME NEW o \in Object
    PROVE  o[1] \in Phase \ Dropped
  BY DEF Object

(* A configuration is a function on objects whose references it defines. *)
LEMMA ConfigTyped ==
    ASSUME NEW c \in Desired
    PROVE  /\ DOMAIN c \subseteq Object
           /\ c \in [DOMAIN c -> SUBSET DOMAIN c]
           /\ c \in [DOMAIN c -> SUBSET Object]
  BY PhasesAssumption

(* The initial state: the cluster is at its goal. *)
LEMMA InitInd == Init => IndInv
  <1> SUFFICES ASSUME Init PROVE IndInv
    OBVIOUS
  <1> USE PhasesAssumption
  <1>0. parallel \in BOOLEAN /\ failed \in BOOLEAN
    BY Zenon DEF Init
  <1>1. TypeOK
    BY <1>0, ConfigTyped DEF Init, TypeOK, OfKind
  <1>2. ASSUME NEW k \in Phase PROVE PhaseProgress(k)
    BY <1>2, ConfigTyped DEF Init, PhaseProgress, StaleOf, Applied, OfKind
  <1>3. InSequence /\ QuietWhenIdle /\ SuccessMeansAll
    BY OrderFacts DEF Init, InSequence, QuietWhenIdle, SuccessMeansAll
  <1> QED
    BY <1>1, <1>2, <1>3 DEF IndInv

(***************************************************************************)
(* A step of phase k that writes objects of its own kind only leaves the   *)
(* progress of the other phases alone: kinds share no object.              *)
(***************************************************************************)
LEMMA OthersKeepProgress ==
    ASSUME TypeOK, NEW k \in Phase, NEW j \in Phase \ {k}, PhaseProgress(j),
           want' = want, phase'[j] = phase[j], todo'[j] = todo[j],
           DOMAIN cluster' \subseteq Object,
           \A o \in Object : o[1] # k =>
               /\ o \in DOMAIN cluster' <=> o \in DOMAIN cluster
               /\ o \in DOMAIN cluster => cluster'[o] = cluster[o]
    PROVE  PhaseProgress(j)'
  <1>1. DOMAIN want \subseteq Object /\ DOMAIN cluster \subseteq Object
    BY ConfigTyped DEF TypeOK
  <1>2. StaleOf(j)' = StaleOf(j)
    BY <1>1 DEF StaleOf, OfKind
  <1>3. ASSUME NEW s PROVE Applied(j, s) => (\A o \in OfKind(j, DOMAIN want') \ s :
                                 o \in DOMAIN cluster' /\ cluster'[o] = want'[o])
    BY <1>1 DEF Applied, OfKind
  <1> QED
    BY <1>2, <1>3 DEF PhaseProgress, Applied

(***************************************************************************)
(* A phase that moves on from "apply" or "gc", or starts in its turn,      *)
(* keeps the sequence.                                                     *)
(***************************************************************************)
LEMMA MoveKeepsSequence ==
    ASSUME TypeOK, InSequence, NEW k \in Phase, NEW x,
           phase' = [phase EXCEPT ![k] = x], parallel' = parallel,
           phase[k] # "ok",
           phase[k] # "waiting" \/ parallel \/ InTurn(k)
    PROVE  InSequence'
  <1> SUFFICES ASSUME ~parallel, NEW i \in 1..6, NEW j \in 1..6, i < j,
                      phase'[Order[j]] # "waiting"
               PROVE  phase'[Order[i]] = "ok"
    BY DEF InSequence
  <1>0. Order[i] \in Phase /\ Order[j] \in Phase
    BY OrderFacts
  <1>1. CASE Order[j] = k
    <2>1. phase[Order[i]] = "ok"
      <3>1. CASE phase[k] # "waiting"
        BY <3>1, <1>1 DEF InSequence
      <3>2. CASE InTurn(k)
        <4>1. PICK m \in 1..6 : Order[m] = k /\ \A l \in 1..(m - 1) : phase[Order[l]] = "ok"
          BY <3>2, OrderFacts DEF InTurn
        <4>2. m = j
          BY <4>1, <1>1, OrderFacts
        <4> QED
          BY <4>1, <4>2
      <3> QED
        BY <3>1, <3>2
    <2>2. Order[i] # k
      BY <1>1, OrderFacts
    <2> QED
      BY <2>1, <2>2, <1>0 DEF TypeOK
  <1>2. CASE Order[j] # k
    <2>1. phase[Order[i]] = "ok"
      BY <1>2, <1>0 DEF InSequence, TypeOK
    <2>2. Order[i] # k
      BY <2>1
    <2> QED
      BY <2>1, <2>2, <1>0 DEF TypeOK
  <1> QED
    BY <1>1, <1>2

(* When the loop stops waiting, no phase is at work any more. *)
LEMMA WaitedIsQuiet ==
    ASSUME TypeOK, InSequence, Waited
    PROVE  /\ \A k \in Phase : phase[k] \notin {"apply", "gc"}
           /\ Errors = {} => \A k \in Phase : phase[k] = "ok"
  <1>1. CASE parallel
    BY <1>1 DEF Waited, Errors
  <1>2. CASE ~parallel
    <2>1. CASE Errors # {}
      <3> PICK e \in 1..6 : phase[Order[e]] = "error"
        BY <2>1, OrderFacts DEF Errors
      <3> SUFFICES ASSUME NEW k \in Phase PROVE phase[k] \notin {"apply", "gc"}
        BY <2>1
      <3> PICK i \in 1..6 : Order[i] = k
        BY OrderFacts
      <3>1. CASE i < e
        BY <3>1, <1>2 DEF InSequence
      <3>2. CASE e < i
        BY <3>2, <1>2 DEF InSequence
      <3>3. CASE i = e
        BY <3>3
      <3> QED
        BY <3>1, <3>2, <3>3
    <2>2. CASE Errors = {}
      BY <2>2, <1>2 DEF Waited
    <2> QED
      BY <2>1, <2>2
  <1> QED
    BY <1>1, <1>2

(* Every step of every phase preserves the invariant. *)
LEMMA IndStep == IndInv /\ [Next]_vars => IndInv'
  <1> SUFFICES ASSUME IndInv, [Next]_vars PROVE IndInv'
    OBVIOUS
  <1> USE PhasesAssumption
  <1>0. TypeOK /\ DOMAIN want \subseteq Object /\ want \in [DOMAIN want -> SUBSET Object]
    BY ConfigTyped DEF IndInv, TypeOK
  <1>1. ASSUME NEW c \in Desired, BeginRound(c) PROVE IndInv'
    <2>0. failed' \in BOOLEAN /\ parallel' \in BOOLEAN
      BY <1>1, <1>0, Zenon DEF BeginRound, TypeOK
    <2>1. TypeOK'
      BY <1>0, <1>1, <2>0 DEF BeginRound, TypeOK, OfKind
    <2>2. \A k \in Phase : phase'[k] = "waiting"
      BY <1>1 DEF BeginRound
    <2>3. InSequence' /\ QuietWhenIdle' /\ SuccessMeansAll'
      BY <2>2, <1>1, OrderFacts DEF BeginRound, InSequence, QuietWhenIdle, SuccessMeansAll
    <2> QED
      BY <2>1, <2>2, <2>3 DEF IndInv, PhaseProgress
  <1>2. ASSUME NEW k \in Phase, StartPhase(k) PROVE IndInv'
    <2>0. failed' \in BOOLEAN /\ parallel' \in BOOLEAN
      BY <1>2, <1>0, Zenon DEF StartPhase, TypeOK
    <2>1. TypeOK'
      BY <1>0, <1>2, <2>0 DEF StartPhase, TypeOK, OfKind
    <2>2. PhaseProgress(k)'
      <3>1. CASE k \in Dropped
        <4>1. OfKind(k, Object) = {}
          BY <3>1, KindOfObject DEF OfKind
        <4>2. OfKind(k, DOMAIN want') = {} /\ OfKind(k, DOMAIN cluster' \ DOMAIN want') = {}
          BY <4>1, <1>0, <1>2 DEF OfKind, StartPhase, TypeOK
        <4> QED
          BY <4>2, <3>1, <1>0, <1>2 DEF StartPhase, TypeOK, PhaseProgress, Applied, StaleOf
      <3>2. CASE k \notin Dropped
        BY <3>2, <1>0, <1>2 DEF StartPhase, TypeOK, PhaseProgress, Applied, OfKind
      <3> QED
        BY <3>1, <3>2
    <2>3. ASSUME NEW j \in Phase \ {k} PROVE PhaseProgress(j)'
      BY <1>0, <1>2, <2>3, OthersKeepProgress DEF StartPhase, TypeOK, IndInv
    <2>4. InSequence'
      BY <1>0, <1>2, MoveKeepsSequence DEF StartPhase, IndInv
    <2>5. QuietWhenIdle' /\ SuccessMeansAll'
      BY <1>2 DEF StartPhase, QuietWhenIdle, SuccessMeansAll
    <2> QED
      BY <2>1, <2>2, <2>3, <2>4, <2>5 DEF IndInv
  <1>3. ASSUME NEW k \in Phase, NEW o \in Object, ApplyObject(k, o) PROVE IndInv'
    <2>0. /\ failed' \in BOOLEAN /\ parallel' \in BOOLEAN
      BY <1>3, <1>0, Zenon DEF ApplyObject, TypeOK
    <2>1. o \in DOMAIN want /\ o[1] = k /\ PhaseProgress(k)
      BY <1>3, <1>0 DEF ApplyObject, IndInv, PhaseProgress, TypeOK, OfKind
    <2>2. /\ DOMAIN cluster' = DOMAIN cluster \cup {o} /\ cluster'[o] = want[o]
          /\ \A x \in DOMAIN cluster \ {o} : cluster'[x] = cluster[x]
          /\ cluster' \in [DOMAIN cluster' -> SUBSET Object]
      BY <1>3, <1>0, <2>1 DEF ApplyObject, TypeOK
    <2>3. TypeOK'
      BY <1>0, <1>3, <2>0, <2>2 DEF ApplyObject, TypeOK, OfKind
    <2>4. PhaseProgress(k)'
      BY <1>0, <1>3, <2>1, <2>2 DEF ApplyObject, TypeOK, PhaseProgress, Applied, OfKind
    <2>5. ASSUME NEW j \in Phase \ {k} PROVE PhaseProgress(j)'
      <3>1. \A x \in Object : x[1] # k =>
               /\ x \in DOMAIN cluster' <=> x \in DOMAIN cluster
               /\ x \in DOMAIN cluster => cluster'[x] = cluster[x]
        BY <1>3, <2>1, <2>2 DEF ApplyObject, TypeOK
      <3> QED
        BY <1>0, <1>3, <2>2, <2>3, <2>5, <3>1, OthersKeepProgress DEF ApplyObject, TypeOK, IndInv
    <2>6. InSequence' /\ QuietWhenIdle' /\ SuccessMeansAll'
      BY <1>3 DEF IndInv, ApplyObject, InSequence, QuietWhenIdle, SuccessMeansAll
    <2> QED
      BY <2>3, <2>4, <2>5, <2>6 DEF IndInv
  <1>4. ASSUME NEW k \in Phase, ListStale(k) PROVE IndInv'
    <2>0. /\ failed' \in BOOLEAN /\ parallel' \in BOOLEAN
      BY <1>4, <1>0, Zenon DEF ListStale, TypeOK
    <2>1. TypeOK'
      BY <1>0, <1>4, <2>0 DEF ListStale, StaleOf, TypeOK, OfKind
    <2>2. PhaseProgress(k)'
      <3>1. Applied(k, {})
        BY <1>4 DEF ListStale, IndInv, PhaseProgress
      <3>2. Applied(k, {})' /\ StaleOf(k)' = StaleOf(k)
        BY <3>1, <1>4 DEF ListStale, Applied, StaleOf
      <3> QED
        BY <1>0, <1>4, <3>2 DEF ListStale, TypeOK, PhaseProgress
    <2>3. ASSUME NEW j \in Phase \ {k} PROVE PhaseProgress(j)'
      BY <1>0, <1>4, <2>3, OthersKeepProgress DEF ListStale, TypeOK, IndInv
    <2>4. InSequence'
      BY <1>0, <1>4, MoveKeepsSequence DEF ListStale, IndInv
    <2>5. QuietWhenIdle' /\ SuccessMeansAll'
      BY <1>0, <1>4 DEF ListStale, IndInv, QuietWhenIdle, SuccessMeansAll, TypeOK
    <2> QED
      BY <2>1, <2>2, <2>3, <2>4, <2>5 DEF IndInv
  <1>5. ASSUME NEW k \in Phase, NEW o \in Object, DeleteObject(k, o) PROVE IndInv'
    <2>0. /\ failed' \in BOOLEAN /\ parallel' \in BOOLEAN
      BY <1>5, <1>0, Zenon DEF DeleteObject, TypeOK
    <2>1. o \notin DOMAIN want /\ o[1] = k /\ PhaseProgress(k)
      BY <1>5, <1>0 DEF DeleteObject, IndInv, PhaseProgress, TypeOK, StaleOf, OfKind
    <2>2. /\ DOMAIN cluster' = DOMAIN cluster \ {o}
          /\ \A x \in DOMAIN cluster \ {o} : cluster'[x] = cluster[x]
          /\ cluster' \in [DOMAIN cluster' -> SUBSET Object]
      BY <1>5, <1>0, <2>1 DEF DeleteObject, TypeOK
    <2>3. TypeOK'
      BY <1>0, <1>5, <2>0, <2>2 DEF DeleteObject, TypeOK, OfKind
    <2>4. PhaseProgress(k)'
      <3>1. todo'[k] = StaleOf(k)'
        BY <1>0, <1>5, <2>1, <2>2 DEF DeleteObject, TypeOK, PhaseProgress, StaleOf, OfKind
      <3>2. Applied(k, {})'
        BY <1>0, <1>5, <2>1, <2>2 DEF DeleteObject, TypeOK, PhaseProgress, Applied, OfKind
      <3> QED
        BY <3>1, <3>2, <1>5 DEF DeleteObject, PhaseProgress
    <2>5. ASSUME NEW j \in Phase \ {k} PROVE PhaseProgress(j)'
      <3>1. \A x \in Object : x[1] # k =>
               /\ x \in DOMAIN cluster' <=> x \in DOMAIN cluster
               /\ x \in DOMAIN cluster => cluster'[x] = cluster[x]
        BY <1>5, <2>1, <2>2 DEF DeleteObject, TypeOK
      <3> QED
        BY <1>0, <1>5, <2>2, <2>3, <2>5, <3>1, OthersKeepProgress DEF DeleteObject, TypeOK, IndInv
    <2>6. InSequence' /\ QuietWhenIdle' /\ SuccessMeansAll'
      BY <1>5 DEF IndInv, DeleteObject, InSequence, QuietWhenIdle, SuccessMeansAll
    <2> QED
      BY <2>3, <2>4, <2>5, <2>6 DEF IndInv
  <1>6. ASSUME NEW k \in Phase, PhaseDone(k) PROVE IndInv'
    <2>0. /\ failed' \in BOOLEAN /\ parallel' \in BOOLEAN
      BY <1>6, <1>0, Zenon DEF PhaseDone, TypeOK
    <2>1. TypeOK'
      BY <1>0, <1>6, <2>0 DEF PhaseDone, TypeOK
    <2>2. PhaseProgress(k)'
      BY <1>0, <1>6 DEF PhaseDone, TypeOK, IndInv, PhaseProgress, Applied, StaleOf
    <2>3. ASSUME NEW j \in Phase \ {k} PROVE PhaseProgress(j)'
      BY <1>0, <1>6, <2>3, OthersKeepProgress DEF PhaseDone, TypeOK, IndInv
    <2>4. InSequence'
      BY <1>0, <1>6, MoveKeepsSequence DEF PhaseDone, IndInv
    <2>5. QuietWhenIdle' /\ SuccessMeansAll'
      BY <1>0, <1>6 DEF PhaseDone, IndInv, QuietWhenIdle, SuccessMeansAll, TypeOK
    <2> QED
      BY <2>1, <2>2, <2>3, <2>4, <2>5 DEF IndInv
  <1>7. ASSUME NEW k \in Phase, PhaseFails(k) PROVE IndInv'
    <2>0. /\ failed' \in BOOLEAN /\ parallel' \in BOOLEAN
      BY <1>7, <1>0, Zenon DEF PhaseFails, TypeOK
    <2>1. TypeOK'
      BY <1>0, <1>7, <2>0 DEF PhaseFails, TypeOK
    <2>2. PhaseProgress(k)'
      BY <1>0, <1>7 DEF PhaseFails, TypeOK, PhaseProgress
    <2>3. ASSUME NEW j \in Phase \ {k} PROVE PhaseProgress(j)'
      BY <1>0, <1>7, <2>3, OthersKeepProgress DEF PhaseFails, TypeOK, IndInv
    <2>4. InSequence'
      BY <1>0, <1>7, MoveKeepsSequence DEF PhaseFails, Active, IndInv
    <2>5. QuietWhenIdle' /\ SuccessMeansAll'
      BY <1>0, <1>7 DEF PhaseFails, Active, IndInv, QuietWhenIdle, SuccessMeansAll, TypeOK
    <2> QED
      BY <2>1, <2>2, <2>3, <2>4, <2>5 DEF IndInv
  <1>8. CASE EndRound
    <2>0. failed' \in BOOLEAN /\ parallel' \in BOOLEAN
      BY <1>8, <1>0, Zenon DEF EndRound, RoundError, TypeOK
    <2>1. TypeOK'
      BY <1>0, <1>8, <2>0 DEF EndRound, TypeOK
    <2>2. \A k \in Phase : PhaseProgress(k)'
      BY <1>8 DEF EndRound, IndInv, PhaseProgress, Applied, StaleOf
    <2>3. InSequence'
      BY <1>8 DEF EndRound, IndInv, InSequence
    <2>4. QuietWhenIdle' /\ SuccessMeansAll'
      BY <1>0, <1>8, WaitedIsQuiet DEF EndRound, RoundError, IndInv, QuietWhenIdle, SuccessMeansAll
    <2> QED
      BY <2>1, <2>2, <2>3, <2>4 DEF IndInv
  <1>9. CASE UNCHANGED vars
    BY <1>9 DEF vars, IndInv, TypeOK, PhaseProgress, Applied, StaleOf, InSequence,
                QuietWhenIdle, SuccessMeansAll
  <1> QED
    BY <1>1, <1>2, <1>3, <1>4, <1>5, <1>6, <1>7, <1>8, <1>9 DEF Next, PhaseStep

(* The inductive invariant holds in every reachable state. *)
THEOREM Invariance == Spec => []IndInv
  BY InitInd, IndStep, PTL DEF Spec

(* The state of the phases and of the cluster keeps its type. *)
THEOREM TypeCorrect == Spec => []TypeOK
  <1>1. IndInv => TypeOK
    BY DEF IndInv
  <1> QED
    BY Invariance, <1>1, PTL

(* If every phase has succeeded, no object is missing, other or left over. *)
LEMMA AllDoneConverged ==
    ASSUME IndInv, \A k \in Phase : phase[k] = "ok"
    PROVE  cluster = want
  <1>1. /\ DOMAIN want \subseteq Object /\ want \in [DOMAIN want -> SUBSET Object]
        /\ DOMAIN cluster \subseteq Object /\ cluster \in [DOMAIN cluster -> SUBSET Object]
    BY ConfigTyped DEF IndInv, TypeOK
  <1>2. ASSUME NEW o \in DOMAIN want
        PROVE  o \in DOMAIN cluster /\ cluster[o] = want[o]
    <2>1. PhaseProgress(o[1]) /\ phase[o[1]] = "ok"
      BY <1>1, KindOfObject DEF IndInv
    <2> QED
      BY <2>1 DEF PhaseProgress, Applied, OfKind
  <1>3. ASSUME NEW o \in DOMAIN cluster PROVE o \in DOMAIN want
    <2>1. PhaseProgress(o[1]) /\ phase[o[1]] = "ok"
      BY <1>1, KindOfObject DEF IndInv
    <2> QED
      BY <2>1 DEF PhaseProgress, StaleOf, OfKind
  <1> QED
    BY <1>1, <1>2, <1>3

(***************************************************************************)
(* A round of applyConfig that reports success leaves exactly the desired  *)
(* objects, sequential or parallel, whatever failed before.                *)
(***************************************************************************)
THEOREM ConvergedSafety == Spec => []SuccessMeansConverged
  <1>1. IndInv => SuccessMeansConverged
    BY AllDoneConverged DEF IndInv, SuccessMeansAll, SuccessMeansConverged
  <1> QED
    BY Invariance, <1>1, PTL

(***************************************************************************)
(* applyConfigSequential applies and collects middlewares before routers:  *)
(* an applied router finds them.                                           *)
(***************************************************************************)
THEOREM MiddlewaresSafety == Spec => []RoutersFindMiddlewares
  <1>1. ASSUME IndInv PROVE RoutersFindMiddlewares
    <2> SUFFICES ASSUME ~parallel, phase["routers"] \in {"apply", "gc", "ok"},
                        NEW o \in DOMAIN want
                 PROVE  OfKind("middlewares", want[o]) \subseteq DOMAIN cluster
      BY DEF RoutersFindMiddlewares, OfKind
    <2>1. phase["middlewares"] = "ok"
      BY <1>1, OrderFacts DEF IndInv, InSequence
    <2>2. want[o] \subseteq DOMAIN want
      BY <1>1, ConfigTyped DEF IndInv, TypeOK
    <2>3. PhaseProgress("middlewares")
      BY <1>1, OrderFacts DEF IndInv
    <2> QED
      BY <2>1, <2>2, <2>3 DEF PhaseProgress, Applied, OfKind
  <1> QED
    BY Invariance, <1>1, PTL

-----------------------------------------------------------------------------
(* A write of one object to its wanted value is a repair. *)
LEMMA WriteIsRepair ==
    ASSUME TypeOK, NEW o \in Object, round = "running", round' = round, failed' = failed,
           want' = want,
           DOMAIN cluster' \ {o} = DOMAIN cluster \ {o},
           \A x \in DOMAIN cluster \ {o} : cluster'[x] = cluster[x],
           o \in DOMAIN cluster' <=> o \in DOMAIN want,
           o \in DOMAIN want => cluster'[o] = want[o]
    PROVE  Round!Repair(o)
  <1>1. Held(cluster') = [Held(cluster) EXCEPT ![o] = Held(want)[o]]
    <2>1. Held(cluster')[o] = Held(want)[o]
      BY DEF Held
    <2>2. ASSUME NEW x \in Object \ {o} PROVE Held(cluster')[x] = Held(cluster)[x]
      <3>1. x \in DOMAIN cluster' <=> x \in DOMAIN cluster
        OBVIOUS
      <3> QED
        BY <3>1 DEF Held
    <2> QED
      BY <2>1, <2>2 DEF Held
  <1> QED
    BY <1>1 DEF Round!Repair, Status

(* The initial state is one of the abstract round. *)
LEMMA InitRefines == Init => Round!Init
  BY DEF Init, Round!Init, Status

(***************************************************************************)
(* Every step of the phases is a step of the abstract round, or invisible  *)
(* to it.                                                                  *)
(***************************************************************************)
LEMMA StepRefines == IndInv /\ [Next]_vars => [Round!Next]_(Round!vars)
  <1> SUFFICES ASSUME IndInv, [Next]_vars PROVE [Round!Next]_(Round!vars)
    OBVIOUS
  <1> DEFINE Stutter == UNCHANGED <<cluster, want, round, failed>>
  <1>0. Stutter => UNCHANGED Round!vars
    BY DEF Round!vars, Status, Held
  <1>1. ASSUME NEW c \in Desired, BeginRound(c) PROVE Round!Begin
    BY <1>1 DEF BeginRound, Round!Begin, Status
  <1>2. ASSUME NEW k \in Phase, StartPhase(k) \/ ListStale(k) \/ PhaseDone(k) \/ PhaseFails(k)
        PROVE  Stutter
    BY <1>2 DEF StartPhase, ListStale, PhaseDone, PhaseFails
  <1>3. ASSUME NEW k \in Phase, NEW o \in Object, ApplyObject(k, o) PROVE Round!Repair(o)
    <2>1. TypeOK /\ PhaseProgress(k) /\ round = "running"
      BY <1>3 DEF IndInv, ApplyObject, QuietWhenIdle, TypeOK
    <2>2. o \in DOMAIN want
      BY <1>3, <2>1 DEF ApplyObject, PhaseProgress
    <2>3. /\ DOMAIN cluster' = DOMAIN cluster \cup {o} /\ cluster'[o] = want[o]
          /\ \A x \in DOMAIN cluster \ {o} : cluster'[x] = cluster[x]
          /\ want' = want /\ round' = round /\ failed' = failed
      BY <1>3 DEF ApplyObject
    <2> QED
      BY <2>1, <2>2, <2>3, WriteIsRepair
  <1>4. ASSUME NEW k \in Phase, NEW o \in Object, DeleteObject(k, o) PROVE Round!Repair(o)
    <2>1. TypeOK /\ PhaseProgress(k) /\ round = "running"
      BY <1>4 DEF IndInv, DeleteObject, QuietWhenIdle, TypeOK
    <2>2. o \notin DOMAIN want
      BY <1>4, <2>1 DEF DeleteObject, PhaseProgress, StaleOf, OfKind
    <2>3. /\ DOMAIN cluster' = DOMAIN cluster \ {o}
          /\ \A x \in DOMAIN cluster \ {o} : cluster'[x] = cluster[x]
          /\ want' = want /\ round' = round /\ failed' = failed
      BY <1>4 DEF DeleteObject
    <2> QED
      BY <2>1, <2>2, <2>3, WriteIsRepair
  <1>5. CASE EndRound
    <2>1. CASE Errors = {}
      <3>1. cluster = want
        BY <1>5, <2>1, WaitedIsQuiet, AllDoneConverged DEF EndRound, IndInv
      <3> QED
        BY <3>1, <2>1, <1>5 DEF EndRound, RoundError, Round!Next, Round!Succeed, Status
    <2>2. CASE Errors # {}
      BY <2>2, <1>5 DEF EndRound, RoundError, Round!Next, Round!Fail, Status
    <2> QED
      BY <2>1, <2>2
  <1>6. CASE UNCHANGED vars
    BY <1>6, <1>0 DEF vars
  <1>7. ASSUME Round!Begin \/ (\E o \in Object : Round!Repair(o)) \/ Stutter
        PROVE  [Round!Next]_(Round!vars)
    BY <1>0, <1>7, Zenon DEF Round!Next
  <1> HIDE DEF Stutter
  <1>8. CASE Next
    <2>1. CASE EndRound
      BY <2>1, <1>5
    <2>2. CASE ~EndRound
      <3>1. \/ \E c \in Desired : BeginRound(c)
            \/ \E k \in Phase : StartPhase(k) \/ ListStale(k) \/ PhaseDone(k) \/ PhaseFails(k)
            \/ \E k \in Phase, o \in Object : ApplyObject(k, o) \/ DeleteObject(k, o)
        BY <2>2, <1>8, Zenon DEF Next, PhaseStep
      <3> QED
        BY <3>1, <1>1, <1>2, <1>3, <1>4, <1>7, Zenon
    <2> QED
      BY <2>1, <2>2
  <1> QED
    BY <1>6, <1>8

(***************************************************************************)
(* The safety part of the refinement: under the mapping, applyConfig moves *)
(* the cluster towards the configuration of its own round only, one object *)
(* at a time, and reports success only at the goal.                        *)
(***************************************************************************)
THEOREM Refinement == Spec => Round!SafeSpec
  BY InitRefines, StepRefines, Invariance, PTL DEF Spec, Round!SafeSpec

=============================================================================
