-------------------------- MODULE ReconcilerProofs --------------------------
(***************************************************************************)
(* Proofs about Reconciler, for every set of names and of workers, every   *)
(* capacity of the grace queue, all settings and every bound on rounds,    *)
(* faults, writes by others and restarts.                                  *)
(***************************************************************************)
EXTENDS Reconciler, TLAPS

(* What a round without a grace period is to delete still carries the mark. *)
StaleMarked ==
    ~Grace /\ quiet /\ pc = "gc" => \A n \in stale : Managed(obj[n])

(***************************************************************************)
(* An object nobody else touched is missing or as the controller created   *)
(* it, and what the loop read of it is still true when it writes.          *)
(***************************************************************************)
OwnUntouched ==
    /\ \A n \in Name \ touched : obj[n] \in {"absent", "created"}
    /\ pc = "write" /\ cur \notin touched => seen = obj[cur]

(* A process without a grace period has no requests. *)
QueueOnlyWithGrace == ~Grace => Pending = {}

(* The variables of the round belong together. *)
RoundCoherent ==
    /\ todo \subseteq want
    /\ pc = "write" => cur \in todo
    /\ pc = "gc" => stale \cap want = {}
    /\ pc = "gc" /\ ~ReadOnly => todo = {}

(* With immediate collection, what has been applied is there. *)
DesiredSoFar ==
    mode = "immediate" /\ quiet =>
        /\ pc \in {"apply", "write"} => \A n \in want \ todo : obj[n] # "absent"
        /\ pc = "gc" \/ (pc = "idle" /\ ~failed) => \A n \in want : obj[n] # "absent"

(* Every stale object is still to be collected, queued or given up. *)
StaleSoFar ==
    quiet /\ ~ReadOnly =>
        \A n \in Name \ want : Managed(obj[n]) =>
            /\ pc = "gc" => n \in stale \cup Pending \cup given
            /\ pc = "idle" /\ ~failed => n \in Pending \cup given

IndInv ==
    /\ TypeOK
    /\ StaleMarked
    /\ OwnUntouched
    /\ QueueOnlyWithGrace
    /\ RoundCoherent
    /\ DesiredSoFar
    /\ StaleSoFar

-----------------------------------------------------------------------------
(* Scheduling adds one request. *)
LEMMA PendingAppend ==
    ASSUME TypeOK, TypeOK', NEW n \in Name, queue' = Append(queue, n), worker' = worker
    PROVE  Pending' = Pending \cup {n}
  <1>1. /\ Len(queue') = Len(queue) + 1 /\ queue'[Len(queue) + 1] = n
        /\ \A i \in 1..Len(queue) : queue'[i] = queue[i]
        /\ Len(queue) \in Nat
    BY DEF TypeOK
  <1>2. DOMAIN queue = 1..Len(queue) /\ DOMAIN queue' = 1..Len(queue')
    BY DEF TypeOK
  <1>3. ToSet(queue') = ToSet(queue) \cup {n}
    BY <1>1, <1>2 DEF ToSet
  <1> QED
    BY <1>3 DEF Pending

(* A request that a worker takes is still pending. *)
LEMMA PendingTake ==
    ASSUME TypeOK, TypeOK', NEW w \in Worker, TakeRequest(w)
    PROVE  Pending' = Pending
  <1>1. /\ Len(queue) \in Nat /\ Len(queue) > 0 /\ Head(queue) = queue[1]
        /\ Len(queue') = Len(queue) - 1
        /\ \A i \in 1..Len(queue') : queue'[i] = queue[i + 1]
        /\ queue[1] \in Name
    BY DEF TypeOK, TakeRequest
  <1>2. DOMAIN queue = 1..Len(queue) /\ DOMAIN queue' = 1..Len(queue')
    BY DEF TypeOK
  <1>3. ToSet(queue) = ToSet(queue') \cup {Head(queue)}
    <2>1. ASSUME NEW i \in 1..Len(queue)
          PROVE  queue[i] = Head(queue) \/ \E j \in 1..Len(queue') : queue'[j] = queue[i]
      <3>1. CASE i = 1
        BY <3>1, <1>1
      <3>2. CASE i # 1
        <4>1. i - 1 \in 1..Len(queue') /\ queue'[i - 1] = queue[i]
          BY <3>2, <1>1
        <4> QED
          BY <4>1
      <3> QED
        BY <3>1, <3>2
    <2>2. ASSUME NEW j \in 1..Len(queue') PROVE \E i \in 1..Len(queue) : queue[i] = queue'[j]
      <3>1. j + 1 \in 1..Len(queue) /\ queue[j + 1] = queue'[j]
        BY <1>1
      <3> QED
        BY <3>1
    <2>3. 1 \in 1..Len(queue)
      BY <1>1
    <2>4. /\ ToSet(queue) = {queue[i] : i \in 1..Len(queue)}
          /\ ToSet(queue') = {queue'[i] : i \in 1..Len(queue')}
      BY <1>2 DEF ToSet
    <2>5. Head(queue) \in ToSet(queue)
      BY <2>3, <2>4, <1>1
    <2>6. ToSet(queue') \subseteq ToSet(queue)
      BY <2>2, <2>4
    <2>7. ToSet(queue) \subseteq ToSet(queue') \cup {Head(queue)}
      BY <2>1, <2>4
    <2> QED
      BY <2>5, <2>6, <2>7
  <1>4. {worker'[x] : x \in Worker} \ {None} = ({worker[x] : x \in Worker} \ {None}) \cup {Head(queue)}
    BY <1>1, ReconcilerAssumption DEF TypeOK, TakeRequest
  <1> QED
    BY <1>3, <1>4 DEF Pending

(* A worker that is done gives up no request but its own. *)
LEMMA PendingRelease ==
    ASSUME TypeOK, NEW w \in Worker, queue' = queue, Release(w)
    PROVE  Pending' \subseteq Pending /\ Pending \ {worker[w]} \subseteq Pending'
  BY DEF TypeOK, Release, Pending

(* A new process over any cluster satisfies the invariant. *)
LEMMA InitInd == Init => IndInv
  <1> SUFFICES ASSUME Init PROVE IndInv
    OBVIOUS
  <1> USE ReconcilerAssumption
  <1>0. failed \in BOOLEAN /\ ctxDone \in BOOLEAN /\ quiet \in BOOLEAN
    BY Zenon DEF Init
  <1>1. TypeOK
    BY <1>0 DEF Init, TypeOK, ObjectState
  <1>2. Pending = {}
    BY DEF Init, Pending, ToSet
  <1>3. StaleMarked /\ OwnUntouched
    BY <1>2 DEF Init, StaleMarked, OwnUntouched, ObjectState
  <1>4. QueueOnlyWithGrace /\ RoundCoherent /\ DesiredSoFar /\ StaleSoFar
    BY <1>2 DEF Init, QueueOnlyWithGrace, RoundCoherent, DesiredSoFar, StaleSoFar
  <1> QED
    BY <1>1, <1>3, <1>4 DEF IndInv

(* Every step of the loop, the workers and the environment preserves the invariant. *)
LEMMA IndStep == IndInv /\ [Next]_vars => IndInv'
  <1> SUFFICES ASSUME IndInv, [Next]_vars PROVE IndInv'
    OBVIOUS
  <1> USE ReconcilerAssumption
  <1>0. TypeOK /\ StaleMarked /\ OwnUntouched /\ QueueOnlyWithGrace /\ RoundCoherent
    BY DEF IndInv
  <1>1. ASSUME NEW dd \in SUBSET Name, BeginRound(dd) PROVE IndInv'
    <2>0. failed' \in BOOLEAN /\ ctxDone' \in BOOLEAN /\ quiet' \in BOOLEAN
      BY <1>1, <1>0, Zenon DEF BeginRound, graceVars, ReadOnly, TypeOK
    <2>1. TypeOK'
      BY <1>1, <1>0, <2>0 DEF BeginRound, graceVars, ReadOnly, TypeOK
    <2>2. Pending' = Pending
      BY <1>1 DEF BeginRound, graceVars, ReadOnly, Pending
    <2> QED
      BY <1>1, <2>1, <2>2 DEF BeginRound, graceVars, ReadOnly, IndInv, StaleMarked,
                              OwnUntouched, QueueOnlyWithGrace, RoundCoherent,
                              DesiredSoFar, StaleSoFar, Grace
  <1>2. ASSUME NEW n \in Name, ReadObject(n) PROVE IndInv'
    <2>0. failed' \in BOOLEAN /\ ctxDone' \in BOOLEAN /\ quiet' \in BOOLEAN
      BY <1>2, <1>0, Zenon DEF ReadObject, graceVars, bounds, histVars, TypeOK
    <2>1. TypeOK'
      BY <1>2, <1>0, <2>0 DEF ReadObject, graceVars, bounds, histVars, TypeOK
    <2>2. Pending' = Pending
      BY <1>2 DEF ReadObject, graceVars, bounds, histVars, Pending
    <2> QED
      BY <1>2, <2>1, <2>2 DEF ReadObject, graceVars, bounds, histVars, IndInv, StaleMarked,
                              OwnUntouched, QueueOnlyWithGrace, RoundCoherent,
                              DesiredSoFar, StaleSoFar, Grace, ReadOnly
  <1>3. ASSUME CreateObject PROVE IndInv'
    <2>a. cur \in Name /\ cur \in todo
      BY <1>3, <1>0 DEF CreateObject, RoundCoherent, TypeOK
    <2>0. failed' \in BOOLEAN /\ ctxDone' \in BOOLEAN /\ quiet' \in BOOLEAN
      BY <1>3, <1>0, Zenon DEF CreateObject, Written, SetObj, graceVars, bounds, TypeOK
    <2>1. TypeOK'
      BY <1>3, <1>0, <2>0, <2>a DEF CreateObject, Written, SetObj, graceVars, bounds,
                                    TypeOK, ObjectState, Created
    <2>2. Pending' = Pending
      BY <1>3 DEF CreateObject, Written, SetObj, graceVars, bounds, Pending
    <2>3. StaleMarked'
      BY <1>3, <1>0, <2>2, <2>a DEF CreateObject, Written, SetObj, graceVars, bounds,
                                    StaleMarked, Grace, TypeOK, Created, Managed
    <2>4. OwnUntouched'
      BY <1>3, <1>0, <2>2, <2>a DEF CreateObject, Written, SetObj, graceVars, bounds,
                                    OwnUntouched, TypeOK, Created
    <2>5. QueueOnlyWithGrace' /\ RoundCoherent'
      BY <1>3, <1>0, <2>2, <2>a DEF CreateObject, Written, SetObj, graceVars, bounds,
                                    QueueOnlyWithGrace, RoundCoherent, Grace, ReadOnly,
                                    TypeOK
    <2>6. DesiredSoFar'
      BY <1>3, <1>0, <2>2, <2>a DEF CreateObject, Written, SetObj, graceVars, bounds,
                                    IndInv, DesiredSoFar, RoundCoherent, ReadOnly, TypeOK,
                                    Created
    <2>7. StaleSoFar'
      BY <1>3, <1>0, <2>2, <2>a DEF CreateObject, Written, SetObj, graceVars, bounds,
                                    IndInv, StaleSoFar, ReadOnly, TypeOK
    <2> QED
      BY <2>1, <2>3, <2>4, <2>5, <2>6, <2>7 DEF IndInv
  <1>4. ASSUME PatchObject PROVE IndInv'
    <2>a. cur \in Name /\ cur \in todo
      BY <1>4, <1>0 DEF PatchObject, RoundCoherent, TypeOK
    <2>0. failed' \in BOOLEAN /\ ctxDone' \in BOOLEAN /\ quiet' \in BOOLEAN
      BY <1>4, <1>0, Zenon DEF PatchObject, Written, SetObj, graceVars, bounds, TypeOK
    <2>1. TypeOK'
      BY <1>4, <1>0, <2>0, <2>a DEF PatchObject, Written, SetObj, graceVars, bounds,
                                    TypeOK, ObjectState, Patched
    <2>2. Pending' = Pending
      BY <1>4 DEF PatchObject, Written, SetObj, graceVars, bounds, Pending
    <2>3. StaleMarked'
      BY <1>4, <1>0, <2>2, <2>a DEF PatchObject, Written, SetObj, graceVars, bounds,
                                    StaleMarked, Grace, TypeOK, Patched, NamesMark, Managed
    <2>4. OwnUntouched'
      BY <1>4, <1>0, <2>2, <2>a DEF PatchObject, Written, SetObj, graceVars, bounds,
                                    OwnUntouched, TypeOK, Patched, NamesMark, Managed
    <2>5. QueueOnlyWithGrace' /\ RoundCoherent'
      BY <1>4, <1>0, <2>2, <2>a DEF PatchObject, Written, SetObj, graceVars, bounds,
                                    QueueOnlyWithGrace, RoundCoherent, Grace, ReadOnly,
                                    TypeOK
    <2>6. DesiredSoFar'
      BY <1>4, <1>0, <2>2, <2>a DEF PatchObject, Written, SetObj, graceVars, bounds,
                                    IndInv, DesiredSoFar, RoundCoherent, ReadOnly, TypeOK,
                                    Patched
    <2>7. StaleSoFar'
      BY <1>4, <1>0, <2>2, <2>a DEF PatchObject, Written, SetObj, graceVars, bounds,
                                    IndInv, StaleSoFar, ReadOnly, TypeOK
    <2> QED
      BY <2>1, <2>3, <2>4, <2>5, <2>6, <2>7 DEF IndInv
  <1>5. ASSUME AlreadyExists PROVE IndInv'
    <2>0. failed' \in BOOLEAN /\ ctxDone' \in BOOLEAN /\ quiet' \in BOOLEAN
      BY <1>5, <1>0, Zenon DEF AlreadyExists, FailRound, graceVars, histVars, TypeOK
    <2>1. TypeOK'
      BY <1>5, <1>0, <2>0 DEF AlreadyExists, FailRound, graceVars, histVars, TypeOK
    <2>2. Pending' = Pending
      BY <1>5 DEF AlreadyExists, FailRound, graceVars, histVars, Pending
    <2> QED
      BY <1>5, <2>1, <2>2 DEF AlreadyExists, FailRound, graceVars, histVars, IndInv,
                              StaleMarked, OwnUntouched, QueueOnlyWithGrace, RoundCoherent,
                              DesiredSoFar, StaleSoFar, Grace, ReadOnly
  <1>6. ASSUME CallFails PROVE IndInv'
    <2>0. failed' \in BOOLEAN /\ ctxDone' \in BOOLEAN /\ quiet' \in BOOLEAN
      BY <1>6, <1>0, Zenon DEF CallFails, FailRound, graceVars, histVars, TypeOK
    <2>1. TypeOK'
      BY <1>6, <1>0, <2>0 DEF CallFails, FailRound, graceVars, histVars, TypeOK
    <2>2. Pending' = Pending
      BY <1>6 DEF CallFails, FailRound, graceVars, histVars, Pending
    <2> QED
      BY <1>6, <2>1, <2>2 DEF CallFails, FailRound, graceVars, histVars, IndInv,
                              StaleMarked, OwnUntouched, QueueOnlyWithGrace, RoundCoherent,
                              DesiredSoFar, StaleSoFar, Grace, ReadOnly
  <1>7. ASSUME ListStale PROVE IndInv'
    <2>0. failed' \in BOOLEAN /\ ctxDone' \in BOOLEAN /\ quiet' \in BOOLEAN
      BY <1>7, <1>0, Zenon DEF ListStale, graceVars, bounds, histVars, TypeOK
    <2>1. TypeOK'
      BY <1>7, <1>0, <2>0 DEF ListStale, graceVars, bounds, histVars, TypeOK, Collectable
    <2>2. Pending' = Pending
      BY <1>7 DEF ListStale, graceVars, bounds, histVars, Pending
    <2>3. StaleMarked'
      BY <1>7, <1>0, <2>2 DEF ListStale, graceVars, bounds, histVars, StaleMarked, Grace, TypeOK,
                              Collectable, staleManagedName
    <2>4. OwnUntouched'
      BY <1>7, <1>0, <2>2 DEF ListStale, graceVars, bounds, histVars, OwnUntouched, TypeOK
    <2>5. QueueOnlyWithGrace' /\ RoundCoherent'
      BY <1>7, <1>0, <2>2 DEF ListStale, graceVars, bounds, histVars, QueueOnlyWithGrace,
                              RoundCoherent, Grace, ReadOnly, TypeOK, Collectable,
                              staleManagedName
    <2>6. DesiredSoFar'
      BY <1>7, <1>0, <2>2 DEF ListStale, graceVars, bounds, histVars, IndInv, DesiredSoFar,
                              RoundCoherent, ReadOnly, TypeOK
    <2>7. StaleSoFar'
      BY <1>7, <1>0, <2>2 DEF ListStale, graceVars, bounds, histVars, IndInv, StaleSoFar,
                              ReadOnly, TypeOK, Collectable, staleManagedName
    <2> QED
      BY <2>1, <2>3, <2>4, <2>5, <2>6, <2>7 DEF IndInv
  <1>8. ASSUME NEW n \in Name, DeleteImmediate(n) PROVE IndInv'
    <2>0. failed' \in BOOLEAN /\ ctxDone' \in BOOLEAN /\ quiet' \in BOOLEAN
      BY <1>8, <1>0, Zenon DEF DeleteImmediate, SetObj, Managed, graceVars, bounds, TypeOK
    <2>1. TypeOK'
      BY <1>8, <1>0, <2>0 DEF DeleteImmediate, SetObj, Managed, graceVars, bounds, TypeOK,
                              ObjectState
    <2>2. Pending' = Pending
      BY <1>8 DEF DeleteImmediate, SetObj, Managed, graceVars, bounds, Pending
    <2>3. StaleMarked'
      BY <1>8, <1>0, <2>2 DEF DeleteImmediate, SetObj, Managed, graceVars, bounds,
                              StaleMarked, Grace, TypeOK
    <2>4. OwnUntouched'
      BY <1>8, <1>0, <2>2 DEF DeleteImmediate, SetObj, Managed, graceVars, bounds,
                              OwnUntouched, TypeOK
    <2>5. QueueOnlyWithGrace' /\ RoundCoherent'
      BY <1>8, <1>0, <2>2 DEF DeleteImmediate, SetObj, Managed, graceVars, bounds,
                              QueueOnlyWithGrace, RoundCoherent, Grace, ReadOnly, TypeOK
    <2>6. DesiredSoFar'
      BY <1>8, <1>0, <2>2 DEF DeleteImmediate, SetObj, Managed, graceVars, bounds, IndInv,
                              DesiredSoFar, RoundCoherent, ReadOnly, TypeOK
    <2>7. StaleSoFar'
      BY <1>8, <1>0, <2>2 DEF DeleteImmediate, SetObj, Managed, graceVars, bounds, IndInv,
                              StaleSoFar, ReadOnly, TypeOK
    <2> QED
      BY <2>1, <2>3, <2>4, <2>5, <2>6, <2>7 DEF IndInv
  <1>9. ASSUME NEW n \in Name, ScheduleGraceDeletion(n) PROVE IndInv'
    <2>0. failed' \in BOOLEAN /\ ctxDone' \in BOOLEAN /\ quiet' \in BOOLEAN
      BY <1>9, <1>0, Zenon DEF ScheduleGraceDeletion, bounds, histVars, TypeOK
    <2>1. TypeOK'
      BY <1>9, <1>0, <2>0 DEF ScheduleGraceDeletion, bounds, histVars, TypeOK, HasRoom
    <2>2. Pending' = Pending \cup {n}
      BY <1>9, <1>0, <2>1, PendingAppend DEF ScheduleGraceDeletion
    <2>3. StaleMarked'
      BY <1>9, <1>0, <2>2 DEF ScheduleGraceDeletion, bounds, histVars, StaleMarked, Grace, TypeOK
    <2>4. OwnUntouched'
      BY <1>9, <1>0, <2>2 DEF ScheduleGraceDeletion, bounds, histVars, OwnUntouched, TypeOK
    <2>5. QueueOnlyWithGrace' /\ RoundCoherent'
      BY <1>9, <1>0, <2>2 DEF ScheduleGraceDeletion, bounds, histVars, QueueOnlyWithGrace,
                              RoundCoherent, Grace, ReadOnly, TypeOK
    <2>6. DesiredSoFar'
      BY <1>9, <1>0, <2>2 DEF ScheduleGraceDeletion, bounds, histVars, IndInv,
                              DesiredSoFar, RoundCoherent, ReadOnly, TypeOK
    <2>7. StaleSoFar'
      BY <1>9, <1>0, <2>2 DEF ScheduleGraceDeletion, bounds, histVars, IndInv, StaleSoFar,
                              ReadOnly, TypeOK
    <2> QED
      BY <2>1, <2>3, <2>4, <2>5, <2>6, <2>7 DEF IndInv
  <1>10. ASSUME NEW n \in Name, DropDeletion(n) PROVE IndInv'
    <2>0. failed' \in BOOLEAN /\ ctxDone' \in BOOLEAN /\ quiet' \in BOOLEAN
      BY <1>10, <1>0, Zenon DEF DropDeletion, graceVars, bounds, TypeOK
    <2>1. TypeOK'
      BY <1>10, <1>0, <2>0 DEF DropDeletion, graceVars, bounds, TypeOK
    <2>2. Pending' = Pending
      BY <1>10 DEF DropDeletion, graceVars, bounds, Pending
    <2>3. StaleMarked'
      BY <1>10, <1>0, <2>2 DEF DropDeletion, graceVars, bounds, StaleMarked, Grace, TypeOK
    <2>4. OwnUntouched'
      BY <1>10, <1>0, <2>2 DEF DropDeletion, graceVars, bounds, OwnUntouched, TypeOK
    <2>5. QueueOnlyWithGrace' /\ RoundCoherent'
      BY <1>10, <1>0, <2>2 DEF DropDeletion, graceVars, bounds, QueueOnlyWithGrace,
                               RoundCoherent, Grace, ReadOnly, TypeOK
    <2>6. DesiredSoFar'
      BY <1>10, <1>0, <2>2 DEF DropDeletion, graceVars, bounds, IndInv, DesiredSoFar,
                               RoundCoherent, ReadOnly, TypeOK
    <2>7. StaleSoFar'
      BY <1>10, <1>0, <2>2 DEF DropDeletion, graceVars, bounds, IndInv, StaleSoFar,
                               ReadOnly, TypeOK
    <2> QED
      BY <2>1, <2>3, <2>4, <2>5, <2>6, <2>7 DEF IndInv
  <1>11. ASSUME EndRound PROVE IndInv'
    <2>0. failed' \in BOOLEAN /\ ctxDone' \in BOOLEAN /\ quiet' \in BOOLEAN
      BY <1>11, <1>0, Zenon DEF EndRound, CollectedAll, graceVars, bounds, histVars, TypeOK
    <2>1. TypeOK'
      BY <1>11, <1>0, <2>0 DEF EndRound, CollectedAll, graceVars, bounds, histVars, TypeOK
    <2>2. Pending' = Pending
      BY <1>11 DEF EndRound, CollectedAll, graceVars, bounds, histVars, Pending
    <2> QED
      BY <1>11, <2>1, <2>2 DEF EndRound, CollectedAll, graceVars, bounds, histVars, IndInv,
                               StaleMarked, OwnUntouched, QueueOnlyWithGrace, RoundCoherent,
                               DesiredSoFar, StaleSoFar, Grace, ReadOnly
  <1>12. ASSUME NEW w \in Worker, TakeRequest(w) PROVE IndInv'
    <2>0. failed' \in BOOLEAN /\ ctxDone' \in BOOLEAN /\ quiet' \in BOOLEAN
      BY <1>12, <1>0, Zenon DEF TakeRequest, loopVars, bounds, histVars, TypeOK
    <2>1. TypeOK'
      BY <1>12, <1>0, <2>0 DEF TakeRequest, loopVars, bounds, histVars, TypeOK
    <2>2. Pending' = Pending
      BY <1>12, <1>0, <2>1, PendingTake
    <2> QED
      BY <1>12, <2>1, <2>2 DEF TakeRequest, loopVars, bounds, histVars, IndInv, StaleMarked,
                               OwnUntouched, QueueOnlyWithGrace, RoundCoherent,
                               DesiredSoFar, StaleSoFar, Grace, ReadOnly
  <1>13. ASSUME NEW w \in Worker, HandleGraceDelete(w) PROVE IndInv'
    <2>a. worker[w] \in Name /\ worker[w] \in Pending
      BY <1>13, <1>0 DEF HandleGraceDelete, TypeOK, Pending
    <2>0. failed' \in BOOLEAN /\ ctxDone' \in BOOLEAN /\ quiet' \in BOOLEAN
      BY <1>13, <1>0, Zenon DEF HandleGraceDelete, Release, SetObj, Managed, loopVars,
                                bounds, TypeOK
    <2>1. TypeOK'
      BY <1>13, <1>0, <2>0, <2>a DEF HandleGraceDelete, Release, SetObj, Managed, loopVars,
                                     bounds, TypeOK, ObjectState
    <2>2. Pending' \subseteq Pending /\ Pending \ {worker[w]} \subseteq Pending'
      BY <1>13, <1>0, PendingRelease DEF HandleGraceDelete, loopVars, bounds
    <2>3. StaleMarked'
      BY <1>13, <1>0, <2>2, <2>a DEF HandleGraceDelete, Release, SetObj, Managed, loopVars,
                                     bounds, StaleMarked, QueueOnlyWithGrace, Grace,
                                     TypeOK
    <2>4. OwnUntouched'
      BY <1>13, <1>0, <2>2, <2>a DEF HandleGraceDelete, Release, SetObj, Managed, loopVars,
                                     bounds, OwnUntouched, TypeOK
    <2>5. QueueOnlyWithGrace' /\ RoundCoherent'
      BY <1>13, <1>0, <2>2, <2>a DEF HandleGraceDelete, Release, SetObj, Managed, loopVars,
                                     bounds, QueueOnlyWithGrace, RoundCoherent, Grace,
                                     ReadOnly, TypeOK
    <2>6. DesiredSoFar'
      BY <1>13, <1>0, <2>2, <2>a DEF HandleGraceDelete, Release, SetObj, Managed, loopVars,
                                     bounds, IndInv, DesiredSoFar, RoundCoherent, ReadOnly,
                                     TypeOK, QueueOnlyWithGrace, Grace
    <2>7. StaleSoFar'
      BY <1>13, <1>0, <2>2, <2>a DEF HandleGraceDelete, Release, SetObj, Managed, loopVars,
                                     bounds, IndInv, StaleSoFar, ReadOnly, TypeOK
    <2> QED
      BY <2>1, <2>3, <2>4, <2>5, <2>6, <2>7 DEF IndInv
  <1>14. ASSUME NEW w \in Worker, GraceDeleteFails(w) PROVE IndInv'
    <2>a. worker[w] \in Name /\ worker[w] \in Pending
      BY <1>14, <1>0 DEF GraceDeleteFails, TypeOK, Pending
    <2>0. failed' \in BOOLEAN /\ ctxDone' \in BOOLEAN /\ quiet' \in BOOLEAN
      BY <1>14, <1>0, Zenon DEF GraceDeleteFails, Release, loopVars, TypeOK
    <2>1. TypeOK'
      BY <1>14, <1>0, <2>0, <2>a DEF GraceDeleteFails, Release, loopVars, TypeOK
    <2>2. Pending' \subseteq Pending /\ Pending \ {worker[w]} \subseteq Pending'
      BY <1>14, <1>0, PendingRelease DEF GraceDeleteFails, loopVars
    <2> QED
      BY <1>14, <2>1, <2>2, <2>a DEF GraceDeleteFails, Release, loopVars, IndInv,
                                     StaleMarked, OwnUntouched, QueueOnlyWithGrace,
                                     RoundCoherent, DesiredSoFar, StaleSoFar, Grace,
                                     ReadOnly
  <1>15. ASSUME NEW w \in Worker, AbandonRequest(w) PROVE IndInv'
    <2>a. worker[w] \in Name /\ worker[w] \in Pending
      BY <1>15, <1>0 DEF AbandonRequest, TypeOK, Pending
    <2>0. failed' \in BOOLEAN /\ ctxDone' \in BOOLEAN /\ quiet' \in BOOLEAN
      BY <1>15, <1>0, Zenon DEF AbandonRequest, Release, loopVars, bounds, TypeOK
    <2>1. TypeOK'
      BY <1>15, <1>0, <2>0, <2>a DEF AbandonRequest, Release, loopVars, bounds, TypeOK
    <2>2. Pending' \subseteq Pending /\ Pending \ {worker[w]} \subseteq Pending'
      BY <1>15, <1>0, PendingRelease DEF AbandonRequest, loopVars, bounds
    <2> QED
      BY <1>15, <2>1, <2>2, <2>a DEF AbandonRequest, Release, loopVars, bounds, IndInv,
                                     StaleMarked, OwnUntouched, QueueOnlyWithGrace,
                                     RoundCoherent, DesiredSoFar, StaleSoFar, Grace,
                                     ReadOnly
  <1>16. ASSUME NEW n \in Name, NEW o \in {"foreign", "absent"}, OtherWrites(n, o) PROVE IndInv'
    <2>0. failed' \in BOOLEAN /\ ctxDone' \in BOOLEAN /\ quiet' \in BOOLEAN
      BY <1>16, <1>0, Zenon DEF OtherWrites, SetObj, Managed, loopVars, graceVars, TypeOK
    <2>1. TypeOK'
      BY <1>16, <1>0, <2>0 DEF OtherWrites, SetObj, Managed, loopVars, graceVars, TypeOK,
                               ObjectState
    <2>2. Pending' = Pending
      BY <1>16 DEF OtherWrites, SetObj, Managed, loopVars, graceVars, Pending
    <2>3. StaleMarked'
      BY <1>16, <1>0, <2>2 DEF OtherWrites, SetObj, Managed, loopVars, graceVars,
                               StaleMarked, Grace, TypeOK
    <2>4. OwnUntouched'
      BY <1>16, <1>0, <2>2 DEF OtherWrites, SetObj, Managed, loopVars, graceVars, OwnUntouched,
                               TypeOK
    <2>5. QueueOnlyWithGrace' /\ RoundCoherent'
      BY <1>16, <1>0, <2>2 DEF OtherWrites, SetObj, Managed, loopVars, graceVars,
                               QueueOnlyWithGrace, RoundCoherent, Grace, ReadOnly, TypeOK
    <2>6. DesiredSoFar'
      BY <1>16, <1>0, <2>2 DEF OtherWrites, SetObj, Managed, loopVars, graceVars, IndInv,
                               DesiredSoFar, RoundCoherent, ReadOnly, TypeOK
    <2>7. StaleSoFar'
      BY <1>16, <1>0, <2>2 DEF OtherWrites, SetObj, Managed, loopVars, graceVars, IndInv,
                               StaleSoFar, ReadOnly, TypeOK
    <2> QED
      BY <2>1, <2>3, <2>4, <2>5, <2>6, <2>7 DEF IndInv
  <1>17. ASSUME Cancel PROVE IndInv'
    <2>0. failed' \in BOOLEAN /\ ctxDone' \in BOOLEAN /\ quiet' \in BOOLEAN
      BY <1>17, <1>0, Zenon DEF Cancel, loopVars, graceVars, bounds, histVars, TypeOK
    <2>1. TypeOK'
      BY <1>17, <1>0, <2>0 DEF Cancel, loopVars, graceVars, bounds, histVars, TypeOK
    <2>2. Pending' = Pending
      BY <1>17 DEF Cancel, loopVars, graceVars, bounds, histVars, Pending
    <2> QED
      BY <1>17, <2>1, <2>2 DEF Cancel, loopVars, graceVars, bounds, histVars, IndInv,
                               StaleMarked, OwnUntouched, QueueOnlyWithGrace, RoundCoherent,
                               DesiredSoFar, StaleSoFar, Grace, ReadOnly
  <1>18. ASSUME Restart PROVE IndInv'
    <2>0. failed' \in BOOLEAN /\ ctxDone' \in BOOLEAN /\ quiet' \in BOOLEAN
      BY <1>18, <1>0, Zenon DEF Restart, histVars, TypeOK
    <2>1. TypeOK'
      BY <1>18, <1>0, <2>0 DEF Restart, histVars, TypeOK, ObjectState
    <2>2. Pending' = {}
      BY <1>18 DEF Restart, Pending, ToSet
    <2> QED
      BY <1>18, <2>1, <2>2 DEF Restart, histVars, IndInv, StaleMarked, OwnUntouched,
                               QueueOnlyWithGrace, RoundCoherent, DesiredSoFar, StaleSoFar,
                               Grace, ReadOnly
  <1>19. CASE UNCHANGED vars
    <2>1. Pending' = Pending
      BY <1>19 DEF vars, Pending
    <2> QED
      BY <1>19, <2>1 DEF vars, IndInv, TypeOK, StaleMarked, OwnUntouched, QueueOnlyWithGrace,
                         RoundCoherent, DesiredSoFar, StaleSoFar, Grace, ReadOnly
  <1>20. ASSUME NEW n \in Name, OtherCreates(n) \/ OtherDeletes(n) \/ OtherUnmarks(n) PROVE IndInv'
    BY <1>16, <1>20 DEF OtherCreates, OtherDeletes, OtherUnmarks
  <1>21. CASE RoundStep
    BY <1>21, <1>2, <1>3, <1>4, <1>5, <1>7, <1>8, <1>9, <1>10, <1>11 DEF RoundStep
  <1>22. ASSUME NEW w \in Worker, WorkerStep(w) PROVE IndInv'
    BY <1>22, <1>12, <1>13, <1>14, <1>15 DEF WorkerStep
  <1> QED
    BY <1>1, <1>6, <1>17, <1>18, <1>19, <1>20, <1>21, <1>22 DEF Next

(* The inductive invariant holds in every reachable state. *)
THEOREM Invariance == Spec => []IndInv
  BY InitInd, IndStep, PTL DEF Spec

(* The loop, the queue, the workers and the cluster keep their types. *)
THEOREM TypeCorrect == Spec => []TypeOK
  <1>1. IndInv => TypeOK
    BY DEF IndInv
  <1> QED
    BY Invariance, <1>1, PTL

(***************************************************************************)
(* With immediate collection a successful round leaves every desired       *)
(* object in place, also after a process with a grace period.              *)
(***************************************************************************)
THEOREM DesiredSafety == Spec => []DesiredExistAtOnce
  <1>1. IndInv => DesiredExistAtOnce
    BY DEF IndInv, DesiredSoFar, DesiredExistAtOnce
  <1> QED
    BY Invariance, <1>1, PTL

(***************************************************************************)
(* gcStaleObjects overlooks nothing: after a successful round a stale      *)
(* object is gone, or its deletion is with the grace queue, or was given   *)
(* up.                                                                     *)
(***************************************************************************)
THEOREM StaleSafety == Spec => []StaleAccountedFor
  <1>1. IndInv => StaleAccountedFor
    BY DEF IndInv, StaleSoFar, StaleAccountedFor
  <1> QED
    BY Invariance, <1>1, PTL

(* An object the controller created and nobody else touched keeps its mark. *)
THEOREM MarkSafety == Spec => []OwnObjectsStayManaged
  <1>1. IndInv => OwnObjectsStayManaged
    BY DEF IndInv, OwnUntouched, OwnObjectsStayManaged
  <1> QED
    BY Invariance, <1>1, PTL

(***************************************************************************)
(* gcStaleObjects without a grace period deletes nothing desired and,      *)
(* unless somebody else wrote during the round, nothing unmarked: for any  *)
(* number of objects, through failures, cancellation and restarts.         *)
(***************************************************************************)
THEOREM DeletionSafety == Spec => OnlyStaleCollected
  <1>1. ASSUME IndInv, NEW n \in Name, Deletes(n), ~Grace
        PROVE  n \notin want /\ (quiet => Managed(obj[n]))
    <2>1. CASE DeleteImmediate(n)
      BY <2>1, <1>1 DEF DeleteImmediate, IndInv, StaleMarked, RoundCoherent
    <2>2. ASSUME NEW w \in Worker, worker[w] = n, HandleGraceDelete(w)
          PROVE  FALSE
      <3>1. n \in Pending
        BY <2>2 DEF HandleGraceDelete, Pending
      <3> QED
        BY <3>1, <1>1 DEF IndInv, QueueOnlyWithGrace
    <2> QED
      BY <1>1, <2>1, <2>2 DEF Deletes
  <1>2. IndInv => [\A n \in Name :
                      Deletes(n) /\ ~Grace => n \notin want /\ (quiet => Managed(obj[n]))]_vars
    BY <1>1
  <1> QED
    BY Invariance, <1>2, PTL DEF OnlyStaleCollected

=============================================================================
