-------------------------- MODULE ObjectApplyProofs --------------------------
(***************************************************************************)
(* Proofs about ObjectApply, for all specs, any number of attempts and     *)
(* every bound on changes, faults and writes by others.                    *)
(***************************************************************************)
EXTENDS ObjectApply, TLAPS

(* A patch is never sent without an attempt left. *)
AttemptsLeft == pc = "patch" => left > 0

IndInv == TypeOK /\ AttemptsLeft

-----------------------------------------------------------------------------
(* What server-side apply makes of a field is a field. *)
LEMMA FieldTyped ==
    ASSUME NEW V, NEW f \in Field(V), NEW v \in V
    PROVE  /\ Set(f, v) \in Field(V) /\ Set(f, v).val = v
           /\ GivenUp(f) \in Field(V)
           /\ Unset \in Field(V)
           /\ \A m \in Manager : [val |-> v, by |-> {m}] \in Field(V)
  BY DEF Field, Set, GivenUp, Unset, Manager

(* The start: nothing applied, nothing in the cluster. *)
LEMMA InitInd == Init => IndInv
  <1> SUFFICES ASSUME Init PROVE IndInv
    OBVIOUS
  <1>0. ssaForce \in BOOLEAN /\ exists \in BOOLEAN /\ useForce \in BOOLEAN /\ ctxDone \in BOOLEAN
    BY Zenon DEF Init
  <1> QED
    BY <1>0, ObjectApplyAssumption DEF Init, IndInv, TypeOK, AttemptsLeft, Field, Unset,
                                       Manager

(* A patch that went through keeps the object well formed. *)
LEMMA PatchedTyped ==
    ASSUME TypeOK, Patched
    PROVE  exists' /\ spec' \in Field(SpecValue) /\ mark' \in Field({"ours", "theirs"})
  BY FieldTyped DEF TypeOK, Patched

(* So does a create. *)
LEMMA CreatedTyped ==
    ASSUME TypeOK, Created
    PROVE  exists' /\ spec' \in Field(SpecValue) /\ mark' \in Field({"ours", "theirs"})
  BY FieldTyped DEF TypeOK, Created, Manager

(* Every call, every write by others and the cancellation preserve the invariant. *)
LEMMA IndStep == IndInv /\ [Next]_vars => IndInv'
  <1> SUFFICES ASSUME IndInv, [Next]_vars PROVE IndInv'
    OBVIOUS
  <1> USE ObjectApplyAssumption
  <1>0. TypeOK /\ AttemptsLeft
    BY DEF IndInv
  <1>1. ASSUME NEW s \in SpecValue, Begin(s) PROVE IndInv'
    <2>0. /\ ssaForce' \in BOOLEAN /\ exists' \in BOOLEAN
          /\ useForce' \in BOOLEAN /\ ctxDone' \in BOOLEAN
      BY <1>1, <1>0, Zenon DEF Begin, object, TypeOK
    <2> QED
      BY <1>1, <1>0, <2>0 DEF Begin, object, IndInv, TypeOK, AttemptsLeft
  <1>2. CASE Get
    <2>0. /\ ssaForce' \in BOOLEAN /\ exists' \in BOOLEAN
          /\ useForce' \in BOOLEAN /\ ctxDone' \in BOOLEAN
      BY <1>2, <1>0, Zenon DEF Get, object, bounds, ForceNeeded, Field, TypeOK
    <2> QED
      BY <1>2, <1>0, <2>0 DEF Get, object, bounds, ForceNeeded, Field, IndInv, TypeOK,
                              AttemptsLeft
  <1>3. CASE Create
    <2>0. /\ ssaForce' \in BOOLEAN /\ exists' \in BOOLEAN
          /\ useForce' \in BOOLEAN /\ ctxDone' \in BOOLEAN
      BY <1>3, <1>0, Zenon DEF Create, Returns, call, object, Created, TypeOK
    <2>1. /\ spec' \in Field(SpecValue) /\ mark' \in Field({"ours", "theirs"})
          /\ ~exists' => spec' = Unset /\ mark' = Unset
      <3>1. CASE UNCHANGED object
        BY <3>1, <1>0 DEF object, TypeOK
      <3>2. CASE Created
        BY <3>2, <1>0, CreatedTyped
      <3> QED
        BY <3>1, <3>2, <1>3 DEF Create
    <2> QED
      BY <1>3, <1>0, <2>0, <2>1 DEF Create, Returns, call, IndInv, TypeOK, AttemptsLeft
  <1>4. CASE Patch
    <2>0. /\ ssaForce' \in BOOLEAN /\ exists' \in BOOLEAN
          /\ useForce' \in BOOLEAN /\ ctxDone' \in BOOLEAN
      BY <1>4, <1>0, Zenon DEF Patch, Returns, call, object, Patched, TypeOK
    <2>1. /\ spec' \in Field(SpecValue) /\ mark' \in Field({"ours", "theirs"})
          /\ ~exists' => spec' = Unset /\ mark' = Unset
      <3>1. CASE UNCHANGED object
        BY <3>1, <1>0 DEF object, TypeOK
      <3>2. CASE Patched
        BY <3>2, <1>0, PatchedTyped
      <3> QED
        BY <3>1, <3>2, <1>4 DEF Patch
    <2> QED
      BY <1>4, <1>0, <2>0, <2>1 DEF Patch, Returns, call, IndInv, TypeOK, AttemptsLeft
  <1>5. CASE PatchRetriable
    <2>0. /\ ssaForce' \in BOOLEAN /\ exists' \in BOOLEAN
          /\ useForce' \in BOOLEAN /\ ctxDone' \in BOOLEAN
      BY <1>5, <1>0, Zenon DEF PatchRetriable, Fault, object, Patched, TypeOK
    <2>1. /\ spec' \in Field(SpecValue) /\ mark' \in Field({"ours", "theirs"})
          /\ ~exists' => spec' = Unset /\ mark' = Unset
      <3>1. CASE UNCHANGED object
        BY <3>1, <1>0 DEF object, TypeOK
      <3>2. CASE Patched
        BY <3>2, <1>0, PatchedTyped
      <3> QED
        BY <3>1, <3>2, <1>5 DEF PatchRetriable
    <2> QED
      BY <1>5, <1>0, <2>0, <2>1 DEF PatchRetriable, Fault, IndInv, TypeOK, AttemptsLeft
  <1>6. CASE Pause
    <2>0. /\ ssaForce' \in BOOLEAN /\ exists' \in BOOLEAN
          /\ useForce' \in BOOLEAN /\ ctxDone' \in BOOLEAN
      BY <1>6, <1>0, Zenon DEF Pause, Returns, Exhausted, call, object, TypeOK
    <2> QED
      BY <1>6, <1>0, <2>0 DEF Pause, Returns, Exhausted, call, object, IndInv, TypeOK,
                              AttemptsLeft
  <1>7. CASE PauseCancelled
    <2>0. /\ ssaForce' \in BOOLEAN /\ exists' \in BOOLEAN
          /\ useForce' \in BOOLEAN /\ ctxDone' \in BOOLEAN
      BY <1>7, <1>0, Zenon DEF PauseCancelled, Returns, call, object, TypeOK
    <2> QED
      BY <1>7, <1>0, <2>0 DEF PauseCancelled, Returns, call, object, IndInv, TypeOK,
                              AttemptsLeft
  <1>8. CASE CallFails
    <2>0. /\ ssaForce' \in BOOLEAN /\ exists' \in BOOLEAN
          /\ useForce' \in BOOLEAN /\ ctxDone' \in BOOLEAN
      BY <1>8, <1>0, Zenon DEF CallFails, Returns, Fault, call, object, Created, TypeOK
    <2>1. /\ spec' \in Field(SpecValue) /\ mark' \in Field({"ours", "theirs"})
          /\ ~exists' => spec' = Unset /\ mark' = Unset
      <3>1. CASE UNCHANGED object
        BY <3>1, <1>0 DEF object, TypeOK
      <3>2. CASE Created
        BY <3>2, <1>0, CreatedTyped
      <3> QED
        BY <3>1, <3>2, <1>8 DEF CallFails
    <2> QED
      BY <1>8, <1>0, <2>0, <2>1 DEF CallFails, Returns, Fault, call, IndInv, TypeOK,
                                    AttemptsLeft
  <1>9. ASSUME NEW s \in SpecValue, OtherWrites(s) PROVE IndInv'
    <2>0. /\ ssaForce' \in BOOLEAN /\ exists' \in BOOLEAN
          /\ useForce' \in BOOLEAN /\ ctxDone' \in BOOLEAN
      BY <1>9, <1>0, Zenon DEF OtherWrites, External, call, TypeOK
    <2>1. spec' \in Field(SpecValue)
      BY <1>9 DEF OtherWrites, Field, Manager
    <2> QED
      BY <1>9, <1>0, <2>0, <2>1 DEF OtherWrites, External, call, IndInv, TypeOK, AttemptsLeft
  <1>10. ASSUME NEW m \in {"ours", "theirs", None}, OtherMarks(m) PROVE IndInv'
    <2>0. /\ ssaForce' \in BOOLEAN /\ exists' \in BOOLEAN
          /\ useForce' \in BOOLEAN /\ ctxDone' \in BOOLEAN
      BY <1>10, <1>0, Zenon DEF OtherMarks, External, call, Field, Unset, Manager, TypeOK
    <2>1. mark' \in Field({"ours", "theirs"})
      BY <1>10 DEF OtherMarks, Field, Unset, Manager
    <2> QED
      BY <1>10, <1>0, <2>0, <2>1 DEF OtherMarks, External, call, IndInv, TypeOK, AttemptsLeft
  <1>11. CASE OtherDeletes
    <2>0. /\ ssaForce' \in BOOLEAN /\ exists' \in BOOLEAN
          /\ useForce' \in BOOLEAN /\ ctxDone' \in BOOLEAN
      BY <1>11, <1>0, Zenon DEF OtherDeletes, External, call, Field, Unset, Manager, TypeOK
    <2> QED
      BY <1>11, <1>0, <2>0 DEF OtherDeletes, External, call, Field, Unset, Manager, IndInv,
                               TypeOK, AttemptsLeft
  <1>12. CASE Cancel
    <2>0. /\ ssaForce' \in BOOLEAN /\ exists' \in BOOLEAN
          /\ useForce' \in BOOLEAN /\ ctxDone' \in BOOLEAN
      BY <1>12, <1>0, Zenon DEF Cancel, object, call, bounds, TypeOK
    <2> QED
      BY <1>12, <1>0, <2>0 DEF Cancel, object, call, bounds, IndInv, TypeOK, AttemptsLeft
  <1>13. CASE UNCHANGED vars
    BY <1>13 DEF vars, IndInv, TypeOK, AttemptsLeft
  <1> QED
    BY <1>1, <1>2, <1>3, <1>4, <1>5, <1>6, <1>7, <1>8, <1>9, <1>10, <1>11, <1>12, <1>13
       DEF Next, Calls

(* The inductive invariant holds in every reachable state. *)
THEOREM Invariance == Spec => []IndInv
  BY InitInd, IndStep, PTL DEF Spec

(***************************************************************************)
(* Types, and with them that the attempts of ApplySSAWithRetry never go    *)
(* below zero and that a deleted object keeps no fields.                   *)
(***************************************************************************)
THEOREM TypeCorrect == Spec => []TypeOK
  <1>1. IndInv => TypeOK
    BY DEF IndInv
  <1> QED
    BY Invariance, <1>1, PTL

(***************************************************************************)
(* Nil is returned only by the step that wrote the wanted spec, and the    *)
(* mark where it was missing: never after the last failed attempt, a       *)
(* conflict or a cancellation.                                             *)
(***************************************************************************)
THEOREM WrittenSafety == Spec => SuccessMeansWritten
  <1> DEFINE A == pc # "idle" /\ pc' = "idle" /\ result' = "ok" =>
                    /\ exists' /\ spec'.val = want
                    /\ seenMark # "ours" => mark'.val = "ours"
  <1>1. [Next]_vars => [A]_vars
    <2> SUFFICES ASSUME Next, pc # "idle", pc' = "idle", result' = "ok"
                 PROVE  exists' /\ spec'.val = want /\ (seenMark # "ours" => mark'.val = "ours")
      OBVIOUS
    <2>1. CASE Create
      BY <2>1 DEF Create, Returns, Created
    <2>2. CASE Patch
      BY <2>2 DEF Patch, Returns, Patched, Set, NamesMark
    <2>3. CASE Get \/ PatchRetriable \/ CallFails \/ Pause \/ PauseCancelled
      BY <2>3 DEF Get, PatchRetriable, CallFails, Pause, PauseCancelled, Returns, Exhausted
    <2>4. ASSUME NEW s \in SpecValue, Begin(s) \/ OtherWrites(s) PROVE FALSE
      BY <2>4 DEF Begin, OtherWrites, External
    <2>5. ASSUME NEW m, OtherMarks(m) PROVE FALSE
      BY <2>5 DEF OtherMarks, External
    <2>6. CASE OtherDeletes \/ Cancel
      BY <2>6 DEF OtherDeletes, External, Cancel
    <2> QED
      BY <2>1, <2>2, <2>3, <2>4, <2>5, <2>6 DEF Next, Calls
  <1> QED
    BY <1>1, PTL DEF Spec, SuccessMeansWritten

=============================================================================
