----------------------------- MODULE ObjectApply -----------------------------
(***************************************************************************)
(* Applying one object (internal/apply): Get, then Create, or server-side  *)
(* apply with up to MaxAttempts attempts, and force decided from what was  *)
(* read.  The loop applies again what failed.                              *)
(*                                                                         *)
(* An object has two fields: its spec, and the mark (the managed label,    *)
(* the annotation and what goes with them).  The API server, which knows   *)
(* who manages each field, and the other users of the cluster are the      *)
(* environment.                                                            *)
(***************************************************************************)
EXTENDS Naturals

CONSTANTS
    SpecValue,    \* values of the spec
    None,         \* the value of a field that is not set
    MaxAttempts,  \* 5
    MaxChanges,   \* bound on changes of the configuration
    MaxFaults,    \* bound on failing calls
    MaxExternal   \* bound on writes by others

ASSUME ObjectApplyAssumption ==
    /\ None \notin SpecValue \cup {"ours", "theirs"}
    /\ MaxAttempts \in Nat \ {0}
    /\ MaxChanges \in Nat /\ MaxFaults \in Nat /\ MaxExternal \in Nat

(***************************************************************************)
(* Field managers: the controller's server-side apply ("apply"), its       *)
(* create, which the API server records as a manager of its own            *)
(* ("create"), and others.                                                 *)
(***************************************************************************)
Manager == {"create", "apply", "other"}
Field(values) == [val : values \cup {None}, by : SUBSET Manager]
Unset == [val |-> None, by |-> {}]

VARIABLES
    ssaForce,  \* SSA_FORCE, of no effect for routers
    exists,    \* the object is in the cluster
    spec, mark,
    want,      \* the spec to apply
    pc,        \* "idle", "get", "create", "patch" or "pause"
    seenMark,  \* the mark as read
    useForce,  \* force, for all attempts
    left,      \* attempts left
    result,    \* of the last apply: "none", "ok", "conflict" or "error"
    ctxDone,   \* the context has been cancelled
    changes, faults, externals

object == <<exists, spec, mark>>
call   == <<want, seenMark, useForce, left>>
bounds == <<changes, faults, externals>>
vars == <<ssaForce, exists, spec, mark, want, pc, seenMark, useForce, left, result, ctxDone,
          changes, faults, externals>>

TypeOK ==
    /\ ssaForce \in BOOLEAN /\ exists \in BOOLEAN /\ useForce \in BOOLEAN /\ ctxDone \in BOOLEAN
    /\ spec \in Field(SpecValue)
    /\ mark \in Field({"ours", "theirs"})
    /\ ~exists => spec = Unset /\ mark = Unset
    /\ want \in SpecValue
    /\ pc \in {"idle", "get", "create", "patch", "pause"}
    /\ seenMark \in {"ours", "theirs", None}
    /\ left \in 0..MaxAttempts
    /\ result \in {"none", "ok", "conflict", "error"}
    /\ changes \in 0..MaxChanges /\ faults \in 0..MaxFaults /\ externals \in 0..MaxExternal

Init ==
    /\ ssaForce \in BOOLEAN
    /\ exists = FALSE /\ spec = Unset /\ mark = Unset
    /\ want \in SpecValue
    /\ pc = "idle" /\ seenMark = None /\ useForce = FALSE /\ left = 0
    /\ result = "none" /\ ctxDone = FALSE
    /\ changes = 0 /\ faults = 0 /\ externals = 0

-----------------------------------------------------------------------------
(* The loop applies a new configuration, or again the one that failed. *)
Begin(s) ==
    /\ pc = "idle" /\ ~ctxDone
    /\ IF result = "ok" \/ s # want
       THEN s # want /\ changes < MaxChanges /\ changes' = changes + 1
       ELSE UNCHANGED changes
    /\ want' = s
    /\ pc' = "get"
    /\ UNCHANGED <<ssaForce, object, seenMark, useForce, left, result, ctxDone, faults, externals>>

Returns(res) ==
    /\ result' = res
    /\ pc' = "idle"
    /\ UNCHANGED <<ssaForce, call, ctxDone, changes, externals>>

(* BuildMetadataForApply: the mark is named if the object read lacks it. *)
NamesMark(read) == read # "ours"

\* Mutant: SSA_FORCE is not looked at.
ForceMarkOnly(read) == NamesMark(read)

(* useForce: SSA_FORCE, or metadata to repair. *)
ForceNeeded(read) == ssaForce \/ NamesMark(read)

Get ==
    /\ pc = "get" /\ ~ctxDone
    /\ seenMark' = mark.val
    /\ useForce' = (exists /\ ForceNeeded(mark.val))
    /\ left' = MaxAttempts
    /\ pc' = IF exists THEN "patch" ELSE "create"
    /\ UNCHANGED <<ssaForce, object, want, result, ctxDone, bounds>>

(* Create, with the spec and the mark. *)
Created ==
    /\ exists' = TRUE
    /\ spec' = [val |-> want, by |-> {"create"}]
    /\ mark' = [val |-> "ours", by |-> {"create"}]

Create ==
    /\ pc = "create" /\ ~ctxDone
    /\ IF exists THEN Returns("error") /\ UNCHANGED object   \* AlreadyExists
                 ELSE Returns("ok") /\ Created
    /\ UNCHANGED faults

-----------------------------------------------------------------------------
(***************************************************************************)
(* Server-side apply: fields named are set and owned, fields this manager  *)
(* owned and no longer names are given up, and a field that another        *)
(* manager owns with another value is a conflict unless forced.            *)
(***************************************************************************)
Set(f, v) == [val |-> v, by |-> {"apply"} \cup (IF f.val = v THEN f.by ELSE {})]
GivenUp(f) == IF f.by \subseteq {"apply"} THEN Unset ELSE [f EXCEPT !.by = @ \ {"apply"}]

Patched ==
    /\ exists' = TRUE
    /\ spec' = Set(spec, want)
    /\ mark' = IF NamesMark(seenMark) THEN Set(mark, "ours") ELSE GivenUp(mark)

Conflict == ~useForce /\ spec.val # want /\ ~(spec.by \subseteq {"apply"})

Patch ==
    /\ pc = "patch" /\ ~ctxDone
    /\ IF Conflict THEN Returns("conflict") /\ UNCHANGED object
                   ELSE Returns("ok") /\ Patched
    /\ UNCHANGED faults

Fault == faults < MaxFaults /\ faults' = faults + 1

(***************************************************************************)
(* A timeout, an overloaded server, or a conflict in spite of force: to be *)
(* tried again.  A call that timed out may have had its effect.            *)
(***************************************************************************)
PatchRetriable ==
    /\ pc = "patch" /\ ~ctxDone
    /\ Fault
    /\ UNCHANGED object \/ (~Conflict /\ Patched)
    /\ left' = left - 1
    /\ pc' = "pause"
    /\ UNCHANGED <<ssaForce, want, seenMark, useForce, result, ctxDone, changes, externals>>

\* Mutant: after the last attempt nil is returned.
ExhaustedNil == "ok"

(* What is returned after the last attempt: its error. *)
Exhausted == "error"

(* The timer fires. *)
Pause ==
    /\ pc = "pause"
    /\ IF left > 0
       THEN /\ pc' = "patch"
            /\ UNCHANGED <<ssaForce, call, result, ctxDone, changes, externals>>
       ELSE Returns(Exhausted)
    /\ UNCHANGED <<object, faults>>

PauseCancelled ==
    /\ pc = "pause" /\ ctxDone
    /\ Returns("error")
    /\ UNCHANGED <<object, faults>>

(* Any other failure of a call; once the context is done, every call fails. *)
CallFails ==
    /\ pc \in {"get", "create", "patch"}
    /\ IF ctxDone THEN UNCHANGED faults ELSE Fault
    /\ \/ UNCHANGED object
       \/ pc = "create" /\ ~exists /\ Created
    /\ Returns("error")

-----------------------------------------------------------------------------
External ==
    /\ externals < MaxExternal
    /\ externals' = externals + 1
    /\ UNCHANGED <<ssaForce, call, pc, result, ctxDone, changes, faults>>

(* Others create, update and delete. *)
OtherWrites(s) ==
    /\ External
    /\ spec.val # s
    /\ exists' = TRUE
    /\ spec' = [val |-> s, by |-> {"other"}]
    /\ UNCHANGED mark

OtherMarks(m) ==
    /\ External
    /\ exists /\ mark.val # m
    /\ mark' = IF m = None THEN Unset ELSE [val |-> m, by |-> {"other"}]
    /\ UNCHANGED <<exists, spec>>

OtherDeletes ==
    /\ External
    /\ exists
    /\ exists' = FALSE /\ spec' = Unset /\ mark' = Unset

Cancel ==
    /\ ~ctxDone
    /\ ctxDone' = TRUE
    /\ UNCHANGED <<ssaForce, object, call, pc, result, bounds>>

-----------------------------------------------------------------------------
Calls == Get \/ Create \/ Patch \/ PatchRetriable \/ CallFails \/ Pause \/ PauseCancelled

Next ==
    \/ \E s \in SpecValue : Begin(s) \/ OtherWrites(s)
    \/ Calls
    \/ \E m \in {"ours", "theirs", None} : OtherMarks(m)
    \/ OtherDeletes
    \/ Cancel

Spec == Init /\ [][Next]_vars

(* Calls return, timers fire, and what failed is applied again. *)
FairSpec == Spec /\ WF_vars(Calls) /\ WF_vars(Begin(want))

-----------------------------------------------------------------------------
(***************************************************************************)
(* Success is reported only by a write that happened: whatever timed out,  *)
(* was tried again, cancelled or changed by others in between, at the step *)
(* that returns nil the object has the wanted spec, and the mark if the    *)
(* object read lacked it.                                                  *)
(***************************************************************************)
SuccessMeansWritten ==
    [][pc # "idle" /\ pc' = "idle" /\ result' = "ok" =>
          /\ exists' /\ spec'.val = want
          /\ seenMark # "ours" => mark'.val = "ours"]_vars

(***************************************************************************)
(* Once the configuration, the faults and the others come to rest, a       *)
(* process that forces gets its object applied, whoever owned its fields;  *)
(* without SSA_FORCE nothing but a conflict can keep it from that.         *)
(***************************************************************************)
AppliesSettle ==
    <>[](\/ ctxDone
         \/ result = "ok"
         \/ ~ssaForce /\ result = "conflict")

(***************************************************************************)
(* Documented, and not so: a conflict is met by fetching again and         *)
(* retrying, so no apply gives up on its first attempt.  ApplySSAWithRetry *)
(* returns a conflict at once, unless it forces, and then repeats the same *)
(* patch.  An object whose spec was written by the controller's own create *)
(* is in that case, and stays there.                                       *)
(***************************************************************************)
ConflictRetried == pc = "idle" /\ result = "conflict" => left < MaxAttempts

=============================================================================
