----------------------------- MODULE Reconciler -----------------------------
(***************************************************************************)
(* One resource kind under internal/controller/apply.go: a round applies   *)
(* every desired object (Get, then Create or server-side apply), lists the *)
(* managed objects and collects the stale ones, at once or through the     *)
(* grace queue and its workers.                                            *)
(*                                                                         *)
(* The Kubernetes API, the other users of the cluster and the crash of the *)
(* process are the environment.                                            *)
(***************************************************************************)
EXTENDS Naturals, Sequences, FiniteSets, SequencesExt

CONSTANTS
    Name,          \* object names of the kind
    Worker,        \* grace-deletion workers (GC_WORKERS)
    QueueSize,     \* capacity of the grace queue (GC_GRACE_QUEUE_SIZE)
    Modes,         \* the settings of READ_ONLY and GC_GRACE_PERIOD to look at
    None,          \* a worker without a request
    MaxRounds,     \* bound on rounds
    MaxFaults,     \* bound on failing API calls
    MaxExternal,   \* bound on writes by other users of the cluster
    MaxCrashes     \* bound on restarts of the process

ASSUME ReconcilerAssumption ==
    /\ IsFiniteSet(Name)
    /\ QueueSize \in Nat \ {0}
    /\ Modes \subseteq {"immediate", "grace", "readonly"}
    /\ None \notin Name
    /\ MaxRounds \in Nat
    /\ MaxFaults \in Nat
    /\ MaxExternal \in Nat
    /\ MaxCrashes \in Nat

(***************************************************************************)
(* An object is absent, present without the managed label and annotation   *)
(* ("foreign"), or marked.  A mark written by a create stays when a later  *)
(* apply leaves it out; a mark written by a server-side apply is owned by  *)
(* that field manager and goes when the manager leaves it out.             *)
(***************************************************************************)
ObjectState == {"absent", "foreign", "created", "applied"}
Managed(o) == o \in {"created", "applied"}

VARIABLES
    mode,       \* the process's settings, fixed while it runs
    obj,        \* obj[n]: the object named n in the cluster
    want,       \* desired names of the current or last round
    pc,         \* where the loop is
    todo,       \* desired names still to apply
    cur, seen,  \* the name being applied and the object as read
    stale,      \* names still to collect
    failed,     \* the last round failed, or there has been none
    queue,      \* graceDelQueue
    worker,     \* worker[w]: the request w is waiting on
    ctxDone,    \* the context has been cancelled
    rounds, faults, externals, crashes,
    quiet,      \* history: nobody else wrote since the round began
    given,      \* history: deletions given up since the round began
    touched     \* history: names written or adopted by somebody else, or
                \*          deleted by a worker while the loop was writing them

loopVars  == <<mode, want, pc, todo, cur, seen, stale, failed>>
graceVars == <<queue, worker>>
bounds    == <<rounds, faults, externals, crashes>>
histVars  == <<quiet, given, touched>>
vars == <<mode, obj, want, pc, todo, cur, seen, stale, failed, queue, worker, ctxDone,
          rounds, faults, externals, crashes, quiet, given, touched>>

ReadOnly == mode = "readonly"
Grace == mode = "grace"

Pending == ToSet(queue) \cup ({worker[w] : w \in Worker} \ {None})

TypeOK ==
    /\ mode \in Modes
    /\ obj \in [Name -> ObjectState]
    /\ want \subseteq Name
    /\ pc \in {"idle", "apply", "write", "gc"}
    /\ todo \subseteq Name
    /\ cur \in Name \cup {None}
    /\ seen \in ObjectState
    /\ stale \subseteq Name
    /\ failed \in BOOLEAN
    /\ queue \in Seq(Name) /\ Len(queue) <= QueueSize
    /\ worker \in [Worker -> Name \cup {None}]
    /\ ctxDone \in BOOLEAN
    /\ rounds \in 0..MaxRounds
    /\ faults \in 0..MaxFaults
    /\ externals \in 0..MaxExternal
    /\ crashes \in 0..MaxCrashes
    /\ quiet \in BOOLEAN
    /\ given \subseteq Name
    /\ touched \subseteq Name

(* A new process over whatever the cluster holds. *)
Init ==
    /\ mode \in Modes
    /\ obj \in [Name -> ObjectState]
    /\ want = {} /\ pc = "idle" /\ todo = {} /\ cur = None /\ seen = "absent"
    /\ stale = {} /\ failed = TRUE
    /\ queue = <<>> /\ worker = [w \in Worker |-> None]
    /\ ctxDone = FALSE
    /\ rounds = 0 /\ faults = 0 /\ externals = 0 /\ crashes = 0
    /\ quiet = TRUE /\ given = {}
    /\ touched = {n \in Name : obj[n] \in {"foreign", "applied"}}

-----------------------------------------------------------------------------
(***************************************************************************)
(* Objects: what a write makes of them.                                    *)
(***************************************************************************)

\* Mutant: the managed metadata is forgotten on create.
CreatedUnmarked == "foreign"

(* CreateUnstructured with the metadata BuildMetadataForApply(nil) builds. *)
Created == "created"

(* BuildMetadataForApply names the mark only if the object read lacks it. *)
NamesMark(read) == ~Managed(read)

(***************************************************************************)
(* Server-side apply on what is there now: it creates a missing object,    *)
(* adds the fields named, and drops fields only this manager applied       *)
(* before and does not name now.                                           *)
(***************************************************************************)
Patched(read, now) ==
    CASE NamesMark(read) -> IF now = "created" THEN "created" ELSE "applied"
      [] now = "created" -> "created"
      [] OTHER           -> "foreign"

SetObj(n, o) == obj' = [obj EXCEPT ![n] = o]

-----------------------------------------------------------------------------
(***************************************************************************)
(* A round.                                                                *)
(***************************************************************************)

(***************************************************************************)
(* The loop applies a configuration that changed (it may still want the    *)
(* same objects of this kind) or failed; read-only mode applies nothing.   *)
(***************************************************************************)
BeginRound(d) ==
    /\ pc = "idle" /\ ~ctxDone
    /\ rounds < MaxRounds
    /\ rounds' = rounds + 1
    /\ want' = d
    /\ todo' = IF ReadOnly THEN {} ELSE d
    /\ pc' = "apply"
    /\ quiet' = TRUE
    /\ given' = {}
    /\ UNCHANGED <<mode, obj, cur, seen, stale, failed, graceVars, ctxDone,
                   faults, externals, crashes, touched>>

ReadObject(n) ==
    /\ pc = "apply"
    /\ n \in todo
    /\ cur' = n
    /\ seen' = obj[n]
    /\ pc' = "write"
    /\ UNCHANGED <<mode, obj, want, todo, stale, failed, graceVars, ctxDone, bounds, histVars>>

Written ==
    /\ todo' = todo \ {cur}
    /\ pc' = "apply"
    /\ UNCHANGED <<mode, want, cur, seen, stale, failed, graceVars, ctxDone, bounds,
                   quiet, given, touched>>

CreateObject ==
    /\ pc = "write"
    /\ seen = "absent"
    /\ obj[cur] = "absent"
    /\ SetObj(cur, Created)
    /\ Written

PatchObject ==
    /\ pc = "write"
    /\ seen # "absent"
    /\ SetObj(cur, Patched(seen, obj[cur]))
    /\ Written

(* The round returns its error; the loop will run it again. *)
FailRound ==
    /\ pc' = "idle"
    /\ failed' = TRUE
    /\ UNCHANGED <<mode, obj, want, todo, cur, seen, stale, graceVars, ctxDone,
                   rounds, externals, crashes, histVars>>

(* Somebody created the object after it was found missing. *)
AlreadyExists ==
    /\ pc = "write"
    /\ seen = "absent"
    /\ obj[cur] # "absent"
    /\ FailRound
    /\ UNCHANGED faults

(* Get or List, Create or Patch, Delete: the grace path makes no call here. *)
Calling == pc \in {"apply", "write"} \/ (pc = "gc" /\ ~Grace /\ stale # {})

(* An API call fails; after cancellation, every one does. *)
CallFails ==
    /\ Calling
    /\ IF ctxDone THEN UNCHANGED faults ELSE faults < MaxFaults /\ faults' = faults + 1
    /\ FailRound

\* Mutant: objects are collected by label alone, desired or not.
staleManagedNameAny(n) == Managed(obj[n])

\* Mutant: the managed label and annotation are not looked at.
staleManagedNameForeign(n) == obj[n] # "absent" /\ n \notin want

staleManagedName(n) == Managed(obj[n]) /\ n \notin want

Collectable == IF ReadOnly THEN {} ELSE {n \in Name : staleManagedName(n)}

(* List the marked objects and pick the stale ones. *)
ListStale ==
    /\ pc = "apply"
    /\ todo = {}
    /\ stale' = Collectable
    /\ pc' = "gc"
    /\ UNCHANGED <<mode, obj, want, todo, cur, seen, failed, graceVars, ctxDone, bounds, histVars>>

(* Without a grace period: delete, where NotFound is as good. *)
DeleteImmediate(n) ==
    /\ ~Grace
    /\ pc = "gc"
    /\ n \in stale
    /\ SetObj(n, "absent")
    /\ stale' = stale \ {n}
    /\ UNCHANGED <<mode, want, pc, todo, cur, seen, failed, graceVars, ctxDone, bounds,
                   quiet, given, touched>>

(* The channel accepts a request without blocking. *)
HasRoom == Len(queue) < QueueSize

ScheduleGraceDeletion(n) ==
    /\ Grace
    /\ pc = "gc"
    /\ n \in stale
    /\ HasRoom
    /\ queue' = Append(queue, n)
    /\ stale' = stale \ {n}
    /\ UNCHANGED <<mode, obj, want, pc, todo, cur, seen, failed, worker, ctxDone, bounds, histVars>>

\* Mutant: a full queue is waited for without timeout or cancellation.
NeverGivesUp == FALSE

(* 250ms of a full queue, or a cancelled context. *)
GivesUp == Len(queue) = QueueSize \/ ctxDone

DropDeletion(n) ==
    /\ Grace
    /\ pc = "gc"
    /\ n \in stale
    /\ GivesUp
    /\ stale' = stale \ {n}
    /\ given' = given \cup {n}
    /\ UNCHANGED <<mode, obj, want, pc, todo, cur, seen, failed, graceVars, ctxDone, bounds,
                   quiet, touched>>

\* Mutant: the round returns without waiting for its deletions.
CollectedAnyway == TRUE

CollectedAll == stale = {}

EndRound ==
    /\ pc = "gc"
    /\ CollectedAll
    /\ pc' = "idle"
    /\ failed' = FALSE
    /\ UNCHANGED <<mode, obj, want, todo, cur, seen, stale, graceVars, ctxDone, bounds, histVars>>

-----------------------------------------------------------------------------
(***************************************************************************)
(* The grace-deletion pool.  gcSem has one slot per worker, so acquiring   *)
(* it never waits.                                                         *)
(***************************************************************************)
TakeRequest(w) ==
    /\ worker[w] = None
    /\ queue # <<>>
    /\ worker' = [worker EXCEPT ![w] = Head(queue)]
    /\ queue' = Tail(queue)
    /\ UNCHANGED <<obj, loopVars, ctxDone, bounds, histVars>>

\* Mutant: a worker stays on its request after serving it.
ReleaseNothing(w) == UNCHANGED worker

Release(w) == worker' = [worker EXCEPT ![w] = None]

(* The delay has passed: the object is deleted by name. *)
HandleGraceDelete(w) ==
    /\ worker[w] # None
    /\ ~ctxDone
    /\ SetObj(worker[w], "absent")
    /\ touched' = touched \cup {n \in {worker[w]} : pc = "write" /\ cur = n}
    /\ Release(w)
    /\ UNCHANGED <<loopVars, queue, ctxDone, bounds, quiet, given>>

(* A failed deletion is logged and forgotten. *)
GraceDeleteFails(w) ==
    /\ worker[w] # None
    /\ ~ctxDone
    /\ faults < MaxFaults
    /\ faults' = faults + 1
    /\ given' = given \cup {worker[w]}
    /\ Release(w)
    /\ UNCHANGED <<obj, loopVars, queue, ctxDone, rounds, externals, crashes,
                   quiet, touched>>

AbandonRequest(w) ==
    /\ worker[w] # None
    /\ ctxDone
    /\ given' = given \cup {worker[w]}
    /\ Release(w)
    /\ UNCHANGED <<obj, loopVars, queue, ctxDone, bounds, quiet, touched>>

-----------------------------------------------------------------------------
(***************************************************************************)
(* The environment: other users create, delete and unmark objects; the     *)
(* process is cancelled, or dies and starts anew.                          *)
(***************************************************************************)
OtherWrites(n, o) ==
    /\ externals < MaxExternal
    /\ externals' = externals + 1
    /\ SetObj(n, o)
    /\ touched' = touched \cup {n}
    /\ quiet' = FALSE
    /\ UNCHANGED <<loopVars, graceVars, ctxDone, rounds, faults, crashes, given>>

OtherCreates(n) == obj[n] = "absent" /\ OtherWrites(n, "foreign")
OtherDeletes(n) == obj[n] # "absent" /\ OtherWrites(n, "absent")
OtherUnmarks(n) == Managed(obj[n]) /\ OtherWrites(n, "foreign")

Cancel ==
    /\ ~ctxDone
    /\ ctxDone' = TRUE
    /\ UNCHANGED <<obj, loopVars, graceVars, bounds, histVars>>

Restart ==
    /\ crashes < MaxCrashes
    /\ crashes' = crashes + 1
    /\ mode' \in Modes
    /\ pc' = "idle" /\ todo' = {} /\ cur' = None /\ seen' = "absent"
    /\ stale' = {} /\ failed' = TRUE
    /\ queue' = <<>> /\ worker' = [w \in Worker |-> None]
    /\ ctxDone' = FALSE
    /\ UNCHANGED <<obj, want, rounds, faults, externals, histVars>>

-----------------------------------------------------------------------------
RoundStep ==
    \/ \E n \in Name : \/ ReadObject(n) \/ DeleteImmediate(n)
                       \/ ScheduleGraceDeletion(n) \/ DropDeletion(n)
    \/ CreateObject \/ PatchObject \/ AlreadyExists \/ ListStale \/ EndRound

WorkerStep(w) ==
    \/ TakeRequest(w) \/ HandleGraceDelete(w)
    \/ GraceDeleteFails(w) \/ AbandonRequest(w)

Next ==
    \/ \E d \in SUBSET Name : BeginRound(d)
    \/ RoundStep
    \/ CallFails
    \/ \E w \in Worker : WorkerStep(w)
    \/ \E n \in Name : OtherCreates(n) \/ OtherDeletes(n) \/ OtherUnmarks(n)
    \/ Cancel
    \/ Restart

Spec == Init /\ [][Next]_vars

(***************************************************************************)
(* The loop's goroutine and the workers' run; timers fire.  A worker may   *)
(* end on cancellation instead of taking another request.                  *)
(***************************************************************************)
Fairness ==
    /\ WF_vars(RoundStep)
    /\ \A w \in Worker :
          /\ WF_vars(~ctxDone /\ TakeRequest(w))
          /\ WF_vars(HandleGraceDelete(w) \/ AbandonRequest(w))

FairSpec == Spec /\ Fairness

-----------------------------------------------------------------------------
(***************************************************************************)
(* Properties.                                                             *)
(***************************************************************************)

(* A name the controller deletes in this step, or in this step's request. *)
Deletes(n) ==
    \/ DeleteImmediate(n)
    \/ \E w \in Worker : worker[w] = n /\ HandleGraceDelete(w)

(***************************************************************************)
(* With immediate collection a round that reports success leaves every     *)
(* desired object in place until the next round or somebody else's delete, *)
(* also when the process before it ran with a grace period.                *)
(***************************************************************************)
DesiredExistAtOnce ==
    pc = "idle" /\ ~failed /\ quiet /\ mode = "immediate" =>
        \A n \in want : obj[n] # "absent"

(***************************************************************************)
(* No stale object is overlooked by a round that reports success: it is    *)
(* gone, or its deletion is queued, or was given up with a log line.       *)
(***************************************************************************)
StaleAccountedFor ==
    pc = "idle" /\ ~failed /\ quiet /\ ~ReadOnly =>
        \A n \in Name \ want : Managed(obj[n]) => n \in Pending \cup given

(***************************************************************************)
(* Without a grace period the controller deletes nothing that the          *)
(* configuration of the round wants and, if nobody else wrote since the    *)
(* round began, nothing without the managed mark, also when the process    *)
(* before it left a grace queue behind.                                    *)
(***************************************************************************)
OnlyStaleCollected ==
    [][\A n \in Name :
          Deletes(n) /\ ~Grace => n \notin want /\ (quiet => Managed(obj[n]))]_vars

(***************************************************************************)
(* Documented, and not so: collection removes labeled resources that are   *)
(* not in the desired set, and nothing else.  A grace worker deletes by    *)
(* name, one grace period after the listing: since then the object may     *)
(* have become desired again, have lost the mark, or be another one.       *)
(***************************************************************************)
OnlyManagedStaleDeleted ==
    [][\A n \in Name :
          Deletes(n) /\ obj[n] # "absent" => Managed(obj[n]) /\ n \notin want]_vars

(***************************************************************************)
(* An object the controller created never loses the mark that makes it     *)
(* collectable (server-side apply drops what its manager no longer names), *)
(* unless somebody else wrote it or a grace deletion hit it between the    *)
(* loop's read and its write: the write then recreates it unmarked.        *)
(***************************************************************************)
OwnObjectsStayManaged ==
    \A n \in Name \ touched : obj[n] # "foreign"

(* Every round ends, also when the queue stays full or nobody serves it. *)
RoundsEnd == pc # "idle" ~> pc = "idle"

(* Every accepted grace deletion is served unless the process is cancelled. *)
GraceRequestsServed ==
    \A n \in Name : n \in Pending ~> (n \notin Pending \/ ctxDone)

=============================================================================
