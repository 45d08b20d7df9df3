# A TLA+ model of pangolin-kube-controller

The controller polls a Pangolin endpoint for a Traefik dynamic configuration,
rewrites it to Kubernetes names and objects, applies it kind by kind with
server-side apply, deletes what has become stale, and runs as one of several
replicas of which a lease elects a leader. This directory holds TLA+ modules of
that logic, the TLC configurations that check them, and TLAPS proofs of their
safety properties.

Paths below are relative to `src/internal/`.

## 1. Inventory

| Component | State | Operations | Interacts with |
|---|---|---|---|
| Reconcile loop (`controller/loop.go`, `fetch.go`, `change_detection.go`) | last ETag, whether it came from a header, last body hash, consecutive errors, time of the last success | fetch, decide, decode, apply, record, sleep | endpoint (conditional GET), apply phases, backoff, context |
| Backoff (`controller/backoff.go`) | none | interval doubling, cap, jitter | loop |
| Readiness (`controller/readiness.go`) | time of the last success | the probe behind `/readyz` | loop, HTTP server |
| Apply phases (`controller/apply.go` 32-143) | errgroup, semaphore | six phases, in turn or in parallel | object apply, GC |
| Object apply (`apply/unstructured.go`, `metadata.go`, `ingressroute.go`) | none of its own; the objects' labels, annotations, field ownership | Get, then Create or patch | Kubernetes API, other writers |
| GC and grace deletions (`controller/apply.go` 228-286, 564-648) | queue and workers | list, delete at once or enqueue, delayed delete | Kubernetes API, context |
| Sanitizing (`transform/sanitize`) | name mappings of one call | names, sections, references | loop's configuration |
| Service conversion (`transform/protocol/http_conversion.go`) | spec edited in place | conversion to a Service, gateway, filling | TraefikService phase |
| Router transformation (`transform/routing/routing.go`) | none | one IngressRoute per router, or an error | routers phase |
| TCP/UDP transformation (`transform/protocol/tcp_udp.go`) | none | index, Services, slices, routes | TCP and UDP phases |
| TCP/UDP reconciliation (`controller/apply.go` 306-562) | none | write Services, slices, routes, then collect | Kubernetes API |
| Process (`orchestration/run.go`, `controller/controller.go`, `leader_election.go`) | errgroup, contexts, exit request, lease | start, elect, lead, lose, shut down, return | HTTP server, monitor, loop, grace workers, other replicas |
| Instance label (`kube/labels/resolver.go`, `config/env.go`, `file.go`) | label key, value and class in the configuration | resolve, verify | IngressClasses, administrators |

What is hard here: answers, failures and upstream changes interleave with a poll
(loop); an apply fails half-way and the upstream goes back (loop); other users,
restarts and delayed deletions interleave with a round (GC); kinds that refer to
each other change at different times (phases); leases, signals, failures and two
replicas interleave (process); a call times out, is repeated and meets fields
that somebody else owns (object apply); a wait outgrows the readiness window
(readiness); names collide, are cut or vanish on their way through three
transformations (sanitizing, conversion, routes); integers near their width
(backoff). `PROJECT.json` lists each hazard with its
line and the properties that would catch it.

## 2. Modules

| Module | Models | State and actions |
|---|---|---|
| `PollLoop` | the loop | `pc` is where `runLoop` is; `lastETag`, `lastHash`, `lastETagIsHeader`, `consecutiveErrors` are the code's variables; `cluster[p]` is the configuration that phase `p` applied last. `FetchConfig`, `Answer…`, `FetchFails`, `RejectStatus`, `Skip`, `DecodeFails`, `StartApply`, `PhaseWrites`, `PhaseDone`, `ApplyFails`, `ApplySucceeds`, `Wake`, `Exit` are its steps; `ServerChanges` and `Cancel` the environment's. |
| `Convergence` | what `applyConfig` promises the loop | a goal, what the cluster holds of each object, running, ok or failed; a round repairs objects one by one, and succeeds only at the goal. |
| `ApplyPhases` | `applyConfig` over the kinds | `parallel` is RECONCILE_PARALLEL; per phase: waiting, applying, collecting, done, failed; one object per step. `Round` instantiates `Convergence`. |
| `ObjectApply` | one object through `internal/apply` | the object's spec and mark with their field managers; `Get`, `Create`, `Patch`, its retries and pauses; force as decided from the object read; others write, delete and unmark. |
| `Reconciler` | one kind in detail | an object is absent, foreign, created by us, or applied by us; a round reads, writes, lists, collects; queue and workers; `mode` is the process's setting (collect at once, with grace, read-only); other users create, delete and unmark; `Restart` loses memory. |
| `Backoff` | `computeBackoffDuration` | the loop in signed integers of a given width that wrap; POLL_INTERVAL and MAX_BACKOFF are any durations that parse, because nothing calls `Config.Validate`. |
| `Readiness` | `Ready` over time | extends `Backoff`: iterations that take time and succeed or fail, the waits computed, the age of the last success. |
| `Lifecycle` | processes | one record per replica: settings (election, ON_LOSE, grace period), main goroutine, group members, elector, loop, contexts, result; the lease. |
| `ResourceName` | `SanitizeResourceName` | operators over sequences of characters, the loop as a recursive function, with a reference definition (`WordsJoined`). |
| `Sanitize` | `SanitizeTraefikConfig` | section by section, name by name in sorted order. |
| `ServiceConversion` | `processSingleService` | operators: one spec through the conversions. |
| `HTTPTransform` | the HTTP section from end to end | extends `Sanitize` and `ServiceConversion`: the sanitized section through `ProcessServices` and, router by router, `TransformRouterToIngressRoute`. |
| `StreamTransform` | `TransformTCP`, `TransformUDP` | index, artifacts in sorted order, routes in any order. |
| `StreamReconcile` | `reconcileTCP`, `reconcileUDP` | extends `StreamTransform`: six stages of calls, any of which may fail, on a cluster with leftovers, routes without a Service among them; `start` remembers that cluster. Services and slices have names of their own (`SliceName` appends `-eps`). |
| `InstanceLabel` | label resolution and monitor | IngressClasses, the settings loaded, edits, ticks, restarts; `before` remembers the label of the process before. |

`Sanitize` and `StreamTransform` extend `ResourceName`. `PollLoop` abstracts
`ApplyPhases` to phases that write and complete in any order, `ApplyPhases`
abstracts `Reconciler` to apply-then-delete per kind, and `Reconciler` abstracts
`ObjectApply` to a read and a write. The `MC…` modules define
the instances; the `…Proofs` modules hold theorems. Definitions named after a
`\* Mutant:` comment are wrong variants of the definition that follows; nothing
uses them, they document which mistake each property would notice (`mutants` in
`PROJECT.json`).

External, modelled from how the code uses it: the endpoint, the Kubernetes API
server, client-go's elector and the lease, other users of the cluster, and the
string and hash functions of the standard library.

## 3. Runs

All runs switch deadlock checking off: a loop that returned, a process that
ended, a transformation that is done and exhausted bounds are states in which
the model rightly stops.

### Runs that pass

| Run | Shows | Bounds and why they are enough |
|---|---|---|
| `loop` | `SignatureMatchesCluster`, `SkipIsSafe`, `NoRedundantApply`, `ReadyNeedsApply`, `BackoffMatchesOutcome`; `UpdatesReachSignatures`, `CancelStopsLoop` | bodies of two configurations, one refused by a phase, one malformed and the empty one, five ETags of which one is weak; 2 changes and 1 fault: enough for change, failure, change back. A refused body fails as often as it is fetched, so failures in a row need no second fault. |
| `reconcile` | `DesiredExistAtOnce`, `StaleAccountedFor`, `OwnObjectsStayManaged`, `OnlyStaleCollected`; `RoundsEnd`, `GraceRequestsServed` | 2 names, queue of 1, 1 worker, 2 rounds over any initial cluster, one fault, foreign write and restart each, collecting at once, with grace, or read-only, and another setting after the restart: the queue overflows and a request outlives its round. |
| `phases` | `SuccessMeansConverged`, `RoutersFindMiddlewares`; `ImplementsConvergence` | all six phases, in turn and in parallel, two names, a semaphore of 2, two rounds, one failing call (in parallel it fails the others as well): a failed round and its repetition. |
| `object_apply` | `SuccessMeansWritten`; `AppliesSettle` | 2 specs, 2 changes, 5 attempts as in the code and 6 faults, so that all attempts may fail and the object be applied again; 2 foreign writes. |
| `lifecycle` | `OverlapOnlyInHandover`, `NilMeansClean`; `ShutdownCompletes` | 2 replicas without election, with ON_LOSE=exit and with ON_LOSE=pause; 1 loss, 1 fault and 1 restart, in any order. A nil result needs the first or the last of these settings, a loss that nil might hide the second. |
| `readiness` | `DoublingIsExact`, `WaitIsSpread`, `LoneFailureTolerated`, `RecoveryIsPrompt` | 6-bit integers, all pairs of a poll interval and a maximum, negative ones included, up to 8 errors: more doublings than bits. Only processes with settings -3 and 0 to 7 get to a success; the window and the longest wait scale with the interval. Both readiness properties are tight: with a window of 3 intervals, or a recovery bound one unit shorter, TLC finds a counterexample. |
| `http` | `NamesAreValid`, `NamesKeepWords`, `NothingVanishes`, `LastNameWins`, `ReferencesFollow`, `ConversionKeepsBackends`, `RoutesFollowRouters` | limit 5, hash 2: all names of up to 6 of four characters, one by one, so that a cut falls on every position relative to dashes; sections of three names that collide, one too long, one empty, any one malformed; one service of up to two servers over hosts, schemes, ports, paths and extra keys; two routers with and without rule and service, colliding or not. |
| `streams` | `RoutesNameServices`, `SlicesAreUniform`, `RoutesNeverDangle` | two services, up to three servers, ports 1 to 3 in base 2 with invalid ones around; limit 10: names at it and beyond it, one whose Service fits and whose slice does not, one with a hash that reads as a port (without the exception for it both properties about routes fail); the simpler sections on every cluster with up to three leftover Services, slices of any type and two routes, with or without their Service. |
| `label` | `NoFalseAlarm`, `RestartFindsSame`; `MismatchIsFatal` | all clusters of two classes, all sources of the setting, one edit, one failing call, two restarts. |

Type invariants are not run: the inductive invariants of section 5 contain them.

### Runs that show a disagreement

Each checks one statement of the repository's documentation, which TLC finds
violated by what the code does (`findings` in `PROJECT.json` quotes it).

| Run | Statement | What happens |
|---|---|---|
| `reconcile_managed` | collection removes what it manages and what is not desired | a grace worker deletes by name: an object that lost its mark, that somebody else created again (the trace is one of these), or, with `MaxExternal` 0, that is desired again |
| `lifecycle_loss` | losing leadership exits the process, or pauses it until leadership is regained | nothing cancels the errgroup, and nothing runs the elector again |
| `object_apply_conflict` | a conflict is met by fetching again and retrying | it is returned at once; the controller's own `Create`, another field manager, causes one at the first change of spec unless SSA_FORCE is set (routers ignore it) |

### Observations without a run

The models have these behaviours too; the properties are stated so that they
allow them. The repository's documentation says something else of most of them.

- A poll that is skipped after a torn apply still refreshes the time of the last
  success (`PollLoop.Skip` with `torn`), hence the `~torn` in `SkipIsSafe`.
- The error count is reset between fetch and apply, so repeated apply errors
  never raise the wait (`BackoffMatchesOutcome` bounds the count from one side).
- A rotated ETag over an unchanged body is not stored; later polls download the
  body again (`PollLoop.Skip`).
- If a grace worker deletes between the loop's read and write, the write recreates
  the object without the mark (see `OwnObjectsStayManaged`). Without a grace
  period a foreign object can be hit only between listing and deletion, hence
  `quiet` in `OnlyStaleCollected`.
- With a full queue a stale object is dropped with a warning and the round
  succeeds (`given` in `StaleAccountedFor`).
- The grace workers run under the context of the process: those of a former
  leader go on deleting beside its successor, where `src/docs/controller/controller.md`
  (156) has leader election prevent concurrent writes (`Lifecycle.GraceDelete`;
  `OverlapOnlyInHandover` is about the loops).
- client-go calls OnStoppedLeading whenever the elector ends, so a process stopped
  by a signal, even a candidate that never led, returns the error that stands for
  lost leadership (`Lifecycle.AcquireCancelled`).
- Jitter is added after the cap: the wait may exceed MAX_BACKOFF by a fifth, where
  `controller.md` calls it the maximum wait (169) and describes full jitter (382).
- `Config.Validate` has no caller. A MAX_BACKOFF of zero or less is accepted, and
  failing iterations then follow each other without a pause, where `controller.md`
  (155) has the backoff avoid that; so is a negative POLL_INTERVAL, whose doubling
  never meets the cap and wraps around (`WaitIsSpread` and `DoublingIsExact` say
  what holds of such settings).
- GC runs per kind, before later kinds are applied: a renamed middleware is gone
  while routers still name it (`RoutersFindMiddlewares` is about desired routers
  only).
- Rewriting a bare host drops a path before the strict parser, which would have
  refused it, sees the URL (`ConversionKeepsBackends` leaves paths out).
- An empty service name of a router is sanitized to a valid one before
  `TransformRouterToIngressRoute` looks for a missing service; only a router
  without the key is refused (`HTTPTransform.HasRuleAndService`).
- An empty TLS section of a router, which Traefik takes as a wish for TLS, is
  dropped (`HTTPTransform.TransformRouterToIngressRoute`).
- `Ready` looks only at the last success: a replica that lost the lease stays
  ready for up to five poll intervals, where `README.md` has `/readyz` depend on
  holding the lease.
- An EndpointSlice keeps its address type when updated: a service whose backends
  change their family is refused in every later round (`StreamReconcile.Accepts`).
- No code puts the label `kubernetes.io/service-name` on an EndpointSlice, whose
  name is that of its Service with `-eps`: nothing links the two for Kubernetes.
  `RoutesNameServices` claims that their ports agree, not that traffic arrives.
- The slice of a Service whose name has fewer than four characters to spare has too
  long a name; the API server refuses it and the phase fails
  (`StreamReconcile.Accepts`).
- With a grace period, stale TCP and UDP routes stay while their Services go at
  once, hence `~grace` in `RoutesNeverDangle`. Each protocol collects the Services
  of the other, and a TCP route may name a service that is not defined, so a round
  may start with routes that dangle; the property says that it adds none and, if it
  succeeds, leaves none of those (`DangledBefore`).
- A TCP or UDP service whose name is cut ends in a hash instead of its port. As a
  rule its routes, and with them the round, fail; a hash of ten decimal digits
  with five zeros in front is taken for a port (`StreamTransform.HashReadsAsPort`,
  the one exception in `RoutesNameServices` and `RoutesNeverDangle`).
- The resolved instance label is not in the metadata of the Traefik objects.

## 4. Fairness

- `PollLoop`: every request is answered or fails, because the HTTP client has a
  timeout; the loop's own steps are taken; a phase completes unless a call
  fails. The endpoint and the owner of the context promise nothing.
- `Reconciler`: the loop's goroutine and the workers run and timers fire; a
  worker that sees the context done may end instead of taking a request.
- `ApplyPhases`: the goroutines of a round run and their calls return. That
  implements `Convergence`'s fairness, that a round ends.
- `ObjectApply`: calls return, the retry timer fires, and the loop applies again
  what failed (it wakes up after every backoff).
- `Lifecycle`: goroutines run, calls return, a lease that is not renewed runs
  out, a candidate retries. No signal, failure, loss or restart is promised.
- `InstanceLabel`: the monitor's ticker fires.

All of it is weak fairness on steps that the Go scheduler, a timer or a client
timeout brings about.

## 5. Proofs

Theorems hold for every value of the constants that meets the named assumptions
(`LoopAssumption`, `ValidatorContract`, `LifecycleAssumption`,
`BackoffAssumption`, `ReadinessAssumption`, `ReconcilerAssumption`,
`PhasesAssumption`, `ObjectApplyAssumption`, `LabelAssumption`,
`NameAssumption`, `ConfigAssumption`, `BodyAssumption`, `StreamAssumption`,
`LeftoverAssumption`); TLC evaluates each of them on its instance. Every safety
property is derived from one inductive invariant per state machine (`IndInv`,
`ReadyInd`, `StreamInv`, `HTTPInv`), whose parts are named.

- **`PollLoopProofs`** proves `TypeOK`, `SignatureMatchesCluster`, `SkipIsSafe`,
  `NoRedundantApply`, `ReadyNeedsApply` and `BackoffMatchesOutcome`. None of the
  first three is inductive alone: that a skip is safe depends on the stored pair
  of ETag and hash being one that was served together (`SignatureOfServed`), on
  the header in flight being the stored one (`RequestIsCurrent`), on the answer
  being truthful when it was given (`ResponseHonest`), and on an apply working on
  something served, decodable and new (`ApplyInProgress`). `LoopAssumption` takes
  the hash to tell bodies apart, and `ValidatorContract` has what the endpoint
  must grant: one strong ETag is never used for two bodies, nor a weak one for
  two configurations.
- **`LifecycleProofs`** proves `TypeOK`, `OverlapOnlyInHandover` and
  `NilMeansClean` for any set of replicas. The invariant says that who leads
  holds the lease, and of each process that a loop whose context is alive is led,
  that an ended process is quiet, and that a loss leaves a trace until the return
  value is decided.
- **`ReadinessProofs`** proves of the backoff, as the loop calls it again and
  again (`ReadySpec`), `DoublingIsExact` and `WaitIsSpread` for every integer
  width, every interval and cap of either sign, error count and jitter
  resolution; and of the probe `LoneFailureTolerated` and `RecoveryIsPrompt`. The
  invariant of the backoff adds that an interval that is not negative stays at
  least the poll interval before the cap and does not wrap around, and that no
  interval leaves the cap above the maximum. That of
  the probe bounds the age of the last success at each point of the loop, in
  poll intervals: at most 1 when an iteration starts and 2 when it ends; after
  one failure, a wait of at most 6/5 makes that 16/5 and 21/5, below the window
  of 5. Proved for iterations no longer than the poll interval, which is the
  bound the model puts on them.
- **`ReconcilerProofs`** proves `TypeOK`, `DesiredExistAtOnce`,
  `StaleAccountedFor`, `OwnObjectsStayManaged` and the action property
  `OnlyStaleCollected`, for any finite set of names, any capacity of the
  queue, any workers and settings. Needed besides: what a round without a grace
  period is to delete carries the mark while nobody else writes (`StaleMarked`); an
  object nobody else
  touched is still as it was read when it is written (`OwnUntouched`); a process
  that collects at once holds no requests, even after a restart from another
  setting (`QueueOnlyWithGrace`); and, in the middle of a round, that what is
  desired is there or still to do, and what is stale is in the stale set, pending
  or given up (`DesiredSoFar`, `StaleSoFar`).
- **`ApplyPhasesProofs`** proves `TypeOK`, `SuccessMeansConverged` and
  `RoutersFindMiddlewares` in both modes, and that every behaviour implements the
  safety part of `Convergence` (`Refinement`): an initial state maps to an
  initial state, a write to a repair of one object, the end of a round to a
  success or a failure, anything else to a stutter. The invariant
  says of each phase that what it has still to do accounts for all that keeps its
  kind from the goal (`PhaseProgress`), and of sequential rounds that a phase has
  started only after those before it were done (`InSequence`).
  `PhasesAssumption` takes configurations to refer to objects they define.
- **`ObjectApplyProofs`** proves `TypeOK` (with the attempts left, which the
  retry loop needs) and the action property `SuccessMeansWritten`.
- **`InstanceLabelProofs`** proves `TypeOK`, `NoFalseAlarm` and
  `RestartFindsSame`, for any number of restarts; the invariant says that without
  an edit the label in use, and that of the process before, is what the class
  still carries (`LabelIsCurrent`, `BeforeIsCurrent`).
- **`TransformProofs`** is about names, streams and the HTTP section.
  - *Loops.* `LeastOf` takes from the library that every set of natural numbers
    has a least element; from it follow induction up to a bound (`UpTo`), with a
    set in the place of a predicate, and that a loop of total steps runs to its
    end (`LoopExists`), with functions in the place of operators. In this form
    the provers can use them, and the loops of the model, recursive functions
    over the positions of a text, have the values their equations say
    (`BuiltEquation`, `ReadEquation`).
  - *Names.* `SanitizedIsName`: the invariant of the loop of `buildBaseName` is
    that what is built are words with single dashes between and perhaps one
    after them, and that `lastDash` says so (`AccInv`); trimming and cutting
    keep words (`TrimmedJoined`), and a hash after a dash makes words again
    (`JoinWord`). `LoopJoinsWords`: the loop computes the reference definition,
    because after every turn it has written the positions it takes, in order
    (`Spells`). `NameAssumption` has a limit with room for a character, a dash
    and a hash (253 and 10 in the code); `ConfigAssumption` and
    `StreamAssumption` take hashes to have their length in hex digits.
  - *Ports.* `PortSurvivesName`: a numeral reads as the number it was written
    for (`NumeralFacts`, in any base), it ends the words of the name
    (`PortedWords`), and comes after the last dash, unless the name is cut.
  - *Streams.* `RoutesNameServices`, `SlicesAreUniform` and `RoutesNeverDangle`,
    for sections of any size and any leftovers, of which `LeftoverAssumption` says
    only that a route carries the port that was read off the name it has for its
    Service. Slices are found under a name of their own, which tells their
    Services apart (`SliceNameOf`). The last property is not inductive: a Service
    of an earlier round may be replaced under a route that names it. It is
    strengthened by what routes are, read off names (`RoutesHold`): then the new
    Service has the port too (`ServicePort`), and routes that dangled before are
    there only until they are collected. Besides, the invariant says which
    stages have written and collected what (`ServicesWritten`, `RoutesWritten`,
    `RoutesCollected`).
  - *HTTP.* `NothingVanishes`, `LastNameWins`, `ReferencesFollow`,
    `NamesAreValid`, `NamesKeepWords`, `ConversionKeepsBackends` and
    `RoutesFollowRouters`, for sections of any size, names of any length, hosts
    of any parts and any number of servers. The invariant says of each section
    that the names done are those that have a spec (`NamesSoFar`), that none of
    them comes after one still to do (`InByteOrder`), and that under a
    Kubernetes name is the rewritten spec of the last of its names so far
    (`LastSoFar`). That there is only one last name is the lemma
    `BeforeAsymmetric` on byte order; that a converted service is reached by all
    its servers, bare names and qualified ones, is `ConversionReaches`.

Every safety property of a passing run is proved. Only model-checked are the
liveness properties, and the fairness that `ImplementsConvergence` also claims:
the prover has neither fairness nor ENABLED.

## 6. Not modelled

HTTP client set-up (TLS, redirects), metrics, logging and redaction, the
certificates endpoint, client construction, the entry points and development
tools: I/O or construction without state that the controller reads back. The
HTTP-only mode of `orchestration/run.go` is one server beside one context.
`reconcile/gc.go`, `apply/service.go` and `apply/endpointslice.go` are called by
their tests only.

TCP and UDP objects are never applied today, because `SanitizeTraefikConfig`
passes on the HTTP section only; `ApplyPhases` has those phases with nothing to
do, and `StreamTransform` and `StreamReconcile` model them as their tests call
them. The `/readyz` handler and its gauge are left out: `Ready` is its verdict.

## 7. Plan

Done: the loop, backoff and readiness, phases and their refinement, GC, object
apply, process, the HTTP and stream transformations, label; proofs of all their
safety properties (section 5). Left, in this order:

1. Refinement: `Reconciler` with immediate deletion implements a phase of
   `ApplyPhases`.
2. HTTP-only mode of `orchestration/run.go`.
