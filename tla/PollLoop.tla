------------------------------ MODULE PollLoop ------------------------------
(***************************************************************************)
(* The reconcile loop of the controller (internal/controller): poll the    *)
(* configuration endpoint with a conditional GET, decide from the ETag and *)
(* the body hash whether the configuration changed, parse it, apply it     *)
(* kind by kind, remember its signatures and sleep with backoff.           *)
(*                                                                         *)
(* The endpoint, the Kubernetes API and the cancellation of the context    *)
(* are the environment.  Applying a configuration is abstracted to phases  *)
(* (one per resource kind) that write and complete in any order: the       *)
(* sequential and the parallel mode of applyConfig are both among them.    *)
(***************************************************************************)
EXTENDS Naturals

CONSTANTS
    Body,          \* response bodies of the endpoint
    Digest,        \* SHA-256 digests, as hex strings
    Hash,          \* Hash[b]: the digest of body b
    NoHash,        \* the empty string: nothing has been applied yet
    Config,        \* decoded configurations
    Malformed,     \* what decoding a body that is not valid JSON yields
    Parse,         \* Parse[b]: the configuration body b decodes to
    ETag,          \* values of the ETag header
    Weak,          \* the ETags that start with W/
    NoETag,        \* the empty string: no ETag header
    Version,       \* the representations the endpoint can serve
    Gone,          \* the endpoint has no configuration (404)
    EmptyBody,     \* the body "{}" the controller substitutes on a 404
    Phase,         \* reconcile phases: middlewares, routers, ...
    RefusedBy,     \* RefusedBy[c]: phases whose transformation rejects c
    Mixed,         \* a phase's objects are of no single configuration
    MaxChanges,    \* bound on changes of the served representation
    MaxFaults      \* bound on environment faults

(***************************************************************************)
(* HTTP's validator contract (RFC 9110, 8.8.1): a strong ETag names one    *)
(* body, a weak one names bodies that mean the same configuration.         *)
(***************************************************************************)
ASSUME LoopAssumption ==
    /\ Hash \in [Body -> Digest]
    /\ \A b1, b2 \in Body : Hash[b1] = Hash[b2] => b1 = b2
    /\ NoHash \notin Digest
    /\ Parse \in [Body -> Config \cup {Malformed}]
    /\ Malformed \notin Config
    /\ Mixed \notin Config
    /\ NoETag \notin ETag
    /\ Weak \subseteq ETag
    /\ Version \subseteq [body : Body, etag : ETag \cup {NoETag}]
    /\ Version # {}
    /\ Gone \notin Version
    /\ EmptyBody \in Body
    /\ RefusedBy \in [Config -> SUBSET Phase]
    /\ MaxChanges \in Nat
    /\ MaxFaults \in Nat

ASSUME ValidatorContract ==
    \A v, w \in Version :
        v.etag # NoETag /\ v.etag = w.etag =>
            /\ v.etag \notin Weak => v.body = w.body
            /\ Parse[v.body] = Parse[w.body]

VARIABLES
    srv,                \* what the endpoint serves: a Version or Gone
    changes,            \* number of changes of srv so far
    faults,             \* number of environment faults so far
    ctxDone,            \* the loop's context has been cancelled
    pc,                 \* where the loop is
    inm,                \* If-None-Match of the request in flight
    resp,               \* the response being processed
    lastETag, lastETagIsHeader, lastHash, consecutiveErrors,
    lastSuccessful,     \* lastSuccessfulReconcile is not zero
    work,               \* the body and ETag being applied
    done,               \* phases that have completed in this apply
    cluster,            \* cluster[p]: the configuration phase p's objects hold
    torn,               \* history: an apply began after the last complete one
    failures            \* history: no, one or several (2) failed iterations
                        \* since the last good one

serverVars == <<srv, changes>>
sigVars    == <<lastETag, lastETagIsHeader, lastHash>>
applyVars  == <<work, done, cluster, torn>>
vars == <<srv, changes, faults, ctxDone, pc, inm, resp, lastETag,
          lastETagIsHeader, lastHash, consecutiveErrors, lastSuccessful,
          work, done, cluster, torn, failures>>

Representation == [body : Body, etag : ETag \cup {NoETag}]
GoodStatus     == {"OK", "NotModified", "NotFound"}
BadStatus      == {"Unauthorized", "ServerError", "Unexpected"}

(***************************************************************************)
(* A response; "of" records, for the properties, what the endpoint served  *)
(* when it answered (a 304 carries no body).                               *)
(***************************************************************************)
Response == [status : GoodStatus \cup BadStatus,
             etag   : ETag \cup {NoETag},
             body   : Body,
             of     : Version \cup {Gone}]

(***************************************************************************)
(* What the controller makes of a representation: a 404 counts as "{}".    *)
(***************************************************************************)
Effective(v) == IF v = Gone THEN [body |-> EmptyBody, etag |-> NoETag] ELSE v

TypeOK ==
    /\ srv \in Version \cup {Gone}
    /\ changes \in 0..MaxChanges
    /\ faults \in 0..MaxFaults
    /\ ctxDone \in BOOLEAN
    /\ pc \in {"poll", "await", "decide", "apply", "sleep", "exited"}
    /\ inm \in ETag \cup {NoETag}
    /\ resp \in Response
    /\ lastETag \in ETag \cup {NoETag}
    /\ lastETagIsHeader \in BOOLEAN
    /\ lastHash \in Digest \cup {NoHash}
    /\ consecutiveErrors \in Nat
    /\ lastSuccessful \in BOOLEAN
    /\ work \in Representation
    /\ done \in SUBSET Phase
    /\ cluster \in [Phase -> Config \cup {Mixed}]
    /\ torn \in BOOLEAN
    /\ failures \in 0..2

(***************************************************************************)
(* A fresh loop: no signatures, and a cluster left behind by whatever ran  *)
(* before.                                                                 *)
(***************************************************************************)
Init ==
    /\ srv \in Version \cup {Gone}
    /\ changes = 0
    /\ faults = 0
    /\ ctxDone = FALSE
    /\ pc = "poll"
    /\ inm = NoETag
    /\ resp = [status |-> "NotFound", etag |-> NoETag, body |-> EmptyBody, of |-> Gone]
    /\ lastETag = NoETag
    /\ lastETagIsHeader = FALSE
    /\ lastHash = NoHash
    /\ consecutiveErrors = 0
    /\ lastSuccessful = FALSE
    /\ work = [body |-> EmptyBody, etag |-> NoETag]
    /\ done = {}
    /\ cluster = [p \in Phase |-> Mixed]
    /\ torn = TRUE
    /\ failures = 0

-----------------------------------------------------------------------------
(***************************************************************************)
(* Pure parts of the loop: conditional header and change detection.        *)
(***************************************************************************)
computeHash(b) == Hash[b]

isWeakETag(et) == et \in Weak

computeIfNoneMatch(isHeader, et) ==
    IF isHeader /\ et # NoETag THEN et ELSE NoETag

\* Mutant: a new ETag counts as a change without comparing the hash.
decideChangeByETagOnly(et, curHash) ==
    ~(lastETagIsHeader /\ et = lastETag)

decideChangeWithETag(et, curHash) ==
    ~ \/ ~isWeakETag(et) /\ lastETagIsHeader /\ et = lastETag
      \/ lastHash # NoHash /\ curHash = lastHash

decideChangeNoETag(curHash) == ~(lastHash # NoHash /\ curHash = lastHash)

decideChange(et, b) ==
    IF et # NoETag
    THEN decideChangeWithETag(et, computeHash(b))
    ELSE decideChangeNoETag(computeHash(b))

(***************************************************************************)
(* shouldProceedAfterStatus: the body and ETag to go on with, and whether  *)
(* the status is acceptable and the configuration changed.                 *)
(***************************************************************************)
Adjusted(r) ==
    IF r.status = "NotFound"
    THEN [body |-> EmptyBody, etag |-> NoETag]
    ELSE [body |-> r.body, etag |-> r.etag]

Acceptable(r) == r.status \in GoodStatus

Proceeds(r) ==
    /\ Acceptable(r)
    /\ r.status # "NotModified"
    /\ decideChange(Adjusted(r).etag, Adjusted(r).body)

\* Mutant: a 5xx counts as "no change".
SkipsServerError(r) ==
    \/ r.status = "ServerError"
    \/ Acceptable(r) /\ ~Proceeds(r)

Skips(r) == Acceptable(r) /\ ~Proceeds(r)

-----------------------------------------------------------------------------
(***************************************************************************)
(* The environment.                                                        *)
(***************************************************************************)
ServerChanges ==
    /\ changes < MaxChanges
    /\ changes' = changes + 1
    /\ srv' \in (Version \cup {Gone}) \ {srv}
    /\ UNCHANGED <<faults, ctxDone, pc, inm, resp, sigVars, consecutiveErrors,
                   lastSuccessful, applyVars, failures>>

Cancel ==
    /\ ~ctxDone
    /\ ctxDone' = TRUE
    /\ UNCHANGED <<serverVars, faults, pc, inm, resp, sigVars, consecutiveErrors,
                   lastSuccessful, applyVars, failures>>

(***************************************************************************)
(* A fault of the environment: one of a bounded number, or free once the   *)
(* context is cancelled, because then every pending call fails.            *)
(***************************************************************************)
Fault == IF ctxDone
         THEN UNCHANGED faults
         ELSE faults < MaxFaults /\ faults' = faults + 1

Answer(r) ==
    /\ pc = "await"
    /\ resp' = r
    /\ pc' = "decide"
    /\ UNCHANGED <<serverVars, ctxDone, inm, sigVars, consecutiveErrors,
                   lastSuccessful, applyVars, failures>>

AnswerOK ==
    /\ srv # Gone
    /\ Answer([status |-> "OK", etag |-> srv.etag, body |-> srv.body, of |-> srv])
    /\ UNCHANGED faults

AnswerNotModified ==
    /\ srv # Gone
    /\ inm # NoETag
    /\ inm = srv.etag
    /\ Answer([status |-> "NotModified", etag |-> srv.etag, body |-> EmptyBody, of |-> srv])
    /\ UNCHANGED faults

AnswerNotFound ==
    /\ srv = Gone
    /\ Answer([status |-> "NotFound", etag |-> NoETag, body |-> EmptyBody, of |-> srv])
    /\ UNCHANGED faults

AnswerError ==
    /\ \E s \in BadStatus :
          Answer([status |-> s, etag |-> NoETag, body |-> EmptyBody, of |-> srv])
    /\ Fault

-----------------------------------------------------------------------------
(***************************************************************************)
(* The loop.                                                               *)
(***************************************************************************)

(* The top of the loop: leave when the context is done. *)
Exit ==
    /\ pc = "poll"
    /\ ctxDone
    /\ pc' = "exited"
    /\ UNCHANGED <<serverVars, faults, ctxDone, inm, resp, sigVars,
                   consecutiveErrors, lastSuccessful, applyVars, failures>>

\* Mutant: the context is not looked at before the request.
FetchConfigUnchecked ==
    /\ pc = "poll"
    /\ inm' = computeIfNoneMatch(lastETagIsHeader, lastETag)
    /\ pc' = "await"
    /\ UNCHANGED <<serverVars, faults, ctxDone, resp, sigVars,
                   consecutiveErrors, lastSuccessful, applyVars, failures>>

FetchConfig ==
    /\ pc = "poll"
    /\ ~ctxDone
    /\ inm' = computeIfNoneMatch(lastETagIsHeader, lastETag)
    /\ pc' = "await"
    /\ UNCHANGED <<serverVars, faults, ctxDone, resp, sigVars,
                   consecutiveErrors, lastSuccessful, applyVars, failures>>

(***************************************************************************)
(* An iteration that fails: one more consecutive error, then the backoff.  *)
(***************************************************************************)
handleReconcileError(errors) ==
    /\ consecutiveErrors' = errors + 1
    /\ failures' = IF failures = 2 THEN 2 ELSE failures + 1
    /\ pc' = "sleep"

(* Transport error, timeout, oversized body or cancelled request. *)
FetchFails ==
    /\ pc = "await"
    /\ Fault
    /\ handleReconcileError(consecutiveErrors)
    /\ UNCHANGED <<serverVars, ctxDone, inm, resp, sigVars, lastSuccessful, applyVars>>

RejectStatus ==
    /\ pc = "decide"
    /\ ~Acceptable(resp)
    /\ handleReconcileError(consecutiveErrors)
    /\ UNCHANGED <<serverVars, faults, ctxDone, inm, resp, sigVars, lastSuccessful, applyVars>>

(* Nothing changed: the iteration counts as a success. *)
Skip ==
    /\ pc = "decide"
    /\ Skips(resp)
    /\ consecutiveErrors' = 0
    /\ failures' = 0
    /\ lastSuccessful' = TRUE
    /\ pc' = "sleep"
    /\ UNCHANGED <<serverVars, faults, ctxDone, inm, resp, sigVars, applyVars>>

\* Mutant: the count is not reset.
keepConsecutiveErrors == consecutiveErrors

(* The error count is reset before the body is decoded and applied. *)
resetConsecutiveErrors == 0

DecodeFails ==
    /\ pc = "decide"
    /\ Proceeds(resp)
    /\ Parse[Adjusted(resp).body] = Malformed
    /\ handleReconcileError(resetConsecutiveErrors)
    /\ UNCHANGED <<serverVars, faults, ctxDone, inm, resp, sigVars, lastSuccessful, applyVars>>

StartApply ==
    /\ pc = "decide"
    /\ Proceeds(resp)
    /\ Parse[Adjusted(resp).body] # Malformed
    /\ consecutiveErrors' = resetConsecutiveErrors
    /\ work' = Adjusted(resp)
    /\ done' = {}
    /\ torn' = TRUE
    /\ pc' = "apply"
    /\ UNCHANGED <<serverVars, faults, ctxDone, inm, resp, sigVars, lastSuccessful,
                   cluster, failures>>

(* A phase has made some of its writes. *)
PhaseWrites(p) ==
    /\ pc = "apply"
    /\ p \notin done
    /\ cluster' = [cluster EXCEPT ![p] = Mixed]
    /\ UNCHANGED <<serverVars, faults, ctxDone, pc, inm, resp, sigVars,
                   consecutiveErrors, lastSuccessful, work, done, torn, failures>>

(* A phase has applied all its objects and removed the stale ones. *)
PhaseDone(p) ==
    /\ pc = "apply"
    /\ p \notin done
    /\ p \notin RefusedBy[Parse[work.body]]
    /\ cluster' = [cluster EXCEPT ![p] = Parse[work.body]]
    /\ done' = done \cup {p}
    /\ UNCHANGED <<serverVars, faults, ctxDone, pc, inm, resp, sigVars,
                   consecutiveErrors, lastSuccessful, work, torn, failures>>

(* A phase failed: an API error, or an object that cannot be transformed. *)
Refused == RefusedBy[Parse[work.body]] # {}

ApplyFails ==
    /\ pc = "apply"
    /\ IF Refused THEN UNCHANGED faults ELSE Fault
    /\ handleReconcileError(consecutiveErrors)
    /\ UNCHANGED <<serverVars, ctxDone, inm, resp, sigVars, lastSuccessful, applyVars>>

\* Mutant: without an ETag header the old ETag is kept.
updateSignaturesKeepETag(et, b) ==
    /\ lastETag' = IF et # NoETag THEN et ELSE lastETag
    /\ lastETagIsHeader' = (lastETag' # NoETag)
    /\ lastHash' = computeHash(b)

updateSignaturesAfterSuccess(et, b) ==
    /\ lastETag' = et
    /\ lastETagIsHeader' = (et # NoETag)
    /\ lastHash' = computeHash(b)

recordSyncSuccess ==
    /\ lastSuccessful' = TRUE
    /\ failures' = 0

\* Mutant: the result of the first phase to finish is returned.
AnyPhaseCompleted == done # {}

(* applyConfig returns nil only after every phase returned nil. *)
AllPhasesCompleted == done = Phase

ApplySucceeds ==
    /\ pc = "apply"
    /\ AllPhasesCompleted
    /\ updateSignaturesAfterSuccess(work.etag, work.body)
    /\ recordSyncSuccess
    /\ torn' = FALSE
    /\ pc' = "sleep"
    /\ UNCHANGED <<serverVars, faults, ctxDone, inm, resp, consecutiveErrors,
                   work, done, cluster>>

(* The timer fires or the context is cancelled. *)
Wake ==
    /\ pc = "sleep"
    /\ pc' = "poll"
    /\ UNCHANGED <<serverVars, faults, ctxDone, inm, resp, sigVars,
                   consecutiveErrors, lastSuccessful, applyVars, failures>>

-----------------------------------------------------------------------------
ServerAnswers == AnswerOK \/ AnswerNotModified \/ AnswerNotFound \/ AnswerError

LoopStep ==
    \/ Exit \/ FetchConfig \/ FetchFails
    \/ RejectStatus \/ Skip \/ DecodeFails \/ StartApply
    \/ ApplyFails \/ ApplySucceeds \/ Wake

Next ==
    \/ ServerChanges \/ Cancel
    \/ ServerAnswers
    \/ LoopStep
    \/ \E p \in Phase : PhaseWrites(p) \/ PhaseDone(p)

Spec == Init /\ [][Next]_vars

(***************************************************************************)
(* Every request is answered or fails (the client has a timeout), the      *)
(* loop's own steps are taken, and a phase finishes unless an API call     *)
(* fails.  The endpoint and the owner of the context promise nothing.      *)
(***************************************************************************)
Fairness ==
    /\ WF_vars(ServerAnswers \/ FetchFails)
    /\ WF_vars(Exit \/ FetchConfig)
    /\ WF_vars(RejectStatus \/ Skip \/ DecodeFails \/ StartApply)
    /\ WF_vars(Wake)
    /\ \A p \in Phase : WF_vars(PhaseDone(p))
    /\ WF_vars(ApplySucceeds)
    /\ WF_vars(Refused /\ ApplyFails)

FairSpec == Spec /\ Fairness

-----------------------------------------------------------------------------
(***************************************************************************)
(* Properties.                                                             *)
(***************************************************************************)

(***************************************************************************)
(* The remembered hash tells what the cluster holds: unless an apply has   *)
(* begun since (and failed, or is under way), every phase's objects are    *)
(* those of the configuration whose hash updateSignaturesAfterSuccess      *)
(* stored.  Signatures that advance before the last phase completes, or    *)
(* for a body other than the one applied, break it.                        *)
(***************************************************************************)
SignatureMatchesCluster ==
    \A b \in Body :
        lastHash = Hash[b] /\ ~torn => \A p \in Phase : cluster[p] = Parse[b]

(***************************************************************************)
(* Skipping is safe: when the loop decides "no change" (a 304, an equal    *)
(* strong ETag or an equal hash) and no apply was torn, the cluster holds  *)
(* the configuration the endpoint served when it answered - across weak    *)
(* ETags, lost answers, 404s and changes racing the request.               *)
(***************************************************************************)
SkipIsSafe ==
    pc = "decide" /\ Skips(resp) /\ ~torn =>
        \A p \in Phase : cluster[p] = Parse[Effective(resp.of).body]

(***************************************************************************)
(* A configuration is applied only if its body differs from the one        *)
(* applied last: a rotated ETag alone causes no writes.                    *)
(***************************************************************************)
NoRedundantApply ==
    pc = "apply" => computeHash(work.body) # lastHash

(***************************************************************************)
(* lastSuccessfulReconcile, which readiness reports, is set only after     *)
(* some configuration was applied completely: a 304 or a skip cannot make  *)
(* a controller ready that has never applied anything.                     *)
(***************************************************************************)
ReadyNeedsApply == lastSuccessful => lastHash # NoHash

(***************************************************************************)
(* The sleep after a failed iteration is a backoff and the one after a     *)
(* good iteration is the poll interval; the backoff grows only when        *)
(* iterations fail in a row.                                               *)
(***************************************************************************)
BackoffMatchesOutcome ==
    pc = "sleep" =>
        /\ consecutiveErrors = 0 <=> failures = 0
        /\ consecutiveErrors > 1 => failures = 2

(***************************************************************************)
(* The signatures of what is served now: the state in which the loop has   *)
(* nothing left to do, or can do nothing (an undecodable or refused body). *)
(***************************************************************************)
Synced ==
    LET c == Parse[Effective(srv).body] IN
    \/ c = Malformed
    \/ RefusedBy[c] # {}
    \/ \E b \in Body : lastHash = Hash[b] /\ Parse[b] = c

(***************************************************************************)
(* No update is lost: once the endpoint stops changing and faults stop     *)
(* (both are bounded), the loop ends up with the signatures of what is     *)
(* served, unless its context was cancelled.                               *)
(***************************************************************************)
UpdatesReachSignatures == <>[](ctxDone \/ Synced)

(***************************************************************************)
(* A cancelled loop returns, whatever it was waiting for.                  *)
(***************************************************************************)
CancelStopsLoop == ctxDone ~> pc = "exited"

=============================================================================
