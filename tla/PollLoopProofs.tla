--------------------------- MODULE PollLoopProofs ---------------------------
(***************************************************************************)
(* Proofs about PollLoop, for every endpoint that keeps HTTP's validator   *)
(* contract, every set of phases and every bound.                          *)
(***************************************************************************)
EXTENDS PollLoop, TLAPS

(***************************************************************************)
(* What the controller can be handed as a configuration.                   *)
(***************************************************************************)
Served == {Effective(v) : v \in Version \cup {Gone}}

(* The stored signatures are those of one served representation. *)
SignatureOfServed ==
    /\ lastHash = NoHash => lastETag = NoETag
    /\ lastETagIsHeader = (lastETag # NoETag)
    /\ lastHash # NoHash =>
          \E v \in Served : lastHash = Hash[v.body] /\ lastETag = v.etag

(* The conditional header in flight is still the stored ETag. *)
RequestIsCurrent == pc \in {"await", "decide"} => inm = lastETag

(* A response says what the endpoint served when it answered. *)
ResponseHonest ==
    pc = "decide" =>
        /\ resp.status = "OK" =>
              resp.of # Gone /\ resp.etag = resp.of.etag /\ resp.body = resp.of.body
        /\ resp.status = "NotModified" =>
              resp.of # Gone /\ inm # NoETag /\ inm = resp.of.etag
        /\ resp.status = "NotFound" => resp.of = Gone

(* An apply works on a served, decodable, new configuration. *)
ApplyInProgress ==
    pc = "apply" =>
        /\ torn
        /\ work \in Served
        /\ Parse[work.body] # Malformed
        /\ computeHash(work.body) # lastHash
        /\ \A p \in done : cluster[p] = Parse[work.body]

IndInv ==
    /\ TypeOK
    /\ SignatureOfServed
    /\ RequestIsCurrent
    /\ ResponseHonest
    /\ ApplyInProgress
    /\ SignatureMatchesCluster
    /\ ReadyNeedsApply

-----------------------------------------------------------------------------
(* A served representation is well formed. *)
LEMMA ServedTyped == Served \subseteq Representation
  BY LoopAssumption DEF Served, Effective, Representation

(***************************************************************************)
(* Equal ETags mean equal configurations, the 404 included: it carries no  *)
(* ETag.                                                                   *)
(***************************************************************************)
LEMMA ServedContract ==
    ASSUME NEW v \in Served, NEW w \in Served, v.etag # NoETag, v.etag = w.etag
    PROVE  Parse[v.body] = Parse[w.body]
  <1>1. v \in Version /\ w \in Version
    BY LoopAssumption DEF Served, Effective
  <1> QED
    BY <1>1, ValidatorContract

LEMMA InitInd == Init => IndInv
  <1> SUFFICES ASSUME Init PROVE IndInv
    OBVIOUS
  <1> USE LoopAssumption DEF Init
  <1>0. resp \in Response /\ work \in Representation
    BY DEF Response, Representation, GoodStatus
  <1>0a. /\ ctxDone \in BOOLEAN /\ lastETagIsHeader \in BOOLEAN
         /\ lastSuccessful \in BOOLEAN /\ torn \in BOOLEAN
    BY Zenon
  <1>0b. /\ pc \in {"poll", "await", "decide", "apply", "sleep", "exited"}
         /\ lastHash \in Digest \cup {NoHash}
         /\ cluster \in [Phase -> Config \cup {Mixed}]
         /\ lastETag \in ETag \cup {NoETag} /\ inm \in ETag \cup {NoETag}
    OBVIOUS
  <1>0c. changes \in 0..MaxChanges /\ faults \in 0..MaxFaults /\ failures \in 0..2
    OBVIOUS
  <1>1. TypeOK
    BY <1>0, <1>0a, <1>0b, <1>0c DEF TypeOK
  <1>2. SignatureMatchesCluster
    BY DEF SignatureMatchesCluster
  <1> QED
    BY <1>1, <1>2 DEF IndInv, SignatureOfServed, RequestIsCurrent, ResponseHonest,
                      ApplyInProgress, ReadyNeedsApply

(***************************************************************************)
(* Type correctness is preserved by every step; that a phase stores a      *)
(* configuration needs that only decodable bodies are applied.             *)
(***************************************************************************)
LEMMA TypeStep == TypeOK /\ ApplyInProgress /\ [Next]_vars => TypeOK'
  <1> SUFFICES ASSUME TypeOK, ApplyInProgress, [Next]_vars PROVE TypeOK'
    OBVIOUS
  <1> USE LoopAssumption DEF TypeOK, serverVars, sigVars, applyVars
  <1>a. \A r \in Response : Adjusted(r) \in Representation
    BY DEF Adjusted, Response, Representation
  <1>1. CASE ServerChanges
    BY <1>1 DEF ServerChanges
  <1>2. CASE Cancel
    BY <1>2 DEF Cancel
  <1>3. CASE AnswerOK
    BY <1>3 DEF AnswerOK, Answer, Response, GoodStatus
  <1>4. CASE AnswerNotModified
    BY <1>4 DEF AnswerNotModified, Answer, Response, GoodStatus
  <1>5. CASE AnswerNotFound
    BY <1>5 DEF AnswerNotFound, Answer, Response, GoodStatus
  <1>6. CASE AnswerError
    BY <1>6 DEF AnswerError, Answer, Fault, Response, BadStatus
  <1>7. CASE Exit
    BY <1>7 DEF Exit
  <1>8. CASE FetchConfig
    BY <1>8 DEF FetchConfig, computeIfNoneMatch
  <1>9. CASE FetchFails
    BY <1>9 DEF FetchFails, Fault, handleReconcileError
  <1>10. CASE RejectStatus
    BY <1>10 DEF RejectStatus, handleReconcileError
  <1>11. CASE Skip
    BY <1>11 DEF Skip
  <1>12. CASE DecodeFails
    BY <1>12 DEF DecodeFails, handleReconcileError, resetConsecutiveErrors
  <1>13. CASE StartApply
    BY <1>13, <1>a DEF StartApply, resetConsecutiveErrors
  <1>14. CASE ApplyFails
    BY <1>14 DEF ApplyFails, Fault, handleReconcileError
  <1>15. CASE ApplySucceeds
    <2>1. lastETagIsHeader' \in BOOLEAN /\ torn' \in BOOLEAN /\ lastSuccessful' \in BOOLEAN
      BY <1>15, Zenon DEF ApplySucceeds, updateSignaturesAfterSuccess, recordSyncSuccess
    <2>2. lastETag' \in ETag \cup {NoETag} /\ lastHash' \in Digest \cup {NoHash}
      BY <1>15 DEF ApplySucceeds, updateSignaturesAfterSuccess, computeHash, Representation
    <2> QED
      BY <1>15, <2>1, <2>2 DEF ApplySucceeds, recordSyncSuccess
  <1>16. CASE Wake
    BY <1>16 DEF Wake
  <1>17. ASSUME NEW p \in Phase, PhaseWrites(p) PROVE TypeOK'
    BY <1>17 DEF PhaseWrites
  <1>18. ASSUME NEW p \in Phase, PhaseDone(p) PROVE TypeOK'
    <2>1. Parse[work.body] \in Config
      BY <1>18 DEF PhaseDone, ApplyInProgress, Representation
    <2> QED
      BY <1>18, <2>1 DEF PhaseDone
  <1>19. CASE UNCHANGED vars
    BY <1>19 DEF vars
  <1>20. QED
    BY <1>1, <1>2, <1>3, <1>4, <1>5, <1>6, <1>7, <1>8, <1>9, <1>10, <1>11, <1>12,
       <1>13, <1>14, <1>15, <1>16, <1>17, <1>18, <1>19
    DEF Next, ServerAnswers, LoopStep

(***************************************************************************)
(* Every step preserves the inductive invariant.                           *)
(***************************************************************************)
LEMMA IndStep == IndInv /\ [Next]_vars => IndInv'
  <1> SUFFICES ASSUME IndInv, [Next]_vars PROVE IndInv'
    OBVIOUS
  <1> USE LoopAssumption DEF serverVars, sigVars, applyVars
  <1>t. TypeOK /\ TypeOK'
    BY TypeStep DEF IndInv
  <1> DEFINE Rest == /\ SignatureOfServed
                     /\ RequestIsCurrent
                     /\ ResponseHonest
                     /\ ApplyInProgress
                     /\ SignatureMatchesCluster
                     /\ ReadyNeedsApply
  <1>r. Rest
    BY DEF IndInv
  <1> SUFFICES Rest'
    BY <1>t DEF IndInv
  <1> USE <1>r
  <1>u. ASSUME UNCHANGED <<sigVars, cluster, torn>>
        PROVE  SignatureOfServed' /\ SignatureMatchesCluster'
    BY <1>u DEF SignatureOfServed, SignatureMatchesCluster
  <1>v. ASSUME pc' \in {"poll", "sleep", "exited"}
        PROVE  RequestIsCurrent' /\ ResponseHonest' /\ ApplyInProgress'
    BY <1>v DEF RequestIsCurrent, ResponseHonest, ApplyInProgress
  <1>1. CASE ServerChanges
    BY <1>1, <1>u DEF ServerChanges, RequestIsCurrent, ResponseHonest, ApplyInProgress,
                      ReadyNeedsApply
  <1>2. CASE Cancel
    BY <1>2, <1>u DEF Cancel, RequestIsCurrent, ResponseHonest, ApplyInProgress,
                      ReadyNeedsApply
  <1>3. ASSUME NEW r, Answer(r),
               r.status = "OK" => r.of # Gone /\ r.etag = r.of.etag /\ r.body = r.of.body,
               r.status = "NotModified" => r.of # Gone /\ inm # NoETag /\ inm = r.of.etag,
               r.status = "NotFound" => r.of = Gone
        PROVE  Rest'
    BY <1>3, <1>u DEF Answer, RequestIsCurrent, ResponseHonest, ApplyInProgress,
                      ReadyNeedsApply
  <1>4. CASE ServerAnswers
    <2>1. CASE AnswerOK
      BY <2>1, <1>3 DEF AnswerOK
    <2>2. CASE AnswerNotModified
      BY <2>2, <1>3 DEF AnswerNotModified
    <2>3. CASE AnswerNotFound
      BY <2>3, <1>3 DEF AnswerNotFound
    <2>4. CASE AnswerError
      BY <2>4, <1>3 DEF AnswerError, BadStatus
    <2> QED
      BY <1>4, <2>1, <2>2, <2>3, <2>4 DEF ServerAnswers
  <1>5. CASE Exit
    BY <1>5, <1>u, <1>v DEF Exit, ReadyNeedsApply
  <1>6. CASE FetchConfig
    <2>1. RequestIsCurrent'
      BY <1>6 DEF FetchConfig, RequestIsCurrent, computeIfNoneMatch, SignatureOfServed
    <2> QED
      BY <1>6, <2>1, <1>u DEF FetchConfig, ResponseHonest, ApplyInProgress, ReadyNeedsApply
  <1>7. CASE FetchFails
    BY <1>7, <1>u, <1>v DEF FetchFails, handleReconcileError, ReadyNeedsApply
  <1>8. CASE RejectStatus
    BY <1>8, <1>u, <1>v DEF RejectStatus, handleReconcileError, ReadyNeedsApply
  <1>9. CASE Skip
    <2>1. lastHash # NoHash
      <3>1. pc = "decide" /\ Skips(resp)
        BY <1>9 DEF Skip
      <3>2. CASE resp.status = "NotModified"
        BY <3>1, <3>2 DEF ResponseHonest, RequestIsCurrent, SignatureOfServed
      <3>3. CASE ~decideChange(Adjusted(resp).etag, Adjusted(resp).body)
        BY <3>3 DEF decideChange, decideChangeWithETag, decideChangeNoETag,
                    SignatureOfServed
      <3> QED
        BY <3>1, <3>2, <3>3 DEF Skips, Proceeds
    <2> QED
      BY <1>9, <2>1, <1>u, <1>v DEF Skip, ReadyNeedsApply
  <1>10. CASE DecodeFails
    BY <1>10, <1>u, <1>v DEF DecodeFails, handleReconcileError, ReadyNeedsApply
  <1>11. CASE StartApply
    <2>1. Proceeds(resp) /\ pc = "decide" /\ work' = Adjusted(resp) /\ done' = {}
      BY <1>11 DEF StartApply
    <2>2. Adjusted(resp) \in Served
      <3>1. CASE resp.status = "NotFound"
        BY <3>1 DEF Adjusted, Served, Effective
      <3>2. CASE resp.status = "OK"
        <4>1. resp.of \in Version /\ Adjusted(resp) = resp.of
          BY <3>2, <2>1, <1>t DEF TypeOK, Response, ResponseHonest, Adjusted, Representation
        <4> QED
          BY <4>1 DEF Served, Effective
      <3> QED
        BY <2>1, <3>1, <3>2 DEF Proceeds, Acceptable, GoodStatus
    <2>3. computeHash(Adjusted(resp).body) # lastHash
      <3>1. computeHash(Adjusted(resp).body) # NoHash
        BY <2>2, ServedTyped DEF computeHash, Representation
      <3> QED
        BY <2>1, <3>1 DEF Proceeds, decideChange, decideChangeWithETag, decideChangeNoETag
    <2>4. ApplyInProgress'
      BY <1>11, <2>1, <2>2, <2>3 DEF StartApply, ApplyInProgress, computeHash
    <2>5. SignatureMatchesCluster'
      BY <1>11 DEF StartApply, SignatureMatchesCluster
    <2> QED
      BY <1>11, <2>4, <2>5 DEF StartApply, SignatureOfServed, RequestIsCurrent,
                               ResponseHonest, ReadyNeedsApply
  <1>12. ASSUME NEW p \in Phase, PhaseWrites(p) PROVE Rest'
    <2>1. ApplyInProgress'
      BY <1>12, <1>t DEF PhaseWrites, ApplyInProgress, TypeOK, computeHash
    <2>2. SignatureMatchesCluster'
      BY <1>12 DEF PhaseWrites, ApplyInProgress, SignatureMatchesCluster
    <2> QED
      BY <1>12, <2>1, <2>2 DEF PhaseWrites, SignatureOfServed, RequestIsCurrent,
                               ResponseHonest, ReadyNeedsApply
  <1>13. ASSUME NEW p \in Phase, PhaseDone(p) PROVE Rest'
    <2>1. ApplyInProgress'
      BY <1>13, <1>t DEF PhaseDone, ApplyInProgress, TypeOK, computeHash
    <2>2. SignatureMatchesCluster'
      BY <1>13 DEF PhaseDone, ApplyInProgress, SignatureMatchesCluster
    <2> QED
      BY <1>13, <2>1, <2>2 DEF PhaseDone, SignatureOfServed, RequestIsCurrent,
                               ResponseHonest, ReadyNeedsApply
  <1>14. CASE ApplyFails
    BY <1>14, <1>u, <1>v DEF ApplyFails, handleReconcileError, ReadyNeedsApply
  <1>15. CASE ApplySucceeds
    <2>1. /\ work \in Served
          /\ lastHash' = Hash[work.body]
          /\ lastETag' = work.etag
          /\ cluster' = cluster
          /\ \A p \in Phase : cluster[p] = Parse[work.body]
      BY <1>15 DEF ApplySucceeds, AllPhasesCompleted, updateSignaturesAfterSuccess,
                   computeHash, ApplyInProgress
    <2>2. lastHash' # NoHash
      BY <2>1, ServedTyped DEF Representation
    <2>3. SignatureMatchesCluster'
      BY <2>1, ServedTyped DEF SignatureMatchesCluster, Representation
    <2>4. lastETagIsHeader' = (lastETag' # NoETag)
      BY <1>15, Zenon DEF ApplySucceeds, updateSignaturesAfterSuccess
    <2>5. SignatureOfServed'
      BY <2>1, <2>2, <2>4 DEF SignatureOfServed
    <2> QED
      BY <1>15, <2>2, <2>3, <2>5, <1>v DEF ApplySucceeds, ReadyNeedsApply
  <1>16. CASE Wake
    BY <1>16, <1>u, <1>v DEF Wake, ReadyNeedsApply
  <1>17. CASE UNCHANGED vars
    BY <1>17, <1>u DEF vars, RequestIsCurrent, ResponseHonest, ApplyInProgress,
                       ReadyNeedsApply, computeHash
  <1>18. QED
    BY <1>1, <1>2, <1>4, <1>5, <1>6, <1>7, <1>8, <1>9, <1>10, <1>11, <1>12,
       <1>13, <1>14, <1>15, <1>16, <1>17
    DEF Next, LoopStep

(***************************************************************************)
(* Skipping is safe in every state of the invariant: a 304 answers the     *)
(* stored ETag, and that ETag, or the stored hash, belongs to the          *)
(* configuration the cluster holds.                                        *)
(***************************************************************************)
LEMMA IndImpliesSkipIsSafe == IndInv => SkipIsSafe
  <1> SUFFICES ASSUME IndInv, pc = "decide", Skips(resp), ~torn, NEW p \in Phase
               PROVE  cluster[p] = Parse[Effective(resp.of).body]
    BY DEF SkipIsSafe
  <1> USE LoopAssumption DEF IndInv
  <1> DEFINE answered == Effective(resp.of)
  <1>1. answered \in Served
    BY DEF TypeOK, Response, Served
  <1>2. lastETag # NoETag => lastHash # NoHash
    BY DEF SignatureOfServed
  <1>3. ASSUME lastETag # NoETag, lastETag = answered.etag
        PROVE  cluster[p] = Parse[answered.body]
    <2>1. PICK v \in Served : lastHash = Hash[v.body] /\ lastETag = v.etag
      BY <1>2, <1>3 DEF SignatureOfServed
    <2>2. Parse[v.body] = Parse[answered.body]
      BY <1>1, <1>3, <2>1, ServedContract
    <2>3. cluster[p] = Parse[v.body]
      BY <2>1, ServedTyped DEF SignatureMatchesCluster, Representation
    <2> QED
      BY <2>2, <2>3
  <1>4. ASSUME lastHash = Hash[answered.body]
        PROVE  cluster[p] = Parse[answered.body]
    BY <1>1, <1>4, ServedTyped DEF SignatureMatchesCluster, Representation
  <1>5. CASE resp.status = "NotModified"
    BY <1>5, <1>3 DEF ResponseHonest, RequestIsCurrent, Effective
  <1>6. CASE resp.status # "NotModified"
    <2>1. ~decideChange(Adjusted(resp).etag, Adjusted(resp).body)
      BY <1>6 DEF Skips, Proceeds
    <2>2. Adjusted(resp).etag = answered.etag /\ Adjusted(resp).body = answered.body
      BY <1>6 DEF Skips, Acceptable, GoodStatus, ResponseHonest, Adjusted, Effective
    <2>3. \/ answered.etag # NoETag /\ answered.etag = lastETag
          \/ Hash[answered.body] = lastHash
      BY <2>1, <2>2 DEF decideChange, decideChangeWithETag, decideChangeNoETag, computeHash
    <2> QED
      BY <2>3, <1>3, <1>4
  <1> QED
    BY <1>5, <1>6

-----------------------------------------------------------------------------
(* The inductive invariant holds in every reachable state. *)
THEOREM Invariance == Spec => []IndInv
  BY InitInd, IndStep, PTL DEF Spec

(* Every variable of the loop keeps its type. *)
THEOREM TypeCorrect == Spec => []TypeOK
  <1>1. IndInv => TypeOK
    BY DEF IndInv
  <1> QED
    BY <1>1, Invariance, PTL

(***************************************************************************)
(* Change detection never skips a configuration the cluster does not hold, *)
(* unless an apply was torn; for every endpoint that keeps the validator   *)
(* contract.                                                               *)
(***************************************************************************)
THEOREM SkipSafety == Spec => []SkipIsSafe
  BY Invariance, IndImpliesSkipIsSafe, PTL

(* The stored hash tells what the cluster holds. *)
THEOREM SignatureSafety == Spec => []SignatureMatchesCluster
  <1>1. IndInv => SignatureMatchesCluster
    BY DEF IndInv
  <1> QED
    BY <1>1, Invariance, PTL

(* No configuration is applied twice in a row. *)
THEOREM NoRedundancy == Spec => []NoRedundantApply
  <1>1. IndInv => NoRedundantApply
    BY DEF IndInv, ApplyInProgress, NoRedundantApply
  <1> QED
    BY <1>1, Invariance, PTL

(* A controller that never applied a configuration is never ready. *)
THEOREM ReadinessSafety == Spec => []ReadyNeedsApply
  <1>1. IndInv => ReadyNeedsApply
    BY DEF IndInv
  <1> QED
    BY <1>1, Invariance, PTL

-----------------------------------------------------------------------------
(***************************************************************************)
(* The error counter against the outcomes of the iterations, at every      *)
(* control point: while an apply is under way the counter has been reset.  *)
(***************************************************************************)
ErrorsTrackOutcomes ==
    IF pc = "apply"
    THEN consecutiveErrors = 0
    ELSE /\ consecutiveErrors = 0 <=> failures = 0
         /\ consecutiveErrors > 1 => failures = 2

(* The loop sleeps the poll interval after good iterations only. *)
THEOREM BackoffSafety == Spec => []BackoffMatchesOutcome
  <1>1. Init => ErrorsTrackOutcomes
    BY DEF Init, ErrorsTrackOutcomes
  <1>2. TypeOK /\ ErrorsTrackOutcomes /\ [Next]_vars => ErrorsTrackOutcomes'
    <2> SUFFICES ASSUME TypeOK, ErrorsTrackOutcomes, [Next]_vars
                 PROVE  ErrorsTrackOutcomes'
      OBVIOUS
    <2> USE DEF TypeOK, ErrorsTrackOutcomes
    <2>1. ASSUME NEW e \in Nat, handleReconcileError(e), e > 0 => failures > 0
          PROVE  ErrorsTrackOutcomes'
      BY <2>1 DEF handleReconcileError
    <2>2. CASE FetchFails
      BY <2>2, <2>1 DEF FetchFails
    <2>3. CASE RejectStatus
      BY <2>3, <2>1 DEF RejectStatus
    <2>4. CASE DecodeFails
      BY <2>4, <2>1 DEF DecodeFails, resetConsecutiveErrors
    <2>5. CASE ApplyFails
      BY <2>5, <2>1 DEF ApplyFails
    <2>6. CASE Skip \/ StartApply \/ ApplySucceeds
      BY <2>6 DEF Skip, StartApply, resetConsecutiveErrors, ApplySucceeds, recordSyncSuccess
    <2>7. CASE ServerAnswers
      BY <2>7 DEF ServerAnswers, AnswerOK, AnswerNotModified, AnswerNotFound, AnswerError,
                  Answer
    <2>8. CASE ServerChanges \/ Cancel \/ Exit \/ FetchConfig \/ Wake
      BY <2>8 DEF ServerChanges, Cancel, Exit, FetchConfig, Wake
    <2>9. CASE \E p \in Phase : PhaseWrites(p) \/ PhaseDone(p)
      BY <2>9 DEF PhaseWrites, PhaseDone
    <2>10. CASE UNCHANGED vars
      BY <2>10 DEF vars
    <2> QED
      BY <2>2, <2>3, <2>4, <2>5, <2>6, <2>7, <2>8, <2>9, <2>10 DEF Next, LoopStep
  <1>3. ErrorsTrackOutcomes => BackoffMatchesOutcome
    BY DEF ErrorsTrackOutcomes, BackoffMatchesOutcome
  <1> QED
    BY <1>1, <1>2, <1>3, TypeCorrect, PTL DEF Spec

=============================================================================
