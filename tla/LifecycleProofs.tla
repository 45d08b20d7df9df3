--------------------------- MODULE LifecycleProofs ---------------------------
(***************************************************************************)
(* Proofs about Lifecycle for any set of replicas, with and without leader *)
(* election and for both ON_LOSE behaviours.  The inductive invariant says *)
(* who holds the lease while somebody leads and, of each process: a loop   *)
(* with a live context is led, an ended process has no elector and no      *)
(* monitor, and a lost leadership is on record until the process has       *)
(* returned.                                                               *)
(***************************************************************************)
EXTENDS Lifecycle, TLAPS

LeaderHolds == \A r \in Replica : rep[r].elect = "leading" => holder = r

LoopIsLed(p) ==
    p.cfg.leader /\ p.loop # "off" /\ ~p.ldone => p.elect \in {"leading", "stopping"}

NotElecting(p) == ~p.cfg.leader => p.elect = "off"

EndedIsQuiet(p) ==
    /\ p.main \in {"starting", "returned"} => p.mon = "off" /\ p.elect = "off"
    /\ p.result # "none" => p.main = "returned"

LossRecorded(p) ==
    p.lost => \/ p.main = "returned"
              \/ p.elect = "stopping"
              \/ p.elect = "over" /\ (p.exitReq \/ p.cfg.onLose = "pause")

NilIsClean(p) == p.result = "nil" => ~p.err /\ (p.lost => p.cfg.onLose = "pause")

ProcessInv(p) ==
    /\ p \in Process
    /\ LoopIsLed(p)
    /\ NotElecting(p)
    /\ EndedIsQuiet(p)
    /\ LossRecorded(p)
    /\ NilIsClean(p)

IndInv ==
    /\ TypeOK
    /\ LeaderHolds
    /\ \A r \in Replica : ProcessInv(rep[r])

USE DEF ProcessInv

(* A new process satisfies the per-process invariant. *)
LEMMA NewProcessInv == \A c \in Settings : ProcessInv(NewProcess(c))
  BY LifecycleAssumption DEF NewProcess, Process, LoopIsLed, NotElecting, EndedIsQuiet, LossRecorded, NilIsClean

(* The initial state has new processes and a free lease. *)
LEMMA InitInd == Init => IndInv
  <1> SUFFICES ASSUME Init PROVE IndInv
    OBVIOUS
  <1> PICK c \in Settings : rep = [r \in Replica |-> NewProcess(c)]
    BY DEF Init
  <1>1. \A r \in Replica : rep[r] = NewProcess(c)
    OBVIOUS
  <1>2. TypeOK
    BY NewProcessInv, LifecycleAssumption DEF Init, TypeOK
  <1>3. LeaderHolds
    BY <1>1 DEF NewProcess, LeaderHolds
  <1> QED
    BY <1>1, <1>2, <1>3, NewProcessInv DEF IndInv

(***************************************************************************)
(* A step of replica r that replaces its process by p keeps the invariant  *)
(* if p satisfies its part, the counters stay typed, and the lease moves   *)
(* only as a leader may expect.                                            *)
(***************************************************************************)
LEMMA Replace ==
    ASSUME IndInv, NEW r \in Replica, NEW p,
           rep' = [rep EXCEPT ![r] = p],
           ProcessInv(p),
           losses' \in 0..MaxLosses, faults' \in 0..MaxFaults, restarts' \in 0..MaxRestarts,
           holder' = holder \/ holder' = r \/ holder = r,
           holder' \in Replica \cup {NoOne},
           holder' # holder /\ holder' = r => holder = NoOne,
           p.elect = "leading" => holder' = r
    PROVE  IndInv'
  <1>1. rep'[r] = p /\ \A s \in Replica : s # r => rep'[s] = rep[s]
    BY DEF IndInv, TypeOK
  <1>2. TypeOK'
    BY DEF IndInv, TypeOK
  <1>3. LeaderHolds'
    <2> SUFFICES ASSUME NEW s \in Replica, rep'[s].elect = "leading" PROVE holder' = s
      BY DEF LeaderHolds
    <2>1. CASE s = r
      BY <2>1, <1>1
    <2>2. CASE s # r
      <3>1. holder = s
        BY <2>2, <1>1 DEF IndInv, LeaderHolds
      <3> QED
        BY <3>1, <2>2, LifecycleAssumption
    <2> QED
      BY <2>1, <2>2
  <1>4. \A s \in Replica : ProcessInv(rep[s])'
    BY <1>1 DEF IndInv
  <1> QED
    BY <1>2, <1>3, <1>4 DEF IndInv

(* Every step of every replica preserves the invariant. *)
LEMMA IndStep == IndInv /\ [Next]_vars => IndInv'
  <1> SUFFICES ASSUME IndInv, [Next]_vars PROVE IndInv'
    OBVIOUS
  <1> USE LifecycleAssumption
  <1>1. CASE UNCHANGED vars
    BY <1>1 DEF vars, IndInv, TypeOK, LeaderHolds
  <1>2. CASE Next
    <2> PICK r \in Replica :
          \/ Start(r) \/ StartFails(r) \/ Signal(r) \/ HTTPFails(r)
          \/ MonitorFails(r) \/ MonitorReturns(r)
          \/ Election(r) \/ LeaseExpires(r)
          \/ Loop(r) \/ GraceDelete(r)
          \/ Shutdown(r) \/ Return(r) \/ Crash(r) \/ Restart(r)
      BY <1>2 DEF Next
    <2> DEFINE q == rep[r]
    <2>0. /\ rep \in [Replica -> Process] /\ ProcessInv(q)
          /\ holder \in Replica \cup {NoOne}
          /\ losses \in 0..MaxLosses /\ faults \in 0..MaxFaults /\ restarts \in 0..MaxRestarts
          /\ q.elect = "leading" => holder = r
      BY DEF IndInv, TypeOK, LeaderHolds
    <2>1. CASE Start(r)
      <3> PICK m \in {"off", "running"} :
            rep' = [rep EXCEPT ![r].main = "running",
                               ![r].http = "serving",
                               ![r].mon = m,
                               ![r].elect = IF LeaderEnabled(r) THEN "acquiring" ELSE "off",
                               ![r].loop = IF LeaderEnabled(r) THEN "off" ELSE "waiting"]
        BY <2>1 DEF Start
      <3> DEFINE p == [q EXCEPT !.main = "running", !.http = "serving", !.mon = m,
                                !.elect = IF LeaderEnabled(r) THEN "acquiring" ELSE "off",
                                !.loop = IF LeaderEnabled(r) THEN "off" ELSE "waiting"]
      <3>1. rep' = [rep EXCEPT ![r] = p]
        BY <2>0
      <3>2. ProcessInv(p) /\ p.elect # "leading"
        BY <2>0, <2>1 DEF Start, LeaderEnabled, Process, LoopIsLed, NotElecting, EndedIsQuiet,
                          LossRecorded, NilIsClean
      <3> HIDE DEF p, ProcessInv
      <3> QED
        BY <3>1, <3>2, <2>0, <2>1, Replace DEF Start
    <2>2. CASE StartFails(r)
      <3> DEFINE p == [q EXCEPT !.main = "returned", !.result = "error", !.err = TRUE]
      <3>1. rep' = [rep EXCEPT ![r] = p]
        BY <2>0, <2>2 DEF StartFails, Fault
      <3>2. ProcessInv(p) /\ (p.elect = "leading" => holder' = r)
        BY <2>0, <2>2 DEF StartFails, Fault, Process, LoopIsLed, NotElecting, EndedIsQuiet,
                          LossRecorded, NilIsClean
      <3>3. /\ losses' \in 0..MaxLosses /\ faults' \in 0..MaxFaults /\ restarts' \in 0..MaxRestarts
            /\ holder' = holder
        BY <2>0, <2>2 DEF StartFails, Fault
      <3> HIDE DEF p, ProcessInv
      <3> QED
        BY <3>1, <3>2, <3>3, <2>0, Replace
    <2>3. CASE Signal(r)
      <3> DEFINE p == [q EXCEPT !.gdone = TRUE]
      <3>1. rep' = [rep EXCEPT ![r] = p]
        BY <2>0, <2>3 DEF Signal, Alive
      <3>2. ProcessInv(p) /\ (p.elect = "leading" => holder' = r)
        BY <2>0, <2>3 DEF Signal, Alive, Process, LoopIsLed, NotElecting, EndedIsQuiet,
                          LossRecorded, NilIsClean
      <3> HIDE DEF p, ProcessInv
      <3> QED
        BY <3>1, <3>2, <2>0, <2>3, Replace DEF Signal
    <2>4. CASE HTTPFails(r)
      <3> DEFINE p == [q EXCEPT !.http = "down", !.err = TRUE, !.gdone = TRUE]
      <3>1. rep' = [rep EXCEPT ![r] = p]
        BY <2>0, <2>4 DEF HTTPFails, Alive, Fault
      <3>2. ProcessInv(p) /\ (p.elect = "leading" => holder' = r)
        BY <2>0, <2>4 DEF HTTPFails, Alive, Fault, Process, LoopIsLed, NotElecting, EndedIsQuiet,
                          LossRecorded, NilIsClean
      <3>3. /\ losses' \in 0..MaxLosses /\ faults' \in 0..MaxFaults /\ restarts' \in 0..MaxRestarts
            /\ holder' = holder
        BY <2>0, <2>4 DEF HTTPFails, Fault
      <3> HIDE DEF p, ProcessInv
      <3> QED
        BY <3>1, <3>2, <3>3, <2>0, Replace
    <2>5. CASE MonitorFails(r)
      <3> DEFINE p == [q EXCEPT !.mon = "off", !.err = TRUE, !.gdone = TRUE]
      <3>1. rep' = [rep EXCEPT ![r] = p]
        BY <2>0, <2>5 DEF MonitorFails, Fault
      <3>2. ProcessInv(p) /\ (p.elect = "leading" => holder' = r)
        BY <2>0, <2>5 DEF MonitorFails, Fault, Process, LoopIsLed, NotElecting, EndedIsQuiet,
                          LossRecorded, NilIsClean
      <3>3. /\ losses' \in 0..MaxLosses /\ faults' \in 0..MaxFaults /\ restarts' \in 0..MaxRestarts
            /\ holder' = holder
        BY <2>0, <2>5 DEF MonitorFails, Fault
      <3> HIDE DEF p, ProcessInv
      <3> QED
        BY <3>1, <3>2, <3>3, <2>0, Replace
    <2>6. CASE MonitorReturns(r)
      <3> DEFINE p == [q EXCEPT !.mon = "off"]
      <3>1. rep' = [rep EXCEPT ![r] = p]
        BY <2>0, <2>6 DEF MonitorReturns
      <3>2. ProcessInv(p) /\ (p.elect = "leading" => holder' = r)
        BY <2>0, <2>6 DEF MonitorReturns, Process, LoopIsLed, NotElecting, EndedIsQuiet,
                          LossRecorded, NilIsClean
      <3> HIDE DEF p, ProcessInv
      <3> QED
        BY <3>1, <3>2, <2>0, <2>6, Replace DEF MonitorReturns
    <2>7. CASE Acquire(r)
      <3> DEFINE p == [q EXCEPT !.elect = "leading", !.loop = "waiting"]
      <3>1. rep' = [rep EXCEPT ![r] = p]
        BY <2>0, <2>7 DEF Acquire
      <3>2. ProcessInv(p) /\ (p.elect = "leading" => holder' = r)
        BY <2>0, <2>7 DEF Acquire, Process, LoopIsLed, NotElecting, EndedIsQuiet,
                          LossRecorded, NilIsClean
      <3> HIDE DEF p, ProcessInv
      <3> QED
        BY <3>1, <3>2, <2>0, <2>7, Replace DEF Acquire
    <2>8. CASE AcquireCancelled(r)
      <3> DEFINE p == handleLeadershipLoss(q)
      <3>1. rep' = [rep EXCEPT ![r] = p]
        BY <2>0, <2>8 DEF AcquireCancelled, GivesUp, handleLeadershipLoss
      <3>2. ProcessInv(p) /\ (p.elect = "leading" => holder' = r)
        BY <2>0, <2>8 DEF AcquireCancelled, GivesUp, handleLeadershipLoss, Process, LoopIsLed, NotElecting, EndedIsQuiet,
                          LossRecorded, NilIsClean
      <3> HIDE DEF p, ProcessInv
      <3> QED
        BY <3>1, <3>2, <2>0, <2>8, Replace DEF AcquireCancelled
    <2>9. CASE RenewEnds(r)
      <3> DEFINE p == [q EXCEPT !.elect = "stopping", !.lost = ~q.gdone]
      <3>1. rep' = [rep EXCEPT ![r] = p]
        BY <2>0, <2>9 DEF RenewEnds
      <3>2. ProcessInv(p) /\ (p.elect = "leading" => holder' = r)
        BY <2>0, <2>9 DEF RenewEnds, Process, LoopIsLed, NotElecting, EndedIsQuiet,
                          LossRecorded, NilIsClean
      <3>3. /\ losses' \in 0..MaxLosses /\ faults' \in 0..MaxFaults /\ restarts' \in 0..MaxRestarts
            /\ holder' \in {NoOne, r} /\ holder = r
        BY <2>0, <2>9 DEF RenewEnds
      <3> HIDE DEF p, ProcessInv
      <3> QED
        BY <3>1, <3>2, <3>3, <2>0, Replace
    <2>10. CASE StopLeading(r)
      <3> DEFINE p == handleLeadershipLoss(q)
      <3>1. rep' = [rep EXCEPT ![r] = p]
        BY <2>0, <2>10 DEF StopLeading, handleLeadershipLoss
      <3>2. ProcessInv(p) /\ (p.elect = "leading" => holder' = r)
        BY <2>0, <2>10 DEF StopLeading, handleLeadershipLoss, Process, LoopIsLed, NotElecting, EndedIsQuiet,
                          LossRecorded, NilIsClean
      <3> HIDE DEF p, ProcessInv
      <3> QED
        BY <3>1, <3>2, <2>0, <2>10, Replace DEF StopLeading
    <2>11. CASE BeginApply(r)
      <3> DEFINE p == [q EXCEPT !.loop = "applying"]
      <3>1. rep' = [rep EXCEPT ![r] = p]
        BY <2>0, <2>11 DEF BeginApply, LoopCtxDone, LeaderEnabled
      <3>2. ProcessInv(p) /\ (p.elect = "leading" => holder' = r)
        BY <2>0, <2>11 DEF BeginApply, LoopCtxDone, LeaderEnabled, Process, LoopIsLed, NotElecting, EndedIsQuiet,
                          LossRecorded, NilIsClean
      <3> HIDE DEF p, ProcessInv
      <3> QED
        BY <3>1, <3>2, <2>0, <2>11, Replace DEF BeginApply
    <2>12. CASE EndApply(r)
      <3> DEFINE p == [q EXCEPT !.loop = "waiting"]
      <3>1. rep' = [rep EXCEPT ![r] = p]
        BY <2>0, <2>12 DEF EndApply
      <3>2. ProcessInv(p) /\ (p.elect = "leading" => holder' = r)
        BY <2>0, <2>12 DEF EndApply, Process, LoopIsLed, NotElecting, EndedIsQuiet,
                          LossRecorded, NilIsClean
      <3> HIDE DEF p, ProcessInv
      <3> QED
        BY <3>1, <3>2, <2>0, <2>12, Replace DEF EndApply
    <2>13. CASE LoopExits(r)
      <3> DEFINE p == [q EXCEPT !.loop = "off"]
      <3>1. rep' = [rep EXCEPT ![r] = p]
        BY <2>0, <2>13 DEF LoopExits, LoopCtxDone, LeaderEnabled
      <3>2. ProcessInv(p) /\ (p.elect = "leading" => holder' = r)
        BY <2>0, <2>13 DEF LoopExits, LoopCtxDone, LeaderEnabled, Process, LoopIsLed, NotElecting, EndedIsQuiet,
                          LossRecorded, NilIsClean
      <3> HIDE DEF p, ProcessInv
      <3> QED
        BY <3>1, <3>2, <2>0, <2>13, Replace DEF LoopExits
    <2>14. CASE GraceDelete(r)
      <3> DEFINE p == [q EXCEPT !.grace = FALSE]
      <3>1. rep' = [rep EXCEPT ![r] = p]
        BY <2>0, <2>14 DEF GraceDelete
      <3>2. ProcessInv(p) /\ (p.elect = "leading" => holder' = r)
        BY <2>0, <2>14 DEF GraceDelete, Process, LoopIsLed, NotElecting, EndedIsQuiet,
                          LossRecorded, NilIsClean
      <3> HIDE DEF p, ProcessInv
      <3> QED
        BY <3>1, <3>2, <2>0, <2>14, Replace DEF GraceDelete
    <2>15. CASE Shutdown(r)
      <3> DEFINE p == [q EXCEPT !.main = "draining", !.http = "down"]
      <3>1. rep' = [rep EXCEPT ![r] = p]
        BY <2>0, <2>15 DEF Shutdown
      <3>2. ProcessInv(p) /\ (p.elect = "leading" => holder' = r)
        BY <2>0, <2>15 DEF Shutdown, Process, LoopIsLed, NotElecting, EndedIsQuiet,
                          LossRecorded, NilIsClean
      <3> HIDE DEF p, ProcessInv
      <3> QED
        BY <3>1, <3>2, <2>0, <2>15, Replace DEF Shutdown
    <2>16. CASE Return(r)
      <3> DEFINE p == Ended(q, ReturnValue(q))
      <3>1. rep' = [rep EXCEPT ![r] = p]
        BY <2>0, <2>16 DEF Return, GroupReturned, ElectionReturned, LeaderEnabled, Ended, ReturnValue
      <3>2. ProcessInv(p) /\ (p.elect = "leading" => holder' = r)
        BY <2>0, <2>16 DEF Return, GroupReturned, ElectionReturned, LeaderEnabled, Ended, ReturnValue, Process, LoopIsLed, NotElecting, EndedIsQuiet,
                          LossRecorded, NilIsClean
      <3> HIDE DEF p, ProcessInv
      <3> QED
        BY <3>1, <3>2, <2>0, <2>16, Replace DEF Return
    <2>17. CASE Crash(r)
      <3> DEFINE p == Ended(q, "crash")
      <3>1. rep' = [rep EXCEPT ![r] = p]
        BY <2>0, <2>17 DEF Crash, Alive, Fault, Ended
      <3>2. ProcessInv(p) /\ (p.elect = "leading" => holder' = r)
        BY <2>0, <2>17 DEF Crash, Alive, Fault, Ended, Process, LoopIsLed, NotElecting, EndedIsQuiet,
                          LossRecorded, NilIsClean
      <3>3. /\ losses' \in 0..MaxLosses /\ faults' \in 0..MaxFaults /\ restarts' \in 0..MaxRestarts
            /\ holder' = holder
        BY <2>0, <2>17 DEF Crash, Fault
      <3> HIDE DEF p, ProcessInv
      <3> QED
        BY <3>1, <3>2, <3>3, <2>0, Replace
    <2>18. CASE Restart(r)
      <3> DEFINE p == NewProcess(q.cfg)
      <3>1. rep' = [rep EXCEPT ![r] = p]
        BY <2>0, <2>18 DEF Restart, NewProcess
      <3>2. ProcessInv(p) /\ (p.elect = "leading" => holder' = r)
        <4>1. q.cfg \in Settings
          BY <2>0 DEF Process
        <4>2. ProcessInv(p)
          BY <4>1, NewProcessInv
        <4> QED
          BY <4>2 DEF NewProcess
      <3>3. /\ losses' \in 0..MaxLosses /\ faults' \in 0..MaxFaults /\ restarts' \in 0..MaxRestarts
            /\ holder' = holder
        BY <2>0, <2>18 DEF Restart
      <3> HIDE DEF p, ProcessInv
      <3> QED
        BY <3>1, <3>2, <3>3, <2>0, Replace
    <2>19. CASE \E g \in BOOLEAN : LoopWrites(r, g)
      <3> PICK g \in BOOLEAN : LoopWrites(r, g)
        BY <2>19
      <3> DEFINE p == [q EXCEPT !.grace = @ \/ g]
      <3>1. rep' = [rep EXCEPT ![r] = p]
        BY <2>0 DEF LoopWrites
      <3>2. ProcessInv(p) /\ (p.elect = "leading" => holder' = r)
        BY <2>0 DEF LoopWrites, Process, LoopIsLed, NotElecting, EndedIsQuiet,
                          LossRecorded, NilIsClean
      <3> HIDE DEF p, ProcessInv
      <3> QED
        BY <3>1, <3>2, <2>0, Replace DEF LoopWrites
    <2>20. CASE LeaseExpires(r)
      BY <2>0, <2>20 DEF LeaseExpires, RunsOut, IndInv, TypeOK, LeaderHolds
    <2> QED
      BY <2>1, <2>2, <2>3, <2>4, <2>5, <2>6, <2>7, <2>8, <2>9, <2>10, <2>11, <2>12, <2>13, <2>14, <2>15, <2>16, <2>17, <2>18, <2>19, <2>20 DEF Election, Loop
  <1> QED
    BY <1>1, <1>2

(* The inductive invariant holds in every reachable state. *)
THEOREM Invariance == Spec => []IndInv
  BY InitInd, IndStep, PTL DEF Spec

(* The states of the replicas and the lease are well typed. *)
THEOREM TypeCorrect == Spec => []TypeOK
  <1>1. IndInv => TypeOK
    BY DEF IndInv
  <1> QED
    BY Invariance, <1>1, PTL

(***************************************************************************)
(* With any number of replicas, a loop writes beside another replica's     *)
(* leadership only between the release of its lease and the cancellation   *)
(* of its context (RunLeaderElection, OnStoppedLeading).                   *)
(***************************************************************************)
THEOREM HandoverSafety == Spec => []OverlapOnlyInHandover
  <1>1. IndInv => OverlapOnlyInHandover
    BY DEF IndInv, LeaderHolds, LoopIsLed, OverlapOnlyInHandover, LoopMayWrite, LoopCtxDone, LeaderEnabled
  <1> QED
    BY Invariance, <1>1, PTL

(***************************************************************************)
(* runController returns nil only if no group member failed and, under     *)
(* ON_LOSE=exit, no leadership was lost.                                   *)
(***************************************************************************)
THEOREM NilSafety == Spec => []NilMeansClean
  <1>1. IndInv => NilMeansClean
    BY DEF IndInv, NilIsClean, NilMeansClean
  <1> QED
    BY Invariance, <1>1, PTL

=============================================================================
