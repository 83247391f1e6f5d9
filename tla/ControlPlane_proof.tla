------------------------- MODULE ControlPlane_proof -------------------------
(* Proofs about ControlPlane, for every set of runs and every bound.        *)
EXTENDS ControlPlane, FiniteSetTheorems, TLAPS

-----------------------------------------------------------------------------
(* Rows and records                                                         *)

Statuses == CONTROL_STATUSES \cup {"absent", "deleted"}

\* Every assignment the actions make to a row leaves a row.
LEMMA RowEdits ==
  ASSUME NEW f \in [Runs -> Rows], NEW r \in Runs
  PROVE  /\ [f EXCEPT ![r].pid = TRUE] \in [Runs -> Rows]
         /\ [f EXCEPT ![r].cancel = TRUE] \in [Runs -> Rows]
         /\ \A i \in INFRASTRUCTURE_STATES : [f EXCEPT ![r].infra = i] \in [Runs -> Rows]
         /\ \A s \in Statuses : /\ [f EXCEPT ![r].status = s] \in [Runs -> Rows]
                               /\ [f EXCEPT ![r].status = s, ![r].cancel = TRUE] \in [Runs -> Rows]
                               /\ \A i \in INFRASTRUCTURE_STATES :
                                    [f EXCEPT ![r].status = s, ![r].infra = i] \in [Runs -> Rows]
  BY DEF Rows, Statuses

\* The record of a cleaned run is a record.
LEMMA RecordEdits ==
  ASSUME NEW f \in [Runs -> Records], NEW r \in Runs
  PROVE  [f EXCEPT ![r].cleanup = "deleted", ![r].infra = "pod_deleted"] \in [Runs -> Records]
  BY DEF Records, CLEANUPS, INFRASTRUCTURE_STATES

\* The row of a run that is not submitted, or was deleted, is a row.
LEMMA AbsentRows ==
  AbsentRow \in Rows /\ [AbsentRow EXCEPT !.status = "deleted"] \in Rows
  BY DEF AbsentRow, Rows, INFRASTRUCTURE_STATES

\* The absent record is a record, and a record shows an infrastructure state.
LEMMA RecordFacts ==
  /\ NoRecord \in Records
  /\ \A record \in Records : InfrastructureState(record) \in INFRASTRUCTURE_STATES
  BY DEF NoRecord, Records, CLEANUPS, INFRASTRUCTURE_STATES, InfrastructureState

\* What _reconcile_task writes is a status.
LEMMA VerdictType ==
  ASSUME NEW row \in Rows, NEW record \in Records, NEW e, NEW a, NEW current \in Statuses
  PROVE  Verdict(row, record, e, a, current) \in Statuses
  BY DEF Verdict, Statuses, CONTROL_STATUSES, TERMINAL_STATUSES

-----------------------------------------------------------------------------
(* Type correctness                                                         *)

\* The initial state is well typed.
LEMMA TypeInit == Init => TypeOK
  BY RunsAssumption, CrashAssumption, AbsentRows, RecordFacts
  DEF Init, TypeOK, LoopSteps, OpSteps, Idle, Processes, Unborn

\* Requests keep the types.
LEMMA TypeRequests ==
  ASSUME TypeOK, NEW r \in Runs,
         Submit(r) \/ CancelRead(r) \/ CancelQueued(r) \/ CancelMark(r) \/ CancelSignal(r)
  PROVE  TypeOK'
<1> USE DEF TypeOK, loopVars, opVars, ctlVars
<1>1. CASE Submit(r)
  <2>1. rows' \in [Runs -> Rows]
    BY <1>1, RowEdits, AbsentRows DEF Submit, Statuses, CONTROL_STATUSES
  <2>2. queue' \in Seq(Runs)
    BY <1>1 DEF Submit
  <2> QED
    BY <1>1, <2>1, <2>2 DEF Submit
<1>2. CASE CancelRead(r)
  BY <1>2 DEF CancelRead
<1>3. CASE CancelQueued(r)
  <2>1. rows' \in [Runs -> Rows]
    BY <1>3, RowEdits, AbsentRows DEF CancelQueued, Statuses, CONTROL_STATUSES
  <2> QED
    BY <1>3, <2>1 DEF CancelQueued
<1>4. CASE CancelMark(r)
  <2>1. rows' \in [Runs -> Rows]
    <3>1. [rows EXCEPT ![r].cancel = TRUE] \in [Runs -> Rows]
      BY RowEdits
    <3> QED
      BY <1>4, <3>1 DEF CancelMark
  <2> QED
    BY <1>4, <2>1 DEF CancelMark
<1>5. CASE CancelSignal(r)
  <2>1. ctl' \in [Runs -> Processes]
    BY <1>5 DEF CancelSignal, Interrupt, AfterInterrupt, Processes, Unborn
  <2> QED
    BY <1>5, <2>1 DEF CancelSignal, Interrupt
<1> QED
  BY <1>1, <1>2, <1>3, <1>4, <1>5

\* The loop thread keeps the types.
LEMMA TypeLoop ==
  ASSUME TypeOK, LoopNext
  PROVE  TypeOK'
<1> USE RunsAssumption DEF TypeOK, opVars, ctlVars, LoopKeeps, LoopSteps
<1>1. CASE LoopBegin
  <2>1. snap' \in [Runs -> Rows]
    BY <1>1, AbsentRows DEF LoopBegin
  <2> QED
    BY <1>1, <2>1 DEF LoopBegin
<1>2. CASE LoopSettle
  <2> DEFINE status == Verdict(snap[cur], seen, HasExited(cur, snap[cur].pid),
                               PidAlive(cur, snap[cur].pid), rows[cur].status)
             infra == IF seen.status = "missing" THEN rows[cur].infra ELSE InfrastructureState(seen)
  <2>1. cur \in Runs /\ rows[cur] \in Rows /\ snap[cur] \in Rows
    BY <1>2 DEF LoopSettle
  <2>2. status \in Statuses
    BY <2>1, VerdictType DEF Rows, Statuses
  <2>3. infra \in INFRASTRUCTURE_STATES
    BY <2>1, RecordFacts DEF Rows
  <2>4. [rows EXCEPT ![cur].status = status, ![cur].infra = infra] \in [Runs -> Rows]
    BY <2>1, <2>2, <2>3, RowEdits
  <2>5. rows' \in [Runs -> Rows]
    BY <1>2, <2>4 DEF LoopSettle
  <2>6. snap' \in [Runs -> Rows] /\ seen' \in Records
    BY <1>2, <2>1, AbsentRows, RecordFacts DEF LoopSettle, AbandonPass
  <2>7. kids' \in SUBSET Runs
    BY <1>2 DEF LoopSettle, Reaped
  <2>8. pc' \in {"reconcile", "idle"} /\ cur' = NoRun /\ todo' \in SUBSET Runs /\ slots' \in Nat
    BY <1>2 DEF LoopSettle, AbandonPass
  <2> QED
    BY <1>2, <2>5, <2>6, <2>7, <2>8 DEF LoopSettle
<1>3. CASE LoopListTerminal
  BY <1>3 DEF LoopListTerminal
<1>4. CASE LoopCount
  <2>1. Counted \in SUBSET Runs /\ IsFiniteSet(Counted)
    BY FS_Subset DEF Counted
  <2>2. slots' \in Nat
    BY <1>4, <2>1, FS_CardinalityType, ParallelAssumption DEF LoopCount
  <2> QED
    BY <1>4, <2>2 DEF LoopCount
<1>5. CASE LoopRest
  BY <1>5, AbsentRows, RecordFacts DEF LoopRest, AbandonPass
<1>6. CASE LoopSpawn
  BY <1>6 DEF LoopSpawn, Processes
<1>7. CASE LoopSpawnFails
  <2>1. rows' \in [Runs -> Rows]
    <3>1. cur \in Runs /\ "failed" \in Statuses
      BY <1>7 DEF LoopSpawnFails, Statuses, CONTROL_STATUSES
    <3>2. [rows EXCEPT ![cur].status = "failed"] \in [Runs -> Rows]
      BY <3>1, RowEdits
    <3> QED
      BY <1>7, <3>2 DEF LoopSpawnFails
  <2>2. slots' \in Nat
    BY <1>7 DEF LoopSpawnFails, AbandonPass
  <2> QED
    BY <1>7, <2>1, <2>2, AbsentRows, RecordFacts DEF LoopSpawnFails, AbandonPass
<1>8. CASE LoopSpawnRaises \/ LoopReadRaises
  BY <1>8, AbsentRows, RecordFacts DEF LoopSpawnRaises, LoopReadRaises, AbandonPass
<1>9. CASE LoopRecord
  <2>1. rows' \in [Runs -> Rows]
    <3>1. cur \in Runs
      BY <1>9 DEF LoopRecord
    <3>2. [rows EXCEPT ![cur].pid = TRUE] \in [Runs -> Rows]
      BY <3>1, RowEdits
    <3> QED
      BY <1>9, <3>2 DEF LoopRecord
  <2>2. slots' \in Nat
    BY <1>9 DEF LoopRecord, AbandonPass
  <2> QED
    BY <1>9, <2>1, <2>2, AbsentRows, RecordFacts DEF LoopRecord, AbandonPass
<1>10. CASE LoopRecordFails
  BY <1>10, AbsentRows, RecordFacts DEF LoopRecordFails, AbandonPass
<1>11. ASSUME NEW r \in Runs, LoopRead(r) PROVE TypeOK'
  BY <1>11 DEF LoopRead
<1>12. ASSUME NEW r \in Runs, LoopRefresh(r) PROVE TypeOK'
  <2>1. rows' \in [Runs -> Rows]
    <3>1. InfrastructureState(rec[r]) \in INFRASTRUCTURE_STATES
      BY RecordFacts
    <3>2. [rows EXCEPT ![r].infra = InfrastructureState(rec[r])] \in [Runs -> Rows]
      BY <3>1, RowEdits
    <3> QED
      BY <1>12, <3>2 DEF LoopRefresh
  <2> QED
    BY <1>12, <2>1 DEF LoopRefresh
<1>13. ASSUME NEW r \in Runs, LoopClaim(r) PROVE TypeOK'
  <2>1. rows' \in [Runs -> Rows]
    BY <1>13, RowEdits, AbsentRows DEF LoopClaim, Statuses, CONTROL_STATUSES
  <2> QED
    BY <1>13, <2>1 DEF LoopClaim
<1> QED
  BY <1>1, <1>2, <1>3, <1>4, <1>5, <1>6, <1>7, <1>8, <1>9, <1>10, <1>11, <1>12, <1>13 DEF LoopNext

\* cleanup_pod and delete_failed keep the types.
LEMMA TypeOps ==
  ASSUME TypeOK, OpNext \/ \E r \in Runs : CleanupBegin(r) \/ DeleteBegin(r)
  PROVE  TypeOK'
<1> USE DEF TypeOK, loopVars, ctlVars, OpKeeps, Step, OpSteps, Idle
<1>1. CASE CleanupRequest
  BY <1>1 DEF CleanupRequest
<1>2. CASE CleanupAwait
  BY <1>2 DEF CleanupAwait
<1>3. CASE CleanupFails
  BY <1>3 DEF CleanupFails
<1>4. CASE CleanupFile
  <2>1. rec' \in [Runs -> Records]
    BY <1>4, RecordEdits DEF CleanupFile
  <2> QED
    BY <1>4, <2>1 DEF CleanupFile
<1>5. CASE CleanupRow
  <2>1. rows' \in [Runs -> Rows]
    <3>1. op.run \in Runs /\ "pod_deleted" \in INFRASTRUCTURE_STATES
      BY <1>5 DEF CleanupRow, INFRASTRUCTURE_STATES
    <3>2. [rows EXCEPT ![op.run].infra = "pod_deleted"] \in [Runs -> Rows]
      BY <3>1, RowEdits
    <3> QED
      BY <1>5, <3>2 DEF CleanupRow
  <2> QED
    BY <1>5, <2>1 DEF CleanupRow
<1>6. CASE DeleteStage
  BY <1>6, RecordFacts DEF DeleteStage
<1>7. CASE DeleteDrop
  BY <1>7, AbsentRows, RecordFacts DEF DeleteDrop
<1>8. CASE DeleteRollback
  BY <1>8, RecordFacts DEF DeleteRollback
<1>9. ASSUME NEW r \in Runs, CleanupBegin(r) PROVE TypeOK'
  BY <1>9 DEF CleanupBegin, Reaped
<1>10. ASSUME NEW r \in Runs, DeleteBegin(r) PROVE TypeOK'
  <2>1. rows' \in [Runs -> Rows]
    <3>1. "pod_deleted" \in INFRASTRUCTURE_STATES
      BY DEF INFRASTRUCTURE_STATES
    <3>2. [rows EXCEPT ![r].infra = "pod_deleted"] \in [Runs -> Rows]
      BY <3>1, RowEdits
    <3> QED
      BY <1>10, <3>2 DEF DeleteBegin
  <2>2. op' \in [kind : {"none", "cleanup", "delete"}, run : Runs \cup {NoRun}, step : OpSteps]
        /\ op'.run = r
    BY <1>10 DEF DeleteBegin
  <2>3. kids' \in SUBSET Runs
    BY <1>10 DEF DeleteBegin, Reaped
  <2> QED
    BY <1>10, <2>1, <2>2, <2>3 DEF DeleteBegin
<1> QED
  BY <1>1, <1>2, <1>3, <1>4, <1>5, <1>6, <1>7, <1>8, <1>9, <1>10 DEF OpNext

\* A controller and its Pod touch nothing of the control plane.
LEMMA ControllerFrame ==
  ASSUME NEW r \in Runs, ControllerProgress(r) \/ ControllerDies(r) \/ PodVanishes(r)
  PROVE  ControllerKeeps
  BY DEF ControllerProgress, ControllerOpens, ControllerRequestsPod, ControllerOwnsPod,
     ControllerLosesReply, ControllerCloses, ControllerDeletesPod, ControllerDeletionFails,
     ControllerSeals, ControllerExits, ControllerDies, PodVanishes

\* A controller, its Pod and the server process keep the types.
LEMMA TypeControllers ==
  ASSUME TypeOK,
         \/ ServerCrash \/ ServerStart
         \/ \E r \in Runs : ControllerProgress(r) \/ ControllerDies(r) \/ PodVanishes(r)
  PROVE  TypeOK'
<1> USE DEF TypeOK, loopVars, opVars, ctlVars
<1>1. CASE ServerCrash
  BY <1>1, AbsentRows, RecordFacts, CrashAssumption DEF ServerCrash, LoopSteps, OpSteps, Idle
<1>2. CASE ServerStart
  BY <1>2 DEF ServerStart, LoopSteps
<1>3. ASSUME NEW r \in Runs, ControllerProgress(r) \/ ControllerDies(r) \/ PodVanishes(r)
      PROVE TypeOK'
  <2>1. ControllerKeeps
    BY <1>3, ControllerFrame
  <2>2. ctl' \in [Runs -> Processes]
    BY <1>3 DEF Processes, Becomes, ControllerProgress, ControllerOpens, ControllerRequestsPod,
       ControllerOwnsPod, ControllerLosesReply, ControllerCloses, ControllerDeletesPod,
       ControllerDeletionFails, ControllerSeals, ControllerExits, ControllerDies, PodVanishes
  <2>3. rec' \in [Runs -> Records]
    <3>1. ASSUME NEW status, NEW cleanup, NEW infra, Writes(r, status, cleanup, infra),
                 status \in {"running"} \cup TERMINAL_STATUSES,
                 cleanup \in {"not_created", "retained", "deleted"},
                 infra \in {"not_created", "pod_active", "pod_retained", "pod_deleted"}
          PROVE  rec' \in [Runs -> Records]
      <4>1. [status |-> status, cleanup |-> cleanup, infra |-> infra] \in Records
        BY <3>1 DEF Records, CLEANUPS, INFRASTRUCTURE_STATES, TERMINAL_STATUSES
      <4> QED
        BY <3>1, <4>1 DEF Writes
    <3>2. {"completed", "failed", "cancelled"} \subseteq TERMINAL_STATUSES
      BY DEF TERMINAL_STATUSES
    <3>3. CASE ControllerOpens(r) \/ ControllerRequestsPod(r) \/ ControllerOwnsPod(r)
      BY <3>1, <3>3 DEF ControllerOpens, ControllerRequestsPod, ControllerOwnsPod
    <3>4. CASE ControllerSeals(r)
      BY <3>1, <3>2, <3>4 DEF ControllerSeals
    <3>5. CASE rec' = rec
      BY <3>5
    <3> QED
      BY <1>3, <3>3, <3>4, <3>5 DEF ControllerProgress, ControllerLosesReply, ControllerCloses,
         ControllerDeletesPod, ControllerDeletionFails, ControllerExits, ControllerDies,
         PodVanishes
  <2>4. mine' \in [Runs -> BOOLEAN]
    BY <1>3 DEF ControllerProgress, ControllerOpens, ControllerRequestsPod,
       ControllerOwnsPod, ControllerLosesReply, ControllerCloses, ControllerDeletesPod,
       ControllerDeletionFails, ControllerSeals, ControllerExits, ControllerDies, PodVanishes
  <2>5. pod' \in [Runs -> {"none", "live", "terminating", "gone"}]
    BY <1>3 DEF ControllerProgress, ControllerOpens, ControllerRequestsPod,
       ControllerOwnsPod, ControllerLosesReply, ControllerCloses, ControllerDeletesPod,
       ControllerDeletionFails, ControllerSeals, ControllerExits, ControllerDies, PodVanishes
  <2> QED
    BY <2>1, <2>2, <2>3, <2>4, <2>5 DEF ControllerKeeps
<1> QED
  BY <1>1, <1>2, <1>3

\* Every step of the system keeps the types.
LEMMA TypeNext == TypeOK /\ [Next]_vars => TypeOK'
<1> SUFFICES ASSUME TypeOK, [Next]_vars PROVE TypeOK'
  OBVIOUS
<1>1. CASE UNCHANGED vars
  BY <1>1 DEF TypeOK, vars, loopVars, opVars, ctlVars
<1>2. CASE Next
  BY <1>2, TypeRequests, TypeLoop, TypeOps, TypeControllers DEF Next
<1> QED
  BY <1>1, <1>2

\* Every reachable state is well typed.
THEOREM TypeCorrect == Spec => []TypeOK
  BY TypeInit, TypeNext, PTL DEF Spec

-----------------------------------------------------------------------------
(* How the status of a row moves                                            *)

Moves(from, to) ==
    \/ LegalTransition(from, to) /\ (to = "queued" => from = "queued")
    \/ from = "absent" /\ to = "queued"
    \/ from = "failed" /\ to = "deleted"

\* What each form of assignment to a row leaves in the rows.
LEMMA EditPid ==
  ASSUME NEW f \in [Runs -> Rows], NEW r \in Runs, NEW x \in Runs
  PROVE  /\ [f EXCEPT ![r].pid = TRUE][x].status = f[x].status
         /\ [f EXCEPT ![r].pid = TRUE][x].infra = f[x].infra
  BY DEF Rows

\* Recording a cancel request leaves status and infrastructure alone.
LEMMA EditCancel ==
  ASSUME NEW f \in [Runs -> Rows], NEW r \in Runs, NEW x \in Runs
  PROVE  /\ [f EXCEPT ![r].cancel = TRUE][x].status = f[x].status
         /\ [f EXCEPT ![r].cancel = TRUE][x].infra = f[x].infra
  BY DEF Rows

\* Writing the infrastructure leaves the status alone.
LEMMA EditInfra ==
  ASSUME NEW f \in [Runs -> Rows], NEW r \in Runs, NEW x \in Runs, NEW i
  PROVE  /\ [f EXCEPT ![r].infra = i][x].status = f[x].status
         /\ [f EXCEPT ![r].infra = i][x].infra = IF x = r THEN i ELSE f[x].infra
  BY DEF Rows

\* Writing the status leaves the infrastructure alone.
LEMMA EditStatus ==
  ASSUME NEW f \in [Runs -> Rows], NEW r \in Runs, NEW x \in Runs, NEW s
  PROVE  /\ [f EXCEPT ![r].status = s][x].status = IF x = r THEN s ELSE f[x].status
         /\ [f EXCEPT ![r].status = s][x].infra = f[x].infra
  BY DEF Rows

\* The same with a cancel request recorded along with it.
LEMMA EditStatusCancel ==
  ASSUME NEW f \in [Runs -> Rows], NEW r \in Runs, NEW x \in Runs, NEW s
  PROVE  /\ [f EXCEPT ![r].status = s, ![r].cancel = TRUE][x].status = IF x = r THEN s ELSE f[x].status
         /\ [f EXCEPT ![r].status = s, ![r].cancel = TRUE][x].infra = f[x].infra
  BY DEF Rows

\* A reconcile pass writes both at once.
LEMMA EditStatusInfra ==
  ASSUME NEW f \in [Runs -> Rows], NEW r \in Runs, NEW x \in Runs, NEW s, NEW i
  PROVE  /\ [f EXCEPT ![r].status = s, ![r].infra = i][x].status = IF x = r THEN s ELSE f[x].status
         /\ [f EXCEPT ![r].status = s, ![r].infra = i][x].infra = IF x = r THEN i ELSE f[x].infra
  BY DEF Rows

\* What LoopSettle does to the rows.
Concluded ==
    Verdict(snap[cur], seen, HasExited(cur, snap[cur].pid), PidAlive(cur, snap[cur].pid),
            rows[cur].status)

\* One settled row moves as its verdict says, or nothing does.
LEMMA Settled ==
  ASSUME TypeOK, LoopSettle, NEW x \in Runs
  PROVE  \/ rows' = rows
         \/ /\ LegalTransition(rows[cur].status, Concluded) /\ Exists(cur)
            /\ rows'[x].status = IF x = cur THEN Concluded ELSE rows[x].status
            /\ rows'[x].infra = IF x # cur \/ seen.status = "missing" THEN rows[x].infra
                               ELSE InfrastructureState(seen)
<1>1. cur \in Runs /\ rows \in [Runs -> Rows]
  BY DEF TypeOK, LoopSettle
<1> DEFINE infra == IF seen.status = "missing" THEN rows[cur].infra ELSE InfrastructureState(seen)
<1>2. CASE rows' = rows
  BY <1>2
<1>3. CASE /\ Updatable(cur, Concluded)
           /\ rows' = [rows EXCEPT ![cur].status = Concluded, ![cur].infra = infra]
  <2>1. rows'[x].status = IF x = cur THEN Concluded ELSE rows[x].status
    BY <1>1, <1>3, EditStatusInfra
  <2>2. rows'[x].infra = IF x = cur THEN infra ELSE rows[x].infra
    BY <1>1, <1>3, EditStatusInfra
  <2> QED
    BY <1>3, <2>1, <2>2 DEF Updatable
<1> QED
  BY <1>2, <1>3 DEF LoopSettle, Concluded

\* A row moves as _validate_transition allows, is submitted once, is deleted only
\* after it failed, by delete_failed, and is completed only by a reconcile pass.
LEMMA RowMoves ==
  ASSUME TypeOK, [Next]_vars
  PROVE  \A r \in Runs :
           /\ Moves(rows[r].status, rows'[r].status)
           /\ rows[r].status = "failed" /\ rows'[r].status = "deleted" => DeleteDrop
           /\ rows[r].status # "completed" /\ rows'[r].status = "completed" => LoopSettle
<1> DEFINE Goal ==
      \A r \in Runs :
        /\ Moves(rows[r].status, rows'[r].status)
        /\ rows[r].status = "failed" /\ rows'[r].status = "deleted" => DeleteDrop
        /\ rows[r].status # "completed" /\ rows'[r].status = "completed" => LoopSettle
<1> SUFFICES Goal
  OBVIOUS
<1>a. rows \in [Runs -> Rows]
  BY DEF TypeOK
<1>b. ASSUME \A r \in Runs : rows'[r].status = rows[r].status PROVE Goal
  BY <1>b DEF Moves, LegalTransition
<1>c. ASSUME NEW r \in Runs, NEW s \in {"queued", "running", "failed", "cancelled"},
             Moves(rows[r].status, s),
             \A x \in Runs : rows'[x].status = IF x = r THEN s ELSE rows[x].status
      PROVE  Goal
  BY <1>c DEF Moves, LegalTransition
<1>1. CASE UNCHANGED vars
  BY <1>1, <1>b DEF vars
<1>2. ASSUME NEW r \in Runs, Submit(r) PROVE Goal
  BY <1>2, <1>a, <1>c, EditStatus DEF Submit, Moves
<1>3. ASSUME NEW r \in Runs, CancelQueued(r) PROVE Goal
  <2>1. CASE Updatable(r, "cancelled")
    <3>1. Moves(rows[r].status, "cancelled")
      BY <2>1 DEF Updatable, Moves
    <3>2. \A x \in Runs : rows'[x].status = IF x = r THEN "cancelled" ELSE rows[x].status
      BY <1>3, <2>1, <1>a, EditStatusCancel DEF CancelQueued
    <3> QED
      BY <3>1, <3>2, <1>c
  <2>2. CASE ~Updatable(r, "cancelled")
    BY <1>3, <2>2, <1>b DEF CancelQueued
  <2> QED
    BY <2>1, <2>2
<1>4. CASE LoopSettle
  <2>1. ASSUME NEW x \in Runs
        PROVE  /\ Moves(rows[x].status, rows'[x].status)
               /\ ~(rows[x].status = "failed" /\ rows'[x].status = "deleted")
    <3>1. CASE rows' = rows
      BY <3>1 DEF Moves, LegalTransition
    <3>2. CASE /\ LegalTransition(rows[cur].status, Concluded)
               /\ rows'[x].status = IF x = cur THEN Concluded ELSE rows[x].status
      BY <3>2 DEF Moves, LegalTransition, TERMINAL_STATUSES
    <3> QED
      BY <1>4, <3>1, <3>2, Settled
  <2> QED
    BY <1>4, <2>1
<1>5. ASSUME NEW r \in Runs, LoopClaim(r) PROVE Goal
  <2>1. Moves(rows[r].status, "running")
    BY <1>5 DEF LoopClaim, Oldest, Moves, LegalTransition
  <2> QED
    BY <1>5, <2>1, <1>a, <1>c, EditStatus DEF LoopClaim
<1>6. CASE LoopSpawnFails
  <2>1. CASE Updatable(cur, "failed")
    <3>1. cur \in Runs /\ Moves(rows[cur].status, "failed")
      BY <1>6, <2>1 DEF Updatable, Moves, LoopSpawnFails, TypeOK
    <3>2. rows' = [rows EXCEPT ![cur].status = "failed"]
      BY <1>6, <2>1 DEF LoopSpawnFails
    <3>3. \A x \in Runs : rows'[x].status = IF x = cur THEN "failed" ELSE rows[x].status
      BY <3>1, <3>2, <1>a, EditStatus
    <3> QED
      BY <3>1, <3>3, <1>c
  <2>2. CASE ~Updatable(cur, "failed")
    BY <1>6, <2>2, <1>b DEF LoopSpawnFails
  <2> QED
    BY <2>1, <2>2
<1>7. CASE DeleteDrop
  BY <1>7 DEF DeleteDrop, Moves, LegalTransition, TypeOK, Rows, AbsentRow
<1>8. ASSUME NEW r \in Runs, CancelMark(r) \/ LoopRefresh(r) \/ DeleteBegin(r) PROVE Goal
  <2>1. \/ rows' = rows
        \/ rows' = [rows EXCEPT ![r].cancel = TRUE]
        \/ \E i : rows' = [rows EXCEPT ![r].infra = i]
    BY <1>8 DEF CancelMark, LoopRefresh, DeleteBegin
  <2>2. \A x \in Runs : rows'[x].status = rows[x].status
    <3>1. CASE rows' = [rows EXCEPT ![r].cancel = TRUE]
      BY <3>1, <1>a, EditCancel
    <3>2. ASSUME NEW i, rows' = [rows EXCEPT ![r].infra = i]
          PROVE  \A x \in Runs : rows'[x].status = rows[x].status
      BY <3>2, <1>a, EditInfra
    <3> QED
      BY <2>1, <3>1, <3>2
  <2> QED
    BY <2>2, <1>b
<1>9. CASE LoopRecord \/ CleanupRow
  <2>1. \/ rows' = rows
        \/ cur \in Runs /\ rows' = [rows EXCEPT ![cur].pid = TRUE]
        \/ op.run \in Runs /\ rows' = [rows EXCEPT ![op.run].infra = "pod_deleted"]
    BY <1>9 DEF LoopRecord, CleanupRow, TypeOK
  <2>2. \A x \in Runs : rows'[x].status = rows[x].status
    <3>1. CASE cur \in Runs /\ rows' = [rows EXCEPT ![cur].pid = TRUE]
      BY <3>1, <1>a, EditPid
    <3>2. CASE op.run \in Runs /\ rows' = [rows EXCEPT ![op.run].infra = "pod_deleted"]
      BY <3>2, <1>a, EditInfra
    <3> QED
      BY <2>1, <3>1, <3>2
  <2> QED
    BY <2>2, <1>b
<1>10. ASSUME NEW r \in Runs, ControllerProgress(r) \/ ControllerDies(r) \/ PodVanishes(r)
       PROVE Goal
  BY <1>10, <1>b, ControllerFrame DEF ControllerKeeps
<1>11. ASSUME NEW r \in Runs, CancelRead(r) \/ CancelSignal(r) \/ CleanupBegin(r) \/ LoopRead(r)
       PROVE Goal
  BY <1>11, <1>b DEF CancelRead, CancelSignal, CleanupBegin, LoopRead
<1>12. CASE \/ LoopBegin \/ LoopListTerminal \/ LoopCount \/ LoopRest \/ LoopSpawn
            \/ LoopSpawnRaises \/ LoopReadRaises \/ LoopRecordFails
  BY <1>12, <1>b DEF LoopBegin, LoopListTerminal, LoopCount, LoopRest, LoopSpawn,
     LoopSpawnRaises, LoopReadRaises, LoopRecordFails
<1>13. CASE \/ CleanupRequest \/ CleanupAwait \/ CleanupFails \/ CleanupFile \/ DeleteStage
            \/ DeleteRollback \/ ServerCrash \/ ServerStart
  BY <1>13, <1>b DEF CleanupRequest, CleanupAwait, CleanupFails, CleanupFile, DeleteStage,
     DeleteRollback, ServerCrash, ServerStart
<1> QED
  BY <1>1, <1>2, <1>3, <1>4, <1>5, <1>6, <1>7, <1>8, <1>9, <1>10, <1>11, <1>12, <1>13
  DEF Next, LoopNext, OpNext

\* A run that ended keeps its outcome: the property TerminalIsFinal for every
\* number of runs, whatever a pass, a request or a crash does.
THEOREM Finality == Spec => TerminalIsFinal
<1>1. TypeOK /\ [Next]_vars =>
        [\A r \in Runs : rows[r].status \in TERMINAL_STATUSES =>
           \/ rows'[r].status = rows[r].status
           \/ rows[r].status = "failed" /\ rows'[r].status = "deleted"]_vars
  BY RowMoves DEF Moves, LegalTransition, TERMINAL_STATUSES
<1> QED
  BY <1>1, TypeCorrect, PTL DEF Spec, TerminalIsFinal

-----------------------------------------------------------------------------
(* What a step may do to a controller, its Pod and its record               *)

Early == {"none", "starting", "preparing", "creating"}
Dead == {"terminating", "gone"}

\* Every step but the spawn of x.
Steady(x) ==
    /\ ctl[x] = "none" <=> ctl'[x] = "none"
    /\ ctl'[x] = "starting" => ctl[x] = "starting"
    /\ ctl[x] \in Ended => ctl'[x] \in Ended
    /\ ctl'[x] \in Early => ctl[x] \in Early /\ (pod[x] = "none" => pod'[x] = "none")
    /\ ctl'[x] = "deleted" => pod'[x] \in Dead \/ (ctl[x] = "deleted" /\ pod[x] \notin Dead)
    /\ pod[x] \in Dead /\ ctl[x] \notin Early => pod'[x] \in Dead

\* Every step but those of cleanup_pod and delete_failed.
RecordMoves(x) ==
    \/ rec'[x] = rec[x]
    \/ /\ ctl[x] \notin Ended \cup {"none"}
       /\ rec'[x].status \in TERMINAL_STATUSES => ctl'[x] = "sealed"
       /\ SaysDeleted(rec'[x]) => ctl[x] = "deleted"

\* A controller's own step, its death and the end of its Pod.
LEMMA ControllerSteady ==
  ASSUME TypeOK, NEW r \in Runs, ControllerProgress(r) \/ ControllerDies(r) \/ PodVanishes(r),
         NEW x \in Runs
  PROVE  Steady(x) /\ RecordMoves(x)
<1> USE DEF Steady, RecordMoves, Early, Dead, Ended, SaysDeleted, TERMINAL_STATUSES
<1>0. /\ ctl \in [Runs -> Processes] /\ rec \in [Runs -> Records] /\ mine \in [Runs -> BOOLEAN]
      /\ pod \in [Runs -> {"none", "live", "terminating", "gone"}]
  BY DEF TypeOK
<1>1. CASE ControllerOpens(r)
  BY <1>0, <1>1 DEF ControllerOpens, Becomes, Writes
<1>2. CASE ControllerRequestsPod(r)
  BY <1>0, <1>2 DEF ControllerRequestsPod, Becomes, Writes
<1>3. CASE ControllerOwnsPod(r)
  BY <1>0, <1>3 DEF ControllerOwnsPod, Becomes, Writes
<1>4. CASE ControllerLosesReply(r)
  BY <1>0, <1>4 DEF ControllerLosesReply, Becomes
<1>5. CASE ControllerCloses(r)
  BY <1>0, <1>5 DEF ControllerCloses, Becomes
<1>6. CASE ControllerDeletesPod(r)
  BY <1>0, <1>6 DEF ControllerDeletesPod, Becomes
<1>7. CASE ControllerDeletionFails(r)
  BY <1>0, <1>7 DEF ControllerDeletionFails, Becomes
<1>8. CASE ControllerSeals(r)
  BY <1>0, <1>8 DEF ControllerSeals, Becomes, Writes
<1>9. CASE ControllerExits(r)
  BY <1>0, <1>9 DEF ControllerExits, Becomes
<1>10. CASE ControllerDies(r)
  BY <1>0, <1>10 DEF ControllerDies, Becomes, Live
<1>11. CASE PodVanishes(r)
  BY <1>0, <1>11 DEF PodVanishes
<1> QED
  BY <1>1, <1>2, <1>3, <1>4, <1>5, <1>6, <1>7, <1>8, <1>9, <1>10, <1>11 DEF ControllerProgress

\* The signal of a cancel.
LEMMA SignalSteady ==
  ASSUME TypeOK, NEW r \in Runs, CancelSignal(r), NEW x \in Runs
  PROVE  Steady(x) /\ RecordMoves(x)
<1>1. /\ ctl \in [Runs -> Processes] /\ pod \in [Runs -> {"none", "live", "terminating", "gone"}]
      /\ rec' = rec
  BY DEF TypeOK, CancelSignal, Interrupt
<1>2. PICK p \in AfterInterrupt(ctl[r]) : ctl' = [ctl EXCEPT ![r] = p]
  BY DEF CancelSignal, Interrupt
<1>3. pod' = pod \/ (ctl[r] = "creating" /\ pod' = [pod EXCEPT ![r] = "live"])
  BY DEF CancelSignal, Interrupt
<1>4. \/ p = ctl[r] /\ ctl[r] \in {"none", "exited"}
      \/ p = "stopping" /\ ctl[r] \in {"preparing", "creating", "owning"}
      \/ p = "exited" /\ ctl[r] # "none"
  BY <1>1, <1>2 DEF AfterInterrupt, Processes, Unborn
<1> QED
  BY <1>1, <1>2, <1>3, <1>4 DEF Steady, RecordMoves, Early, Dead, Ended

\* cleanup_pod and delete_failed only ever end a Pod.
LEMMA OpSteady ==
  ASSUME TypeOK, OpNext, NEW x \in Runs
  PROVE  Steady(x)
<1>1. ctl' = ctl
  BY DEF OpNext, CleanupRequest, CleanupAwait, CleanupFails, CleanupFile, CleanupRow,
     DeleteStage, DeleteDrop, DeleteRollback, ctlVars
<1>2. /\ pod \in [Runs -> {"none", "live", "terminating", "gone"}]
      /\ \/ pod' = pod
         \/ op.run \in Runs /\ pod[op.run] # "none" /\ pod' = [pod EXCEPT ![op.run] = "terminating"]
  BY DEF OpNext, CleanupRequest, CleanupAwait, CleanupFails, CleanupFile, CleanupRow,
     DeleteStage, DeleteDrop, DeleteRollback, ctlVars, TypeOK
<1> QED
  BY <1>1, <1>2 DEF Steady, Early, Dead

\* Nobody else touches a controller, a Pod or a record, but LoopSpawn.
LEMMA OthersSteady ==
  ASSUME TypeOK, [Next]_vars, ~LoopSpawn, ~OpNext,
         \A r \in Runs : ~CancelSignal(r) /\ ~ControllerProgress(r) /\ ~ControllerDies(r)
                         /\ ~PodVanishes(r)
  PROVE  UNCHANGED ctlVars
<1>1. CASE UNCHANGED vars
  BY <1>1 DEF vars
<1>2. CASE LoopNext
  BY <1>2 DEF LoopNext, LoopBegin, LoopSettle, LoopListTerminal, LoopCount, LoopRest,
     LoopSpawnFails, LoopSpawnRaises, LoopReadRaises, LoopRecord, LoopRecordFails, LoopRead,
     LoopRefresh, LoopClaim
<1>3. CASE ServerCrash \/ ServerStart
  BY <1>3 DEF ServerCrash, ServerStart
<1>4. ASSUME NEW r \in Runs, \/ Submit(r) \/ CancelRead(r) \/ CancelQueued(r) \/ CancelMark(r)
                             \/ CleanupBegin(r) \/ DeleteBegin(r)
      PROVE  UNCHANGED ctlVars
  BY <1>4 DEF Submit, CancelRead, CancelQueued, CancelMark, CleanupBegin, DeleteBegin
<1> QED
  BY <1>1, <1>2, <1>3, <1>4 DEF Next

\* No step revives an ended controller or a Pod that is going, LoopSpawn apart.
LEMMA SteadyStep ==
  ASSUME TypeOK, [Next]_vars, ~LoopSpawn, NEW x \in Runs
  PROVE  Steady(x) /\ (RecordMoves(x) \/ OpNext)
<1>1. CASE OpNext
  BY <1>1, OpSteady
<1>2. CASE UNCHANGED ctlVars
  BY <1>2 DEF Steady, RecordMoves, ctlVars, Dead
<1> QED
  BY <1>1, <1>2, OthersSteady, SignalSteady, ControllerSteady

-----------------------------------------------------------------------------
(* One controller for a run                                                 *)

\* The loop comes to "spawn" by claiming, and to "settle" by reading.
LEMMA LoopSteps1 ==
  ASSUME TypeOK, [Next]_vars
  PROVE  /\ pc' = "spawn" => \/ pc = "spawn" /\ cur' = cur
                             \/ \E r \in Runs : LoopClaim(r)
         /\ pc' = "settle" => \/ pc = "settle" /\ cur' = cur /\ seen' = seen
                              \/ \E r \in Runs : LoopRead(r)
<1>1. CASE UNCHANGED loopVars
  BY <1>1 DEF loopVars
<1>2. CASE LoopNext
  <2>1. CASE LoopSettle
    <3>1. pc' \in {"reconcile", "idle"}
      BY <2>1 DEF LoopSettle, AbandonPass
    <3> QED
      BY <3>1
  <2>2. CASE \/ LoopBegin \/ LoopListTerminal \/ LoopCount \/ LoopRest \/ LoopSpawn
             \/ LoopSpawnFails \/ LoopSpawnRaises \/ LoopReadRaises \/ LoopRecord \/ LoopRecordFails
    <3>1. pc' \notin {"spawn", "settle"}
      BY <2>2 DEF LoopBegin, LoopListTerminal, LoopCount, LoopRest, LoopSpawn,
         LoopSpawnFails, LoopSpawnRaises, LoopReadRaises, LoopRecord, LoopRecordFails, AbandonPass
    <3> QED
      BY <3>1
  <2>3. ASSUME NEW r \in Runs, LoopRefresh(r) PROVE pc' = "refresh"
    BY <2>3 DEF LoopRefresh
  <2>4. ASSUME NEW r \in Runs, LoopRead(r) PROVE pc' = "settle"
    BY <2>4 DEF LoopRead
  <2>5. ASSUME NEW r \in Runs, LoopClaim(r) PROVE pc' = "spawn"
    BY <2>5 DEF LoopClaim
  <2> QED
    BY <1>2, <2>1, <2>2, <2>3, <2>4, <2>5 DEF LoopNext
<1>3. CASE ServerCrash \/ ServerStart
  BY <1>3 DEF ServerCrash, ServerStart
<1>4. CASE OpNext
  BY <1>4, <1>1 DEF OpNext, CleanupRequest, CleanupAwait, CleanupFails, CleanupFile, CleanupRow,
     DeleteStage, DeleteDrop, DeleteRollback, OpKeeps
<1>5. ASSUME NEW r \in Runs,
             \/ Submit(r) \/ CancelRead(r) \/ CancelQueued(r) \/ CancelMark(r) \/ CancelSignal(r)
             \/ CleanupBegin(r) \/ DeleteBegin(r)
      PROVE  UNCHANGED loopVars
  BY <1>5 DEF Submit, CancelRead, CancelQueued, CancelMark, CancelSignal, CleanupBegin,
     DeleteBegin, OpKeeps
<1>6. ASSUME NEW r \in Runs, ControllerProgress(r) \/ ControllerDies(r) \/ PodVanishes(r)
      PROVE  UNCHANGED loopVars
  BY <1>6, ControllerFrame DEF ControllerKeeps
<1> QED
  BY <1>1, <1>2, <1>3, <1>4, <1>5, <1>6 DEF Next, vars

\* Every step keeps unclaimed runs without a controller.
LEMMA UnspawnedStep ==
  ASSUME TypeOK, TypeOK', Unspawned, [Next]_vars
  PROVE  /\ Unspawned'
         /\ \A r \in Runs : ctl[r] # "starting" /\ ctl'[r] = "starting" => ctl[r] = "none"
<1>1. \A r \in Runs : rows'[r].status \in {"absent", "queued"} => rows[r].status \in {"absent", "queued"}
  BY RowMoves DEF Moves, LegalTransition, TERMINAL_STATUSES
<1>2. CASE LoopSpawn
  <2>1. /\ pc = "spawn" /\ pc' = "record" /\ rows' = rows /\ ctl' = [ctl EXCEPT ![cur] = "starting"]
        /\ cur \in Runs /\ ctl \in [Runs -> Processes]
    BY <1>2 DEF LoopSpawn, TypeOK
  <2> QED
    BY <2>1 DEF Unspawned
<1>3. CASE ~LoopSpawn
  <2>1. \A x \in Runs : Steady(x)
    BY <1>3, SteadyStep
  <2>2. \A r \in Runs : rows'[r].status \in {"absent", "queued"} => ctl'[r] = "none"
    BY <1>1, <2>1 DEF Unspawned, Steady
  <2>3. ASSUME pc' = "spawn"
        PROVE  ctl'[cur'] = "none" /\ rows'[cur'].status \notin {"absent", "queued"}
    <3>1. CASE pc = "spawn" /\ cur' = cur
      BY <1>1, <2>1, <3>1 DEF Unspawned, Steady, TypeOK
    <3>2. ASSUME NEW r \in Runs, LoopClaim(r)
          PROVE  ctl'[cur'] = "none" /\ rows'[cur'].status \notin {"absent", "queued"}
      <4>1. cur' = r /\ rows[r].status = "queued" /\ rows \in [Runs -> Rows]
            /\ rows' = [rows EXCEPT ![r].status = "running"] /\ ctl' = ctl
        BY <3>2 DEF LoopClaim, Oldest, TypeOK, ctlVars
      <4>2. rows'[r].status = "running"
        BY <4>1, EditStatus
      <4> QED
        BY <4>1, <4>2 DEF Unspawned
    <3> QED
      BY <2>3, <3>1, <3>2, LoopSteps1
  <2> QED
    BY <2>1, <2>2, <2>3 DEF Unspawned, Steady
<1> QED
  BY <1>2, <1>3

\* The inductive invariant behind OneController.
LEMMA UnspawnedInvariant == Spec => [](TypeOK /\ Unspawned)
<1>1. Init => Unspawned
  BY DEF Init, Unspawned, Unborn
<1>2. TypeOK /\ TypeOK' /\ Unspawned /\ [Next]_vars => Unspawned'
  BY UnspawnedStep
<1> QED
  BY <1>1, <1>2, TypeCorrect, PTL DEF Spec

\* No run is given a second controller, whatever crashes between the claim, the
\* start of the process and the recording of its pid.
THEOREM SingleController == Spec => OneController
<1>1. TypeOK /\ TypeOK' /\ Unspawned /\ [Next]_vars =>
        [\A r \in Runs : ctl[r] # "starting" /\ ctl'[r] = "starting" => ctl[r] = "none"]_vars
  BY UnspawnedStep
<1> QED
  BY <1>1, UnspawnedInvariant, PTL DEF Spec, OneController

-----------------------------------------------------------------------------
(* What the rows and records of the control plane say about the controllers *)
(* and the Pods is true: the inductive invariant IInv of ControlPlane.      *)
-----------------------------------------------------------------------------
(* The maintenance lock                                                     *)

\* An operation in flight goes on, ends, or starts while the loop is outside
\* the lock.
LEMMA OpSteps1 ==
  ASSUME TypeOK, [Next]_vars
  PROVE  \/ op' = op /\ stash' = stash /\ ~OpNext
         \/ OpNext /\ UNCHANGED loopVars
         \/ (\E r \in Runs : CleanupBegin(r) \/ DeleteBegin(r)) /\ UNCHANGED loopVars
         \/ op' = Idle /\ pc' = "down"
<1>1. CASE OpNext
  BY <1>1 DEF OpNext, CleanupRequest, CleanupAwait, CleanupFails, CleanupFile, CleanupRow,
     DeleteStage, DeleteDrop, DeleteRollback, OpKeeps
<1>2. CASE UNCHANGED vars
  BY <1>1, <1>2 DEF vars, opVars
<1>3. CASE LoopNext
  <2>1. UNCHANGED opVars
    BY <1>3 DEF LoopNext, LoopBegin, LoopSettle, LoopListTerminal, LoopCount, LoopRest, LoopSpawn,
       LoopSpawnFails, LoopSpawnRaises, LoopReadRaises, LoopRecord, LoopRecordFails, LoopRead,
       LoopRefresh, LoopClaim, LoopKeeps
  <2> QED
    BY <1>1, <2>1 DEF opVars
<1>4. CASE ServerCrash \/ ServerStart
  BY <1>1, <1>4 DEF ServerCrash, ServerStart, opVars
<1>5. ASSUME NEW r \in Runs,
             \/ Submit(r) \/ CancelRead(r) \/ CancelQueued(r) \/ CancelMark(r) \/ CancelSignal(r)
      PROVE  UNCHANGED opVars
  BY <1>5 DEF Submit, CancelRead, CancelQueued, CancelMark, CancelSignal
<1>6. ASSUME NEW r \in Runs, CleanupBegin(r) \/ DeleteBegin(r)
      PROVE  UNCHANGED loopVars
  BY <1>6 DEF CleanupBegin, DeleteBegin, OpKeeps
<1>7. ASSUME NEW r \in Runs, ControllerProgress(r) \/ ControllerDies(r) \/ PodVanishes(r)
      PROVE  UNCHANGED opVars
  BY <1>7, ControllerFrame DEF ControllerKeeps
<1> QED
  BY <1>1, <1>2, <1>3, <1>4, <1>5, <1>6, <1>7 DEF Next, opVars

\* The loop enters the lock only when no operation is in flight.
LEMMA LoopEnters ==
  ASSUME TypeOK, [Next]_vars, LoopInLock', ~LoopInLock
  PROVE  LoopBegin
<1>1. CASE UNCHANGED loopVars
  BY <1>1 DEF LoopInLock, loopVars
<1>2. CASE LoopNext
  <2>1. ~LoopSettle /\ ~LoopListTerminal /\ ~LoopCount /\ \A r \in Runs : ~LoopRead(r) /\ ~LoopRefresh(r)
    BY DEF LoopSettle, LoopListTerminal, LoopCount, LoopRead, LoopRefresh, LoopInLock
  <2>2. ASSUME \/ LoopRest \/ LoopSpawn \/ LoopSpawnFails \/ LoopSpawnRaises \/ LoopReadRaises
               \/ LoopRecord \/ LoopRecordFails \/ \E r \in Runs : LoopClaim(r)
        PROVE  FALSE
    BY <2>2 DEF LoopRest, LoopSpawn, LoopSpawnFails, LoopSpawnRaises, LoopReadRaises,
       LoopRecord, LoopRecordFails, LoopClaim, AbandonPass, LoopInLock
  <2> QED
    BY <1>2, <2>1, <2>2 DEF LoopNext
<1>3. CASE ServerCrash \/ ServerStart
  BY <1>3 DEF ServerCrash, ServerStart, LoopInLock
<1>4. ASSUME NEW r \in Runs,
             \/ Submit(r) \/ CancelRead(r) \/ CancelQueued(r) \/ CancelMark(r) \/ CancelSignal(r)
      PROVE  UNCHANGED loopVars
  BY <1>4 DEF Submit, CancelRead, CancelQueued, CancelMark, CancelSignal
<1>5. ASSUME NEW r \in Runs, ControllerProgress(r) \/ ControllerDies(r) \/ PodVanishes(r)
      PROVE  UNCHANGED loopVars
  BY <1>5, ControllerFrame DEF ControllerKeeps
<1>6. CASE OpNext \/ \E r \in Runs : CleanupBegin(r) \/ DeleteBegin(r)
  <2>1. UNCHANGED loopVars
    BY <1>6 DEF OpNext, CleanupRequest, CleanupAwait, CleanupFails, CleanupFile, CleanupRow,
       DeleteStage, DeleteDrop, DeleteRollback, CleanupBegin, DeleteBegin, OpKeeps
  <2> QED
    BY <1>1, <2>1
<1>7. CASE UNCHANGED vars
  BY <1>1, <1>7 DEF vars
<1> QED
  BY <1>1, <1>2, <1>3, <1>4, <1>5, <1>6, <1>7 DEF Next

\* Every step keeps reconcile and the cleanup calls apart.
LEMMA ExclusionStep ==
  ASSUME TypeOK, Exclusion, [Next]_vars
  PROVE  Exclusion'
<1>1. CASE LoopBegin
  BY <1>1 DEF LoopBegin, LoopKeeps, opVars, Exclusion, OpInLock
<1>2. CASE UNCHANGED loopVars /\ OpNext
  <2>1. OpInLock
    BY <1>2 DEF OpNext, CleanupRequest, CleanupAwait, CleanupFails, CleanupFile, CleanupRow,
       DeleteStage, DeleteDrop, DeleteRollback, OpInLock
  <2> QED
    BY <1>2, <2>1 DEF Exclusion, LoopInLock, loopVars
<1>3. CASE UNCHANGED loopVars /\ \E r \in Runs : CleanupBegin(r) \/ DeleteBegin(r)
  BY <1>3 DEF CleanupBegin, DeleteBegin, Exclusion, LoopInLock, loopVars
<1>4. CASE op' = Idle /\ pc' = "down"
  BY <1>4 DEF Exclusion, LoopInLock
<1>5. CASE op' = op /\ ~LoopBegin
  BY <1>5, LoopEnters DEF Exclusion, OpInLock
<1> QED
  BY <1>1, <1>2, <1>3, <1>4, <1>5, OpSteps1

-----------------------------------------------------------------------------
(* Controllers, Pods and records                                            *)

\* A controller that ended stays so, and a Pod that is going is gone for good.
LEMMA Persistence ==
  ASSUME TypeOK, Unspawned, DeadPods, [Next]_vars, NEW x \in Runs
  PROVE  /\ ctl[x] \in Ended => ctl'[x] \in Ended
         /\ PodIsDead(x) => PodIsDead(x)'
<1>1. CASE LoopSpawn
  <2>1. /\ ctl[cur] = "none" /\ ctl' = [ctl EXCEPT ![cur] = "starting"] /\ pod' = pod
        /\ ctl \in [Runs -> Processes]
    BY <1>1 DEF LoopSpawn, Unspawned, TypeOK
  <2> QED
    BY <2>1 DEF Ended, PodIsDead
<1>2. CASE ~LoopSpawn
  <2>1. Steady(x)
    BY <1>2, SteadyStep
  <2> QED
    BY <2>1 DEF Steady, Dead, Early, PodIsDead, DeadPods
<1> QED
  BY <1>1, <1>2

\* What cleanup_pod and delete_failed write into run.json.
LEMMA OpRecords ==
  ASSUME TypeOK, OpNext, NEW x \in Runs
  PROVE  \/ rec'[x] = rec[x]
         \/ /\ x = op.run /\ op.kind # "none" /\ op.step = "file" /\ rec'[x].status = rec[x].status
         \/ x = op.run /\ op.kind # "none" /\ op.step = "stage" /\ rec'[x] = NoRecord
         \/ x = op.run /\ op.kind # "none" /\ op.step = "drop" /\ rec'[x] = stash
<1>1. rec \in [Runs -> Records] /\ (op.kind # "none" => op.run \in Runs)
  BY DEF TypeOK
<1>2. CASE CleanupFile
  BY <1>1, <1>2 DEF CleanupFile, Records
<1>3. CASE DeleteStage
  BY <1>1, <1>3 DEF DeleteStage
<1>4. CASE DeleteRollback
  BY <1>1, <1>4 DEF DeleteRollback
<1>5. CASE CleanupRequest \/ CleanupAwait \/ CleanupFails \/ CleanupRow \/ DeleteDrop
  <2>1. rec' = rec
    BY <1>5 DEF CleanupRequest, CleanupAwait, CleanupFails, CleanupRow, DeleteDrop, ctlVars
  <2> QED
    BY <2>1
<1> QED
  BY <1>2, <1>3, <1>4, <1>5 DEF OpNext

\* A spawn writes no record.
LEMMA SpawnRecords == ASSUME LoopSpawn PROVE rec' = rec /\ op' = op /\ stash' = stash
  BY DEF LoopSpawn, LoopKeeps, opVars

\* Only delete_failed takes a terminal record away.
LEMMA TerminalRecordStays ==
  ASSUME TypeOK, SealedRecords, OpHolds, [Next]_vars, NEW x \in Runs,
         rec[x].status \in TERMINAL_STATUSES
  PROVE  \/ rec'[x].status = rec[x].status
         \/ OpNext /\ op.kind = "delete" /\ op.run = x
<1>1. CASE LoopSpawn
  BY <1>1, SpawnRecords
<1>2. CASE OpNext
  BY <1>2, OpRecords DEF OpHolds, TypeOK
<1>3. CASE ~LoopSpawn /\ ~OpNext
  BY <1>3, SteadyStep DEF RecordMoves, SealedRecords
<1> QED
  BY <1>1, <1>2, <1>3

\* The order of the steps of an operation, and what each finds or leaves.
LEMMA OpMoves ==
  ASSUME TypeOK, OpNext
  PROVE  \/ op' = Idle
         \/ /\ op.kind # "none" /\ op'.kind = op.kind /\ op'.run = op.run /\ UNCHANGED <<ctl, queue>>
            /\ \/ op.step = "request" /\ op'.step = "await"
               \/ op.step = "await" /\ op'.step = "file" /\ pod'[op.run] = "gone"
               \/ op.step = "file" /\ op'.step = "row"
               \/ op.step = "row" /\ op'.step = "stage" /\ op.kind = "delete"
               \/ op.step = "stage" /\ op'.step = "drop" /\ stash' = rec[op.run]
<1> USE DEF TypeOK, Step, OpKeeps, ctlVars, OpSteps
<1>1. CASE CleanupRequest
  BY <1>1 DEF CleanupRequest
<1>2. CASE CleanupAwait
  BY <1>2 DEF CleanupAwait
<1>3. CASE CleanupFails
  BY <1>3 DEF CleanupFails
<1>4. CASE CleanupFile
  BY <1>4 DEF CleanupFile
<1>5. CASE CleanupRow
  BY <1>5 DEF CleanupRow
<1>6. CASE DeleteStage
  BY <1>6 DEF DeleteStage
<1>7. CASE DeleteDrop
  BY <1>7 DEF DeleteDrop
<1>8. CASE DeleteRollback
  BY <1>8 DEF DeleteRollback
<1> QED
  BY <1>1, <1>2, <1>3, <1>4, <1>5, <1>6, <1>7, <1>8 DEF OpNext

\* Every step keeps terminal records the last word of their controllers.
LEMMA SealedStep ==
  ASSUME IInv, [Next]_vars
  PROVE  SealedRecords'
<1> USE DEF IInv
<1>1. ASSUME NEW x \in Runs, rec'[x].status \in TERMINAL_STATUSES PROVE ctl'[x] \in Ended
  <2>1. CASE rec'[x].status = rec[x].status
    BY <1>1, <2>1, Persistence DEF SealedRecords
  <2>2. CASE OpNext /\ rec'[x].status # rec[x].status
    BY <1>1, <2>2, OpRecords, Persistence DEF SealedRecords, OpInLock, NoRecord, TERMINAL_STATUSES
  <2>3. CASE ~LoopSpawn /\ ~OpNext /\ rec'[x].status # rec[x].status
    BY <1>1, <2>3, SteadyStep DEF RecordMoves, Ended
  <2> QED
    BY <2>1, <2>2, <2>3, SpawnRecords
<1>2. ASSUME OpInLock', op'.step = "drop", stash'.status \in TERMINAL_STATUSES
      PROVE  ctl'[op'.run] \in Ended
  <2>1. CASE op' = op /\ stash' = stash
    BY <1>2, <2>1, Persistence DEF SealedRecords, OpInLock, TypeOK
  <2>2. CASE OpNext
    <3>1. op'.run = op.run /\ op.run \in Runs /\ stash' = rec[op.run]
      BY <1>2, <2>2, OpMoves DEF OpInLock, TypeOK, Idle
    <3> QED
      BY <1>2, <3>1, Persistence DEF SealedRecords
  <2>3. CASE \E r \in Runs : CleanupBegin(r) \/ DeleteBegin(r)
    BY <1>2, <2>3 DEF CleanupBegin, DeleteBegin
  <2> QED
    BY <1>2, <2>1, <2>2, <2>3, OpSteps1 DEF OpInLock, Idle
<1>3. ASSUME pc' = "settle", seen'.status \in TERMINAL_STATUSES
      PROVE  rec'[cur'].status = seen'.status
  <2>1. CASE pc = "settle" /\ cur' = cur /\ seen' = seen
    <3>1. cur \in Runs /\ rec[cur].status = seen.status /\ seen.status \in TERMINAL_STATUSES
      BY <1>3, <2>1 DEF TypeOK, SealedRecords
    <3>2. ~OpInLock
      BY <2>1 DEF Exclusion, LoopInLock
    <3> QED
      BY <2>1, <3>1, <3>2, TerminalRecordStays DEF OpInLock
  <2>2. ASSUME NEW r \in Runs, LoopRead(r) PROVE rec'[cur'].status = seen'.status
    BY <2>2 DEF LoopRead, ctlVars
  <2> QED
    BY <1>3, <2>1, <2>2, LoopSteps1
<1> QED
  BY <1>1, <1>2, <1>3 DEF SealedRecords

\* The facts an operation was started on.
LEMMA Begins ==
  ASSUME TypeOK, NEW r \in Runs, CleanupBegin(r) \/ DeleteBegin(r)
  PROVE  /\ op'.run = r /\ UNCHANGED ctl
         /\ \/ op'.kind = "cleanup" /\ op'.step = "request"
            \/ op'.kind = "delete" /\ rows[r].status = "failed" /\ op'.step \in {"request", "stage"}
         /\ op'.step = "request" => rec[r].status \in TERMINAL_STATUSES
<1>1. CASE CleanupBegin(r)
  BY <1>1 DEF CleanupBegin, Cleanable, ctlVars
<1>2. CASE DeleteBegin(r)
  BY <1>2 DEF DeleteBegin, Cleanable, ctlVars
<1> QED
  BY <1>1, <1>2

\* Every step keeps true what an operation in flight has found out.
LEMMA OpHoldsStep ==
  ASSUME IInv, [Next]_vars
  PROVE  OpHolds' /\ CleanupAfterSeal'
<1> USE DEF IInv
<1>1. ASSUME op'.kind = "delete" PROVE rows'[op'.run].status = "failed"
  <2>1. ASSUME NEW x \in Runs, rows[x].status = "failed", op'.kind # "none"
        PROVE  rows'[x].status = "failed"
    <3>1. ~DeleteDrop
      BY <2>1 DEF DeleteDrop, Idle
    <3> QED
      BY <2>1, <3>1, RowMoves DEF Moves, LegalTransition
  <2>2. CASE op' = op
    BY <1>1, <2>1, <2>2 DEF OpHolds, TypeOK
  <2>3. CASE OpNext
    BY <1>1, <2>1, <2>3, OpMoves DEF OpHolds, TypeOK, Idle
  <2>4. ASSUME NEW r \in Runs, CleanupBegin(r) \/ DeleteBegin(r)
        PROVE  rows'[op'.run].status = "failed"
    BY <1>1, <2>1, <2>4, Begins
  <2> QED
    BY <1>1, <2>2, <2>3, <2>4, OpSteps1 DEF Idle
<1>2. op'.kind = "cleanup" => op'.step \notin {"stage", "drop"}
  <2>1. CASE op' = op
    BY <2>1 DEF OpHolds
  <2>2. CASE OpNext
    BY <2>2, OpMoves DEF OpHolds, Idle
  <2>3. CASE \E r \in Runs : CleanupBegin(r) \/ DeleteBegin(r)
    BY <2>3, Begins
  <2> QED
    BY <2>1, <2>2, <2>3, OpSteps1 DEF Idle
<1>3. op'.kind # "none" /\ op'.step \in {"file", "row"} => pod'[op'.run] \in Dead
  <2>1. CASE op' = op
    BY <2>1, Persistence DEF OpHolds, TypeOK, PodIsDead, Dead
  <2>2. CASE OpNext
    <3>1. CASE pod'[op.run] = "gone" /\ op'.run = op.run
      BY <3>1 DEF Dead
    <3> QED
      BY <2>2, <3>1, OpMoves, Persistence DEF OpHolds, TypeOK, Idle, PodIsDead, Dead
  <2>3. CASE \E r \in Runs : CleanupBegin(r) \/ DeleteBegin(r)
    BY <2>3, Begins
  <2> QED
    BY <2>1, <2>2, <2>3, OpSteps1 DEF Idle
<1>4. ASSUME op'.kind # "none", op'.step \in {"request", "await", "file", "row"}
      PROVE  ctl'[op'.run] \in Ended
  <2>1. CASE op' = op
    BY <1>4, <2>1, Persistence DEF CleanupAfterSeal, TypeOK, Ended
  <2>2. CASE OpNext
    BY <1>4, <2>2, OpMoves DEF CleanupAfterSeal, Idle, Ended
  <2>3. ASSUME NEW r \in Runs, CleanupBegin(r) \/ DeleteBegin(r) PROVE ctl'[op'.run] \in Ended
    BY <1>4, <2>3, Begins DEF SealedRecords
  <2> QED
    BY <1>4, <2>1, <2>2, <2>3, OpSteps1 DEF Idle
<1> QED
  BY <1>1, <1>2, <1>3, <1>4 DEF OpHolds, CleanupAfterSeal, Ended, PodIsDead, Dead

\* Every step keeps the completed rows backed by a completed record.
LEMMA CompletedStep ==
  ASSUME IInv, [Next]_vars
  PROVE  CompletedIsRecorded'
<1> USE DEF IInv
<1> SUFFICES ASSUME NEW r \in Runs, rows'[r].status = "completed"
             PROVE  rec'[r].status = "completed"
  BY DEF CompletedIsRecorded
<1>1. CASE rows[r].status = "completed"
  <2>1. rec[r].status = "completed" /\ "completed" \in TERMINAL_STATUSES
    BY <1>1 DEF CompletedIsRecorded, TERMINAL_STATUSES
  <2> QED
    BY <1>1, <2>1, TerminalRecordStays DEF OpHolds
<1>2. CASE rows[r].status # "completed"
  <2>1. LoopSettle
    BY <1>2, RowMoves
  <2>2. r = cur /\ Concluded = "completed"
    BY <1>2, <2>1, Settled
  <2>3. seen.status = "completed"
    BY <1>2, <2>2 DEF Concluded, Verdict
  <2>4. pc = "settle" /\ rec' = rec
    BY <2>1 DEF LoopSettle, ctlVars
  <2> QED
    BY <2>2, <2>3, <2>4 DEF SealedRecords, TERMINAL_STATUSES
<1> QED
  BY <1>1, <1>2

\* A row comes to say "pod_deleted" only from what a record said, or at the end of
\* a cleanup.
LEMMA RowInfra ==
  ASSUME TypeOK, [Next]_vars, NEW x \in Runs, rows'[x].infra = "pod_deleted"
  PROVE  \/ rows[x].infra = "pod_deleted"
         \/ SaysDeleted(rec[x])
         \/ LoopSettle /\ x = cur /\ SaysDeleted(seen)
         \/ op.kind # "none" /\ op.step = "row" /\ x = op.run
<1>0. rows \in [Runs -> Rows]
  BY DEF TypeOK
<1>1. CASE LoopSettle
  <2>1. CASE rows' = rows
    BY <2>1
  <2>2. CASE x = cur /\ seen.status # "missing" /\ rows'[x].infra = InfrastructureState(seen)
    BY <1>1, <2>2 DEF InfrastructureState, SaysDeleted
  <2> QED
    BY <1>1, <2>1, <2>2, Settled
<1>2. ASSUME NEW r \in Runs, LoopRefresh(r)
      PROVE  rows[x].infra = "pod_deleted" \/ SaysDeleted(rec[x])
  <2>1. CASE rows' = rows
    BY <2>1
  <2>2. CASE rows' = [rows EXCEPT ![r].infra = InfrastructureState(rec[r])]
    BY <1>0, <2>2, EditInfra DEF InfrastructureState, SaysDeleted
  <2> QED
    BY <1>2, <2>1, <2>2 DEF LoopRefresh
<1>3. ASSUME NEW r \in Runs, DeleteBegin(r)
      PROVE  rows[x].infra = "pod_deleted" \/ SaysDeleted(rec[x])
  <2>1. CASE rows' = rows
    BY <2>1
  <2>2. CASE /\ rows' = [rows EXCEPT ![r].infra = "pod_deleted"]
             /\ InfrastructureState(rec[r]) = "pod_deleted" \/ rows[r].infra = "pod_deleted"
    BY <1>0, <2>2, EditInfra DEF InfrastructureState, SaysDeleted
  <2> QED
    BY <1>3, <2>1, <2>2 DEF DeleteBegin
<1>4. CASE CleanupRow
  <2>1. /\ op.run \in Runs /\ rows' = [rows EXCEPT ![op.run].infra = "pod_deleted"]
        /\ op.kind # "none" /\ op.step = "row"
    BY <1>4 DEF CleanupRow, TypeOK
  <2> QED
    BY <1>0, <2>1, EditInfra
<1>5. CASE DeleteDrop
  BY <1>5 DEF DeleteDrop, AbsentRow, TypeOK
<1>6. ASSUME NEW r \in Runs, NEW s,
             \/ rows' = rows
             \/ rows' = [rows EXCEPT ![r].status = s]
             \/ rows' = [rows EXCEPT ![r].status = s, ![r].cancel = TRUE]
             \/ rows' = [rows EXCEPT ![r].pid = TRUE]
             \/ rows' = [rows EXCEPT ![r].cancel = TRUE]
      PROVE  rows[x].infra = "pod_deleted"
  <2>1. CASE rows' = [rows EXCEPT ![r].status = s]
    BY <1>0, <2>1, EditStatus
  <2>2. CASE rows' = [rows EXCEPT ![r].status = s, ![r].cancel = TRUE]
    BY <1>0, <2>2, EditStatusCancel
  <2>3. CASE rows' = [rows EXCEPT ![r].pid = TRUE]
    BY <1>0, <2>3, EditPid
  <2>4. CASE rows' = [rows EXCEPT ![r].cancel = TRUE]
    BY <1>0, <2>4, EditCancel
  <2> QED
    BY <1>6, <2>1, <2>2, <2>3, <2>4
<1>7. ASSUME NEW r \in Runs,
             \/ Submit(r) \/ CancelRead(r) \/ CancelQueued(r) \/ CancelMark(r) \/ CancelSignal(r)
             \/ LoopRead(r) \/ LoopClaim(r) \/ CleanupBegin(r)
      PROVE  rows[x].infra = "pod_deleted"
  BY <1>6, <1>7 DEF Submit, CancelRead, CancelQueued, CancelMark, CancelSignal, LoopRead,
     LoopClaim, CleanupBegin
<1>8. ASSUME NEW r \in Runs, ControllerProgress(r) \/ ControllerDies(r) \/ PodVanishes(r)
      PROVE  rows' = rows
  BY <1>8, ControllerFrame DEF ControllerKeeps
<1>9. CASE LoopSpawnFails \/ LoopRecord
  <2>1. cur \in Runs
    BY <1>9 DEF LoopSpawnFails, LoopRecord, TypeOK
  <2>2. \/ rows' = rows
        \/ rows' = [rows EXCEPT ![cur].status = "failed"]
        \/ rows' = [rows EXCEPT ![cur].pid = TRUE]
    BY <1>9 DEF LoopSpawnFails, LoopRecord
  <2> QED
    BY <1>6, <2>1, <2>2
<1>10. CASE \/ LoopBegin \/ LoopListTerminal \/ LoopCount \/ LoopRest \/ LoopSpawn
            \/ LoopSpawnRaises \/ LoopReadRaises \/ LoopRecordFails \/ CleanupRequest \/ CleanupAwait
            \/ CleanupFails \/ CleanupFile \/ DeleteStage \/ DeleteRollback
            \/ ServerCrash \/ ServerStart \/ UNCHANGED vars
  <2>1. rows' = rows
    BY <1>10 DEF LoopBegin, LoopListTerminal, LoopCount, LoopRest, LoopSpawn, LoopSpawnRaises,
       LoopReadRaises, LoopRecordFails, CleanupRequest, CleanupAwait, CleanupFails, CleanupFile,
       DeleteStage, DeleteRollback, ServerCrash, ServerStart, vars
  <2> QED
    BY <2>1
<1> QED
  BY <1>1, <1>2, <1>3, <1>4, <1>5, <1>7, <1>8, <1>9, <1>10 DEF Next, LoopNext, OpNext

\* Every step keeps "deleted" true of the Pods it is said of.
LEMMA DeadPodsStep ==
  ASSUME IInv, [Next]_vars
  PROVE  DeadPods'
<1> USE DEF IInv
<1>0. ASSUME NEW x \in Runs, PodIsDead(x) PROVE pod'[x] \in Dead
  BY <1>0, Persistence DEF PodIsDead, Dead
<1>1. ASSUME NEW x \in Runs, ctl'[x] \in Early PROVE pod'[x] = "none"
  <2>1. CASE LoopSpawn
    <3>1. /\ ctl[cur] = "none" /\ ctl' = [ctl EXCEPT ![cur] = "starting"] /\ pod' = pod
          /\ ctl \in [Runs -> Processes]
      BY <2>1 DEF LoopSpawn, Unspawned, TypeOK
    <3> QED
      BY <1>1, <3>1 DEF Early, DeadPods
  <2>2. CASE ~LoopSpawn
    BY <1>1, <2>2, SteadyStep DEF Steady, Early, DeadPods
  <2> QED
    BY <2>1, <2>2
<1>2. ASSUME NEW x \in Runs, ctl'[x] = "deleted" PROVE pod'[x] \in Dead
  <2>1. CASE LoopSpawn
    <3>1. ctl[x] = "deleted" /\ pod' = pod
      BY <1>2, <2>1 DEF LoopSpawn, TypeOK
    <3> QED
      BY <3>1 DEF DeadPods, PodIsDead, Dead
  <2>2. CASE ~LoopSpawn
    BY <1>2, <2>2, SteadyStep DEF Steady, DeadPods, PodIsDead, Dead
  <2> QED
    BY <2>1, <2>2
<1>3. ASSUME NEW x \in Runs, SaysDeleted(rec'[x]) PROVE pod'[x] \in Dead
  <2>1. CASE rec'[x] = rec[x]
    BY <1>0, <1>3, <2>1 DEF DeadPods
  <2>2. CASE OpNext
    <3>1. CASE x = op.run /\ op.kind # "none" /\ op.step = "file"
      BY <1>0, <3>1 DEF OpHolds
    <3>2. CASE rec'[x] = NoRecord
      BY <1>3, <3>2 DEF SaysDeleted, NoRecord
    <3>3. CASE x = op.run /\ op.kind # "none" /\ op.step = "drop" /\ rec'[x] = stash
      BY <1>0, <1>3, <3>3 DEF DeadPods, OpInLock
    <3> QED
      BY <2>1, <2>2, <3>1, <3>2, <3>3, OpRecords
  <2>3. CASE ~LoopSpawn /\ ~OpNext /\ rec'[x] # rec[x]
    <3>1. ctl[x] = "deleted"
      BY <1>3, <2>3, SteadyStep DEF RecordMoves
    <3> QED
      BY <1>0, <3>1 DEF DeadPods
  <2> QED
    BY <2>1, <2>2, <2>3, SpawnRecords
<1>4. ASSUME NEW x \in Runs, rows'[x].infra = "pod_deleted" PROVE pod'[x] \in Dead
  <2>1. CASE rows[x].infra = "pod_deleted" \/ SaysDeleted(rec[x])
    BY <1>0, <2>1 DEF DeadPods
  <2>2. CASE LoopSettle /\ x = cur /\ SaysDeleted(seen)
    BY <1>0, <2>2 DEF DeadPods, LoopSettle
  <2>3. CASE op.kind # "none" /\ op.step = "row" /\ x = op.run
    BY <1>0, <2>3 DEF OpHolds
  <2> QED
    BY <1>4, <2>1, <2>2, <2>3, RowInfra
<1>5. ASSUME pc' = "settle", SaysDeleted(seen') PROVE pod'[cur'] \in Dead
  <2>1. CASE pc = "settle" /\ cur' = cur /\ seen' = seen
    BY <1>0, <1>5, <2>1 DEF DeadPods, TypeOK
  <2>2. ASSUME NEW r \in Runs, LoopRead(r) PROVE pod'[cur'] \in Dead
    <3>1. cur' = r /\ SaysDeleted(rec[r])
      BY <1>5, <2>2 DEF LoopRead
    <3> QED
      BY <1>0, <3>1 DEF DeadPods
  <2> QED
    BY <1>5, <2>1, <2>2, LoopSteps1
<1>6. ASSUME OpInLock', op'.step = "drop", SaysDeleted(stash') PROVE pod'[op'.run] \in Dead
  <2>1. CASE op' = op /\ stash' = stash
    <3>1. op.run \in Runs /\ PodIsDead(op.run)
      BY <1>6, <2>1 DEF DeadPods, OpInLock, TypeOK
    <3> QED
      BY <1>0, <2>1, <3>1
  <2>2. CASE OpNext
    <3>1. op'.run = op.run /\ op.run \in Runs /\ stash' = rec[op.run]
      BY <1>6, <2>2, OpMoves DEF OpInLock, TypeOK, Idle
    <3> QED
      BY <1>0, <1>6, <3>1 DEF DeadPods
  <2>3. CASE \E r \in Runs : CleanupBegin(r) \/ DeleteBegin(r)
    BY <1>6, <2>3, Begins
  <2> QED
    BY <1>6, <2>1, <2>2, <2>3, OpSteps1 DEF OpInLock, Idle
<1> QED
  BY <1>1, <1>2, <1>3, <1>4, <1>5, <1>6 DEF DeadPods, PodIsDead, Dead, Early

-----------------------------------------------------------------------------
(* The invariant and what follows from it                                   *)

\* The invariant holds initially.
LEMMA IInvInit == Init => IInv
<1> SUFFICES ASSUME Init PROVE IInv
  OBVIOUS
<1>1. /\ pc = "idle" /\ op = Idle /\ rows = [r \in Runs |-> AbsentRow]
      /\ rec = [r \in Runs |-> NoRecord] /\ ctl = [r \in Runs |-> "none"]
      /\ pod = [r \in Runs |-> "none"]
  BY DEF Init, Unborn
<1>2. Exclusion /\ Unspawned /\ OpHolds /\ CleanupAfterSeal
  BY <1>1 DEF Exclusion, LoopInLock, OpInLock, Unspawned, OpHolds, CleanupAfterSeal, Idle
<1>3. SealedRecords /\ DeadPods /\ CompletedIsRecorded
  BY <1>1 DEF SealedRecords, DeadPods, CompletedIsRecorded, OpInLock, Idle, NoRecord, AbsentRow,
     SaysDeleted, TERMINAL_STATUSES
<1> QED
  BY <1>2, <1>3, TypeInit DEF IInv

\* The invariant is inductive.
LEMMA IInvNext == IInv /\ [Next]_vars => IInv'
<1> SUFFICES ASSUME IInv, [Next]_vars PROVE IInv'
  OBVIOUS
<1>1. TypeOK' /\ Unspawned' /\ Exclusion'
  BY TypeNext, UnspawnedStep, ExclusionStep DEF IInv
<1> QED
  BY <1>1, SealedStep, OpHoldsStep, CompletedStep, DeadPodsStep DEF IInv

\* The inductive invariant holds in every reachable state.
LEMMA Invariance == Spec => []IInv
  BY IInvInit, IInvNext, PTL DEF Spec

\* A cleanup never takes a Pod from a controller that still uses it.
THEOREM CleanupSafety == Spec => []CleanupAfterSeal
<1>1. IInv => CleanupAfterSeal
  BY DEF IInv
<1> QED
  BY <1>1, Invariance, PTL

\* A run is shown as completed only if its own controller recorded so.
THEOREM CompletionSafety == Spec => []CompletedIsRecorded
<1>1. IInv => CompletedIsRecorded
  BY DEF IInv
<1> QED
  BY <1>1, Invariance, PTL

\* "pod_deleted" is never said of a running Pod.
THEOREM DeletionTruth == Spec => []PodDeletedIsTrue
<1>1. IInv => PodDeletedIsTrue
  BY DEF IInv, DeadPods, PodDeletedIsTrue, PodIsDead, SaysDeleted
<1> QED
  BY <1>1, Invariance, PTL

-----------------------------------------------------------------------------
(* What a pid in a row is worth: a failed run has no controller left that    *)
(* uses its Pod, and delete_failed drops no row whose Pod still runs.        *)
-----------------------------------------------------------------------------
(* The inductive invariant                                                   *)

\* A pid names a process that was started, the pass holds the pids of the rows,
\* and a row about to get its pid was claimed and not settled since.
PidsAreKnown ==
    /\ \A r \in Runs : rows[r].pid => ctl[r] # "none"
    /\ pc \in {"spawn", "record"} => rows[cur].status \in {"running", "cancelled"}
    /\ pc = "record" => ctl[cur] # "none"
    /\ pc \in {"reconcile", "settle"} => \A r \in todo : snap[r].pid = rows[r].pid
    /\ pc = "settle" => cur \notin todo /\ snap[cur].pid = rows[cur].pid

\* The run directory is moved away only when the Pod it names is going.
StagedPods ==
    op.kind = "delete" /\ op.step = "stage" /\ rows[op.run].pid /\ NamesPod(rec[op.run]) =>
        PodIsDead(op.run)

PInv == IInv /\ PidsAreKnown /\ FailedHasEnded /\ StagedPods /\ DropLeavesNoPod

-----------------------------------------------------------------------------
(* What a step does to the status and the pid of a row                       *)

\* Writing the other fields leaves the pid alone.
LEMMA EditKeepsPid ==
  ASSUME NEW f \in [Runs -> Rows], NEW r \in Runs, NEW x \in Runs, NEW s, NEW i
  PROVE  /\ [f EXCEPT ![r].status = s][x].pid = f[x].pid
         /\ [f EXCEPT ![r].infra = i][x].pid = f[x].pid
         /\ [f EXCEPT ![r].cancel = TRUE][x].pid = f[x].pid
         /\ [f EXCEPT ![r].status = s, ![r].cancel = TRUE][x].pid = f[x].pid
         /\ [f EXCEPT ![r].status = s, ![r].infra = i][x].pid = f[x].pid
  BY DEF Rows

\* A row moves for one of these reasons, or not at all.
RowStep(x) ==
    \/ rows'[x].status = rows[x].status /\ rows'[x].pid = rows[x].pid
    \/ /\ rows'[x].pid = rows[x].pid
       /\ \/ rows[x].status = "absent" /\ rows'[x].status = "queued"
          \/ rows'[x].status = "cancelled"
          \/ LoopClaim(x) /\ rows'[x].status = "running"
          \/ (LoopSettle \/ LoopSpawnFails) /\ x = cur
    \/ rows'[x].status = rows[x].status /\ LoopRecord /\ x = cur
    \/ DeleteDrop /\ x = op.run /\ ~rows'[x].pid /\ rows'[x].status = "deleted"

LEMMA RowSteps ==
  ASSUME TypeOK, [Next]_vars, NEW x \in Runs
  PROVE  RowStep(x)
<1>a. rows \in [Runs -> Rows]
  BY DEF TypeOK
<1>b. ASSUME rows' = rows PROVE RowStep(x)
  BY <1>b DEF RowStep
<1>c. ASSUME NEW r \in Runs, NEW i,
             rows' = [rows EXCEPT ![r].infra = i] \/ rows' = [rows EXCEPT ![r].cancel = TRUE]
      PROVE  RowStep(x)
  <2>1. CASE rows' = [rows EXCEPT ![r].infra = i]
    BY <1>a, <2>1, EditInfra, EditKeepsPid DEF RowStep
  <2>2. CASE rows' = [rows EXCEPT ![r].cancel = TRUE]
    BY <1>a, <2>2, EditCancel, EditKeepsPid DEF RowStep
  <2> QED
    BY <1>c, <2>1, <2>2
<1>1. ASSUME NEW r \in Runs, Submit(r) PROVE RowStep(x)
  <2>1. rows[r].status = "absent" /\ rows' = [rows EXCEPT ![r].status = "queued"]
    BY <1>1 DEF Submit
  <2> QED
    BY <2>1, <1>a, EditStatus, EditKeepsPid DEF RowStep
<1>2. ASSUME NEW r \in Runs, CancelQueued(r) PROVE RowStep(x)
  <2>1. CASE rows' = [rows EXCEPT ![r].status = "cancelled", ![r].cancel = TRUE]
    BY <2>1, <1>a, EditStatusCancel, EditKeepsPid DEF RowStep
  <2> QED
    BY <1>2, <1>b, <2>1 DEF CancelQueued
<1>3. ASSUME NEW r \in Runs, CancelMark(r) \/ LoopRefresh(r) \/ DeleteBegin(r) PROVE RowStep(x)
  BY <1>3, <1>b, <1>c DEF CancelMark, LoopRefresh, DeleteBegin
<1>4. CASE LoopSettle
  <2>1. cur \in Runs
    BY <1>4 DEF LoopSettle, TypeOK
  <2>2. CASE \E s, i : rows' = [rows EXCEPT ![cur].status = s, ![cur].infra = i]
    BY <2>1, <2>2, <1>4, <1>a, EditStatusInfra, EditKeepsPid DEF RowStep
  <2> QED
    BY <1>4, <1>b, <2>2 DEF LoopSettle
<1>5. ASSUME NEW r \in Runs, LoopClaim(r) PROVE RowStep(x)
  <2>1. rows' = [rows EXCEPT ![r].status = "running"]
    BY <1>5 DEF LoopClaim
  <2> QED
    BY <2>1, <1>5, <1>a, EditStatus, EditKeepsPid DEF RowStep
<1>6. CASE LoopSpawnFails
  <2>1. cur \in Runs
    BY <1>6 DEF LoopSpawnFails, TypeOK
  <2>2. CASE rows' = [rows EXCEPT ![cur].status = "failed"]
    BY <2>1, <2>2, <1>6, <1>a, EditStatus, EditKeepsPid DEF RowStep
  <2> QED
    BY <1>6, <1>b, <2>2 DEF LoopSpawnFails
<1>7. CASE LoopRecord
  <2>1. cur \in Runs
    BY <1>7 DEF LoopRecord, TypeOK
  <2>2. CASE rows' = [rows EXCEPT ![cur].pid = TRUE]
    <3>1. rows'[x].status = rows[x].status /\ (x # cur => rows'[x].pid = rows[x].pid)
      BY <2>1, <2>2, <1>a, EditPid DEF Rows
    <3> QED
      BY <3>1, <1>7 DEF RowStep
  <2> QED
    BY <1>7, <1>b, <2>2 DEF LoopRecord
<1>8. CASE CleanupRow
  BY <1>8, <1>c DEF CleanupRow, TypeOK
<1>9. CASE DeleteDrop
  <2>1. /\ op.run \in Runs
        /\ rows' = [rows EXCEPT ![op.run] = [AbsentRow EXCEPT !.status = "deleted"]]
    BY <1>9 DEF DeleteDrop, TypeOK
  <2> QED
    BY <2>1, <1>9, <1>a DEF RowStep, AbsentRow
<1>10. ASSUME NEW r \in Runs, \/ ControllerProgress(r) \/ ControllerDies(r) \/ PodVanishes(r)
                              \/ CancelRead(r) \/ CancelSignal(r) \/ CleanupBegin(r) \/ LoopRead(r)
       PROVE RowStep(x)
  <2>1. rows' = rows
    BY <1>10, ControllerFrame DEF ControllerKeeps, CancelRead, CancelSignal, CleanupBegin,
       LoopRead
  <2> QED
    BY <2>1, <1>b
<1>11. CASE \/ LoopBegin \/ LoopListTerminal \/ LoopCount \/ LoopRest \/ LoopSpawn
            \/ LoopSpawnRaises \/ LoopReadRaises \/ LoopRecordFails \/ CleanupRequest \/ CleanupAwait
            \/ CleanupFails \/ CleanupFile \/ DeleteStage \/ DeleteRollback
            \/ ServerCrash \/ ServerStart \/ UNCHANGED vars
  <2>1. rows' = rows
    BY <1>11 DEF LoopBegin, LoopListTerminal, LoopCount, LoopRest, LoopSpawn, LoopSpawnRaises,
       LoopReadRaises, LoopRecordFails, CleanupRequest, CleanupAwait, CleanupFails, CleanupFile,
       DeleteStage, DeleteRollback, ServerCrash, ServerStart, vars
  <2> QED
    BY <2>1, <1>b
<1> QED
  BY <1>1, <1>2, <1>3, <1>4, <1>5, <1>6, <1>7, <1>8, <1>9, <1>10, <1>11 DEF Next, LoopNext, OpNext

\* A started controller leaves a trace.
LEMMA StartedStays ==
  ASSUME TypeOK, [Next]_vars, NEW x \in Runs, ctl[x] # "none"
  PROVE  ctl'[x] # "none"
<1>1. CASE LoopSpawn
  BY <1>1 DEF LoopSpawn, TypeOK
<1>2. CASE ~LoopSpawn
  BY <1>2, SteadyStep DEF Steady
<1> QED
  BY <1>1, <1>2

\* The steps that lead into and through a pass.
LEMMA LoopSteps2 ==
  ASSUME TypeOK, [Next]_vars
  PROVE  \/ UNCHANGED loopVars /\ ~LoopNext
         \/ LoopNext /\ UNCHANGED op
         \/ pc' \in {"down", "idle"}
<1>1. CASE LoopNext
  <2>1. op' = op
    BY <1>1 DEF LoopNext, LoopBegin, LoopSettle, LoopListTerminal, LoopCount, LoopRest, LoopSpawn,
       LoopSpawnFails, LoopSpawnRaises, LoopReadRaises, LoopRecord, LoopRecordFails, LoopRead,
       LoopRefresh, LoopClaim, LoopKeeps, opVars
  <2> QED
    BY <1>1, <2>1
<1>2. CASE ServerCrash \/ ServerStart
  BY <1>2 DEF ServerCrash, ServerStart
<1>3. CASE ~LoopNext /\ (OpNext \/ UNCHANGED vars)
  BY <1>3 DEF OpNext, CleanupRequest, CleanupAwait, CleanupFails, CleanupFile, CleanupRow,
     DeleteStage, DeleteDrop, DeleteRollback, OpKeeps, vars
<1>4. ASSUME NEW r \in Runs, ~LoopNext,
             \/ Submit(r) \/ CancelRead(r) \/ CancelQueued(r) \/ CancelMark(r) \/ CancelSignal(r)
             \/ CleanupBegin(r) \/ DeleteBegin(r)
      PROVE  UNCHANGED loopVars
  BY <1>4 DEF Submit, CancelRead, CancelQueued, CancelMark, CancelSignal, CleanupBegin,
     DeleteBegin, OpKeeps
<1>5. ASSUME NEW r \in Runs, ControllerProgress(r) \/ ControllerDies(r) \/ PodVanishes(r)
      PROVE  UNCHANGED loopVars
  BY <1>5, ControllerFrame DEF ControllerKeeps
<1> QED
  BY <1>1, <1>2, <1>3, <1>4, <1>5 DEF Next

-----------------------------------------------------------------------------
(* Every step keeps the invariant                                            *)

\* Outside a cleanup call the pid of a row changes only from LoopRecord.
LEMMA PidStays ==
  ASSUME IInv, PidsAreKnown, [Next]_vars, NEW x \in Runs, ~LoopRecord, ~OpInLock
  PROVE  rows'[x].pid = rows[x].pid
<1>1. ~DeleteDrop
  BY DEF DeleteDrop, OpInLock
<1> QED
  BY <1>1, RowSteps DEF RowStep, IInv

LEMMA PidsStep ==
  ASSUME IInv, PidsAreKnown, [Next]_vars
  PROVE  PidsAreKnown'
<1> USE DEF IInv
<1>1. ASSUME NEW x \in Runs, rows'[x].pid PROVE ctl'[x] # "none"
  <2>1. CASE rows[x].pid
    BY <2>1, StartedStays DEF PidsAreKnown
  <2>2. CASE ~rows[x].pid
    <3>1. LoopRecord /\ x = cur
      BY <1>1, <2>2, RowSteps DEF RowStep, TypeOK, Rows
    <3>2. ctl[x] # "none"
      BY <3>1 DEF LoopRecord, PidsAreKnown
    <3> QED
      BY <3>2, StartedStays
  <2> QED
    BY <2>1, <2>2
<1>2. ASSUME UNCHANGED loopVars, ~LoopNext PROVE PidsAreKnown'
  <2>0. ~LoopSettle /\ ~LoopSpawnFails /\ ~LoopRecord /\ \A r \in Runs : ~LoopClaim(r)
    BY <1>2 DEF LoopNext
  <2>1. pc' = pc /\ cur' = cur /\ todo' = todo /\ snap' = snap
    BY <1>2 DEF loopVars
  <2>2. ASSUME pc \in {"spawn", "record"} PROVE rows'[cur].status \in {"running", "cancelled"}
    <3>1. cur \in Runs /\ rows[cur].status \in {"running", "cancelled"}
      BY <2>2 DEF TypeOK, PidsAreKnown
    <3>2. ~(DeleteDrop /\ cur = op.run)
      BY <3>1 DEF DeleteDrop
    <3> QED
      BY <2>0, <3>1, <3>2, RowSteps DEF RowStep
  <2>3. ASSUME pc = "record" PROVE ctl'[cur] # "none"
    BY <2>3, StartedStays DEF PidsAreKnown, TypeOK
  <2>4. ASSUME pc \in {"reconcile", "settle"}, NEW r \in Runs PROVE rows'[r].pid = rows[r].pid
    BY <2>0, <2>4, PidStays DEF Exclusion, LoopInLock
  <2>5. pc = "settle" => cur \in Runs
    BY DEF TypeOK
  <2>6. todo \subseteq Runs
    BY DEF TypeOK
  <2> QED
    BY <1>1, <2>1, <2>2, <2>3, <2>4, <2>5, <2>6 DEF PidsAreKnown
<1>3. CASE LoopNext
  <2>a. /\ rows \in [Runs -> Rows] /\ snap \in [Runs -> Rows] /\ todo \subseteq Runs
        /\ ctl \in [Runs -> Processes]
    BY DEF TypeOK
  <2>1. CASE pc' \notin {"spawn", "record", "reconcile", "settle"}
    BY <1>1, <2>1 DEF PidsAreKnown
  <2>2. CASE LoopBegin
    <3>1. /\ pc' = "reconcile" /\ rows' = rows /\ todo' \subseteq Runs
          /\ \A r \in todo' : snap'[r] = rows[r]
      BY <2>2 DEF LoopBegin
    <3> QED
      BY <1>1, <3>1 DEF PidsAreKnown
  <2>3. ASSUME NEW r \in Runs, LoopRead(r) PROVE PidsAreKnown'
    <3>1. /\ pc = "reconcile" /\ pc' = "settle" /\ rows' = rows /\ snap' = snap /\ r \in todo
          /\ todo' = todo \ {r} /\ cur' = r
      BY <2>3 DEF LoopRead
    <3> QED
      BY <1>1, <3>1 DEF PidsAreKnown
  <2>4. CASE LoopSettle /\ pc' = "reconcile"
    <3>1. /\ pc = "settle" /\ todo' = todo /\ snap' = [snap EXCEPT ![cur] = AbsentRow]
      BY <2>4 DEF LoopSettle, AbandonPass
    <3>2. ~LoopRecord /\ ~OpInLock
      BY <3>1 DEF LoopRecord, Exclusion, LoopInLock
    <3>3. \A r \in Runs : rows'[r].pid = rows[r].pid
      BY <3>2, PidStays
    <3>4. \A r \in todo : r # cur /\ snap'[r] = snap[r]
      BY <3>1, <2>a DEF PidsAreKnown
    <3> QED
      BY <1>1, <2>4, <2>a, <3>1, <3>3, <3>4 DEF PidsAreKnown
  <2>5. ASSUME NEW r \in Runs, LoopClaim(r) PROVE PidsAreKnown'
    <3>1. /\ pc' = "spawn" /\ cur' = r /\ rows' = [rows EXCEPT ![r].status = "running"]
      BY <2>5 DEF LoopClaim
    <3>2. rows'[r].status = "running"
      BY <3>1, <2>a, EditStatus
    <3> QED
      BY <1>1, <3>1, <3>2 DEF PidsAreKnown
  <2>6. CASE LoopSpawn
    <3>1. /\ pc = "spawn" /\ pc' = "record" /\ cur' = cur /\ rows' = rows /\ cur \in Runs
          /\ ctl'[cur] = "starting"
      BY <2>6, <2>a DEF LoopSpawn, TypeOK
    <3> QED
      BY <1>1, <3>1 DEF PidsAreKnown
  <2>7. CASE LoopSpawnFails \/ LoopSpawnRaises \/ LoopReadRaises \/ LoopRecord
             \/ LoopRecordFails \/ LoopCount \/ LoopRest \/ LoopListTerminal \/ \E r \in Runs : LoopRefresh(r)
    <3>1. pc' \notin {"spawn", "record", "reconcile", "settle"}
      BY <2>7 DEF LoopSpawnFails, LoopSpawnRaises, LoopReadRaises, LoopRecord, LoopRecordFails,
         LoopCount, LoopRest, LoopListTerminal, LoopRefresh, AbandonPass
    <3> QED
      BY <2>1, <3>1
  <2>8. CASE LoopSettle /\ pc' # "reconcile"
    <3>1. pc' = "idle"
      BY <2>8 DEF LoopSettle, AbandonPass
    <3> QED
      BY <2>1, <3>1
  <2> QED
    BY <1>3, <2>2, <2>3, <2>4, <2>5, <2>6, <2>7, <2>8 DEF LoopNext
<1>4. CASE pc' \in {"down", "idle"}
  BY <1>1, <1>4 DEF PidsAreKnown
<1> QED
  BY <1>2, <1>3, <1>4, LoopSteps2

\* A failed row with a pid keeps it, and comes from a record or a dead process.
LEMMA FailedStep ==
  ASSUME IInv, PidsAreKnown, FailedHasEnded, [Next]_vars
  PROVE  FailedHasEnded'
<1> USE DEF IInv
<1> SUFFICES ASSUME NEW x \in Runs, rows'[x].status = "failed", rows'[x].pid
             PROVE  ctl'[x] \in Ended
  BY DEF FailedHasEnded, Ended
<1>1. CASE rows[x].status = "failed" /\ rows[x].pid
  <2>1. ctl[x] \in Ended
    BY <1>1 DEF FailedHasEnded, Ended
  <2> QED
    BY <2>1, Persistence
<1>2. CASE LoopRecord /\ x = cur
  <2>1. rows[x].status \in {"running", "cancelled"}
    BY <1>2 DEF LoopRecord, PidsAreKnown
  <2>2. ~LoopSettle /\ ~LoopSpawnFails /\ ~DeleteDrop
    BY <1>2 DEF LoopRecord, LoopSettle, LoopSpawnFails, DeleteDrop, LoopKeeps, opVars, Idle
  <2> QED
    BY <2>1, <2>2, RowSteps DEF RowStep
<1>3. CASE LoopSpawnFails /\ x = cur
  <2>1. ctl[x] = "none"
    BY <1>3 DEF LoopSpawnFails, Unspawned
  <2>2. rows'[x].pid = rows[x].pid \/ LoopRecord \/ DeleteDrop
    BY RowSteps DEF RowStep
  <2>3. ~LoopRecord /\ ~DeleteDrop
    BY <1>3 DEF LoopRecord, LoopSpawnFails, DeleteDrop, LoopKeeps, opVars, Idle
  <2> QED
    BY <2>1, <2>2, <2>3 DEF PidsAreKnown
<1>4. CASE LoopSettle /\ x = cur /\ ~(rows[x].status = "failed" /\ rows[x].pid)
  <2>0. /\ pc = "settle" /\ ctl' = ctl /\ ~LoopRecord /\ ~OpInLock
    BY <1>4 DEF LoopSettle, ctlVars, LoopRecord, Exclusion, LoopInLock
  <2>1. rows[x].pid /\ snap[x].pid
    BY <1>4, <2>0, PidStays DEF PidsAreKnown
  <2>2. Concluded = "failed" /\ rows[x].status # "failed"
    BY <1>4, <2>1, Settled
  <2>3. CASE seen.status \in TERMINAL_STATUSES
    <3>1. rec[x].status = seen.status
      BY <1>4, <2>0, <2>3 DEF SealedRecords
    <3> QED
      BY <2>0, <2>3, <3>1 DEF SealedRecords
  <2>4. CASE seen.status \notin TERMINAL_STATUSES
    <3>1. HasExited(x, snap[x].pid)
      BY <1>4, <2>2, <2>4 DEF Concluded, Verdict
    <3>2. ctl[x] # "none"
      BY <2>1 DEF PidsAreKnown
    <3>3. ctl[x] = "exited"
      BY <2>1, <3>1, <3>2 DEF HasExited, PidAlive, Live
    <3> QED
      BY <2>0, <3>3 DEF Ended
  <2> QED
    BY <2>3, <2>4
<1> QED
  BY <1>1, <1>2, <1>3, <1>4, RowSteps DEF RowStep

\* What a delete call relies on while it holds the lock: its row is failed and
\* keeps its pid, and the record of a controller that ended does not move.
LEMMA DeleteHolds ==
  ASSUME IInv, PidsAreKnown, FailedHasEnded, [Next]_vars,
         op.kind = "delete", op'.kind = "delete", op'.run = op.run, rows'[op.run].pid
  PROVE  rows[op.run].pid /\ ctl[op.run] \in Ended
<1> USE DEF IInv
<1>1. op.run \in Runs /\ rows[op.run].status = "failed"
  BY DEF TypeOK, OpHolds
<1>2. ~(LoopRecord /\ op.run = cur)
  BY <1>1 DEF LoopRecord, PidsAreKnown
<1>3. ~DeleteDrop
  BY DEF DeleteDrop, Idle
<1>4. rows'[op.run].pid = rows[op.run].pid
  BY <1>1, <1>2, <1>3, RowSteps DEF RowStep
<1> QED
  BY <1>1, <1>4 DEF FailedHasEnded, Ended

\* Every step keeps the Pods of a run that is being deleted on their way out.
LEMMA StagedStep ==
  ASSUME IInv, PidsAreKnown, FailedHasEnded, StagedPods, DropLeavesNoPod, [Next]_vars
  PROVE  StagedPods' /\ DropLeavesNoPod'
<1> USE DEF IInv
<1>1. ASSUME NEW x \in Runs, PodIsDead(x) PROVE pod'[x] \in Dead
  BY <1>1, Persistence DEF PodIsDead, Dead
<1>2. ASSUME op'.kind = "delete", op'.step = "stage", rows'[op'.run].pid, NamesPod(rec'[op'.run])
      PROVE  pod'[op'.run] \in Dead
  <2>1. CASE op' = op /\ ~OpNext
    <3>1. op.run \in Runs /\ rows[op.run].pid /\ ctl[op.run] \in Ended
      BY <1>2, <2>1, DeleteHolds DEF TypeOK
    <3>2. rec'[op.run] = rec[op.run]
      BY <2>1, <3>1, SpawnRecords, SteadyStep DEF RecordMoves
    <3> QED
      BY <1>1, <1>2, <2>1, <3>1, <3>2 DEF StagedPods
  <2>2. CASE OpNext
    <3>1. op'.run = op.run /\ op.run \in Runs /\ op.kind = "delete" /\ op.step = "row"
      BY <1>2, <2>2, OpMoves DEF Idle, TypeOK
    <3> QED
      BY <1>1, <3>1 DEF OpHolds
  <2>3. ASSUME NEW r \in Runs, DeleteBegin(r) PROVE pod'[op'.run] \in Dead
    <3>1. /\ op' = [kind |-> "delete", run |-> r, step |-> op'.step] /\ rec' = rec
      BY <2>3 DEF DeleteBegin, ctlVars
    <3>2. op'.run = r /\ NamesPod(rec[r])
      BY <1>2, <3>1
    <3>a. op'.step = "stage"
      BY <1>2
    <3>3. \/ (IF rec[r].status # "missing" THEN InfrastructureState(rec[r]) ELSE rows[r].infra) = "pod_deleted"
          \/ rows[r].infra = "not_created" /\ ~NamesPod(rec[r])
      BY <3>a, <2>3 DEF DeleteBegin
    <3>4. SaysDeleted(rec[r]) \/ rows[r].infra = "pod_deleted"
      BY <3>2, <3>3 DEF InfrastructureState, SaysDeleted
    <3> QED
      BY <1>1, <3>2, <3>4 DEF DeadPods
  <2>4. ASSUME NEW r \in Runs, CleanupBegin(r) PROVE FALSE
    BY <1>2, <2>4 DEF CleanupBegin
  <2> QED
    BY <1>2, <2>1, <2>2, <2>3, <2>4, OpSteps1 DEF Idle
<1>3. ASSUME op'.kind = "delete", op'.step = "drop", rows'[op'.run].pid, NamesPod(stash')
      PROVE  pod'[op'.run] \in Dead
  <2>1. CASE op' = op /\ stash' = stash
    <3>1. op.run \in Runs /\ rows[op.run].pid
      BY <1>3, <2>1, DeleteHolds DEF TypeOK
    <3> QED
      BY <1>1, <1>3, <2>1, <3>1 DEF DropLeavesNoPod, PodIsDead
  <2>2. CASE OpNext
    <3>1. /\ op'.run = op.run /\ op.run \in Runs /\ op.kind = "delete" /\ op.step = "stage"
          /\ stash' = rec[op.run]
      BY <1>3, <2>2, OpMoves DEF Idle, TypeOK
    <3>2. rows[op.run].pid
      BY <1>3, <3>1, DeleteHolds
    <3> QED
      BY <1>1, <1>3, <3>1, <3>2 DEF StagedPods
  <2>3. CASE \E r \in Runs : CleanupBegin(r) \/ DeleteBegin(r)
    BY <1>3, <2>3, Begins
  <2> QED
    BY <1>3, <2>1, <2>2, <2>3, OpSteps1 DEF Idle
<1> QED
  BY <1>2, <1>3 DEF StagedPods, DropLeavesNoPod, PodIsDead, Dead

-----------------------------------------------------------------------------
(* The limit on controllers                                                  *)

\* A process that is gone is gone.
LEMMA ExitedStays ==
  ASSUME TypeOK, [Next]_vars, NEW x \in Runs, ctl[x] = "exited", ~LoopSpawn
  PROVE  ctl'[x] = "exited"
<1>1. CASE UNCHANGED ctlVars
  BY <1>1 DEF ctlVars
<1>2. CASE OpNext
  BY <1>2 DEF OpNext, CleanupRequest, CleanupAwait, CleanupFails, CleanupFile, CleanupRow,
     DeleteStage, DeleteDrop, DeleteRollback, ctlVars
<1>3. ASSUME NEW r \in Runs, CancelSignal(r) PROVE ctl'[x] = "exited"
  BY <1>3 DEF CancelSignal, Interrupt, AfterInterrupt, TypeOK
<1>4. ASSUME NEW r \in Runs, ControllerProgress(r) \/ ControllerDies(r) \/ PodVanishes(r)
      PROVE  ctl'[x] = "exited"
  BY <1>4 DEF TypeOK, Becomes, ControllerProgress, ControllerOpens, ControllerRequestsPod,
     ControllerOwnsPod, ControllerLosesReply, ControllerCloses, ControllerDeletesPod,
     ControllerDeletionFails, ControllerSeals, ControllerExits, ControllerDies, PodVanishes
<1> QED
  BY <1>1, <1>2, <1>3, <1>4, OthersSteady

\* No controller becomes tracked but the one whose pid is recorded.
LEMMA TrackedGrows ==
  ASSUME IInv, PidsAreKnown, [Next]_vars, NEW x \in Tracked', x \notin Tracked
  PROVE  LoopRecord /\ x = cur
<1> USE DEF IInv
<1>1. /\ x \in Runs /\ rows'[x].status \in ACTIVE_STATUSES /\ rows'[x].pid
      /\ ctl'[x] \notin {"none", "exited"}
  BY DEF Tracked, Live
<1> SUFFICES ASSUME ~(LoopRecord /\ x = cur) PROVE FALSE
  OBVIOUS
<1>2. rows[x].pid
  BY <1>1, RowSteps DEF RowStep, TypeOK, Rows
<1>3. ctl[x] # "none"
  BY <1>1, <1>2 DEF PidsAreKnown
<1>4. ctl[x] # "exited"
  <2>1. CASE LoopSpawn
    <3>1. ctl[cur] = "none" /\ ctl' = [ctl EXCEPT ![cur] = "starting"]
      BY <2>1 DEF LoopSpawn, Unspawned
    <3> QED
      BY <1>1, <1>3, <3>1 DEF TypeOK
  <2>2. CASE ~LoopSpawn
    BY <1>1, <2>2, ExitedStays
  <2> QED
    BY <2>1, <2>2
<1>5. rows[x].status \in ACTIVE_STATUSES
  <2>1. rows[x].status \notin {"absent", "queued"}
    BY <1>1, <1>3 DEF Unspawned
  <2>2. Moves(rows[x].status, rows'[x].status)
    BY <1>1, RowMoves
  <2>3. rows[x].status \in CONTROL_STATUSES \cup {"absent", "deleted"}
    BY <1>1 DEF TypeOK, Rows
  <2> QED
    BY <1>1, <2>1, <2>2, <2>3 DEF Moves, LegalTransition, ACTIVE_STATUSES, TERMINAL_STATUSES,
       CONTROL_STATUSES
<1> QED
  BY <1>1, <1>2, <1>3, <1>4, <1>5 DEF Tracked, Live

\* What a pass still may start fits beside the controllers it knows of.
SlotsFit == pc \in {"claim", "spawn", "record"} => Cardinality(Tracked) + slots <= MaxParallel

LEMMA TrackedFacts ==
  ASSUME TypeOK
  PROVE  /\ IsFiniteSet(Tracked) /\ Cardinality(Tracked) \in Nat
         /\ IsFiniteSet(Counted) /\ Cardinality(Counted) \in Nat
         /\ Cardinality(Tracked) <= Cardinality(Counted)
<1>1. Tracked \subseteq Counted /\ Counted \subseteq Runs
  BY DEF Tracked, Counted, PidAlive
<1>2. IsFiniteSet(Counted) /\ IsFiniteSet(Tracked)
  BY <1>1, RunsAssumption, FS_Subset
<1> QED
  BY <1>1, <1>2, FS_Subset, FS_CardinalityType

\* The arithmetic of it: n and m controllers before and after a step, k slots.
LEMMA Fits ==
  ASSUME NEW n \in Nat, NEW m \in Nat, NEW k \in Nat, NEW b \in Nat
  PROVE  /\ m <= n /\ n <= b => m <= b
         /\ m <= n /\ n + k <= b => m + k <= b
         /\ m <= n + 1 /\ k # 0 /\ n + k <= b => m <= b /\ m + (k - 1) <= b
         /\ m <= n /\ k # 0 /\ n + k <= b => m + (k - 1) <= b
         /\ m <= n /\ n <= k => (IF k > b THEN m <= b => m + 0 <= b ELSE m + (b - k) <= b)
  OBVIOUS

\* Every step keeps the limit.
LEMMA BoundStep ==
  ASSUME IInv, PidsAreKnown, TrackedBound, SlotsFit, [Next]_vars
  PROVE  TrackedBound' /\ SlotsFit'
<1> USE DEF IInv
<1>s. IsFiniteSet(Tracked) /\ IsFiniteSet(Tracked')
  <2>1. Tracked \in SUBSET Runs /\ Tracked' \in SUBSET Runs
    BY DEF Tracked
  <2> QED
    BY <2>1, RunsAssumption, FS_Subset
<1> DEFINE n == Cardinality(Tracked)
           m == Cardinality(Tracked')
           c == Cardinality(Counted)
<1>t. n \in Nat /\ m \in Nat /\ c \in Nat /\ n <= c /\ slots \in Nat /\ MaxParallel \in Nat
  BY <1>s, TrackedFacts, FS_CardinalityType, ParallelAssumption DEF TypeOK
<1>b. n <= MaxParallel /\ (pc \in {"claim", "spawn", "record"} => n + slots <= MaxParallel)
  BY DEF TrackedBound, SlotsFit
<1>g. SUFFICES /\ m <= MaxParallel
               /\ pc' \in {"claim", "spawn", "record"} => m + slots' <= MaxParallel
  BY DEF TrackedBound, SlotsFit
<1>a. LoopRecord => m <= n + 1
  <2>1. ASSUME LoopRecord PROVE m <= n + 1
    <3> DEFINE all == Tracked \cup {cur}
    <3>1. IsFiniteSet(all) /\ Cardinality(all) = IF cur \in Tracked THEN n ELSE n + 1
      BY <1>s, FS_AddElement
    <3>2. Tracked' \in SUBSET all
      BY TrackedGrows
    <3>3. m <= Cardinality(all)
      BY <3>1, <3>2, FS_Subset
    <3> HIDE DEF n, m, all
    <3> QED
      BY <1>t, <3>1, <3>3
  <2> QED
    BY <2>1
<1>o. ~LoopRecord => m <= n
  <2>1. ASSUME ~LoopRecord PROVE m <= n
    <3>1. Tracked' \in SUBSET Tracked
      BY <2>1, TrackedGrows
    <3> QED
      BY <1>s, <3>1, FS_Subset
  <2> QED
    BY <2>1
<1> HIDE DEF n, m, c
<1>1. CASE LoopRecord
  <2>1. pc = "record" /\ slots # 0
    BY <1>1 DEF LoopRecord, TypeOK
  <2>2. (pc' = "claim" /\ slots' = slots - 1) \/ pc' = "idle"
    BY <1>1 DEF LoopRecord, AbandonPass
  <2> QED
    BY <1>t, <1>b, <1>a, <1>1, <2>1, <2>2, Fits
<1>2. CASE ~LoopRecord
  <2>1. m <= n /\ m <= MaxParallel
    BY <1>2, <1>o, <1>t, <1>b, Fits
  <2>2. CASE UNCHANGED <<pc, slots>>
    BY <1>t, <1>b, <2>1, <2>2, Fits
  <2>3. CASE LoopCount
    <3>1. slots' = IF c > MaxParallel THEN 0 ELSE MaxParallel - c
      BY <2>3 DEF LoopCount, c
    <3> QED
      BY <1>t, <2>1, <3>1, Fits
  <2>4. CASE LoopSpawn \/ \E r \in Runs : LoopClaim(r)
    <3>1. pc \in {"claim", "spawn"} /\ slots' = slots
      BY <2>4 DEF LoopSpawn, LoopClaim
    <3> QED
      BY <1>t, <1>b, <2>1, <3>1, Fits
  <2>5. CASE LoopSpawnFails
    <3>1. pc = "spawn" /\ slots # 0 /\ (slots' = slots - 1 \/ pc' = "idle")
      BY <2>5 DEF LoopSpawnFails, AbandonPass, TypeOK
    <3> QED
      BY <1>t, <1>b, <2>1, <3>1, Fits
  <2>6. CASE LoopBegin \/ LoopSettle \/ LoopListTerminal \/ LoopRest \/ LoopSpawnRaises
             \/ LoopReadRaises \/ LoopRecordFails \/ (\E r \in Runs : LoopRead(r) \/ LoopRefresh(r)) \/ pc' \in {"down", "idle"}
    <3>1. pc' \notin {"claim", "spawn", "record"}
      BY <2>6 DEF LoopBegin, LoopSettle, LoopListTerminal, LoopRest, LoopSpawnRaises,
         LoopReadRaises, LoopRecordFails, LoopRead, LoopRefresh, AbandonPass
    <3> QED
      BY <2>1, <3>1
  <2> QED
    BY <1>2, <2>2, <2>3, <2>4, <2>5, <2>6, LoopSteps2 DEF LoopNext, loopVars
<1> QED
  BY <1>1, <1>2

-----------------------------------------------------------------------------
(* The theorems                                                              *)

LEMMA PInvInit == Init => PInv
<1> SUFFICES ASSUME Init PROVE PInv
  OBVIOUS
<1>1. pc = "idle" /\ op = Idle /\ rows = [r \in Runs |-> AbsentRow]
  BY DEF Init
<1>2. PidsAreKnown /\ FailedHasEnded /\ StagedPods /\ DropLeavesNoPod
  BY <1>1 DEF PidsAreKnown, FailedHasEnded, StagedPods, DropLeavesNoPod, Idle, AbsentRow
<1> QED
  BY <1>2, IInvInit DEF PInv

LEMMA PInvNext == PInv /\ [Next]_vars => PInv'
  BY IInvNext, PidsStep, FailedStep, StagedStep DEF PInv

LEMMA PInvariance == Spec => []PInv
  BY PInvInit, PInvNext, PTL DEF Spec

\* A failed run with a pid has no controller left that uses its Pod.
THEOREM FailureTruth == Spec => []FailedHasEnded
<1>1. PInv => FailedHasEnded
  BY DEF PInv
<1> QED
  BY <1>1, PInvariance, PTL

\* delete_failed does not drop the row of a run whose pid was recorded while the Pod
\* that its record names still runs; of a row without a pid nothing is said.
THEOREM DropSafety == Spec => []DropLeavesNoPod
<1>1. PInv => DropLeavesNoPod
  BY DEF PInv
<1> QED
  BY <1>1, PInvariance, PTL

\* However many runs are submitted, cancelled and lost, the control plane knows
\* of no more live controllers than max_parallel.
THEOREM Capacity == Spec => []TrackedBound
<1>1. Init => TrackedBound /\ SlotsFit
  <2> SUFFICES ASSUME Init PROVE TrackedBound /\ SlotsFit
    OBVIOUS
  <2>1. Tracked = {} /\ pc = "idle"
    BY DEF Init, Tracked, AbsentRow
  <2> QED
    BY <2>1, FS_EmptySet, ParallelAssumption DEF TrackedBound, SlotsFit
<1>2. PInv /\ TrackedBound /\ SlotsFit /\ [Next]_vars => TrackedBound' /\ SlotsFit'
  BY BoundStep DEF PInv
<1> QED
  BY <1>1, <1>2, PInvariance, PTL DEF Spec

=============================================================================
