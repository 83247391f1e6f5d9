---------------------------- MODULE ControlPlane ----------------------------
(***************************************************************************)
(* The local control plane of euboulia (src/euboulia/control.py): the      *)
(* durable queue in control.sqlite3, the scheduling loop of the task       *)
(* manager, the request threads of the HTTP server, and the independent    *)
(* controller processes, each of which owns one run.json and one Pod.      *)
(*                                                                         *)
(* The loop and the requests interleave at every point where the code      *)
(* releases what it read: the list of active rows, run.json, the exit      *)
(* code, the claimed row and the new process id are read or written in     *)
(* separate steps.  Only reconcile, cleanup_pod and delete_failed exclude  *)
(* each other (_maintenance_lock).  The server may crash at any step; the  *)
(* controllers survive it.                                                 *)
(***************************************************************************)
EXTENDS ControlStatus, Naturals, FiniteSets, Sequences

CONSTANTS
    Runs,             \* the run uids that may be submitted
    MaxParallel,      \* --max-parallel
    MaxCrashes,       \* bound on server crashes
    ExplicitContext,  \* executor.context is configured
    Cancels,          \* the runs a user may cancel
    Cleans,           \* the runs whose Pod or record a user may delete
    Faulty,           \* the runs whose controller may die and Pod may be lost
    Unreadable,       \* the runs whose run.json cannot be read once it is there
    NoRun             \* "no run": not a run uid

ASSUME RunsAssumption == IsFiniteSet(Runs) /\ NoRun \notin Runs
ASSUME ParallelAssumption == MaxParallel \in Nat \ {0}
ASSUME CrashAssumption == MaxCrashes \in Nat
ASSUME ContextAssumption == ExplicitContext \in BOOLEAN
ASSUME UserAssumption == {Cancels, Cleans, Faulty, Unreadable} \subseteq SUBSET Runs

VARIABLES
    rows,     \* control_runs, one row per run
    queue,    \* the runs in order of submitted_at
    pc,       \* where the loop thread is; "down" when no server runs
    snap,     \* rows as store.list returned them to this pass
    todo,     \* runs this pass has not come to yet
    cur,      \* the run the loop is working on
    seen,     \* run.json of cur as this pass read it
    slots,    \* claims left to this pass
    kids,     \* keys of TaskManager._children
    asks,     \* the cancel request in flight for each run
    op,       \* the cleanup_pod or delete_failed call in flight
    stash,    \* run.json while delete_failed has it in its staging directory
    ctl,      \* the controller process of each run
    rec,      \* run.json of each run
    mine,     \* the controller knows its Pod: self._pod is not None
    pod,      \* the Pod of each run, in the cluster
    crashes   \* server crashes so far

loopVars == <<pc, snap, todo, cur, seen, slots>>
opVars == <<op, stash>>
ctlVars == <<ctl, rec, mine, pod>>
vars == <<rows, queue, loopVars, kids, asks, opVars, ctlVars, crashes>>

-----------------------------------------------------------------------------
(* Types *)

\* "absent" is a run not submitted yet, "deleted" one removed by delete_failed.
Rows == [status : CONTROL_STATUSES \cup {"absent", "deleted"},
         infra  : INFRASTRUCTURE_STATES,
         pid    : BOOLEAN,          \* pid is not NULL
         cancel : BOOLEAN]          \* cancel_requested

AbsentRow == [status |-> "absent", infra |-> "not_created", pid |-> FALSE, cancel |-> FALSE]

\* A controller process, by how far KubernetesTargetSupervisor.run has come:
\* before run.json exists, before the Pod is requested, while it is requested,
\* while the Pod is owned and used, in the finally block and the verification
\* (after an error or a result; after KeyboardInterrupt), after its own Pod
\* deletion (done; reported as failed), after the terminal run.json, gone.
Processes == {"none", "starting", "preparing", "creating", "owning",
              "closing", "stopping", "deleted", "kept", "sealed", "exited"}
Unborn == "none"
Live(r) == ctl[r] \notin {"none", "exited"}

LoopSteps == {"down", "idle", "reconcile", "settle", "refresh", "claim", "spawn", "record"}
OpSteps == {"request", "await", "file", "row", "stage", "drop"}
Idle == [kind |-> "none", run |-> NoRun, step |-> "request"]

TypeOK ==
    /\ rows \in [Runs -> Rows]
    /\ queue \in Seq(Runs)
    /\ pc \in LoopSteps
    /\ snap \in [Runs -> Rows]
    /\ todo \in SUBSET Runs
    /\ cur \in Runs \cup {NoRun}
    /\ pc \in {"settle", "spawn", "record"} => cur \in Runs
    /\ pc \in {"spawn", "record"} => slots # 0
    /\ seen \in Records
    /\ slots \in Nat
    /\ kids \in SUBSET Runs
    /\ asks \in [Runs -> {"idle", "queued", "active", "marked"}]
    /\ op \in [kind : {"none", "cleanup", "delete"}, run : Runs \cup {NoRun}, step : OpSteps]
    /\ op.kind # "none" => op.run \in Runs
    /\ stash \in Records
    /\ ctl \in [Runs -> Processes]
    /\ rec \in [Runs -> Records]
    /\ mine \in [Runs -> BOOLEAN]
    /\ pod \in [Runs -> {"none", "live", "terminating", "gone"}]
    /\ crashes \in 0..MaxCrashes

Init ==
    /\ rows = [r \in Runs |-> AbsentRow]
    /\ queue = <<>>
    /\ pc = "idle"
    /\ snap = [r \in Runs |-> AbsentRow]
    /\ todo = {}
    /\ cur = NoRun
    /\ seen = NoRecord
    /\ slots = 0
    /\ kids = {}
    /\ asks = [r \in Runs |-> "idle"]
    /\ op = Idle
    /\ stash = NoRecord
    /\ ctl = [r \in Runs |-> Unborn]
    /\ rec = [r \in Runs |-> NoRecord]
    /\ mine = [r \in Runs |-> FALSE]
    /\ pod = [r \in Runs |-> "none"]
    /\ crashes = 0

-----------------------------------------------------------------------------
(* What the code derives from the state *)

Exists(r) == rows[r].status \notin {"absent", "deleted"}

\* Slip: the update without _validate_transition.
UpdatableAnyhow(r, status) == Exists(r) /\ status \in CONTROL_STATUSES

\* ControlStore.update with a new status raises ControlError unless this holds.
Updatable(r, status) == Exists(r) /\ LegalTransition(rows[r].status, status)

\* _pid_alive: an exited child stays a zombie until its parent polls it.
PidAlive(r, pid) == pid /\ (Live(r) \/ (r \in kids /\ ctl[r] = "exited"))

\* Slips: only a child can be seen to exit; whatever is no child has exited.
ChildHasExited(r, pid) == r \in kids /\ ctl[r] = "exited"
StrangerHasExited(r, pid) == r \notin kids \/ ctl[r] = "exited"

\* _child_exit_code is not None.
HasExited(r, pid) == IF r \in kids THEN ctl[r] = "exited" ELSE ~PidAlive(r, pid)

\* ... and it forgets the child it found dead.
Reaped(r) == IF ctl[r] = "exited" THEN kids \ {r} ELSE kids

\* Reading run.json raises: _read_json takes a missing or malformed file for no
\* record, but lets any other OSError pass.
Raises(r) == r \in Unreadable /\ rec[r].status # "missing"

\* _maintenance_lock
LoopInLock == pc \in {"reconcile", "settle", "refresh"}
OpInLock == op.kind # "none"

-----------------------------------------------------------------------------
(* Requests: submit and cancel *)

\* TaskManager.submit (also the CLI's "target submit", which needs no server).
Submit(r) ==
    /\ rows[r].status = "absent"
    /\ rows' = [rows EXCEPT ![r].status = "queued"]
    /\ queue' = Append(queue, r)
    /\ UNCHANGED <<loopVars, kids, asks, opVars, ctlVars, crashes>>

\* TaskManager.cancel (also the CLI's "target cancel", which needs no server)
\* reads the row and chooses its branch from what it read ...
CancelRead(r) ==
    /\ r \in Cancels /\ asks[r] = "idle"
    /\ \/ rows[r].status = "queued" /\ asks' = [asks EXCEPT ![r] = "queued"]
       \/ rows[r].status \in ACTIVE_STATUSES /\ asks' = [asks EXCEPT ![r] = "active"]
    /\ UNCHANGED <<rows, queue, loopVars, kids, opVars, ctlVars, crashes>>

\* ... the row it read was queued: "cancelled before execution" ...
CancelQueued(r) ==
    /\ asks[r] = "queued"
    /\ asks' = [asks EXCEPT ![r] = "idle"]
    /\ rows' = IF Updatable(r, "cancelled")
               THEN [rows EXCEPT ![r].status = "cancelled", ![r].cancel = TRUE]
               ELSE rows
    /\ UNCHANGED <<queue, loopVars, kids, opVars, ctlVars, crashes>>

\* ... or active: the request is recorded first ...
CancelMark(r) ==
    /\ asks[r] = "active"
    /\ IF Exists(r)
       THEN /\ rows' = [rows EXCEPT ![r].cancel = TRUE]
            /\ asks' = [asks EXCEPT ![r] = IF rows[r].pid THEN "marked" ELSE "idle"]
       ELSE /\ asks' = [asks EXCEPT ![r] = "idle"]
            /\ rows' = rows
    /\ UNCHANGED <<queue, loopVars, kids, opVars, ctlVars, crashes>>

\* Where KeyboardInterrupt leaves the controller: the try block of run()
\* handles it, anything before or after lets it escape.
AfterInterrupt(process) ==
    CASE process = "starting"                                  -> {"exited"}
      [] process = "preparing"                                 -> {"stopping", "exited"}
      [] process \in {"creating", "owning"}                    -> {"stopping"}
      [] process \in {"closing", "stopping", "deleted", "kept", "sealed"} -> {"exited"}
      [] OTHER                                                 -> {process}

\* kubectl create is in the controller's process group: interrupted, the API
\* server may have accepted it all the same.
Interrupt(r) ==
    /\ \E p \in AfterInterrupt(ctl[r]) : ctl' = [ctl EXCEPT ![r] = p]
    /\ \/ pod' = pod
       \/ ctl[r] = "creating" /\ pod' = [pod EXCEPT ![r] = "live"]
    /\ UNCHANGED <<rec, mine>>

\* ... then SIGINT goes to the process group, if the process is there.
CancelSignal(r) ==
    /\ asks[r] = "marked"
    /\ asks' = [asks EXCEPT ![r] = "idle"]
    /\ Interrupt(r)
    /\ UNCHANGED <<rows, queue, loopVars, kids, opVars, crashes>>

-----------------------------------------------------------------------------
(* The loop thread: reconcile, then count, claim and spawn *)

LoopKeeps == UNCHANGED <<queue, asks, opVars, crashes>>

\* An exception ends the pass; _loop swallows it and waits for the next one.
AbandonPass ==
    /\ pc' = "idle" /\ todo' = {} /\ cur' = NoRun /\ slots' = 0
    /\ snap' = [r \in Runs |-> AbsentRow] /\ seen' = NoRecord

\* reconcile lists the active rows once for the whole pass.
LoopBegin ==
    /\ pc = "idle" /\ ~OpInLock
    /\ todo' = {r \in Runs : rows[r].status \in ACTIVE_STATUSES}
    /\ snap' = [r \in Runs |-> IF r \in todo' THEN rows[r] ELSE AbsentRow]
    /\ pc' = "reconcile"
    /\ UNCHANGED <<rows, cur, seen, slots, kids, ctlVars>> /\ LoopKeeps

\* _reconcile_task reads run.json first ...
LoopRead(r) ==
    /\ pc = "reconcile" /\ r \in todo /\ ~Raises(r)
    /\ cur' = r /\ seen' = rec[r] /\ todo' = todo \ {r} /\ pc' = "settle"
    /\ UNCHANGED <<rows, snap, slots, kids, ctlVars>> /\ LoopKeeps

\* Slip: a controller that is gone has completed.
VerdictHopeful(row, record, exited, alive, current) ==
    IF record.status \in TERMINAL_STATUSES THEN record.status
    ELSE IF exited THEN
        IF row.cancel THEN "cancelled"
        ELSE IF record.status = "missing" THEN "failed" ELSE "completed"
    ELSE IF row.status = "disconnected" /\ alive THEN "running" ELSE current

\* The status _reconcile_task writes, from the row it listed, the record it
\* read and the exit code; the current status when it writes none.
Verdict(row, record, exited, alive, current) ==
    IF record.status \in TERMINAL_STATUSES THEN record.status
    ELSE IF exited THEN
        IF row.cancel THEN "cancelled"
        ELSE IF record.status = "missing" THEN "failed" ELSE "disconnected"
    ELSE IF row.status = "disconnected" /\ alive THEN "running" ELSE current

\* ... then asks for the exit code and writes what it concluded.
LoopSettle ==
    LET r == cur
        status == Verdict(snap[r], seen, HasExited(r, snap[r].pid),
                          PidAlive(r, snap[r].pid), rows[r].status)
        infra == IF seen.status = "missing" THEN rows[r].infra ELSE InfrastructureState(seen)
    IN  /\ pc = "settle"
        /\ kids' = Reaped(r)
        /\ IF Updatable(r, status)
           THEN /\ rows' = [rows EXCEPT ![r].status = status, ![r].infra = infra]
                /\ pc' = "reconcile" /\ cur' = NoRun /\ seen' = NoRecord
                /\ snap' = [snap EXCEPT ![r] = AbsentRow]
                /\ UNCHANGED <<todo, slots>>
           ELSE rows' = rows /\ AbandonPass
        /\ UNCHANGED ctlVars /\ LoopKeeps

\* reconcile goes on to the terminal rows.
LoopListTerminal ==
    /\ pc = "reconcile" /\ todo = {}
    /\ pc' = "refresh" /\ todo' = {r \in Runs : rows[r].status \in TERMINAL_STATUSES}
    /\ UNCHANGED <<rows, snap, cur, seen, slots, kids, ctlVars>> /\ LoopKeeps

\* _reconcile_terminal_state: only the infrastructure of a terminal row moves.
LoopRefresh(r) ==
    /\ pc = "refresh" /\ r \in todo /\ ~Raises(r)
    /\ todo' = todo \ {r}
    /\ rows' = IF rec[r].status = "missing" THEN rows
               ELSE [rows EXCEPT ![r].infra = InfrastructureState(rec[r])]
    /\ UNCHANGED <<pc, snap, cur, seen, slots, kids, ctlVars>> /\ LoopKeeps

\* A record that cannot be read ends the pass: what comes after it in the lists
\* is not reconciled, and nothing is claimed.
LoopReadRaises ==
    /\ pc \in {"reconcile", "refresh"} /\ \E r \in todo : Raises(r)
    /\ AbandonPass
    /\ UNCHANGED <<rows, kids, ctlVars>> /\ LoopKeeps

\* Slip: every row that ever had a pid is counted.
CountedForEver == {r \in Runs : rows[r].pid}

\* capacity = max_parallel - live controllers of the active rows
Counted == {r \in Runs : rows[r].status \in ACTIVE_STATUSES /\ PidAlive(r, rows[r].pid)}

LoopCount ==
    /\ pc = "refresh" /\ todo = {}
    /\ slots' = IF Cardinality(Counted) > MaxParallel THEN 0
                ELSE MaxParallel - Cardinality(Counted)
    /\ pc' = "claim"
    /\ UNCHANGED <<rows, snap, todo, cur, seen, kids, ctlVars>> /\ LoopKeeps

\* Slip: a disconnected run is queued again.
OldestOrLost(r) ==
    /\ rows[r].status \in {"queued", "disconnected"}
    /\ \E i \in 1..Len(queue) :
         queue[i] = r /\ \A j \in 1..(i - 1) : rows[queue[j]].status \notin {"queued", "disconnected"}

\* The index of r in the queue is the lowest of the queued rows.
Oldest(r) ==
    /\ rows[r].status = "queued"
    /\ \E i \in 1..Len(queue) :
         queue[i] = r /\ \A j \in 1..(i - 1) : rows[queue[j]].status # "queued"

\* Slip: the claims of a pass are not limited.
LoopClaimUnlimited(r) ==
    /\ pc = "claim" /\ Oldest(r)
    /\ rows' = [rows EXCEPT ![r].status = "running"]
    /\ cur' = r /\ pc' = "spawn"
    /\ UNCHANGED <<snap, todo, seen, slots, kids, ctlVars>> /\ LoopKeeps

\* ControlStore.claim_next, one transaction.
LoopClaim(r) ==
    /\ pc = "claim" /\ slots > 0 /\ Oldest(r)
    /\ rows' = [rows EXCEPT ![r].status = "running"]
    /\ cur' = r /\ pc' = "spawn"
    /\ UNCHANGED <<snap, todo, seen, slots, kids, ctlVars>> /\ LoopKeeps

\* Nothing left to claim, or no capacity: wait for the next pass.
LoopRest ==
    /\ pc = "claim" /\ (slots = 0 \/ \A r \in Runs : rows[r].status # "queued")
    /\ AbandonPass
    /\ UNCHANGED <<rows, kids, ctlVars>> /\ LoopKeeps

\* _spawn: the process runs in a session of its own from here on ...
LoopSpawn ==
    /\ pc = "spawn"
    /\ ctl' = [ctl EXCEPT ![cur] = "starting"]
    /\ kids' = kids \cup {cur} /\ pc' = "record"
    /\ UNCHANGED <<rows, snap, todo, cur, seen, slots, rec, mine, pod>> /\ LoopKeeps

\* ... or Popen raises OSError and the row is failed ...
LoopSpawnFails ==
    /\ pc = "spawn"
    /\ IF Updatable(cur, "failed")
       THEN /\ rows' = [rows EXCEPT ![cur].status = "failed"]
            /\ pc' = "claim" /\ cur' = NoRun /\ slots' = slots - 1
            /\ UNCHANGED <<snap, todo, seen>>
       ELSE rows' = rows /\ AbandonPass
    /\ UNCHANGED <<kids, ctlVars>> /\ LoopKeeps

\* ... or what precedes Popen raises: the claimed row stays running, no process.
LoopSpawnRaises ==
    /\ pc = "spawn" /\ AbandonPass
    /\ UNCHANGED <<rows, kids, ctlVars>> /\ LoopKeeps

\* The pid is stored after the process was started.
LoopRecord ==
    /\ pc = "record"
    /\ IF Exists(cur)
       THEN /\ rows' = [rows EXCEPT ![cur].pid = TRUE]
            /\ pc' = "claim" /\ cur' = NoRun /\ slots' = slots - 1
            /\ UNCHANGED <<snap, todo, seen>>
       ELSE rows' = rows /\ AbandonPass
    /\ UNCHANGED <<kids, ctlVars>> /\ LoopKeeps

\* The database refuses the update: the process runs with no pid on record.
LoopRecordFails ==
    /\ pc = "record" /\ AbandonPass
    /\ UNCHANGED <<rows, kids, ctlVars>> /\ LoopKeeps

LoopNext ==
    \/ LoopBegin \/ LoopSettle \/ LoopListTerminal \/ LoopCount \/ LoopRest
    \/ LoopSpawn \/ LoopSpawnFails \/ LoopSpawnRaises \/ LoopRecord \/ LoopRecordFails
    \/ LoopReadRaises
    \/ \E r \in Runs : LoopRead(r) \/ LoopRefresh(r) \/ LoopClaim(r)

-----------------------------------------------------------------------------
(* cleanup_pod and delete_failed, under the maintenance lock *)

OpKeeps == UNCHANGED <<queue, loopVars, asks, crashes>>
Step(s) == [op EXCEPT !.step = s]

\* Slip: a record that names a Pod is enough to delete it.
CleanableAnyTime(r) == NamesPod(rec[r])

\* What _terminal_task demands of the row, and what cleanup_pod and
\* KubernetesTargetSupervisor.cleanup demand of run.json.
TerminalTask(r) == rows[r].status \in TERMINAL_STATUSES /\ HasExited(r, rows[r].pid)
Cleanable(r) == rec[r].status \in TERMINAL_STATUSES /\ NamesPod(rec[r])

\* A call that is refused changes nothing (a zombie it reaps on its way makes no
\* difference to HasExited).
CleanupBegin(r) ==
    /\ pc # "down" /\ r \in Cleans /\ ~OpInLock /\ ~LoopInLock
    /\ TerminalTask(r) /\ ~Raises(r) /\ Cleanable(r)
    /\ kids' = Reaped(r)
    /\ op' = [kind |-> "cleanup", run |-> r, step |-> "request"]
    /\ UNCHANGED <<rows, stash, ctlVars>> /\ OpKeeps

\* delete_failed goes straight to the files, or through cleanup_pod when the
\* row or the record says that there is a Pod.
DeleteBegin(r) ==
    LET known == rec[r].status # "missing"
        infra == IF known THEN InfrastructureState(rec[r]) ELSE rows[r].infra
        viaCleanup == /\ infra # "pod_deleted"
                      /\ rows[r].infra # "not_created" \/ NamesPod(rec[r])
    IN  /\ pc # "down" /\ r \in Cleans /\ ~OpInLock /\ ~LoopInLock
        /\ rows[r].status = "failed" /\ TerminalTask(r) /\ ~Raises(r)
        /\ known => rec[r].status \in TERMINAL_STATUSES
        /\ viaCleanup => Cleanable(r)
        /\ kids' = Reaped(r)
        /\ rows' = IF infra = "pod_deleted" THEN [rows EXCEPT ![r].infra = infra] ELSE rows
        /\ op' = [kind |-> "delete", run |-> r,
                  step |-> IF viaCleanup THEN "request" ELSE "stage"]
        /\ UNCHANGED <<stash, ctlVars>> /\ OpKeeps

\* _delete_owned_pod: a Pod that is there gets a delete request; a missing one
\* counts as deleted only in an explicit context.
CleanupRequest ==
    /\ op.kind # "none" /\ op.step = "request"
    /\ \/ /\ pod[op.run] \in {"live", "terminating"}
          /\ pod' = [pod EXCEPT ![op.run] = "terminating"]
       \/ pod[op.run] = "gone" /\ ExplicitContext /\ pod' = pod
    /\ op' = Step("await")
    /\ UNCHANGED <<rows, kids, stash, ctl, rec, mine>> /\ OpKeeps

\* _wait_owned_pod_deleted
CleanupAwait ==
    /\ op.kind # "none" /\ op.step = "await" /\ pod[op.run] = "gone"
    /\ op' = Step("file")
    /\ UNCHANGED <<rows, kids, stash, ctlVars>> /\ OpKeeps

\* Slip: the error is logged and the cleanup goes on.
CleanupFailsQuietly ==
    /\ op.kind # "none" /\ op.step \in {"request", "await"}
    /\ op' = Step("file")
    /\ UNCHANGED <<rows, kids, stash, ctlVars>> /\ OpKeeps

\* Any kubectl call of the two may fail, and the wait may time out.
CleanupFails ==
    /\ op.kind # "none" /\ op.step \in {"request", "await"}
    /\ op' = Idle
    /\ UNCHANGED <<rows, kids, stash, ctlVars>> /\ OpKeeps

\* KubernetesTargetSupervisor.cleanup rewrites run.json ...
CleanupFile ==
    /\ op.kind # "none" /\ op.step = "file"
    /\ rec' = [rec EXCEPT ![op.run].cleanup = "deleted", ![op.run].infra = "pod_deleted"]
    /\ op' = Step("row")
    /\ UNCHANGED <<rows, kids, stash, ctl, mine, pod>> /\ OpKeeps

\* ... and cleanup_pod the row.
CleanupRow ==
    /\ op.kind # "none" /\ op.step = "row"
    /\ rows' = [rows EXCEPT ![op.run].infra = "pod_deleted"]
    /\ op' = IF op.kind = "delete" THEN Step("stage") ELSE Idle
    /\ UNCHANGED <<kids, stash, ctlVars>> /\ OpKeeps

\* The run directory is moved to a staging directory ...
DeleteStage ==
    /\ op.kind # "none" /\ op.step = "stage"
    /\ stash' = rec[op.run] /\ rec' = [rec EXCEPT ![op.run] = NoRecord]
    /\ op' = Step("drop")
    /\ UNCHANGED <<rows, kids, ctl, mine, pod>> /\ OpKeeps

\* ... ControlStore.delete_failed removes the row ...
DeleteDrop ==
    /\ op.kind # "none" /\ op.step = "drop"
    /\ rows[op.run].status = "failed"
    /\ rows[op.run].infra \in {"not_created", "pod_deleted"}
    /\ rows' = [rows EXCEPT ![op.run] = [AbsentRow EXCEPT !.status = "deleted"]]
    /\ stash' = NoRecord /\ op' = Idle
    /\ UNCHANGED <<kids, ctlVars>> /\ OpKeeps

\* ... or refuses (or the database fails), and what was moved is moved back,
\* unless a new run directory is in the way.
DeleteRollback ==
    /\ op.kind # "none" /\ op.step = "drop"
    /\ rec' = IF stash.status # "missing" /\ rec[op.run].status = "missing"
              THEN [rec EXCEPT ![op.run] = stash] ELSE rec
    /\ stash' = NoRecord /\ op' = Idle
    /\ UNCHANGED <<rows, kids, ctl, mine, pod>> /\ OpKeeps

OpNext ==
    \/ CleanupRequest \/ CleanupAwait \/ CleanupFails \/ CleanupFile \/ CleanupRow
    \/ DeleteStage \/ DeleteDrop \/ DeleteRollback

-----------------------------------------------------------------------------
(* A controller process: KubernetesTargetSupervisor.run, as far as the      *)
(* control plane can see it                                                 *)

ControllerKeeps == UNCHANGED <<rows, queue, loopVars, kids, asks, opVars, crashes>>
Becomes(r, process) == ctl' = [ctl EXCEPT ![r] = process]

\* record_phase and the last write both write the whole record from memory.
Writes(r, status, cleanup, infra) ==
    rec' = [rec EXCEPT ![r] = [status |-> status, cleanup |-> cleanup, infra |-> infra]]

\* The first run.json.
ControllerOpens(r) ==
    /\ ctl[r] = "starting" /\ Becomes(r, "preparing")
    /\ Writes(r, "running", "not_created", "not_created")
    /\ UNCHANGED <<mine, pod>> /\ ControllerKeeps

\* "creating the run-owned Pod" is recorded before kubectl create.
ControllerRequestsPod(r) ==
    /\ ctl[r] = "preparing" /\ Becomes(r, "creating")
    /\ Writes(r, "running", "not_created", "pod_active")
    /\ UNCHANGED <<mine, pod>> /\ ControllerKeeps

\* The reply names the Pod, and run.json does from then on.
ControllerOwnsPod(r) ==
    /\ ctl[r] = "creating" /\ Becomes(r, "owning")
    /\ pod' = [pod EXCEPT ![r] = "live"] /\ mine' = [mine EXCEPT ![r] = TRUE]
    /\ Writes(r, "running", "retained", "pod_active")
    /\ ControllerKeeps

\* kubectl create fails, with or without a Pod created.
ControllerLosesReply(r) ==
    /\ ctl[r] = "creating" /\ Becomes(r, "closing")
    /\ \E p \in {"none", "live"} : pod' = [pod EXCEPT ![r] = p]
    /\ UNCHANGED <<rec, mine>> /\ ControllerKeeps

\* The work in the try block ends, with a result or an error.
ControllerCloses(r) ==
    /\ ctl[r] \in {"preparing", "owning"} /\ Becomes(r, "closing")
    /\ UNCHANGED <<rec, mine, pod>> /\ ControllerKeeps

\* With all evidence verified and not interrupted, it deletes its own Pod
\* and does not wait for the termination.
ControllerDeletesPod(r) ==
    /\ ctl[r] = "closing" /\ mine[r] /\ pod[r] = "live"
    /\ Becomes(r, "deleted")
    /\ pod' = [pod EXCEPT ![r] = "terminating"]
    /\ UNCHANGED <<rec, mine>> /\ ControllerKeeps

\* Its delete request reports a failure, accepted by the cluster or not: the
\* record will say that the Pod was retained.
ControllerDeletionFails(r) ==
    /\ ctl[r] = "closing" /\ mine[r] /\ Becomes(r, "kept")
    /\ \/ pod' = pod
       \/ pod[r] = "live" /\ pod' = [pod EXCEPT ![r] = "terminating"]
    /\ UNCHANGED <<rec, mine>> /\ ControllerKeeps

\* The terminal run.json.
ControllerSeals(r) ==
    /\ \/ /\ ctl[r] = "deleted"
          /\ \E status \in {"completed", "failed"} : Writes(r, status, "deleted", "pod_deleted")
       \/ /\ ctl[r] = "closing" /\ mine[r]
          /\ \E status \in {"completed", "failed"} : Writes(r, status, "retained", "pod_retained")
       \/ ctl[r] = "kept" /\ Writes(r, "failed", "retained", "pod_retained")
       \/ ctl[r] = "stopping" /\ mine[r] /\ Writes(r, "cancelled", "retained", "pod_retained")
       \/ ctl[r] = "closing" /\ ~mine[r] /\ Writes(r, "failed", "not_created", "not_created")
       \/ ctl[r] = "stopping" /\ ~mine[r] /\ Writes(r, "cancelled", "not_created", "not_created")
    /\ Becomes(r, "sealed")
    /\ UNCHANGED <<mine, pod>> /\ ControllerKeeps

\* It exits after its last write, or before its first.
ControllerExits(r) ==
    /\ ctl[r] \in {"starting", "sealed"} /\ Becomes(r, "exited")
    /\ UNCHANGED <<rec, mine, pod>> /\ ControllerKeeps

\* It is killed, or an unexpected exception or KeyboardInterrupt escapes run().
ControllerDies(r) ==
    /\ r \in Faulty /\ Live(r) /\ Becomes(r, "exited")
    /\ \/ pod' = pod
       \/ ctl[r] = "creating" /\ pod' = [pod EXCEPT ![r] = "live"]
    /\ UNCHANGED <<rec, mine>> /\ ControllerKeeps

ControllerProgress(r) ==
    \/ ControllerOpens(r) \/ ControllerRequestsPod(r) \/ ControllerOwnsPod(r)
    \/ ControllerLosesReply(r) \/ ControllerCloses(r) \/ ControllerDeletesPod(r)
    \/ ControllerDeletionFails(r) \/ ControllerSeals(r) \/ ControllerExits(r)

\* The cluster finishes a termination, or loses a Pod on its own.
PodVanishes(r) ==
    /\ pod[r] = "terminating" \/ (pod[r] = "live" /\ r \in Faulty)
    /\ pod' = [pod EXCEPT ![r] = "gone"]
    /\ UNCHANGED <<ctl, rec, mine>> /\ ControllerKeeps

\* What the control plane takes the controller of a run to be; module Supervisor
\* is the controller in detail, and implements this.
ControllerStep(r) ==
    ControllerProgress(r) \/ ControllerDies(r) \/ PodVanishes(r) \/ (Interrupt(r) /\ ControllerKeeps)

-----------------------------------------------------------------------------
(* The server process *)

\* Everything in memory is lost, but a cancel of the CLI goes on; init adopts and
\* reaps the controllers.
ServerCrash ==
    /\ pc # "down" /\ crashes < MaxCrashes
    /\ pc' = "down" /\ todo' = {} /\ cur' = NoRun /\ slots' = 0
    /\ snap' = [r \in Runs |-> AbsentRow] /\ seen' = NoRecord
    /\ kids' = {} /\ op' = Idle /\ stash' = NoRecord
    /\ \E lost \in SUBSET Runs : asks' = [r \in Runs |-> IF r \in lost THEN "idle" ELSE asks[r]]
    /\ crashes' = crashes + 1
    /\ UNCHANGED <<rows, queue, ctlVars>>

\* TaskManager.start of the next "euboulia serve".
ServerStart ==
    /\ pc = "down" /\ pc' = "idle"
    /\ UNCHANGED <<rows, queue, snap, todo, cur, seen, slots, kids, asks, opVars, ctlVars, crashes>>

Next ==
    \/ LoopNext \/ OpNext \/ ServerCrash \/ ServerStart
    \/ \E r \in Runs :
         \/ Submit(r) \/ CancelRead(r) \/ CancelQueued(r) \/ CancelMark(r) \/ CancelSignal(r)
         \/ CleanupBegin(r) \/ DeleteBegin(r)
         \/ ControllerProgress(r) \/ ControllerDies(r) \/ PodVanishes(r)

Spec == Init /\ [][Next]_vars

-----------------------------------------------------------------------------
(* Fairness.  The loop thread runs for ever and is not starved of its lock  *)
(* by an endless stream of cleanup requests; a request once begun goes on;  *)
(* a controller goes on while its Pod does (remote.py waits for the worker  *)
(* without a limit, and asks a lost Pod for it for ever); a server that     *)
(* went down is started again.  Users, kills, evictions and crashes owe     *)
(* nothing.                                                                 *)

PodLost(r) == pod[r] = "gone" /\ ctl[r] = "owning"

Fairness ==
    /\ WF_vars(LoopNext) /\ SF_vars(LoopBegin) /\ WF_vars(OpNext) /\ WF_vars(ServerStart)
    /\ \A r \in Runs : /\ WF_vars(CancelQueued(r) \/ CancelMark(r) \/ CancelSignal(r))
                       /\ WF_vars(ControllerProgress(r) /\ ~PodLost(r))

LiveSpec == Spec /\ Fairness

-----------------------------------------------------------------------------
(* Safety *)

\* A terminal row never changes its status again, except that a failed one can
\* be deleted: no pass that listed the row before it ended, no cancel that read
\* it before it ended, reopens it or replaces its outcome (control.py:536).
TerminalIsFinal ==
    [][\A r \in Runs : rows[r].status \in TERMINAL_STATUSES =>
          \/ rows'[r].status = rows[r].status
          \/ rows[r].status = "failed" /\ rows'[r].status = "deleted"]_vars

\* Whatever crashes between claim, Popen and the pid, no run is ever given a
\* second controller process (control.py:347, 783): the run directory and the
\* Pod name belong to one process for good.
OneController ==
    [][\A r \in Runs : ctl[r] # "starting" /\ ctl'[r] = "starting" => ctl[r] = "none"]_vars

\* The controllers the control plane knows of (an active row with a pid) never
\* exceed max_parallel, although it counts them once and spawns later
\* (control.py:767).
Tracked == {r \in Runs : rows[r].status \in ACTIVE_STATUSES /\ rows[r].pid /\ Live(r)}
TrackedBound == Cardinality(Tracked) <= MaxParallel

\* cleanup_pod never takes a Pod from a controller that still uses it, even when
\* the row wrongly says that the run is over: the terminal record does protect
\* the Pod (control.py:699).
CleanupAfterSeal ==
    op.kind # "none" /\ op.step \in {"request", "await", "file", "row"} =>
        ctl[op.run] \in {"sealed", "exited"}

\* A run is shown as completed only when its own controller recorded so: no
\* guess from an exit code or a stale snapshot completes a run (control.py:875).
CompletedIsRecorded ==
    \A r \in Runs : rows[r].status = "completed" => rec[r].status = "completed"

\* A row with a pid fails only when its controller is past its last use of the
\* Pod: a restarted server does not fail the controllers it did not start itself
\* (control.py:942).
FailedHasEnded ==
    \A r \in Runs : rows[r].status = "failed" /\ rows[r].pid => ctl[r] \in {"sealed", "exited"}

\* When delete_failed is about to drop the row of a run whose pid was recorded
\* and whose record names a Pod, that Pod is no longer running.  Only such a row
\* is safe: when the server crashed between Popen and the pid (control.py:833),
\* the row is failed while the controller works, a later record names the Pod,
\* and the row is dropped all the same if the deletion began before
\* (control.py:725, 739).
DropLeavesNoPod ==
    op.kind = "delete" /\ op.step = "drop" /\ rows[op.run].pid /\ NamesPod(stash) =>
        pod[op.run] \in {"terminating", "gone"}

\* "pod_deleted", in a row or in a record, is never said of a running Pod, at
\* any point of a failed, interrupted or repeated cleanup (control.py:704,
\* remote.py:696).
PodDeletedIsTrue ==
    \A r \in Runs : rows[r].infra = "pod_deleted" \/ rec[r].infra = "pod_deleted" =>
        pod[r] \in {"terminating", "gone"}

-----------------------------------------------------------------------------
(* The inductive invariant the proofs rest on                               *)

Ended == {"sealed", "exited"}
PodIsDead(r) == pod[r] \in {"terminating", "gone"}
SaysDeleted(record) == record.infra = "pod_deleted" \/ record.cleanup = "deleted"

\* _maintenance_lock: the loop reconciles or a cleanup is under way, never both.
Exclusion == ~(LoopInLock /\ OpInLock)

\* A run that was not claimed has no controller, and neither has the run about to
\* get one.
Unspawned ==
    /\ \A r \in Runs : rows[r].status \in {"absent", "queued"} => ctl[r] = "none"
    /\ pc = "spawn" => ctl[cur] = "none" /\ rows[cur].status \notin {"absent", "queued"}

\* A terminal record is the controller's last; only delete_failed moves it.
SealedRecords ==
    /\ \A r \in Runs : rec[r].status \in TERMINAL_STATUSES => ctl[r] \in Ended
    /\ OpInLock /\ op.step = "drop" /\ stash.status \in TERMINAL_STATUSES => ctl[op.run] \in Ended
    /\ pc = "settle" /\ seen.status \in TERMINAL_STATUSES => rec[cur].status = seen.status

\* What an operation in flight found out before it started is still true.
OpHolds ==
    /\ op.kind = "delete" => rows[op.run].status = "failed"
    /\ op.kind = "cleanup" => op.step \notin {"stage", "drop"}
    /\ op.kind # "none" /\ op.step \in {"file", "row"} => PodIsDead(op.run)

\* No Pod comes to life behind a record, a copy of a record or a row that says
\* it was deleted.
DeadPods ==
    /\ \A r \in Runs : /\ ctl[r] \in {"none", "starting", "preparing", "creating"} => pod[r] = "none"
                       /\ ctl[r] = "deleted" => PodIsDead(r)
                       /\ SaysDeleted(rec[r]) \/ rows[r].infra = "pod_deleted" => PodIsDead(r)
    /\ pc = "settle" /\ SaysDeleted(seen) => PodIsDead(cur)
    /\ OpInLock /\ op.step = "drop" /\ SaysDeleted(stash) => PodIsDead(op.run)

IInv ==
    /\ TypeOK /\ Exclusion /\ Unspawned /\ SealedRecords /\ OpHolds /\ DeadPods
    /\ CleanupAfterSeal /\ CompletedIsRecorded

-----------------------------------------------------------------------------
(* Liveness *)

\* The queue stands still while every pass meets a record that it cannot read, or
\* while controllers that wait for a lost Pod hold all the capacity.
PassesRaise == \E r \in Runs : Exists(r) /\ Raises(r)
QueueIsBlocked ==
    PassesRaise \/ Cardinality({r \in Counted : PodLost(r)}) >= MaxParallel

\* No run waits in the queue for ever, over controllers that die, lose their Pod
\* or never start, unless from some time on the queue is blocked for ever: by a
\* record that cannot be read, which ends every pass before it claims, or by
\* lost Pods (control.py:763, 777).
QueueDrains ==
    \A r \in Runs : <>[](rows[r].status = "queued") => <>[]QueueIsBlocked

\* No run is shown as running for ever: a lost controller is noticed, including
\* one started just before the server crashed (control.py:893).  A controller
\* waiting for a lost Pod is the exception, and a record that cannot be read,
\* which keeps the loop from every row behind it.
RunningEnds ==
    \A r \in Runs : rows[r].status = "running" ~>
        rows[r].status # "running" \/ PodLost(r) \/ PassesRaise

\* A cancel request that was recorded ends the run even when the signal could
\* not be sent, or the pass under way listed the row before it (control.py:897),
\* with the same exceptions.
CancelEnds ==
    \A r \in Runs : rows[r].status \in ACTIVE_STATUSES /\ rows[r].cancel ~>
        rows[r].status \notin ACTIVE_STATUSES \/ PodLost(r) \/ PassesRaise

\* A cleanup that reached run.json reaches the row, even when the server crashed
\* in between, unless delete_failed took the row or moved the record away, or no
\* pass gets as far as that row (control.py:928).
CleanupReachesRow ==
    \A r \in Runs : rec[r].cleanup = "deleted" ~>
        \/ rows[r].infra = "pod_deleted" \/ PassesRaise
        \/ rows[r].status = "deleted" \/ rec[r].status = "missing"

\* Together: whatever was started, cancelled or cleaned comes to an end in the
\* rows, over crashes of the server and controllers that die.
OperationsEnd == RunningEnds /\ CancelEnds /\ CleanupReachesRow

=============================================================================
