----------------------------- MODULE Supervisor -----------------------------
(***************************************************************************)
(* One run of KubernetesTargetSupervisor (src/euboulia/remote.py): the     *)
(* controller that creates a Pod, starts the worker in it, waits for the   *)
(* worker's durable result, copies the evidence and decides the fate of    *)
(* the Pod; and the worker side of that exchange (cli.py, remote.py):      *)
(* worker.claim, worker-state.json and artifact-index.json.                *)
(*                                                                         *)
(* The two share the Pod's file system and nothing else: the exec stream   *)
(* that started the worker may end before the worker, be delivered late or *)
(* twice.  Every read of the observation and of the tar stream is a step   *)
(* of its own.                                                             *)
(***************************************************************************)
EXTENDS ControlStatus, Naturals, FiniteSets

CONSTANTS
    Workers,        \* the worker processes an exec may give rise to
    NoWorker,       \* "no worker": not one of them
    MaxVersion,     \* bound on the writes to the run directory in the Pod
    SyncRaw,        \* storage.sync.raw_profiles is "always"
    ExternalFaults  \* kills, evictions and lost connections happen

ASSUME WorkersAssumption == IsFiniteSet(Workers) /\ Workers # {} /\ NoWorker \notin Workers
ASSUME VersionAssumption == MaxVersion \in Nat /\ MaxVersion >= 3
ASSUME FlagsAssumption == SyncRaw \in BOOLEAN /\ ExternalFaults \in BOOLEAN

VARIABLES
    at,         \* where run() is
    rec,        \* run.json
    pod,        \* the Pod, in the cluster
    mine,       \* self._pod is not None
    failed,     \* error is not None
    cancelled,  \* cancelled
    payload,    \* worker_payload
    view,       \* what the observation under way has read
    copy,       \* the local snapshot: version of its files, its index
    verified,   \* the manifest: "skipped", "refused", "partial" or "complete"
    worker,     \* each worker process
    claim,      \* the writer of worker.claim
    state,      \* worker-state.json
    version,    \* version of the files in the run directory in the Pod
    index,      \* the version artifact-index.json describes; 0 if there is none
    raw         \* the worker recorded raw profiles

ctlVars == <<at, rec, mine, failed, cancelled, payload, view, copy, verified>>
workVars == <<worker, claim, state, version, index, raw>>
vars == <<ctlVars, pod, workVars>>

-----------------------------------------------------------------------------
(* Types *)

\* "opened" is between the first run.json and the try block; "stream" is the
\* wait for the exec stream; "observe" is _recover_worker_result.
Tried == {"try", "create", "ready", "stage", "exec", "stream", "observe"}
Ending == {"sync", "copy", "manifest", "delete", "deleted", "write", "end"}
Places == {"start", "opened", "exited"} \cup Tried \cup Ending

Finished == {"passed", "rejected", "raised"}   \* returncode 0, 1 and 2 or 130
\* An observation has read the state file, found its process dead, or found no
\* state file; "lost" and "unseen" are what the last one said of a worker.
Views == [step : {"none", "read", "dead", "scan", "lost", "unseen"},
          saw  : {"none", "running"} \cup Finished]
Unread == [step |-> "none", saw |-> "none"]
Running == {"starting", "claimed", "working", "stated", "indexed"}

TypeOK ==
    /\ at \in Places
    /\ rec \in Records
    /\ pod \in {"none", "live", "terminating", "gone"}
    /\ mine \in BOOLEAN /\ failed \in BOOLEAN /\ cancelled \in BOOLEAN /\ raw \in BOOLEAN
    /\ payload \in {"none", "passed", "rejected"}
    /\ view \in Views
    /\ copy \in [files : 0..MaxVersion, index : 0..MaxVersion, here : BOOLEAN]
    /\ verified \in {"skipped", "refused", "partial", "complete"}
    /\ worker \in [Workers -> {"none", "pending", "gone"} \cup Running]
    /\ claim \in Workers \cup {NoWorker}
    /\ state \in {"none", "running"} \cup Finished
    /\ version \in 0..MaxVersion
    /\ index \in 0..MaxVersion

Init ==
    /\ at = "start" /\ rec = NoRecord /\ pod = "none" /\ mine = FALSE
    /\ failed = FALSE /\ cancelled = FALSE /\ payload = "none" /\ view = Unread
    /\ copy = [files |-> 0, index |-> 0, here |-> FALSE] /\ verified = "skipped"
    /\ worker = [w \in Workers |-> "none"] /\ claim = NoWorker /\ state = "none"
    /\ version = 0 /\ index = 0 /\ raw = FALSE

-----------------------------------------------------------------------------
(* The controller: before the Pod *)

Goes(from, to) == at = from /\ at' = to
Record(status, cleanup, infra) ==
    rec' = [status |-> status, cleanup |-> cleanup, infra |-> infra]

\* Where an error in the try block leads: finally synchronizes if there is a Pod.
Finally(has) == IF has THEN "sync" ELSE "manifest"

\* The run directory and the first run.json.
Open ==
    /\ Goes("start", "opened") /\ Record("running", "not_created", "not_created")
    /\ UNCHANGED <<pod, mine, failed, cancelled, payload, view, copy, verified, workVars>>

\* RUN_STARTED is in the ledger.
EnterTry ==
    /\ Goes("opened", "try")
    /\ UNCHANGED <<rec, pod, mine, failed, cancelled, payload, view, copy, verified, workVars>>

\* The controller cannot prepare its source bundles.
SourcesFail ==
    /\ Goes("try", "manifest") /\ failed' = TRUE
    /\ UNCHANGED <<rec, pod, mine, cancelled, payload, view, copy, verified, workVars>>

\* record_phase("creating the run-owned Pod") precedes kubectl create.
RequestPod ==
    /\ Goes("try", "create") /\ Record("running", "not_created", "pod_active")
    /\ UNCHANGED <<pod, mine, failed, cancelled, payload, view, copy, verified, workVars>>

\* _create_pod returns, and the record names the Pod.
PodCreated ==
    /\ Goes("create", "ready") /\ pod' = "live" /\ mine' = TRUE
    /\ Record("running", "retained", "pod_active")
    /\ UNCHANGED <<failed, cancelled, payload, view, copy, verified, workVars>>

\* _create_pod raises: refused, timed out, or the reply is not understood; the
\* Pod may exist.
CreateFails ==
    /\ Goes("create", "manifest") /\ failed' = TRUE
    /\ pod' \in {"none", "live"}
    /\ UNCHANGED <<rec, mine, cancelled, payload, view, copy, verified, workVars>>

-----------------------------------------------------------------------------
(* The controller: readiness, staging and the worker *)

\* _wait_pod_ready, then _stage_project, _stage_recipe and _stage_source_bundles.
Advance ==
    /\ pod = "live"
    /\ \/ Goes("ready", "stage")
       \/ Goes("stage", "exec")
    /\ UNCHANGED <<rec, pod, mine, failed, cancelled, payload, view, copy, verified, workVars>>

\* Any of them raises, and so does the ownership check before the exec.
StartupFails ==
    /\ \E place \in {"ready", "stage", "exec"} : Goes(place, "sync")
    /\ failed' = TRUE
    /\ UNCHANGED <<rec, pod, mine, cancelled, payload, view, copy, verified, workVars>>

\* _run_worker starts kubectl exec; a faulty connection delivers it twice.
Exec ==
    /\ Goes("exec", "stream") /\ pod = "live"
    /\ \E ws \in SUBSET Workers :
         /\ Cardinality(ws) = 1 \/ (ExternalFaults /\ ws # {})
         /\ worker' = [w \in Workers |-> IF w \in ws THEN "pending" ELSE worker[w]]
    /\ UNCHANGED <<rec, pod, mine, failed, cancelled, payload, view, copy, verified,
                   claim, state, version, index, raw>>

WorkersOver == \A w \in Workers : worker[w] \in {"none", "gone"}

\* The exec stream ends with the worker, or before it.
StreamEnds ==
    /\ Goes("stream", "observe")
    /\ ExternalFaults \/ WorkersOver
    /\ view' = Unread
    /\ UNCHANGED <<rec, pod, mine, failed, cancelled, payload, copy, verified, workVars>>

ObserveKeeps ==
    UNCHANGED <<rec, pod, mine, cancelled, copy, verified, workVars>>
Observing(place) == at' = place /\ UNCHANGED <<failed, payload>>

\* observe_worker runs in the Pod: it reads worker-state.json, if there is one ...
ObserveState ==
    /\ at = "observe" /\ view.step = "none" /\ pod = "live"
    /\ view' = [step |-> IF state = "none" THEN "scan" ELSE "read", saw |-> state]
    /\ Observing("observe") /\ ObserveKeeps

\* The worker's payload is passed on, or its error, or the observation's.
Takes(result) ==
    /\ at' = "sync"
    /\ payload' = IF result \in {"passed", "rejected"} THEN result ELSE "none"
    /\ failed' = (result \notin {"passed", "rejected"})

\* ... with a final state and an index, the worker is finished ...
ObserveFinished ==
    /\ at = "observe" /\ view.step = "read" /\ view.saw \in Finished /\ pod = "live"
    /\ index # 0
    /\ Takes(view.saw) /\ view' = Unread /\ ObserveKeeps

\* ... else it looks for the process that wrote the state: running, asked again in
\* five seconds ...
ObserveRunning ==
    /\ at = "observe" /\ view.step = "read" /\ pod = "live"
    /\ view.saw = "running" \/ index = 0
    /\ IF worker[claim] \in Running
       THEN view' = Unread
       ELSE view' = [view EXCEPT !.step = "dead"]
    /\ Observing("observe") /\ ObserveKeeps

\* Slip: what was read before the process was looked for is not read again.
ObserveOnce ==
    /\ at = "observe" /\ view.step = "dead" /\ pod = "live"
    /\ Takes("none") /\ view' = [step |-> "lost", saw |-> "none"]
    /\ ObserveKeeps

\* ... or not, and the files are read once more ...
ObserveAgain ==
    /\ at = "observe" /\ view.step = "dead" /\ pod = "live"
    /\ IF state \in Finished /\ index # 0
       THEN Takes(state) /\ view' = Unread
       ELSE Takes("none") /\ view' = [step |-> "lost", saw |-> "none"]
    /\ ObserveKeeps

\* Slip: a worker that wrote nothing yet is taken to be starting.
ObserveScanPatiently ==
    /\ at = "observe" /\ view.step = "scan" /\ pod = "live"
    /\ view' = Unread /\ Observing("observe") /\ ObserveKeeps

\* ... and without a state file, for any process of this run in /proc.
ObserveScan ==
    /\ at = "observe" /\ view.step = "scan" /\ pod = "live"
    /\ IF \E w \in Workers : worker[w] \in Running
       THEN view' = Unread /\ Observing("observe")
       ELSE view' = [step |-> "unseen", saw |-> "none"] /\ Takes("none")
    /\ ObserveKeeps

\* An observation that times out or cannot be run is no observation.
ObserveNothing ==
    /\ at = "observe" /\ view.step # "none" /\ (ExternalFaults \/ pod # "live")
    /\ view' = Unread
    /\ Observing("observe") /\ ObserveKeeps

\* What it prints cannot be parsed or is of another run, or a local write fails:
\* the try block is left while the worker may go on.
WatchFails ==
    /\ ExternalFaults /\ (Goes("stream", "sync") \/ Goes("observe", "sync"))
    /\ failed' = TRUE /\ view' = Unread
    /\ UNCHANGED <<rec, pod, mine, cancelled, payload, copy, verified, workVars>>

Observe ==
    \/ ObserveState \/ ObserveFinished \/ ObserveRunning \/ ObserveAgain
    \/ ObserveScan

-----------------------------------------------------------------------------
(* The controller: evidence, the Pod and the terminal record *)

EvidenceKeeps == UNCHANGED <<rec, mine, cancelled, payload, view, workVars>>

\* _pull_artifacts: one tar stream reads the files the run directory has now ...
SyncFiles ==
    /\ Goes("sync", "copy") /\ pod = "live"
    /\ copy' = [copy EXCEPT !.files = version]
    /\ UNCHANGED <<pod, failed, verified>> /\ EvidenceKeeps

\* ... and the index it has then ...
SyncIndex ==
    /\ Goes("copy", "manifest") /\ pod = "live"
    /\ copy' = [copy EXCEPT !.index = index, !.here = TRUE]
    /\ UNCHANGED <<pod, failed, verified>> /\ EvidenceKeeps

\* ... or it breaks off.
SyncFails ==
    /\ Goes("sync", "manifest") \/ Goes("copy", "manifest")
    /\ failed' = TRUE
    /\ UNCHANGED <<pod, copy, verified>> /\ EvidenceKeeps

\* Slip: the digests are not compared.
VerdictTrusting ==
    IF ~copy.here THEN "skipped" ELSE IF copy.index = 0 THEN "refused"
    ELSE IF raw /\ ~SyncRaw THEN "partial" ELSE "complete"

\* _write_local_artifact_manifest compares the snapshot with its index.
Verdict ==
    CASE ~copy.here                                      -> "skipped"
      [] copy.here /\ (copy.index = 0 \/ copy.index # copy.files) -> "refused"
      [] copy.here /\ copy.index # 0 /\ copy.index = copy.files   ->
           IF raw /\ ~SyncRaw THEN "partial" ELSE "complete"

\* Slip: a cancelled run frees its Pod as well.
ReleasesCancelled == mine /\ verified' = "complete"

\* Only a complete copy, of a run not cancelled, frees the Pod.
Releases == ~cancelled /\ mine /\ verified' = "complete"

Verify ==
    /\ at = "manifest" /\ verified' = Verdict
    /\ failed' = (failed \/ Verdict = "refused")
    /\ at' = IF Releases THEN "delete" ELSE "write"
    /\ UNCHANGED <<pod, copy>> /\ EvidenceKeeps

\* _delete_owned_pod returns; the termination is not awaited.
DeletePod ==
    /\ Goes("delete", "deleted") /\ pod = "live" /\ pod' = "terminating"
    /\ UNCHANGED <<failed, copy, verified>> /\ EvidenceKeeps

\* It raises: the Pod is not found, the request failed, or only the reply was lost.
DeleteFails ==
    /\ Goes("delete", "write") /\ failed' = TRUE
    /\ pod' = pod \/ (pod = "live" /\ pod' = "terminating")
    /\ UNCHANGED <<copy, verified>> /\ EvidenceKeeps

\* The terminal run.json.
Outcome ==
    IF cancelled THEN "cancelled"
    ELSE IF payload # "none" /\ ~failed /\ copy.here THEN "completed" ELSE "failed"

WriteOutcome ==
    /\ \/ Goes("deleted", "end") /\ Record(Outcome, "deleted", "pod_deleted")
       \/ Goes("write", "end") /\ mine /\ Record(Outcome, "retained", "pod_retained")
       \/ Goes("write", "end") /\ ~mine /\ Record(Outcome, "not_created", "not_created")
    /\ UNCHANGED <<pod, mine, failed, cancelled, payload, view, copy, verified, workVars>>

Exit ==
    /\ Goes("end", "exited")
    /\ UNCHANGED <<rec, pod, mine, failed, cancelled, payload, view, copy, verified, workVars>>

ControllerNext ==
    \/ Open \/ EnterTry \/ SourcesFail \/ RequestPod \/ PodCreated \/ CreateFails
    \/ Advance \/ StartupFails \/ Exec \/ StreamEnds \/ Observe
    \/ SyncFiles \/ SyncIndex \/ SyncFails \/ Verify \/ DeletePod \/ DeleteFails
    \/ WriteOutcome \/ Exit

\* SIGINT from the control plane: the try block turns it into a cancellation ...
Interrupt ==
    /\ at \in Tried /\ at' = Finally(mine)
    /\ cancelled' = TRUE /\ failed' = TRUE /\ view' = Unread
    /\ pod' = pod \/ (at = "create" /\ pod' = "live")
    /\ UNCHANGED <<rec, mine, payload, copy, verified, workVars>>

\* ... and elsewhere it escapes run().
InterruptEscapes ==
    /\ at \in {"start", "opened"} \cup Ending /\ at' = "exited" /\ view' = Unread
    /\ UNCHANGED <<rec, pod, mine, failed, cancelled, payload, copy, verified, workVars>>

\* The controller is killed.
Killed ==
    /\ ExternalFaults /\ at # "exited" /\ at' = "exited" /\ view' = Unread
    /\ pod' = pod \/ (at = "create" /\ pod' = "live")
    /\ UNCHANGED <<rec, mine, failed, cancelled, payload, copy, verified, workVars>>

-----------------------------------------------------------------------------
(* The worker ("target run --internal-run-uid", cli.py) *)

WorkerKeeps == UNCHANGED <<ctlVars, pod>>
Works(w, from, to) == worker[w] = from /\ worker' = [worker EXCEPT ![w] = to]

\* The exec is delivered, and the CLI starts up.
WorkerStarts(w) ==
    /\ Works(w, "pending", "starting") /\ pod # "gone"
    /\ UNCHANGED <<claim, state, version, index, raw>> /\ WorkerKeeps

\* Slip: the claim is opened with "w".
WorkerClaimsToo(w) ==
    /\ Works(w, "starting", "claimed")
    /\ claim' = w /\ version' = version + 1
    /\ UNCHANGED <<state, index, raw>> /\ WorkerKeeps

\* write_worker_state opens worker.claim with "x": the first worker owns the run ...
WorkerClaims(w) ==
    /\ Works(w, "starting", "claimed") /\ claim = NoWorker
    /\ claim' = w /\ version' = version + 1
    /\ UNCHANGED <<state, index, raw>> /\ WorkerKeeps

\* ... and every other one raises FileExistsError, which nothing handles.
WorkerIsSecond(w) ==
    /\ Works(w, "starting", "gone") /\ claim # NoWorker
    /\ UNCHANGED <<claim, state, version, index, raw>> /\ WorkerKeeps

\* worker-state.json: running.
WorkerRuns(w) ==
    /\ Works(w, "claimed", "working")
    /\ state' = "running" /\ version' = version + 1
    /\ UNCHANGED <<claim, index, raw>> /\ WorkerKeeps

\* validate_baseline writes evidence, raw profiles among it.
WorkerWrites(w) ==
    /\ worker[w] = "working" /\ version < MaxVersion - 1
    /\ version' = version + 1 /\ raw' \in {raw, TRUE}
    /\ UNCHANGED <<worker, claim, state, index>> /\ WorkerKeeps

\* worker-state.json: finished, with the exit status ...
WorkerFinishes(w) ==
    /\ Works(w, "working", "stated")
    /\ state' \in Finished /\ version' = version + 1
    /\ UNCHANGED <<claim, index, raw>> /\ WorkerKeeps

\* ... then, in the finally block, the index of all that was written ...
WorkerIndexes(w) ==
    /\ Works(w, "stated", "indexed") /\ index' = version
    /\ UNCHANGED <<claim, state, version, raw>> /\ WorkerKeeps

\* ... and the process ends.
WorkerEnds(w) ==
    /\ Works(w, "indexed", "gone")
    /\ UNCHANGED <<claim, state, version, index, raw>> /\ WorkerKeeps

WorkerStep(w) ==
    \/ WorkerStarts(w) \/ WorkerClaims(w) \/ WorkerIsSecond(w) \/ WorkerRuns(w)
    \/ WorkerWrites(w) \/ WorkerFinishes(w) \/ WorkerIndexes(w) \/ WorkerEnds(w)

\* It is killed, fails outside the handlers, or its exec is never delivered.
WorkerDies(w) ==
    /\ ExternalFaults /\ worker[w] \in {"pending"} \cup Running
    /\ worker' = [worker EXCEPT ![w] = "gone"]
    /\ UNCHANGED <<claim, state, version, index, raw>> /\ WorkerKeeps

\* The cluster finishes a termination or loses the Pod, and every process in it.
PodVanishes ==
    /\ pod = "terminating" \/ (pod = "live" /\ ExternalFaults)
    /\ pod' = "gone"
    /\ worker' = [w \in Workers |-> IF worker[w] = "none" THEN "none" ELSE "gone"]
    /\ UNCHANGED <<ctlVars, claim, state, version, index, raw>>

Next ==
    \/ ControllerNext \/ ObserveNothing \/ WatchFails \/ Interrupt \/ InterruptEscapes \/ Killed \/ PodVanishes
    \/ \E w \in Workers : WorkerStep(w) \/ WorkerDies(w)

Spec == Init /\ [][Next]_vars

\* The controller and the worker go on (what the worker does has time limits), and
\* the stream ends once there is no worker; and of the observations made every
\* five seconds, not every one is lost at the same place.  Faults owe nothing.
Fairness ==
    /\ WF_vars(ControllerNext /\ (at = "stream" => WorkersOver))
    /\ SF_vars(ObserveFinished) /\ SF_vars(ObserveRunning)
    /\ SF_vars(ObserveAgain) /\ SF_vars(ObserveScan)
    /\ \A w \in Workers : WF_vars(WorkerStep(w))

LiveSpec == Spec /\ Fairness

-----------------------------------------------------------------------------
(* Safety *)

\* The controller asks for the deletion of its Pod only when the local snapshot
\* holds everything the worker wrote and nothing more will be written, whatever
\* made it stop watching the worker (remote.py:595).
EvidenceSafe ==
    pod = "terminating" =>
        /\ copy.files = version /\ (raw => SyncRaw) /\ claim # NoWorker
        /\ worker[claim] \notin {"claimed", "working", "stated"}

\* "worker exited without a final result" is never said of a worker that runs, or
\* whose result and index are there, although its files and its process are read
\* one after the other while it finishes (remote.py:1870).
LostIsTrue ==
    view.step = "lost" => worker[claim] \notin Running /\ ~(state \in Finished /\ index # 0)

\* A completed run carries the result its worker recorded, and a verified snapshot
\* of the final evidence (remote.py:612).
CompletedIsWorkers ==
    rec.status = "completed" =>
        /\ payload = state /\ state \in {"passed", "rejected"}
        /\ verified \in {"partial", "complete"} /\ copy.files = version

\* What the controller makes of its worker, over every interleaving of its reads
\* with the worker's last steps and end.
VerdictsAreTrue == TypeOK /\ LostIsTrue /\ CompletedIsWorkers

\* Once indexed the evidence never changes, however often the worker's exec is
\* delivered (remote.py:1795).
IndexedIsFinal == [][index # 0 => version' = version /\ state' = state]_vars

-----------------------------------------------------------------------------
(* The control plane sees no more of all this than ControlPlane says           *)

\* At "write" a complete copy means that the deletion failed.
Kept == mine /\ ~cancelled /\ verified = "complete"

Ctl ==
    CASE at = "start"                                       -> "starting"
      [] at \in {"opened", "try"}                           -> "preparing"
      [] at = "create"                                      -> "creating"
      [] at \in {"ready", "stage", "exec", "stream", "observe"} -> "owning"
      [] at \in {"sync", "copy", "manifest", "delete"}      -> IF cancelled THEN "stopping" ELSE "closing"
      [] at = "deleted"                                     -> "deleted"
      [] at = "write" /\ Kept                               -> "kept"
      [] at = "write" /\ ~Kept                              -> IF cancelled THEN "stopping" ELSE "closing"
      [] at = "end"                                         -> "sealed"
      [] at = "exited"                                      -> "exited"

Control(r) == INSTANCE ControlPlane WITH
    Runs <- {r}, NoRun <- NoWorker, MaxParallel <- 1, MaxCrashes <- 0,
    ExplicitContext <- TRUE, Cancels <- {r}, Cleans <- {r}, Faulty <- {r}, Unreadable <- {},
    rows <- [x \in {r} |-> "running"], queue <- <<r>>, pc <- "idle",
    snap <- <<>>, todo <- {}, cur <- NoWorker, seen <- NoRecord, slots <- 0,
    kids <- {r}, asks <- <<>>, op <- <<>>, stash <- NoRecord, crashes <- 0,
    ctl <- [x \in {r} |-> Ctl], rec <- [x \in {r} |-> rec],
    mine <- [x \in {r} |-> mine], pod <- [x \in {r} |-> pod]

\* What the control plane assumes of a controller and its Pod (ControllerStep,
\* PodVanishes) is what this one does: every step is one of those or invisible.
ImplementsController ==
    [][Control("run")!ControllerStep("run")]_<<Ctl, rec, mine, pod>>

-----------------------------------------------------------------------------
(* Liveness *)

PodLost == pod = "gone" /\ at = "observe"

\* The controller ends, even when its exec stream broke, the worker was killed or
\* started late: only a Pod that is gone leaves it waiting (remote.py:1515).
RunEnds == at = "start" ~> at = "exited" \/ PodLost

-----------------------------------------------------------------------------
(* What the repository says, and the runs refute *)

\* docs/architecture.md:104: on cancellation an already-created owned Pod is
\* retained for recovery and explicit cleanup, which needs a record of it.
CancelledPodIsRecorded == rec.status = "cancelled" /\ pod = "live" => NamesPod(rec)

=============================================================================
