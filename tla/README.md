# A TLA+ verification of euboulia

euboulia runs optimization jobs against model-serving systems on a Kubernetes
cluster. A local server keeps a durable queue of runs; each run has a controller
process of its own that creates one Pod, executes a worker in it, brings the
results home and cleans up. A second program, the GPU playground, keeps shared
Pods in which users run scripts. Campaigns, a simpler mode, benchmark candidates in
a row and gate them. This directory holds TLA+ models of the parts
whose correctness depends on interleavings, crashes and lost replies, the TLC
configurations that check them on small instances, and proofs of the central
safety properties for every instance.

## 1. Inventory of the system

Paths are under `src/src/euboulia/`.

| component | state | operations | talks to |
| --- | --- | --- | --- |
| control plane, `control.py` | table `control_runs` (status, infrastructure state, pid, `cancel_requested`), the children of the server process, `_maintenance_lock` | `submit`, `cancel`, `cleanup_pod`, `delete_failed`, and the loop thread: `reconcile`, count, `claim_next`, `_spawn` | starts controllers (Popen), signals them, reads their `run.json` |
| controller, `remote.py` (`KubernetesTargetSupervisor.run`) | `run.json`, `self._pod`, the phase it is in | create the Pod, stage, exec the worker, observe it, pull artifacts, verify, delete the Pod | `kubectl`; the files of the worker |
| worker in the Pod, `cli.py` (`target run`), `remote.py` (`write_worker_*`) | `worker.json`, result, artifact index | claim, run, write, index, end | read by the controller through exec and tar |
| optimization runner, `optimization/runner.py`, `state.py`, `budget.py` | lifecycle, champion, budget | `run`, `validate_baseline`: profile, plan, try baseline and candidate, record the outcome | workspace, target service, evaluator, memory, event ledger |
| target service, `optimization/target.py` | the owned process group and its signed handle | build, start, wait for readiness, stop | the operating system |
| event log and memory, `optimization/events.py`, `memory.py` | an append-only log, an index built from it | append, read, rebuild | the runner |
| sources, workspaces and patches, `optimization/workspace.py` | one cached clone per repository on either side, its lock; bundles; worktrees | `prepare_git_source`, `create_source_bundle`, `create_source_worktree`, prepare and apply a patch | git; shared by all runs on a machine |
| evaluation and verdicts, `optimization/evaluator.py`, `runner.py` (`_execute_workload_suite`) | the metrics files of a worktree, the results by point | authorize, preflight, correctness, warmup, windows, read metrics, gate, aggregate | the commands of a recipe |
| profiling, planning, identities, `optimization/planner.py` and neighbours | none that outlives a call | analyse, propose | profilers |
| playground manager, `playground/manager.py` | sessions, runs, the event file of each run | `connect`, `release`, `submit`, `cancel`, `_execute`, `close` | `kubectl`, its worker |
| playground worker, `playground/worker.py` | the cancel file, the environment of a session with its marker and lock, the child's process group | verify GPU, prepare, run or profile, export, report, await acknowledgement | the manager, over an exec stream |
| playground node status, `playground/node_status.py` | a cache of nodes, GPU statuses and their ages; one refresh thread | `snapshot`, `_refresh`, `_collect`, `close` | `kubectl`, a GPU exporter, Pods of sessions |
| campaigns, `campaign.py`, `config.py`, `adapters/`, `execution.py`, `gates.py`, `ledger.py` | the experiment ledger, a file several processes append to | load, plan, execute, gate, append; evaluate two saved results | benchmark commands |
| servers and command line, `server.py`, `playground/server.py`, `cli.py` | none of their own | one call of the components above per request | users |
| configuration, adapters, harnesses, profilers, web pages | static data | parsing, rendering | |

What is hard in it:

* The loop thread, the request threads, the controllers, the cluster and the
  command line interleave freely; only `reconcile`, `cleanup_pod` and
  `delete_failed` exclude each other. Every operation reads a row or a record in
  one step and acts on it in another.
* The server can crash anywhere: between claiming a run, starting its process
  and recording the pid; between deleting a Pod and saying so in the record and
  the row. Controllers survive it and are then no longer its children.
* `kubectl` calls can be cut off, refused, or accepted with the reply lost; an exec
  can be delivered late, twice or never; a Pod can be evicted.
* A SIGINT (cancel) or a kill can hit the controller at any point of `run`,
  its `finally` block included.
* An exception, a failing write of the ledger among them, can leave an optimization run at
  any of its steps, the `finally` clauses included; the service it started is another
  process, and so is one that an earlier run left on the same port.
* Runs share what they cache: the clones of a source, which a git command that was killed
  leaves half done and one that survived its process changes without the lock; the
  environment of a playground session, beside a worker a killed server left.
* A ledger line may be written in parts, by one of several processes, which may die
  between them.
* What is measured reaches a verdict through files a command may leave alone, and what
  is shown of a GPU is put together from a listing, samples and a cache of different ages.
* Artifacts are copied while their writer may still be running, and the Pod,
  the only other copy, is deleted on the strength of the copy.

What makes each component correct: outcomes are final and true (a run that is
shown as completed was recorded so by its controller, and its worker did finish);
one controller per run; no Pod is taken from a user of it, nor deleted before the
evidence is local; nobody says "deleted" of a running Pod; every run, cancel
and cleanup that was begun ends; a candidate is accepted on two measurements of services
of its own, and what the ledger says of it the memory holds; a number that counts was measured
in the worktree it is said of, made from the locked commit; the ledger of campaigns tells what
each of them returned; a script of the playground runs in an environment that is whole; a node
shown as idle is.

## 2. Modules

| module | models | role |
| --- | --- | --- |
| `ControlStatus` | statuses, legal transitions, records (`control.py`, `remote.py`) | shared data |
| `ControlPlane` | `control.py` and the controller as the control plane sees it | the core |
| `MCControlPlane` | - | `ControlPlane` for TLC, with the backlog start |
| `Supervisor` | `remote.py` `run` and the worker in detail | implements the controller of `ControlPlane` |
| `Playground` | `playground/manager.py` and the worker as it sees it | a program of its own |
| `Runner` | `optimization/runner.py` with lifecycle, budget, planner, memory, ledger and the services of `target.py` | the program that runs inside the worker |
| `Trial`, `MCTrial` | one trial: `workspace.py` (patches), `evaluator.py`, the suite of `runner.py`, the evaluation part of `optimization/config.py` | inside a step `Evaluate` of `Runner` |
| `Sources` | `workspace.py` (sources), with their way through `remote.py` | before `Trial`, shared by runs; `MCTrial` puts the two together |
| `PlaygroundWorker`, `MCPlaygroundWorker` | `playground/worker.py` | the worker of `Playground` from inside |
| `NodeStatus`, `MCNodeStatus` | `playground/node_status.py` | a cache of its own |
| `Campaign`, `MCCampaign` | `campaign.py`, `config.py`, adapters, `execution.py`, `gates.py`, `ledger.py` | a program of its own |
| `ControlPlane_proof` | - | proofs about `ControlPlane` |
| `Supervisor_proof`, `Playground_proof`, `Runner_proof`, `Trial_proof`, `Sources_proof`, `PlaygroundWorker_proof`, `Campaign_proof` | - | proofs about the module of that name; `Playground_proof` has those about `NodeStatus` too |

A definition whose comment begins with "Slip" is what the code does not do: a plausible
mistake at that point, kept beside the definition it would replace. Replacing the one by the
other makes TLC refute the property that `PROJECT.json` lists for the pair.

### ControlPlane

`rows` is the table: per run its status, infrastructure state, whether a pid is
recorded, and `cancel_requested`. `rec` is `run.json` per run, reduced to what the
control plane reads of it. `ctl` is the controller process, by how far `run` has
come; `pod` is the Pod as the cluster has it; `mine` is `self._pod`. `kids` is
`TaskManager._children`. The loop thread is `pc` with its local variables `snap`
(the rows it listed), `todo`, `cur`, `seen` (the record it read) and `slots`; a
request thread in `cancel` is `asks[r]`; the one holder of the maintenance lock among the
requests is `op`.

Every point at which the code lets go of what it read is a step boundary:
`_reconcile_task` is `LoopRead` (reads the record), then `LoopSettle` (asks for
the exit code and writes); `_spawn` is `LoopSpawn` (Popen) then `LoopRecord` (the
pid); `cancel` is `CancelRead`, then `CancelQueued`, or `CancelMark` and
`CancelSignal`; a cleanup is `CleanupRequest`, `CleanupAwait`, `CleanupFile`,
`CleanupRow`; `delete_failed` adds `DeleteStage` and `DeleteDrop` or
`DeleteRollback`. A transaction of the database is one step. `ServerCrash` loses all
memory, `ServerStart` is the next server. The steps of the controller at the end of
the module are those of module `Supervisor`, seen from outside.

`gone` also stands for a Pod that exists but accepts no exec. A run of `Unreadable` is one whose
`run.json` cannot be read (any `OSError` but a missing file, which `_read_json` lets pass): the read
raises, which ends the pass (`LoopReadRaises`) and refuses the request.

### Supervisor

`step` is the place in `run`, `rec` its record, `pod` the cluster's view. `work` are
the workers an exec delivered; `wjson`, `files` and `index` are `worker.json`, the
artifacts and their index in the Pod, with a version counter in place of contents; `local`
is what the controller copied. The connection may fail at every call. `Interrupt` is
a SIGINT at any step, `Killed` a kill. `ImplementsController` says that every step is
`ControllerStep` of `ControlPlane`, or changes nothing the control plane can see, under
the mapping in `Control`.

### Playground

`sess` is the status of each session of one node, `pod` its Pod as the cluster has it,
`prep[s]` the thread of `_prepare` and `rel[s]` the `release` requests in flight, counted by
what they do next. `run` holds the
records, `exe[r]` the thread of `_execute`, `stop[r]` that of `_cancel_remote`. `conn` is
`kubectl exec` (open, exited with 0, closed otherwise), `chan` what it holds of the
worker's frames, `wk` the worker and `marker` its cancel file in the Pod. Memory and disk
are one: every record is saved under the lock that guards its change. They
differ only in `Manager.__init__`, which is therefore in steps: `Boot`, one `BootRun` for
each active run, `BootSessions`.

A step is what the code does under one hold of the lock, or one call of `kubectl`.
`release` is `ReleaseBegin`, `ReleaseDelete`, `ReleaseDone`; `_prepare` is
`PrepareCreate`, then `PrepareReady` or `PrepareFails`; `_execute` is `ExecStart`, an
`ExecRead` per frame, and `ExecDone`, or one of `ExecEnds` and `ExecGivesUp` and then the
two writes of the except clause, `ExecFail` (session) and `ExecFailed` (run).

"running" stands for all phases a worker announces, "failed" for "timed_out" too. The model
takes it that a `kubectl create` that failed and whose Pod the following inspection did not find
has no effect later. Sessions of different nodes share nothing, so there is one node.

### Runner

`run` counts the processes of `optimize run` and `target run`; they follow one another on
one host. `pc` is the place in `run()` or `validate_baseline`, `raised` the exception it
unwinds with, `rs` and `lc` the `Lifecycle`, `budget` the `BudgetTracker` and
`no_improvement`. A service lives through the same steps in all four places that start one,
`role` says which: `Prepare`, `Patch` (candidate), `Build`, `Start`, `Started`, `Ready`,
`Evaluate`, `Stopping`, `Stop`, `Stopped`. `own` is the handle a frame holds, `procs` the services
alive on the host, `server` the one of them that has the port. `seen` keeps which
services answered in the two trials of the iteration, those an earlier run left behind included. `memory` is the SQLite store in insertion order; `ledger`
holds the events on outcomes (memory, verdict, champion) and no others.

A step ends at each write that may fail. `Guarded` says where a `finally` clause waits:
from the start of the service on, in a profile only after the SERVICE_STARTED event; a write that
fails inside the clause (`Stopping`) is kept until the service is stopped in a managed trial, and
skips the stop in a profile and a validation. These are the differences in the code. `Throw` therefore goes to `Stopping`, or gives up the handle. A helper that
raises takes its lifecycle with it: `run()` goes on from the one it passed (`CallersState`).
The lifecycle moves of an iteration are made from the tables of `state.py`; a move they do
not allow leads to "illegal".

A service stands for the leader of its process group. `reject_duplicate_diffs` has its
default, true. Build and evaluation commands have no effect on the host but through services.

### Trial

`cfg` is the evaluation part of a configuration that `Loads` accepts, `tree` what the
worktree of either side holds, `file` its metrics files, `at` the evaluation of one point,
`results` the points done. `CreateWorktree`, `PreparePatch`, `ApplyPatch` (or `ArgumentsOnly`)
make the worktree; `Authorize` makes the plan of a point; `Preflight`, `Correctness`,
`StartBenchmark`, `Warmup`, `Window`, `ReadMetrics`, `Judge` evaluate it; `Conclude` aggregates.
A step ends with each command, which may fail, and with each look at what it left. A sample
carries where it was taken, so that a stale file can be told from a fresh one.

`ValidSuite`, `ValidBaselines`, `ValidLanes` and `ValidPromotion` are what the parser checks of a
document as a whole, `DocumentTypes` what it checks value by value. The median is the value of middle
rank (`Ranked`). The permission ticket and its digest are one step with the plan (`Authorize`). What the model
shows beside its properties: a benchmark that exits with 0 and writes nothing counts the
older metrics of the same point and worktree once more; the objective is the median of all
windows while only the last `stable` of them must agree; a baseline of zero passes any relative
gate that asks for no improvement, which `AtLeastBetter` leaves out.

### Sources

`upstream` is how the repository serves a revision (by the declared ref, by its name only, no
longer), `cache` the clone on each side, `lock` its `flock`, `orphans` the git commands whose
process was killed. A run goes through `Flock`, `CloneStarts`, `CloneConfigures`, `CloneEnds`,
`Origin`, `Resolve`, `FetchRef`, `FetchRevision`, `Check` in the cache of the controller, then
`Pack` and `Stage`, then the same in that of the worker with the bundle as the origin, and
`Worktree`, for the baseline and again for the candidate. `TimesOut`, `Killed` and `OrphanEnds` are
the faults, `Rewritten` a ref that moves away from a revision. A
clone without an origin or with objects half unpacked stays behind after such a fault, and
later runs fail on it ("cache"); nothing repairs it.

### PlaygroundWorker

`work[w]` is a worker: where `execute` is, the stream to its server, the child of the command
in progress, the deadline that counts (`late`), the cancel file. `venv`, `marker` and `lock` are
`venvs/<key>`, `.ready.json` and `<key>.lock`. `Spawn`, `Poll` and `Then` are `Worker.command`;
`TakeLock`, `Probe`, `Sites`, `Mark`, `Read` the environment; `TargetEnds`, `Which`, `CaptureEnds`,
`ExportEnds` the target and the profile; `Result` and `WaitForAck` `main`. `ChildExits` is the child,
`Raise` an exception at any place, `StreamEnds` and `Cancel` the server. There are two workers because a
server that is killed leaves its own in the Pod. A marker torn by a failing write makes
every later run of the session fail at `Read`.

### NodeStatus

`busy`, `idleAge` and `scraped` are the cluster: the GPUs in use, the time since none was, the
last sample of the exporter. `cache` is `_Cache`, `job` what the refresh thread has read. Ages are
counted in `Tick`s up to a cap. `Snapshot` and `SnapshotFails` are a request under the lock;
`ListSources`, `AskExporter`, `AskInventory`, `Store`, `Finish` the thread. `GpuStatus`, `Baseline`
and `View` are the functions of these names. The model takes it that an exporter sample without a
time stamp is current, as the code does.

### Campaign

`st[p]` is a process of `run_campaign`, `file` the ledger in pieces of lines, `lock` its
`flock`, `acked` the snapshots whose append returned. `Load` and `Plan` are the loader and the
adapters (`LoadConfig`, `BuildCommand`), `Begin` the run directory and the gates, `Execute` and
`Judge` the benchmark and its verdict, `Flock`, `Write`, `WriteRest` an append. `WriteFails`,
`SaveFails` and `Killed` break it off anywhere. `ReadAll` is `iter_experiments`, which stops at a
corrupt line. `optimization/events.py` appends with the same protocol.

## 3. What is checked

| run | module, cfg | instance | result |
| --- | --- | --- | --- |
| `control` | `MCControlPlane`, `control.cfg` | 1 run, 2 server crashes, killed controller, lost Pod, cancel, cleanup and delete | 125,705 states, pass |
| `control_queue` | `MCControlPlane`, `control_queue.cfg` | 2 queued runs in either order, 1 slot; the controller of one may die or lose its Pod, the record of the other is unreadable; no crash, no cancel | 421,877 states, pass |
| `supervisor` | `Supervisor`, `supervisor.cfg` | 2 workers, 4 versions of the files | 89,273 states, pass |
| `playground` | `Playground`, `playground.cfg` | 2 sessions and 2 runs, 3 in all; 1 cancel, 1 release in flight per session, 1 end of the server | 171,998 states, pass |
| `runner` | `Runner`, `runner.cfg` | 2 processes, 2 changes, 3 iterations each; 2 of any of failing write, interrupt, kill | 680,938 states, pass |
| `runner_fresh` | `Runner`, `runner_fresh.cfg` | 2 processes, 1 change, 1 iteration; 1 kill | the documented property is violated |
| `trial` | `MCTrial`, `trial.cfg` | sources: 2 runs, a commit and a tag, 3 faults; trials: 2 points, values 0, 8, 10, 11, every gate and lane | 173,280 states, pass |
| `worker` | `MCPlaygroundWorker`, `worker.cfg` | 2 workers, one runs and one profiles | 135,926 states, pass |
| `node_status` | `MCNodeStatus`, `node_status.cfg` | 1 node, 2 GPUs, fresh for 1 tick and stale after 3 | 158,082 states, pass |
| `campaign` | `MCCampaign`, `campaign.cfg` | 2 campaigns, 1 fault | 636,893 states, pass |
| `orphan` | `Supervisor`, `orphan.cfg` | 1 worker | the documented property is violated |
| `playground_boot` | `Playground`, `playground_boot.cfg` | 1 session, 1 run, 2 ends of the server | the documented property is violated |

One run suffices for `control`: rows, records, controllers and Pods of different
runs share nothing but the queue, the slots, the loop and the maintenance lock; the
competition for those is what `control_queue` checks with two. There the controller of one run
may hold the slot for ever (a lost Pod), and the record of the other may end each pass (it is unreadable), so both
exceptions of `QueueDrains` arise while the other run waits; without either exception TLC refutes the
property. Cancels race the claim in `control` (liveness, finality) and, for the bound,
in the theorem `Capacity`. Two crashes allow a
crash during the recovery from the first. Two workers are an exec delivered twice;
more only repeat the second, which finds `worker.json` claimed. Four versions of
the files let the worker write between the copy of the files and that of the index in either
order.

`playground` creates at most three sessions and runs in all (`MaxCreated`): two runs in one
session, which is what competes within a session, or a run in each of two sessions one
after the other, which is what competes for the node. The second run is the one a
user may cancel (`Cancels`), and `close` cancels any. One release of a session is in flight
at a time (`MaxReleases`): a second deletes what the first has deleted; the theorems hold for any
number of them. One frame in the stream
(`PipeSize`) is enough for a frame to arrive after any step of the manager. The server ends
once at any step but while it boots; `playground_boot` lets it end there too. The bounds
on what is created make the model stop, so deadlock is not checked there.

`runner` has two processes, so that the second meets the services, the memory and the ledger the
first left behind, in whatever state; two faults, so that a failure can strike the handling of
another; three iterations, so that each of the limits on failures, patience (two each) and
iterations can be the one that ends a run; two changes, so that one
can be tried and the other remain. The recall returns both entries such a catalog can
have; with more changes than a recall returns (100 in the code) a change may be repeated.
The number of processes is bounded, so deadlock is not checked.

`trial` has two points, the least that has a primary and another one, an order, and a lane that is
less than the suite; its configurations let each threshold, the direction, each lane and
each stability bound decide some verdict, and the values lie below, at and above the
thresholds, with a zero baseline among them. The sources have two runs with the same or another
revision: one that leaves something in a cache and one that finds it; three faults let a fault
strike the handling of an orphan of another. A trial meets them in one place, the worktrees it begins
with, so `MCTrial` lets the sources run with one trial that waits for them, and every trial on sources
that went well. `worker` has the two that can meet. In
`node_status` a status can be fresh, older than the cache and stale, with ages of each kind
between; the nodes share the listing and the flag only, and two GPUs can be measured in part.
`campaign` lets one campaign meet every configuration and result, and the other, with a baseline
alone, compete for the ledger; one fault leaves one fragment, which is followed by the other's
lines or by its own end. Its documents have base arguments and parameters that name an output or
the profile, as in the tables, in another spelling, and as a value of a parameter. Trials, sources, workers and campaigns end, so deadlock is not checked in them.

Fairness: the loop thread always goes on, and takes the maintenance lock in the end even
though users keep asking for cleanups (strong fairness of `LoopBegin`: the lock
is free again and again, and the loop waits on it); requests that have begun go on; a
server that is down is started again (nothing is promised otherwise); a controller goes
on unless its Pod is gone, where `remote.py` polls for ever. The worker in the Pod
ends by its own time limits, which the optimization configuration makes mandatory. Users, kills, evictions
and crashes owe nothing. In the playground the threads of the server go on, because each of
their waits has a deadline (of a `kubectl` call, of the startup, of the transport); a
worker reports, or is cut off, if its stream lets it again and again (strong fairness:
the stream may be full in between), because every command it runs has a deadline; a
server that ended is started again. A connection need never break and a Pod need never go. A step of an optimization run is taken in
the end (weak fairness of `Step`), because every command it waits for, readiness and the
shutdown have a timeout; services owe nothing, neither to listen nor to end. A run in `Sources` and a
process in `Campaign` take their next step in the end (weak fairness of `Step`), as their commands
have timeouts; a `flock` has none, and is released by the operating system when its holder dies. The
worker of a playground goes on and time passes (weak fairness of `Step` and `Expire`); its children
need not end. The reads of the node status have timeouts (weak fairness of `ListSources`, `Observe`,
`Finish`). Nothing is promised of how a trial ends in time.

### Properties

* `TerminalIsFinal`, `OneController`, `CompletedIsRecorded`, `FailedHasEnded`,
  `CleanupAfterSeal`, `DropLeavesNoPod`, `PodDeletedIsTrue`: the truth and finality of rows
  and the ownership of Pods under every interleaving and crash. `FailedHasEnded` and
  `DropLeavesNoPod` are about rows whose pid was recorded.
* `TrackedBound`: `max_parallel` bounds the controllers of the active rows.
* `OperationsEnd` (a run whose process exited, a cancel and a cleanup that have begun end),
  `QueueDrains`, `RunEnds`: what has begun ends. `OperationsEnd` exempts a run that waits for a lost Pod and
  is checked where every record can be read; `QueueDrains` says that a run waits in the queue for ever only if,
  from some time on, lost Pods hold all the capacity or an unreadable record ends every pass.
* `EvidenceSafe`: a Pod is deleted only when what its worker indexed is local and
  complete. `VerdictsAreTrue`: a worker reported lost has ended without a final state, and
  a completed record stands for a completed worker.
  `IndexedIsFinal`: what the index describes does not change after it.

* `SessionsAreSafe`: a session runs one thing at a time; a session that
  would accept a run has no worker of an earlier run executing, after whatever
  sequence of results, broken streams, cancels and restarts; Pods are neither forgotten nor
  doubled.
* `SuccessIsWorkers`, `EndsAreFinal`: success is what the worker said; an outcome
  changes at most from what the worker said to failed, in the except clause, and a session
  given up stays so.
* `WorkEnds`: no run or session of the playground stays in between.

* `LegalMoves`: no path through the runner, through whichever exception and wherever the clock
  passes its limit, makes a move the lifecycle forbids (its StateTransitionError would hide the failure).
* `OneServicePerRun`, `ManagedTeardown`: a run that goes on has stopped every service it
  started; a managed trial gives up a live service only to an interrupt, a kill or a stop that fails.
* `AcceptedIsMeasured`: a candidate becomes champion after a passed baseline and a passed candidate,
  each measured by the service that was started for it in this iteration, never by the profiled champion,
  by the other side's or by one of another iteration of its run; the services of the iteration are gone. The one
  exception is a service that an earlier run left on the endpoint: `MeasuredIsFresh` rules it out, and is violated.
* `NoRepeat`, `LedgerIsBacked`: no change is recorded twice, across runs; the ledger never says
  more than the memory.
* `RunEnds` (of `Runner`): a process ends, whatever fails.

* `MeasuredHere`: every objective that counts was measured by commands of its own point in the
  worktree of its own side. `VerdictIsEarned`: an accepted candidate passed the correctness commands as
  changed, was measured steadily at every point that is needed, gains what is asked at the primary
  points and loses no more than allowed elsewhere.
* `SourcesAreLocked`: every worktree is made from the locked commit, and a cache fails a run only
  if something was cut off in it before. `SourcesEnd`: every run gets or loses its source.

* `EnvironmentIsWhole`: a script or profiler runs in an environment that is complete, and nobody
  rebuilds it meanwhile. `ResultIsEarned`: "succeeded" means that every command ended with 0 and
  every export did run. `WorkerEnds`: whatever its children and their descendants do.
* `IdleIsTrue`: a node shown as idle was idle as a whole within `STALE_SECONDS`, and is listed as it
  was measured. `RefreshEnds`: a refresh ends, also when the monitor is closed under it.

* `LedgerTellsResult`: whoever takes the lock reads of every returned campaign what it returned,
  unless an append was broken off and the reader says the file is corrupt.
* `AcceptedIsGood`: what is accepted beats the recorded baseline as the gate asks, and evaluating the
  saved results again agrees. `CommandWritesItsResult`: no base argument and no name of a parameter that is
  spelled as in the tables of `campaign.py` and the adapters redirects the result of a plan or profiles. `CampaignEnds`: also when another dies with the lock in hand.

### Where the code and its documents disagree

Three runs end in a violation, each listed as a finding in `PROJECT.json`: an orphan Pod
after a cancel during creation (`orphan`); a playground server that ends while it reads its
records, after which a Pod with a worker is resumed (`playground_boot`); and a service that a killed run left
on the endpoint, which answers `wait_ready` for the services of the next run, is measured for both sides
and has a candidate accepted (`runner_fresh`), although the documents promise a fresh process
and forbid to take over an existing service.

The models show more behaviour that a reader of the documents may not expect; it follows
from the code, and the properties above are stated so that they hold with it:

* more than `max_parallel` controllers run for a while when a cancel races the claim: the
  cancelled one is no longer counted (`TrackedBound` counts active rows);
* `delete_failed` accepts a run whose controller still runs when the server crashed between Popen and
  the pid. If the deletion began before the record named a Pod, the row is dropped although the Pod
  that the record names by then still runs (`control.py:725`, `:739`). `FailedHasEnded` and
  `DropLeavesNoPod` are therefore about rows with a pid; TLC refutes the second without that condition;
* a record that cannot be read ends every pass of the loop before anything is claimed, so the whole
  queue waits for it, although the comment at `control.py:778` says that one record must not kill the control
  plane (`QueueDrains` names the case);
* the values of a parameter become tokens of argv that nobody looks at (`base.py:183`), and
  base arguments and names are compared as they are spelled (`campaign.py:629`): `{"save_detailed":
  "--result-dir=/elsewhere"}`, or an abbreviation the benchmark's parser knows, redirects the result or
  switches profiling on, which `sglang.py:195` says to fail closed. `CommandWritesItsResult` is about the
  rest; TLC refutes it for tokens of either kind;
* a change whose trial raised leaves no entry in the memory and is tried again, while
  `docs/optimization.md:77` says that every failure is retained (`NoRepeat` is about recorded outcomes);
* with `require_all_valid` false a point that failed and is not primary does not keep a trial from being
  accepted, which `docs/safety.md:59` may be read to rule out (`VerdictIsEarned` follows the code);
* a SIGINT outside the try block of `run` ends it without a terminal record, and its Pod cannot be
  cleaned up from the server;
* a Pod that is lost while the controller polls it is noticed by nobody (`RunEnds` of `Supervisor` holds
  while the Pod is there).

## 4. What is proved

The theorems about `ControlPlane` hold for every finite set of runs, every `MaxParallel` and any
bound on crashes, from the named ASSUMEs of the module.

* `TypeCorrect`: `TypeOK` is an invariant.
* `Finality`: `TerminalIsFinal`. From `TypeOK` alone: every write of a status goes
  through `LegalTransition`, whatever row the writer read earlier.
* `SingleController`: `OneController`, from `TypeOK` and `Unspawned`: a run that is still
  queued, or that the loop is about to spawn, has no controller, so a claim gives out
  a run at most once.
* `CleanupSafety`, `CompletionSafety`, `DeletionTruth`: `CleanupAfterSeal`,
  `CompletedIsRecorded` and `PodDeletedIsTrue`, from the inductive invariant `IInv`.

`IInv` is needed because none of the three is inductive. It adds the exclusion of the
loop and the requests (`Exclusion`); that a terminal record is the last its controller
writes, also where the loop or `delete_failed` holds a copy (`SealedRecords`); what an
operation found before it started and still relies on (`OpHolds`); and that whoever says "deleted" does
so of a dead Pod, copies included (`DeadPods`).

* `FailureTruth`, `DropSafety`: `FailedHasEnded` and `DropLeavesNoPod`, both of rows with a pid, from `IInv` with two more
  conjuncts, together `PInv`: a pid names a process that was started, the pids a pass copied are those
  of the rows, and a row about to get its pid was not settled since its claim (`PidsAreKnown`); and
  `delete_failed` moves a run directory away only when the Pod it names is going (`StagedPods`).
* `Capacity`: `TrackedBound`, from `SlotsFit`: the controllers that count, and the slots the pass
  has left, fit into `MaxParallel`; the lemma `TrackedGrows` says that only `LoopRecord` adds one.
* `EvidenceSafety`, `VerdictTruth`, `IndexedFinality` (`Supervisor_proof`): `EvidenceSafe`,
  `VerdictsAreTrue` and `IndexedIsFinal`, for any number of workers an exec may give rise to and any number
  of writes. The invariant says that the claim excludes and what its holder has written (`Claimed`), that
  what an observation has read is still so (`Watched`), that a copy that verified is of the indexed
  files (`Copied`), and what `run()` knows of itself in each place (`Placed`, `Told`).
* `ControllerIsImplemented` (`Supervisor_proof`): `ImplementsController`, the step of the refinement. From the
  same invariant, each action of `Supervisor` is shown to be the action of `ControlPlane` of its kind or
  to change nothing that `ControlPlane` sees. With it the theorems about `ControlPlane` rest on the
  controller as the code has it.
* `LockedSources` (`Sources_proof`): `SourcesAreLocked`, for any runs, revisions, tags and number of faults.
  The invariant adds that the lock excludes (`Excluded`), what a run has behind it in each place
  (`Placed`), and that a side on which nothing was cut off is `Sound`: no git command survived its
  process, objects are whole, a clone that is there has the right origin, and what a run resolved
  stays. On `Sound` rests that a cache fails no run by itself.
* `RunsMoveLegally`, `OneService`, `AcceptanceIsMeasured`, `LedgerHasMemory`, `TeardownOfTrials`
  (`Runner_proof`): `LegalMoves`, `OneServicePerRun`, `AcceptedIsMeasured`, `LedgerIsBacked` and
  `ManagedTeardown`, for any budget, catalog, number of runs and number of faults. The invariant gives
  for each place the role and the exception that may be under way (`Placed`), the states of run and
  iteration (`RunState`, `IterationState`; in the finally clause the three an exception can come from),
  what of the budget is left (`Budgeted`), that no service of the run is alive but the one it holds
  (`Served`), that who answered in a trial is that service or one of an earlier run (`Owned`, `ByItsOwn`), and that the outcome a ledger event is about is in the memory before it (`Backed`).
* `WholeEnvironment`, `EarnedResult` (`PlaygroundWorker_proof`): `EnvironmentIsWhole` and
  `ResultIsEarned`, for any number of workers of a session. The invariant adds that the lock is held
  in the setup and nowhere else (`Exclusive`), that the environment comes before its marker and the
  marker is absent while somebody builds (`Built`), and what a worker has behind it in each phase
  (`Earned`): the commands that ended badly left a trace, those a success needs did run.
* `IdleNodes` (in `Playground_proof`, which extends `NodeStatus` too: the monitor is the other half of the same
  server): `IdleIsTrue`, for any nodes, GPUs, listings and limits, if a cluster
  that counts the GPUs of a node counts them right. A status carries its age through the job and the
  cache (`Told`), the sample of the exporter is no younger than what it shows (`Recorded`), and the
  listing a refresh started from stays until it ends (`Targeted`); that full coverage is all GPUs
  rests on the cardinality of finite sets.

* `SessionSafety`, `Successes`, `Endings`, `OneAtATime` (`Playground_proof`): `SessionsAreSafe`,
  `SuccessIsWorkers` and `EndsAreFinal`, for any number of sessions, runs, release requests and ends of
  the server. The invariant says what a server that is down or starting has left (`Halted`), that
  the threads of a session agree with its record (`Prepared`), that thread, stream and worker of a run are
  in step (`Threaded`), and that what a stream says is what the worker said (`Stated`).
  `SessionSafety` has the hypothesis `BootMayCrash = FALSE`: a server that may end while it starts
  breaks the property (the run `playground_boot` shows how). What survives even then is `OneAtATime`:
  one active run per session, one live Pod on the node, none for a released session. `Successes` and
  `Endings` need no hypothesis.
* `RepeatsAreFar`, `NoSecondOutcome` (`Runner_proof`): a change that is tried twice has
  been recorded `RecallLimit` outcomes ago, for any catalog (`Spaced`); hence `NoRepeat` for a
  finite catalog of at most `RecallLimit` changes (100 in the code), which is the hypothesis
  under which the code keeps that promise. The invariant adds that a proposal on its way names nothing
  that was recalled (`Untried`).
* `MeasuredWhereItSays`, `VerdictsAreEarned` (`Trial_proof`): `MeasuredHere` and `VerdictIsEarned`,
  for any points, documents, values and patches, from what the parser lets through (`Loaded`). The invariant
  follows a measurement on its way: worktrees change before anything is measured in them (`Places`), a
  metrics file holds what commands of its own point and side left there (`Filed`), and so do the samples in
  progress (`Sampled`), which are steady when they are judged (`Measurable`); a result is a failure
  or a judgement by the gate (`Resulting`), points come in order and none is missed (`Reached`), and a
  good verdict is over results that passed (`Concluded`). `StableIsSteady` is the arithmetic behind the
  windows: values near their median are near each other, and `MedianIsInt` that a value of every rank exists.

* `LedgerTruth`, `AcceptanceIsDeserved`, `CommandsWrite` (`Campaign_proof`): `LedgerTellsResult`,
  `AcceptedIsGood` and `CommandWritesItsResult`, for any campaigns, numbers of candidates, documents, results
  and faults; of a document only what the loader has made sure of value by value is assumed
  (`DocumentsAssumption`, `ResultsAssumption`). The invariant follows a snapshot from the verdict to the
  file: it is what the gates say of two results (`Judging`), a baseline that was accepted stands before it
  (`Recorded`), each trial that is behind has one outcome (`AllSettled`), the outcome is the last snapshot
  of its trial in the file, in whatever order the others append (`Filed`), who is in the middle of a line
  has the lock and its fragment at the end (`Locked`), and as long as no append was broken off every other
  line is whole (`Clean`). Beneath it are `GatePassesGood`, the arithmetic of the performance gate for
  every threshold and sign of the baseline, and `RenderWrites`, that a command which reserves the outputs
  it sets keeps them from base arguments and from parameters whose names are spelled as in the tables.

The invariants of `Playground_proof`, `Runner_proof`, `Trial_proof` and `Campaign_proof` were checked by TLC on the instances
of the runs before they were proved.

Model-checked only: all liveness (fairness and ENABLED are out of the prover's reach; so `WorkEnds`,
`RefreshEnds`, `WorkerEnds`, `RunEnds` and their like of the proved modules too). What a recursive definition computes for every
input cannot be proved here, as the induction theorems of the library take an operator; where an invariant needs a least or a greatest
element (`Least`, `LeastAt` in `Trial_proof`, `Greatest` in `Campaign_proof`), the well-founded minimum of a set serves.

## 5. What is not modelled

The lock that keeps a second server off the same storage; the reuse of a pid by an
unrelated process (the signal path checks the command line first); the command line's
`target cleanup`, which takes no lock; the contents of submissions, bundles and logs; the
HTTP layer. Of the playground: text reports, the GPU query of a worker, the event file and its
cursor, the hash of the Pod template, the client of `kubectl`, whose answers are inputs. Of the
optimization: trials without a managed target as steps of `Runner` (`Trial` has their evaluation), two
processes at once (the execution lock is a recipe check, not a lock on the host), members of a
service's process group that outlive their leader, events other than those on outcomes, torn lines
and replay of the event log, the recall of compatible entries, the data of profiles, the improvement
reported over the primary points. Of the node status: a thread that cannot be started. Of the
playground's worker: a print that blocks because nobody reads its pipe. Of the sources: `git gc`, local runs that share a worker's cache, the removal of
worktrees. Of campaigns: the server that `--allow-server` starts beside a benchmark, artifacts other
than the result. Not modelled at all, because they keep no state or only render it: HTTP
routing, the command line, the projection of progress and the mirror of logs (their cursors are
listed as hazards), construction of commands for profilers and the parsing of their output, the web pages.

## 6. Plan

1. `ControlPlane`, `Supervisor` and the proofs about `ControlPlane` (done).
2. `Playground`, its worker in detail and the node status (done); then `PlaygroundWorker` shown to implement the
   worker steps of `Playground`.
3. `Runner`; `Trial` and `Sources` inside it, with the proof about `Sources` (done).
4. `Campaign` with configuration, adapters, gates and ledger (done).
5. The event log and the memory in detail: torn lines, replay and rebuild; the log cursor and the
   mirror of the live logs.
6. Proofs: `Supervisor` with its refinement, `Playground`, `Runner`, `Trial`, `Sources`, `PlaygroundWorker`,
   `NodeStatus`, `Campaign` (done); the refinement of item 2.
