----------------------------- MODULE NodeStatus -----------------------------
(***************************************************************************)
(* What the playground tells of the GPUs of a cluster's nodes               *)
(* (src/euboulia/playground/node_status.py, with the kubectl reads of       *)
(* kubernetes.py): a cache that requests read and refresh, and one thread   *)
(* at a time that reads telemetry outside the lock.  A clock is the number  *)
(* of ticks since it was set; beyond Cap ticks it stands still.  A tick is  *)
(* longer than any one read, so that a read and its time stamp are one step.*)
(* The specification has names of its own (MonitorSpec...), so that a module *)
(* can be about this and about the session manager of the same server.      *)
(***************************************************************************)
EXTENDS Naturals, FiniteSets

CONSTANTS
    Nodes,          \* the nodes of the cluster
    Gpus,           \* the physical GPUs of each of them
    Loads,          \* the sets of GPUs that may be in use on a node
    Listings,       \* what the cluster may say of a node
    CacheTicks,     \* CACHE_SECONDS
    StaleTicks,     \* STALE_SECONDS
    None            \* no value

ASSUME TicksAssumption == CacheTicks \in Nat /\ StaleTicks \in Nat /\ CacheTicks <= StaleTicks

\* A node as node_gpu_inventory reads it: whether it is ready, how many GPUs it
\* advertises if that says how many there are, and whether one is partitioned.
Inventory == [ready : BOOLEAN, count : Nat \cup {None}, mig : BOOLEAN]

\* A node the configuration names and kubectl may not read.
Blind == [ready |-> None, count |-> None, mig |-> FALSE]

\* The cluster counts the physical GPUs right, if it counts them.
ASSUME ListingsAssumption ==
    /\ Listings \subseteq Inventory
    /\ \A l \in Listings : l.count \in {None, 0, Cardinality(Gpus)}
ASSUME NodesAssumption == IsFiniteSet(Nodes) /\ IsFiniteSet(Gpus)
ASSUME LoadsAssumption == Loads \subseteq SUBSET Gpus /\ {} \in Loads
ASSUME NoneAssumption == None \notin Nat \cup Listings \cup {Blind}

VARIABLES
    busy,           \* per node the GPUs in use now
    idleAge,        \* per node the ticks since none of them was in use (history)
    scraped,        \* per node the last sample of the GPU exporter and its age
    cache,          \* _Cache: the nodes as listed, their statuses and the clocks
    job,            \* per node the observation the refresh thread has under way
    closed          \* NodeMonitor._closed

world == <<busy, idleAge, scraped>>
monitorVars == <<world, cache, job, closed>>

Cap == StaleTicks + 1
Until(cap, age) == IF age = None \/ age >= cap THEN age ELSE age + 1
Older(age) == Until(Cap, age)
Stale(age) == age # None /\ age > StaleTicks

(***************************************************************************)
(* gpu_status.  A reading of a GPU is busy, idle, or "bad" if one of its    *)
(* numbers is missing, out of range or contradicted and none shows use.     *)
(***************************************************************************)
NoReadings == [g \in {} |-> "bad"]
Unread(l) == l.ready = FALSE \/ l.mig \/ l.count = 0

GpuState(l, readings, age) ==
    CASE l.ready = FALSE -> "not_ready"
      [] l.ready # FALSE /\ l.mig -> "unknown"
      [] l.ready # FALSE /\ ~l.mig /\ l.count = 0 -> "no_gpu"
      [] ~Unread(l) ->
           IF Stale(age) THEN "unknown"
           ELSE IF \E g \in DOMAIN readings : readings[g] = "busy" THEN "busy"
           ELSE IF /\ l.count # None /\ Cardinality(DOMAIN readings) = l.count
                   /\ \A g \in DOMAIN readings : readings[g] = "idle"
                   /\ age # None
                THEN "idle"
           ELSE "unknown"

GpuStatus(l, readings, age) ==
    [total |-> l.count, age |-> age, state |-> GpuState(l, readings, age)]

\* NodeMonitor._baseline: the status a node keeps when it is listed again.
Baseline(l, previous) ==
    IF /\ ~Unread(l) /\ previous.total = l.count
       /\ previous.age # None /\ ~Stale(previous.age)
    THEN previous ELSE GpuStatus(l, NoReadings, None)

\* What a request is told of a node, NodeMonitor._view.
View(n) ==
    LET gpu == cache.gpu[n]
    IN  IF Stale(gpu.age) /\ gpu.state \notin {"not_ready", "no_gpu"}
        THEN [gpu EXCEPT !.state = "unknown"] ELSE gpu

-----------------------------------------------------------------------------
NoStatus == [total |-> None, age |-> None, state |-> "unknown"]
NoJob == [stage |-> "none", target |-> None, exporter |-> FALSE, session |-> FALSE,
          result |-> NoStatus]

Ages == (0..Cap) \cup {None}
Statuses == [total : Nat \cup {None}, age : Ages,
             state : {"unknown", "not_ready", "no_gpu", "busy", "idle"}]

Caches == [nodes : [Nodes -> Listings \cup {Blind, None}], gpu : [Nodes -> Statuses],
           listed : 0..CacheTicks, attempted : 0..CacheTicks,
           refreshing : {"no", "listing", "reading"}]
Jobs == [stage : {"none", "waiting", "fallback", "done"},
         target : Listings \cup {Blind, None}, exporter : BOOLEAN, session : BOOLEAN,
         result : Statuses]

MonitorTypeOK ==
    /\ busy \in [Nodes -> Loads]
    /\ idleAge \in [Nodes -> 0..Cap]
    /\ scraped \in [Nodes -> [age : 0..Cap, busy : Loads]]
    /\ cache \in Caches /\ job \in [Nodes -> Jobs] /\ closed \in BOOLEAN

MonitorInit ==
    /\ busy = [n \in Nodes |-> {}]
    /\ idleAge = [n \in Nodes |-> 0]
    /\ scraped = [n \in Nodes |-> [age |-> 0, busy |-> {}]]
    /\ cache = [nodes |-> [n \in Nodes |-> None], gpu |-> [n \in Nodes |-> NoStatus],
                listed |-> CacheTicks, attempted |-> CacheTicks, refreshing |-> "no"]
    /\ job = [n \in Nodes |-> NoJob] /\ closed = FALSE

(***************************************************************************)
(* The cluster.                                                             *)
(***************************************************************************)
Work(n) ==
    /\ \E s \in Loads :
         /\ busy' = [busy EXCEPT ![n] = s]
         /\ idleAge' = [idleAge EXCEPT ![n] = IF {} \in {busy[n], s} THEN 0 ELSE @]
    /\ UNCHANGED <<scraped, cache, job, closed>>

Scrape(n) ==
    /\ scraped' = [scraped EXCEPT ![n] = [age |-> 0, busy |-> busy[n]]]
    /\ UNCHANGED <<busy, idleAge, cache, job, closed>>

Aged(status) == [status EXCEPT !.age = Older(@)]

Tick ==
    /\ idleAge' = [n \in Nodes |-> IF busy[n] = {} THEN 0 ELSE Older(idleAge[n])]
    /\ scraped' = [n \in Nodes |-> [scraped[n] EXCEPT !.age = Older(@)]]
    /\ cache' = [cache EXCEPT !.listed = Until(CacheTicks, @),
                    !.attempted = Until(CacheTicks, @),
                    !.gpu = [n \in Nodes |-> Aged(@[n])]]
    /\ job' = [n \in Nodes |-> [job[n] EXCEPT !.result = Aged(@)]]
    /\ UNCHANGED <<busy, closed>>

(***************************************************************************)
(* A request, NodeMonitor.snapshot, under the lock of the cache.            *)
(***************************************************************************)
Listed == \A n \in Nodes : cache.nodes[n] # None
Refreshing == cache.refreshing # "no"

\* Slip: a request may list the nodes again under a refresh.
MayListAnyTime(refresh) ==
    ~closed /\ (~Listed \/ refresh \/ cache.listed >= CacheTicks)

MayList(refresh) ==
    ~closed /\ (~Listed \/ (~Refreshing /\ (refresh \/ cache.listed >= CacheTicks)))

NodeLists == [Nodes -> Listings] \cup {[n \in Nodes |-> Blind]}

Relisted(nodes) ==
    [cache EXCEPT !.nodes = nodes, !.listed = 0,
        !.gpu = [n \in Nodes |-> Baseline(nodes[n], @[n])]]

Started(c) ==
    [c EXCEPT !.refreshing = "listing", !.attempted = 0,
        !.gpu = [n \in Nodes |-> Baseline(c.nodes[n], @[n])]]

\* The thread observes the nodes as they were listed when it was started.
Start(c, refresh) ==
    IF ~closed /\ ~Refreshing /\ (refresh \/ c.attempted >= CacheTicks)
    THEN /\ cache' = Started(c)
         /\ job' = [n \in Nodes |-> [NoJob EXCEPT !.target = c.nodes[n]]]
    ELSE cache' = c /\ UNCHANGED job

Snapshot(refresh) ==
    /\ \/ MayList(refresh) /\ \E nodes \in NodeLists : Start(Relisted(nodes), refresh)
       \/ ~MayList(refresh) /\ Listed /\ Start(cache, refresh)
    /\ UNCHANGED <<world, closed>>

Unseen ==
    [cache EXCEPT !.listed = 0, !.attempted = 0,
        !.gpu = [n \in Nodes |-> GpuStatus(cache.nodes[n], NoReadings, None)]]

\* A listing that fails leaves the nodes of the last one, with no telemetry.
\* A refresh is not started then.
SnapshotFails(refresh) ==
    /\ MayList(refresh) /\ Listed
    /\ cache' = Unseen
    /\ UNCHANGED <<world, job, closed>>

(***************************************************************************)
(* The refresh thread, NodeMonitor._refresh, and its pool.                  *)
(***************************************************************************)
Stopped(c) == [c EXCEPT !.refreshing = "no"]

\* The nodes on which a ready or disconnected session has a Pod; none, if the
\* sessions cannot be read.
SessionTargets == SUBSET Nodes

Waiting(observation, exporter, session) ==
    [observation EXCEPT !.stage = "waiting", !.exporter = exporter, !.session = session]

\* Which nodes have a ready exporter or else a Pod of the playground.
ListSources ==
    /\ cache.refreshing = "listing"
    /\ IF closed THEN cache' = Stopped(cache) /\ UNCHANGED job
       ELSE /\ cache' = [cache EXCEPT !.refreshing = "reading"]
            /\ \E exporters \in SUBSET Nodes, sessions \in SessionTargets :
                 job' = [n \in Nodes |->
                    IF Unread(job[n].target) THEN NoJob
                    ELSE Waiting(job[n], n \in exporters, n \in sessions)]
    /\ UNCHANGED <<world, closed>>

\* A complete or incomplete reading of the GPUs in use.
Readings(used) ==
    UNION {{r \in [some -> {"idle", "busy", "bad"}] :
              \A g \in some : r[g] # "bad" => r[g] = (IF g \in used THEN "busy" ELSE "idle")} :
           some \in SUBSET Gpus}

\* A status is as old as the oldest sample in it.
Checked(n, stamped) == IF stamped THEN scraped[n].age ELSE 0

\* What the exporter yields: current readings, or readings of its last sample
\* that it stamped; nothing, if there is none, if it fails or if its metrics
\* are malformed.
ExporterStatuses(n) ==
    LET l == job[n].target
    IN  {GpuStatus(l, NoReadings, None)}
        \cup (IF closed \/ ~job[n].exporter THEN {}
              ELSE {GpuStatus(l, r, Checked(n, FALSE)) : r \in Readings(busy[n])}
                   \cup {GpuStatus(l, r, Checked(n, TRUE)) : r \in Readings(scraped[n].busy)})

\* What nvidia-smi yields, or nothing when the Pod has another owner, the exec
\* fails or the table is not one of physical GPUs.
InventoryStatuses(n) ==
    {GpuStatus(job[n].target, NoReadings, None)}
    \cup {GpuStatus(job[n].target, r, 0) : r \in Readings(busy[n])}

Reported(observation, status, stage) ==
    [observation EXCEPT !.result = status, !.stage = stage]

\* NodeMonitor._collect: the exporter first, then nvidia-smi in the Pod of a
\* session on the node.
AskExporter(n) ==
    /\ job[n].stage = "waiting"
    /\ \E status \in ExporterStatuses(n) :
         job' = [job EXCEPT ![n] = Reported(@, status,
                    IF status.state = "unknown" /\ job[n].session /\ ~closed
                    THEN "fallback" ELSE "done")]
    /\ UNCHANGED <<world, cache, closed>>

AskInventory(n) ==
    /\ job[n].stage = "fallback"
    /\ \E status \in InventoryStatuses(n) :
         job' = [job EXCEPT ![n] = Reported(@, status, "done")]
    /\ UNCHANGED <<world, cache, closed>>

Store(n) ==
    /\ cache.refreshing = "reading" /\ job[n].stage = "done" /\ ~closed
    /\ cache' = [cache EXCEPT !.gpu[n] = job[n].result]
    /\ job' = [job EXCEPT ![n] = NoJob]
    /\ UNCHANGED <<world, closed>>

\* Slip: only a refresh that stored every status clears the flag.
FinishUnlessClosed ==
    /\ cache.refreshing = "reading"
    /\ \A n \in Nodes : job[n].stage = "none"
    /\ cache' = Stopped(cache) /\ UNCHANGED <<world, job, closed>>

\* All statuses are stored, or the monitor was closed when one came in: what
\* is still read then has nobody to take it.
Finish ==
    /\ cache.refreshing = "reading"
    /\ \/ \A n \in Nodes : job[n].stage = "none"
       \/ closed /\ \E n \in Nodes : job[n].stage = "done"
    /\ cache' = Stopped(cache) /\ job' = [n \in Nodes |-> NoJob]
    /\ UNCHANGED <<world, closed>>

CloseMonitor ==
    /\ ~closed /\ closed' = TRUE /\ UNCHANGED <<world, cache, job>>

-----------------------------------------------------------------------------
Observe(n) == AskExporter(n) \/ AskInventory(n) \/ Store(n)

Thread == ListSources \/ Finish \/ \E n \in Nodes : Observe(n)

MonitorNext ==
    \/ \E n \in Nodes : Work(n) \/ Scrape(n)
    \/ Tick \/ CloseMonitor \/ Thread
    \/ \E refresh \in BOOLEAN : Snapshot(refresh) \/ SnapshotFails(refresh)

\* Each read of the thread ends by its timeout, and the pool goes on.
MonitorFairness ==
    /\ WF_monitorVars(ListSources) /\ WF_monitorVars(Finish)
    /\ \A n \in Nodes : WF_monitorVars(Observe(n))

MonitorSpec == MonitorInit /\ [][MonitorNext]_monitorVars /\ MonitorFairness

-----------------------------------------------------------------------------
(* Properties *)

\* A node is shown as idle only if its GPUs were all idle at one time within
\* STALE_SECONDS, and only as the node is listed now: ready, with whole GPUs, as
\* many as were measured.  Listings, samples and refreshes of different ages meet
\* in the cache (gpu_status: "Only complete, valid physical coverage may establish
\* that every GPU is idle").
IdleIsTrue ==
    /\ MonitorTypeOK
    /\ \A n \in Nodes : View(n).state = "idle" =>
         /\ idleAge[n] <= StaleTicks
         /\ ~Unread(cache.nodes[n]) /\ cache.nodes[n].count = View(n).total

\* A refresh ends, whatever fails in it and even if the monitor is closed
\* under it; no other one may start before.
RefreshEnds == Refreshing ~> ~Refreshing
=============================================================================
