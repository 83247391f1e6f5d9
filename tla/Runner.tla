-------------------------------- MODULE Runner --------------------------------
(***************************************************************************)
(* Optimization runs on one host: the processes of `optimize run` and      *)
(* `target run` (src/euboulia/optimization/runner.py) with the lifecycle,  *)
(* the budget, the planner and the memory they use, and the SGLang         *)
(* services they start (target.py).                                        *)
(*                                                                         *)
(* Runs follow one another; memory, event ledger and any service nobody    *)
(* stopped outlive them.  All services are configured with the same        *)
(* endpoint.  A failing write, an interrupt and a kill may strike at every *)
(* step.  A service is its leader process.                                 *)
(***************************************************************************)
EXTENDS Naturals, Sequences, FiniteSets

CONSTANTS
    Changes,         \* the reviewed changes of the catalog
    MaxIterations,   \* optimization.budget: iterations of one run,
    MaxFailures,     \*   failures in one run (max_consecutive_failures),
    Patience,        \*   outcomes without improvement (no_improvement_patience)
    RecallLimit,     \* entries that one recall of the memory returns
    MaxRuns,         \* bound on the processes ever started
    Strikes,         \* what may strike a process: a failing write, Ctrl-C, a kill
    MaxFaults        \* bound on how often anything strikes

ASSUME BudgetAssumption ==
    {MaxIterations, MaxFailures, Patience, RecallLimit, MaxRuns} \subseteq Nat \ {0}
ASSUME FaultAssumption == MaxFaults \in Nat /\ Strikes \subseteq {"write", "interrupt", "kill"}

VARIABLES
    run,        \* processes started so far; the current one has this number
    pc,         \* where it is
    raised,     \* the exception it unwinds with
    rs, lc,     \* Lifecycle.run and Lifecycle.iteration
    budget,     \* BudgetTracker and no_improvement
    fresh,      \* the id of this iteration has not been used before
    role,       \* the service it works on
    own,        \* the service it holds a handle of, as a set
    change,     \* the proposal under test, as a set
    seen,       \* for each role of this iteration: who answered, and the result
    procs,      \* the services alive on the host
    server,     \* the one that listens on the endpoint, as a set
    memory,     \* SQLiteMemoryStore, oldest entry first
    ledger,     \* the events on outcomes: <<kind, run, change>>
    faults      \* what has struck so far

walk == <<run, pc, raised, fresh, role, faults>>
plan == <<rs, lc, budget, change, seen>>
host == <<own, procs, server>>
disk == <<memory, ledger>>
vars == <<walk, plan, host, disk>>

-----------------------------------------------------------------------------
(* Types *)

Roles == {"validation", "profile", "baseline", "candidate"}
\* The roles of _evaluate_managed_service.
Managed == {"baseline", "candidate"}
Services == [run : 1..MaxRuns, iter : 0..MaxIterations, role : Roles]
Results == {"passed", "rejected", "failed"}
Unseen == [by |-> {}, result |-> "failed"]
Statuses == {"accepted", "rejected", "failed", "invalid"}
Outcomes == [run : 1..MaxRuns, change : Changes, status : Statuses]

Budgets == [iterations : 0..MaxIterations, failures : 0..MaxFailures, worse : 0..Patience,
            late : BOOLEAN]

\* The states of a run; "illegal" for the StateTransitionError of a move that
\* the table does not allow.
RUN_TRANSITIONS ==
    [planned |-> {"baselining", "iterating", "cancelled"},
     baselining |-> {"iterating", "waiting_for_approval", "failed", "cancelled"},
     iterating |-> {"waiting_for_approval", "completed", "stopped", "failed", "cancelled"},
     waiting_for_approval |-> {"iterating", "stopped", "cancelled"},
     completed |-> {}, stopped |-> {}, failed |-> {}, cancelled |-> {}, illegal |-> {}]

Ended == {"accepted", "rejected", "invalid", "failed"}
Recording(s) == {s, "recording_memory", "failed"}
Serviced(s) == Recording(s) \cup {"invalid"}

\* The states of an iteration, with "none" before the first one.
ITERATION_TRANSITIONS ==
    [none |-> {}, illegal |-> {}, accepted |-> {}, rejected |-> {}, invalid |-> {}, failed |-> {},
     created |-> {"profiling", "failed"},
     profiling |-> {"analyzing", "failed"},
     analyzing |-> {"planning", "failed"},
     planning |-> {"preparing_workspace"} \cup Recording("preparing_baseline"),
     waiting_for_approval |-> {"preparing_baseline", "preparing_workspace", "recording_memory"},
     preparing_baseline |-> Recording("building_baseline"),
     building_baseline |-> Recording("starting_baseline"),
     starting_baseline |-> {"waiting_for_baseline"} \cup Recording("stopping_baseline"),
     waiting_for_baseline |-> {"evaluating_baseline"} \cup Recording("stopping_baseline"),
     evaluating_baseline |-> Recording("stopping_baseline"),
     stopping_baseline |-> Recording("preparing_workspace"),
     preparing_workspace |-> {"applying_patch", "invalid", "failed"},
     applying_patch |-> {"building", "evaluating", "invalid", "failed"},
     building |-> Serviced("starting_service"),
     starting_service |-> {"waiting_for_ready"} \cup Serviced("stopping_service"),
     waiting_for_ready |-> {"evaluating"} \cup Serviced("stopping_service"),
     evaluating |-> Serviced("stopping_service"),
     stopping_service |-> {"recording_memory", "invalid", "failed"},
     recording_memory |-> Ended]

\* The state of the iteration at each stage of its baseline and its candidate.
Stage ==
    [baseline |-> [prepare |-> "preparing_baseline", build |-> "building_baseline",
                   start |-> "starting_baseline", wait |-> "waiting_for_baseline",
                   evaluate |-> "evaluating_baseline", stop |-> "stopping_baseline"],
     candidate |-> [prepare |-> "preparing_workspace", build |-> "building",
                    start |-> "starting_service", wait |-> "waiting_for_ready",
                    evaluate |-> "evaluating", stop |-> "stopping_service"]]

TypeOK ==
    /\ run \in 0..MaxRuns /\ faults \in 0..MaxFaults
    /\ pc \in {"idle", "approve", "loop", "reserve", "recall", "prepare", "patch", "build",
               "start", "started", "ready", "evaluate", "stopping", "stop", "stopped",
               "analyze", "plan", "nothing", "compare", "remember", "log", "conclude",
               "champion", "complete", "halt", "caught", "log_invalid", "fail"}
    /\ raised \in {"no", "rejected", "error", "interrupt"}
    /\ rs \in DOMAIN RUN_TRANSITIONS /\ lc \in DOMAIN ITERATION_TRANSITIONS
    /\ budget \in Budgets
    /\ fresh \in BOOLEAN /\ role \in Roles
    /\ procs \in SUBSET Services /\ server \in SUBSET procs
    /\ own \in SUBSET Services /\ change \in SUBSET Changes
    /\ \A s \in {own, server, change} : \A x, y \in s : x = y
    /\ seen \in [Managed -> [by : SUBSET Services, result : Results]]
    /\ memory \in Seq(Outcomes)
    /\ pc = "idle" => own = {}

Init ==
    /\ run = 0 /\ pc = "idle" /\ raised = "no" /\ faults = 0
    /\ rs = "planned" /\ lc = "none"
    /\ budget = [iterations |-> 0, failures |-> 0, worse |-> 0, late |-> FALSE]
    /\ fresh = TRUE /\ role = "profile" /\ own = {} /\ change = {}
    /\ seen = [r \in Managed |-> Unseen]
    /\ procs = {} /\ server = {} /\ memory = <<>> /\ ledger = {}

-----------------------------------------------------------------------------
(* Moves, exceptions and writes *)

\* Lifecycle.move_run and move_iteration, along a path of states.
Along(table, from, path) ==
    LET at == <<from>> \o path
    IN  IF \A i \in 1..Len(path) : at[i + 1] \in table[at[i]] THEN at[Len(at)] ELSE "illegal"
MoveRun(path) == rs' = Along(RUN_TRANSITIONS, rs, path)
Move(path) == lc' = Along(ITERATION_TRANSITIONS, lc, path)
\* The service helper moves the iteration of a managed trial only.
MoveTo(stage) ==
    IF role \in Managed THEN Move(<<Stage[role][stage]>>) ELSE UNCHANGED lc

\* Inside the try block whose finally clause stops the service.
Guarded ==
    pc \in {"ready", "evaluate"} \/ (pc = "started" /\ role # "profile")

\* An exception leaves the step.  Where no finally clause waits for it, the
\* handle of the service goes with the frame.
Throw(e) ==
    /\ raised' = e
    /\ IF Guarded THEN pc' = "stopping" /\ UNCHANGED own
       ELSE pc' = "caught" /\ own' = {}

Strike(kind) == kind \in Strikes /\ faults < MaxFaults /\ faults' = faults + 1

GoTo(p) == pc' = p /\ UNCHANGED <<raised, own, faults>>
WriteFails == Strike("write") /\ Throw("error")

\* EventLedger.append of an event on an outcome.  When the write fails, or the
\* fsync after it, the event may be on disk.
Log(event, to) ==
    \/ ledger' = ledger \cup {event} /\ GoTo(to)
    \/ ledger' \in {ledger, ledger \cup {event}} /\ WriteFails

The == CHOOSE c \in change : TRUE
Event(kind) == <<kind, run, The>>
Service == [run |-> run, iter |-> budget.iterations, role |-> role]

-----------------------------------------------------------------------------
(* A run and its iterations *)

\* A process starts, `optimize run` or `target run`.
Begin ==
    /\ pc = "idle" /\ run < MaxRuns /\ run' = run + 1
    /\ raised' = "no" /\ rs' = "planned" /\ lc' = "none" /\ fresh' = TRUE
    /\ budget' = [iterations |-> 0, failures |-> 0, worse |-> 0, late |-> FALSE]
    /\ change' = {} /\ seen' = [r \in Managed |-> Unseen]
    /\ \/ pc' = "approve" /\ role' = "profile"
       \/ pc' = "prepare" /\ role' = "validation"
    /\ UNCHANGED <<faults, host, disk>>

\* Up to the try block: without every authorization the run pauses; a write
\* that fails ends it with no RUN_FAILED.  Then the models are prepared.
Approve ==
    /\ pc = "approve"
    /\ \/ MoveRun(<<"iterating", "waiting_for_approval">>) /\ GoTo("idle")
       \/ MoveRun(<<"iterating">>) /\ GoTo("loop")
       \/ MoveRun(<<"iterating">>) /\ Throw("error") /\ UNCHANGED faults
       \/ Strike("write") /\ pc' = "idle" /\ UNCHANGED <<rs, raised, own>>
    /\ UNCHANGED <<run, fresh, role, lc, budget, change, seen, procs, server, disk>>

Exhausted ==
    \/ budget.late
    \/ budget.iterations >= MaxIterations
    \/ budget.failures >= MaxFailures

Loop ==
    /\ pc = "loop" /\ GoTo(IF Exhausted THEN "halt" ELSE "reserve")
    /\ UNCHANGED <<run, fresh, role, plan, procs, server, disk>>

\* max_wall_time_seconds have passed.
WallTimePasses ==
    /\ pc # "idle" /\ role # "validation" /\ ~budget.late
    /\ budget' = [budget EXCEPT !.late = TRUE]
    /\ UNCHANGED <<walk, rs, lc, change, seen, host, disk>>

\* reserve_iteration reads the clock a second time.  If it reserves nothing the
\* runner goes on all the same, under the number of the iteration before.
Reserve ==
    /\ pc = "reserve"
    /\ IF Exhausted
         THEN fresh' = (budget.iterations = 0) /\ UNCHANGED budget
         ELSE /\ fresh' = TRUE
              /\ budget' = [budget EXCEPT !.iterations = @ + 1]
    /\ lc' = IF lc \in Ended \cup {"none"} THEN "created" ELSE "illegal"
    /\ change' = {} /\ seen' = [r \in Managed |-> Unseen]
    /\ GoTo("recall") \/ WriteFails
    /\ UNCHANGED <<run, role, rs, procs, server, disk>>

\* The memory is recalled at the start of an iteration, and nobody writes to it
\* before the plan is made: Plan reads it.
Recall ==
    /\ pc = "recall" /\ Move(<<"profiling">>) /\ role' = "profile"
    /\ GoTo("prepare") \/ WriteFails
    /\ UNCHANGED <<run, fresh, rs, budget, change, seen, procs, server, disk>>

\* A recall returns the latest entries.
Recalled == {memory[i] : i \in {k \in 1..Len(memory) : k + RecallLimit > Len(memory)}}

\* Slip: an outcome made from an exception names no change.
AttemptedByVerdict == {m.change : m \in {n \in Recalled : n.status # "invalid"}}
Attempted == {m.change : m \in Recalled}

Analyze ==
    /\ pc = "analyze" /\ Move(<<"analyzing", "planning">>)
    /\ GoTo("plan") \/ WriteFails
    /\ UNCHANGED <<run, fresh, role, rs, budget, change, seen, procs, server, disk>>

\* RulePlanner.propose: a change some finding calls for, and that no recalled
\* entry names.  The catalog may be unreadable.
Plan ==
    /\ pc = "plan"
    /\ \/ \E c \in Changes \ Attempted : change' = {c} /\ role' = "baseline" /\ GoTo("prepare")
       \/ GoTo("nothing") /\ UNCHANGED <<change, role>>
       \/ Throw("error") /\ UNCHANGED <<faults, change, role>>
    /\ UNCHANGED <<run, fresh, rs, lc, budget, seen, procs, server, disk>>

\* The planner has no new proposal.
Nothing ==
    /\ pc = "nothing" /\ Move(<<"recording_memory", "rejected">>) /\ MoveRun(<<"completed">>)
    /\ GoTo("idle") \/ WriteFails
    /\ UNCHANGED <<run, fresh, role, budget, change, seen, procs, server, disk>>

-----------------------------------------------------------------------------
(* The life of a service: validation, profile, baseline and candidate *)

ServiceKeeps == UNCHANGED <<run, fresh, rs, budget, change, procs, server, disk>>

\* _prepare_managed_workspace, and the identity of runtime and hardware.
Prepare ==
    /\ pc = "prepare" /\ MoveTo("prepare")
    /\ \/ /\ role = "profile" => fresh
          /\ GoTo(IF role = "candidate" THEN "patch" ELSE "build")
       \/ \E e \in {"rejected", "error"} : Throw(e) /\ UNCHANGED faults
    /\ UNCHANGED <<role, seen>> /\ ServiceKeeps

\* _materialize_candidate_change.
Patch ==
    /\ pc = "patch" /\ Move(<<"applying_patch">>)
    /\ \/ GoTo("build")
       \/ \E e \in {"rejected", "error"} : Throw(e) /\ UNCHANGED faults
    /\ UNCHANGED <<role, seen>> /\ ServiceKeeps

\* _build_managed_target.
Build ==
    /\ pc = "build" /\ MoveTo("build")
    /\ GoTo("start") \/ (Throw("error") /\ UNCHANGED faults)
    /\ UNCHANGED <<role, seen>> /\ ServiceKeeps

\* SGLangTargetController.start: a failing start leaves no process.
Start ==
    /\ pc = "start" /\ MoveTo("start")
    /\ \/ /\ own' = {Service} /\ procs' = procs \cup own' /\ pc' = "started"
          /\ UNCHANGED <<raised, faults>>
       \/ Throw("error") /\ UNCHANGED <<procs, faults>>
    /\ UNCHANGED <<run, fresh, role, rs, budget, change, seen, server, disk>>

\* SERVICE_STARTED.
Started ==
    /\ pc = "started"
    /\ (MoveTo("wait") /\ GoTo("ready")) \/ (WriteFails /\ UNCHANGED lc)
    /\ UNCHANGED <<role, seen>> /\ ServiceKeeps

\* Slip: no deadline.
ReadyWithoutDeadline ==
    /\ pc = "ready"
    /\ \/ own \subseteq procs /\ server # {} /\ MoveTo("evaluate") /\ GoTo("evaluate")
       \/ ~(own \subseteq procs) /\ Throw("error") /\ UNCHANGED <<lc, faults>>
    /\ UNCHANGED <<role, seen>> /\ ServiceKeeps

\* wait_ready asks the endpoint as long as the process it started is alive:
\* any 2xx or 3xx will do.  The deadline may pass at any time.
Ready ==
    /\ pc = "ready"
    /\ \/ own \subseteq procs /\ server # {} /\ MoveTo("evaluate") /\ GoTo("evaluate")
       \/ Throw("error") /\ UNCHANGED <<lc, faults>>
    /\ UNCHANGED <<role, seen>> /\ ServiceKeeps

\* The capture of the profile, or the workload suite.  With nobody on the
\* endpoint nothing passes.
Evaluate ==
    /\ pc = "evaluate"
    /\ \/ /\ role \in Managed
          /\ \E res \in Results :
               /\ res = "rejected" => role = "candidate"
               /\ res # "failed" => server # {}
               /\ seen' = [seen EXCEPT ![role] = [by |-> server, result |-> res]]
          /\ GoTo("stopping")
       \/ role \notin Managed /\ server # {} /\ GoTo("stopping") /\ UNCHANGED seen
       \/ Throw("error") /\ UNCHANGED <<seen, faults>>
    /\ UNCHANGED <<role, lc>> /\ ServiceKeeps

\* Slip: the failing write is raised at once, as in the profile.
StoppingRaises ==
    /\ pc = "stopping" /\ MoveTo("stop")
    /\ GoTo("stop") \/ WriteFails
    /\ UNCHANGED <<role, seen>> /\ ServiceKeeps

\* SERVICE_STOPPING, or the progress file of a validation, in the finally
\* clause.  In a managed trial the failing write is kept for later.
Stopping ==
    /\ pc = "stopping" /\ MoveTo("stop")
    /\ \/ GoTo("stop")
       \/ role \in Managed /\ Strike("write") /\ raised' = "error" /\ pc' = "stop" /\ UNCHANGED own
       \/ role \notin Managed /\ WriteFails
    /\ UNCHANGED <<role, seen>> /\ ServiceKeeps

\* Slip: a stop that fails is noted and forgotten.
StopForgives ==
    /\ pc = "stop" /\ own' = {} /\ pc' = "stopped" /\ UNCHANGED raised
    /\ \/ procs' = procs \ own /\ UNCHANGED faults
       \/ procs' \in {procs, procs \ own} /\ Strike("write")
    /\ server' = server \cap procs'
    /\ UNCHANGED <<run, fresh, role, plan, disk>>

\* stop signals the group of a leader that is alive and waits for it.  It may
\* fail before the signal (the identity of the process cannot be read) and
\* after the end (the manifest cannot be written).
Stop ==
    /\ pc = "stop"
    /\ \/ procs' = procs \ own /\ own' = {} /\ pc' = "stopped" /\ UNCHANGED <<raised, faults>>
       \/ procs' \in {procs, procs \ own} /\ WriteFails
    /\ server' = server \cap procs'
    /\ UNCHANGED <<run, fresh, role, plan, disk>>

\* Where the work goes on once its service has been stopped.
After ==
    [validation |-> "idle", profile |-> "analyze", baseline |-> "compare",
     candidate |-> "remember"]

\* SERVICE_STOPPED; then the exception of the body goes on its way.
Stopped ==
    /\ pc = "stopped"
    /\ \/ GoTo(IF raised = "no" THEN After[role] ELSE "caught")
       \/ role # "validation" /\ WriteFails
    /\ UNCHANGED <<role, lc, seen>> /\ ServiceKeeps

\* Slip: a baseline that was rejected or failed will do.
CompareAnything ==
    /\ pc = "compare" /\ role' = "candidate" /\ GoTo("prepare")
    /\ UNCHANGED <<lc, seen>> /\ ServiceKeeps

\* A baseline that is not measured ends the run; otherwise the candidate is next.
Compare ==
    /\ pc = "compare"
    /\ \/ seen["baseline"].result = "passed" /\ role' = "candidate" /\ GoTo("prepare")
       \/ seen["baseline"].result # "passed" /\ Throw("error") /\ UNCHANGED <<faults, role>>
       \/ WriteFails /\ UNCHANGED role
    /\ UNCHANGED <<lc, seen>> /\ ServiceKeeps

-----------------------------------------------------------------------------
(* Outcomes *)

OutcomeKeeps == UNCHANGED <<run, fresh, role, change, seen, procs, server>>

\* _outcome_status.
Status ==
    IF seen["candidate"].result = "passed" THEN "accepted" ELSE seen["candidate"].result

\* Slip: the run goes on when the memory cannot be written.
RecordIfPossible(status, to) ==
    /\ GoTo(to)
    /\ memory' \in {memory, Append(memory, [run |-> run, change |-> The, status |-> status])}

\* _remember: one transaction.
Record(status, to) ==
    \/ /\ memory' = Append(memory, [run |-> run, change |-> The, status |-> status])
       /\ GoTo(to)
    \/ WriteFails /\ UNCHANGED memory

Remember ==
    /\ pc = "remember" /\ Move(<<"recording_memory">>) /\ Record(Status, "log")
    /\ UNCHANGED <<rs, budget, ledger>> /\ OutcomeKeeps

\* MEMORY_RECORDED.
LogMemory ==
    /\ pc = "log" /\ Log(Event("memory"), "conclude")
    /\ UNCHANGED <<rs, lc, budget, memory>> /\ OutcomeKeeps

\* VERDICT_RECORDED and ITERATION_COMPLETED; without improvement, on to the
\* next iteration or out of the loop.
Conclude ==
    /\ pc = "conclude" /\ Move(<<Status>>)
    /\ \/ Status = "accepted" /\ Log(Event("verdict"), "champion") /\ UNCHANGED budget
       \/ /\ Status # "accepted"
          /\ Log(Event("verdict"), IF budget.worse + 1 >= Patience THEN "halt" ELSE "loop")
          /\ budget' = IF raised' # "no" THEN budget
               ELSE [budget EXCEPT !.worse = @ + 1,
                                   !.failures = @ + (IF Status = "failed" THEN 1 ELSE 0)]
    /\ UNCHANGED <<rs, memory>> /\ OutcomeKeeps

\* CHAMPION_UPDATED.
Champion ==
    /\ pc = "champion" /\ Log(Event("champion"), "complete")
    /\ UNCHANGED <<rs, lc, budget, memory>> /\ OutcomeKeeps

\* RUN_COMPLETED.
Complete ==
    /\ pc = "complete" /\ MoveRun(<<"completed">>) /\ (GoTo("idle") \/ WriteFails)
    /\ UNCHANGED <<lc, budget, disk>> /\ OutcomeKeeps

\* RUN_STOPPED.
Halt ==
    /\ pc = "halt" /\ MoveRun(<<"stopped">>) /\ (GoTo("idle") \/ WriteFails)
    /\ UNCHANGED <<lc, budget, disk>> /\ OutcomeKeeps

\* Slip: the state the trial had reached.
TrialsState == lc

\* A failed trial leaves run() with the lifecycle it called the helper with.
CallersState == "planning"

\* The handlers of run(): a rejected patch or workspace is an outcome of its
\* own, any other exception fails the run, and an interrupt is not caught.
Caught ==
    /\ pc = "caught"
    /\ \/ /\ raised = "rejected" /\ role \in Managed
          /\ raised' = "no" /\ UNCHANGED <<own, rs>>
          /\ lc' = Along(ITERATION_TRANSITIONS, CallersState, <<"recording_memory">>)
          /\ \/ /\ memory' = Append(memory, [run |-> run, change |-> The, status |-> "invalid"])
                /\ budget' = [budget EXCEPT !.failures = @ + 1]
                /\ pc' = "log_invalid" /\ UNCHANGED faults
             \/ Strike("write") /\ pc' = "fail" /\ UNCHANGED <<memory, budget>>
       \/ /\ ~(raised = "rejected" /\ role \in Managed)
          /\ pc' = IF raised = "interrupt" \/ role = "validation" THEN "idle" ELSE "fail"
          /\ UNCHANGED <<raised, own, faults, plan, memory>>
    /\ UNCHANGED ledger /\ OutcomeKeeps

\* MEMORY_RECORDED, PATCH_REJECTED and ITERATION_FAILED.
LogInvalid ==
    /\ pc = "log_invalid" /\ Move(<<"invalid">>) /\ Log(Event("memory"), "loop")
    /\ UNCHANGED <<rs, budget, memory>> /\ OutcomeKeeps

\* RUN_FAILED, if the ledger takes it.
Fail ==
    /\ pc = "fail" /\ pc' = "idle" /\ (Strike("write") \/ UNCHANGED faults)
    /\ UNCHANGED <<raised, own, rs, lc, budget, disk>> /\ OutcomeKeeps

-----------------------------------------------------------------------------
(* What happens to a run and its services *)

\* Ctrl-C.  Inside a guarded block it takes the way of every exception.  In the
\* finally clause it is kept by a managed trial, unless it strikes between the
\* two try blocks; elsewhere it skips the rest.  In start it may find the
\* process launched and its handle not returned.
Interrupt ==
    /\ pc # "idle" /\ Strike("interrupt") /\ raised' = "interrupt"
    /\ \/ Guarded /\ pc' = "stopping" /\ UNCHANGED <<own, procs>>
       \/ pc = "stopping" /\ role \in Managed /\ pc' = "stop" /\ UNCHANGED <<own, procs>>
       \/ ~Guarded /\ own' = {} /\ pc' = "idle" /\ UNCHANGED procs
       \/ pc = "start" /\ procs' = procs \cup {Service} /\ pc' = "idle" /\ UNCHANGED own
    /\ UNCHANGED <<run, fresh, role, plan, server, disk>>

\* SIGTERM or SIGKILL: no finally clause runs.
Kill ==
    /\ pc # "idle" /\ Strike("kill") /\ pc' = "idle" /\ own' = {} /\ raised' = "interrupt"
    /\ UNCHANGED <<run, fresh, role, plan, procs, server, disk>>

\* A loaded service listens, if the port is free.
Listens ==
    /\ server = {} /\ \E s \in procs : server' = {s}
    /\ UNCHANGED <<walk, plan, own, procs, disk>>

Exits ==
    /\ \E s \in procs : procs' = procs \ {s} /\ server' = server \ {s}
    /\ UNCHANGED <<walk, plan, own, disk>>

-----------------------------------------------------------------------------

Trial == Prepare \/ Patch \/ Build \/ Start \/ Started \/ Ready \/ Evaluate
           \/ Stopping \/ Stop \/ Stopped \/ Compare

Step ==
    \/ Approve \/ Loop \/ Reserve \/ Recall \/ Analyze \/ Plan \/ Nothing
    \/ Trial
    \/ Remember \/ LogMemory \/ Conclude \/ Champion \/ Complete \/ Halt
    \/ Caught \/ LogInvalid \/ Fail

Next == Begin \/ Step \/ WallTimePasses \/ Interrupt \/ Kill \/ Listens \/ Exits

\* A process that runs takes its steps: every command it waits for has a
\* timeout, and so has readiness.
Spec == Init /\ [][Next]_vars /\ WF_vars(Step)
-----------------------------------------------------------------------------
(* Properties *)

\* No step of a run, nor any way out of one, makes a move that the lifecycle
\* does not allow: the finally clause of _evaluate_managed_service moves to the
\* stop state from wherever the exception came, and run() records an outcome
\* from the state it called the helper in.
LegalMoves == TypeOK /\ rs # "illegal" /\ lc # "illegal"

\* A run that goes on has no service alive but the one whose handle it holds:
\* the candidate starts only after the baseline, and the baseline only after
\* the profiled champion, is gone.
OneServicePerRun ==
    pc # "idle" /\ raised = "no" => {s \in procs : s.run = run} \subseteq own

\* The service that the run started for a role of this iteration.
StartedFor(r) == [run |-> run, iter |-> budget.iterations, role |-> r]

\* An accepted candidate and its baseline have both passed, each measured by the
\* service started for it in this iteration, never by the profiled champion, by
\* the other role's or by one of an earlier iteration; and the two are stopped.
\* The exception is a service that an earlier run left on the endpoint, after a
\* kill or a stop that failed: wait_ready takes its answer (target.py:829), and
\* the run "runner_fresh" shows it measured.
AcceptedIsMeasured ==
    pc \in {"champion", "complete"} =>
      /\ \A r \in Managed :
           /\ seen[r].result = "passed"
           /\ \E s \in seen[r].by : s = StartedFor(r) \/ s.run < run
      /\ \A s \in procs : ~(s.run = run /\ s.iter = budget.iterations)

\* An exception in a managed trial, a failing write among them, does not leave
\* its service behind: only an interrupt, a kill, or a stop that itself fails
\* gives up the handle of a live service.
ManagedTeardown ==
    [][own # {} /\ role \in Managed /\ own' = {} /\ own \subseteq procs'
         => pc = "stop" \/ raised' = "interrupt"]_vars

\* No change has two outcomes in the memory, whichever runs tried it: the
\* planner skips what it recalls, and recalls all of a catalog of this size.
NoRepeat ==
    \A i, j \in 1..Len(memory) : memory[i].change = memory[j].change => i = j

\* What the ledger says of an outcome is in the memory of the run that said it,
\* and a champion has its verdict, wherever a run breaks off.
LedgerIsBacked ==
    \A e \in ledger :
      /\ \E i \in 1..Len(memory) :
           /\ memory[i].run = e[2] /\ memory[i].change = e[3]
           /\ e[1] = "champion" => memory[i].status = "accepted"
      /\ e[1] = "champion" => <<"verdict", e[2], e[3]>> \in ledger

\* A process that has started comes to its end, whatever fails on the way.
RunEnds == pc # "idle" ~> pc = "idle"

-----------------------------------------------------------------------------
(* What the repository says, and a run refutes *)

\* docs/optimization.md:463: "workload points share the same fresh process for that
\* side of the trial"; docs/safety.md:22 forbids to take over an existing service.
\* A champion has been measured by the services that its own run started.
MeasuredIsFresh ==
    pc \in {"champion", "complete"} => \A r \in Managed : seen[r].by = {StartedFor(r)}

=============================================================================
