---------------------------- MODULE Runner_proof ----------------------------
(***************************************************************************)
(* For any budget, catalog and number of runs and faults: the moves of a   *)
(* run are legal, it has one service at a time, what it accepts it has     *)
(* measured, what the ledger says the memory holds, and no change is tried *)
(* again while the memory recalls it.                                      *)
(***************************************************************************)
EXTENDS Runner, FiniteSetTheorems, TLAPS

(* The inductive invariant *)

\* Where the work on a service is, and where there is one.
OnService == {"prepare", "patch", "build", "start", "started", "ready", "evaluate",
              "stopping", "stop", "stopped"}
Holding == {"started", "ready", "evaluate", "stopping", "stop"}

\* Where an exception may be under way.
Unwinding == {"stopping", "stop", "stopped", "caught", "fail", "idle"}

\* After the candidate.
Settling == {"remember", "log", "conclude", "champion"}

\* The roles in each place, and the exceptions.
Placed ==
    /\ pc \in {"approve", "analyze", "plan", "nothing"} => role = "profile"
    /\ pc = "compare" => role = "baseline"
    /\ pc \in Settling \cup {"patch"} => role = "candidate"
    /\ pc = "log_invalid" => role \in Managed
    /\ pc \in {"loop", "reserve", "recall", "complete", "halt", "fail"} => role # "validation"
    /\ pc \notin Unwinding => raised = "no"
    /\ pc # "idle" => run \in 1..MaxRuns
    /\ pc = "caught" => raised # "no"

\* A trial of a proposal is on its way, or was refused with its outcome owed.
Trying ==
    \/ role \in Managed /\ pc \in OnService \cup {"compare"}
    \/ pc \in Settling \cup {"log_invalid"}
    \/ pc = "caught" /\ raised = "rejected" /\ role \in Managed

Proposed == Trying => change # {}

\* The state of the run, and of its iteration.
RunState ==
    /\ rs # "illegal"
    /\ pc = "approve" => rs = "planned"
    /\ role # "validation" /\ (pc \notin {"idle", "approve", "caught", "fail"} \/ Trying) =>
         rs = "iterating"

IterationState ==
    /\ lc # "illegal"
    /\ pc = "approve" => lc = "none"
    /\ pc \in {"loop", "reserve"} => lc \in Ended \cup {"none"}
    /\ pc = "recall" => lc = "created"
    /\ pc = "analyze" => lc = "profiling"
    /\ pc \in {"plan", "nothing"} => lc = "planning"
    /\ pc \in {"log", "conclude", "log_invalid"} => lc = "recording_memory"
    /\ pc = "compare" => lc = "stopping_baseline"
    /\ pc = "remember" => lc = "stopping_service"
    /\ pc \in OnService /\ role = "profile" => lc = "profiling"
    /\ role = "baseline" =>
         /\ pc = "prepare" => lc = "planning"
         /\ pc = "build" => lc = "preparing_baseline"
         /\ pc = "start" => lc = "building_baseline"
         /\ pc = "started" => lc = "starting_baseline"
         /\ pc = "ready" => lc = "waiting_for_baseline"
         /\ pc = "evaluate" => lc = "evaluating_baseline"
         /\ pc = "stopping" =>
              lc \in {"starting_baseline", "waiting_for_baseline", "evaluating_baseline"}
         /\ pc \in {"stop", "stopped"} /\ raised = "no" => lc = "stopping_baseline"
    /\ role = "candidate" =>
         /\ pc = "prepare" => lc = "stopping_baseline"
         /\ pc = "patch" => lc = "preparing_workspace"
         /\ pc = "build" => lc = "applying_patch"
         /\ pc = "start" => lc = "building"
         /\ pc = "started" => lc = "starting_service"
         /\ pc = "ready" => lc = "waiting_for_ready"
         /\ pc = "evaluate" => lc = "evaluating"
         /\ pc = "stopping" => lc \in {"starting_service", "waiting_for_ready", "evaluating"}
         /\ pc \in {"stop", "stopped"} /\ raised = "no" => lc = "stopping_service"

\* The budget of a run that goes on.
Budgeted ==
    /\ pc \notin {"idle", "halt", "caught", "fail"} \/ Trying => budget.worse < Patience
    /\ Trying /\ pc # "log_invalid" /\ raised = "rejected" => budget.failures < MaxFailures
    /\ pc \in OnService \cup Settling \cup {"reserve", "recall", "analyze", "plan", "compare"} =>
         budget.failures < MaxFailures

\* The services of a run: none of a run to come, and no other than the one it holds
\* as long as nothing went wrong in a service's life.
Served ==
    /\ \A s \in procs : s.run <= run
    /\ own # {} => pc \in Holding
    /\ pc # "idle" /\ raised \in {"no", "rejected"} => \A s \in procs : s.run = run => s \in own

\* What was measured.
Measured ==
    /\ \A r \in Managed : seen[r].result # "failed" => seen[r].by # {}
    /\ role = "candidate" /\ (pc \in OnService \cup Settling) => seen["baseline"].result = "passed"
    /\ pc \in {"champion", "complete"} => \A r \in Managed : seen[r].result = "passed"

\* What was recorded.
Owed(status) ==
    \E i \in 1..Len(memory) : memory[i] = [run |-> run, change |-> The, status |-> status]

Backed ==
    /\ LedgerIsBacked
    /\ pc \in {"log", "conclude", "champion"} => Owed(Status)
    /\ pc = "log_invalid" => Owed("invalid")
    /\ pc = "champion" => Event("verdict") \in ledger

IInv ==
    /\ TypeOK /\ Placed /\ Proposed /\ RunState /\ IterationState
    /\ Budgeted /\ Served /\ Measured /\ Backed

-----------------------------------------------------------------------------
(* The moves *)

\* A path whose moves the table has ends where it leads.
LEMMA OneMove ==
  ASSUME NEW table, NEW from, NEW to \in table[from]
  PROVE  Along(table, from, <<to>>) = to
BY DEF Along

\* The same for two moves.
LEMMA TwoMoves ==
  ASSUME NEW table, NEW from, NEW over \in table[from], NEW to \in table[over]
  PROVE  Along(table, from, <<over, to>>) = to
BY DEF Along

\* The moves of a run.
LEMMA RunMoves ==
    /\ Along(RUN_TRANSITIONS, "planned", <<"iterating">>) = "iterating"
    /\ Along(RUN_TRANSITIONS, "planned", <<"iterating", "waiting_for_approval">>) = "waiting_for_approval"
    /\ \A s \in {"completed", "stopped"} : Along(RUN_TRANSITIONS, "iterating", <<s>>) = s
<1>1. /\ "iterating" \in RUN_TRANSITIONS["planned"]
      /\ {"completed", "stopped", "waiting_for_approval"} \subseteq RUN_TRANSITIONS["iterating"]
  BY DEF RUN_TRANSITIONS
<1> QED
  BY <1>1, OneMove, TwoMoves

\* The moves of an iteration up to its proposal, and after the trial.
LEMMA OwnMoves ==
    /\ Along(ITERATION_TRANSITIONS, "created", <<"profiling">>) = "profiling"
    /\ Along(ITERATION_TRANSITIONS, "profiling", <<"analyzing", "planning">>) = "planning"
    /\ Along(ITERATION_TRANSITIONS, "planning", <<"recording_memory", "rejected">>) = "rejected"
    /\ \A s \in {"planning", "stopping_service"} :
         Along(ITERATION_TRANSITIONS, s, <<"recording_memory">>) = "recording_memory"
    /\ \A s \in Ended : Along(ITERATION_TRANSITIONS, "recording_memory", <<s>>) = s
<1>1. /\ "profiling" \in ITERATION_TRANSITIONS["created"]
      /\ "analyzing" \in ITERATION_TRANSITIONS["profiling"]
      /\ "planning" \in ITERATION_TRANSITIONS["analyzing"]
      /\ "recording_memory" \in ITERATION_TRANSITIONS["planning"]
      /\ "recording_memory" \in ITERATION_TRANSITIONS["stopping_service"]
      /\ Ended = ITERATION_TRANSITIONS["recording_memory"]
      /\ "rejected" \in Ended
  BY DEF ITERATION_TRANSITIONS, Recording, Ended
<1> QED
  BY <1>1, OneMove, TwoMoves

\* The moves of a baseline.
LEMMA BaselineMoves ==
  ASSUME NEW stage \in DOMAIN Stage["baseline"], NEW from,
         <<from, stage>> \in {<<"planning", "prepare">>, <<"preparing_baseline", "build">>,
             <<"building_baseline", "start">>, <<"starting_baseline", "wait">>,
             <<"waiting_for_baseline", "evaluate">>, <<"starting_baseline", "stop">>,
             <<"waiting_for_baseline", "stop">>, <<"evaluating_baseline", "stop">>}
  PROVE  Along(ITERATION_TRANSITIONS, from, <<Stage["baseline"][stage]>>) = Stage["baseline"][stage]
<1>1. Stage["baseline"][stage] \in ITERATION_TRANSITIONS[from]
  BY DEF ITERATION_TRANSITIONS, Recording, Stage
<1> QED
  BY <1>1, OneMove

\* Those of a candidate.
LEMMA CandidateMoves ==
  ASSUME NEW stage \in DOMAIN Stage["candidate"], NEW from,
         <<from, stage>> \in {<<"stopping_baseline", "prepare">>, <<"applying_patch", "build">>,
             <<"building", "start">>, <<"starting_service", "wait">>,
             <<"waiting_for_ready", "evaluate">>, <<"starting_service", "stop">>,
             <<"waiting_for_ready", "stop">>, <<"evaluating", "stop">>}
  PROVE  Along(ITERATION_TRANSITIONS, from, <<Stage["candidate"][stage]>>) = Stage["candidate"][stage]
<1>1. Stage["candidate"][stage] \in ITERATION_TRANSITIONS[from]
  BY DEF ITERATION_TRANSITIONS, Recording, Serviced, Stage
<1> QED
  BY <1>1, OneMove

\* The move to the patch.
LEMMA PatchMove == Along(ITERATION_TRANSITIONS, "preparing_workspace", <<"applying_patch">>) = "applying_patch"
<1>1. "applying_patch" \in ITERATION_TRANSITIONS["preparing_workspace"]
  BY DEF ITERATION_TRANSITIONS
<1> QED
  BY <1>1, OneMove

-----------------------------------------------------------------------------
(* Types *)

RunStates == DOMAIN RUN_TRANSITIONS
IterationStates == DOMAIN ITERATION_TRANSITIONS

\* No move leaves its table.
LEMMA Closed ==
    /\ {"planned", "illegal"} \subseteq RunStates
    /\ \A s \in RunStates : RUN_TRANSITIONS[s] \subseteq RunStates
    /\ {"none", "created", "illegal"} \subseteq IterationStates
    /\ \A s \in IterationStates : ITERATION_TRANSITIONS[s] \subseteq IterationStates
BY DEF RunStates, RUN_TRANSITIONS, IterationStates, ITERATION_TRANSITIONS, Recording, Serviced, Ended

\* Nor does a path of moves through it.
LEMMA Stays ==
  ASSUME NEW table, "illegal" \in DOMAIN table,
         \A s \in DOMAIN table : table[s] \subseteq DOMAIN table,
         NEW from \in DOMAIN table, NEW to, NEW over
  PROVE  /\ Along(table, from, <<to>>) \in DOMAIN table
         /\ Along(table, from, <<over, to>>) \in DOMAIN table
<1>1. Along(table, from, <<to>>) \in DOMAIN table
  BY DEF Along
<1>2. Along(table, from, <<over, to>>) \in DOMAIN table
  <2>1. Along(table, from, <<over, to>>) =
          IF over \in table[from] /\ to \in table[over] THEN to ELSE "illegal"
    BY DEF Along
  <2> QED
    BY <2>1
<1> QED
  BY <1>1, <1>2

\* The run keeps to its states.
LEMMA RunStays ==
  ASSUME rs \in RunStates, NEW to, NEW over, MoveRun(<<to>>) \/ MoveRun(<<over, to>>)
  PROVE  rs' \in RunStates
BY Closed, Stays DEF MoveRun, RunStates

\* So does the iteration.
LEMMA IterationStays ==
  ASSUME lc \in IterationStates, NEW to, NEW over, Move(<<to>>) \/ Move(<<over, to>>)
  PROVE  lc' \in IterationStates
BY Closed, Stays DEF Move, IterationStates

\* And the move of a managed trial.
LEMMA MoveToStays ==
  ASSUME lc \in IterationStates, NEW stage, MoveTo(stage)
  PROVE  lc' \in IterationStates
BY IterationStays DEF MoveTo

\* The counts of the budget.
LEMMA Counted ==
  ASSUME budget \in Budgets
  PROVE  /\ [budget EXCEPT !.late = TRUE] \in Budgets
         /\ budget.iterations < MaxIterations => [budget EXCEPT !.iterations = @ + 1] \in Budgets
         /\ budget.failures < MaxFailures => [budget EXCEPT !.failures = @ + 1] \in Budgets
<1> USE BudgetAssumption DEF Budgets
<1>1. [budget EXCEPT !.late = TRUE] \in Budgets
  OBVIOUS
<1>2. ASSUME budget.iterations < MaxIterations
      PROVE  [budget EXCEPT !.iterations = @ + 1] \in Budgets
  <2>1. budget.iterations + 1 \in 0..MaxIterations
    BY <1>2
  <2> QED
    BY <2>1
<1>3. ASSUME budget.failures < MaxFailures
      PROVE  [budget EXCEPT !.failures = @ + 1] \in Budgets
  <2>1. budget.failures + 1 \in 0..MaxFailures
    BY <1>3
  <2> QED
    BY <2>1
<1> QED
  BY <1>1, <1>2, <1>3

\* The counts of an outcome without improvement.
LEMMA CountedWorse ==
  ASSUME budget \in Budgets, budget.worse < Patience, budget.failures < MaxFailures,
         NEW n \in {0, 1}
  PROVE  [budget EXCEPT !.worse = @ + 1, !.failures = @ + n] \in Budgets
<1>1. budget.worse + 1 \in 0..Patience /\ budget.failures + n \in 0..MaxFailures
  BY BudgetAssumption DEF Budgets
<1> QED
  BY <1>1 DEF Budgets

\* The proposal.
LEMMA TheChange ==
  ASSUME change # {}
  PROVE  The \in change
BY DEF The

\* An outcome more.
LEMMA OneMore ==
  ASSUME memory \in Seq(Outcomes), NEW m \in Outcomes
  PROVE  /\ Append(memory, m) \in Seq(Outcomes)
         /\ Len(Append(memory, m)) = Len(memory) + 1
         /\ Append(memory, m)[Len(memory) + 1] = m
         /\ \A i \in 1..Len(memory) : Append(memory, m)[i] = memory[i]
OBVIOUS

\* What was recorded remains, where nothing is recorded.
LEMMA BackedStays ==
  ASSUME Backed, UNCHANGED disk,
         pc' \in {"log", "conclude", "champion", "log_invalid"} =>
           pc' = pc /\ UNCHANGED <<run, change, seen>>
  PROVE  Backed'
<1>1. UNCHANGED LedgerIsBacked
  BY DEF LedgerIsBacked, disk
<1>2. CASE UNCHANGED <<run, change, seen>>
  <2>1. UNCHANGED <<The, Status>>
    BY <1>2 DEF The, Status
  <2>2. UNCHANGED Event("verdict")
    BY <1>2, <2>1 DEF Event
  <2>3. UNCHANGED <<Owed(Status), Owed("invalid")>>
    BY <1>2, <2>1 DEF Owed, disk
  <2> QED
    BY <1>1, <2>1, <2>2, <2>3 DEF Backed, disk
<1>3. CASE ~UNCHANGED <<run, change, seen>>
  BY <1>1, <1>3 DEF Backed
<1> QED
  BY <1>2, <1>3

\* An outcome more in the memory leaves the ledger backed.
LEMMA OwedMore ==
  ASSUME TypeOK, LedgerIsBacked, NEW status \in Statuses, run \in 1..MaxRuns, change # {},
         memory' = Append(memory, [run |-> run, change |-> The, status |-> status]),
         UNCHANGED <<ledger, run, change>>
  PROVE  LedgerIsBacked' /\ Owed(status)' /\ memory' \in Seq(Outcomes)
<1> DEFINE m == [run |-> run, change |-> The, status |-> status]
<1>1. m \in Outcomes
  BY TheChange DEF Outcomes, TypeOK
<1>2. /\ memory' \in Seq(Outcomes) /\ Len(memory') = Len(memory) + 1
      /\ memory'[Len(memory) + 1] = m
      /\ \A i \in 1..Len(memory) : memory'[i] = memory[i]
  BY <1>1, OneMore DEF TypeOK
<1>3. Len(memory) \in Nat
  BY DEF TypeOK
<1>4. 1..Len(memory) \subseteq 1..Len(memory') /\ Len(memory) + 1 \in 1..Len(memory')
  BY <1>2, <1>3
<1>5. The' = The
  BY DEF The
<1>6. Owed(status)'
  BY <1>2, <1>4, <1>5 DEF Owed
<1>7. LedgerIsBacked'
  <2>1. SUFFICES ASSUME NEW e \in ledger
        PROVE  /\ \E j \in 1..Len(memory') :
                    /\ memory'[j].run = e[2] /\ memory'[j].change = e[3]
                    /\ e[1] = "champion" => memory'[j].status = "accepted"
               /\ e[1] = "champion" => <<"verdict", e[2], e[3]>> \in ledger
    BY DEF LedgerIsBacked
  <2>2. PICK i \in 1..Len(memory) :
          /\ memory[i].run = e[2] /\ memory[i].change = e[3]
          /\ e[1] = "champion" => memory[i].status = "accepted"
    BY DEF LedgerIsBacked
  <2>3. i \in 1..Len(memory') /\ memory'[i] = memory[i]
    BY <1>2, <1>4
  <2>4. e[1] = "champion" => <<"verdict", e[2], e[3]>> \in ledger
    BY DEF LedgerIsBacked
  <2> QED
    BY <2>2, <2>3, <2>4
<1> QED
  BY <1>2, <1>6, <1>7

\* So does an event on an outcome that is in the memory.
LEMMA LoggedMore ==
  ASSUME LedgerIsBacked, NEW kind, NEW status, Owed(status),
         kind = "champion" => status = "accepted" /\ Event("verdict") \in ledger,
         ledger' \in {ledger, ledger \cup {Event(kind)}}, UNCHANGED <<memory, run, change>>
  PROVE  LedgerIsBacked'
<1>1. PICK i \in 1..Len(memory) : memory[i] = [run |-> run, change |-> The, status |-> status]
  BY DEF Owed
<1>2. Event(kind)[1] = kind /\ Event(kind)[2] = run /\ Event(kind)[3] = The
  BY DEF Event
<1>3. Event("verdict") = <<"verdict", Event(kind)[2], Event(kind)[3]>>
  BY <1>2 DEF Event
<1>4. memory[i].run = Event(kind)[2] /\ memory[i].change = Event(kind)[3]
        /\ (Event(kind)[1] = "champion" => memory[i].status = "accepted")
  BY <1>1, <1>2
<1>5. SUFFICES ASSUME NEW e \in ledger'
      PROVE  /\ \E j \in 1..Len(memory) :
                  /\ memory[j].run = e[2] /\ memory[j].change = e[3]
                  /\ e[1] = "champion" => memory[j].status = "accepted"
             /\ e[1] = "champion" => <<"verdict", e[2], e[3]>> \in ledger'
  BY DEF LedgerIsBacked
<1>6. CASE e \in ledger
  BY <1>6 DEF LedgerIsBacked
<1>7. CASE e = Event(kind)
  BY <1>2, <1>3, <1>4, <1>7
<1> QED
  BY <1>6, <1>7

\* The outcome on record stays so while it is logged.
LEMMA OwedStays ==
  ASSUME UNCHANGED <<memory, run, change, seen>>
  PROVE  UNCHANGED <<Status, Event("verdict")>> /\ (Owed(Status) => Owed(Status)')
<1>1. UNCHANGED <<The, Status>>
  BY DEF The, Status
<1> QED
  BY <1>1 DEF Event, Owed

\* What a verdict can be.
LEMMA StatusIs ==
  ASSUME TypeOK
  PROVE  Status \in Statuses /\ Status \in {"accepted", "rejected", "failed"}
BY DEF Status, Statuses, TypeOK, Managed, Results

\* It is made of what was seen.
LEMMA OwedStatus ==
  ASSUME UNCHANGED seen
  PROVE  UNCHANGED Status
BY DEF Status

\* A state of the table.
LEMMA RecordingState == "recording_memory" \in IterationStates
BY DEF IterationStates, ITERATION_TRANSITIONS

-----------------------------------------------------------------------------
(* The steps *)

\* A run and its iterations.
LEMMA RunSteps ==
  ASSUME IInv, Begin \/ Approve \/ Loop \/ WallTimePasses \/ Reserve \/ Recall \/ Analyze \/ Plan
         \/ Nothing
  PROVE  IInv'
<1> USE BudgetAssumption, FaultAssumption DEF
        IInv, TypeOK, Placed, Served, Holding, Unwinding, Settling, Roles, Managed,
        RunStates, IterationStates
<1>1. CASE Begin
  <2>1. TypeOK'
    BY <1>1, Closed DEF Begin, host, disk, Budgets, Unseen, Results
  <2>2. (Placed /\ Proposed /\ RunState /\ IterationState /\ Budgeted /\ Served /\
        Measured)'
    BY <1>1 DEF Begin, host, disk, Unseen, Services, Budgets, Proposed, Trying, RunState,
      IterationState, Budgeted, Measured, OnService, Ended
  <2>3. Backed'
    BY <1>1, BackedStays DEF Begin, host, disk
  <2> QED
    BY <2>1, <2>2, <2>3
<1>2. CASE Approve
  <2>1. TypeOK'
    <3>1. rs' \in RunStates
      BY <1>2, RunStays DEF Approve
    <3> QED
      BY <1>2, <3>1 DEF Approve, Throw, Guarded, Strike, GoTo, disk
  <2>2. (Placed /\ Proposed /\ RunState /\ IterationState /\ Budgeted /\ Served /\
        Measured)'
    BY <1>2, RunMoves DEF Approve, MoveRun, Throw, Guarded, Strike, GoTo, disk, Proposed,
      Trying, RunState, IterationState, Budgeted, Measured, OnService, Ended
  <2>3. Backed'
    BY <1>2, BackedStays DEF Approve, Throw, Guarded, Strike, GoTo, disk
  <2> QED
    BY <2>1, <2>2, <2>3
<1>3. CASE Loop
  <2>1. TypeOK'
    BY <1>3 DEF Loop, GoTo, Exhausted, plan, disk
  <2>2. (Placed /\ Proposed /\ RunState /\ IterationState /\ Budgeted /\ Served /\
        Measured)'
    BY <1>3 DEF Loop, GoTo, Exhausted, plan, disk, Budgets, Proposed, Trying, RunState,
      IterationState, Budgeted, Measured, OnService, Ended
  <2>3. Backed'
    BY <1>3, BackedStays DEF Loop, GoTo, plan, disk
  <2> QED
    BY <2>1, <2>2, <2>3
<1>4. CASE WallTimePasses
  <2>1. TypeOK'
    BY <1>4, Counted DEF WallTimePasses, walk, host, disk
  <2>2. (Placed /\ Proposed /\ RunState /\ IterationState /\ Budgeted /\ Served /\
        Measured)'
    BY <1>4 DEF WallTimePasses, walk, host, disk, Proposed, Trying, RunState,
      IterationState, Budgeted, Measured, OnService, Ended
  <2>3. Backed'
    BY <1>4, BackedStays DEF WallTimePasses, walk, host, disk
  <2> QED
    BY <2>1, <2>2, <2>3
<1>5. CASE Reserve
  <2>1. TypeOK'
    <3>1. lc' \in IterationStates
      BY <1>5, Closed DEF Reserve
    <3>2. budget' \in Budgets
      <4>1. ~Exhausted => budget.iterations < MaxIterations
        BY DEF Exhausted, Budgets
      <4> QED
        BY <1>5, <4>1, Counted DEF Reserve
    <3>3. fresh' \in BOOLEAN /\ pc' \in {"recall", "caught"} /\ raised' \in {raised, "error"}
      BY <1>5 DEF Reserve, GoTo, WriteFails, Throw, Guarded, Exhausted
    <3>4. seen' \in [Managed -> [by : SUBSET Services, result : Results]]
      BY <1>5 DEF Reserve, Unseen, Results
    <3>5. own' = {} /\ change' = {} /\ faults' \in 0..MaxFaults
      BY <1>5 DEF Reserve, GoTo, WriteFails, Throw, Strike, Guarded
    <3> QED
      BY <1>5, <3>1, <3>2, <3>3, <3>4, <3>5 DEF Reserve, disk
  <2>2. Placed'
    BY <1>5 DEF Reserve, GoTo, WriteFails, Throw, Guarded, Strike, Exhausted, disk,
      Unseen, Proposed, Trying, RunState, IterationState, Budgeted, Measured, OnService,
      Ended
  <2>3. Proposed'
    BY <1>5 DEF Reserve, GoTo, WriteFails, Throw, Guarded, Strike, Exhausted, disk,
      Unseen, Proposed, Trying, RunState, IterationState, Budgeted, Measured, OnService,
      Ended
  <2>4. RunState'
    BY <1>5 DEF Reserve, GoTo, WriteFails, Throw, Guarded, Strike, Exhausted, disk,
      Unseen, Proposed, Trying, RunState, IterationState, Budgeted, Measured, OnService,
      Ended
  <2>5. IterationState'
    BY <1>5 DEF Reserve, GoTo, WriteFails, Throw, Guarded, Strike, Exhausted, disk,
      Unseen, Proposed, Trying, RunState, IterationState, Budgeted, Measured, OnService,
      Ended
  <2>6. Budgeted'
    <3>1. budget.worse < Patience /\ budget.failures < MaxFailures
      BY <1>5 DEF Reserve, Budgeted
    <3>2. budget'.worse = budget.worse /\ budget'.failures = budget.failures
      BY <1>5 DEF Reserve, Budgets
    <3>3. raised' # "rejected"
      BY <1>5 DEF Reserve, GoTo, WriteFails, Throw
    <3> QED
      BY <3>1, <3>2, <3>3 DEF Budgeted
  <2>7. Served'
    BY <1>5 DEF Reserve, GoTo, WriteFails, Throw, Guarded, Strike, Exhausted, disk,
      Unseen, Proposed, Trying, RunState, IterationState, Budgeted, Measured, OnService,
      Ended
  <2>8. Measured'
    BY <1>5 DEF Reserve, GoTo, WriteFails, Throw, Guarded, Strike, Exhausted, disk,
      Unseen, Proposed, Trying, RunState, IterationState, Budgeted, Measured, OnService,
      Ended
  <2>9. Backed'
    BY <1>5, BackedStays DEF Reserve, GoTo, WriteFails, Throw, Guarded, Strike, disk
  <2> QED
    BY <2>1, <2>2, <2>3, <2>4, <2>5, <2>6, <2>7, <2>8, <2>9
<1>6. CASE Recall
  <2>1. TypeOK'
    <3>1. lc' \in IterationStates
      BY <1>6, IterationStays DEF Recall
    <3> QED
      BY <1>6, <3>1 DEF Recall, GoTo, WriteFails, Throw, Guarded, Strike, disk
  <2>2. (Placed /\ Proposed /\ RunState /\ IterationState /\ Budgeted /\ Served /\
        Measured)'
    BY <1>6, OwnMoves DEF Recall, Move, GoTo, WriteFails, Throw, Guarded, Strike, disk,
      Proposed, Trying, RunState, IterationState, Budgeted, Measured, OnService, Ended
  <2>3. Backed'
    BY <1>6, BackedStays DEF Recall, GoTo, WriteFails, Throw, Guarded, Strike, disk
  <2> QED
    BY <2>1, <2>2, <2>3
<1>7. CASE Analyze
  <2>1. TypeOK'
    <3>1. lc' \in IterationStates
      BY <1>7, IterationStays DEF Analyze
    <3> QED
      BY <1>7, <3>1 DEF Analyze, GoTo, WriteFails, Throw, Guarded, Strike, plan, disk
  <2>2. (Placed /\ Proposed /\ RunState /\ IterationState /\ Budgeted /\ Served /\
        Measured)'
    BY <1>7, OwnMoves DEF Analyze, Move, GoTo, WriteFails, Throw, Guarded, Strike, plan,
      disk, Proposed, Trying, RunState, IterationState, Budgeted, Measured, OnService, Ended
  <2>3. Backed'
    BY <1>7, BackedStays DEF Analyze, GoTo, WriteFails, Throw, Guarded, Strike, plan, disk
  <2> QED
    BY <2>1, <2>2, <2>3
<1>8. CASE Plan
  <2>1. TypeOK'
    BY <1>8 DEF Plan, Throw, Guarded, GoTo, plan, disk
  <2>2. Placed'
    BY <1>8 DEF Plan, Throw, Guarded, GoTo, plan, disk, Proposed, Trying, RunState,
      IterationState, Budgeted, Measured, OnService, Ended
  <2>3. Proposed'
    BY <1>8 DEF Plan, Throw, Guarded, GoTo, plan, disk, Proposed, Trying, RunState,
      IterationState, Budgeted, Measured, OnService, Ended
  <2>4. RunState'
    BY <1>8 DEF Plan, Throw, Guarded, GoTo, plan, disk, Proposed, Trying, RunState,
      IterationState, Budgeted, Measured, OnService, Ended
  <2>5. IterationState'
    BY <1>8 DEF Plan, Throw, Guarded, GoTo, plan, disk, Proposed, Trying, RunState,
      IterationState, Budgeted, Measured, OnService, Ended
  <2>6. Budgeted'
    BY <1>8 DEF Plan, Throw, Guarded, GoTo, plan, disk, Proposed, Trying, RunState,
      IterationState, Budgeted, Measured, OnService, Ended
  <2>7. Served'
    BY <1>8 DEF Plan, Throw, Guarded, GoTo, plan, disk, Proposed, Trying, RunState,
      IterationState, Budgeted, Measured, OnService, Ended
  <2>8. Measured'
    BY <1>8 DEF Plan, Throw, Guarded, GoTo, plan, disk, Proposed, Trying, RunState,
      IterationState, Budgeted, Measured, OnService, Ended
  <2>9. Backed'
    BY <1>8, BackedStays DEF Plan, Throw, Guarded, GoTo, plan, disk
  <2> QED
    BY <2>1, <2>2, <2>3, <2>4, <2>5, <2>6, <2>7, <2>8, <2>9
<1>9. CASE Nothing
  <2>1. TypeOK'
    <3>1. lc' \in IterationStates
      BY <1>9, IterationStays DEF Nothing
    <3>2. rs' \in RunStates
      BY <1>9, RunStays DEF Nothing
    <3> QED
      BY <1>9, <3>1, <3>2 DEF Nothing, GoTo, WriteFails, Throw, Guarded, Strike, disk
  <2>2. (Placed /\ Proposed /\ RunState /\ IterationState /\ Budgeted /\ Served /\
        Measured)'
    BY <1>9, RunMoves, OwnMoves DEF Nothing, MoveRun, Move, GoTo, WriteFails, Throw,
      Guarded, Strike, disk, Proposed, Trying, RunState, IterationState, Budgeted, Measured,
      OnService, Ended
  <2>3. Backed'
    BY <1>9, BackedStays DEF Nothing, GoTo, WriteFails, Throw, Guarded, Strike, disk
  <2> QED
    BY <2>1, <2>2, <2>3
<1> QED
  BY <1>1, <1>2, <1>3, <1>4, <1>5, <1>6, <1>7, <1>8, <1>9

\* The life of a service.
LEMMA TrialSteps ==
  ASSUME IInv, Prepare \/ Patch \/ Build \/ Start \/ Started \/ Ready \/ Evaluate \/ Stopping \/
         Stop \/ Stopped \/ Compare
  PROVE  IInv'
<1> USE BudgetAssumption, FaultAssumption DEF
        IInv, TypeOK, Placed, Served, Holding, Unwinding, Settling, Roles, Managed,
        RunStates, IterationStates
<1>1. CASE Prepare
  <2>1. TypeOK'
    BY <1>1, MoveToStays DEF Prepare, Throw, Guarded, GoTo, ServiceKeeps, disk
  <2>2. (Placed /\ Proposed /\ RunState /\ IterationState /\ Budgeted /\ Served /\
        Measured)'
    BY <1>1, BaselineMoves, CandidateMoves DEF Prepare, MoveTo, Move, Throw, Guarded,
      GoTo, ServiceKeeps, disk, Stage, Proposed, Trying, RunState, IterationState, Budgeted,
      Measured, OnService, Ended
  <2>3. Backed'
    BY <1>1, BackedStays DEF Prepare, Throw, Guarded, GoTo, ServiceKeeps, disk
  <2> QED
    BY <2>1, <2>2, <2>3
<1>2. CASE Patch
  <2>1. TypeOK'
    <3>1. lc' \in IterationStates
      BY <1>2, IterationStays DEF Patch
    <3> QED
      BY <1>2, <3>1 DEF Patch, Throw, Guarded, GoTo, ServiceKeeps, disk
  <2>2. (Placed /\ Proposed /\ RunState /\ IterationState /\ Budgeted /\ Served /\
        Measured)'
    BY <1>2, PatchMove DEF Patch, Move, Throw, Guarded, GoTo, ServiceKeeps, disk,
      Proposed, Trying, RunState, IterationState, Budgeted, Measured, OnService, Ended
  <2>3. Backed'
    BY <1>2, BackedStays DEF Patch, Throw, Guarded, GoTo, ServiceKeeps, disk
  <2> QED
    BY <2>1, <2>2, <2>3
<1>3. CASE Build
  <2>1. TypeOK'
    BY <1>3, MoveToStays DEF Build, Throw, Guarded, GoTo, ServiceKeeps, disk
  <2>2. (Placed /\ Proposed /\ RunState /\ IterationState /\ Budgeted /\ Served /\
        Measured)'
    BY <1>3, BaselineMoves, CandidateMoves DEF Build, MoveTo, Move, Throw, Guarded, GoTo,
      ServiceKeeps, disk, Stage, Proposed, Trying, RunState, IterationState, Budgeted,
      Measured, OnService, Ended
  <2>3. Backed'
    BY <1>3, BackedStays DEF Build, Throw, Guarded, GoTo, ServiceKeeps, disk
  <2> QED
    BY <2>1, <2>2, <2>3
<1>4. CASE Start
  <2>1. TypeOK'
    <3>1. lc' \in IterationStates
      BY <1>4, MoveToStays DEF Start
    <3>2. Service \in Services
      BY <1>4 DEF Start, Service, Services, Budgets
    <3>3. procs' \in SUBSET Services /\ own' \in SUBSET Services /\ procs \subseteq procs'
      BY <1>4, <3>2 DEF Start, Throw
    <3>4. \A x, y \in own' : x = y
      BY <1>4 DEF Start, Throw
    <3>5. pc' \in {"started", "caught"} /\ raised' \in {raised, "error"} /\ UNCHANGED faults
      BY <1>4 DEF Start, Throw, Guarded
    <3> QED
      BY <1>4, <3>1, <3>3, <3>4, <3>5 DEF Start, disk
  <2>2. (Placed /\ Proposed /\ RunState /\ IterationState /\ Budgeted /\ Served /\
        Measured)'
    BY <1>4, BaselineMoves, CandidateMoves DEF Start, MoveTo, Move, Throw, Guarded,
      Service, disk, Stage, Proposed, Trying, RunState, IterationState, Budgeted, Measured,
      OnService, Ended
  <2>3. Backed'
    BY <1>4, BackedStays DEF Start, Throw, Guarded, Service, disk
  <2> QED
    BY <2>1, <2>2, <2>3
<1>5. CASE Started
  <2>1. TypeOK'
    BY <1>5, MoveToStays DEF Started, GoTo, WriteFails, Throw, Guarded, Strike,
      ServiceKeeps, disk
  <2>2. (Placed /\ Proposed /\ RunState /\ IterationState /\ Budgeted /\ Served /\
        Measured)'
    BY <1>5, BaselineMoves, CandidateMoves DEF Started, MoveTo, Move, GoTo, WriteFails,
      Throw, Guarded, Strike, ServiceKeeps, disk, Stage, Proposed, Trying, RunState,
      IterationState, Budgeted, Measured, OnService, Ended
  <2>3. Backed'
    BY <1>5, BackedStays DEF Started, GoTo, WriteFails, Throw, Guarded, Strike,
      ServiceKeeps, disk
  <2> QED
    BY <2>1, <2>2, <2>3
<1>6. CASE Ready
  <2>1. TypeOK'
    BY <1>6, MoveToStays DEF Ready, Throw, Guarded, GoTo, ServiceKeeps, disk
  <2>2. (Placed /\ Proposed /\ RunState /\ IterationState /\ Budgeted /\ Served /\
        Measured)'
    BY <1>6, BaselineMoves, CandidateMoves DEF Ready, MoveTo, Move, Throw, Guarded, GoTo,
      ServiceKeeps, disk, Stage, Proposed, Trying, RunState, IterationState, Budgeted,
      Measured, OnService, Ended
  <2>3. Backed'
    BY <1>6, BackedStays DEF Ready, Throw, Guarded, GoTo, ServiceKeeps, disk
  <2> QED
    BY <2>1, <2>2, <2>3
<1>7. CASE Evaluate
  <2>1. TypeOK'
    BY <1>7 DEF Evaluate, Throw, Guarded, GoTo, ServiceKeeps, disk, Results
  <2>2. Placed'
    BY <1>7 DEF Evaluate, Throw, Guarded, GoTo, ServiceKeeps, disk, Results, Proposed,
      Trying, RunState, IterationState, Budgeted, Measured, OnService, Ended
  <2>3. Proposed'
    BY <1>7 DEF Evaluate, Throw, Guarded, GoTo, ServiceKeeps, disk, Results, Proposed,
      Trying, RunState, IterationState, Budgeted, Measured, OnService, Ended
  <2>4. RunState'
    BY <1>7 DEF Evaluate, Throw, Guarded, GoTo, ServiceKeeps, disk, Results, Proposed,
      Trying, RunState, IterationState, Budgeted, Measured, OnService, Ended
  <2>5. IterationState'
    BY <1>7 DEF Evaluate, Throw, Guarded, GoTo, ServiceKeeps, disk, Results, Proposed,
      Trying, RunState, IterationState, Budgeted, Measured, OnService, Ended
  <2>6. Budgeted'
    BY <1>7 DEF Evaluate, Throw, Guarded, GoTo, ServiceKeeps, disk, Results, Proposed,
      Trying, RunState, IterationState, Budgeted, Measured, OnService, Ended
  <2>7. Served'
    BY <1>7 DEF Evaluate, Throw, Guarded, GoTo, ServiceKeeps, disk, Results, Proposed,
      Trying, RunState, IterationState, Budgeted, Measured, OnService, Ended
  <2>8. Measured'
    BY <1>7 DEF Evaluate, Throw, Guarded, GoTo, ServiceKeeps, disk, Results, Proposed,
      Trying, RunState, IterationState, Budgeted, Measured, OnService, Ended
  <2>9. Backed'
    BY <1>7, BackedStays DEF Evaluate, Throw, Guarded, GoTo, ServiceKeeps, disk
  <2> QED
    BY <2>1, <2>2, <2>3, <2>4, <2>5, <2>6, <2>7, <2>8, <2>9
<1>8. CASE Stopping
  <2>1. TypeOK'
    BY <1>8, MoveToStays DEF Stopping, Strike, GoTo, WriteFails, Throw, Guarded,
      ServiceKeeps, disk
  <2>2. (Placed /\ Proposed /\ RunState /\ IterationState /\ Budgeted /\ Served /\
        Measured)'
    BY <1>8, BaselineMoves, CandidateMoves DEF Stopping, MoveTo, Move, Strike, GoTo,
      WriteFails, Throw, Guarded, ServiceKeeps, disk, Stage, Proposed, Trying, RunState,
      IterationState, Budgeted, Measured, OnService, Ended
  <2>3. Backed'
    BY <1>8, BackedStays DEF Stopping, Strike, GoTo, WriteFails, Throw, Guarded,
      ServiceKeeps, disk
  <2> QED
    BY <2>1, <2>2, <2>3
<1>9. CASE Stop
  <2>1. TypeOK'
    BY <1>9 DEF Stop, WriteFails, Throw, Guarded, Strike, plan, disk
  <2>2. (Placed /\ Proposed /\ RunState /\ IterationState /\ Budgeted /\ Served /\
        Measured)'
    BY <1>9 DEF Stop, WriteFails, Throw, Guarded, Strike, plan, disk, Proposed, Trying,
      RunState, IterationState, Budgeted, Measured, OnService, Ended
  <2>3. Backed'
    BY <1>9, BackedStays DEF Stop, WriteFails, Throw, Guarded, Strike, plan, disk
  <2> QED
    BY <2>1, <2>2, <2>3
<1>10. CASE Stopped
  <2>1. TypeOK'
    BY <1>10 DEF Stopped, GoTo, WriteFails, Throw, Guarded, Strike, ServiceKeeps, disk,
      After
  <2>2. (Placed /\ Proposed /\ RunState /\ IterationState /\ Budgeted /\ Served /\
        Measured)'
    BY <1>10 DEF Stopped, GoTo, WriteFails, Throw, Guarded, Strike, ServiceKeeps, disk,
      After, Proposed, Trying, RunState, IterationState, Budgeted, Measured, OnService,
      Ended
  <2>3. Backed'
    BY <1>10, BackedStays DEF Stopped, GoTo, WriteFails, Throw, Guarded, Strike,
      ServiceKeeps, disk, After
  <2> QED
    BY <2>1, <2>2, <2>3
<1>11. CASE Compare
  <2>1. TypeOK'
    BY <1>11 DEF Compare, Throw, Guarded, GoTo, WriteFails, Strike, ServiceKeeps, disk
  <2>2. (Placed /\ Proposed /\ RunState /\ IterationState /\ Budgeted /\ Served /\
        Measured)'
    BY <1>11 DEF Compare, Throw, Guarded, GoTo, WriteFails, Strike, ServiceKeeps, disk,
      Proposed, Trying, RunState, IterationState, Budgeted, Measured, OnService, Ended
  <2>3. Backed'
    BY <1>11, BackedStays DEF Compare, Throw, Guarded, GoTo, WriteFails, Strike,
      ServiceKeeps, disk
  <2> QED
    BY <2>1, <2>2, <2>3
<1> QED
  BY <1>1, <1>2, <1>3, <1>4, <1>5, <1>6, <1>7, <1>8, <1>9, <1>10, <1>11

\* The outcomes.
LEMMA OutcomeSteps ==
  ASSUME IInv, Remember \/ LogMemory \/ Conclude \/ Champion \/ Complete \/ Halt \/ Caught \/
         LogInvalid \/ Fail
  PROVE  IInv'
<1> USE BudgetAssumption, FaultAssumption DEF
        IInv, TypeOK, Placed, Served, Holding, Unwinding, Settling, Roles, Managed,
        RunStates, IterationStates
<1>1. CASE Remember
  <2>1. TypeOK'
    <3>1. lc' \in IterationStates
      BY <1>1, IterationStays DEF Remember
    <3>2. memory' \in Seq(Outcomes)
      BY <1>1, StatusIs, OwedMore DEF Remember, Record, OutcomeKeeps, Proposed, Trying, Backed
    <3>3. pc' \in {"log", "caught"} /\ raised' \in {raised, "error"} /\ faults' \in 0..MaxFaults
      BY <1>1 DEF Remember, Record, GoTo, WriteFails, Throw, Strike, Guarded
    <3>4. own' \in {own, {}}
      BY <1>1 DEF Remember, Record, GoTo, WriteFails, Throw, Strike
    <3> QED
      BY <1>1, <3>1, <3>2, <3>3, <3>4 DEF Remember, OutcomeKeeps
  <2>2. Placed'
    BY <1>1 DEF Remember, OutcomeKeeps, Record, GoTo, WriteFails, Throw, Guarded, Strike,
      Proposed, Trying, RunState, IterationState, Budgeted, Measured, OnService, Ended
  <2>3. Proposed'
    BY <1>1 DEF Remember, OutcomeKeeps, Record, GoTo, WriteFails, Throw, Guarded, Strike,
      Proposed, Trying, RunState, IterationState, Budgeted, Measured, OnService, Ended
  <2>4. RunState'
    BY <1>1 DEF Remember, OutcomeKeeps, Record, GoTo, WriteFails, Throw, Guarded, Strike,
      Proposed, Trying, RunState, IterationState, Budgeted, Measured, OnService, Ended
  <2>5. IterationState'
    BY <1>1, OwnMoves DEF Remember, Move, OutcomeKeeps, Record, GoTo, WriteFails, Throw,
      Guarded, Strike, Proposed, Trying, RunState, IterationState, Budgeted, Measured,
      OnService, Ended
  <2>6. Budgeted'
    BY <1>1 DEF Remember, OutcomeKeeps, Record, GoTo, WriteFails, Throw, Guarded, Strike,
      Proposed, Trying, RunState, IterationState, Budgeted, Measured, OnService, Ended
  <2>7. Served'
    BY <1>1 DEF Remember, OutcomeKeeps, Record, GoTo, WriteFails, Throw, Guarded, Strike,
      Proposed, Trying, RunState, IterationState, Budgeted, Measured, OnService, Ended
  <2>8. Measured'
    BY <1>1 DEF Remember, OutcomeKeeps, Record, GoTo, WriteFails, Throw, Guarded, Strike,
      Proposed, Trying, RunState, IterationState, Budgeted, Measured, OnService, Ended
  <2>9. Backed'
    <3>1. CASE memory' = Append(memory, [run |-> run, change |-> The, status |-> Status])
      <4>1. UNCHANGED Status
        BY <1>1, OwedStatus DEF Remember, OutcomeKeeps
      <4>2. LedgerIsBacked' /\ Owed(Status)'
        BY <1>1, <3>1, <4>1, StatusIs, OwedMore DEF Remember, OutcomeKeeps, Proposed, Trying, Backed, Owed
      <4>3. pc' \in {"log", "caught"}
        BY <1>1 DEF Remember, Record, GoTo, WriteFails, Throw, Guarded
      <4> QED
        BY <4>2, <4>3 DEF Backed
    <3>2. CASE UNCHANGED memory /\ pc' = "caught"
      BY <1>1, <3>2, BackedStays DEF Remember, disk
    <3> QED
      BY <1>1, <3>1, <3>2 DEF Remember, Record, WriteFails, Throw, Guarded
  <2> QED
    BY <2>1, <2>2, <2>3, <2>4, <2>5, <2>6, <2>7, <2>8, <2>9
<1>2. CASE LogMemory
  <2>1. TypeOK'
    BY <1>2 DEF LogMemory, Log, GoTo, WriteFails, Throw, Guarded, Strike, OutcomeKeeps
  <2>2. (Placed /\ Proposed /\ RunState /\ IterationState /\ Budgeted /\ Served /\
        Measured)'
    BY <1>2 DEF LogMemory, Log, GoTo, WriteFails, Throw, Guarded, Strike, OutcomeKeeps,
      Proposed, Trying, RunState, IterationState, Budgeted, Measured, OnService, Ended
  <2>3. Backed'
    <3>1. ledger' \in {ledger, ledger \cup {Event("memory")}} /\ pc' \in {"conclude", "caught"}
      BY <1>2 DEF LogMemory, Log, GoTo, WriteFails, Throw, Guarded
    <3>2. Owed(Status) /\ UNCHANGED <<memory, run, change, seen>>
      BY <1>2 DEF LogMemory, OutcomeKeeps, Backed
    <3>3. LedgerIsBacked'
      BY <3>1, <3>2, LoggedMore DEF Backed
    <3> QED
      BY <3>1, <3>2, <3>3, OwedStays DEF Backed
  <2> QED
    BY <2>1, <2>2, <2>3
<1>3. CASE Conclude
  <2> DEFINE failed == IF Status = "failed" THEN 1 ELSE 0
             count == [budget EXCEPT !.worse = @ + 1, !.failures = @ + failed]
  <2> HIDE DEF count
  <2>1. Status \in Ended /\ lc' = Status
    BY <1>3, StatusIs, OwnMoves DEF Conclude, Move, IterationState, Ended
  <2>2. /\ rs = "iterating" /\ role = "candidate" /\ change # {} /\ raised = "no" /\ own = {}
        /\ seen["baseline"].result = "passed" /\ budget.worse < Patience /\ budget.failures < MaxFailures
    BY <1>3 DEF Conclude, RunState, Proposed, Trying, Measured, Budgeted
  <2>3. /\ pc' \in {"champion", "halt", "loop", "caught"} /\ own' = {} /\ faults' \in 0..MaxFaults
        /\ raised' = IF pc' = "caught" THEN "error" ELSE "no"
        /\ ledger' \in {ledger, ledger \cup {Event("verdict")}}
    BY <1>3, <2>2 DEF Conclude, Log, GoTo, WriteFails, Strike, Throw, Guarded
  <2>4. UNCHANGED <<rs, memory, run, fresh, role, change, seen, procs, server>>
    BY <1>3 DEF Conclude, OutcomeKeeps
  <2>5. pc' = "champion" => Status = "accepted" /\ Event("verdict") \in ledger'
    BY <1>3 DEF Conclude, Log, GoTo, WriteFails, Throw, Guarded
  <2>6. /\ budget' \in {budget, count}
        /\ pc' = "champion" => budget' = budget
        /\ pc' = "loop" => budget' = count
                             /\ budget.worse + 1 < Patience
    <3>1. CASE Status = "accepted"
      BY <1>3, <3>1 DEF Conclude, Log, GoTo, WriteFails, Throw, Guarded
    <3>2. CASE Status # "accepted"
      <4>1. budget' = IF raised' # "no" THEN budget ELSE count
        BY <1>3, <3>2 DEF Conclude, count
      <4>2. pc' = "loop" => budget.worse + 1 < Patience
        BY <1>3, <3>2 DEF Conclude, Log, GoTo, WriteFails, Throw, Guarded, Budgets
      <4>3. pc' # "champion"
        BY <1>3, <3>2 DEF Conclude, Log, GoTo, WriteFails, Throw, Guarded
      <4>4. pc' = "loop" => ~(raised' # "no")
        BY <2>3
      <4> QED
        BY <4>1, <4>2, <4>3, <4>4
    <3> QED
      BY <3>1, <3>2
  <2>7. budget' \in Budgets /\ (pc' = "loop" => budget'.worse = budget.worse + 1)
    <3>1. count \in Budgets
      <4>1. failed \in {0, 1}
        OBVIOUS
      <4> QED
        BY <2>2, <4>1, CountedWorse DEF count
    <3>2. count.worse = budget.worse + 1
      BY DEF count, Budgets
    <3> QED
      BY <2>6, <3>1, <3>2
  <2>8. TypeOK'
    <3>1. lc' \in IterationStates
      BY <1>3, IterationStays DEF Conclude
    <3> QED
      BY <2>2, <2>3, <2>4, <2>7, <3>1
  <2>9. (Placed /\ Proposed /\ RunState /\ Budgeted /\ Served)'
    BY <1>3, <2>2, <2>3, <2>4, <2>6, <2>7 DEF Conclude, Proposed, Trying, RunState, Budgeted, OnService
  <2>10. IterationState'
    BY <2>1, <2>2, <2>3, <2>4 DEF IterationState, OnService, Ended
  <2>11. Measured'
    <3>1. pc' = "champion" => seen["candidate"].result = "passed"
      BY <2>5, StatusIs DEF Status, Results
    <3>2. \A r \in Managed : seen[r].result # "failed" => seen[r].by # {}
      BY DEF Measured
    <3> QED
      BY <2>2, <2>3, <2>4, <3>1, <3>2 DEF Measured, OnService
  <2>12. Backed'
    <3>1. Owed(Status)
      BY <1>3 DEF Conclude, Backed
    <3>2. LedgerIsBacked'
      BY <2>3, <2>4, <3>1, LoggedMore DEF Backed
    <3> QED
      BY <2>3, <2>4, <2>5, <3>1, <3>2, OwedStays DEF Backed
  <2> QED
    BY <2>8, <2>9, <2>10, <2>11, <2>12
<1>4. CASE Champion
  <2>1. TypeOK'
    BY <1>4 DEF Champion, Log, GoTo, WriteFails, Throw, Guarded, Strike, OutcomeKeeps
  <2>2. (Placed /\ Proposed /\ RunState /\ IterationState /\ Budgeted /\ Served /\
        Measured)'
    BY <1>4 DEF Champion, Log, GoTo, WriteFails, Throw, Guarded, Strike, OutcomeKeeps,
      Proposed, Trying, RunState, IterationState, Budgeted, Measured, OnService, Ended
  <2>3. Backed'
    <3>1. ledger' \in {ledger, ledger \cup {Event("champion")}} /\ pc' \in {"complete", "caught"}
      BY <1>4 DEF Champion, Log, GoTo, WriteFails, Throw, Guarded
    <3>2. Owed(Status) /\ Event("verdict") \in ledger /\ UNCHANGED <<memory, run, change, seen>>
      BY <1>4 DEF Champion, OutcomeKeeps, Backed
    <3>3. Status = "accepted"
      BY <1>4 DEF Champion, Measured, Status
    <3>4. LedgerIsBacked'
      BY <3>1, <3>2, <3>3, LoggedMore DEF Backed
    <3> QED
      BY <3>1, <3>4 DEF Backed
  <2> QED
    BY <2>1, <2>2, <2>3
<1>5. CASE Complete
  <2>1. TypeOK'
    <3>1. rs' \in RunStates
      BY <1>5, RunStays DEF Complete
    <3> QED
      BY <1>5, <3>1 DEF Complete, GoTo, WriteFails, Throw, Guarded, Strike, OutcomeKeeps,
        disk
  <2>2. (Placed /\ Proposed /\ RunState /\ IterationState /\ Budgeted /\ Served /\
        Measured)'
    BY <1>5, RunMoves DEF Complete, MoveRun, GoTo, WriteFails, Throw, Guarded, Strike,
      OutcomeKeeps, disk, Proposed, Trying, RunState, IterationState, Budgeted, Measured,
      OnService, Ended
  <2>3. Backed'
    BY <1>5, BackedStays DEF Complete, GoTo, WriteFails, Throw, Guarded, Strike,
      OutcomeKeeps, disk
  <2> QED
    BY <2>1, <2>2, <2>3
<1>6. CASE Halt
  <2>1. TypeOK'
    <3>1. rs' \in RunStates
      BY <1>6, RunStays DEF Halt
    <3> QED
      BY <1>6, <3>1 DEF Halt, GoTo, WriteFails, Throw, Guarded, Strike, OutcomeKeeps, disk
  <2>2. (Placed /\ Proposed /\ RunState /\ IterationState /\ Budgeted /\ Served /\
        Measured)'
    BY <1>6, RunMoves DEF Halt, MoveRun, GoTo, WriteFails, Throw, Guarded, Strike,
      OutcomeKeeps, disk, Proposed, Trying, RunState, IterationState, Budgeted, Measured,
      OnService, Ended
  <2>3. Backed'
    BY <1>6, BackedStays DEF Halt, GoTo, WriteFails, Throw, Guarded, Strike, OutcomeKeeps,
      disk
  <2> QED
    BY <2>1, <2>2, <2>3
<1>7. CASE Caught
  <2>1. CASE raised = "rejected" /\ role \in Managed
    <3>1. /\ change # {} /\ budget.failures < MaxFailures /\ budget.worse < Patience /\ rs = "iterating" /\ own = {}
          /\ run \in 1..MaxRuns /\ "invalid" \in Statuses
      BY <1>7, <2>1 DEF Caught, Proposed, Trying, Budgeted, RunState, Statuses
    <3>2. /\ raised' = "no" /\ lc' = "recording_memory"
          /\ UNCHANGED <<own, rs, ledger, run, fresh, role, change, seen, procs, server>>
      BY <1>7, <2>1, OwnMoves DEF Caught, CallersState, OutcomeKeeps
    <3>3. CASE /\ memory' = Append(memory, [run |-> run, change |-> The, status |-> "invalid"])
               /\ budget' = [budget EXCEPT !.failures = @ + 1]
               /\ pc' = "log_invalid" /\ UNCHANGED faults
      <4>1. budget' \in Budgets /\ budget'.worse = budget.worse
        BY <3>1, <3>3, Counted DEF Budgets
      <4>2. LedgerIsBacked' /\ Owed("invalid")' /\ memory' \in Seq(Outcomes)
        BY <3>1, <3>2, <3>3, OwedMore DEF Backed
      <4>3. (Proposed /\ RunState /\ Served)'
        BY <1>7, <2>1, <3>1, <3>2, <3>3 DEF Caught, Proposed, Trying, RunState, OnService
      <4>4. Budgeted'
        BY <3>1, <3>2, <3>3, <4>1 DEF Budgeted, OnService
      <4> QED
        BY <1>7, <2>1, <3>1, <3>2, <3>3, <4>1, <4>2, <4>3, <4>4, RecordingState
           DEF Caught, IterationState, Measured, OnService, Backed
    <3>4. CASE Strike("write") /\ pc' = "fail" /\ UNCHANGED <<memory, budget>>
      <4>1. Backed'
        BY <3>2, <3>4, BackedStays DEF disk
      <4> QED
        BY <1>7, <2>1, <3>1, <3>2, <3>4, <4>1, RecordingState
           DEF Caught, Strike, Proposed, Trying, RunState, IterationState, Budgeted, Measured, OnService
    <3> QED
      BY <1>7, <2>1, <3>3, <3>4 DEF Caught
  <2>2. CASE ~(raised = "rejected" /\ role \in Managed)
    <3>1. /\ pc' = IF raised = "interrupt" \/ role = "validation" THEN "idle" ELSE "fail"
          /\ UNCHANGED <<raised, own, faults, plan, memory, ledger>> /\ OutcomeKeeps
      BY <1>7, <2>2 DEF Caught
    <3>2. Backed'
      BY <3>1, BackedStays DEF disk
    <3> QED
      BY <1>7, <3>1, <3>2 DEF Caught, plan, OutcomeKeeps, Proposed, Trying, RunState, IterationState,
           Budgeted, Measured, OnService
  <2> QED
    BY <2>1, <2>2
<1>8. CASE LogInvalid
  <2>1. TypeOK'
    <3>1. lc' \in IterationStates
      BY <1>8, IterationStays DEF LogInvalid
    <3> QED
      BY <1>8, <3>1 DEF LogInvalid, Log, GoTo, WriteFails, Throw, Guarded, Strike,
        OutcomeKeeps
  <2>2. (Placed /\ Proposed /\ RunState /\ IterationState /\ Budgeted /\ Served /\
        Measured)'
    BY <1>8, OwnMoves DEF LogInvalid, Move, Log, GoTo, WriteFails, Throw, Guarded, Strike,
      OutcomeKeeps, Proposed, Trying, RunState, IterationState, Budgeted, Measured,
      OnService, Ended
  <2>3. Backed'
    <3>1. ledger' \in {ledger, ledger \cup {Event("memory")}} /\ pc' \in {"loop", "caught"}
      BY <1>8 DEF LogInvalid, Log, GoTo, WriteFails, Throw, Guarded
    <3>2. Owed("invalid") /\ UNCHANGED <<memory, run, change, seen>>
      BY <1>8 DEF LogInvalid, OutcomeKeeps, Backed
    <3>3. LedgerIsBacked'
      BY <3>1, <3>2, LoggedMore DEF Backed
    <3> QED
      BY <3>1, <3>3 DEF Backed
  <2> QED
    BY <2>1, <2>2, <2>3
<1>9. CASE Fail
  <2>1. TypeOK'
    BY <1>9 DEF Fail, Strike, OutcomeKeeps, disk
  <2>2. (Placed /\ Proposed /\ RunState /\ IterationState /\ Budgeted /\ Served /\
        Measured)'
    BY <1>9 DEF Fail, Strike, OutcomeKeeps, disk, Proposed, Trying, RunState,
      IterationState, Budgeted, Measured, OnService, Ended
  <2>3. Backed'
    BY <1>9, BackedStays DEF Fail, Strike, OutcomeKeeps, disk
  <2> QED
    BY <2>1, <2>2, <2>3
<1> QED
  BY <1>1, <1>2, <1>3, <1>4, <1>5, <1>6, <1>7, <1>8, <1>9

\* What happens to a run and its services.
LEMMA HostSteps ==
  ASSUME IInv, Interrupt \/ Kill \/ Listens \/ Exits
  PROVE  IInv'
<1> USE BudgetAssumption, FaultAssumption DEF
        IInv, TypeOK, Placed, Served, Holding, Unwinding, Settling, Roles, Managed,
        RunStates, IterationStates
<1>1. CASE Interrupt
  <2>1. TypeOK'
    <3>1. Service \in Services
      BY <1>1 DEF Interrupt, Service, Services, Budgets
    <3>2. procs' \in SUBSET Services /\ procs \subseteq procs'
      BY <1>1, <3>1 DEF Interrupt
    <3>3. /\ pc' \in {"stopping", "stop", "idle"} /\ own' \in {own, {}}
          /\ pc' = "idle" => own' = {}
      BY <1>1 DEF Interrupt, Guarded
    <3> QED
      BY <1>1, <3>2, <3>3 DEF Interrupt, Strike, plan, disk
  <2>2. (Placed /\ Proposed /\ RunState /\ IterationState /\ Budgeted /\ Served /\
        Measured)'
    BY <1>1 DEF Interrupt, Guarded, Strike, Service, plan, disk, Proposed, Trying,
      RunState, IterationState, Budgeted, Measured, OnService, Ended
  <2>3. Backed'
    BY <1>1, BackedStays DEF Interrupt, Guarded, Strike, Service, plan, disk
  <2> QED
    BY <2>1, <2>2, <2>3
<1>2. CASE Kill
  <2>1. TypeOK'
    BY <1>2 DEF Kill, Strike, plan, disk
  <2>2. (Placed /\ Proposed /\ RunState /\ IterationState /\ Budgeted /\ Served /\
        Measured)'
    BY <1>2 DEF Kill, Strike, plan, disk, Proposed, Trying, RunState, IterationState,
      Budgeted, Measured, OnService, Ended
  <2>3. Backed'
    BY <1>2, BackedStays DEF Kill, Strike, plan, disk
  <2> QED
    BY <2>1, <2>2, <2>3
<1>3. CASE Listens
  <2>1. TypeOK'
    BY <1>3 DEF Listens, walk, plan, disk
  <2>2. (Placed /\ Proposed /\ RunState /\ IterationState /\ Budgeted /\ Served /\
        Measured)'
    BY <1>3 DEF Listens, walk, plan, disk, Proposed, Trying, RunState, IterationState,
      Budgeted, Measured, OnService, Ended
  <2>3. Backed'
    BY <1>3, BackedStays DEF Listens, walk, plan, disk
  <2> QED
    BY <2>1, <2>2, <2>3
<1>4. CASE Exits
  <2>1. TypeOK'
    BY <1>4 DEF Exits, walk, plan, disk
  <2>2. (Placed /\ Proposed /\ RunState /\ IterationState /\ Budgeted /\ Served /\
        Measured)'
    BY <1>4 DEF Exits, walk, plan, disk, Proposed, Trying, RunState, IterationState,
      Budgeted, Measured, OnService, Ended
  <2>3. Backed'
    BY <1>4, BackedStays DEF Exits, walk, plan, disk
  <2> QED
    BY <2>1, <2>2, <2>3
<1> QED
  BY <1>1, <1>2, <1>3, <1>4

-----------------------------------------------------------------------------
(* The theorems *)

\* The invariant holds in every state.
LEMMA Inductive == Spec => []IInv
<1>1. ASSUME Init
      PROVE  IInv
  <2>1. TypeOK
    BY <1>1, BudgetAssumption, FaultAssumption, Closed
       DEF Init, TypeOK, RunStates, IterationStates, Roles, Budgets, Unseen, Results
  <2>2. Backed
    BY <1>1 DEF Init, Backed, LedgerIsBacked
  <2> QED
    BY <1>1, <2>1, <2>2, BudgetAssumption
       DEF Init, IInv, Placed, Proposed, Trying, RunState, IterationState, Budgeted, Served,
           Measured, Unseen, OnService, Settling, Unwinding, Ended
<1>2. ASSUME IInv, [Next]_vars
      PROVE  IInv'
  <2>1. CASE Begin \/ Step \/ WallTimePasses
    BY <1>2, <2>1, RunSteps, TrialSteps, OutcomeSteps DEF Step, Trial
  <2>2. CASE Interrupt \/ Kill \/ Listens \/ Exits
    BY <1>2, <2>2, HostSteps
  <2>3. CASE UNCHANGED vars
    <3>1. Backed'
      BY <1>2, <2>3, BackedStays DEF IInv, vars, walk, plan
    <3> QED
      BY <1>2, <2>3, <3>1
         DEF vars, walk, plan, host, disk, IInv, TypeOK, Placed, Proposed, Trying, RunState,
             IterationState, Budgeted, Served, Measured
  <2> QED
    BY <1>2, <2>1, <2>2, <2>3 DEF Next
<1> QED
  BY <1>1, <1>2, PTL DEF Spec

\* No step of a run, nor any way out of one, makes a move that the lifecycle
\* does not allow.
THEOREM RunsMoveLegally == Spec => []LegalMoves
<1>1. IInv => LegalMoves
  BY DEF IInv, RunState, IterationState, LegalMoves
<1> QED
  BY <1>1, Inductive, PTL

\* A run that goes on has no service alive but the one whose handle it holds.
THEOREM OneService == Spec => []OneServicePerRun
<1>1. IInv => OneServicePerRun
  BY DEF IInv, Served, OneServicePerRun
<1> QED
  BY <1>1, Inductive, PTL

\* The handle a run holds is that of the service it works on, and a role was
\* measured by the service started for it or by one of an earlier run.
Owned == own # {} => own = {Service}
ByItsOwn ==
    \A r \in Managed : \A s \in seen[r].by : s.run < run \/ s = StartedFor(r)

\* A step that measures nothing and starts nothing keeps both.
LEMMA OwnStays ==
  ASSUME Owned, ByItsOwn, UNCHANGED <<run, seen>>, budget'.iterations = budget.iterations,
         own' = {} \/ UNCHANGED <<own, role>>
  PROVE  (Owned /\ ByItsOwn)'
BY DEF Owned, ByItsOwn, Service, StartedFor

\* The steps of a run.
LEMMA StepsOwn ==
  ASSUME IInv, Owned, ByItsOwn, Step
  PROVE  (Owned /\ ByItsOwn)'
<1> USE DEF GoTo, WriteFails, Throw, Strike
<1>1. CASE Start
  <2>1. own' = {} \/ own' = {Service}
    BY <1>1 DEF Start, Guarded
  <2> QED
    BY <1>1, <2>1 DEF Start, Owned, ByItsOwn, Service, StartedFor
<1>2. CASE Evaluate
  <2>1. UNCHANGED <<run, role, budget>> /\ (own' = {} \/ own' = own)
    BY <1>2 DEF Evaluate, ServiceKeeps
  <2>2. \A s \in server : s.run < run \/ s = Service
    <3>1. \A s \in server : s \in procs /\ s.run \in Nat /\ run \in Nat
      BY DEF IInv, TypeOK, Services
    <3>2. raised = "no" /\ pc # "idle"
      BY <1>2 DEF Evaluate, IInv, Placed, Unwinding
    <3> QED
      BY <3>1, <3>2 DEF IInv, Served, Owned
  <2>3. seen' = seen \/ (role \in Managed /\ \E res \in Results :
                             seen' = [seen EXCEPT ![role] = [by |-> server, result |-> res]])
    BY <1>2 DEF Evaluate
  <2>4. ByItsOwn'
    BY <2>1, <2>2, <2>3 DEF IInv, TypeOK, ByItsOwn, Service, StartedFor
  <2> QED
    BY <2>1, <2>4 DEF Owned, Service
<1>3. CASE Reserve
  <2>1. own = {} /\ own' = {}
    BY <1>3 DEF Reserve, IInv, Served, Holding
  <2>2. \A r \in Managed : seen'[r].by = {}
    BY <1>3 DEF Reserve, Unseen
  <2> QED
    BY <2>1, <2>2 DEF Owned, ByItsOwn
<1>4. CASE Approve \/ Loop \/ Recall \/ Analyze \/ Plan \/ Nothing \/ Compare
  <2>1. own = {}
    BY <1>4 DEF Approve, Loop, Recall, Analyze, Plan, Nothing, Compare, IInv, Served, Holding
  <2>2. UNCHANGED <<run, seen, budget>> /\ own' = {}
    BY <1>4, <2>1 DEF Approve, Loop, Recall, Analyze, Plan, Nothing, Compare, ServiceKeeps, plan
  <2> QED
    BY <2>2, OwnStays
<1>5. CASE Prepare \/ Patch \/ Build \/ Started \/ Ready \/ Stopping \/ Stop \/ Stopped
  <2>1. UNCHANGED <<run, seen, budget, role>> /\ (own' = {} \/ own' = own)
    BY <1>5 DEF Prepare, Patch, Build, Started, Ready, Stopping, Stop, Stopped, ServiceKeeps, plan
  <2> QED
    BY <2>1, OwnStays
<1>6. CASE Remember \/ LogMemory \/ Champion \/ Complete \/ Halt \/ LogInvalid \/ Fail
  <2>1. UNCHANGED <<run, seen, budget, role>> /\ (own' = {} \/ own' = own)
    BY <1>6 DEF Remember, Record, LogMemory, Log, Champion, Complete, Halt, LogInvalid, Fail,
      OutcomeKeeps
  <2> QED
    BY <2>1, OwnStays
<1>7. CASE Conclude \/ Caught
  <2>1. UNCHANGED <<run, seen, role>> /\ (own' = {} \/ own' = own)
    BY <1>7 DEF Conclude, Log, Caught, OutcomeKeeps
  <2>2. budget'.iterations = budget.iterations
    <3>1. budget \in Budgets
      BY DEF IInv, TypeOK
    <3> QED
      BY <1>7, <3>1 DEF Conclude, Caught, plan, Budgets
  <2> QED
    BY <2>1, <2>2, OwnStays
<1> QED
  BY <1>1, <1>2, <1>3, <1>4, <1>5, <1>6, <1>7 DEF Step, Trial

\* Both hold in every state.
LEMMA OwnAlways == Spec => [](Owned /\ ByItsOwn)
<1>1. ASSUME Init
      PROVE  Owned /\ ByItsOwn
  BY <1>1 DEF Init, Owned, ByItsOwn, Unseen
<1>2. ASSUME IInv, Owned /\ ByItsOwn, [Next]_vars
      PROVE  (Owned /\ ByItsOwn)'
  <2>1. CASE Begin
    <3>1. own = {} /\ own' = {} /\ \A r \in Managed : seen'[r].by = {}
      BY <1>2, <2>1 DEF Begin, host, Unseen, IInv, TypeOK
    <3> QED
      BY <3>1 DEF Owned, ByItsOwn
  <2>2. CASE Step
    BY <1>2, <2>2, StepsOwn
  <2>3. CASE WallTimePasses
    <3>1. budget'.iterations = budget.iterations
      BY <1>2, <2>3 DEF WallTimePasses, IInv, TypeOK, Budgets
    <3> QED
      BY <1>2, <2>3, <3>1, OwnStays DEF WallTimePasses, walk, host
  <2>4. CASE Interrupt \/ Kill \/ Listens \/ Exits \/ UNCHANGED vars
    <3>1. UNCHANGED <<run, seen, budget, role>> /\ (own' = {} \/ own' = own)
      BY <2>4 DEF Interrupt, Kill, Listens, Exits, vars, walk, plan, host
    <3> QED
      BY <1>2, <3>1, OwnStays
  <2> QED
    BY <1>2, <2>1, <2>2, <2>3, <2>4 DEF Next
<1> QED
  BY <1>1, <1>2, Inductive, PTL DEF Spec

\* An accepted candidate and its baseline have both passed, each measured by the
\* service that this run started for it in this iteration, or by one that an
\* earlier run left on the endpoint; and the two services are stopped.
THEOREM AcceptanceIsMeasured == Spec => []AcceptedIsMeasured
<1>1. IInv /\ Owned /\ ByItsOwn => AcceptedIsMeasured
  <2>1. SUFFICES ASSUME IInv, ByItsOwn, pc \in {"champion", "complete"}
        PROVE  /\ \A r \in Managed :
                    /\ seen[r].result = "passed"
                    /\ \E s \in seen[r].by : s = StartedFor(r) \/ s.run < run
               /\ \A s \in procs : ~(s.run = run /\ s.iter = budget.iterations)
    BY DEF AcceptedIsMeasured
  <2>2. \A r \in Managed : seen[r].result = "passed" /\ seen[r].by # {}
    BY <2>1 DEF IInv, Measured
  <2>3. \A r \in Managed : \E s \in seen[r].by : s = StartedFor(r) \/ s.run < run
    BY <2>1, <2>2 DEF ByItsOwn
  <2>4. raised = "no" /\ own = {}
    BY <2>1 DEF IInv, Placed, Served, Unwinding, Holding
  <2>5. \A s \in procs : s.run # run
    BY <2>1, <2>4 DEF IInv, Served
  <2> QED
    BY <2>2, <2>3, <2>5
<1> QED
  BY <1>1, Inductive, OwnAlways, PTL

\* What the ledger says of an outcome is in the memory, and a champion has its
\* verdict, wherever a run breaks off.
THEOREM LedgerHasMemory == Spec => []LedgerIsBacked
<1>1. IInv => LedgerIsBacked
  BY DEF IInv, Backed
<1> QED
  BY <1>1, Inductive, PTL

\* No exception but a stop that fails, an interrupt or a kill gives up the
\* handle of a live service of a managed trial.
THEOREM TeardownOfTrials == Spec => ManagedTeardown
<1>1. ASSUME IInv, [Next]_vars
      PROVE  [own # {} /\ role \in Managed /\ own' = {} /\ own \subseteq procs'
                => pc = "stop" \/ raised' = "interrupt"]_vars
  <2>1. SUFFICES ASSUME Next, own # {}, role \in Managed, own' = {}, pc # "stop", raised' # "interrupt"
        PROVE  FALSE
    BY <1>1
  <2>2. pc \in {"started", "ready", "evaluate", "stopping"}
    BY <1>1, <2>1 DEF IInv, Served, Holding
  <2>3. Started \/ Ready \/ Evaluate \/ Stopping \/ WallTimePasses \/ Listens \/ Exits
    BY <2>1, <2>2
       DEF Next, Step, Trial, Begin, Approve, Loop, Reserve, Recall, Analyze, Plan, Nothing, Prepare,
           Patch, Build, Start, Stop, Stopped, Compare, Remember, LogMemory, Conclude, Champion,
           Complete, Halt, Caught, LogInvalid, Fail, Interrupt, Kill
  <2>4. own' = own
    BY <2>1, <2>3
       DEF Started, Ready, Evaluate, Stopping, WallTimePasses, Listens, Exits, GoTo, WriteFails, Throw,
           Guarded, Managed, host
  <2> QED
    BY <2>1, <2>4
<1> QED
  BY <1>1, Inductive, PTL DEF Spec, ManagedTeardown

-----------------------------------------------------------------------------
(* Proposals and the memory *)

\* A proposal is on its way, and its outcome is not recorded yet.
Pending ==
    /\ role \in Managed
    /\ pc \in OnService \cup {"compare", "remember"} \/ (pc = "caught" /\ raised = "rejected")

\* No recalled entry names it.
Untried == Pending => The \notin Attempted

\* Two outcomes of one change are more than a recall apart.
Spaced ==
    \A i, j \in 1..Len(memory) :
        i < j /\ memory[i].change = memory[j].change => j - i > RecallLimit

\* An entry that the recall does not return is more than a recall ago.
LEMMA NotRecalled ==
  ASSUME TypeOK, NEW i \in 1..Len(memory), memory[i].change \notin Attempted
  PROVE  i + RecallLimit <= Len(memory)
<1>1. memory[i] \notin Recalled
  BY DEF Attempted
<1>2. i \in Nat /\ Len(memory) \in Nat /\ RecallLimit \in Nat
  BY BudgetAssumption DEF TypeOK
<1> QED
  BY <1>1, <1>2 DEF Recalled

\* The outcome of a proposal that was not tried keeps its distance.
LEMMA RecordKeepsDistance ==
  ASSUME TypeOK, Spaced, The \notin Attempted, change # {}, run \in 1..MaxRuns,
         NEW status \in Statuses,
         memory' = Append(memory, [run |-> run, change |-> The, status |-> status])
  PROVE  Spaced'
<1> DEFINE m == [run |-> run, change |-> The, status |-> status]
<1>1. m \in Outcomes /\ m.change = The
  BY TheChange DEF Outcomes, TypeOK
<1>2. /\ Len(memory) \in Nat /\ Len(memory') = Len(memory) + 1
      /\ memory'[Len(memory) + 1] = m
      /\ \A i \in 1..Len(memory) : memory'[i] = memory[i]
  BY <1>1, OneMore DEF TypeOK
<1> HIDE DEF m
<1> SUFFICES ASSUME NEW i \in 1..Len(memory'), NEW j \in 1..Len(memory'), i < j,
                    memory'[i].change = memory'[j].change
             PROVE  j - i > RecallLimit
  BY DEF Spaced
<1>3. i \in 1..Len(memory)
  BY <1>2
<1>4. CASE j \in 1..Len(memory)
  BY <1>2, <1>3, <1>4 DEF Spaced
<1>5. CASE j = Len(memory) + 1
  <2>1. memory[i].change \notin Attempted
    BY <1>1, <1>2, <1>3, <1>5
  <2> QED
    BY <1>2, <1>3, <1>5, <2>1, NotRecalled, BudgetAssumption
<1> QED
  BY <1>2, <1>4, <1>5

\* A step records the outcome of the pending proposal, makes a new one, or
\* leaves both and the memory alone.
LEMMA ProposalSteps ==
  ASSUME IInv, [Next]_vars
  PROVE  \/ \E c \in Changes \ Attempted : change' = {c} /\ memory' = memory
         \/ /\ memory' = memory
            /\ Pending' => Pending /\ change' = change
         \/ /\ ~Pending' /\ Pending /\ change # {} /\ run \in 1..MaxRuns
            /\ \E status \in Statuses :
                 memory' = Append(memory, [run |-> run, change |-> The, status |-> status])
<1> USE DEF IInv, Placed, OnService, Settling, Unwinding, Managed
<1>1. CASE Plan
  BY <1>1 DEF Plan, GoTo, disk, Pending
<1>2. CASE Remember \/ Caught
  <2>1. memory' = memory \/ (Pending /\ change # {} /\ run \in 1..MaxRuns)
    BY <1>2 DEF Remember, Caught, Record, Pending, Proposed, Trying, plan
  <2>2. \/ memory' = memory
        \/ \E status \in Statuses :
             memory' = Append(memory, [run |-> run, change |-> The, status |-> status])
    BY <1>2 DEF Remember, Caught, Record, Status, Statuses, TypeOK, Results
  <2>3. ~Pending' 
    BY <1>2 DEF Remember, Caught, Record, Pending, WriteFails, Throw, GoTo, Guarded, OutcomeKeeps
  <2> QED
    BY <2>1, <2>2, <2>3
<1>3. CASE Begin \/ Reserve \/ Recall
  BY <1>3 DEF Begin, Reserve, Recall, Pending, GoTo, WriteFails, Throw, Guarded, disk
<1>4. CASE Approve \/ Loop \/ Analyze \/ Nothing \/ LogMemory \/ Conclude \/ Champion
           \/ Complete \/ Halt \/ LogInvalid \/ Fail
  <2>1. memory' = memory /\ change' = change
    BY <1>4 DEF Approve, Loop, Analyze, Nothing, LogMemory, Conclude, Champion, Complete, Halt,
       LogInvalid, Fail, disk, plan, OutcomeKeeps
  <2>2. ~Pending'
    BY <1>4 DEF Approve, Loop, Analyze, Nothing, LogMemory, Conclude, Champion, Complete, Halt,
       LogInvalid, Fail, Log,
       GoTo, WriteFails, Throw, Guarded, OutcomeKeeps, Pending
  <2> QED
    BY <2>1, <2>2
<1>5. CASE Trial
  <2>1. memory' = memory /\ change' = change
    BY <1>5 DEF Trial, Prepare, Patch, Build, Start, Started, Ready, Evaluate, Stopping, Stop,
       Stopped, Compare, ServiceKeeps, disk, plan
  <2>2. Pending' => Pending
    BY <1>5 DEF Trial, Prepare, Patch, Build, Start, Started, Ready, Evaluate, Stopping, Stop,
       Stopped, Compare, After,
       GoTo, WriteFails, Throw, Guarded, ServiceKeeps, Pending
  <2> QED
    BY <2>1, <2>2
<1>6. CASE WallTimePasses \/ Interrupt \/ Kill \/ Listens \/ Exits \/ UNCHANGED vars
  <2>1. memory' = memory /\ change' = change
    BY <1>6 DEF WallTimePasses, Interrupt, Kill, Listens, Exits, vars, plan, disk
  <2>2. Pending' => Pending
    BY <1>6 DEF WallTimePasses, Interrupt, Kill, Listens, Exits, vars, walk, plan, Pending, Guarded
  <2> QED
    BY <2>1, <2>2
<1> QED
  BY <1>1, <1>2, <1>3, <1>4, <1>5, <1>6 DEF Next, Step

\* Two outcomes of one change are more than a recall apart, for any catalog.
THEOREM RepeatsAreFar == Spec => []Spaced
<1>1. Init => Untried /\ Spaced
  BY DEF Init, Untried, Pending, Spaced, OnService
<1>2. ASSUME IInv, Untried, Spaced, [Next]_vars
      PROVE  Untried' /\ Spaced'
  <2>1. CASE memory' = memory
    <3>1. UNCHANGED <<Attempted, Spaced>>
      BY <2>1 DEF Attempted, Recalled, Spaced
    <3>2. ASSUME NEW c \in Changes \ Attempted, change' = {c}
          PROVE  Untried'
      BY <3>1, <3>2 DEF Untried, The
    <3>3. CASE Pending' => Pending /\ change' = change
      <4>1. Pending' => Pending /\ The' = The
        BY <3>3 DEF The
      <4>2. Pending => The \notin Attempted
        BY <1>2 DEF Untried
      <4> QED
        BY <1>2, <3>1, <4>1, <4>2 DEF Untried
    <3> QED
      BY <1>2, <2>1, <3>1, <3>2, <3>3, ProposalSteps
  <2>2. CASE ~Pending' /\ Pending /\ change # {} /\ run \in 1..MaxRuns
    <3>1. ASSUME NEW status \in Statuses,
                 memory' = Append(memory, [run |-> run, change |-> The, status |-> status])
          PROVE  Untried' /\ Spaced'
      BY <1>2, <2>2, <3>1, RecordKeepsDistance DEF Untried, IInv
    <3> QED
      BY <1>2, <2>1, <2>2, <3>1, ProposalSteps
  <2> QED
    BY <1>2, <2>1, <2>2, ProposalSteps
<1> QED
  BY <1>1, <1>2, Inductive, PTL DEF Spec

\* So no change has two outcomes while the catalog is no larger than a recall:
\* among a recall and one entries more, two would name the same change.
THEOREM NoSecondOutcome ==
  ASSUME IsFiniteSet(Changes), Cardinality(Changes) <= RecallLimit
  PROVE  Spec => []NoRepeat
<1>1. TypeOK /\ Spaced => NoRepeat
  <2> SUFFICES ASSUME TypeOK, Spaced, NEW i \in 1..Len(memory), NEW j \in 1..Len(memory),
                      i < j, memory[i].change = memory[j].change
               PROVE  FALSE
    <3>1. Len(memory) \in Nat
      BY DEF TypeOK
    <3>2. \A i, j \in 1..Len(memory) : i < j \/ j < i \/ i = j
      BY <3>1
    <3> QED
      BY <3>2 DEF NoRepeat
  <2>1. /\ Len(memory) \in Nat /\ RecallLimit \in Nat
        /\ i \in Nat /\ j \in Nat /\ i > 0 /\ j <= Len(memory) /\ j - i > RecallLimit
    BY BudgetAssumption DEF TypeOK, Spaced
  <2> DEFINE W == i..(i + RecallLimit)
             f == [k \in W |-> memory[k].change]
  <2>2. W \subseteq 1..Len(memory)
    BY <2>1
  <2>3. f \in [W -> Changes]
    <3>1. \A k \in 1..Len(memory) : memory[k].change \in Changes
      <4>1. \A k \in 1..Len(memory) : memory[k] \in Outcomes
        BY DEF TypeOK
      <4> QED
        BY <4>1 DEF Outcomes
    <3> QED
      BY <2>2, <3>1
  <2>4. \A k, l \in W : f[k] = f[l] => k = l
    <3>1. \A k, l \in W : k < l => memory[k].change # memory[l].change
      <4> SUFFICES ASSUME NEW k \in W, NEW l \in W, k < l, memory[k].change = memory[l].change
                   PROVE  FALSE
        OBVIOUS
      <4>1. l - k > RecallLimit
        BY <2>2 DEF Spaced
      <4> QED
        BY <2>1, <4>1
    <3>2. \A k, l \in W : k < l \/ l < k \/ k = l
      BY <2>1
    <3> QED
      BY <3>1, <3>2
  <2>5. Cardinality(W) = RecallLimit + 1
    BY <2>1, FS_Interval
  <2>6. Cardinality(W) <= Cardinality(Changes)
    BY <2>3, <2>4, FS_Injection DEF Injection, IsInjective
  <2>7. Cardinality(Changes) \in Nat
    BY FS_CardinalityType
  <2> QED
    BY <2>1, <2>5, <2>6, <2>7
<1>2. IInv => TypeOK
  BY DEF IInv
<1> QED
  BY <1>1, <1>2, Inductive, RepeatsAreFar, PTL

=============================================================================
