------------------------------ MODULE Campaign ------------------------------
(***************************************************************************)
(* Campaigns: campaign.py with the configuration it loads (config.py), the  *)
(* commands of the adapters, the executor, the gates and the experiment     *)
(* ledger.  Several campaigns, each a process, share one ledger file; an    *)
(* append may be written in parts, fail between them or be cut off by a     *)
(* kill.  Numbers of a result are integers, thresholds are percentages.     *)
(***************************************************************************)
EXTENDS Integers, FiniteSets, Sequences, SequencesExt, FiniteSetsExt

CONSTANTS
    Campaigns,     \* the processes that run a campaign on the ledger
    LastCandidate, \* per campaign the ordinal of its last candidate; 0 is the baseline
    Documents,     \* per campaign the configurations it may be given
    Results,       \* per campaign what its benchmark may leave
    MaxFaults,     \* bound on failing writes and kills
    None,          \* no value
    NaN            \* a number that is not finite

\* An argument as somebody spells it: exact if as in the tables of the code, else in a
\* way that only the benchmark's parser takes for the same option ("--output_file", an
\* abbreviation).
Spellings == [option : STRING, exact : BOOLEAN]

\* What the loader has made sure of, value by value, before it looks at the whole.
\* Of the values of a parameter only those count that the parser takes for options.
Parameters == [name : STRING, exact : BOOLEAN, dashed : BOOLEAN, positive : BOOLEAN,
               values : SUBSET Spellings]
DocumentTypes ==
    [framework : STRING, mode : {"serve", "latency", "throughput", "sweep"}, filename : STRING,
     ids : STRING, artifacts : STRING, ledger : STRING, base : SUBSET Spellings,
     parameters : SUBSET Parameters, minimum : Int \cup {NaN}, direction : STRING,
     improvement : Int \cup {NaN}, regression : Int \cup {NaN}, noise : Int \cup {NaN}]

\* What a benchmark may leave: numbers that may be missing, or not finite.
ResultTypes ==
    [exit : STRING, content : STRING, completed : Int \cup {None, NaN},
     failed : Int \cup {None, NaN}, requested : Int \cup {None, NaN}, perf : Int \cup {None, NaN}]

ASSUME LastAssumption == LastCandidate \in [Campaigns -> Nat]
ASSUME FaultsAssumption == MaxFaults \in Nat
ASSUME NoneAssumption == None \notin Int /\ NaN \notin Int /\ None \notin Campaigns
ASSUME DocumentsAssumption ==
    \A p \in Campaigns : Documents[p] \subseteq DocumentTypes
ASSUME ResultsAssumption == \A p \in Campaigns : Results[p] \subseteq ResultTypes

VARIABLES
    st,            \* per campaign: where it is and what it holds
    lock,          \* who holds the flock of the ledger
    file,          \* the pieces the appends left in the ledger, in order
    acked,         \* per campaign the snapshots whose append returned
    faults         \* failing writes and kills so far

vars == <<st, lock, file, acked, faults>>

Finite(x) == x \notin {None, NaN}

(***************************************************************************)
(* The configuration.  A document is a record of the choices the loader     *)
(* looks at.  NaN is not below any minimum, as in Python.                   *)
(***************************************************************************)
AtLeast(x, minimum) == x = NaN \/ x >= minimum

ValidGates(d) ==
    /\ d.direction \in {"maximize", "minimize"}
    /\ \A x \in {d.improvement, d.regression, d.noise} : AtLeast(x, 0)

ValidExecution(d) ==
    /\ d.artifacts # "home"
    /\ d.ledger = "inside"

LoadConfig(d) ==
    /\ d.framework \in {"sglang", "vllm"}
    /\ d.filename = "plain"
    /\ d.ids = "unique"
    /\ ValidGates(d)
    /\ ValidExecution(d)

(***************************************************************************)
(* Commands.  Of argv only the options count, each with its spelling and    *)
(* who put it there; of an option given twice the benchmark takes the last, *)
(* and the plan comes first.                                                *)
(***************************************************************************)
ManagedOutput == {"experiment_name", "output_dir", "output_file", "output_json",
                  "result_dir", "result_filename"}

\* Parameters of a candidate with these names change the workload instead.
Aliases == {"model", "input_len", "output_len", "max_concurrency", "num_prompts"}

\* Only the spelling of the table is one: "num-prompts" stays a parameter.
CandidateInputs(parameters) ==
    LET moved == {p \in parameters : p.name \in Aliases /\ p.exact /\ ~p.dashed}
    IN  [workload |-> moved, parameters |-> parameters \ moved]

Tokens(spelt, by) == {[option |-> a.option, exact |-> a.exact, by |-> by] : a \in spelt}

ProfileControl(option) == option = "profile"

\* Refused is the AdapterError.
Refused == {}

\* Texts are compared as they stand: dashes of a parameter's name are made
\* underscores, but no other spelling is known, and no value is looked at.  (A
\* parameter that is False or None leaves no token; kept here, it only adds one.)
Render(fixed, base, parameters, reserved) ==
    IF \/ \E a \in base : a.exact /\ ProfileControl(a.option)
       \/ \E p \in parameters : p.exact /\ (ProfileControl(p.name) \/ p.name \in reserved)
    THEN Refused
    ELSE [option : fixed, exact : {TRUE}, by : {"plan"}]
         \cup Tokens(base, "base")
         \cup Tokens({[option |-> p.name, exact |-> p.exact] : p \in parameters}, "parameter")
         \cup Tokens(UNION {p.values : p \in parameters}, "value")

SGLangServe(base, parameters) ==
    Render({"model", "num_prompts", "input_len", "output_len", "max_concurrency", "output_file"},
           base, parameters, {"output_file"})

\* Slip: --result-dir is not reserved.
VLLMServeUnreserved(base, parameters) ==
    Render({"model", "num_prompts", "input_len", "output_len", "max_concurrency",
             "save_result", "result_dir", "result_filename"},
           base, parameters, {"save_result", "result_filename"})

VLLMServe(base, parameters) ==
    Render({"model", "num_prompts", "input_len", "output_len", "max_concurrency",
             "save_result", "result_dir", "result_filename"},
           base, parameters, {"save_result", "result_dir", "result_filename"})

VLLMLatency(base, parameters) ==
    Render({"model", "input_len", "output_len", "batch_size", "output_json"},
           base, parameters, {"output_json"})

VLLMThroughput(base, parameters) ==
    Render({"model", "num_prompts", "input_len", "output_len", "output_json"},
           base, parameters, {"output_json"})

\* A sweep takes two parameters and no others, and looks for no profile control.
VLLMSweep(base, parameters) ==
    IF {[name |-> p.name, exact |-> p.exact] : p \in parameters}
           = [name : {"serve_cmd", "bench_cmd"}, exact : {TRUE}]
    THEN [option : {"output_dir", "experiment_name"}, exact : {TRUE}, by : {"plan"}]
         \cup Tokens(base, "base")
    ELSE Refused

BuildCommand(d) ==
    LET given == CandidateInputs(d.parameters).parameters
    IN  CASE d.framework = "sglang" ->
               IF d.mode = "serve" THEN SGLangServe(d.base, given) ELSE Refused
          [] OTHER ->
               CASE d.mode = "serve"      -> VLLMServe(d.base, given)
                 [] d.mode = "latency"    -> VLLMLatency(d.base, given)
                 [] d.mode = "throughput" -> VLLMThroughput(d.base, given)
                 [] OTHER                 -> VLLMSweep(d.base, given)

ManagesLifecycle(d) == d.mode = "sweep"

\* All of campaign.py that can refuse a plan, in its order.
PlanOf(d) ==
    IF \E a \in d.base : a.exact /\ a.option \in ManagedOutput THEN Refused
    ELSE IF ~\A p \in CandidateInputs(d.parameters).workload : p.positive THEN Refused
    ELSE BuildCommand(d)

(***************************************************************************)
(* What the executor and the adapter make of a benchmark.                   *)
(***************************************************************************)
Succeeded(r) == r.exit = "zero"       \* not non-zero, timed out, or not started
Parses(r) == r.content = "object"

\* completed of completed + failed, or of the requests asked for.
SuccessRate(r) ==
    LET of == IF Finite(r.completed) /\ Finite(r.failed) THEN r.completed + r.failed
              ELSE IF Finite(r.completed) /\ Finite(r.requested) THEN r.requested ELSE 0
    IN  IF of > 0 THEN (100 * r.completed) \div of ELSE None

ParseResult(r) ==
    [correct |-> SuccessRate(r), perf |-> IF Finite(r.perf) THEN r.perf ELSE None]

(***************************************************************************)
(* The gates.                                                               *)
(***************************************************************************)
Magnitude(x) == IF x < 0 THEN -x ELSE x

CorrectnessGate(g, m) == m.correct # None /\ m.correct >= g.minimum

\* Slip: the noise counts as improvement.
PerformanceGateLenient(g, b, c) ==
    /\ b.perf # None
    /\ c.perf # None
    /\ LET gain == IF g.direction = "minimize" THEN b.perf - c.perf ELSE c.perf - b.perf
           floor == IF g.improvement > 0 THEN g.improvement ELSE -g.regression
       IN  100 * gain >= (floor - g.noise) * b.perf

\* relative_improvement = delta / base is compared with percentages by
\* multiplying out.
PerformanceGate(g, b, c) ==
    /\ b.perf # None
    /\ c.perf # None
    /\ LET base  == b.perf
           delta == IF g.direction = "minimize" THEN base - c.perf ELSE c.perf - base
           noise == 100 * Magnitude(delta) <= g.noise * Magnitude(base)
           effective == IF noise THEN 0 ELSE 100 * delta
           floor == IF g.improvement > 0 THEN g.improvement ELSE -g.regression
       IN  IF base = 0 THEN delta > 0 \/ (delta = 0 /\ g.improvement = 0)
           ELSE effective >= floor * Magnitude(base)

CompositeGate(g, b, c) == CorrectnessGate(g, c) /\ PerformanceGate(g, b, c)

\* The gates refuse thresholds that are not finite, when they are made.
GatesCanBeMade(d) == \A x \in {d.minimum, d.improvement, d.regression, d.noise} : x # NaN

GateOf(d) == [minimum |-> d.minimum, direction |-> d.direction, improvement |-> d.improvement,
              regression |-> d.regression, noise |-> d.noise]

\* evaluate_existing_results: the gates on two results that are already there.
EvaluateExisting(g, b, c) == CorrectnessGate(g, b) /\ CompositeGate(g, b, c)

(***************************************************************************)
(* The ledger file, in pieces: a line, or what a broken append left of one:  *)
(* its "head", or all but the newline ("bare").  A "tail" that follows its   *)
(* own beginning makes a line of it; anywhere else it is one more fragment.  *)
(***************************************************************************)
Piece(p, part) == [snap |-> st[p].snap, part |-> part]
Fragment(piece) == piece.part \in {"head", "bare"}

Written(p, part) ==
    IF part = "tail" /\ file # <<>> /\ Fragment(Last(file)) /\ Last(file).snap = st[p].snap
    THEN Front(file) \o <<Piece(p, "whole")>>
    ELSE Append(file, Piece(p, part))

\* What the JSON decoder accepts: a fragment spoils the line it is in, if that goes on.
Decodes(pieces, i) == pieces[i].part = "whole" \/ (pieces[i].part = "bare" /\ i = Len(pieces))

\* iter_experiments: snapshots in order, up to the first line that is corrupt.
ReadAll(pieces) ==
    LET read == Max({n \in 0..Len(pieces) : \A i \in 1..n : Decodes(pieces, i)})
    IN  [read |-> [i \in 1..read |-> pieces[i].snap], corrupt |-> read < Len(pieces)]

Terminal == {"failed", "succeeded", "cancelled"}

\* history and get, the snapshots by their place.
History(snaps, p, i) == {k \in DOMAIN snaps : snaps[k].campaign = p /\ snaps[k].ordinal = i}
Latest(snaps, p, i) == snaps[Max(History(snaps, p, i))]

(***************************************************************************)
(* Running a campaign.                                                       *)
(***************************************************************************)
NoMetrics == [correct |-> None, perf |-> None]

Snapshot(p, i, status) ==
    [campaign |-> p, ordinal |-> i, status |-> status, accepted |-> FALSE,
     base |-> NoMetrics, metrics |-> NoMetrics]

\* pc: load, plan, planned, append, write, rest, execute, judge; and at the
\* end refused, raised, killed, returned.  stopped is stopped_reason.
Fresh ==
    [pc |-> "load", config |-> None, gate |-> None, ordinal |-> 0, result |-> None,
     base |-> None, stopped |-> FALSE, snap |-> None]

Init ==
    /\ st = [p \in Campaigns |-> Fresh]
    /\ lock = None
    /\ file = <<>>
    /\ acked = [p \in Campaigns |-> <<>>]
    /\ faults = 0

Goto(p, s) == st' = [st EXCEPT ![p] = s]

Load(p) ==
    /\ st[p].pc = "load"
    /\ \E d \in Documents[p] :
           Goto(p, IF LoadConfig(d) THEN [st[p] EXCEPT !.pc = "plan", !.config = d]
                   ELSE [st[p] EXCEPT !.pc = "refused"])
    /\ UNCHANGED <<lock, file, acked, faults>>

\* _plan_campaign, then the refusal of commands that manage a service.
Plan(p) ==
    /\ st[p].pc = "plan"
    /\ LET d == st[p].config
       IN  Goto(p, IF PlanOf(d) # Refused /\ ~ManagesLifecycle(d)
                   THEN [st[p] EXCEPT !.pc = "planned"]
                   ELSE [st[p] EXCEPT !.pc = "refused", !.config = None])
    /\ UNCHANGED <<lock, file, acked, faults>>

\* The run directory with the plan, the ledger, the gates; then the first candidate.
Begin(p) ==
    /\ st[p].pc = "planned"
    /\ LET d == st[p].config
       IN  IF GatesCanBeMade(d)
           THEN Goto(p, [st[p] EXCEPT !.pc = "append", !.gate = GateOf(d), !.config = None,
                                      !.snap = Snapshot(p, 0, "running")])
           ELSE Goto(p, [st[p] EXCEPT !.pc = "raised", !.config = None])
    /\ UNCHANGED <<lock, file, acked, faults>>

\* What run_campaign does when the append of s.snap has returned.
NextCandidate(p, s, status) ==
    IF s.ordinal = LastCandidate[p] THEN [s EXCEPT !.pc = "returned"]
    ELSE [s EXCEPT !.pc = "append", !.ordinal = @ + 1,
                   !.snap = Snapshot(p, s.ordinal + 1, status)]

AfterAppend(p, s) ==
    LET stops == s.ordinal = 0 /\ ~s.snap.accepted
    IN  CASE s.snap.status = "running" -> [s EXCEPT !.pc = "execute", !.snap = None]
          [] s.snap.status = "cancelled" -> NextCandidate(p, s, "cancelled")
          [] OTHER -> NextCandidate(p, [s EXCEPT !.stopped = stops],
                                    IF stops THEN "cancelled" ELSE "running")

Returns(p) ==
    /\ lock' = None
    /\ acked' = [acked EXCEPT ![p] = Append(@, st[p].snap)]
    /\ Goto(p, AfterAppend(p, st[p]))

\* Slip: no lock is taken.
FlockNot(p) ==
    /\ st[p].pc = "append"
    /\ lock' = p
    /\ Goto(p, [st[p] EXCEPT !.pc = "write"])
    /\ UNCHANGED <<file, acked, faults>>

Flock(p) ==
    /\ st[p].pc = "append"
    /\ lock = None
    /\ lock' = p
    /\ Goto(p, [st[p] EXCEPT !.pc = "write"])
    /\ UNCHANGED <<file, acked, faults>>

\* os.write takes the whole line, or a part and the rest in the next round.
Write(p) ==
    /\ st[p].pc = "write"
    /\ \/ /\ file' = Written(p, "whole")
          /\ Returns(p)
       \/ /\ \E part \in {"head", "bare"} : file' = Written(p, part)
          /\ Goto(p, [st[p] EXCEPT !.pc = "rest"])
          /\ UNCHANGED <<lock, acked>>
    /\ UNCHANGED faults

WriteRest(p) ==
    /\ st[p].pc = "rest"
    /\ file' = Written(p, "tail")
    /\ Returns(p)
    /\ UNCHANGED faults

\* The executor runs the benchmark; a command that does not succeed fails the
\* candidate.
Execute(p) ==
    /\ st[p].pc = "execute"
    /\ \E r \in Results[p] :
           IF Succeeded(r)
           THEN Goto(p, [st[p] EXCEPT !.pc = "judge", !.result = r])
           ELSE Goto(p, [st[p] EXCEPT !.pc = "append",
                                      !.snap = Snapshot(p, st[p].ordinal, "failed")])
    /\ UNCHANGED <<lock, file, acked, faults>>

\* The result is parsed and gated.  A failing write of the normalized metrics is
\* caught, and counts as a result that does not parse.
Judge(p) ==
    /\ st[p].pc = "judge"
    /\ LET s == [st[p] EXCEPT !.pc = "append", !.result = None]
           m == ParseResult(st[p].result)
           ok == IF s.ordinal = 0 THEN CorrectnessGate(s.gate, m)
                 ELSE CompositeGate(s.gate, s.base, m)
           finished == [campaign |-> p, ordinal |-> s.ordinal, status |-> "succeeded",
                        accepted |-> ok, base |-> IF s.ordinal = 0 THEN NoMetrics ELSE s.base,
                        metrics |-> m]
       IN  IF ~Parses(st[p].result)
           THEN Goto(p, [s EXCEPT !.snap = Snapshot(p, s.ordinal, "failed")])
           ELSE Goto(p, [s EXCEPT !.snap = finished,
                                  !.base = IF s.ordinal = 0 /\ ok THEN m ELSE @])
    /\ UNCHANGED <<lock, file, acked, faults>>

(***************************************************************************)
(* Failures.                                                                 *)
(***************************************************************************)
Fault == faults < MaxFaults /\ faults' = faults + 1
\* Slip: a lock file, which stays when its owner dies.
ReleaseNever(p) == UNCHANGED lock

Release(p) == lock' = IF lock = p THEN None ELSE lock

\* A write raises, before or after a part of the line; or fsync does, after all
\* of it; or a file of the run directory cannot be written.  The exception leaves
\* run_campaign.
WriteFails(p) ==
    /\ Fault
    /\ \/ st[p].pc \in {"planned", "write"} /\ UNCHANGED file
       \/ st[p].pc = "rest" /\ UNCHANGED file
       \/ st[p].pc = "write" /\ file' = Written(p, "whole")
       \/ st[p].pc = "rest" /\ file' = Written(p, "tail")
    /\ Release(p)
    /\ Goto(p, [st[p] EXCEPT !.pc = "raised", !.config = None])
    /\ UNCHANGED acked

\* experiment.json is written after the append of the outcome has returned.
SaveFails(p) ==
    /\ Fault
    /\ st[p].pc = "write"
    /\ st[p].snap.status = "succeeded"
    /\ file' = Written(p, "whole")
    /\ acked' = [acked EXCEPT ![p] = Append(@, st[p].snap)]
    /\ Release(p)
    /\ Goto(p, [st[p] EXCEPT !.pc = "raised"])

Ended == {"refused", "raised", "killed", "returned"}

\* The process dies; the operating system drops its lock.
Killed(p) ==
    /\ Fault
    /\ st[p].pc \notin Ended
    /\ Release(p)
    /\ Goto(p, [st[p] EXCEPT !.pc = "killed", !.config = None])
    /\ UNCHANGED <<file, acked>>

Step(p) ==
    Load(p) \/ Plan(p) \/ Begin(p) \/ Flock(p) \/ Write(p) \/ WriteRest(p) \/ Execute(p) \/ Judge(p)

Next == \E p \in Campaigns : Step(p) \/ WriteFails(p) \/ SaveFails(p) \/ Killed(p)

Spec == Init /\ [][Next]_vars /\ \A p \in Campaigns : WF_vars(Step(p))

(***************************************************************************)
(* Properties.                                                               *)
(***************************************************************************)
Broken == {p \in Campaigns : st[p].pc \in {"raised", "killed"}}

\* Whoever wins the lock finds a file that tells every returned campaign as it
\* went: the last snapshot of each planned candidate is the one outcome run_campaign
\* returned for it (cancelled for all after a baseline that failed).  Unless a line is
\* corrupt, and then an append was broken off, never two of them mixed.
\* (ledger.py append and iter_experiments, campaign.py run_campaign)
LedgerTellsResult ==
    lock = None =>
        LET ledger == ReadAll(file)
            Outcomes(p, i) == {k \in History(acked[p], p, i) : acked[p][k].status \in Terminal}
        IN  \/ ledger.corrupt /\ Broken # {}
            \/ /\ ~ledger.corrupt
               /\ \A p \in Campaigns : st[p].pc = "returned" =>
                      \A i \in 0..LastCandidate[p] :
                          \E k \in DOMAIN acked[p] :
                              /\ Outcomes(p, i) = {k}
                              /\ Latest(ledger.read, p, i) = acked[p][k]
                              /\ st[p].stopped /\ i > 0 => acked[p][k].status = "cancelled"

\* What an accepted candidate must be: the correctness minimum is met, and the
\* candidate beats the baseline by the improvement asked for, or where none is asked
\* for, falls behind by no more than the allowed regression or the noise.
Good(g, b, c) ==
    LET gain == IF g.direction = "minimize" THEN b.perf - c.perf ELSE c.perf - b.perf
        slack == IF g.regression > g.noise THEN g.regression ELSE g.noise
    IN  /\ c.correct >= g.minimum
        /\ IF g.improvement > 0
           THEN gain > 0 /\ 100 * gain >= g.improvement * Magnitude(b.perf)
           ELSE gain >= 0 \/ (b.perf # 0 /\ 100 * (-gain) <= slack * Magnitude(b.perf))

\* An accepted candidate anywhere in the readable ledger was measured against a
\* baseline that the same campaign recorded as accepted before it; the verdict is
\* what the two results deserve, and what evaluating the two saved results again
\* gives.  The gate of a campaign that is still there is known.
\* (gates.py, campaign.py run_campaign and evaluate_existing_results)
AcceptedIsGood ==
    \A p \in Campaigns : st[p].gate # None =>
        \A i \in DOMAIN acked[p] :
            LET s == acked[p][i]
            IN  s.ordinal > 0 /\ s.status = "succeeded" =>
                    /\ \E j \in 1..(i - 1) : /\ acked[p][j].ordinal = 0
                                            /\ acked[p][j].accepted
                                            /\ acked[p][j].metrics = s.base
                    /\ s.accepted <=> EvaluateExisting(st[p].gate, s.base, s.metrics)
                    /\ s.accepted => Good(st[p].gate, s.base, s.metrics)

\* In a plan that may be executed no base argument and no parameter's name, spelled
\* as in the tables, takes over where the result goes or switches profiling on:
\* whatever output option this adapter put into argv is reserved there or refused
\* before.  Other spellings of an option and options among the values of a parameter
\* are not looked at by the code, and excepted.  (adapters, campaign.py _validate_base_args)
CommandWritesItsResult ==
    \A p \in Campaigns : st[p].pc = "planned" =>
        LET argv == BuildCommand(st[p].config)
            outputs == {t.option : t \in {u \in argv : u.by = "plan"}} \cap ManagedOutput
        IN  /\ outputs # {}
            /\ \A t \in argv : t.exact /\ t.by # "value" =>
                   /\ ~ProfileControl(t.option)
                   /\ t.option \in outputs => t.by = "plan"

\* A campaign ends, whoever else dies with the lock in hand.
CampaignEnds == \A p \in Campaigns : <>(st[p].pc \in Ended)
=============================================================================
