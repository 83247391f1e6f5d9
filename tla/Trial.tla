-------------------------------- MODULE Trial --------------------------------
(***************************************************************************)
(* One trial of a change: the worktrees it runs in (workspace.py), the       *)
(* evaluation of a worktree point by point (evaluator.py), and the verdict    *)
(* over the workload suite (runner.py), under the evaluation part of a        *)
(* configuration (config.py).  The commands are external: any of them may     *)
(* fail, and a benchmark may leave any metrics, or none.                      *)
(*                                                                            *)
(* Metric values are integers, thresholds and tolerances percentages.  The    *)
(* median of an even number of values need not be an integer, so an objective *)
(* is kept as twice its value.                                                *)
(***************************************************************************)
EXTENDS Integers, FiniteSets, Sequences, SequencesExt, FiniteSetsExt

CONSTANTS
    Points,      \* the points a workload suite may have
    Documents,   \* the evaluation parts of configurations a run may be given
    Values,      \* what a benchmark may measure
    Patches,     \* the changes a planner may propose
    None,        \* no value
    Garbage      \* a metrics file that does not give the objective

Stabilities == [warmup : Int, min : Int, max : Int, stable : Int, tolerance : Int]

\* What the parser has made sure of, value by value, before it looks at the whole.
DocumentTypes ==
    [mode : {"managed", "unmanaged", "validate"}, schema : {2, 3}, suite : Seq(Points),
     fast : Seq(Points) \cup {None}, primary : Seq(Points), requireAll : BOOLEAN,
     direction : STRING, improvement : Int, regression : Int, noise : Int,
     stability : Stabilities \cup {None}, accuracy : BOOLEAN,
     baselines : [Points -> Int \cup {None}]]

ASSUME ValuesAssumption == Values \subseteq Int
ASSUME NoneAssumption == None \notin Int /\ None \notin {"accepted", "rejected", "failed", "passed"}
ASSUME DocumentsAssumption == Documents \subseteq DocumentTypes

VARIABLES
    cfg,       \* the configuration of the run
    pc,        \* what happens next
    side,      \* whose worktree is evaluated
    tree,      \* per side: what its worktree holds
    file,      \* per side: its metrics files, by path
    checked,   \* the worktrees that passed the correctness commands, as they were
    at,        \* the evaluation of one point, in progress
    results,   \* per side: the results of the points evaluated so far
    verdict    \* the status of the trial

vars == <<cfg, pc, side, tree, file, checked, at, results, verdict>>

Sides == {"baseline", "candidate"}

(***************************************************************************)
(* The configuration.                                                       *)
(***************************************************************************)
NoRepeats(s) == \A i, j \in DOMAIN s : s[i] = s[j] => i = j

\* A document of version 2 has one workload, which becomes a suite of one point.
ValidSuite(d) == d.suite # <<>> /\ NoRepeats(d.suite) /\ (d.schema = 2 => Len(d.suite) = 1)

\* Without a target to measure it, version 3 asks for the baseline of every point.
ValidBaselines(d) ==
    d.mode = "unmanaged" /\ d.schema = 3 => \A p \in Range(d.suite) : d.baselines[p] # None

ValidStability(s) ==
    /\ s.warmup >= 0
    /\ 1 <= s.stable /\ s.stable <= s.min /\ s.min <= s.max
    /\ s.tolerance >= 0

ValidLane(points, suite) ==
    points # <<>> /\ NoRepeats(points) /\ Range(points) \subseteq Range(suite)

\* Qualification covers the whole suite, whatever the fast lane does.
ValidLanes(d) ==
    /\ ValidLane(d.fast, d.suite)
    /\ d.stability # None => ValidStability(d.stability)

ValidPromotion(d) ==
    /\ NoRepeats(d.primary) /\ d.primary # <<>>
    /\ Range(d.primary) \subseteq Range(d.suite)
    /\ d.improvement >= 0 /\ d.regression >= 0 /\ d.noise >= 0

\* Without lanes in the document, as always in version 2, both lanes are the
\* suite and nothing is repeated until it is stable.
LegacyLanes(d) == [d EXCEPT !.fast = d.suite, !.stability = None]

ParseEvaluation(d) == IF d.schema = 2 \/ d.fast = None THEN LegacyLanes(d) ELSE d

Loads(d) ==
    LET c == ParseEvaluation(d)
    IN  /\ ValidSuite(c) /\ ValidBaselines(c)
        /\ c.direction \in {"maximize", "minimize"}
        /\ ValidPromotion(c)
        /\ ValidLanes(c)
        /\ Range(c.primary) \subseteq Range(c.fast)

(***************************************************************************)
(* The suite of one side.  Only a validation runs the qualification lane; a    *)
(* run looks at one lane only, so one stability policy is enough.             *)
(***************************************************************************)
Lane == IF cfg.mode = "validate" THEN cfg.suite ELSE cfg.fast
Gated == side = "candidate"
Point == Lane[at.index]

\* Slip: all points of a suite share one file.
SharedMetricsPath(point) == "base"

MetricsPath(point) == IF Len(Lane) = 1 THEN "base" ELSE point

Values2(point) == results["baseline"][point].objective

\* The baseline of a managed trial is measured, the other comes from the
\* configuration, by point or, in version 2, for the first point.
BaselineValue(point) ==
    IF cfg.mode = "managed" THEN Values2(point)
    ELSE IF cfg.baselines[point] = None THEN None ELSE 2 * cfg.baselines[point]

Minimum(point) ==
    IF ~Gated THEN 0
    ELSE IF point \in Range(cfg.primary)
         THEN Max({0, cfg.improvement - cfg.noise})
         ELSE -(cfg.regression + cfg.noise)

Baseline(point) == IF Gated THEN BaselineValue(point) ELSE None

\* _evaluation_plan, and the objective it makes, refuse to go on without a
\* baseline, or with one of zero that nothing can be relative to.
PlanIsPossible(point) ==
    /\ Gated => Baseline(point) # None
    /\ Baseline(point) = 0 => Minimum(point) = 0

(***************************************************************************)
(* Measurements.                                                            *)
(***************************************************************************)
\* A sample is what a benchmark command left: its value, and where it ran.
Sample(v) == [value |-> v, side |-> side, tree |-> tree[side], point |-> Point]

\* parse_metrics and the required metrics: an object with finite numbers, the
\* objective among them.
Readable(left) == left \notin {None, Garbage}

\* The value of rank k among those of the samples, in ascending order.
Rank(samples, v) == Cardinality({i \in DOMAIN samples : samples[i].value <= v})
Ranked(samples, k) ==
    Min({v \in {samples[i].value : i \in DOMAIN samples} : Rank(samples, v) >= k})

\* Twice the median: the values in the middle, of which an odd number has one.
Median2(samples) ==
    Ranked(samples, (Len(samples) + 1) \div 2) + Ranked(samples, Len(samples) \div 2 + 1)

Magnitude(x) == IF x < 0 THEN -x ELSE x

\* The last stable windows; of all windows only their number counts.
LastWindows(samples, n) == SubSeq(samples, Len(samples) - n + 1, Len(samples))

ValuesStable(samples, tolerance) ==
    LET median == Median2(samples)
    IN  \A i \in DOMAIN samples :
            100 * Magnitude(2 * samples[i].value - median) <= tolerance * Magnitude(median)

(***************************************************************************)
(* The gate of one point.                                                   *)
(***************************************************************************)
\* A hundred times the improvement over the baseline, times its magnitude.
Improvement(objective, baseline) ==
    100 * (IF cfg.direction = "maximize" THEN objective - baseline ELSE baseline - objective)

Gate(point, objective) ==
    LET baseline == Baseline(point)
    IN  \/ baseline \in {None, 0}
        \/ Improvement(objective, baseline) >= Minimum(point) * Magnitude(baseline)

(***************************************************************************)
(* The verdict over a suite.                                                *)
(***************************************************************************)
PointResult(outcome, objective, samples) ==
    [outcome |-> outcome, objective |-> objective, samples |-> samples]

\* Slip: a point that was not reached is not missed.
AggregateReached(rs) ==
    LET outcome == [p \in DOMAIN rs |-> rs[p].outcome]
    IN  IF \E p \in DOMAIN rs : outcome[p] = "failed" /\ p \in Range(cfg.primary) THEN "failed"
        ELSE IF \E p \in DOMAIN rs : outcome[p] = "rejected" THEN "rejected"
        ELSE "passed"

Required ==
    IF ~Gated \/ cfg.requireAll THEN Range(Lane) ELSE Range(cfg.primary)

Aggregate(rs) ==
    LET outcome == [p \in DOMAIN rs |-> rs[p].outcome]
    IN  IF \E p \in Required : p \notin DOMAIN rs \/ outcome[p] = "failed" THEN "failed"
        ELSE IF \E p \in DOMAIN rs : outcome[p] = "rejected" THEN "rejected"
        ELSE "passed"

\* In version 2 the only result stands for the suite.
SuiteOutcome(rs) ==
    IF cfg.schema = 2 /\ Cardinality(DOMAIN rs) = 1
    THEN rs[CHOOSE p \in DOMAIN rs : TRUE].outcome
    ELSE Aggregate(rs)

\* The points of which a suite result gives the objective.
ObjectiveValues(rs) ==
    LET measured == {p \in DOMAIN rs : rs[p].objective # None}
    IN  IF cfg.schema = 2 /\ Cardinality(DOMAIN rs) = 1 /\ measured # {} THEN {cfg.suite[1]}
        ELSE measured

OutcomeStatus(outcome) ==
    CASE outcome = "passed"   -> "accepted"
      [] outcome = "rejected" -> "rejected"
      [] OTHER                -> "failed"

(***************************************************************************)
(* The patch.  A record says of each thing inspected whether it is in order.  *)
(***************************************************************************)
InspectPatch(p) ==
    /\ p.bytes = "within"
    /\ p.text = "utf8"
    /\ p.binary = FALSE
    /\ p.headers # "none"
    /\ p.paths = "safe"
    /\ p.mode = "regular"
    /\ p.files = "within"
    /\ p.lines = "within"

(***************************************************************************)
(* Steps.                                                                   *)
(***************************************************************************)
Unsampled(index) ==
    [index |-> index, phase |-> None, left |-> 0, samples |-> <<>>, objective |-> None]

NotAt == Unsampled(1)

Paths == {"base"} \cup Points

Init ==
    /\ cfg \in {ParseEvaluation(d) : d \in {e \in Documents : Loads(e)}}
    /\ pc = "workspace"
    /\ side = IF cfg.mode = "unmanaged" THEN "candidate" ELSE "baseline"
    /\ tree = [s \in Sides |-> None]
    /\ file = [s \in Sides |-> [path \in Paths |-> None]]
    /\ checked = {}
    /\ at = NotAt
    /\ results = [s \in Sides |-> <<>>]
    /\ verdict = None

\* An exception that ends the trial.
Raise == pc' = "raised" /\ at' = NotAt

\* A detached worktree at the revision; the first one of a trial has no service
\* to wait for here.  Any of the git commands may fail.
CreateWorktree ==
    /\ pc = "workspace"
    /\ \/ /\ tree' = [tree EXCEPT ![side] = "base"]
          /\ pc' = IF side = "candidate" THEN "prepare" ELSE "authorize"
          /\ UNCHANGED at
       \/ Raise /\ UNCHANGED tree
    /\ UNCHANGED <<cfg, side, file, checked, results, verdict>>

\* prepare_patch: the worktree is as git made it; git apply --check has a say.
PreparePatch ==
    /\ pc = "prepare"
    /\ \E p \in Patches, applies \in BOOLEAN :
           pc' = IF InspectPatch(p) /\ ~p.symlink /\ tree[side] = "base" /\ applies
                 THEN "apply" ELSE "refused"
    /\ UNCHANGED <<cfg, side, tree, file, checked, at, results, verdict>>

\* apply_patch: the same checks once more, git apply, and the resulting diff.
ApplyPatch ==
    /\ pc = "apply"
    /\ \/ /\ tree' = [tree EXCEPT ![side] = "patched"]
          /\ pc' = "authorize" /\ UNCHANGED at
       \/ pc' = "refused" /\ UNCHANGED <<tree, at>>
       \/ tree' = [tree EXCEPT ![side] = "patched"] /\ Raise
    /\ UNCHANGED <<cfg, side, file, checked, results, verdict>>

\* A proposal of server arguments alone leaves the worktree as it is.
ArgumentsOnly ==
    /\ pc = "prepare"
    /\ cfg.mode = "managed"
    /\ pc' = "authorize"
    /\ UNCHANGED <<cfg, side, tree, file, checked, at, results, verdict>>

\* The plan of the next point, authorized and executed at once; the checks go
\* with the first point.
Authorize ==
    /\ pc = "authorize"
    /\ IF PlanIsPossible(Point)
       THEN /\ pc' = IF at.index = 1 THEN "preflight" ELSE "benchmark"
            /\ at' = [at EXCEPT !.phase = "start"]
       ELSE Raise
    /\ UNCHANGED <<cfg, side, tree, file, checked, results, verdict>>

\* The result of a point is in: on to the next, or the verdict over the suite.
Breaks(outcome) == outcome = "failed" /\ (at.index = 1 \/ cfg.requireAll)

Finish(outcome, objective) ==
    /\ results' = [results EXCEPT ![side] =
           [p \in DOMAIN @ \cup {Point} |->
               IF p = Point THEN PointResult(outcome, objective, at.samples) ELSE @[p]]]
    /\ IF Breaks(outcome) \/ at.index = Len(Lane)
       THEN pc' = "aggregate" /\ at' = NotAt
       ELSE pc' = "authorize" /\ at' = Unsampled(at.index + 1)

Preflight ==
    /\ pc = "preflight"
    /\ \/ pc' = "correctness" /\ UNCHANGED <<at, results>>
       \/ Finish("failed", None)
    /\ UNCHANGED <<cfg, side, tree, file, checked, verdict>>

Correctness ==
    /\ pc = "correctness"
    /\ \/ pc' = "benchmark" /\ checked' = checked \cup {<<side, tree[side]>>}
          /\ UNCHANGED <<at, results>>
       \/ Finish("failed", None) /\ UNCHANGED checked
    /\ UNCHANGED <<cfg, side, tree, file, verdict>>

\* A benchmark command that exits with zero has written the metrics file, or
\* left the one that was there; nobody removes it before a command.
Measures ==
    \/ \E v \in Values : file' = [file EXCEPT ![side][MetricsPath(Point)] = Sample(v)]
    \/ file' = [file EXCEPT ![side][MetricsPath(Point)] = Garbage]
    \/ UNCHANGED file

\* Warmups first, each with a look at the time.
StartBenchmark ==
    /\ pc = "benchmark"
    /\ at.phase = "start"
    /\ at' = IF cfg.stability = None THEN [at EXCEPT !.phase = "window"]
             ELSE [at EXCEPT !.phase = IF cfg.stability.warmup = 0 THEN "window" ELSE "warmup",
                             !.left = cfg.stability.warmup]
    /\ UNCHANGED <<cfg, pc, side, tree, file, checked, results, verdict>>

Warmup ==
    /\ pc = "benchmark"
    /\ at.phase = "warmup"
    /\ \/ /\ Measures
          /\ \/ /\ at' = [at EXCEPT !.left = @ - 1, !.phase = IF at.left = 1 THEN "window" ELSE @]
                /\ UNCHANGED <<pc, results>>
             \/ Finish("failed", None)
       \/ Finish("failed", None) /\ UNCHANGED file
    /\ UNCHANGED <<cfg, side, tree, checked, verdict>>

\* One window: the command, then its metrics.
Window ==
    /\ pc = "benchmark"
    /\ at.phase = "window"
    /\ \/ Measures /\ at' = [at EXCEPT !.phase = "read"] /\ UNCHANGED <<pc, results>>
       \/ Finish("failed", None) /\ UNCHANGED file
    /\ UNCHANGED <<cfg, side, tree, checked, verdict>>

Measured(samples) ==
    at' = [at EXCEPT !.samples = samples, !.objective = Median2(samples), !.phase = "measured"]

ReadMetrics ==
    /\ pc = "benchmark"
    /\ at.phase = "read"
    /\ LET left == file[side][MetricsPath(Point)]
           samples == Append(at.samples, left)
           stable == \/ cfg.stability = None
                     \/ /\ Len(samples) >= cfg.stability.min
                        /\ ValuesStable(LastWindows(samples, cfg.stability.stable),
                                        cfg.stability.tolerance)
       IN  IF ~Readable(left) THEN Finish("failed", None)
           ELSE IF stable
           THEN Measured(samples) /\ pc' = "judge" /\ UNCHANGED results
           ELSE \/ /\ Len(samples) < cfg.stability.max
                   /\ at' = [at EXCEPT !.samples = samples, !.phase = "window"]
                   /\ UNCHANGED <<pc, results>>
                \/ Finish("failed", None)    \* no more windows, or no more time
    /\ UNCHANGED <<cfg, side, tree, file, checked, verdict>>

\* The external accuracy check runs in a qualification, at its last point.
ChecksAccuracy == cfg.mode = "validate" /\ cfg.accuracy /\ at.index = Len(Lane)

Judged(gate) == Finish(IF gate THEN "passed" ELSE "rejected", at.objective)

Judge ==
    /\ pc = "judge"
    /\ \/ ~ChecksAccuracy /\ Judged(Gate(Point, at.objective)) /\ UNCHANGED checked
       \/ /\ ChecksAccuracy
          /\ \/ /\ Judged(Gate(Point, at.objective))
                /\ checked' = checked \cup {<<side, "accurate">>}
             \/ Judged(FALSE) /\ UNCHANGED checked           \* below its threshold
             \/ Finish("failed", None) /\ UNCHANGED checked  \* the command, or its result
    /\ UNCHANGED <<cfg, side, tree, file, verdict>>

\* The verdict of a side.  The baseline of a managed trial opens the candidate,
\* in a worktree of its own, or ends the run.
Conclude ==
    /\ pc = "aggregate"
    /\ LET rs == results[side]
           outcome == SuiteOutcome(rs)
           established == outcome = "passed" /\ Cardinality(ObjectiveValues(rs)) = Len(cfg.fast)
       IN  IF cfg.mode = "managed" /\ side = "baseline"
           THEN /\ IF established THEN pc' = "workspace" /\ side' = "candidate"
                   ELSE pc' = "raised" /\ UNCHANGED side
                /\ UNCHANGED verdict
           ELSE /\ pc' = "done"
                /\ verdict' = (IF cfg.mode = "validate" THEN outcome ELSE OutcomeStatus(outcome))
                /\ UNCHANGED side
    /\ UNCHANGED <<cfg, tree, file, checked, at, results>>

Next ==
    \/ CreateWorktree \/ PreparePatch \/ ApplyPatch \/ ArgumentsOnly
    \/ Authorize \/ Preflight \/ Correctness
    \/ StartBenchmark \/ Warmup \/ Window \/ ReadMetrics
    \/ Judge \/ Conclude

Spec == Init /\ [][Next]_vars

(***************************************************************************)
(* Properties.                                                              *)
(***************************************************************************)
\* Every objective that counts was measured by commands of its own point, in the
\* worktree of its own side, as that worktree was judged: the baseline in the
\* unchanged one and the candidate in the changed one, however many commands
\* exited with zero and left the metrics file alone.  (runner.py _point_metrics_path,
\* evaluator.py _read_benchmark_metrics)
MeasuredHere ==
    \A s \in Sides : \A p \in DOMAIN results[s] :
        LET r == results[s][p]
        IN  r.objective # None =>
                /\ r.samples # <<>>
                /\ \A i \in DOMAIN r.samples :
                       /\ r.samples[i].side = s /\ r.samples[i].point = p
                       /\ r.samples[i].tree = tree[s]

\* All samples of the windows that count lie within the tolerance of each other.
Steady(samples) ==
    cfg.stability # None =>
        /\ Len(samples) \in cfg.stability.min..cfg.stability.max
        /\ LET last == LastWindows(samples, cfg.stability.stable)
           IN  \A i, j \in DOMAIN last :
                   100 * (last[i].value - last[j].value)
                       <= cfg.stability.tolerance * Magnitude(Median2(last))

\* How much better a candidate is at a point, in percent of the baseline.
AtLeastBetter(p, percent) ==
    LET c == results["candidate"][p].objective
        b == IF cfg.mode = "managed" THEN results["baseline"][p].objective ELSE 2 * cfg.baselines[p]
        better == IF cfg.direction = "maximize" THEN c - b ELSE b - c
    IN  b # 0 => 100 * better >= percent * Magnitude(b)

\* A candidate is accepted only if its own worktree passed the correctness
\* commands as changed, every primary point (every point, if all must be valid)
\* has steady samples, no primary point gains less than the improvement asked
\* for less the noise or loses anything, and no other point that was measured
\* loses more than the allowed regression and the noise; a validation passes only
\* with every point of the suite measured and the accuracy met.
\* (runner.py _evaluation_plan, _execute_workload_suite, _aggregate_suite_result)
VerdictIsEarned ==
    verdict \in {"accepted", "passed"} =>
        LET rs == results[side]
            needed == IF cfg.mode = "validate" THEN Range(cfg.suite)
                      ELSE IF cfg.requireAll THEN Range(cfg.fast) ELSE Range(cfg.primary)
        IN  /\ <<side, tree[side]>> \in checked
            /\ needed \subseteq {p \in DOMAIN rs : rs[p].objective # None}
            /\ \A p \in DOMAIN rs : rs[p].objective # None => Steady(rs[p].samples)
            /\ cfg.mode = "validate" /\ cfg.accuracy => <<side, "accurate">> \in checked
            /\ cfg.mode # "validate" =>
                   \A p \in {q \in DOMAIN rs : rs[q].objective # None} :
                       IF p \in Range(cfg.primary)
                       THEN AtLeastBetter(p, 0) /\ AtLeastBetter(p, cfg.improvement - cfg.noise)
                       ELSE AtLeastBetter(p, -(cfg.regression + cfg.noise))
=============================================================================
