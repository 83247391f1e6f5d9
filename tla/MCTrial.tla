------------------------------- MODULE MCTrial -------------------------------
(***************************************************************************)
(* A trial and the sources it is made of.  The two meet in one place only:   *)
(* a trial begins when the worktrees of its source can be had.  So there are  *)
(* two kinds of behaviours: the sources in full, with one trial that waits   *)
(* for them, and every configuration on sources that went well.              *)
(***************************************************************************)
EXTENDS Trial, Sources

CONSTANTS p, q, r1, r2, commit, tag

\* Configurations that let every threshold, lane and order of points decide.
Plain ==
    [mode |-> "managed", schema |-> 3, suite |-> <<p, q>>, fast |-> <<p, q>>, primary |-> <<q>>,
     requireAll |-> FALSE, direction |-> "maximize", improvement |-> 10, regression |-> 0,
     noise |-> 0, stability |-> None, accuracy |-> FALSE,
     baselines |-> (p :> 10) @@ (q :> None)]

\* Improvement, regression, noise.
Gates == {<<10, 0, 0>>, <<10, 20, 5>>, <<0, 0, 20>>}

Gated2 ==
    {[Plain EXCEPT !.direction = dir, !.primary = primary, !.requireAll = all,
                   !.improvement = g[1], !.regression = g[2], !.noise = g[3]] :
        dir \in {"maximize", "minimize"}, primary \in {<<p>>, <<q>>, <<p, q>>},
        all \in BOOLEAN, g \in Gates}

Unmanaged ==
    {[Plain EXCEPT !.mode = "unmanaged", !.suite = suite, !.fast = None, !.schema = v,
                   !.primary = <<suite[1]>>, !.baselines = b, !.improvement = g[1],
                   !.regression = g[2], !.noise = g[3]] :
        suite \in {<<p>>, <<p, q>>, <<q, p>>}, v \in {2, 3}, g \in Gates,
        b \in {(p :> 10) @@ (q :> 8), (p :> None) @@ (q :> 8), (p :> 0) @@ (q :> 10)}}

Adaptive == [warmup |-> 1, min |-> 2, max |-> 3, stable |-> 2, tolerance |-> 10]

Steadied ==
    {[Plain EXCEPT !.fast = <<q>>, !.stability = Adaptive, !.direction = dir] :
        dir \in {"maximize", "minimize"}}

Validations ==
    {[Plain EXCEPT !.mode = "validate", !.accuracy = a, !.fast = fast, !.stability = s] :
        a \in BOOLEAN, fast \in {<<q>>, None}, s \in {None, [Adaptive EXCEPT !.warmup = 0]}}

Malformed ==
    {[Plain EXCEPT !.fast = <<p>>], [Plain EXCEPT !.noise = -1], [Plain EXCEPT !.primary = <<q, q>>],
     [Plain EXCEPT !.stability = [Adaptive EXCEPT !.stable = 3]], [Plain EXCEPT !.direction = "up"]}

MCPoints == {p, q}

MCDocuments == Gated2 \cup Unmanaged \cup Steadied \cup Validations \cup Malformed

Good ==
    [bytes |-> "within", text |-> "utf8", binary |-> FALSE, headers |-> "git", paths |-> "safe",
     mode |-> "regular", files |-> "within", lines |-> "within", symlink |-> FALSE]

MCPatches == {Good, [Good EXCEPT !.paths = "outside"], [Good EXCEPT !.symlink = TRUE]}

\* Every run has its worktrees, and nothing went wrong.
AllMade == faults = 0 /\ \A r \in Runs : At(r, "done")

Waiting == pc = "workspace" /\ cfg = ParseEvaluation(Plain)

\* What two runs of one commit leave when the second comes last.
WentWell ==
    /\ locked = [r \in Runs |-> commit]
    /\ upstream = [rev \in Revisions |-> IF rev \in Tags THEN "name" ELSE "ref"]
    /\ cache = [s \in Hosts |->
                   [there |-> TRUE, origin |-> IF s = "worker" THEN r2 ELSE "repository",
                    has |-> [rev \in Revisions |-> IF rev = commit THEN "whole" ELSE "absent"]]]
    /\ lock = [s \in Hosts |-> Nil]
    /\ orphans = [s \in Hosts |-> {}]
    /\ st = [r \in Runs |-> [pc |-> "done", side |-> "worker", role |-> Nil, existed |-> FALSE]]
    /\ bundle = [r \in Runs |-> commit]
    /\ made = [r \in Runs |-> [role \in Roles |-> commit]]
    /\ disturbed = [s \in Hosts |-> FALSE]
    /\ faults = 0

BothInit == Init /\ ((SourcesInit /\ Waiting) \/ WentWell)

BothNext ==
    \/ SourcesNext /\ ~AllMade /\ UNCHANGED vars
    \/ Next /\ AllMade /\ UNCHANGED sourcesVars

BothSpec ==
    /\ BothInit /\ [][BothNext]_<<vars, sourcesVars>>
    /\ \A r \in Runs : WF_sourcesVars(Step(r))
=============================================================================
