----------------------------- MODULE Trial_proof -----------------------------
(***************************************************************************)
(* Proofs about Trial: every objective was measured where it says, and a      *)
(* trial is accepted, or passes, only for what was checked, measured and      *)
(* gained in the worktree it is about, for any points, documents, values and  *)
(* patches.                                                                   *)
(***************************************************************************)
EXTENDS Trial, FiniteSetTheorems, WellFoundedInduction, TLAPS

(* The inductive invariant *)

\* What Loads makes sure of.
Loaded ==
    /\ cfg \in DocumentTypes /\ cfg.fast \in Seq(Points)
    /\ cfg.direction \in {"maximize", "minimize"}
    /\ ValidSuite(cfg) /\ ValidPromotion(cfg) /\ ValidLanes(cfg)
    /\ Range(cfg.primary) \subseteq Range(cfg.fast)

\* The samples taken of a point in the worktree of a side, as it now is.
SamplesOf(s, p) == [value : Values, side : {s}, tree : {tree[s]}, point : {p}]

\* Nothing has been measured on a side.
Fresh(s) == DOMAIN results[s] = {} /\ \A p \in Range(Lane) : file[s][MetricsPath(p)] = None

Preparing == {"workspace", "prepare", "apply"}
Checking == {"preflight", "correctness"}
Measuring == {"benchmark", "judge"}
Ended == {"refused", "raised", "aggregate", "done"}

\* The worktree of a side changes before anything is measured in it; the candidate
\* comes after the baseline; the checks are those of the first point.
Places ==
    /\ pc \in Preparing \cup {"authorize"} \cup Checking \cup Measuring \cup Ended
    /\ side \in Sides
    /\ DOMAIN tree = Sides /\ DOMAIN file = Sides /\ DOMAIN results = Sides
    /\ \A s \in Sides : DOMAIN file[s] = Paths
    /\ cfg.mode = "validate" => side = "baseline"
    /\ cfg.mode = "unmanaged" => side = "candidate"
    /\ pc \in Preparing => Fresh(side)
    /\ side = "baseline" => Fresh("candidate")
    /\ pc \in Preparing \cup Ended => at = NotAt
    /\ pc \in Checking => at.index = 1
    /\ pc # "done" => verdict = None

\* A metrics file holds what a command of its point has left there, if anything,
\* and the samples of a point are its own.
Filed ==
    \A s \in Sides, p \in Range(Lane) :
        file[s][MetricsPath(p)] \in {None, Garbage} \cup SamplesOf(s, p)
Progress(S) ==
    [index : 1..Len(Lane), phase : {None, "start", "warmup", "window", "read", "measured"},
     left : Int, samples : Seq(S), objective : Int \cup {None}]
Sampled == at \in Progress(SamplesOf(side, Point))

\* Measurements are made in a worktree that passed the checks, against a baseline
\* that is known, in no more windows than allowed, and judged when they are steady.
Measurable ==
    /\ pc \in Measuring \/ at.index > 1 => <<side, tree[side]>> \in checked
    /\ pc \notin Measuring => at.samples = <<>>
    /\ pc \in Checking \cup Measuring /\ Gated => BaselineValue(Point) \in Int
    /\ pc = "benchmark" /\ cfg.stability # None => Len(at.samples) < cfg.stability.max
    /\ pc = "judge" => at.objective \in Int /\ at.samples # <<>> /\ Steady(at.samples)

\* What the result of a point says.
Judgement(s, p, r) ==
    /\ r.outcome \in {"passed", "rejected"} /\ r.objective \in Int
    /\ r.samples \in Seq(SamplesOf(s, p)) /\ r.samples # <<>> /\ Steady(r.samples)
    /\ <<s, tree[s]>> \in checked
    /\ r.outcome = "passed" =>
         /\ s = "candidate" => BaselineValue(p) \in Int /\ Gate(p, r.objective)
         /\ cfg.mode = "validate" /\ cfg.accuracy /\ p = Lane[Len(Lane)] =>
                <<s, "accurate">> \in checked
Failure(r) == r.outcome = "failed" /\ r.objective = None
Resulting ==
    \A s \in Sides : \A p \in DOMAIN results[s] :
        Failure(results[s][p]) \/ Judgement(s, p, results[s][p])

\* Points are evaluated in order; the suite ends with the last, or with a failure.
Whole(s) ==
    /\ DOMAIN results[s] \subseteq Range(Lane)
    /\ \/ DOMAIN results[s] = Range(Lane)
       \/ \E p \in DOMAIN results[s] : results[s][p].outcome = "failed"
Reached ==
    /\ pc \in {"authorize"} \cup Checking \cup Measuring =>
           DOMAIN results[side] = {Lane[i] : i \in 1..(at.index - 1)}
    /\ pc \in {"aggregate", "done"} => Whole(side)
    /\ cfg.mode = "managed" /\ side = "candidate" =>
           \A p \in Range(Lane) : p \in DOMAIN results["baseline"] /\ BaselineValue(p) \in Int

Concluded ==
    verdict \in {"accepted", "passed"} =>
        /\ pc = "done" /\ SuiteOutcome(results[side]) = "passed"
        /\ cfg.mode # "validate" => side = "candidate"

IInv ==
    /\ Loaded /\ Places /\ Filed /\ Sampled /\ Measurable /\ Resulting /\ Reached /\ Concluded
(* Medians *)

\* Natural numbers are well-founded.
LEMMA Least ==
  ASSUME NEW T \in SUBSET Nat, T # {}
  PROVE  \E x \in T : \A y \in T : x <= y
<1> DEFINE R == OpToRel(<, Nat)
<1>1. PICK x \in T : \A y \in T : <<y, x>> \notin R
  <2>1. IsWellFoundedOn(R, Nat)
    BY NatLessThanWellFounded
  <2> HIDE DEF R
  <2> QED
    BY <2>1, WFMin
<1>2. \A y \in T : y \in Nat /\ x \in Nat /\ ~(y < x)
  BY <1>1 DEF OpToRel
<1>3. \A y \in T : x <= y
  BY <1>2
<1> QED
  BY <1>1, <1>3

\* So a function on the naturals takes its least value, and one that is bounded its
\* greatest.
LEMMA LeastAt ==
  ASSUME NEW D, D # {}, NEW c \in [D -> Nat]
  PROVE  \E i \in D : \A j \in D : c[i] <= c[j]
<1> DEFINE T == {c[i] : i \in D}
<1>1. PICK x \in T : \A y \in T : x <= y
  <2>1. T \in SUBSET Nat /\ T # {}
    OBVIOUS
  <2> HIDE DEF T
  <2> QED
    BY <2>1, Least
<1> QED
  BY <1>1

LEMMA GreatestAt ==
  ASSUME NEW D, D # {}, NEW n \in Nat, NEW c \in [D -> 0..n]
  PROVE  \E i \in D : \A j \in D : c[j] <= c[i]
<1> DEFINE d == [i \in D |-> n - c[i]]
<1>1. \A i \in D : c[i] \in 0..n /\ d[i] = n - c[i]
  OBVIOUS
<1>2. d \in [D -> Nat]
  BY <1>1
<1> HIDE DEF d
<1>3. PICK i \in D : \A j \in D : d[i] <= d[j]
  BY <1>2, LeastAt
<1> QED
  BY <1>1, <1>3

\* The rank of a value is bounded by the number of samples and grows with the value.
LEMMA RankIsBounded ==
  ASSUME NEW n \in Nat \ {0}, NEW samples, DOMAIN samples = 1..n, NEW v
  PROVE  /\ Rank(samples, v) \in 0..n
         /\ (\A i \in 1..n : samples[i].value <= v) => Rank(samples, v) = n
<1>1. IsFiniteSet(1..n) /\ Cardinality(1..n) = n
  BY FS_Interval
<1> DEFINE S == {i \in 1..n : samples[i].value <= v}
<1>2. S \in SUBSET (1..n) /\ ((\A i \in 1..n : samples[i].value <= v) => S = 1..n)
  OBVIOUS
<1>3. Rank(samples, v) = Cardinality(S)
  BY DEF Rank
<1> HIDE DEF S
<1>4. IsFiniteSet(S) /\ Cardinality(S) <= n
  <2>1. IsFiniteSet(S) /\ Cardinality(S) <= Cardinality(1..n)
    BY <1>1, <1>2, FS_Subset, Zenon
  <2> QED
    BY <1>1, <2>1
<1>5. Cardinality(S) \in Nat
  BY <1>4, FS_CardinalityType
<1> QED
  BY <1>1, <1>2, <1>3, <1>4, <1>5

LEMMA RankGrows ==
  ASSUME NEW n \in Nat \ {0}, NEW samples, DOMAIN samples = 1..n,
         \A i \in 1..n : samples[i].value \in Int,
         NEW i \in 1..n, NEW j \in 1..n, samples[i].value < samples[j].value
  PROVE  Rank(samples, samples[i].value) < Rank(samples, samples[j].value)
<1> DEFINE S == {x \in 1..n : samples[x].value <= samples[i].value}
           T == {x \in 1..n : samples[x].value <= samples[j].value}
<1>1. S \in SUBSET T /\ T \in SUBSET (1..n) /\ j \in T /\ j \notin S
  OBVIOUS
<1>2. Rank(samples, samples[i].value) = Cardinality(S)
  BY DEF Rank
<1>3. Rank(samples, samples[j].value) = Cardinality(T)
  BY DEF Rank
<1> HIDE DEF S, T
<1>4. IsFiniteSet(T)
  <2>1. IsFiniteSet(1..n)
    BY FS_Interval
  <2> QED
    BY <1>1, <2>1, FS_Subset, Zenon
<1>5. Cardinality(S) <= Cardinality(T) /\ Cardinality(S) # Cardinality(T)
  BY <1>1, <1>4, FS_Subset
<1>6. Cardinality(S) \in Int /\ Cardinality(T) \in Int
  BY <1>2, <1>3, RankIsBounded
<1> QED
  BY <1>2, <1>3, <1>5, <1>6

\* Samples have a value of each rank.
LEMMA RankedIsInt ==
  ASSUME NEW n \in Nat \ {0}, NEW samples, DOMAIN samples = 1..n,
         \A i \in 1..n : samples[i].value \in Int,
         NEW k \in 1..n
  PROVE  Ranked(samples, k) \in Int
<1> DEFINE c == [i \in 1..n |-> Rank(samples, samples[i].value)]
           D == {i \in 1..n : c[i] >= k}
           V == {v \in {samples[i].value : i \in DOMAIN samples} : Rank(samples, v) >= k}
<1>1. c \in [1..n -> 0..n]
  BY RankIsBounded
<1>2. \A i \in 1..n : c[i] = Rank(samples, samples[i].value)
  OBVIOUS
<1> HIDE DEF c
<1>3. \A i, j \in 1..n : samples[i].value < samples[j].value => c[i] < c[j]
  BY <1>2, RankGrows
<1>4. D # {}
  <2>1. PICK i \in 1..n : \A j \in 1..n : c[j] <= c[i]
    BY <1>1, GreatestAt
  <2>2. \A j \in 1..n : samples[j].value <= samples[i].value
    <3>1. \A j \in 1..n : ~(samples[i].value < samples[j].value)
      BY <1>1, <1>3, <2>1
    <3> QED
      BY <3>1
  <2>3. c[i] = n
    BY <1>2, <2>2, RankIsBounded
  <2> QED
    BY <2>3
<1>5. PICK i \in D : \A j \in D : c[i] <= c[j]
  <2>1. [j \in D |-> c[j]] \in [D -> Nat]
    BY <1>1
  <2> HIDE DEF D
  <2>2. PICK i \in D : \A j \in D : [x \in D |-> c[x]][i] <= [x \in D |-> c[x]][j]
    BY <1>4, <2>1, LeastAt
  <2> QED
    BY <2>2
<1>6. samples[i].value \in V
  BY <1>2, <1>5
<1>7. \A v \in V : v \in Int /\ samples[i].value <= v
  <2> TAKE v \in V
  <2>1. PICK j \in 1..n : v = samples[j].value /\ Rank(samples, samples[j].value) >= k
    OBVIOUS
  <2>2. c[i] <= c[j] /\ c[i] \in Int /\ c[j] \in Int
    BY <1>1, <1>2, <1>5, <2>1
  <2>3. ~(samples[j].value < samples[i].value)
    BY <1>3, <1>5, <2>2
  <2> QED
    BY <1>5, <2>1, <2>3
<1>8. Ranked(samples, k) = CHOOSE x \in V : \A y \in V : x <= y
  BY DEF Ranked, Min
<1> HIDE DEF V
<1> QED
  BY <1>6, <1>7, <1>8

\* So they have a median.
LEMMA MedianIsInt ==
  ASSUME NEW n \in Nat \ {0}, NEW samples, DOMAIN samples = 1..n, Len(samples) = n,
         \A i \in 1..n : samples[i].value \in Int
  PROVE  Median2(samples) \in Int
<1>1. (n + 1) \div 2 \in 1..n /\ n \div 2 + 1 \in 1..n
  OBVIOUS
<1>2. Ranked(samples, (n + 1) \div 2) \in Int /\ Ranked(samples, n \div 2 + 1) \in Int
  BY <1>1, RankedIsInt
<1> QED
  BY <1>2 DEF Median2

-----------------------------------------------------------------------------
(* Lanes, files and windows *)

\* What a loaded configuration makes of the lane.
LEMMA LaneFacts ==
  ASSUME Loaded
  PROVE  /\ Lane \in Seq(Points) /\ Len(Lane) \in Nat \ {0} /\ DOMAIN Lane = 1..Len(Lane)
         /\ \A i, j \in 1..Len(Lane) : Lane[i] = Lane[j] => i = j
         /\ Range(Lane) \subseteq Points /\ \A i \in 1..Len(Lane) : Lane[i] \in Range(Lane)
         /\ \A p \in Range(Lane) : \E i \in 1..Len(Lane) : p = Lane[i]
         /\ Range(cfg.primary) \subseteq Range(Lane) /\ Range(cfg.primary) # {}
         /\ cfg.schema = 2 /\ cfg.mode = "validate" => Len(Lane) = 1
<1>1. /\ cfg.suite \in Seq(Points) /\ cfg.fast \in Seq(Points) /\ cfg.primary \in Seq(Points)
      /\ cfg.suite # <<>> /\ cfg.fast # <<>> /\ cfg.primary # <<>>
      /\ NoRepeats(cfg.suite) /\ NoRepeats(cfg.fast)
      /\ Range(cfg.fast) \subseteq Range(cfg.suite) /\ Range(cfg.primary) \subseteq Range(cfg.fast)
      /\ cfg.schema = 2 => Len(cfg.suite) = 1
  BY DEF Loaded, DocumentTypes, ValidSuite, ValidLanes, ValidLane, ValidPromotion
<1>2. /\ Lane \in Seq(Points) /\ Lane # <<>> /\ NoRepeats(Lane)
      /\ Range(cfg.primary) \subseteq Range(Lane)
      /\ cfg.schema = 2 /\ cfg.mode = "validate" => Len(Lane) = 1
  BY <1>1 DEF Lane
<1>3. Range(cfg.primary) # {}
  <2>1. 1 \in DOMAIN cfg.primary
    BY <1>1
  <2> QED
    BY <2>1 DEF Range
<1>4. Len(Lane) \in Nat \ {0} /\ DOMAIN Lane = 1..Len(Lane)
  BY <1>2
<1>5. /\ Range(Lane) \subseteq Points /\ \A i \in 1..Len(Lane) : Lane[i] \in Range(Lane)
      /\ \A p \in Range(Lane) : \E i \in 1..Len(Lane) : p = Lane[i]
  BY <1>2, <1>4 DEF Range
<1> QED
  BY <1>2, <1>3, <1>4, <1>5 DEF NoRepeats

\* Points have metrics files of their own.
LEMMA PathsDiffer ==
  ASSUME Loaded, NEW p \in Range(Lane), NEW q \in Range(Lane)
  PROVE  /\ MetricsPath(p) \in Paths
         /\ MetricsPath(p) = MetricsPath(q) => p = q
<1>1. Len(Lane) = 1 => p = Lane[1] /\ q = Lane[1]
  BY LaneFacts
<1>2. p \in Points
  BY LaneFacts
<1> QED
  BY <1>1, <1>2 DEF MetricsPath, Paths

\* Two values near a third are near each other.
LEMMA Apart ==
  ASSUME NEW a \in Int, NEW b \in Int, NEW m \in Int, NEW T \in Int,
         100 * Magnitude(2 * a - m) <= T, 100 * Magnitude(2 * b - m) <= T
  PROVE  100 * (a - b) <= T
<1>1. 100 * (2 * a - m) <= T
  BY DEF Magnitude
<1>2. -(100 * (2 * b - m)) <= T
  BY DEF Magnitude
<1> QED
  BY <1>1, <1>2

\* Values that are within the tolerance of their median are so of each other.
LEMMA StableIsSteady ==
  ASSUME Loaded, cfg.stability # None,
         NEW S, \A x \in S : x.value \in Int, NEW samples \in Seq(S),
         Len(samples) >= cfg.stability.min, Len(samples) <= cfg.stability.max,
         ValuesStable(LastWindows(samples, cfg.stability.stable), cfg.stability.tolerance)
  PROVE  Steady(samples)
<1> DEFINE n == cfg.stability.stable
           last == LastWindows(samples, n)
           m == Median2(last)
           t == cfg.stability.tolerance
<1>1. /\ n \in Int /\ cfg.stability.min \in Int /\ cfg.stability.max \in Int /\ t \in Int
      /\ 1 <= n /\ n <= cfg.stability.min
  BY DEF Loaded, DocumentTypes, Stabilities, ValidLanes, ValidStability
<1>2. Len(samples) \in Nat /\ Len(samples) - n + 1 \in 1..Len(samples)
  BY <1>1
<1>3. last \in Seq(S) /\ Len(last) = n
  BY <1>1, <1>2 DEF LastWindows
<1> HIDE DEF last, n
<1>4. DOMAIN last = 1..n /\ n \in Nat \ {0} /\ \A i \in 1..n : last[i].value \in Int
  BY <1>1, <1>3
<1>5. m \in Int
  BY <1>3, <1>4, MedianIsInt
<1>6. \A i \in 1..n : 100 * Magnitude(2 * last[i].value - m) <= t * Magnitude(m)
  BY <1>4 DEF ValuesStable, last, n
<1>7. \A i, j \in 1..n : 100 * (last[i].value - last[j].value) <= t * Magnitude(m)
  <2> HIDE DEF m, t
  <2>1. Magnitude(m) \in Int /\ t * Magnitude(m) \in Int
    BY <1>1, <1>5 DEF Magnitude, t
  <2> DEFINE T == t * Magnitude(m)
  <2> HIDE DEF T
  <2> TAKE i, j \in 1..n
  <2>2. /\ 100 * Magnitude(2 * last[i].value - m) <= T
        /\ 100 * Magnitude(2 * last[j].value - m) <= T
        /\ T \in Int /\ last[i].value \in Int /\ last[j].value \in Int
    BY <1>4, <1>6, <2>1 DEF T
  <2>5. 100 * (last[i].value - last[j].value) <= T
    BY <1>5, <2>2, Apart
  <2> QED
    BY <2>5 DEF T
<1>8. Len(samples) \in cfg.stability.min..cfg.stability.max
  BY <1>1, <1>2
<1> QED
  BY <1>4, <1>7, <1>8 DEF Steady, last, n, m, t

-----------------------------------------------------------------------------
(* What steps leave alone *)

\* The configuration of a trial never changes, nor does what follows from it.
LEMMA Configured ==
  ASSUME cfg' = cfg
  PROVE  /\ Lane' = Lane /\ (Loaded => Loaded') /\ \A p : MetricsPath(p)' = MetricsPath(p)
<1>1. Lane' = Lane
  BY DEF Lane
<1>2. \A p : MetricsPath(p)' = MetricsPath(p)
  BY <1>1 DEF MetricsPath
<1>3. ValidSuite(cfg)' = ValidSuite(cfg)
  BY DEF ValidSuite
<1>4. ValidPromotion(cfg)' = ValidPromotion(cfg) /\ ValidLanes(cfg)' = ValidLanes(cfg)
  BY DEF ValidPromotion, ValidLanes
<1> QED
  BY <1>1, <1>2, <1>3, <1>4 DEF Loaded

\* Files keep their samples while nothing is written and the worktrees they are of
\* do not change.
LEMMA FilesStay ==
  ASSUME IInv, UNCHANGED <<cfg, file>>, \A s \in Sides : tree'[s] = tree[s] \/ Fresh(s)
  PROVE  Filed'
<1>1. Lane' = Lane /\ \A p : MetricsPath(p)' = MetricsPath(p)
  BY Configured
<1> SUFFICES ASSUME NEW s \in Sides, NEW p \in Range(Lane)
             PROVE  file[s][MetricsPath(p)] \in {None, Garbage} \cup SamplesOf(s, p)'
  BY <1>1 DEF Filed
<1>2. CASE tree'[s] = tree[s]
  BY <1>2 DEF IInv, Filed, SamplesOf
<1>3. CASE Fresh(s)
  BY <1>3 DEF Fresh
<1> QED
  BY <1>2, <1>3

\* Steady samples stay so.
LEMMA SteadyStays ==
  ASSUME cfg' = cfg, NEW samples
  PROVE  Steady(samples)' = Steady(samples)
BY DEF Steady, LastWindows

\* A judgement stays while what it is about does.
LEMMA JudgementStays ==
  ASSUME NEW s \in Sides, NEW p, NEW r, Judgement(s, p, r), cfg' = cfg, tree'[s] = tree[s],
         checked \subseteq checked',
         s = "candidate" => side' = side /\ (results["baseline"])' = results["baseline"]
  PROVE  Judgement(s, p, r)'
<1>1. Lane' = Lane
  BY Configured
<1>2. SamplesOf(s, p)' = SamplesOf(s, p) /\ (Steady(r.samples))' = Steady(r.samples)
  BY SteadyStays DEF SamplesOf
<1>3. s = "candidate" => /\ BaselineValue(p)' = BaselineValue(p)
                         /\ Gate(p, r.objective)' = Gate(p, r.objective)
  BY DEF BaselineValue, Values2, Gate, Baseline, Gated, Minimum, Improvement
<1> QED
  BY <1>1, <1>2, <1>3 DEF Judgement

\* So do the results.
LEMMA ResultsStay ==
  ASSUME IInv, UNCHANGED <<cfg, results>>, checked \subseteq checked',
         \A s \in Sides : tree'[s] = tree[s] \/ DOMAIN results[s] = {},
         side' = side \/ DOMAIN results["candidate"] = {}
  PROVE  Resulting'
<1> SUFFICES ASSUME NEW s \in Sides, NEW p \in DOMAIN results[s]
             PROVE  Failure(results[s][p]) \/ Judgement(s, p, results[s][p])'
  BY DEF Resulting, Failure
<1>1. Failure(results[s][p]) \/ Judgement(s, p, results[s][p])
  BY DEF IInv, Resulting
<1>2. tree'[s] = tree[s]
  OBVIOUS
<1>3. s = "candidate" => side' = side /\ (results["baseline"])' = results["baseline"]
  OBVIOUS
<1> QED
  BY <1>1, <1>2, <1>3, JudgementStays

\* Between points nothing has been sampled.
LEMMA NothingSampled ==
  ASSUME Loaded, NEW i \in 1..Len(Lane), at' = Unsampled(i), cfg' = cfg
  PROVE  Sampled'
<1>1. Lane' = Lane
  BY Configured
<1>2. at' = [index |-> i, phase |-> None, left |-> 0, samples |-> <<>>, objective |-> None]
  BY DEF Unsampled
<1>3. \A S : <<>> \in Seq(S)
  OBVIOUS
<1> QED
  BY <1>1, <1>2, <1>3 DEF Sampled, Progress

\* A trial that ends early leaves everything as it is, except perhaps a worktree in
\* which nothing was measured.
LEMMA StopKeeps ==
  ASSUME IInv, pc # "done", pc' \in {"raised", "refused"}, at' = NotAt,
         UNCHANGED <<cfg, side, file, checked, results, verdict>>,
         DOMAIN tree' = Sides, \A s \in Sides : tree'[s] = tree[s] \/ Fresh(s)
  PROVE  IInv'
<1>1. Loaded' /\ Lane' = Lane /\ Loaded /\ \A p : MetricsPath(p)' = MetricsPath(p)
  BY Configured DEF IInv
<1>2. Filed'
  BY FilesStay
<1>3. Resulting'
  BY ResultsStay DEF Fresh
<1>4. Sampled'
  <2>1. 1 \in 1..Len(Lane) /\ at' = Unsampled(1)
    BY <1>1, LaneFacts DEF NotAt
  <2> QED
    BY <1>1, <2>1, NothingSampled
<1>5. Places'
  BY <1>1 DEF IInv, Places, Fresh, Preparing, Checking, Measuring, Ended
<1>6. Measurable'
  BY DEF Measurable, Checking, Measuring, NotAt, Unsampled
<1>7. Reached'
  BY <1>1 DEF IInv, Reached, Checking, Measuring, BaselineValue, Values2
<1>8. Concluded'
  BY NoneAssumption DEF IInv, Places, Concluded
<1> QED
  BY <1>1, <1>2, <1>3, <1>4, <1>5, <1>6, <1>7, <1>8 DEF IInv

-----------------------------------------------------------------------------
(* The end of a point *)

\* The points a suite has reached, one more of them.
LEMMA OneMore ==
  ASSUME NEW f, NEW n \in Nat \ {0}
  PROVE  {f[i] : i \in 1..(n - 1)} \cup {f[n]} = {f[i] : i \in 1..n}
<1>1. 1..n = 1..(n - 1) \cup {n}
  OBVIOUS
<1> QED
  BY <1>1

\* The points evaluated, and their results, when that of one more is in.
LEMMA FinishResults ==
  ASSUME IInv, NEW outcome, NEW objective, Finish(outcome, objective),
         pc \in Checking \cup Measuring
  PROVE  /\ DOMAIN results' = Sides /\ \A s \in Sides \ {side} : results'[s] = results[s]
         /\ DOMAIN results'[side] = {Lane[i] : i \in 1..at.index}
         /\ DOMAIN results'[side] \subseteq Range(Lane)
         /\ results'[side][Point] = PointResult(outcome, objective, at.samples)
         /\ \A p \in DOMAIN results'[side] :
                p # Point => p \in DOMAIN results[side] /\ results'[side][p] = results[side][p]
<1> DEFINE r == PointResult(outcome, objective, at.samples)
           rs == [p \in DOMAIN results[side] \cup {Point} |->
                      IF p = Point THEN r ELSE results[side][p]]
<1>1. results' = [results EXCEPT ![side] = rs]
  BY DEF Finish
<1>2. DOMAIN results = Sides /\ side \in Sides
  BY DEF IInv, Places
<1>3. DOMAIN results[side] = {Lane[i] : i \in 1..(at.index - 1)} /\ at.index \in Nat \ {0}
  BY LaneFacts DEF IInv, Reached, Sampled, Progress
<1>4. DOMAIN rs = {Lane[i] : i \in 1..at.index}
  BY <1>3, OneMore DEF Point
<1>6. \A i \in 1..at.index : Lane[i] \in Range(Lane)
  BY LaneFacts DEF IInv, Sampled, Progress
<1>7. DOMAIN rs \subseteq Range(Lane)
  <2> HIDE DEF rs
  <2> QED
    BY <1>4, <1>6
<1> HIDE DEF r
<1>5. /\ DOMAIN results' = Sides /\ \A s \in Sides \ {side} : results'[s] = results[s]
      /\ results'[side] = rs
  BY <1>1, <1>2
<1> QED
  BY <1>4, <1>5, <1>7 DEF r

\* The invariant when the result of a point is in.
LEMMA FinishKeeps ==
  ASSUME IInv, NEW outcome, NEW objective, Finish(outcome, objective),
         pc \in Checking \cup Measuring, pc \in Checking => outcome = "failed",
         checked \subseteq checked', UNCHANGED <<cfg, side, tree, verdict>>,
         Filed', DOMAIN file' = Sides, \A s \in Sides : DOMAIN file'[s] = Paths,
         side = "baseline" => file'["candidate"] = file["candidate"],
         NEW p, NEW r, p = Point, r = PointResult(outcome, objective, at.samples),
         Failure(r) \/ Judgement(side, p, r)'
  PROVE  IInv'
<1>1. Loaded' /\ Lane' = Lane /\ Loaded /\ \A q : MetricsPath(q)' = MetricsPath(q)
  BY Configured DEF IInv
<1>2. /\ side \in Sides /\ DOMAIN results = Sides /\ DOMAIN tree = Sides /\ verdict = None
      /\ side = "baseline" => Fresh("candidate")
      /\ pc \in Checking => at.index = 1
      /\ cfg.mode = "validate" => side = "baseline"
      /\ cfg.mode = "unmanaged" => side = "candidate"
  BY DEF IInv, Places, Checking, Measuring
<1>3. at.index \in 1..Len(Lane) /\ Len(Lane) \in Nat \ {0}
  BY <1>1, LaneFacts DEF IInv, Sampled, Progress
<1>4. /\ DOMAIN results' = Sides /\ \A s \in Sides \ {side} : results'[s] = results[s]
      /\ DOMAIN results'[side] = {Lane[i] : i \in 1..at.index}
      /\ DOMAIN results'[side] \subseteq Range(Lane)
      /\ results'[side][p] = r
      /\ \A q \in DOMAIN results'[side] :
             q # p => q \in DOMAIN results[side] /\ results'[side][q] = results[side][q]
  BY FinishResults
<1>5. \/ /\ outcome = "failed" \/ at.index = Len(Lane)
         /\ pc' = "aggregate" /\ at' = NotAt
      \/ /\ at.index < Len(Lane) /\ pc \in Measuring
         /\ pc' = "authorize" /\ at' = Unsampled(at.index + 1)
  BY <1>2, <1>3 DEF Finish, Breaks
<1>6. at'.index \in 1..Len(Lane) /\ at' = Unsampled(at'.index)
  BY <1>3, <1>5 DEF NotAt, Unsampled
<1>7. Sampled'
  BY <1>1, <1>6, NothingSampled
<1>8. Places'
  BY <1>1, <1>2, <1>4, <1>5 DEF Places, Fresh, Preparing, Checking, Measuring, Ended, Sides
<1>9. Measurable'
  <2>1. pc \in Measuring => <<side, tree[side]>> \in checked
    BY DEF IInv, Measurable
  <2> QED
    BY <1>5, <2>1 DEF Measurable, Checking, Measuring, NotAt, Unsampled
<1>10. Resulting'
  <2> SUFFICES ASSUME NEW s \in Sides, NEW q \in DOMAIN results'[s],
                      NEW x, x = results'[s][q]
               PROVE  Failure(x) \/ Judgement(s, q, x)'
    BY DEF Resulting, Failure
  <2>1. CASE s = side /\ q = p
    BY <2>1, <1>4
  <2>2. CASE ~(s = side /\ q = p)
    <3>1. q \in DOMAIN results[s] /\ x = results[s][q]
      BY <2>2, <1>4
    <3>2. Failure(x) \/ Judgement(s, q, x)
      BY <3>1 DEF IInv, Resulting
    <3>3. s = "candidate" => side' = side /\ (results["baseline"])' = results["baseline"]
      BY <1>2, <1>4, <3>1 DEF Fresh, Sides
    <3> QED
      BY <3>1, <3>2, <3>3, JudgementStays
  <2> QED
    BY <2>1, <2>2
<1>11. Reached'
  <2>1. pc' = "authorize" => DOMAIN results'[side] = {Lane[i] : i \in 1..(at'.index - 1)}
    <3>1. CASE pc' = "authorize"
      <4>1. at'.index - 1 = at.index
        BY <1>3, <1>5, <3>1 DEF NotAt, Unsampled
      <4> QED
        BY <1>4, <4>1
    <3> QED
      BY <3>1
  <2>2. pc' = "aggregate" => Whole(side)'
    <3>1. p \in DOMAIN results'[side] /\ Range(Lane) = {Lane[i] : i \in 1..Len(Lane)}
      <4>1. Range(Lane) = {Lane[i] : i \in 1..Len(Lane)}
        BY <1>1, LaneFacts DEF Range
      <4> QED
        BY <1>3, <1>4, <4>1 DEF Point
    <3>4. DOMAIN results'[side] \subseteq Range(Lane)
      BY <1>4
    <3>2. CASE outcome = "failed"
      <4>1. p \in DOMAIN results'[side] /\ results'[side][p].outcome = "failed"
        BY <1>4, <3>1, <3>2 DEF PointResult
      <4> QED
        BY <1>1, <3>4, <4>1 DEF Whole
    <3>3. CASE at.index = Len(Lane)
      BY <1>1, <1>4, <3>1, <3>3, <3>4 DEF Whole
    <3> QED
      BY <1>5, <3>2, <3>3
  <2>3. (cfg.mode = "managed" /\ side = "candidate") =>
            \A q \in Range(Lane) : q \in DOMAIN results'["baseline"] /\ BaselineValue(q)' \in Int
    BY <1>4 DEF IInv, Reached, BaselineValue, Values2, Sides
  <2> QED
    BY <1>1, <1>5, <2>1, <2>2, <2>3 DEF Reached, Checking, Measuring
<1>12. Concluded'
  <2>1. verdict' = None
    BY <1>2
  <2> QED
    BY <2>1, NoneAssumption DEF Concluded
<1> QED
  BY <1>1, <1>7, <1>8, <1>9, <1>10, <1>11, <1>12 DEF IInv
-----------------------------------------------------------------------------
(* The steps *)

\* Until the worktree of a side is ready nothing is measured in it.
LEMMA PreparationKeeps ==
  ASSUME IInv, pc \in Preparing, pc' \in Preparing \cup {"authorize"},
         UNCHANGED <<cfg, side, file, checked, at, results, verdict>>,
         DOMAIN tree' = Sides, \A s \in Sides : s # side => tree'[s] = tree[s]
  PROVE  IInv'
<1>1. Loaded' /\ Lane' = Lane /\ Loaded /\ \A p : MetricsPath(p)' = MetricsPath(p)
  BY Configured DEF IInv
<1>2. Fresh(side) /\ at = NotAt /\ \A s \in Sides : tree'[s] = tree[s] \/ Fresh(s)
  BY DEF IInv, Places
<1>3. Filed'
  BY <1>2, FilesStay
<1>4. Resulting'
  BY <1>2, ResultsStay DEF Fresh
<1>5. Sampled'
  <2>1. 1 \in 1..Len(Lane) /\ at' = Unsampled(1)
    BY <1>1, <1>2, LaneFacts DEF NotAt
  <2> QED
    BY <1>1, <2>1, NothingSampled
<1>6. Places'
  BY <1>1, <1>2 DEF IInv, Places, Fresh, Preparing, Checking, Measuring, Ended
<1>7. Measurable'
  BY <1>2 DEF Measurable, Preparing, Checking, Measuring, NotAt, Unsampled
<1>8. Reached'
  <2>1. DOMAIN results'[side] = {Lane[i] : i \in 1..(at'.index - 1)}
    BY <1>2 DEF Fresh, NotAt, Unsampled
  <2> QED
    BY <1>1, <2>1 DEF IInv, Reached, Preparing, Checking, Measuring, BaselineValue, Values2
<1>9. Concluded'
  BY DEF IInv, Concluded, Preparing
<1> QED
  BY <1>1, <1>3, <1>4, <1>5, <1>6, <1>7, <1>8, <1>9 DEF IInv

\* The evaluation of a point goes on: nothing is in yet.
LEMMA PointKeeps ==
  ASSUME IInv, pc \in {"authorize"} \cup Checking \cup Measuring, pc' \in Checking \cup Measuring,
         UNCHANGED <<cfg, side, tree, results, verdict>>, checked \subseteq checked',
         at'.index = at.index, pc' \in Checking => at.index = 1,
         Sampled', Measurable',
         Filed', DOMAIN file' = Sides, \A s \in Sides : DOMAIN file'[s] = Paths,
         side = "baseline" => file'["candidate"] = file["candidate"]
  PROVE  IInv'
<1>1. Loaded' /\ Lane' = Lane /\ Loaded /\ \A p : MetricsPath(p)' = MetricsPath(p)
  BY Configured DEF IInv
<1>2. Resulting'
  BY ResultsStay
<1>3. Places'
  BY <1>1 DEF IInv, Places, Fresh, Preparing, Checking, Measuring, Ended
<1>4. Reached'
  BY <1>1 DEF IInv, Reached, Checking, Measuring, BaselineValue, Values2
<1>5. Concluded'
  BY DEF IInv, Concluded, Checking, Measuring
<1> QED
  BY <1>1, <1>2, <1>3, <1>4, <1>5 DEF IInv

\* What a command leaves is filed where it belongs.
LEMMA MeasuresFiles ==
  ASSUME IInv, Measures, UNCHANGED <<cfg, tree>>
  PROVE  /\ Filed' /\ DOMAIN file' = Sides /\ \A s \in Sides : DOMAIN file'[s] = Paths
         /\ side = "baseline" => file'["candidate"] = file["candidate"]
<1>1. Lane' = Lane /\ Loaded /\ \A p : MetricsPath(p)' = MetricsPath(p)
  BY Configured DEF IInv
<1>2. side \in Sides /\ DOMAIN file = Sides /\ \A s \in Sides : DOMAIN file[s] = Paths
  BY DEF IInv, Places
<1>3. Point \in Range(Lane)
  BY <1>1, LaneFacts DEF IInv, Sampled, Progress, Point
<1>4. \A s \in Sides, p \in Range(Lane) :
          /\ file[s][MetricsPath(p)] \in {None, Garbage} \cup SamplesOf(s, p)
          /\ SamplesOf(s, p)' = SamplesOf(s, p)
  BY DEF IInv, Filed, SamplesOf
<1>5. \A v \in Values : Sample(v) \in SamplesOf(side, Point)
  BY DEF Sample, SamplesOf
<1>6. CASE UNCHANGED file
  BY <1>1, <1>2, <1>4, <1>6 DEF Filed
<1>7. ASSUME NEW x \in {Garbage} \cup SamplesOf(side, Point),
             file' = [file EXCEPT ![side][MetricsPath(Point)] = x]
      PROVE  /\ Filed' /\ DOMAIN file' = Sides /\ \A s \in Sides : DOMAIN file'[s] = Paths
             /\ side = "baseline" => file'["candidate"] = file["candidate"]
  <2>1. DOMAIN file' = Sides /\ \A s \in Sides : DOMAIN file'[s] = Paths
    BY <1>2, <1>7
  <2>2. side = "baseline" => file'["candidate"] = file["candidate"]
    BY <1>2, <1>7 DEF Sides
  <2>3. \A s \in Sides, p \in Range(Lane) :
            file'[s][MetricsPath(p)] \in {None, Garbage} \cup SamplesOf(s, p)
    <3> TAKE s \in Sides, p \in Range(Lane)
    <3>1. MetricsPath(p) \in Paths /\ (MetricsPath(p) = MetricsPath(Point) => p = Point)
      BY <1>1, <1>3, PathsDiffer
    <3>2. CASE s = side /\ p = Point
      <4>1. file'[s][MetricsPath(p)] = x
        BY <1>2, <1>7, <3>1, <3>2
      <4> QED
        BY <1>7, <3>2, <4>1
    <3>3. CASE ~(s = side /\ p = Point)
      <4>1. file'[s][MetricsPath(p)] = file[s][MetricsPath(p)]
        BY <1>2, <1>7, <3>1, <3>3
      <4> QED
        BY <1>4, <4>1
    <3> QED
      BY <3>2, <3>3
  <2>4. Filed'
    BY <1>1, <1>4, <2>3 DEF Filed
  <2> QED
    BY <2>1, <2>2, <2>4
<1> QED
  BY <1>2, <1>5, <1>6, <1>7 DEF Measures
\* A worktree is made before anything is measured in it.
LEMMA CreateWorktreeKeeps ==
  ASSUME IInv, CreateWorktree
  PROVE  IInv'
<1>1. DOMAIN tree = Sides /\ side \in Sides
  BY DEF IInv, Places
<1>2. CASE Raise /\ UNCHANGED tree
  BY <1>1, <1>2, StopKeeps DEF CreateWorktree, Raise
<1>3. CASE tree' = [tree EXCEPT ![side] = "base"] /\ UNCHANGED at
           /\ pc' = IF side = "candidate" THEN "prepare" ELSE "authorize"
  <2>1. DOMAIN tree' = Sides /\ \A s \in Sides : s # side => tree'[s] = tree[s]
    BY <1>1, <1>3
  <2>2. pc \in Preparing /\ pc' \in Preparing \cup {"authorize"}
    BY <1>3 DEF CreateWorktree, Preparing
  <2> QED
    BY <1>3, <2>1, <2>2, PreparationKeeps DEF CreateWorktree
<1> QED
  BY <1>2, <1>3 DEF CreateWorktree

\* A patch that is refused ends the trial.
LEMMA PreparePatchKeeps ==
  ASSUME IInv, PreparePatch
  PROVE  IInv'
<1>1. /\ pc \in Preparing /\ DOMAIN tree = Sides /\ at = NotAt /\ pc # "done"
      /\ UNCHANGED <<cfg, side, tree, file, checked, at, results, verdict>>
      /\ pc' \in {"apply", "refused"}
  BY DEF IInv, Places, PreparePatch, Preparing
<1>2. CASE pc' = "refused"
  BY <1>1, <1>2, StopKeeps
<1>3. CASE pc' = "apply"
  BY <1>1, <1>3, PreparationKeeps DEF Preparing
<1> QED
  BY <1>1, <1>2, <1>3

\* The candidate changes before anything is measured in it.
LEMMA ApplyPatchKeeps ==
  ASSUME IInv, ApplyPatch
  PROVE  IInv'
<1>1. /\ pc \in Preparing /\ DOMAIN tree = Sides /\ at = NotAt /\ pc # "done" /\ side \in Sides
      /\ Fresh(side) /\ UNCHANGED <<cfg, side, file, checked, results, verdict>>
  BY DEF IInv, Places, ApplyPatch, Preparing
<1>2. /\ DOMAIN tree' = Sides /\ \A s \in Sides : s # side => tree'[s] = tree[s]
  BY <1>1 DEF ApplyPatch
<1>3. CASE pc' \in {"raised", "refused"} /\ at' = NotAt
  BY <1>1, <1>2, <1>3, StopKeeps
<1>4. CASE pc' = "authorize" /\ UNCHANGED at
  BY <1>1, <1>2, <1>4, PreparationKeeps
<1> QED
  BY <1>1, <1>3, <1>4 DEF ApplyPatch, Raise

\* A change of arguments leaves the worktree as it is.
LEMMA ArgumentsOnlyKeeps ==
  ASSUME IInv, ArgumentsOnly
  PROVE  IInv'
<1>1. pc \in Preparing /\ DOMAIN tree' = Sides
  BY DEF IInv, Places, ArgumentsOnly, Preparing
<1> QED
  BY <1>1, PreparationKeeps DEF ArgumentsOnly

\* A point is planned only against a baseline that is known.
LEMMA PlanIsSound ==
  ASSUME IInv, PlanIsPossible(Point), Gated
  PROVE  BaselineValue(Point) \in Int
<1>1. Loaded /\ at.index \in 1..Len(Lane) /\ Baseline(Point) = BaselineValue(Point)
  BY DEF IInv, Sampled, Progress, Baseline
<1>2. Point \in Range(Lane) /\ Point \in Points
  BY <1>1, LaneFacts DEF Point
<1>3. CASE cfg.mode = "managed"
  BY <1>2, <1>3 DEF IInv, Reached, Gated
<1>4. CASE cfg.mode # "managed"
  <2>1. cfg.baselines[Point] \in Int \cup {None}
    BY <1>1, <1>2 DEF Loaded, DocumentTypes
  <2> QED
    BY <1>1, <1>4, <2>1 DEF BaselineValue, PlanIsPossible
<1> QED
  BY <1>3, <1>4

\* The next point starts with no samples.
LEMMA AuthorizeKeeps ==
  ASSUME IInv, Authorize
  PROVE  IInv'
<1>1. /\ DOMAIN tree = Sides /\ DOMAIN file = Sides /\ \A s \in Sides : DOMAIN file[s] = Paths
      /\ pc = "authorize" /\ UNCHANGED <<cfg, side, tree, file, checked, results, verdict>>
  BY DEF IInv, Places, Authorize
<1>2. CASE Raise
  BY <1>1, <1>2, StopKeeps DEF Raise
<1>3. CASE /\ PlanIsPossible(Point)
           /\ pc' = IF at.index = 1 THEN "preflight" ELSE "benchmark"
           /\ at' = [at EXCEPT !.phase = "start"]
  <2>1. Lane' = Lane /\ Filed'
    BY <1>1, Configured, FilesStay
  <2>2. at.index \in 1..Len(Lane) /\ at'.index = at.index
    BY <1>3 DEF IInv, Sampled, Progress
  <2>3. Point' = Point
    BY <2>1, <2>2 DEF Point
  <2>4. Sampled'
    BY <1>1, <1>3, <2>1, <2>3 DEF IInv, Sampled, Progress, SamplesOf
  <2>5. Measurable'
    <3>1. /\ at.samples = <<>> /\ at'.samples = at.samples
          /\ at.index > 1 => <<side, tree[side]>> \in checked
      BY <1>1, <1>3 DEF IInv, Measurable, Sampled, Progress, Measuring
    <3>2. pc' \in Measuring \/ at'.index > 1 => at.index > 1
      BY <1>3, <2>2 DEF Measuring
    <3>3. Gated => BaselineValue(Point) \in Int
      BY <1>3, PlanIsSound
    <3>4. cfg.stability # None => cfg.stability.max > 0
      BY DEF IInv, Loaded, DocumentTypes, Stabilities, ValidLanes, ValidStability
    <3>5. BaselineValue(Point)' = BaselineValue(Point) /\ Gated' = Gated
      BY <1>1, <2>3 DEF BaselineValue, Values2, Gated
    <3>6. pc' # "judge"
      BY <1>3
    <3> QED
      BY <1>1, <3>1, <3>2, <3>3, <3>4, <3>5, <3>6 DEF Measurable
  <2>6. pc \in {"authorize"} \cup Checking \cup Measuring /\ pc' \in Checking \cup Measuring
    BY <1>1, <1>3 DEF Checking, Measuring
  <2>7. pc' \in Checking => at.index = 1
    BY <1>3 DEF Checking
  <2> QED
    BY <1>1, <2>1, <2>2, <2>4, <2>5, <2>6, <2>7, PointKeeps
<1> QED
  BY <1>1, <1>2, <1>3 DEF Authorize
\* A point that failed, whatever its commands have left.
LEMMA FailureKeeps ==
  ASSUME IInv, Finish("failed", None), pc \in Checking \cup Measuring,
         UNCHANGED <<cfg, side, tree, checked, verdict>>, Measures \/ UNCHANGED file
  PROVE  IInv'
<1> DEFINE r == PointResult("failed", None, at.samples)
<1>1. /\ Filed' /\ DOMAIN file' = Sides /\ \A s \in Sides : DOMAIN file'[s] = Paths
      /\ side = "baseline" => file'["candidate"] = file["candidate"]
  BY MeasuresFiles DEF Measures
<1>2. Failure(r)
  BY DEF Failure, PointResult
<1> HIDE DEF r
<1>3. r = PointResult("failed", None, at.samples)
  BY DEF r
<1> QED
  BY <1>1, <1>2, <1>3, FinishKeeps

\* A failed preflight fails the first point.
LEMMA PreflightKeeps ==
  ASSUME IInv, Preflight
  PROVE  IInv'
<1>1. /\ pc = "preflight" /\ UNCHANGED <<cfg, side, tree, file, checked, verdict>>
      /\ pc \in Checking
  BY DEF Preflight, Checking
<1>2. CASE Finish("failed", None)
  BY <1>1, <1>2, FailureKeeps
<1>3. CASE pc' = "correctness" /\ UNCHANGED <<at, results>>
  <2>1. Point' = Point /\ Filed' /\ SamplesOf(side, Point)' = SamplesOf(side, Point)
    BY <1>1, <1>3, FilesStay DEF Point, Lane, SamplesOf
  <2>2. Sampled'
    BY <1>1, <1>3, <2>1, Configured DEF IInv, Sampled, Progress
  <2>3. Measurable'
    BY <1>1, <1>3, <2>1 DEF IInv, Measurable, Checking, Measuring, BaselineValue, Values2, Gated
  <2> QED
    BY <1>1, <1>3, <2>1, <2>2, <2>3, PointKeeps DEF IInv, Places, Checking
<1> QED
  BY <1>2, <1>3 DEF Preflight

\* The commands check the worktree that is then measured.
LEMMA CorrectnessKeeps ==
  ASSUME IInv, Correctness
  PROVE  IInv'
<1>1. /\ pc = "correctness" /\ UNCHANGED <<cfg, side, tree, file, verdict>>
      /\ pc \in Checking
  BY DEF Correctness, Checking
<1>2. CASE Finish("failed", None) /\ UNCHANGED checked
  BY <1>1, <1>2, FailureKeeps
<1>3. CASE /\ pc' = "benchmark" /\ checked' = checked \cup {<<side, tree[side]>>}
           /\ UNCHANGED <<at, results>>
  <2>1. Point' = Point /\ Filed' /\ SamplesOf(side, Point)' = SamplesOf(side, Point)
    BY <1>1, <1>3, FilesStay DEF Point, Lane, SamplesOf
  <2>2. Sampled'
    BY <1>1, <1>3, <2>1, Configured DEF IInv, Sampled, Progress
  <2>3. cfg.stability # None => Len(at.samples) < cfg.stability.max
    <3>1. at.samples = <<>>
      BY <1>1 DEF IInv, Measurable, Measuring
    <3>2. cfg.stability # None => cfg.stability.max > 0
      BY DEF IInv, Loaded, DocumentTypes, Stabilities, ValidLanes, ValidStability
    <3> QED
      BY <3>1, <3>2
  <2>4. Gated => BaselineValue(Point) \in Int
    BY <1>1 DEF IInv, Measurable
  <2>5. Measurable'
    BY <1>1, <1>3, <2>1, <2>3, <2>4 DEF Measurable, Measuring, BaselineValue, Values2, Gated
  <2> QED
    BY <1>1, <1>3, <2>1, <2>2, <2>5, PointKeeps DEF IInv, Places, Checking, Measuring
<1> QED
  BY <1>2, <1>3 DEF Correctness

\* A benchmark goes on: the next command, or the next window.
LEMMA BenchmarkKeeps ==
  ASSUME IInv, pc = "benchmark", pc' = "benchmark",
         UNCHANGED <<cfg, side, tree, checked, results, verdict>>, Measures \/ UNCHANGED file,
         at'.index = at.index, Sampled',
         cfg.stability # None => Len(at'.samples) < cfg.stability.max
  PROVE  IInv'
<1>1. /\ Filed' /\ DOMAIN file' = Sides /\ \A s \in Sides : DOMAIN file'[s] = Paths
      /\ side = "baseline" => file'["candidate"] = file["candidate"]
  BY MeasuresFiles DEF Measures
<1>2. Point' = Point
  BY DEF Point, Lane
<1>3. <<side, tree[side]>> \in checked /\ (Gated => BaselineValue(Point) \in Int)
  BY DEF IInv, Measurable, Measuring
<1>4. Measurable'
  BY <1>2, <1>3 DEF Measurable, Measuring, BaselineValue, Values2, Gated
<1> QED
  BY <1>1, <1>4, PointKeeps DEF Checking, Measuring

\* What becomes of the evaluation in progress while its point stays the same.
LEMMA PhaseChanges ==
  ASSUME IInv, UNCHANGED <<cfg, side, tree>>,
         NEW ph \in {"start", "warmup", "window", "read"}, NEW n \in Int,
         at' = [at EXCEPT !.phase = ph, !.left = n]
  PROVE  Sampled' /\ at'.index = at.index /\ at'.samples = at.samples
<1> USE DEF Progress
<1>1. at \in Progress(SamplesOf(side, Point))
  BY DEF IInv, Sampled, Progress
<1>2. at'.index = at.index /\ at'.samples = at.samples
  BY <1>1
<1>3. Lane' = Lane /\ Point' = Point
  BY <1>2, Configured DEF Point
<1>4. SamplesOf(side, Point)' = SamplesOf(side, Point)
  BY <1>3 DEF SamplesOf
<1>5. at' \in Progress(SamplesOf(side, Point))
  BY <1>1
<1> QED
  BY <1>2, <1>3, <1>4, <1>5 DEF Sampled, Progress
\* A benchmark starts with room for a window.
LEMMA StartBenchmarkKeeps ==
  ASSUME IInv, StartBenchmark
  PROVE  IInv'
<1> USE DEF Progress
<1>1. /\ at.left \in Int /\ cfg.stability # None => cfg.stability.warmup \in Int
      /\ at \in Progress(SamplesOf(side, Point))
  BY DEF IInv, Sampled, Progress, Loaded, DocumentTypes, Stabilities
<1>2. \E ph \in {"start", "warmup", "window", "read"}, n \in Int :
          at' = [at EXCEPT !.phase = ph, !.left = n]
  <2>1. CASE cfg.stability = None
    <3>1. at' = [at EXCEPT !.phase = "window", !.left = at.left]
      BY <1>1, <2>1 DEF StartBenchmark
    <3> QED
      BY <1>1, <3>1
  <2>2. CASE cfg.stability # None
    BY <1>1, <2>2 DEF StartBenchmark
  <2> QED
    BY <2>1, <2>2
<1>3. Sampled' /\ at'.index = at.index /\ at'.samples = at.samples
  BY <1>2, PhaseChanges DEF StartBenchmark
<1>4. cfg.stability # None => Len(at'.samples) < cfg.stability.max
  BY <1>3 DEF IInv, Measurable, StartBenchmark
<1> QED
  BY <1>3, <1>4, BenchmarkKeeps DEF StartBenchmark

\* A warmup leaves a metrics file, and no sample.
LEMMA WarmupKeeps ==
  ASSUME IInv, Warmup
  PROVE  IInv'
<1> USE DEF Progress
<1>1. CASE Finish("failed", None) /\ (Measures \/ UNCHANGED file)
  BY <1>1, FailureKeeps DEF Warmup, Measuring
<1>2. CASE /\ Measures
           /\ at' = [at EXCEPT !.left = @ - 1, !.phase = IF at.left = 1 THEN "window" ELSE @]
           /\ UNCHANGED <<pc, results>>
  <2>1. /\ at.left \in Int /\ at.phase = "warmup"
        /\ at \in Progress(SamplesOf(side, Point))
    BY DEF IInv, Sampled, Progress, Warmup
  <2>2. at' = [at EXCEPT !.phase = IF at.left = 1 THEN "window" ELSE "warmup", !.left = at.left - 1]
    BY <1>2, <2>1
  <2>3. at.left - 1 \in Int /\ (IF at.left = 1 THEN "window" ELSE "warmup") \in
            {"start", "warmup", "window", "read"}
    BY <2>1
  <2>4. Sampled' /\ at'.index = at.index /\ at'.samples = at.samples
    BY <2>2, <2>3, PhaseChanges DEF Warmup
  <2>5. cfg.stability # None => Len(at'.samples) < cfg.stability.max
    BY <2>4 DEF IInv, Measurable, Warmup
  <2> QED
    BY <1>2, <2>4, <2>5, BenchmarkKeeps DEF Warmup
<1> QED
  BY <1>1, <1>2 DEF Warmup

\* A window leaves a metrics file, or fails the point.
LEMMA WindowKeeps ==
  ASSUME IInv, Window
  PROVE  IInv'
<1> USE DEF Progress
<1>1. CASE Finish("failed", None) /\ UNCHANGED file
  BY <1>1, FailureKeeps DEF Window, Measuring
<1>2. CASE Measures /\ at' = [at EXCEPT !.phase = "read"] /\ UNCHANGED <<pc, results>>
  <2>1. /\ at.left \in Int
        /\ at \in Progress(SamplesOf(side, Point))
    BY DEF IInv, Sampled, Progress
  <2>2. at' = [at EXCEPT !.phase = "read", !.left = at.left]
    BY <1>2, <2>1
  <2>4. Sampled' /\ at'.index = at.index /\ at'.samples = at.samples
    BY <2>1, <2>2, PhaseChanges DEF Window
  <2>5. cfg.stability # None => Len(at'.samples) < cfg.stability.max
    BY <2>4 DEF IInv, Measurable, Window
  <2> QED
    BY <1>2, <2>4, <2>5, BenchmarkKeeps DEF Window
<1> QED
  BY <1>1, <1>2 DEF Window

\* A point is measured: what its samples come to is to be judged.
LEMMA MeasuredKeeps ==
  ASSUME IInv, pc = "benchmark", pc' = "judge",
         UNCHANGED <<cfg, side, tree, file, checked, results, verdict>>,
         NEW samples \in Seq(SamplesOf(side, Point)), samples # <<>>, Steady(samples),
         Median2(samples) \in Int, Measured(samples)
  PROVE  IInv'
<1> USE DEF Progress
<1> DEFINE SS == SamplesOf(side, Point)
           m == Median2(samples)
<1>1. /\ at \in Progress(SS)
      /\ <<side, tree[side]>> \in checked /\ (Gated => BaselineValue(Point) \in Int)
  BY DEF IInv, Sampled, Progress, Measurable, Measuring
<1>2. at' = [at EXCEPT !.samples = samples, !.objective = m, !.phase = "measured"]
  BY DEF Measured
<1> HIDE DEF m
<1>3. m \in Int
  BY DEF m
<1>4. at'.index = at.index /\ at'.samples = samples /\ at'.objective = m
  BY <1>1, <1>2
<1>5. Lane' = Lane /\ Point' = Point /\ SamplesOf(side, Point)' = SS
  BY <1>4, Configured DEF Point, SamplesOf
<1>6. at' \in Progress(SS)
  <2> HIDE DEF SS
  <2>1. samples \in Seq(SS)
    BY DEF SS
  <2> QED
    BY <1>1, <1>2, <1>3, <2>1
<1>7. Sampled'
  BY <1>5, <1>6 DEF Sampled, Progress
<1>8. Steady(samples)'
  BY SteadyStays
<1>9. Measurable'
  BY <1>1, <1>3, <1>4, <1>5, <1>8 DEF Measurable, Measuring, BaselineValue, Values2, Gated
<1>10. Filed' /\ DOMAIN file' = Sides /\ \A s \in Sides : DOMAIN file'[s] = Paths
  BY FilesStay DEF IInv, Places
<1> QED
  BY <1>4, <1>7, <1>9, <1>10, PointKeeps DEF Checking, Measuring

\* A window adds a sample of the point to those in progress, or fails it; what is
\* measured is steady.
LEMMA ReadMetricsKeeps ==
  ASSUME IInv, ReadMetrics
  PROVE  IInv'
<1> USE DEF Progress
<1> DEFINE left == file[side][MetricsPath(Point)]
           samples == Append(at.samples, left)
           SS == SamplesOf(side, Point)
<1>1. /\ pc = "benchmark" /\ UNCHANGED <<cfg, side, tree, file, checked, verdict>>
      /\ pc \in Measuring /\ Loaded
  BY DEF ReadMetrics, Measuring, IInv
<1>2. CASE Finish("failed", None)
  BY <1>1, <1>2, FailureKeeps
<1>3. /\ at \in Progress(SS)
      /\ left \in {None, Garbage} \cup SS
      /\ cfg.stability # None => Len(at.samples) < cfg.stability.max
      /\ <<side, tree[side]>> \in checked /\ (Gated => BaselineValue(Point) \in Int)
  <2>1. Point \in Range(Lane) /\ side \in Sides
    BY <1>1, LaneFacts DEF IInv, Sampled, Progress, Point, Places
  <2> QED
    BY <1>1, <2>1 DEF IInv, Sampled, Progress, Filed, Measurable
<1>4. CASE ~Finish("failed", None)
  <2>1. left \in SS
    BY <1>3, <1>4 DEF ReadMetrics, Readable
  <2>2. samples \in Seq(SS) /\ Len(samples) = Len(at.samples) + 1 /\ Len(at.samples) \in Nat
    BY <1>3, <2>1
  <2>3. CASE /\ at' = [at EXCEPT !.samples = samples, !.phase = "window"]
             /\ Len(samples) < cfg.stability.max /\ UNCHANGED <<pc, results>>
    <3>1. at'.index = at.index /\ at'.samples = samples
      BY <1>3, <2>3
    <3>2. Lane' = Lane /\ Point' = Point /\ SamplesOf(side, Point)' = SS
      BY <1>1, <3>1, Configured DEF Point, SamplesOf
    <3>3. at' \in Progress(SS)
      BY <1>3, <2>2, <2>3
    <3>4. Sampled'
      BY <1>1, <3>2, <3>3 DEF Sampled, Progress
    <3> QED
      BY <1>1, <2>3, <3>1, <3>4, BenchmarkKeeps
  <2>4. CASE /\ Measured(samples) /\ pc' = "judge" /\ UNCHANGED results
             /\ \/ cfg.stability = None
                \/ /\ Len(samples) >= cfg.stability.min
                   /\ ValuesStable(LastWindows(samples, cfg.stability.stable),
                                   cfg.stability.tolerance)
    <3>1. \A x \in SS : x.value \in Int
      BY ValuesAssumption DEF SamplesOf
    <3>2. Steady(samples)
      <4>1. CASE cfg.stability = None
        BY <4>1 DEF Steady
      <4>2. CASE cfg.stability # None
        <5>1. cfg.stability.max \in Int
          BY <1>1, <4>2 DEF Loaded, DocumentTypes, Stabilities
        <5>2. Len(samples) <= cfg.stability.max
          BY <1>3, <2>2, <4>2, <5>1
        <5> HIDE DEF samples, SS
        <5> QED
          BY <1>1, <2>2, <2>4, <3>1, <4>2, <5>2, StableIsSteady
      <4> QED
        BY <4>1, <4>2
    <3>3. Median2(samples) \in Int /\ samples # <<>>
      <4>1. /\ DOMAIN samples = 1..Len(samples) /\ Len(samples) \in Nat \ {0}
            /\ \A i \in 1..Len(samples) : samples[i].value \in Int
        <5> HIDE DEF samples, SS
        <5> QED
          BY <2>2, <3>1
      <4> HIDE DEF samples
      <4> QED
        BY <4>1, MedianIsInt
    <3> HIDE DEF samples, left
    <3>4. PICK x : x = samples
      OBVIOUS
    <3>5. /\ x \in Seq(SamplesOf(side, Point)) /\ x # <<>> /\ Steady(x) /\ Median2(x) \in Int
          /\ Measured(x)
      BY <2>2, <2>4, <3>2, <3>3, <3>4
    <3> QED
      BY <1>1, <2>4, <3>5, MeasuredKeeps
  <2> QED
    BY <1>4, <2>3, <2>4 DEF ReadMetrics
<1> QED
  BY <1>2, <1>4
\* A point is judged by its gate and, where it is the last of a qualification, by
\* the accuracy.
LEMMA JudgedKeeps ==
  ASSUME IInv, pc = "judge", NEW outcome \in {"passed", "rejected"}, Finish(outcome, at.objective),
         UNCHANGED <<cfg, side, tree, file, verdict>>, checked \subseteq checked',
         outcome = "passed" => /\ Gate(Point, at.objective)
                               /\ ChecksAccuracy => <<side, "accurate">> \in checked'
  PROVE  IInv'
<1>1. PICK p, r : p = Point /\ r = PointResult(outcome, at.objective, at.samples)
  OBVIOUS
<1>2. /\ Loaded /\ at.index \in 1..Len(Lane) /\ at.samples \in Seq(SamplesOf(side, Point))
      /\ at.objective \in Int /\ at.samples # <<>> /\ Steady(at.samples)
      /\ <<side, tree[side]>> \in checked /\ (Gated => BaselineValue(Point) \in Int)
      /\ side \in Sides
  BY DEF IInv, Sampled, Progress, Measurable, Measuring, Places
<1>3. r.outcome = outcome /\ r.objective = at.objective /\ r.samples = at.samples
  BY <1>1 DEF PointResult
<1>4. /\ Lane' = Lane /\ SamplesOf(side, p)' = SamplesOf(side, p)
      /\ Steady(r.samples)' = Steady(r.samples)
  BY Configured DEF SamplesOf, Steady, LastWindows
<1>5. side = "candidate" => /\ BaselineValue(p)' = BaselineValue(p)
                            /\ Gate(p, r.objective)' = Gate(p, r.objective)
  <2>1. side = "candidate" => (results["baseline"])' = results["baseline"]
    BY FinishResults DEF Sides, Measuring
  <2> QED
    BY <2>1 DEF BaselineValue, Values2, Gate, Baseline, Gated, Minimum, Improvement
<1>6. cfg.mode = "validate" /\ cfg.accuracy /\ p = Lane[Len(Lane)] => ChecksAccuracy
  <2>1. Len(Lane) \in 1..Len(Lane) /\ at.index \in 1..Len(Lane)
        /\ \A i, j \in 1..Len(Lane) : Lane[i] = Lane[j] => i = j
    BY <1>2, LaneFacts
  <2>2. p = Lane[Len(Lane)] => at.index = Len(Lane)
    BY <1>1, <2>1 DEF Point
  <2> QED
    BY <2>2 DEF ChecksAccuracy
<1>7. /\ r.outcome \in {"passed", "rejected"}
      /\ r.samples \in Seq(SamplesOf(side, p)) /\ r.samples # <<>>
  BY <1>1, <1>2, <1>3
<1>8. Judgement(side, p, r)'
  BY <1>1, <1>2, <1>3, <1>4, <1>5, <1>6, <1>7 DEF Judgement, Gated
<1>9. Filed' /\ DOMAIN file' = Sides /\ \A s \in Sides : DOMAIN file'[s] = Paths
  BY FilesStay DEF IInv, Places
<1>10. pc \in Checking \cup Measuring /\ (pc \in Checking => outcome = "failed")
  BY DEF Checking, Measuring
<1> QED
  BY <1>1, <1>8, <1>9, <1>10, FinishKeeps

\* The gate judges what was measured.
LEMMA JudgeKeeps ==
  ASSUME IInv, Judge
  PROVE  IInv'
<1>1. /\ pc = "judge" /\ UNCHANGED <<cfg, side, tree, file, verdict>>
  BY DEF Judge
<1>2. CASE Finish("failed", None) /\ UNCHANGED checked
  BY <1>1, <1>2, FailureKeeps DEF Measuring
<1>3. CASE \/ ~ChecksAccuracy /\ Judged(Gate(Point, at.objective)) /\ UNCHANGED checked
           \/ Judged(Gate(Point, at.objective)) /\ checked' = checked \cup {<<side, "accurate">>}
  <2> DEFINE outcome == IF Gate(Point, at.objective) THEN "passed" ELSE "rejected"
  <2>1. Finish(outcome, at.objective)
    BY <1>3 DEF Judged
  <2>2. /\ outcome \in {"passed", "rejected"} /\ checked \subseteq checked'
        /\ outcome = "passed" => /\ Gate(Point, at.objective)
                                 /\ ChecksAccuracy => <<side, "accurate">> \in checked'
    BY <1>3
  <2>3. PICK x : x = outcome
    OBVIOUS
  <2> HIDE DEF outcome
  <2> QED
    BY <1>1, <2>1, <2>2, <2>3, JudgedKeeps
<1>4. CASE Judged(FALSE) /\ UNCHANGED checked
  BY <1>1, <1>4, JudgedKeeps DEF Judged
<1> QED
  BY <1>2, <1>3, <1>4 DEF Judge
-----------------------------------------------------------------------------
(* The verdict *)

\* The only result.
LEMMA OneResult ==
  ASSUME IInv, Whole(side), Cardinality(DOMAIN results[side]) = 1
  PROVE  \E q \in DOMAIN results[side] : DOMAIN results[side] = {q}
<1>1. Lane \in Seq(Points) /\ IsFiniteSet(1..Len(Lane)) /\ DOMAIN Lane = 1..Len(Lane)
  BY LaneFacts, FS_Interval DEF IInv
<1>2. IsFiniteSet(Range(Lane))
  <2>1. Lane \in Surjection(1..Len(Lane), Range(Lane))
    BY <1>1 DEF Surjection, Range
  <2> QED
    BY <1>1, <2>1, FS_Surjection
<1>3. IsFiniteSet(DOMAIN results[side])
  BY <1>2, FS_Subset DEF Whole
<1> QED
  BY <1>3, FS_Singleton

\* A suite that passed has a judged result for every point that has to have one, and
\* none that was rejected.
LEMMA PassedIsJudged ==
  ASSUME IInv, Whole(side), SuiteOutcome(results[side]) = "passed"
  PROVE  /\ Required \subseteq Range(Lane) /\ Required # {}
         /\ \A p \in Required :
                p \in DOMAIN results[side] /\ Judgement(side, p, results[side][p])
         /\ \A p \in DOMAIN results[side] : results[side][p].outcome # "rejected"
<1> DEFINE rs == results[side]
<1>1. Loaded /\ side \in Sides
  BY DEF IInv, Places
<1>2. Required \subseteq Range(Lane) /\ Required # {}
  BY <1>1, LaneFacts DEF Required
<1>3. \A p \in DOMAIN rs : rs[p].outcome # "failed" => Judgement(side, p, rs[p])
  BY <1>1 DEF IInv, Resulting, Failure
<1>4. CASE cfg.schema = 2 /\ Cardinality(DOMAIN rs) = 1
  <2>2. PICK q : DOMAIN rs = {q}
    BY <1>4, OneResult
  <2>3. rs[q].outcome = "passed"
    BY <1>4, <2>2 DEF SuiteOutcome
  <2>4. DOMAIN rs = Range(Lane)
    BY <2>2, <2>3 DEF Whole
  <2> QED
    BY <1>2, <1>3, <2>2, <2>3, <2>4
<1>5. CASE ~(cfg.schema = 2 /\ Cardinality(DOMAIN rs) = 1)
  <2>1. Aggregate(rs) = "passed"
    BY <1>5 DEF SuiteOutcome
  <2>2. /\ \A p \in Required : p \in DOMAIN rs /\ rs[p].outcome # "failed"
        /\ \A p \in DOMAIN rs : rs[p].outcome # "rejected"
    BY <2>1 DEF Aggregate
  <2> QED
    BY <1>2, <1>3, <2>2
<1> QED
  BY <1>4, <1>5

\* The outcome of a suite is that of a point, or passed, rejected or failed.
LEMMA OutcomeIsKnown ==
  ASSUME IInv, Whole(side), side \in Sides
  PROVE  SuiteOutcome(results[side]) # "accepted"
<1>1. \A p \in DOMAIN results[side] : results[side][p].outcome # "accepted"
  BY DEF IInv, Resulting, Failure, Judgement
<1> QED
  BY <1>1, OneResult DEF SuiteOutcome, Aggregate

\* The candidate starts from a baseline that is known; a verdict is over the whole suite.
LEMMA ConcludeKeeps ==
  ASSUME IInv, Conclude
  PROVE  IInv'
<1> DEFINE outcome == SuiteOutcome(results[side])
<1>1. /\ pc = "aggregate" /\ UNCHANGED <<cfg, tree, file, checked, at, results>>
      /\ Loaded /\ side \in Sides /\ at = NotAt /\ verdict = None /\ Whole(side)
      /\ side = "baseline" => Fresh("candidate")
  BY DEF Conclude, IInv, Places, Ended, Reached
<1>2. Loaded' /\ Lane' = Lane /\ \A p : MetricsPath(p)' = MetricsPath(p)
  BY <1>1, Configured
<1>3. Filed'
  BY <1>1, FilesStay
<1>4. Sampled'
  <2>1. 1 \in 1..Len(Lane) /\ at' = Unsampled(1)
    BY <1>1, LaneFacts DEF NotAt
  <2> QED
    BY <1>1, <2>1, NothingSampled
<1>5. CASE /\ cfg.mode = "managed" /\ side = "baseline" /\ outcome = "passed"
           /\ pc' = "workspace" /\ side' = "candidate" /\ UNCHANGED verdict
  <2>1. Resulting'
    BY <1>1, <1>5, ResultsStay DEF Fresh
  <2>2. Fresh("candidate")'
    BY <1>1, <1>2, <1>5 DEF Fresh
  <2>3. Places'
    BY <1>1, <1>2, <1>5, <2>2 DEF IInv, Places, Preparing, Checking, Measuring, Ended, Sides
  <2>4. Measurable'
    BY <1>1, <1>5 DEF Measurable, Checking, Measuring, NotAt, Unsampled
  <2>5. Required = Range(Lane)
    BY <1>5 DEF Required, Gated
  <2>6. \A p \in Range(Lane) : p \in DOMAIN results["baseline"] /\ BaselineValue(p) \in Int
    BY <1>1, <1>5, <2>5, PassedIsJudged DEF Judgement, BaselineValue, Values2
  <2>7. Reached'
    BY <1>1, <1>2, <1>5, <2>6 DEF Reached, Checking, Measuring, BaselineValue, Values2
  <2>8. Concluded'
    BY <1>1, <1>5, NoneAssumption DEF Concluded
  <2> QED
    BY <1>2, <1>3, <1>4, <2>1, <2>3, <2>4, <2>7, <2>8 DEF IInv
<1>6. CASE /\ pc' \in {"raised", "done"} /\ UNCHANGED side
           /\ \/ pc' = "raised" /\ UNCHANGED verdict
              \/ /\ pc' = "done" /\ ~(cfg.mode = "managed" /\ side = "baseline")
                 /\ verdict' = (IF cfg.mode = "validate" THEN outcome ELSE OutcomeStatus(outcome))
  <2>1. Resulting'
    BY <1>1, <1>6, ResultsStay
  <2>2. Places'
    BY <1>1, <1>2, <1>6 DEF IInv, Places, Fresh, Preparing, Checking, Measuring, Ended
  <2>3. Measurable'
    BY <1>1, <1>6 DEF Measurable, Checking, Measuring, NotAt, Unsampled
  <2>4. Reached'
    BY <1>1, <1>2, <1>6 DEF IInv, Reached, Whole, Checking, Measuring, BaselineValue, Values2
  <2>5. Concluded'
    <3>1. CASE pc' = "raised"
      BY <1>1, <1>6, <3>1, NoneAssumption DEF Concluded
    <3>2. CASE pc' = "done"
      <4>1. verdict' \in {"accepted", "passed"} => outcome = "passed"
        <5>1. outcome # "accepted"
          BY <1>1, OutcomeIsKnown
        <5> HIDE DEF outcome
        <5> QED
          BY <1>6, <3>2, <5>1 DEF OutcomeStatus
      <4>2. SuiteOutcome(results[side])' = outcome
        BY <1>1, <1>2, <1>6
           DEF SuiteOutcome, Aggregate, Required, Gated
      <4>3. cfg.mode # "validate" => side = "candidate"
        BY <1>1, <1>6, <3>2 DEF Sides, Loaded, DocumentTypes, IInv, Places
      <4> QED
        BY <1>1, <1>6, <3>2, <4>1, <4>2, <4>3 DEF Concluded
    <3> QED
      BY <1>6, <3>1, <3>2
  <2> QED
    BY <1>2, <1>3, <1>4, <2>1, <2>2, <2>3, <2>4, <2>5 DEF IInv
<1> QED
  BY <1>5, <1>6 DEF Conclude

\* What the parser lets through is a configuration.
LEMMA ParsedIsLoaded ==
  ASSUME NEW d \in Documents, Loads(d), cfg = ParseEvaluation(d)
  PROVE  Loaded
<1>1. d \in DocumentTypes
  BY DocumentsAssumption
<1>2. cfg \in DocumentTypes /\ cfg.fast \in Seq(Points)
  <2>1. CASE d.schema = 2 \/ d.fast = None
    <3>1. cfg = [d EXCEPT !.fast = d.suite, !.stability = None]
      BY <2>1 DEF ParseEvaluation, LegacyLanes
    <3>2. d.suite \in Seq(Points)
      BY <1>1 DEF DocumentTypes
    <3> QED
      BY <1>1, <3>1, <3>2 DEF DocumentTypes
  <2>2. CASE ~(d.schema = 2 \/ d.fast = None)
    BY <1>1, <2>2 DEF ParseEvaluation, DocumentTypes
  <2> QED
    BY <2>1, <2>2
<1> QED
  BY <1>2 DEF Loads, Loaded

\* A trial starts with it.
LEMMA InitKeeps ==
  ASSUME Init
  PROVE  IInv
<1>1. Loaded
  BY ParsedIsLoaded DEF Init
<1>2. \A s \in Sides : Fresh(s)
  <2>1. \A p \in Range(Lane) : MetricsPath(p) \in Paths
    BY <1>1, PathsDiffer
  <2>2. DOMAIN <<>> = {}
    OBVIOUS
  <2> QED
    BY <2>1, <2>2 DEF Init, Fresh
<1>3. Places
  <2>1. side \in Sides
    BY DEF Init, Sides
  <2>2. /\ DOMAIN tree = Sides /\ DOMAIN file = Sides /\ DOMAIN results = Sides
        /\ \A s \in Sides : DOMAIN file[s] = Paths
    BY DEF Init
  <2> QED
    BY <1>2, <2>1, <2>2 DEF Init, Places, Preparing, Checking, Measuring, Ended, Sides
<1>4. Filed
  BY <1>2 DEF Filed, Fresh
<1>5. Sampled
  <2>1. 1 \in 1..Len(Lane)
    BY <1>1, LaneFacts
  <2>2. at = [index |-> 1, phase |-> None, left |-> 0, samples |-> <<>>, objective |-> None]
    BY DEF Init, NotAt, Unsampled
  <2>3. <<>> \in Seq(SamplesOf(side, Point))
    OBVIOUS
  <2> QED
    BY <2>1, <2>2, <2>3 DEF Sampled, Progress
<1>6. Measurable
  BY DEF Init, Measurable, Checking, Measuring, NotAt, Unsampled
<1>7. Resulting
  BY <1>2 DEF Resulting, Fresh
<1>8. Reached
  BY DEF Init, Reached, Checking, Measuring
<1>9. Concluded
  BY NoneAssumption DEF Init, Concluded
<1> QED
  BY <1>1, <1>3, <1>4, <1>5, <1>6, <1>7, <1>8, <1>9 DEF IInv
-----------------------------------------------------------------------------
(* The theorems *)

\* Every step keeps the invariant.
LEMMA StepKeeps ==
  ASSUME IInv, [Next]_vars
  PROVE  IInv'
<1>1. CASE Next
  BY <1>1, CreateWorktreeKeeps, PreparePatchKeeps, ApplyPatchKeeps, ArgumentsOnlyKeeps,
     AuthorizeKeeps, PreflightKeeps, CorrectnessKeeps, StartBenchmarkKeeps, WarmupKeeps,
     WindowKeeps, ReadMetricsKeeps, JudgeKeeps, ConcludeKeeps DEF Next
<1>2. CASE UNCHANGED vars
  <2>1. UNCHANGED <<cfg, pc, side, tree, file, checked, at, results, verdict>>
    BY <1>2 DEF vars
  <2>2. Loaded' /\ Lane' = Lane /\ \A p : MetricsPath(p)' = MetricsPath(p)
    BY <2>1, Configured DEF IInv
  <2>3. Filed' /\ Resulting'
    BY <2>1, FilesStay, ResultsStay
  <2>4. Point' = Point /\ SamplesOf(side, Point)' = SamplesOf(side, Point)
    BY <2>1, <2>2 DEF Point, SamplesOf
  <2>5. Sampled'
    BY <2>1, <2>2, <2>4 DEF IInv, Sampled, Progress
  <2>6. Places'
    BY <2>1, <2>2 DEF IInv, Places, Fresh
  <2>7. Steady(at.samples)' = Steady(at.samples)
    BY <2>1 DEF Steady, LastWindows
  <2>8. Measurable'
    BY <2>1, <2>4, <2>7 DEF IInv, Measurable, BaselineValue, Values2, Gated
  <2>9. Reached'
    BY <2>1, <2>2 DEF IInv, Reached, Whole, BaselineValue, Values2
  <2>10. SuiteOutcome(results[side])' = SuiteOutcome(results[side])
    BY <2>1, <2>2 DEF SuiteOutcome, Aggregate, Required, Gated
  <2>11. Concluded'
    BY <2>1, <2>10 DEF IInv, Concluded
  <2> QED
    BY <2>2, <2>3, <2>5, <2>6, <2>8, <2>9, <2>11 DEF IInv
<1> QED
  BY <1>1, <1>2

\* A trial keeps its worktrees, metrics files, samples, results and verdict in order.
THEOREM Invariance == Spec => []IInv
<1>1. Init => IInv
  BY InitKeeps
<1>2. IInv /\ [Next]_vars => IInv'
  BY StepKeeps
<1> QED
  BY <1>1, <1>2, PTL DEF Spec

\* A result with an objective is a judgement.
LEMMA MeasuredIsJudged ==
  ASSUME IInv, NEW s \in Sides, NEW p \in DOMAIN results[s], results[s][p].objective # None
  PROVE  Judgement(s, p, results[s][p])
BY DEF IInv, Resulting, Failure

\* Every objective was measured at its own point, in the worktree it speaks of.
THEOREM MeasuredWhereItSays == Spec => []MeasuredHere
<1>1. IInv => MeasuredHere
  <2> SUFFICES ASSUME IInv, NEW s \in Sides, NEW p \in DOMAIN results[s],
                      results[s][p].objective # None
               PROVE  /\ results[s][p].samples # <<>>
                      /\ \A i \in DOMAIN results[s][p].samples :
                             /\ results[s][p].samples[i].side = s
                             /\ results[s][p].samples[i].point = p
                             /\ results[s][p].samples[i].tree = tree[s]
    BY DEF MeasuredHere
  <2>1. /\ results[s][p].samples \in Seq(SamplesOf(s, p)) /\ results[s][p].samples # <<>>
    BY MeasuredIsJudged DEF Judgement
  <2>2. \A x \in SamplesOf(s, p) : x.side = s /\ x.point = p /\ x.tree = tree[s]
    BY DEF SamplesOf
  <2> QED
    BY <2>1, <2>2
<1> QED
  BY <1>1, Invariance, PTL

\* Multiplying keeps the order.
LEMMA Scaled ==
  ASSUME NEW x \in Int, NEW y \in Int, NEW m \in Nat, NEW z \in Int, z >= x * m, x >= y
  PROVE  z >= y * m
<1>1. (x - y) * m >= 0
  OBVIOUS
<1>2. x * m = y * m + (x - y) * m
  OBVIOUS
<1>3. x * m \in Int /\ y * m \in Int /\ (x - y) * m \in Int
  OBVIOUS
<1> QED
  BY <1>1, <1>2, <1>3

\* The larger of a number and zero.
LEMMA MaxOfTwo ==
  ASSUME NEW x \in Int
  PROVE  Max({0, x}) \in Int /\ Max({0, x}) >= 0 /\ Max({0, x}) >= x
<1>1. \E y \in {0, x} : \A z \in {0, x} : y >= z
  OBVIOUS
<1> QED
  BY <1>1 DEF Max

\* A candidate that passes its gate is as much better as it has to be.
LEMMA GateIsEarned ==
  ASSUME Loaded, side = "candidate", NEW p, BaselineValue(p) \in Int,
         NEW c \in Int, c = results["candidate"][p].objective, Gate(p, c)
  PROVE  IF p \in Range(cfg.primary)
         THEN AtLeastBetter(p, 0) /\ AtLeastBetter(p, cfg.improvement - cfg.noise)
         ELSE AtLeastBetter(p, -(cfg.regression + cfg.noise))
<1> DEFINE b == BaselineValue(p)
           gain == 100 * (IF cfg.direction = "maximize" THEN c - b ELSE b - c)
           m == Magnitude(b)
<1>1. b \in Int /\ gain \in Int /\ m \in Nat
  BY DEF Magnitude
<1>2. b = IF cfg.mode = "managed" THEN results["baseline"][p].objective ELSE 2 * cfg.baselines[p]
  BY NoneAssumption DEF BaselineValue, Values2
<1>3. \A percent : AtLeastBetter(p, percent) <=> (b # 0 => gain >= percent * m)
  BY <1>2 DEF AtLeastBetter
<1>4. b = 0 \/ gain >= Minimum(p) * m
  BY NoneAssumption DEF Gate, Baseline, Gated, Improvement
<1>5. cfg.improvement \in Int /\ cfg.noise \in Int /\ cfg.regression \in Int
  BY DEF Loaded, DocumentTypes
<1> HIDE DEF b, gain, m
<1>6. CASE p \in Range(cfg.primary)
  <2> DEFINE x == cfg.improvement - cfg.noise
             y == Max({0, x})
  <2>1. x \in Int /\ y \in Int /\ y >= 0 /\ y >= x
    BY <1>5, MaxOfTwo
  <2>2. Minimum(p) = y
    BY <1>6 DEF Minimum, Gated
  <2> HIDE DEF y, x
  <2>3. b # 0 => gain >= 0 * m /\ gain >= x * m
    BY <1>1, <1>4, <2>1, <2>2, Scaled
  <2> QED
    BY <1>3, <1>6, <2>3 DEF x
<1>7. CASE p \notin Range(cfg.primary)
  BY <1>3, <1>4, <1>7 DEF Minimum, Gated
<1> QED
  BY <1>6, <1>7

\* A trial is accepted, or passes, only for what was checked, measured and gained in
\* the worktree it is about.
THEOREM VerdictsAreEarned == Spec => []VerdictIsEarned
<1>1. IInv => VerdictIsEarned
  <2> DEFINE rs == results[side]
             needed == IF cfg.mode = "validate" THEN Range(cfg.suite)
                       ELSE IF cfg.requireAll THEN Range(cfg.fast) ELSE Range(cfg.primary)
  <2> SUFFICES ASSUME IInv, verdict \in {"accepted", "passed"}
               PROVE  /\ <<side, tree[side]>> \in checked
                      /\ needed \subseteq {p \in DOMAIN rs : rs[p].objective # None}
                      /\ \A p \in DOMAIN rs : rs[p].objective # None => Steady(rs[p].samples)
                      /\ cfg.mode = "validate" /\ cfg.accuracy => <<side, "accurate">> \in checked
                      /\ cfg.mode # "validate" =>
                             \A p \in {q \in DOMAIN rs : rs[q].objective # None} :
                                 IF p \in Range(cfg.primary)
                                 THEN /\ AtLeastBetter(p, 0)
                                      /\ AtLeastBetter(p, cfg.improvement - cfg.noise)
                                 ELSE AtLeastBetter(p, -(cfg.regression + cfg.noise))
    BY DEF VerdictIsEarned
  <2>1. /\ Loaded /\ side \in Sides /\ Whole(side) /\ SuiteOutcome(rs) = "passed"
        /\ cfg.mode # "validate" => side = "candidate"
        /\ cfg.mode = "validate" => side = "baseline"
    BY DEF IInv, Places, Reached, Concluded
  <2>2. Required = needed
    BY <2>1 DEF Required, Gated, Lane
  <2>3. /\ Required \subseteq Range(Lane) /\ Required # {}
        /\ \A p \in Required : p \in DOMAIN rs /\ Judgement(side, p, rs[p])
        /\ \A p \in DOMAIN rs : rs[p].outcome # "rejected"
    BY <2>1, PassedIsJudged
  <2>4. \A p \in DOMAIN rs : rs[p].objective # None => Judgement(side, p, rs[p])
    BY <2>1, MeasuredIsJudged
  <2> HIDE DEF needed, rs
  <2>5. <<side, tree[side]>> \in checked
    BY <2>3 DEF Judgement
  <2>6. needed \subseteq {p \in DOMAIN rs : rs[p].objective # None}
    BY <2>2, <2>3, NoneAssumption DEF Judgement
  <2>7. \A p \in DOMAIN rs : rs[p].objective # None => Steady(rs[p].samples)
    BY <2>4 DEF Judgement
  <2>8. ASSUME cfg.mode = "validate", cfg.accuracy
        PROVE  <<side, "accurate">> \in checked
    <3>1. Required = Range(Lane) /\ Lane[Len(Lane)] \in Range(Lane)
      BY <2>1, <2>8, LaneFacts DEF Required, Gated
    <3> QED
      BY <2>3, <2>8, <3>1 DEF Judgement
  <2>9. ASSUME cfg.mode # "validate", NEW p \in DOMAIN rs, rs[p].objective # None
        PROVE  IF p \in Range(cfg.primary)
               THEN AtLeastBetter(p, 0) /\ AtLeastBetter(p, cfg.improvement - cfg.noise)
               ELSE AtLeastBetter(p, -(cfg.regression + cfg.noise))
    <3>1. /\ side = "candidate" /\ Judgement(side, p, rs[p]) /\ rs[p].outcome = "passed"
          /\ rs[p] = results["candidate"][p]
      BY <2>1, <2>3, <2>4, <2>9 DEF Judgement, rs
    <3>2. /\ rs[p].objective \in Int /\ BaselineValue(p) \in Int /\ Gate(p, rs[p].objective)
      BY <3>1 DEF Judgement
    <3> QED
      BY <2>1, <3>1, <3>2, GateIsEarned
  <2> QED
    BY <2>5, <2>6, <2>7, <2>8, <2>9
<1> QED
  BY <1>1, Invariance, PTL
=============================================================================
