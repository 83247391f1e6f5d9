--------------------------- MODULE Campaign_proof ---------------------------
(***************************************************************************)
(* For any campaigns on one ledger, any documents and results: the ledger   *)
(* tells how a campaign went, an accepted candidate deserved it, and a      *)
(* command writes its result where the executor looks for it.               *)
(***************************************************************************)
EXTENDS Campaign, WellFoundedInduction, TLAPS

(* The inductive invariant.  s is what a campaign holds, log what it has recorded. *)

Numbers == Int \cup {None}
Metrics == [correct : Numbers, perf : Numbers]
Gates == [minimum : Int, direction : {"maximize", "minimize"},
          improvement : Nat, regression : Nat, noise : Nat]
Statuses == {"running"} \cup Terminal
Snapshots == [campaign : Campaigns, ordinal : Nat, status : Statuses, accepted : BOOLEAN,
              base : Metrics, metrics : Metrics]

Loading == {"load", "plan", "planned"}
Appending == {"append", "write", "rest"}
Running == {"execute", "judge"}
Places == Loading \cup Appending \cup Running \cup Ended

States ==
    [pc : Places, config : DocumentTypes \cup {None}, gate : Gates \cup {None}, ordinal : Nat,
     result : ResultTypes \cup {None}, base : Metrics \cup {None}, stopped : BOOLEAN,
     snap : Snapshots \cup {None}]
Pieces == [snap : Snapshots, part : {"whole", "head", "bare", "tail"}]

TypeOK ==
    /\ st \in [Campaigns -> States]
    /\ lock \in Campaigns \cup {None}
    /\ file \in Seq(Pieces)
    /\ acked \in [Campaigns -> Seq(Snapshots)]
    /\ faults \in Nat

\* Who writes has the lock; what it has begun is the last piece.
LockedBy(p, s) ==
    /\ lock = p <=> s.pc \in {"write", "rest"}
    /\ s.pc = "rest" => file # <<>> /\ Fragment(Last(file)) /\ Last(file).snap = s.snap

\* A configuration that is being planned is one the loader accepted.
PlannedOf(s, log) ==
    /\ s.pc \in Loading => log = <<>> /\ s.ordinal = 0 /\ ~s.stopped
    /\ s.pc \in {"plan", "planned"} =>
           s.config \in DocumentTypes /\ LoadConfig(s.config)
    /\ s.pc = "planned" => PlanOf(s.config) # Refused /\ ~ManagesLifecycle(s.config)

\* The accepted baseline has been recorded.
Baselined(s, log) ==
    /\ s.base \in Metrics /\ CorrectnessGate(s.gate, s.base)
    /\ \E j \in DOMAIN log : log[j].ordinal = 0 /\ log[j].accepted /\ log[j].metrics = s.base

\* What a snapshot says of a candidate is what the gates say.
Judged(g, snap) ==
    snap.ordinal > 0 /\ snap.status = "succeeded" =>
        /\ snap.accepted <=> EvaluateExisting(g, snap.base, snap.metrics)
        /\ snap.accepted => Good(g, snap.base, snap.metrics)

\* What is on its way to the ledger is a snapshot of the candidate under way.
Pending(p, s) ==
    /\ s.snap \in Snapshots /\ s.snap.campaign = p /\ s.snap.ordinal = s.ordinal
    /\ Judged(s.gate, s.snap)
    /\ s.ordinal = 0 /\ s.snap.accepted =>
           /\ s.base \in Metrics /\ CorrectnessGate(s.gate, s.base)
           /\ s.snap.metrics = s.base
    /\ s.ordinal > 0 /\ s.snap.status = "succeeded" => s.snap.base = s.base
    /\ s.stopped <=> s.snap.status = "cancelled"
    /\ s.stopped => s.ordinal > 0

\* A campaign past its plan has gates, and for a candidate after the first a baseline.
JudgingOf(p, s, log) ==
    /\ s.pc \in Appending \cup Running =>
           /\ s.gate \in Gates
           /\ s.ordinal > 0 /\ ~s.stopped => Baselined(s, log)
    /\ s.pc \in Appending => Pending(p, s)
    /\ s.pc \in Running => ~s.stopped
    /\ s.pc = "judge" => s.result \in ResultTypes

\* A candidate in the log was measured against a baseline that was accepted before.
Measured(g, log, i) ==
    /\ Judged(g, log[i])
    /\ log[i].ordinal > 0 /\ log[i].status = "succeeded" =>
           \E j \in 1..(i - 1) : /\ log[j].ordinal = 0
                                 /\ log[j].accepted
                                 /\ log[j].metrics = log[i].base

RecordedOf(g, log) ==
    log # <<>> => g \in Gates /\ \A i \in DOMAIN log : Measured(g, log, i)

\* One outcome of each candidate before the one under way.
Outcomes(log) == {k \in DOMAIN log : log[k].status \in Terminal}
Settled(p, s, log) ==
    /\ s.ordinal <= LastCandidate[p]
    /\ \A k \in DOMAIN log : log[k].campaign = p /\ log[k].ordinal <= s.ordinal
    /\ \A k, l \in Outcomes(log) : log[k].ordinal = log[l].ordinal => k = l
    /\ \A i \in 0..(s.ordinal - 1) : \E k \in Outcomes(log) : log[k].ordinal = i
    /\ s.stopped => \A k \in Outcomes(log) : log[k].ordinal > 0 => log[k].status = "cancelled"

SettledOf(p, s, log) ==
    /\ Settled(p, s, log)
    /\ s.pc \in Appending \cup Running => \A k \in Outcomes(log) : log[k].ordinal < s.ordinal
    /\ s.pc = "returned" =>
           s.ordinal = LastCandidate[p] /\ \E k \in Outcomes(log) : log[k].ordinal = s.ordinal

\* The last snapshot of a candidate in the file is its outcome.
FiledOf(p, s, log, pieces) ==
    /\ \A l \in DOMAIN pieces : pieces[l].snap.campaign = p => pieces[l].snap.ordinal <= s.ordinal
    /\ \A k \in Outcomes(log) :
           \E f \in DOMAIN pieces :
               /\ pieces[f].snap = log[k]
               /\ \A l \in DOMAIN pieces :
                      pieces[l].snap.campaign = p /\ pieces[l].snap.ordinal = log[k].ordinal
                          => l <= f

\* Without a broken append every line is whole, but the one that is being written.
Clean ==
    Broken = {} =>
        \A l \in DOMAIN file :
            file[l].part = "whole" \/ (l = Len(file) /\ \E p \in Campaigns : st[p].pc = "rest")

Locked == \A p \in Campaigns : LockedBy(p, st[p])
Planned == \A p \in Campaigns : PlannedOf(st[p], acked[p])
Judging == \A p \in Campaigns : JudgingOf(p, st[p], acked[p])
Recorded == \A p \in Campaigns : RecordedOf(st[p].gate, acked[p])
AllSettled == \A p \in Campaigns : SettledOf(p, st[p], acked[p])
Filed == \A p \in Campaigns : FiledOf(p, st[p], acked[p], file)

IInv == Locked /\ Planned /\ Judging /\ Recorded /\ AllSettled /\ Filed /\ Clean

-----------------------------------------------------------------------------
(* Numbers *)

\* A product of naturals is none below zero, and not zero if they are not.
LEMMA ProductIsNat ==
  ASSUME NEW i \in Nat, NEW j \in Nat
  PROVE  i * j \in Nat /\ (i > 0 /\ j > 0 => i * j > 0)
OBVIOUS

\* Multiplying keeps the order.
LEMMA Scaled ==
  ASSUME NEW i \in Nat, NEW j \in Nat, NEW k \in Nat, i <= j
  PROVE  i * k <= j * k
<1>1. (j - i) * k \in Nat
  BY ProductIsNat
<1>2. j * k = i * k + (j - i) * k
  OBVIOUS
<1>3. i * k \in Int /\ j * k \in Int
  OBVIOUS
<1> QED
  BY <1>1, <1>2, <1>3

\* The performance gate lets nothing pass that is not good.
LEMMA GatePassesGood ==
  ASSUME NEW g \in Gates, NEW b \in Metrics, NEW c \in Metrics, PerformanceGate(g, b, c)
  PROVE  IF g.improvement > 0
         THEN LET gain == IF g.direction = "minimize" THEN b.perf - c.perf ELSE c.perf - b.perf
              IN  gain > 0 /\ 100 * gain >= g.improvement * Magnitude(b.perf)
         ELSE LET gain == IF g.direction = "minimize" THEN b.perf - c.perf ELSE c.perf - b.perf
                  slack == IF g.regression > g.noise THEN g.regression ELSE g.noise
              IN  gain >= 0 \/ (b.perf # 0 /\ 100 * (-gain) <= slack * Magnitude(b.perf))
<1> DEFINE base == b.perf
           delta == IF g.direction = "minimize" THEN base - c.perf ELSE c.perf - base
           size == Magnitude(base)
           slack == IF g.regression > g.noise THEN g.regression ELSE g.noise
<1>1. base \in Int /\ c.perf \in Int /\ delta \in Int
  BY NoneAssumption DEF PerformanceGate, Metrics, Numbers
<1>2. size \in Nat /\ (base = 0 <=> size = 0) /\ Magnitude(delta) \in Nat
      /\ (Magnitude(delta) = delta \/ Magnitude(delta) = -delta)
      /\ (Magnitude(delta) = 0 => delta = 0)
  BY <1>1 DEF Magnitude
<1>3. g.improvement \in Nat /\ g.regression \in Nat /\ g.noise \in Nat /\ slack \in Nat
  BY DEF Gates
<1>4. IF base = 0 THEN delta > 0 \/ (delta = 0 /\ g.improvement = 0)
      ELSE (IF 100 * Magnitude(delta) <= g.noise * size THEN 0 ELSE 100 * delta)
             >= (IF g.improvement > 0 THEN g.improvement ELSE -g.regression) * size
  BY DEF PerformanceGate
<1>5. (-g.regression) * size = -(g.regression * size)
  BY <1>2, <1>3
<1>6. /\ g.improvement * size \in Nat /\ g.noise * size \in Nat /\ g.regression * size \in Nat
      /\ slack * size \in Nat
      /\ g.noise * size <= slack * size /\ g.regression * size <= slack * size
      /\ (g.improvement > 0 /\ size > 0 => g.improvement * size > 0)
      /\ (size = 0 => g.improvement * size = 0)
  <2>1. g.noise <= slack /\ g.regression <= slack
    BY <1>3
  <2> HIDE DEF size, slack
  <2> QED
    BY <1>2, <1>3, <2>1, ProductIsNat, Scaled
<1> HIDE DEF size
<1>7. CASE g.improvement > 0
  <2>1. delta > 0 /\ 100 * delta >= g.improvement * size
    BY <1>1, <1>2, <1>4, <1>6, <1>7
  <2> QED
    BY <1>7, <2>1 DEF size
<1>8. CASE ~(g.improvement > 0)
  <2>1. delta >= 0 \/ (base # 0 /\ 100 * (-delta) <= slack * size)
    <3> HIDE DEF slack, delta, base
    <3> SUFFICES ASSUME delta < 0
                 PROVE  base # 0 /\ 100 * (-delta) <= slack * size
      BY <1>1
    <3>1. base # 0 /\ Magnitude(delta) = -delta
      BY <1>1, <1>2, <1>4
    <3>2. (IF 100 * Magnitude(delta) <= g.noise * size THEN 0 ELSE 100 * delta)
            >= (-g.regression) * size
      BY <1>4, <1>8, <3>1
    <3>3. 100 * (-delta) <= g.noise * size \/ 100 * delta >= -(g.regression * size)
      BY <1>5, <3>1, <3>2
    <3> QED
      BY <1>1, <1>2, <1>6, <3>1, <3>3
  <2> QED
    BY <1>8, <2>1 DEF size
<1> QED
  BY <1>7, <1>8

\* A verdict of the gates on a candidate is the one its two results deserve.
LEMMA VerdictIsDeserved ==
  ASSUME NEW g \in Gates, NEW b \in Metrics, NEW c \in Metrics, CorrectnessGate(g, b)
  PROVE  /\ CompositeGate(g, b, c) <=> EvaluateExisting(g, b, c)
         /\ CompositeGate(g, b, c) => Good(g, b, c)
<1>1. CompositeGate(g, b, c) => CorrectnessGate(g, c) /\ PerformanceGate(g, b, c)
  BY DEF CompositeGate
<1>2. CompositeGate(g, b, c) => Good(g, b, c)
  BY <1>1, GatePassesGood DEF CorrectnessGate, Good
<1> QED
  BY <1>2 DEF EvaluateExisting

\* What a result that parses says is a number or missing.
LEMMA ParsedIsMetrics ==
  ASSUME NEW r \in ResultTypes
  PROVE  ParseResult(r) \in Metrics
<1>1. SuccessRate(r) \in Numbers
  <2> DEFINE of == IF Finite(r.completed) /\ Finite(r.failed) THEN r.completed + r.failed
                   ELSE IF Finite(r.completed) /\ Finite(r.requested) THEN r.requested ELSE 0
  <2>1. of > 0 => Finite(r.completed)
    OBVIOUS
  <2>2. of \in Int
    BY NoneAssumption DEF Finite, ResultTypes
  <2>3. of > 0 => r.completed \in Int
    BY <2>1, NoneAssumption DEF Finite, ResultTypes
  <2>4. of > 0 => (100 * r.completed) \div of \in Int
    BY <2>2, <2>3
  <2>5. SuccessRate(r) = IF of > 0 THEN (100 * r.completed) \div of ELSE None
    BY DEF SuccessRate
  <2> HIDE DEF of
  <2> QED
    BY <2>4, <2>5 DEF Numbers
<1>2. (IF Finite(r.perf) THEN r.perf ELSE None) \in Numbers
  BY NoneAssumption DEF Finite, ResultTypes, Numbers
<1> QED
  BY <1>1, <1>2 DEF ParseResult, Metrics

-----------------------------------------------------------------------------
(* Commands *)

\* What CommandWritesItsResult asks of a command.
Writes(argv) ==
    LET outputs == {t.option : t \in {u \in argv : u.by = "plan"}} \cap ManagedOutput
    IN  /\ outputs # {}
        /\ \A t \in argv : t.exact /\ t.by # "value" =>
               /\ ~ProfileControl(t.option)
               /\ t.option \in outputs => t.by = "plan"

\* A command that reserves the outputs it sets has them for itself.
LEMMA RenderWrites ==
  ASSUME NEW fixed, NEW base, NEW ps, NEW reserved, Render(fixed, base, ps, reserved) # Refused,
         \A a \in base : ~(a.exact /\ a.option \in ManagedOutput),
         \A o \in fixed : o # "profile" /\ (o \in ManagedOutput => o \in reserved),
         NEW o \in fixed, o \in ManagedOutput
  PROVE  Writes(Render(fixed, base, ps, reserved))
<1> DEFINE names == {[option |-> x.name, exact |-> x.exact] : x \in ps}
           plan == [option : fixed, exact : {TRUE}, by : {"plan"}]
           argv == plan \cup Tokens(base, "base") \cup Tokens(names, "parameter")
                   \cup Tokens(UNION {x.values : x \in ps}, "value")
           outputs == {t.option : t \in {u \in argv : u.by = "plan"}} \cap ManagedOutput
<1>1. /\ Render(fixed, base, ps, reserved) = argv
      /\ \A a \in base : ~(a.exact /\ ProfileControl(a.option))
      /\ \A x \in ps : x.exact => ~ProfileControl(x.name) /\ x.name \notin reserved
  BY DEF Render
<1>2. ASSUME NEW t \in argv
      PROVE  \/ t.by = "plan" /\ t.option \in fixed
             \/ t.by = "value"
             \/ t.by = "base" /\ \E a \in base : t.option = a.option /\ t.exact = a.exact
             \/ t.by = "parameter" /\ \E x \in ps : t.option = x.name /\ t.exact = x.exact
  <2>1. CASE t \in plan
    BY <2>1
  <2>2. CASE t \in Tokens(base, "base")
    BY <2>2 DEF Tokens
  <2>3. CASE t \in Tokens(names, "parameter")
    BY <2>3 DEF Tokens
  <2>4. CASE t \in Tokens(UNION {x.values : x \in ps}, "value")
    BY <2>4 DEF Tokens
  <2> QED
    BY <2>1, <2>2, <2>3, <2>4
<1>3. o \in outputs
  <2>1. PICK t : t = [option |-> o, exact |-> TRUE, by |-> "plan"]
    OBVIOUS
  <2>2. t \in plan /\ t.by = "plan" /\ t.option = o
    BY <2>1
  <2> HIDE DEF plan
  <2>3. t \in argv
    BY <2>2
  <2> HIDE DEF argv
  <2> QED
    BY <2>2, <2>3
<1> HIDE DEF argv
<1>4. \A w \in outputs : w \in ManagedOutput /\ w \in reserved
  BY <1>2
<1>5. ASSUME NEW t \in argv, t.exact, t.by # "value"
      PROVE  ~ProfileControl(t.option) /\ (t.option \in outputs => t.by = "plan")
  <2> HIDE DEF outputs
  <2> QED
    BY <1>1, <1>2, <1>4, <1>5 DEF ProfileControl
<1> QED
  BY <1>1, <1>3, <1>5 DEF Writes

\* A plan that is accepted, and is not for a command that manages a service, keeps
\* its outputs from every argument the adapter looks at.
LEMMA PlanWrites ==
  ASSUME NEW d \in DocumentTypes, LoadConfig(d), PlanOf(d) # Refused, ~ManagesLifecycle(d)
  PROVE  Writes(BuildCommand(d))
<1> DEFINE given == CandidateInputs(d.parameters).parameters
<1>1. d.mode \in {"serve", "latency", "throughput"} /\ d.framework \in {"sglang", "vllm"}
  BY DEF DocumentTypes, ManagesLifecycle, LoadConfig
<1>2. BuildCommand(d) # Refused /\ \A a \in d.base : ~(a.exact /\ a.option \in ManagedOutput)
  BY DEF PlanOf
<1>3. BuildCommand(d) = IF d.framework = "sglang"
                        THEN IF d.mode = "serve" THEN SGLangServe(d.base, given) ELSE Refused
                        ELSE IF d.mode = "serve" THEN VLLMServe(d.base, given)
                        ELSE IF d.mode = "latency" THEN VLLMLatency(d.base, given)
                        ELSE VLLMThroughput(d.base, given)
  BY <1>1 DEF BuildCommand
<1> HIDE DEF given
<1>4. CASE BuildCommand(d) = SGLangServe(d.base, given)
  <2> DEFINE fixed == {"model", "num_prompts", "input_len", "output_len", "max_concurrency",
                       "output_file"}
             kept == {"output_file"}
  <2>1. \A o \in fixed : o # "profile" /\ (o \in ManagedOutput => o \in kept)
    BY DEF ManagedOutput
  <2>2. "output_file" \in fixed /\ "output_file" \in ManagedOutput
    BY DEF ManagedOutput
  <2>3. BuildCommand(d) = Render(fixed, d.base, given, kept)
    BY <1>4 DEF SGLangServe
  <2> HIDE DEF fixed, kept
  <2> QED
    BY <1>2, <2>1, <2>2, <2>3, RenderWrites
<1>5. CASE BuildCommand(d) = VLLMServe(d.base, given)
  <2> DEFINE fixed == {"model", "num_prompts", "input_len", "output_len", "max_concurrency",
                       "save_result", "result_dir", "result_filename"}
             kept == {"save_result", "result_dir", "result_filename"}
  <2>1. \A o \in fixed : o # "profile" /\ (o \in ManagedOutput => o \in kept)
    BY DEF ManagedOutput
  <2>2. "result_dir" \in fixed /\ "result_dir" \in ManagedOutput
    BY DEF ManagedOutput
  <2>3. BuildCommand(d) = Render(fixed, d.base, given, kept)
    BY <1>5 DEF VLLMServe
  <2> HIDE DEF fixed, kept
  <2> QED
    BY <1>2, <2>1, <2>2, <2>3, RenderWrites
<1>6. CASE BuildCommand(d) = VLLMLatency(d.base, given)
  <2> DEFINE fixed == {"model", "input_len", "output_len", "batch_size", "output_json"}
             kept == {"output_json"}
  <2>1. \A o \in fixed : o # "profile" /\ (o \in ManagedOutput => o \in kept)
    BY DEF ManagedOutput
  <2>2. "output_json" \in fixed /\ "output_json" \in ManagedOutput
    BY DEF ManagedOutput
  <2>3. BuildCommand(d) = Render(fixed, d.base, given, kept)
    BY <1>6 DEF VLLMLatency
  <2> HIDE DEF fixed, kept
  <2> QED
    BY <1>2, <2>1, <2>2, <2>3, RenderWrites
<1>7. CASE BuildCommand(d) = VLLMThroughput(d.base, given)
  <2> DEFINE fixed == {"model", "num_prompts", "input_len", "output_len", "output_json"}
             kept == {"output_json"}
  <2>1. \A o \in fixed : o # "profile" /\ (o \in ManagedOutput => o \in kept)
    BY DEF ManagedOutput
  <2>2. "output_json" \in fixed /\ "output_json" \in ManagedOutput
    BY DEF ManagedOutput
  <2>3. BuildCommand(d) = Render(fixed, d.base, given, kept)
    BY <1>7 DEF VLLMThroughput
  <2> HIDE DEF fixed, kept
  <2> QED
    BY <1>2, <2>1, <2>2, <2>3, RenderWrites
<1> QED
  BY <1>1, <1>2, <1>3, <1>4, <1>5, <1>6, <1>7

-----------------------------------------------------------------------------
(* The ledger file *)

\* What a write leaves: one piece more, or the last one made whole; its snapshot is
\* the writer's, and all before it is as it was.
WrittenBy(w, snap, part) ==
    /\ w \in Seq(Pieces) /\ w # <<>> /\ Last(w).snap = snap
    /\ part = "tail" => Len(w) = Len(file) /\ Last(w).part = "whole"
    /\ part # "tail" => Len(w) = Len(file) + 1 /\ Last(w).part = part
    /\ \A l \in DOMAIN file : w[l].snap = file[l].snap
    /\ \A l \in 1..(Len(w) - 1) : l \in DOMAIN file /\ w[l] = file[l]

\* A row with one more at its end.
LEMMA Appended ==
  ASSUME NEW T, NEW f \in Seq(T), NEW e \in T, NEW n \in Nat, Len(f) = n
  PROVE  /\ Append(f, e) \in Seq(T) /\ Len(Append(f, e)) = n + 1 /\ Append(f, e)[n + 1] = e
         /\ DOMAIN Append(f, e) = 1..(n + 1) /\ \A l \in 1..n : Append(f, e)[l] = f[l]
OBVIOUS

\* A write leaves what WrittenBy says, whichever part of the line it puts down.
LEMMA WrittenIs ==
  ASSUME TypeOK, NEW p \in Campaigns, st[p].snap \in Snapshots,
         NEW part \in {"whole", "head", "bare", "tail"},
         part = "tail" => file # <<>> /\ Fragment(Last(file)) /\ Last(file).snap = st[p].snap
  PROVE  WrittenBy(Written(p, part), st[p].snap, part)
<1> DEFINE n == Len(file)
           new == Piece(p, IF part = "tail" THEN "whole" ELSE part)
<1>1. /\ file \in Seq(Pieces) /\ n \in Nat /\ DOMAIN file = 1..n
      /\ file # <<>> => n > 0
  BY DEF TypeOK
<1>2. new \in Pieces /\ new.snap = st[p].snap /\ new.part = IF part = "tail" THEN "whole" ELSE part
  BY DEF Piece, Pieces
<1>3. CASE part = "tail"
  <2> DEFINE f == Front(file)
             w == Append(f, new)
  <2>1. n > 0 /\ Last(file).snap = st[p].snap /\ Last(file) = file[n]
    BY <1>1, <1>3 DEF Last
  <2>2. Written(p, part) = f \o <<new>>
    BY <1>3 DEF Written
  <2>3. f \in Seq(Pieces) /\ Len(f) = n - 1 /\ \A l \in 1..(n - 1) : f[l] = file[l]
    BY <1>1, <2>1 DEF Front
  <2> HIDE DEF f, new
  <2>4. f \o <<new>> = Append(f, new)
    BY <1>2, <2>3
  <2>5. /\ w \in Seq(Pieces) /\ Len(w) = n /\ w[n] = new /\ DOMAIN w = 1..n
        /\ \A l \in 1..(n - 1) : w[l] = f[l]
    <3>1. f \in Seq(Pieces) /\ new \in Pieces
      BY <1>2, <2>3
    <3> HIDE DEF n
    <3>2. n - 1 \in Nat /\ Len(f) = n - 1 /\ n \in Nat /\ (n - 1) + 1 = n
      BY <1>1, <2>1, <2>3
    <3> QED
      BY <3>1, <3>2, Appended
  <2> HIDE DEF w
  <2>6. \A l \in DOMAIN file : w[l].snap = file[l].snap
    BY <1>1, <1>2, <2>1, <2>3, <2>5
  <2>7. \A l \in 1..(Len(w) - 1) : l \in DOMAIN file /\ w[l] = file[l]
    BY <1>1, <2>3, <2>5
  <2>8. w # <<>> /\ Last(w) = new
    BY <1>1, <2>1, <2>5 DEF Last
  <2>9. WrittenBy(w, st[p].snap, part)
    BY <1>2, <1>3, <2>5, <2>6, <2>7, <2>8 DEF WrittenBy
  <2> QED
    BY <2>2, <2>4, <2>9 DEF w
<1>4. CASE part # "tail"
  <2> DEFINE w == Append(file, new)
  <2>1. Written(p, part) = w
    BY <1>4 DEF Written
  <2> HIDE DEF new
  <2>2. /\ w \in Seq(Pieces) /\ Len(w) = n + 1 /\ w[n + 1] = new /\ DOMAIN w = 1..(n + 1)
        /\ \A l \in 1..n : w[l] = file[l]
    BY <1>1, <1>2, Appended
  <2> HIDE DEF w
  <2>3. w # <<>> /\ Last(w) = new
    BY <1>1, <2>2 DEF Last
  <2>4. \A l \in 1..(Len(w) - 1) : l \in DOMAIN file /\ w[l] = file[l]
    BY <1>1, <2>2
  <2>5. \A l \in DOMAIN file : w[l].snap = file[l].snap
    BY <1>1, <2>2
  <2> QED
    BY <1>2, <1>4, <2>1, <2>2, <2>3, <2>4, <2>5 DEF WrittenBy
<1> QED
  BY <1>3, <1>4

\* So all places but the last are old ones.
LEMMA OldPlaces ==
  ASSUME file \in Seq(Pieces), NEW snap, NEW w, NEW part, WrittenBy(w, snap, part)
  PROVE  /\ Len(w) \in DOMAIN w /\ w[Len(w)].snap = snap
         /\ \A l \in DOMAIN w : w[l] \in Pieces /\ l \in Nat /\ l <= Len(w)
         /\ \A l \in DOMAIN w : l = Len(w) \/ (l \in DOMAIN file /\ w[l].snap = file[l].snap)
         /\ \A l \in DOMAIN file : l \in DOMAIN w /\ w[l].snap = file[l].snap
<1> DEFINE n == Len(w)
           m == Len(file)
<1>1. /\ w \in Seq(Pieces) /\ w # <<>> /\ w[n].snap = snap /\ (m = n \/ n = m + 1)
      /\ \A l \in DOMAIN file : w[l].snap = file[l].snap
  BY DEF WrittenBy, Last
<1>2. n \in Nat /\ n > 0 /\ DOMAIN w = 1..n /\ \A l \in DOMAIN w : w[l] \in Pieces
  BY <1>1
<1>3. m \in Nat /\ DOMAIN file = 1..m
  OBVIOUS
<1>4. m = n \/ n = m + 1
  BY <1>1
<1> HIDE DEF n, m
<1>5. n \in DOMAIN w /\ \A l \in DOMAIN w : w[l] \in Pieces /\ l \in Nat /\ l <= n
  BY <1>2
<1>6. \A l \in DOMAIN w : l = n \/ l \in DOMAIN file
  BY <1>2, <1>3, <1>4
<1>7. \A l \in DOMAIN file : l \in DOMAIN w
  BY <1>2, <1>3, <1>4
<1> QED
  BY <1>1, <1>5, <1>6, <1>7 DEF n

\* A write of the snapshot of the candidate under way leaves the outcomes before it
\* where they were.
LEMMA FileGrows ==
  ASSUME file \in Seq(Pieces), NEW p \in Campaigns, NEW s \in States, NEW log \in Seq(Snapshots),
         FiledOf(p, s, log, file), \A k \in Outcomes(log) : log[k].ordinal < s.ordinal,
         NEW snap \in Snapshots, snap.campaign = p, snap.ordinal = s.ordinal,
         NEW w, NEW part, WrittenBy(w, snap, part),
         NEW t \in States, t.ordinal >= s.ordinal
  PROVE  FiledOf(p, t, log, w) /\ FiledOf(p, t, Append(log, snap), w)
<1> DEFINE n == Len(w)
           more == Append(log, snap)
<1>1. /\ n \in DOMAIN w /\ w[n].snap = snap
      /\ \A l \in DOMAIN w : w[l] \in Pieces /\ l \in Nat /\ l <= n
      /\ \A l \in DOMAIN file : l \in DOMAIN w /\ w[l].snap = file[l].snap
  BY OldPlaces
<1>2. s.ordinal \in Nat /\ t.ordinal \in Nat
  BY DEF States
<1>3. \A l \in DOMAIN w : l = n \/ (l \in DOMAIN file /\ w[l].snap = file[l].snap)
  BY OldPlaces
<1>4. /\ more \in Seq(Snapshots) /\ Len(more) = Len(log) + 1 /\ Len(log) \in Nat
      /\ DOMAIN log = 1..Len(log) /\ DOMAIN more = 1..(Len(log) + 1)
      /\ more[Len(log) + 1] = snap /\ \A k \in DOMAIN log : more[k] = log[k]
  OBVIOUS
<1> HIDE DEF n, more
<1>5. \A l \in DOMAIN w : w[l].snap.campaign = p => w[l].snap.ordinal <= t.ordinal
  <2> SUFFICES ASSUME NEW l \in DOMAIN w, w[l].snap.campaign = p
               PROVE  w[l].snap.ordinal <= t.ordinal
    OBVIOUS
  <2>1. CASE l = n
    BY <1>1, <1>2, <2>1
  <2>2. CASE l \in DOMAIN file /\ w[l].snap = file[l].snap
    <3>1. file[l].snap.ordinal <= s.ordinal
      BY <2>2 DEF FiledOf
    <3>2. file[l].snap.ordinal \in Nat
      BY <1>1, <2>2 DEF Pieces, Snapshots
    <3> QED
      BY <1>2, <2>2, <3>1, <3>2
  <2> QED
    BY <1>3, <2>1, <2>2
<1>6. ASSUME NEW k \in Outcomes(log)
      PROVE  \E f \in DOMAIN w :
                 /\ w[f].snap = log[k]
                 /\ \A l \in DOMAIN w :
                        w[l].snap.campaign = p /\ w[l].snap.ordinal = log[k].ordinal => l <= f
  <2>1. PICK f \in DOMAIN file :
            /\ file[f].snap = log[k]
            /\ \A l \in DOMAIN file :
                   file[l].snap.campaign = p /\ file[l].snap.ordinal = log[k].ordinal => l <= f
    BY DEF FiledOf
  <2>2. f \in DOMAIN w /\ w[f].snap = log[k]
    BY <1>1, <2>1
  <2>3. log[k].ordinal # snap.ordinal
    <3>1. log[k] \in Snapshots
      BY <1>4 DEF Outcomes
    <3>2. log[k].ordinal \in Nat
      BY <3>1 DEF Snapshots
    <3> QED
      BY <1>2, <3>2
  <2>4. \A l \in DOMAIN w :
            w[l].snap.campaign = p /\ w[l].snap.ordinal = log[k].ordinal => l <= f
    BY <1>1, <1>3, <2>1, <2>3
  <2> QED
    BY <2>2, <2>4
<1>7. ASSUME NEW k \in Outcomes(more)
      PROVE  \E f \in DOMAIN w :
                 /\ w[f].snap = more[k]
                 /\ \A l \in DOMAIN w :
                        w[l].snap.campaign = p /\ w[l].snap.ordinal = more[k].ordinal => l <= f
  <2>1. CASE k = Len(log) + 1
    <3>1. n \in DOMAIN w /\ w[n].snap = more[k] /\ \A l \in DOMAIN w : l <= n
      BY <1>1, <1>4, <2>1
    <3> QED
      BY <3>1
  <2>2. CASE k \in DOMAIN log
    <3>1. k \in Outcomes(log) /\ more[k] = log[k]
      BY <1>4, <2>2 DEF Outcomes
    <3> QED
      BY <1>6, <3>1
  <2> QED
    BY <1>4, <2>1, <2>2 DEF Outcomes
<1> QED
  BY <1>5, <1>6, <1>7 DEF FiledOf, more

\* It is none of the other campaigns' business.
LEMMA FileOfOthers ==
  ASSUME file \in Seq(Pieces), NEW p \in Campaigns, NEW s, NEW log, FiledOf(p, s, log, file),
         NEW snap, snap.campaign # p, NEW w, NEW part, WrittenBy(w, snap, part)
  PROVE  FiledOf(p, s, log, w)
<1>1. w[Len(w)].snap = snap
  BY OldPlaces
<1>2. \A l \in DOMAIN w : w[l].snap.campaign = p => l \in DOMAIN file /\ w[l].snap = file[l].snap
  <2>1. \A l \in DOMAIN w : l = Len(w) \/ (l \in DOMAIN file /\ w[l].snap = file[l].snap)
    BY OldPlaces
  <2> QED
    BY <1>1, <2>1
<1>3. \A l \in DOMAIN file : l \in DOMAIN w /\ w[l].snap = file[l].snap
  BY OldPlaces
<1>4. \A l \in DOMAIN w : w[l].snap.campaign = p => w[l].snap.ordinal <= s.ordinal
  BY <1>2 DEF FiledOf
<1>5. ASSUME NEW k \in Outcomes(log)
      PROVE  \E f \in DOMAIN w :
                 /\ w[f].snap = log[k]
                 /\ \A l \in DOMAIN w :
                        w[l].snap.campaign = p /\ w[l].snap.ordinal = log[k].ordinal => l <= f
  <2>1. PICK f \in DOMAIN file :
            /\ file[f].snap = log[k]
            /\ \A l \in DOMAIN file :
                   file[l].snap.campaign = p /\ file[l].snap.ordinal = log[k].ordinal => l <= f
    BY DEF FiledOf
  <2> QED
    BY <1>2, <1>3, <2>1
<1> QED
  BY <1>4, <1>5 DEF FiledOf

-----------------------------------------------------------------------------
(* Steps *)

\* A step that sets the state of one campaign leaves the types as they are.
LEMMA Moved ==
  ASSUME TypeOK, NEW p \in Campaigns, NEW s \in States, Goto(p, s)
  PROVE  /\ st' \in [Campaigns -> States] /\ st'[p] = s
         /\ \A q \in Campaigns \ {p} : st'[q] = st[q]
BY DEF TypeOK, Goto

\* A campaign moves alone: what is asked of it is asked of nobody else.
LEMMA MovesAlone ==
  ASSUME IInv, NEW p \in Campaigns, NEW s, NEW log, st'[p] = s, acked'[p] = log,
         \A q \in Campaigns \ {p} : st'[q] = st[q] /\ acked'[q] = acked[q],
         PlannedOf(s, log), JudgingOf(p, s, log), RecordedOf(s.gate, log), SettledOf(p, s, log)
  PROVE  Planned' /\ Judging' /\ Recorded' /\ AllSettled'
<1>1. /\ \A q \in Campaigns : PlannedOf(st[q], acked[q])
      /\ \A q \in Campaigns : JudgingOf(q, st[q], acked[q])
      /\ \A q \in Campaigns : RecordedOf(st[q].gate, acked[q])
      /\ \A q \in Campaigns : SettledOf(q, st[q], acked[q])
  BY DEF IInv, Planned, Judging, Recorded, AllSettled
<1>2. /\ \A q \in Campaigns : PlannedOf(st'[q], acked'[q])
      /\ \A q \in Campaigns : JudgingOf(q, st'[q], acked'[q])
      /\ \A q \in Campaigns : RecordedOf(st'[q].gate, acked'[q])
      /\ \A q \in Campaigns : SettledOf(q, st'[q], acked'[q])
  BY <1>1
<1> QED
  BY <1>2 DEF Planned, Judging, Recorded, AllSettled

\* The campaigns that have not ended, and are not about to, are not broken.
LEMMA StillWhole ==
  ASSUME NEW p \in Campaigns, st[p].pc \notin Ended, Broken' = {},
         \A q \in Campaigns \ {p} : st'[q] = st[q]
  PROVE  Broken = {}
BY DEF Broken, Ended

\* A step that has nothing to do with the ledger file.
LEMMA Quiet ==
  ASSUME TypeOK, IInv, NEW p \in Campaigns, NEW s \in States, Goto(p, s),
         UNCHANGED <<lock, file, acked, faults>>,
         st[p].pc \notin {"write", "rest"} \cup Ended, s.pc \notin {"write", "rest"},
         s.ordinal = st[p].ordinal, PlannedOf(s, acked[p]), JudgingOf(p, s, acked[p]),
         RecordedOf(s.gate, acked[p]), SettledOf(p, s, acked[p])
  PROVE  TypeOK' /\ IInv'
<1>1. /\ st' \in [Campaigns -> States] /\ st'[p] = s
      /\ \A q \in Campaigns \ {p} : st'[q] = st[q]
  BY Moved
<1>2. lock' = lock /\ file' = file /\ acked' = acked /\ faults' = faults
  OBVIOUS
<1>3. TypeOK'
  BY <1>1, <1>2 DEF TypeOK
<1>4. Planned' /\ Judging' /\ Recorded' /\ AllSettled'
  BY <1>1, <1>2, MovesAlone
<1>5. Locked'
  <2>1. \A q \in Campaigns : LockedBy(q, st[q])
    BY DEF IInv, Locked
  <2>2. lock # p
    BY <2>1 DEF LockedBy
  <2>3. \A q \in Campaigns : LockedBy(q, st[q])'
    BY <1>1, <1>2, <2>1, <2>2 DEF LockedBy
  <2> QED
    BY <2>3 DEF Locked
<1>6. Filed'
  <2>1. \A q \in Campaigns : FiledOf(q, st[q], acked[q], file)
    BY DEF IInv, Filed
  <2>2. FiledOf(p, s, acked[p], file)
    BY <2>1 DEF FiledOf
  <2>3. \A q \in Campaigns : FiledOf(q, st'[q], acked'[q], file')
    BY <1>1, <1>2, <2>1, <2>2
  <2> QED
    BY <2>3 DEF Filed
<1>7. Clean'
  <2>1. Broken' = {} => Broken = {}
    BY <1>1, StillWhole
  <2>2. \A q \in Campaigns : st[q].pc = "rest" => st'[q].pc = "rest"
    BY <1>1
  <2> QED
    BY <1>2, <2>1, <2>2 DEF IInv, Clean
<1> QED
  BY <1>3, <1>4, <1>5, <1>6, <1>7 DEF IInv

\* load_campaign: what the configuration holds is what the loader accepts.
LEMMA LoadKeeps ==
  ASSUME TypeOK, IInv, NEW p \in Campaigns, Load(p)
  PROVE  TypeOK' /\ IInv'
<1> DEFINE s == st[p]
           log == acked[p]
<1>1. s \in States /\ log \in Seq(Snapshots)
  BY DEF TypeOK
<1>2. PlannedOf(s, log) /\ SettledOf(p, s, log) /\ RecordedOf(s.gate, log)
  BY DEF IInv, Planned, AllSettled, Recorded
<1>3. s.pc = "load" /\ UNCHANGED <<lock, file, acked, faults>>
  BY DEF Load
<1>4. log = <<>> /\ s.ordinal = 0 /\ ~s.stopped
  BY <1>2, <1>3 DEF PlannedOf, Loading
<1>5. PICK d \in Documents[p] :
          Goto(p, IF LoadConfig(d) THEN [s EXCEPT !.pc = "plan", !.config = d]
                  ELSE [s EXCEPT !.pc = "refused"])
  BY DEF Load
<1>6. d \in DocumentTypes
  BY DocumentsAssumption
<1>7. PICK t : t = IF LoadConfig(d) THEN [s EXCEPT !.pc = "plan", !.config = d]
                   ELSE [s EXCEPT !.pc = "refused"]
  OBVIOUS
<1> HIDE DEF s, log
<1>8. /\ t \in States /\ t.ordinal = s.ordinal /\ t.gate = s.gate /\ t.stopped = s.stopped
      /\ (t.pc = "plan" /\ t.config = d /\ LoadConfig(d)) \/ t.pc = "refused"
  BY <1>1, <1>6, <1>7 DEF States, Places, Loading, Appending, Running, Ended
<1>9. PlannedOf(t, log)
  BY <1>4, <1>6, <1>8 DEF PlannedOf, Loading
<1>10. JudgingOf(p, t, log)
  BY <1>8 DEF JudgingOf, Appending, Running
<1>11. RecordedOf(t.gate, log)
  BY <1>2, <1>8
<1>12. SettledOf(p, t, log)
  BY <1>2, <1>8 DEF SettledOf, Settled, Appending, Running
<1>13. Goto(p, t)
  BY <1>5, <1>7
<1> QED
  BY <1>1, <1>3, <1>8, <1>9, <1>10, <1>11, <1>12, <1>13, Quiet DEF s, log, Ended

\* plan_campaign: the plan is kept with the documents that let it be made.
LEMMA PlanKeeps ==
  ASSUME TypeOK, IInv, NEW p \in Campaigns, Plan(p)
  PROVE  TypeOK' /\ IInv'
<1> DEFINE s == st[p]
           log == acked[p]
<1>1. s \in States /\ log \in Seq(Snapshots)
  BY DEF TypeOK
<1>2. PlannedOf(s, log) /\ SettledOf(p, s, log) /\ RecordedOf(s.gate, log)
  BY DEF IInv, Planned, AllSettled, Recorded
<1>3. s.pc = "plan" /\ UNCHANGED <<lock, file, acked, faults>>
  BY DEF Plan
<1>4. /\ log = <<>> /\ s.ordinal = 0 /\ ~s.stopped
      /\ s.config \in DocumentTypes /\ LoadConfig(s.config)
  BY <1>2, <1>3 DEF PlannedOf, Loading
<1>5. PICK t : t = IF PlanOf(s.config) # Refused /\ ~ManagesLifecycle(s.config)
                   THEN [s EXCEPT !.pc = "planned"]
                   ELSE [s EXCEPT !.pc = "refused", !.config = None]
  OBVIOUS
<1>6. Goto(p, t)
  BY <1>5 DEF Plan
<1> HIDE DEF s, log
<1>7. /\ t \in States /\ t.ordinal = s.ordinal /\ t.gate = s.gate /\ t.stopped = s.stopped
      /\ \/ /\ t.pc = "planned" /\ t.config = s.config
            /\ PlanOf(s.config) # Refused /\ ~ManagesLifecycle(s.config)
         \/ t.pc = "refused"
  BY <1>1, <1>5 DEF States, Places, Loading, Appending, Running, Ended
<1>8. PlannedOf(t, log)
  BY <1>4, <1>7 DEF PlannedOf, Loading
<1>9. JudgingOf(p, t, log)
  BY <1>7 DEF JudgingOf, Appending, Running
<1>10. RecordedOf(t.gate, log)
  BY <1>2, <1>7
<1>11. SettledOf(p, t, log)
  BY <1>2, <1>7 DEF SettledOf, Settled, Appending, Running
<1> QED
  BY <1>3, <1>6, <1>7, <1>8, <1>9, <1>10, <1>11, Quiet DEF s, log, Ended

\* A snapshot without a verdict is one that may be appended.
LEMMA NothingMeasured ==
  ASSUME NEW p \in Campaigns, NEW s, s.ordinal \in Nat, s.stopped \in BOOLEAN,
         NEW status \in {"running", "failed", "cancelled"},
         s.snap = Snapshot(p, s.ordinal, status), s.stopped <=> status = "cancelled",
         s.stopped => s.ordinal > 0
  PROVE  Pending(p, s) /\ s.snap \in Snapshots
<1>1. NoMetrics \in Metrics
  BY DEF NoMetrics, Metrics, Numbers
<1>2. /\ s.snap \in Snapshots /\ s.snap.campaign = p /\ s.snap.ordinal = s.ordinal
      /\ s.snap.status = status /\ ~s.snap.accepted
  BY <1>1 DEF Snapshot, Snapshots, Statuses, Terminal
<1>3. Judged(s.gate, s.snap)
  BY <1>2 DEF Judged
<1> QED
  BY <1>2, <1>3 DEF Pending

\* The gates that can be made from a configuration the loader accepts.
LEMMA GatesAreMade ==
  ASSUME NEW d \in DocumentTypes, LoadConfig(d), GatesCanBeMade(d)
  PROVE  GateOf(d) \in Gates
<1>1. /\ d.minimum \in Int /\ d.improvement \in Int /\ d.regression \in Int /\ d.noise \in Int
  BY DEF DocumentTypes, GatesCanBeMade
<1>2. d.improvement >= 0 /\ d.regression >= 0 /\ d.noise >= 0
  BY <1>1 DEF LoadConfig, ValidGates, AtLeast, GatesCanBeMade
<1>3. d.direction \in {"maximize", "minimize"}
  BY DEF LoadConfig, ValidGates
<1> QED
  BY <1>1, <1>2, <1>3 DEF GateOf, Gates

\* run_campaign begins: the gates are made, and the baseline is on its way to the ledger.
LEMMA BeginKeeps ==
  ASSUME TypeOK, IInv, NEW p \in Campaigns, Begin(p)
  PROVE  TypeOK' /\ IInv'
<1> DEFINE s == st[p]
           log == acked[p]
           d == s.config
<1>1. s \in States /\ log \in Seq(Snapshots)
  BY DEF TypeOK
<1>2. PlannedOf(s, log) /\ SettledOf(p, s, log) /\ RecordedOf(s.gate, log)
  BY DEF IInv, Planned, AllSettled, Recorded
<1>3. s.pc = "planned" /\ UNCHANGED <<lock, file, acked, faults>>
  BY DEF Begin
<1>4. /\ log = <<>> /\ s.ordinal = 0 /\ ~s.stopped
      /\ d \in DocumentTypes /\ LoadConfig(d)
  BY <1>2, <1>3 DEF PlannedOf, Loading
<1>5. CASE GatesCanBeMade(d)
  <2>1. PICK snap : snap = Snapshot(p, 0, "running")
    OBVIOUS
  <2>2. PICK g : g = GateOf(d)
    OBVIOUS
  <2>3. PICK t : t = [s EXCEPT !.pc = "append", !.gate = g, !.config = None, !.snap = snap]
    OBVIOUS
  <2>4. Goto(p, t)
    BY <1>5, <2>1, <2>2, <2>3 DEF Begin
  <2>5. g \in Gates
    BY <1>4, <1>5, <2>2, GatesAreMade
  <2> HIDE DEF s, log
  <2>6. /\ t.pc = "append" /\ t.gate = g /\ t.snap = snap /\ t.ordinal = 0 /\ ~t.stopped
        /\ t.stopped = s.stopped /\ t.ordinal = s.ordinal /\ t.stopped \in BOOLEAN
    BY <1>1, <1>4, <2>3 DEF States
  <2>7. Pending(p, t) /\ snap \in Snapshots
    BY <2>1, <2>6, NothingMeasured
  <2>8. t \in States
    BY <1>1, <2>3, <2>5, <2>7 DEF States, Places, Appending
  <2>9. PlannedOf(t, log)
    BY <2>6 DEF PlannedOf, Loading
  <2>10. JudgingOf(p, t, log)
    BY <2>5, <2>6, <2>7 DEF JudgingOf, Appending, Running
  <2>11. RecordedOf(t.gate, log)
    BY <1>4 DEF RecordedOf
  <2>12. SettledOf(p, t, log)
    <3>1. Outcomes(log) = {}
      BY <1>4 DEF Outcomes
    <3> QED
      BY <1>2, <2>6, <3>1 DEF SettledOf, Settled, Appending, Running
  <2> QED
    BY <1>3, <2>4, <2>6, <2>8, <2>9, <2>10, <2>11, <2>12, Quiet DEF s, log, Ended
<1>6. CASE ~GatesCanBeMade(d)
  <2>1. PICK t : t = [s EXCEPT !.pc = "raised", !.config = None]
    OBVIOUS
  <2>2. Goto(p, t)
    BY <1>6, <2>1 DEF Begin
  <2> HIDE DEF s, log
  <2>3. /\ t \in States /\ t.ordinal = s.ordinal /\ t.gate = s.gate /\ t.stopped = s.stopped
        /\ t.pc = "raised"
    BY <1>1, <2>1 DEF States, Places, Ended
  <2>4. PlannedOf(t, log)
    BY <2>3 DEF PlannedOf, Loading
  <2>5. JudgingOf(p, t, log)
    BY <2>3 DEF JudgingOf, Appending, Running
  <2>6. RecordedOf(t.gate, log)
    BY <1>2, <2>3
  <2>7. SettledOf(p, t, log)
    BY <1>2, <2>3 DEF SettledOf, Settled, Appending, Running
  <2> QED
    BY <1>3, <2>2, <2>3, <2>4, <2>5, <2>6, <2>7, Quiet DEF s, log, Ended
<1> QED
  BY <1>5, <1>6

\* The flock of ExperimentLedger.append: only one campaign writes.
LEMMA FlockKeeps ==
  ASSUME TypeOK, IInv, NEW p \in Campaigns, Flock(p)
  PROVE  TypeOK' /\ IInv'
<1> DEFINE s == st[p]
           log == acked[p]
<1>1. s \in States /\ log \in Seq(Snapshots)
  BY DEF TypeOK
<1>2. PlannedOf(s, log) /\ JudgingOf(p, s, log) /\ SettledOf(p, s, log) /\ RecordedOf(s.gate, log)
  BY DEF IInv, Planned, Judging, AllSettled, Recorded
<1>3. s.pc = "append" /\ lock = None /\ lock' = p /\ UNCHANGED <<file, acked, faults>>
  BY DEF Flock
<1>4. PICK t : t = [s EXCEPT !.pc = "write"]
  OBVIOUS
<1>5. Goto(p, t)
  BY <1>4 DEF Flock
<1>6. /\ t \in States /\ t.pc = "write" /\ t.ordinal = s.ordinal /\ t.gate = s.gate
      /\ t.stopped = s.stopped /\ t.base = s.base /\ t.snap = s.snap
  BY <1>1, <1>4 DEF States, Places, Appending
<1>7. /\ st' \in [Campaigns -> States] /\ st'[p] = t
      /\ \A q \in Campaigns \ {p} : st'[q] = st[q]
  BY <1>5, <1>6, Moved
<1>8. acked'[p] = log /\ file' = file /\ acked' = acked
  BY <1>3
<1> HIDE DEF s, log
<1>9. PlannedOf(t, log)
  BY <1>6 DEF PlannedOf, Loading
<1>10. JudgingOf(p, t, log)
  BY <1>2, <1>3, <1>6 DEF JudgingOf, Pending, Baselined, Appending, Running
<1>11. SettledOf(p, t, log)
  BY <1>2, <1>3, <1>6 DEF SettledOf, Settled, Appending, Running
<1>12. Planned' /\ Judging' /\ Recorded' /\ AllSettled'
  BY <1>2, <1>6, <1>7, <1>8, <1>9, <1>10, <1>11, MovesAlone
<1>13. TypeOK'
  BY <1>3, <1>7 DEF TypeOK
<1>14. Locked'
  <2>1. \A q \in Campaigns : st[q].pc \notin {"write", "rest"}
    BY <1>3, NoneAssumption DEF IInv, Locked, LockedBy
  <2>2. \A q \in Campaigns : LockedBy(q, st[q])'
    BY <1>3, <1>6, <1>7, <2>1 DEF LockedBy
  <2> QED
    BY <2>2 DEF Locked
<1>15. Filed'
  <2>1. \A q \in Campaigns : FiledOf(q, st[q], acked[q], file)
    BY DEF IInv, Filed
  <2>2. FiledOf(p, t, log, file)
    BY <1>6, <2>1 DEF FiledOf, s, log
  <2>3. \A q \in Campaigns : FiledOf(q, st'[q], acked'[q], file')
    BY <1>7, <1>8, <2>1, <2>2
  <2> QED
    BY <2>3 DEF Filed
<1>16. Clean'
  <2>1. Broken' = {} => Broken = {}
    BY <1>3, <1>7, StillWhole DEF Ended, s
  <2>2. \A q \in Campaigns : st[q].pc = "rest" => st'[q].pc = "rest"
    BY <1>3, <1>7 DEF s
  <2> QED
    BY <1>8, <2>1, <2>2 DEF IInv, Clean
<1> QED
  BY <1>12, <1>13, <1>14, <1>15, <1>16 DEF IInv

\* The benchmark of a trial leaves its result, or none.
LEMMA ExecuteKeeps ==
  ASSUME TypeOK, IInv, NEW p \in Campaigns, Execute(p)
  PROVE  TypeOK' /\ IInv'
<1> DEFINE s == st[p]
           log == acked[p]
<1>1. s \in States /\ log \in Seq(Snapshots)
  BY DEF TypeOK
<1>2. PlannedOf(s, log) /\ JudgingOf(p, s, log) /\ SettledOf(p, s, log) /\ RecordedOf(s.gate, log)
  BY DEF IInv, Planned, Judging, AllSettled, Recorded
<1>3. s.pc = "execute" /\ UNCHANGED <<lock, file, acked, faults>>
  BY DEF Execute
<1>4. PICK snap : snap = Snapshot(p, s.ordinal, "failed")
  OBVIOUS
<1>5. PICK r \in Results[p] :
          Goto(p, IF Succeeded(r) THEN [s EXCEPT !.pc = "judge", !.result = r]
                  ELSE [s EXCEPT !.pc = "append", !.snap = snap])
  <2>1. PICK r \in Results[p] :
            IF Succeeded(r) THEN Goto(p, [s EXCEPT !.pc = "judge", !.result = r])
            ELSE Goto(p, [s EXCEPT !.pc = "append", !.snap = snap])
    BY <1>4 DEF Execute
  <2> QED
    BY <2>1
<1>6. r \in ResultTypes
  BY ResultsAssumption
<1>7. PICK t : t = IF Succeeded(r) THEN [s EXCEPT !.pc = "judge", !.result = r]
                   ELSE [s EXCEPT !.pc = "append", !.snap = snap]
  OBVIOUS
<1>8. Goto(p, t)
  BY <1>5, <1>7
<1> HIDE DEF s, log
<1>9. /\ t.ordinal = s.ordinal /\ t.gate = s.gate /\ t.stopped = s.stopped /\ t.base = s.base
      /\ (t.pc = "judge" /\ t.result = r) \/ (t.pc = "append" /\ t.snap = snap)
      /\ t.ordinal \in Nat /\ t.stopped \in BOOLEAN
  BY <1>1, <1>7 DEF States
<1>10. ~s.stopped /\ s.gate \in Gates
  BY <1>2, <1>3 DEF JudgingOf, Running
<1>11. t.pc = "append" => Pending(p, t)
  BY <1>4, <1>9, <1>10, NothingMeasured
<1>12. snap \in Snapshots
  <2>1. NoMetrics \in Metrics
    BY DEF NoMetrics, Metrics, Numbers
  <2> QED
    BY <1>1, <1>4, <2>1 DEF Snapshot, Snapshots, Statuses, Terminal, States
<1>13. t \in States
  <2>1. "judge" \in Places /\ "append" \in Places
    BY DEF Places, Appending, Running
  <2>2. CASE Succeeded(r)
    BY <1>1, <1>6, <1>7, <2>1, <2>2 DEF States
  <2>3. CASE ~Succeeded(r)
    BY <1>1, <1>7, <1>12, <2>1, <2>3 DEF States
  <2> QED
    BY <2>2, <2>3
<1>14. PlannedOf(t, log)
  BY <1>9 DEF PlannedOf, Loading
<1>15. JudgingOf(p, t, log)
  BY <1>2, <1>3, <1>6, <1>9, <1>10, <1>11 DEF JudgingOf, Baselined, Appending, Running
<1>16. SettledOf(p, t, log)
  BY <1>2, <1>3, <1>9 DEF SettledOf, Settled, Appending, Running
<1>17. RecordedOf(t.gate, log)
  BY <1>2, <1>9
<1> QED
  BY <1>3, <1>8, <1>9, <1>13, <1>14, <1>15, <1>16, <1>17, Quiet DEF s, log, Ended

\* The verdict on a trial is put into the snapshot that goes to the ledger.
LEMMA JudgeKeeps ==
  ASSUME TypeOK, IInv, NEW p \in Campaigns, Judge(p)
  PROVE  TypeOK' /\ IInv'
<1> DEFINE s == st[p]
           log == acked[p]
<1>1. s \in States /\ log \in Seq(Snapshots)
  BY DEF TypeOK
<1>2. PlannedOf(s, log) /\ JudgingOf(p, s, log) /\ SettledOf(p, s, log) /\ RecordedOf(s.gate, log)
  BY DEF IInv, Planned, Judging, AllSettled, Recorded
<1>3. s.pc = "judge" /\ UNCHANGED <<lock, file, acked, faults>>
  BY DEF Judge
<1>4. /\ ~s.stopped /\ s.gate \in Gates /\ s.result \in ResultTypes
      /\ s.ordinal > 0 => Baselined(s, log)
  BY <1>2, <1>3 DEF JudgingOf, Running
<1>5. PICK m : m = ParseResult(s.result)
  OBVIOUS
<1>6. m \in Metrics
  BY <1>4, <1>5, ParsedIsMetrics
<1>7. PICK ok : ok = IF s.ordinal = 0 THEN CorrectnessGate(s.gate, m)
                     ELSE CompositeGate(s.gate, s.base, m)
  OBVIOUS
<1>8. PICK judged : judged = IF Parses(s.result)
                             THEN [campaign |-> p, ordinal |-> s.ordinal, status |-> "succeeded",
                                   accepted |-> ok,
                                   base |-> IF s.ordinal = 0 THEN NoMetrics ELSE s.base,
                                   metrics |-> m]
                             ELSE Snapshot(p, s.ordinal, "failed")
  OBVIOUS
<1>9. PICK base : base = IF Parses(s.result) /\ s.ordinal = 0 /\ ok THEN m ELSE s.base
  OBVIOUS
<1>10. PICK t : t = [s EXCEPT !.pc = "append", !.result = None, !.snap = judged, !.base = base]
  OBVIOUS
<1>11. Goto(p, t)
  <2> DEFINE c == [s EXCEPT !.pc = "append", !.result = None]
  <2>1. c.ordinal = s.ordinal /\ c.gate = s.gate /\ c.base = s.base
    BY <1>1 DEF States
  <2>2. Goto(p, IF ~Parses(s.result)
                THEN [c EXCEPT !.snap = Snapshot(p, c.ordinal, "failed")]
                ELSE [c EXCEPT !.snap = judged,
                               !.base = IF c.ordinal = 0 /\ ok THEN m ELSE @])
    <3>1. IF ~Parses(s.result)
          THEN Goto(p, [c EXCEPT !.snap = Snapshot(p, c.ordinal, "failed")])
          ELSE Goto(p, [c EXCEPT !.snap = judged, !.base = IF c.ordinal = 0 /\ ok THEN m ELSE @])
      BY <1>5, <1>7, <1>8, <2>1 DEF Judge
    <3> QED
      BY <3>1
  <2>3. t = IF ~Parses(s.result)
            THEN [c EXCEPT !.snap = Snapshot(p, c.ordinal, "failed")]
            ELSE [c EXCEPT !.snap = judged, !.base = IF c.ordinal = 0 /\ ok THEN m ELSE @]
    BY <1>1, <1>8, <1>9, <1>10, <2>1 DEF States
  <2> QED
    BY <2>2, <2>3
<1> HIDE DEF s, log
<1>12. /\ t.ordinal = s.ordinal /\ t.gate = s.gate /\ t.stopped = s.stopped /\ t.base = base
       /\ t.pc = "append" /\ t.snap = judged /\ t.ordinal \in Nat /\ t.stopped \in BOOLEAN
  BY <1>1, <1>10 DEF States
<1>13. ok \in BOOLEAN
  BY <1>7 DEF CorrectnessGate, CompositeGate
<1>14. s.ordinal > 0 => s.base \in Metrics /\ CorrectnessGate(s.gate, s.base)
  BY <1>4 DEF Baselined
<1>15. Pending(p, t) /\ judged \in Snapshots
  <2>1. CASE ~Parses(s.result)
    BY <1>4, <1>8, <1>12, <2>1, NothingMeasured
  <2>2. CASE Parses(s.result)
    <3>1. NoMetrics \in Metrics /\ s.ordinal \in Nat
      BY <1>1 DEF NoMetrics, Metrics, Numbers, States
    <3>2. /\ judged.campaign = p /\ judged.ordinal = s.ordinal /\ judged.status = "succeeded"
          /\ judged.accepted = ok /\ judged.metrics = m
          /\ judged.base = IF s.ordinal = 0 THEN NoMetrics ELSE s.base
      BY <1>8, <2>2
    <3>3. judged \in Snapshots
      <4>1. (IF s.ordinal = 0 THEN NoMetrics ELSE s.base) \in Metrics
        BY <1>14, <3>1
      <4> QED
        BY <1>6, <1>8, <1>13, <2>2, <3>1, <4>1 DEF Snapshots, Statuses, Terminal
    <3>4. Judged(t.gate, judged)
      <4> SUFFICES ASSUME s.ordinal > 0
                   PROVE  /\ ok <=> EvaluateExisting(s.gate, s.base, m)
                          /\ ok => Good(s.gate, s.base, m)
        BY <1>12, <3>1, <3>2 DEF Judged
      <4>1. ok = CompositeGate(s.gate, s.base, m)
        BY <1>7, <3>1
      <4>2. /\ CompositeGate(s.gate, s.base, m) <=> EvaluateExisting(s.gate, s.base, m)
            /\ CompositeGate(s.gate, s.base, m) => Good(s.gate, s.base, m)
        BY <1>4, <1>6, <1>14, VerdictIsDeserved
      <4> QED
        BY <4>1, <4>2
    <3>5. s.ordinal = 0 /\ ok => base = m /\ CorrectnessGate(s.gate, m)
      BY <1>7, <1>9, <2>2
    <3>6. s.ordinal > 0 => base = s.base
      BY <1>9, <3>1
    <3> QED
      BY <1>4, <1>6, <1>12, <3>1, <3>2, <3>3, <3>4, <3>5, <3>6 DEF Pending
  <2> QED
    BY <2>1, <2>2
<1>16. base \in Metrics \cup {None}
  BY <1>1, <1>6, <1>9 DEF States
<1>17. t \in States
  BY <1>1, <1>10, <1>15, <1>16 DEF States, Places, Appending
<1>18. PlannedOf(t, log)
  BY <1>12 DEF PlannedOf, Loading
<1>19. JudgingOf(p, t, log)
  <2>1. t.ordinal > 0 => Baselined(t, log)
    BY <1>1, <1>4, <1>9, <1>12 DEF Baselined, States
  <2> QED
    BY <1>4, <1>12, <1>15, <2>1 DEF JudgingOf, Appending, Running
<1>20. SettledOf(p, t, log)
  BY <1>2, <1>3, <1>12 DEF SettledOf, Settled, Appending, Running
<1>21. RecordedOf(t.gate, log)
  BY <1>2, <1>12
<1> QED
  BY <1>3, <1>11, <1>12, <1>17, <1>18, <1>19, <1>20, <1>21, Quiet DEF s, log, Ended

\* What is true of the log once it has the snapshot on its way.
Logged(p, s, more) ==
    /\ more \in Seq(Snapshots) /\ RecordedOf(s.gate, more) /\ Settled(p, s, more)
    /\ s.snap.status = "running" => \A k \in Outcomes(more) : more[k].ordinal < s.ordinal
    /\ s.snap.status # "running" => \E k \in Outcomes(more) : more[k].ordinal = s.ordinal
    /\ (s.ordinal > 0 /\ ~s.stopped) \/ (s.ordinal = 0 /\ s.snap.accepted) => Baselined(s, more)

\* The log once the append has returned.
LEMMA Acknowledged ==
  ASSUME NEW p \in Campaigns, NEW s \in States, NEW log \in Seq(Snapshots),
         s.pc \in {"write", "rest"}, JudgingOf(p, s, log), SettledOf(p, s, log),
         RecordedOf(s.gate, log), NEW more, more = Append(log, s.snap)
  PROVE  Logged(p, s, more)
<1> DEFINE n == Len(log)
<1>1. /\ s.gate \in Gates /\ Pending(p, s)
      /\ s.ordinal > 0 /\ ~s.stopped => Baselined(s, log)
      /\ \A k \in Outcomes(log) : log[k].ordinal < s.ordinal
  BY DEF JudgingOf, SettledOf, Appending
<1>2. s.snap \in Snapshots /\ s.snap.campaign = p /\ s.snap.ordinal = s.ordinal /\ s.ordinal \in Nat
  BY <1>1 DEF Pending, States
<1>3. n \in Nat /\ DOMAIN log = 1..n
  OBVIOUS
<1>4. /\ more \in Seq(Snapshots) /\ DOMAIN more = 1..(n + 1) /\ more[n + 1] = s.snap
      /\ \A k \in 1..n : more[k] = log[k]
  BY <1>2, Appended
<1> HIDE DEF n
<1>5. \A k \in DOMAIN more : k = n + 1 \/ (k \in DOMAIN log /\ more[k] = log[k])
  BY <1>3, <1>4
<1>6. \A k \in DOMAIN log : k \in DOMAIN more /\ more[k] = log[k]
  BY <1>3, <1>4
<1>7. n + 1 \in DOMAIN more /\ more # <<>>
  BY <1>3, <1>4
<1>8. \A k \in Outcomes(more) :
          \/ k = n + 1 /\ more[k] = s.snap /\ s.snap.status \in Terminal
          \/ k \in Outcomes(log) /\ more[k] = log[k] /\ log[k].ordinal < s.ordinal
  BY <1>1, <1>4, <1>5 DEF Outcomes
<1>9. \A k \in Outcomes(log) : k \in Outcomes(more) /\ more[k] = log[k]
  BY <1>6 DEF Outcomes
<1>10. RecordedOf(s.gate, more)
  <2> SUFFICES ASSUME NEW i \in DOMAIN more
               PROVE  Measured(s.gate, more, i)
    BY <1>1 DEF RecordedOf
  <2>1. CASE i = n + 1
    <3>1. Judged(s.gate, more[i])
      BY <1>1, <1>4, <2>1 DEF Pending
    <3>2. ASSUME s.snap.ordinal > 0, s.snap.status = "succeeded"
          PROVE  \E j \in 1..n : /\ more[j].ordinal = 0
                                 /\ more[j].accepted
                                 /\ more[j].metrics = s.snap.base
      <4>1. ~s.stopped /\ s.snap.base = s.base
        BY <1>1, <1>2, <3>2 DEF Pending
      <4>2. PICK j \in DOMAIN log : log[j].ordinal = 0 /\ log[j].accepted /\ log[j].metrics = s.base
        BY <1>1, <1>2, <3>2, <4>1 DEF Baselined
      <4> QED
        BY <1>3, <1>4, <4>1, <4>2
    <3>3. i - 1 = n
      BY <1>3, <2>1
    <3> QED
      BY <1>4, <2>1, <3>1, <3>2, <3>3 DEF Measured
  <2>2. CASE i \in DOMAIN log
    <3>1. Measured(s.gate, log, i) /\ more[i] = log[i]
      BY <1>6, <2>2 DEF RecordedOf
    <3>2. \A j \in 1..(i - 1) : more[j] = log[j]
      BY <1>3, <1>4, <2>2
    <3> QED
      BY <3>1, <3>2 DEF Measured
  <2> QED
    BY <1>5, <2>1, <2>2
<1>11. Settled(p, s, more)
  <2>1. Settled(p, s, log)
    BY DEF SettledOf
  <2>2. \A k \in DOMAIN more : more[k].campaign = p /\ more[k].ordinal <= s.ordinal
    BY <1>2, <1>4, <1>5, <2>1 DEF Settled
  <2>3. ASSUME NEW k \in Outcomes(more), NEW l \in Outcomes(more), more[k].ordinal = more[l].ordinal
        PROVE  k = l
    <3>1. ASSUME NEW i \in Outcomes(log)
          PROVE  log[i].ordinal # s.ordinal
      <4>1. log[i] \in Snapshots
        BY DEF Outcomes
      <4>2. log[i].ordinal \in Nat /\ log[i].ordinal < s.ordinal
        BY <1>1, <4>1 DEF Snapshots
      <4> QED
        BY <1>2, <4>2
    <3>2. \A i, j \in Outcomes(log) : log[i].ordinal = log[j].ordinal => i = j
      BY <2>1 DEF Settled
    <3>3. ASSUME NEW i \in Outcomes(more)
          PROVE  (i = n + 1 /\ more[i].ordinal = s.ordinal)
                 \/ (i \in Outcomes(log) /\ more[i] = log[i] /\ more[i].ordinal # s.ordinal)
      BY <1>2, <1>8, <3>1
    <3> QED
      BY <2>3, <3>2, <3>3
  <2>4. \A i \in 0..(s.ordinal - 1) : \E k \in Outcomes(more) : more[k].ordinal = i
    BY <1>9, <2>1 DEF Settled
  <2>5. s.stopped => \A k \in Outcomes(more) : more[k].ordinal > 0 => more[k].status = "cancelled"
    <3>1. s.stopped => s.snap.status = "cancelled"
      BY <1>1 DEF Pending
    <3> QED
      BY <1>8, <2>1, <3>1 DEF Settled
  <2> QED
    BY <2>1, <2>2, <2>3, <2>4, <2>5 DEF Settled
<1>12. s.snap.status = "running" => \A k \in Outcomes(more) : more[k].ordinal < s.ordinal
  BY <1>8 DEF Terminal
<1>13. s.snap.status # "running" => \E k \in Outcomes(more) : more[k].ordinal = s.ordinal
  <2> SUFFICES ASSUME s.snap.status # "running"
               PROVE  n + 1 \in Outcomes(more)
    BY <1>2, <1>4
  <2>1. s.snap.status \in Terminal
    BY <1>2 DEF Snapshots, Statuses
  <2> QED
    BY <1>4, <1>7, <2>1 DEF Outcomes
<1>14. (s.ordinal > 0 /\ ~s.stopped) \/ (s.ordinal = 0 /\ s.snap.accepted) => Baselined(s, more)
  <2>1. CASE s.ordinal > 0 /\ ~s.stopped
    <3>1. Baselined(s, log)
      BY <1>1, <2>1
    <3> QED
      BY <1>6, <3>1 DEF Baselined
  <2>2. CASE s.ordinal = 0 /\ s.snap.accepted
    <3>1. /\ s.base \in Metrics /\ CorrectnessGate(s.gate, s.base)
          /\ s.snap.metrics = s.base
      BY <1>1, <2>2 DEF Pending
    <3> QED
      BY <1>2, <1>4, <1>7, <2>2, <3>1 DEF Baselined
  <2> QED
    BY <2>1, <2>2
<1> QED
  BY <1>4, <1>10, <1>11, <1>12, <1>13, <1>14 DEF Logged

\* What a campaign holds when its append has returned: the running candidate is on
\* its way to the benchmark, or an outcome is the last, or the next candidate starts.
After(p, s, t, stopped) ==
    /\ t \in States /\ t.gate = s.gate /\ t.base = s.base
    /\ \/ /\ s.snap.status = "running" /\ t.pc = "execute"
          /\ t.ordinal = s.ordinal /\ t.stopped = s.stopped
       \/ /\ s.snap.status # "running" /\ s.ordinal = LastCandidate[p] /\ t.pc = "returned"
          /\ t.ordinal = s.ordinal /\ t.stopped = stopped
       \/ /\ s.snap.status # "running" /\ s.ordinal # LastCandidate[p] /\ t.pc = "append"
          /\ t.ordinal = s.ordinal + 1 /\ t.stopped = stopped
          /\ t.snap = Snapshot(p, s.ordinal + 1, IF stopped THEN "cancelled" ELSE "running")

\* AfterAppend puts a campaign into one of those three places.
LEMMA AfterIs ==
  ASSUME NEW p \in Campaigns, NEW s \in States, Pending(p, s),
         NEW stopped, stopped = (s.stopped \/ (s.ordinal = 0 /\ ~s.snap.accepted))
  PROVE  After(p, s, AfterAppend(p, s), stopped)
<1>1. /\ s.snap \in Snapshots /\ (s.stopped <=> s.snap.status = "cancelled")
      /\ (s.stopped => s.ordinal > 0) /\ s.ordinal \in Nat /\ s.stopped \in BOOLEAN
      /\ s.snap.accepted \in BOOLEAN
  BY DEF Pending, States, Snapshots
<1>2. stopped \in BOOLEAN
  BY <1>1
<1>3. \A i \in Nat, status \in {"running", "cancelled"} : Snapshot(p, i, status) \in Snapshots
  <2>1. NoMetrics \in Metrics
    BY DEF NoMetrics, Metrics, Numbers
  <2> QED
    BY <2>1 DEF Snapshot, Snapshots, Statuses, Terminal
<1>4. CASE s.snap.status = "running"
  <2>1. PICK t : t = [s EXCEPT !.pc = "execute", !.snap = None]
    OBVIOUS
  <2>2. AfterAppend(p, s) = t
    BY <1>4, <2>1 DEF AfterAppend
  <2>3. /\ t \in States /\ t.gate = s.gate /\ t.base = s.base /\ t.pc = "execute"
        /\ t.ordinal = s.ordinal /\ t.stopped = s.stopped
    BY <2>1 DEF States, Places, Running
  <2> QED
    BY <1>4, <2>2, <2>3 DEF After
<1>5. CASE s.snap.status # "running"
  <2>1. PICK u : u = [s EXCEPT !.stopped = stopped]
    OBVIOUS
  <2>2. PICK snap : snap = Snapshot(p, s.ordinal + 1, IF stopped THEN "cancelled" ELSE "running")
    OBVIOUS
  <2>3. PICK t : t = IF s.ordinal = LastCandidate[p] THEN [u EXCEPT !.pc = "returned"]
                     ELSE [u EXCEPT !.pc = "append", !.ordinal = s.ordinal + 1, !.snap = snap]
    OBVIOUS
  <2>4. u \in States /\ u.gate = s.gate /\ u.base = s.base /\ u.ordinal = s.ordinal
        /\ u.stopped = stopped
    BY <1>2, <2>1 DEF States
  <2>5. AfterAppend(p, s) = NextCandidate(p, u, IF stopped THEN "cancelled" ELSE "running")
    <3>1. CASE s.snap.status = "cancelled"
      <4>1. stopped = TRUE /\ s.stopped = TRUE
        BY <1>1, <3>1
      <4>2. u = s
        BY <2>1, <4>1 DEF States
      <4>3. AfterAppend(p, s) = NextCandidate(p, s, "cancelled")
        BY <3>1 DEF AfterAppend
      <4> QED
        BY <4>1, <4>2, <4>3
    <3>2. CASE s.snap.status # "cancelled"
      <4>1. stopped = (s.ordinal = 0 /\ ~s.snap.accepted)
        BY <1>1, <3>2
      <4>2. AfterAppend(p, s) = NextCandidate(p, [s EXCEPT !.stopped = stopped],
                                              IF stopped THEN "cancelled" ELSE "running")
        BY <1>5, <3>2, <4>1 DEF AfterAppend
      <4> QED
        BY <2>1, <4>2
    <3> QED
      BY <3>1, <3>2
  <2>6. AfterAppend(p, s) = t
    BY <2>2, <2>3, <2>4, <2>5 DEF NextCandidate
  <2>7. snap \in Snapshots
    BY <1>1, <1>3, <2>2
  <2>8. CASE s.ordinal = LastCandidate[p]
    <3>1. /\ t \in States /\ t.gate = s.gate /\ t.base = s.base /\ t.pc = "returned"
          /\ t.ordinal = s.ordinal /\ t.stopped = stopped
      BY <2>3, <2>4, <2>8 DEF States, Places, Ended
    <3> QED
      BY <1>5, <2>6, <2>8, <3>1 DEF After
  <2>9. CASE s.ordinal # LastCandidate[p]
    <3>1. /\ t \in States /\ t.gate = s.gate /\ t.base = s.base /\ t.pc = "append"
          /\ t.ordinal = s.ordinal + 1 /\ t.stopped = stopped /\ t.snap = snap
      <4>1. t = [u EXCEPT !.pc = "append", !.ordinal = s.ordinal + 1, !.snap = snap]
        BY <2>3, <2>9
      <4>2. s.ordinal + 1 \in Nat /\ "append" \in Places
        BY <1>1 DEF Places, Appending
      <4>3. /\ t.gate = u.gate /\ t.base = u.base /\ t.pc = "append"
            /\ t.ordinal = s.ordinal + 1 /\ t.stopped = u.stopped /\ t.snap = snap
        BY <2>4, <4>1 DEF States
      <4>4. t \in States
        BY <2>4, <2>7, <4>1, <4>2 DEF States
      <4> QED
        BY <2>4, <4>3, <4>4
    <3> QED
      BY <1>5, <2>2, <2>6, <2>9, <3>1 DEF After
  <2> QED
    BY <2>8, <2>9
<1> QED
  BY <1>4, <1>5

\* What is known of a campaign that writes.
LEMMA Writer ==
  ASSUME TypeOK, IInv, NEW p \in Campaigns, NEW s, s = st[p], s.pc \in {"write", "rest"},
         NEW log, log = acked[p]
  PROVE  /\ s \in States /\ log \in Seq(Snapshots) /\ lock = p
         /\ JudgingOf(p, s, log) /\ SettledOf(p, s, log) /\ RecordedOf(s.gate, log)
         /\ FiledOf(p, s, log, file) /\ Pending(p, s)
         /\ s.snap \in Snapshots /\ s.snap.campaign = p /\ s.snap.ordinal = s.ordinal
         /\ \A k \in Outcomes(log) : log[k].ordinal < s.ordinal
         /\ \A q \in Campaigns \ {p} : st[q].pc \notin {"write", "rest"}
<1>1. /\ s \in States /\ log \in Seq(Snapshots)
      /\ JudgingOf(p, s, log) /\ SettledOf(p, s, log) /\ RecordedOf(s.gate, log)
      /\ FiledOf(p, s, log, file)
  BY DEF TypeOK, IInv, Judging, AllSettled, Recorded, Filed
<1>2. lock = p /\ \A q \in Campaigns \ {p} : st[q].pc \notin {"write", "rest"}
  <2>1. \A q \in Campaigns : lock = q <=> st[q].pc \in {"write", "rest"}
    BY DEF IInv, Locked, LockedBy
  <2> QED
    BY <2>1
<1>3. Pending(p, s) /\ \A k \in Outcomes(log) : log[k].ordinal < s.ordinal
  BY <1>1 DEF JudgingOf, SettledOf, Appending
<1> QED
  BY <1>1, <1>2, <1>3 DEF Pending

\* A campaign at its write leaves what WrittenBy says.
LEMMA WriterWrites ==
  ASSUME TypeOK, IInv, NEW p \in Campaigns, st[p].pc \in {"write", "rest"},
         NEW part \in {"whole", "head", "bare", "tail"}, part = "tail" => st[p].pc = "rest"
  PROVE  WrittenBy(Written(p, part), st[p].snap, part)
<1>1. st[p].snap \in Snapshots
  BY Writer
<1>2. part = "tail" => file # <<>> /\ Fragment(Last(file)) /\ Last(file).snap = st[p].snap
  BY DEF IInv, Locked, LockedBy
<1> QED
  BY <1>1, <1>2, WrittenIs

\* The file after a write.
LEMMA FileKept ==
  ASSUME TypeOK, IInv, NEW p \in Campaigns, st[p].pc \in {"write", "rest"},
         NEW part, WrittenBy(file', st[p].snap, part),
         NEW t \in States, t.ordinal >= st[p].ordinal, st'[p] = t,
         acked'[p] \in {acked[p], Append(acked[p], st[p].snap)},
         \A q \in Campaigns \ {p} : st'[q] = st[q] /\ acked'[q] = acked[q]
  PROVE  Filed' /\ file' \in Seq(Pieces)
<1>1. PICK s : s = st[p]
  OBVIOUS
<1>2. PICK log : log = acked[p]
  OBVIOUS
<1>3. PICK snap : snap = s.snap
  OBVIOUS
<1>4. PICK w : w = file'
  OBVIOUS
<1>5. /\ s \in States /\ log \in Seq(Snapshots) /\ FiledOf(p, s, log, file)
      /\ snap \in Snapshots /\ snap.campaign = p /\ snap.ordinal = s.ordinal
      /\ \A k \in Outcomes(log) : log[k].ordinal < s.ordinal
  BY <1>1, <1>2, <1>3, Writer
<1>6. file \in Seq(Pieces) /\ WrittenBy(w, snap, part) /\ t.ordinal >= s.ordinal
  BY <1>1, <1>3, <1>4 DEF TypeOK
<1>7. FiledOf(p, t, log, w) /\ FiledOf(p, t, Append(log, snap), w)
  BY <1>5, <1>6, FileGrows
<1>8. FiledOf(p, st'[p], acked'[p], w)
  BY <1>1, <1>2, <1>3, <1>7
<1>9. \A q \in Campaigns \ {p} : FiledOf(q, st[q], acked[q], w)
  <2> SUFFICES ASSUME NEW q \in Campaigns \ {p}
               PROVE  FiledOf(q, st[q], acked[q], w)
    OBVIOUS
  <2>1. PICK u : u = st[q]
    OBVIOUS
  <2>2. PICK l : l = acked[q]
    OBVIOUS
  <2>3. FiledOf(q, u, l, file)
    BY <2>1, <2>2 DEF IInv, Filed
  <2>4. snap.campaign # q
    BY <1>5
  <2>5. FiledOf(q, u, l, w)
    BY <1>6, <2>3, <2>4, FileOfOthers
  <2> QED
    BY <2>1, <2>2, <2>5
<1>10. \A q \in Campaigns : FiledOf(q, st'[q], acked'[q], file')
  BY <1>4, <1>8, <1>9
<1>11. file' \in Seq(Pieces)
  BY DEF WrittenBy
<1> QED
  BY <1>10, <1>11 DEF Filed

\* Of whole lines a write adds one, or a fragment at the end.
LEMMA WholeBefore ==
  ASSUME TypeOK, IInv, NEW p \in Campaigns, st[p].pc \in {"write", "rest"}, Broken = {},
         NEW part, part = "tail" <=> st[p].pc = "rest",
         NEW w, WrittenBy(w, st[p].snap, part)
  PROVE  \A l \in DOMAIN w : l = Len(w) \/ w[l].part = "whole"
<1>1. \A l \in DOMAIN file :
          file[l].part = "whole" \/ (l = Len(file) /\ \E q \in Campaigns : st[q].pc = "rest")
  BY DEF IInv, Clean
<1>2. \A q \in Campaigns \ {p} : st[q].pc # "rest"
  BY Writer
<1>3. \A l \in DOMAIN file : file[l].part = "whole" \/ (l = Len(file) /\ part = "tail")
  BY <1>1, <1>2
<1>4. /\ w \in Seq(Pieces)
      /\ \A l \in 1..(Len(w) - 1) : l \in DOMAIN file /\ w[l] = file[l]
      /\ part = "tail" => Len(w) = Len(file)
  BY DEF WrittenBy
<1>5. \A l \in DOMAIN w : l = Len(w) \/ (l \in 1..(Len(w) - 1) /\ l # Len(w))
  BY <1>4
<1> QED
  BY <1>3, <1>4, <1>5

\* An append that returns.
LEMMA ReturnsKeeps ==
  ASSUME TypeOK, IInv, NEW p \in Campaigns, NEW part \in {"whole", "tail"},
         (st[p].pc = "write" /\ part = "whole") \/ (st[p].pc = "rest" /\ part = "tail"),
         file' = Written(p, part), Returns(p), UNCHANGED faults
  PROVE  TypeOK' /\ IInv'
<1>1. PICK s : s = st[p]
  OBVIOUS
<1>2. PICK log : log = acked[p]
  OBVIOUS
<1>3. PICK more : more = Append(log, s.snap)
  OBVIOUS
<1>4. PICK t : t = AfterAppend(p, s)
  OBVIOUS
<1>5. PICK stopped : stopped = (s.stopped \/ (s.ordinal = 0 /\ ~s.snap.accepted))
  OBVIOUS
<1>6. /\ s \in States /\ log \in Seq(Snapshots) /\ lock = p /\ s.pc \in {"write", "rest"}
      /\ JudgingOf(p, s, log) /\ SettledOf(p, s, log) /\ RecordedOf(s.gate, log) /\ Pending(p, s)
      /\ s.snap \in Snapshots /\ s.snap.campaign = p /\ s.snap.ordinal = s.ordinal
      /\ \A q \in Campaigns \ {p} : st[q].pc \notin {"write", "rest"}
  BY <1>1, <1>2, Writer
<1>7. After(p, s, t, stopped)
  BY <1>4, <1>5, <1>6, AfterIs
<1>8. lock' = None /\ acked' = [acked EXCEPT ![p] = more] /\ Goto(p, t)
  BY <1>1, <1>2, <1>3, <1>4 DEF Returns
<1>9. t \in States /\ t.gate = s.gate /\ t.base = s.base
      /\ t.pc \in {"execute", "returned", "append"} /\ s.gate \in Gates
      /\ s.ordinal \in Nat /\ t.ordinal \in Nat /\ t.ordinal >= s.ordinal
  <2>1. t \in States /\ s.ordinal \in Nat
    BY <1>6, <1>7 DEF After, States
  <2>2. t.gate = s.gate /\ t.base = s.base /\ t.pc \in {"execute", "returned", "append"}
        /\ (t.ordinal = s.ordinal \/ t.ordinal = s.ordinal + 1)
    BY <1>7 DEF After
  <2>3. s.gate \in Gates
    BY <1>6 DEF JudgingOf, Appending
  <2> QED
    BY <2>1, <2>2, <2>3
<1>10. /\ st' \in [Campaigns -> States] /\ st'[p] = t
       /\ \A q \in Campaigns \ {p} : st'[q] = st[q]
  BY <1>8, <1>9, Moved
<1>11. /\ more \in Seq(Snapshots) /\ RecordedOf(s.gate, more) /\ Settled(p, s, more)
       /\ s.snap.status = "running" => \A k \in Outcomes(more) : more[k].ordinal < s.ordinal
       /\ s.snap.status # "running" => \E k \in Outcomes(more) : more[k].ordinal = s.ordinal
       /\ (s.ordinal > 0 /\ ~s.stopped) \/ (s.ordinal = 0 /\ s.snap.accepted)
              => Baselined(s, more)
  <2>1. s \in States /\ log \in Seq(Snapshots) /\ s.pc \in {"write", "rest"}
    BY <1>6
  <2>2. JudgingOf(p, s, log) /\ SettledOf(p, s, log) /\ RecordedOf(s.gate, log)
    BY <1>6
  <2>3. Logged(p, s, more)
    BY <1>3, <2>1, <2>2, Acknowledged
  <2> QED
    BY <2>3 DEF Logged
<1>12. /\ acked' \in [Campaigns -> Seq(Snapshots)] /\ acked'[p] = more
       /\ \A q \in Campaigns \ {p} : acked'[q] = acked[q]
  BY <1>8, <1>11 DEF TypeOK
<1>13. WrittenBy(file', s.snap, part)
  BY <1>1, WriterWrites
<1>14. Filed' /\ file' \in Seq(Pieces)
  BY <1>1, <1>2, <1>3, <1>6, <1>9, <1>10, <1>12, <1>13, FileKept
<1>15. TypeOK'
  BY <1>8, <1>10, <1>12, <1>14 DEF TypeOK
<1>16. /\ s.stopped \in BOOLEAN /\ s.snap.accepted \in BOOLEAN
       /\ s.stopped => s.ordinal > 0
       /\ s.stopped <=> s.snap.status = "cancelled"
  BY <1>6 DEF Pending, States, Snapshots
<1>17. PlannedOf(t, more)
  BY <1>9 DEF PlannedOf, Loading
<1>18. JudgingOf(p, t, more)
  <2>1. Baselined(s, more) => Baselined(t, more)
    BY <1>9 DEF Baselined
  <2>2. CASE t.pc = "execute"
    <3>1. t.ordinal = s.ordinal /\ t.stopped = s.stopped /\ s.snap.status = "running"
      BY <1>7, <2>2 DEF After
    <3> QED
      BY <1>9, <1>11, <1>16, <2>1, <2>2, <3>1 DEF JudgingOf, Appending, Running
  <2>3. CASE t.pc = "append"
    <3>1. /\ t.ordinal = s.ordinal + 1 /\ t.stopped = stopped
          /\ t.snap = Snapshot(p, t.ordinal, IF stopped THEN "cancelled" ELSE "running")
      BY <1>7, <2>3 DEF After
    <3>2. t.ordinal > 0 /\ stopped \in BOOLEAN
      BY <1>5, <1>9, <1>16, <3>1
    <3>3. PICK status : status = IF stopped THEN "cancelled" ELSE "running"
      OBVIOUS
    <3>4. status \in {"running", "failed", "cancelled"} /\ t.snap = Snapshot(p, t.ordinal, status)
          /\ (t.stopped <=> status = "cancelled") /\ t.stopped \in BOOLEAN
      BY <3>1, <3>2, <3>3
    <3>5. Pending(p, t)
      BY <1>9, <3>2, <3>4, NothingMeasured
    <3>6. ~t.stopped => Baselined(t, more)
      <4>1. ~t.stopped => ~s.stopped /\ (s.ordinal = 0 => s.snap.accepted)
        BY <1>5, <3>1
      <4>2. s.ordinal > 0 \/ s.ordinal = 0
        BY <1>9
      <4> QED
        BY <1>11, <2>1, <4>1, <4>2
    <3> QED
      BY <1>9, <2>3, <3>5, <3>6 DEF JudgingOf, Appending, Running
  <2>4. CASE t.pc = "returned"
    BY <2>4 DEF JudgingOf, Appending, Running
  <2> QED
    BY <1>9, <2>2, <2>3, <2>4
<1>19. RecordedOf(t.gate, more)
  BY <1>9, <1>11
<1>20. SettledOf(p, t, more)
  <2>1. \A k \in DOMAIN more : more[k].ordinal \in Nat /\ more[k].ordinal <= s.ordinal
    <3>1. \A k \in DOMAIN more : more[k] \in Snapshots
      BY <1>11
    <3> QED
      BY <1>11, <3>1 DEF Settled, Snapshots
  <2>2. LastCandidate[p] \in Nat /\ s.ordinal <= LastCandidate[p]
    BY <1>11, LastAssumption DEF Settled
  <2>3. s.ordinal = 0 => \A k \in Outcomes(more) : ~(more[k].ordinal > 0)
    BY <2>1 DEF Outcomes
  <2>4. CASE t.pc = "execute"
    <3>1. t.ordinal = s.ordinal /\ t.stopped = s.stopped /\ s.snap.status = "running"
      BY <1>7, <2>4 DEF After
    <3> QED
      BY <1>11, <2>4, <3>1 DEF SettledOf, Settled
  <2>5. CASE t.pc = "append"
    <3>1. /\ t.ordinal = s.ordinal + 1 /\ t.stopped = stopped /\ s.ordinal # LastCandidate[p]
          /\ s.snap.status # "running"
      BY <1>7, <2>5 DEF After
    <3>2. t.ordinal <= LastCandidate[p] /\ t.ordinal - 1 = s.ordinal
      BY <1>9, <2>2, <3>1
    <3>3. \A k \in DOMAIN more : more[k].ordinal < t.ordinal /\ more[k].ordinal <= t.ordinal
      BY <1>9, <2>1, <3>1
    <3>4. \A i \in 0..(t.ordinal - 1) : \E k \in Outcomes(more) : more[k].ordinal = i
      <4>1. \A i \in 0..(t.ordinal - 1) : i = s.ordinal \/ i \in 0..(s.ordinal - 1)
        BY <1>9, <3>2
      <4> QED
        BY <1>11, <3>1, <4>1 DEF Settled
    <3>5. t.stopped => \A k \in Outcomes(more) : more[k].ordinal > 0 => more[k].status = "cancelled"
      BY <1>5, <1>11, <2>3, <3>1 DEF Settled
    <3> QED
      BY <1>11, <2>5, <3>2, <3>3, <3>4, <3>5 DEF SettledOf, Settled, Outcomes
  <2>6. CASE t.pc = "returned"
    <3>1. /\ t.ordinal = s.ordinal /\ t.stopped = stopped /\ s.ordinal = LastCandidate[p]
          /\ s.snap.status # "running"
      BY <1>7, <2>6 DEF After
    <3>2. t.stopped => \A k \in Outcomes(more) : more[k].ordinal > 0 => more[k].status = "cancelled"
      BY <1>5, <1>11, <2>3, <3>1 DEF Settled
    <3> QED
      BY <1>11, <2>6, <3>1, <3>2 DEF SettledOf, Settled, Appending, Running
  <2> QED
    BY <1>9, <2>4, <2>5, <2>6
<1>21. Planned' /\ Judging' /\ Recorded' /\ AllSettled'
  BY <1>10, <1>12, <1>17, <1>18, <1>19, <1>20, MovesAlone
<1>22. Locked'
  <2>1. \A q \in Campaigns : st'[q].pc \notin {"write", "rest"}
    BY <1>6, <1>9, <1>10
  <2>2. \A q \in Campaigns : LockedBy(q, st[q])'
    BY <1>8, <2>1, NoneAssumption DEF LockedBy
  <2> QED
    BY <2>2 DEF Locked
<1>23. Clean'
  <2>1. SUFFICES ASSUME Broken' = {}
                 PROVE  \A l \in DOMAIN file' : file'[l].part = "whole"
    BY DEF Clean
  <2>2. Broken = {}
    BY <1>1, <1>6, <1>10, <2>1, StillWhole DEF Ended
  <2>3. PICK w : w = file'
    OBVIOUS
  <2>4. \A l \in DOMAIN w : l = Len(w) \/ w[l].part = "whole"
    BY <1>1, <1>13, <2>2, <2>3, WholeBefore
  <2>5. w[Len(w)].part = "whole"
    BY <1>13, <2>3 DEF WrittenBy, Last
  <2> QED
    BY <2>3, <2>4, <2>5
<1> QED
  BY <1>14, <1>15, <1>21, <1>22, <1>23 DEF IInv

\* A write puts down the whole line, which returns, or a fragment of it.
LEMMA WriteKeeps ==
  ASSUME TypeOK, IInv, NEW p \in Campaigns, Write(p)
  PROVE  TypeOK' /\ IInv'
<1>1. CASE file' = Written(p, "whole") /\ Returns(p)
  BY <1>1, ReturnsKeeps DEF Write
<1>2. ASSUME NEW part \in {"head", "bare"}, file' = Written(p, part),
             Goto(p, [st[p] EXCEPT !.pc = "rest"]), UNCHANGED <<lock, acked>>
      PROVE  TypeOK' /\ IInv'
  <2>1. PICK s : s = st[p]
    OBVIOUS
  <2>2. PICK log : log = acked[p]
    OBVIOUS
  <2>3. PICK t : t = [s EXCEPT !.pc = "rest"]
    OBVIOUS
  <2>4. s.pc = "write" /\ faults' = faults /\ Goto(p, t)
    BY <1>2, <2>1, <2>3 DEF Write
  <2>5. /\ s \in States /\ log \in Seq(Snapshots) /\ lock = p
        /\ JudgingOf(p, s, log) /\ SettledOf(p, s, log) /\ RecordedOf(s.gate, log)
        /\ \A q \in Campaigns \ {p} : st[q].pc \notin {"write", "rest"}
    BY <2>1, <2>2, <2>4, Writer
  <2>6. /\ t \in States /\ t.pc = "rest" /\ t.ordinal = s.ordinal /\ t.gate = s.gate
        /\ t.stopped = s.stopped /\ t.base = s.base /\ t.snap = s.snap /\ s.ordinal \in Nat
    BY <2>3, <2>5 DEF States, Places, Appending
  <2>7. /\ st' \in [Campaigns -> States] /\ st'[p] = t
        /\ \A q \in Campaigns \ {p} : st'[q] = st[q]
    BY <2>4, <2>6, Moved
  <2>8. lock' = lock /\ acked' = acked /\ acked'[p] = log
    BY <1>2, <2>2
  <2>9. WrittenBy(file', s.snap, part)
    BY <1>2, <2>1, <2>4, WriterWrites
  <2>10. Filed' /\ file' \in Seq(Pieces)
    <3>1. t.ordinal >= st[p].ordinal /\ st[p].pc \in {"write", "rest"}
      BY <2>1, <2>4, <2>6
    <3> QED
      BY <2>1, <2>6, <2>7, <2>8, <2>9, <3>1, FileKept
  <2>11. TypeOK'
    BY <2>4, <2>7, <2>8, <2>10 DEF TypeOK
  <2>12. PlannedOf(t, log)
    BY <2>6 DEF PlannedOf, Loading
  <2>13. JudgingOf(p, t, log)
    BY <2>4, <2>5, <2>6 DEF JudgingOf, Pending, Baselined, Appending, Running
  <2>14. SettledOf(p, t, log)
    BY <2>4, <2>5, <2>6 DEF SettledOf, Settled, Appending, Running
  <2>15. Planned' /\ Judging' /\ Recorded' /\ AllSettled'
    BY <2>5, <2>6, <2>7, <2>8, <2>12, <2>13, <2>14, MovesAlone
  <2>16. Locked'
    <3>1. \A q \in Campaigns : lock = q <=> st[q].pc \in {"write", "rest"}
      BY DEF IInv, Locked, LockedBy
    <3>2. file' # <<>> /\ Fragment(Last(file')) /\ Last(file').snap = s.snap
      BY <1>2, <2>9 DEF WrittenBy, Fragment
    <3>3. LockedBy(p, st[p])'
      BY <2>5, <2>6, <2>7, <2>8, <3>2 DEF LockedBy
    <3>4. \A q \in Campaigns \ {p} : LockedBy(q, st[q])'
      BY <2>5, <2>7, <2>8, <3>1 DEF LockedBy
    <3> QED
      BY <3>3, <3>4 DEF Locked
  <2>17. Clean'
    <3>1. SUFFICES ASSUME Broken' = {}
                   PROVE  \A l \in DOMAIN file' : l = Len(file') \/ file'[l].part = "whole"
      BY <2>6, <2>7 DEF Clean
    <3>2. Broken = {}
      BY <2>1, <2>4, <2>7, <3>1, StillWhole DEF Ended
    <3>3. PICK w : w = file'
      OBVIOUS
    <3>4. \A l \in DOMAIN w : l = Len(w) \/ w[l].part = "whole"
      <4>1. st[p].pc \in {"write", "rest"} /\ (part = "tail" <=> st[p].pc = "rest")
        BY <1>2, <2>1, <2>4
      <4> QED
        BY <2>1, <2>9, <3>2, <3>3, <4>1, WholeBefore
    <3> QED
      BY <3>3, <3>4
  <2> QED
    BY <2>10, <2>11, <2>15, <2>16, <2>17 DEF IInv
<1> QED
  BY <1>1, <1>2 DEF Write

\* The rest of a line follows its fragment.
LEMMA WriteRestKeeps ==
  ASSUME TypeOK, IInv, NEW p \in Campaigns, WriteRest(p)
  PROVE  TypeOK' /\ IInv'
BY ReturnsKeeps DEF WriteRest

\* A campaign that breaks off, with or without a write.
LEMMA BreakKeeps ==
  ASSUME TypeOK, IInv, NEW p \in Campaigns, NEW t \in States, Goto(p, t),
         t.pc \in {"raised", "killed"}, t.ordinal = st[p].ordinal, t.gate = st[p].gate,
         t.stopped = st[p].stopped, Release(p), Fault,
         \/ UNCHANGED <<file, acked>>
         \/ /\ st[p].pc \in {"write", "rest"}
            /\ \E part : WrittenBy(file', st[p].snap, part)
            /\ \/ UNCHANGED acked
               \/ /\ acked' = [acked EXCEPT ![p] = Append(@, st[p].snap)]
                  /\ st[p].snap.status # "running"
  PROVE  TypeOK' /\ IInv'
<1>1. PICK s : s = st[p]
  OBVIOUS
<1>2. PICK log : log = acked[p]
  OBVIOUS
<1>3. PICK more : more = acked'[p]
  OBVIOUS
<1>4. /\ s \in States /\ log \in Seq(Snapshots) /\ t.ordinal = s.ordinal /\ s.ordinal \in Nat
      /\ JudgingOf(p, s, log) /\ SettledOf(p, s, log) /\ RecordedOf(s.gate, log)
  BY <1>1, <1>2 DEF TypeOK, IInv, Judging, AllSettled, Recorded, States
<1>5. /\ st' \in [Campaigns -> States] /\ st'[p] = t
      /\ \A q \in Campaigns \ {p} : st'[q] = st[q]
  BY Moved
<1>6. /\ acked' \in [Campaigns -> Seq(Snapshots)] /\ RecordedOf(s.gate, more) /\ Settled(p, s, more)
      /\ \A q \in Campaigns \ {p} : acked'[q] = acked[q]
      /\ more \in {log, Append(log, s.snap)}
  <2>1. CASE UNCHANGED acked
    BY <1>2, <1>3, <1>4, <2>1 DEF TypeOK, SettledOf
  <2>2. CASE /\ acked' = [acked EXCEPT ![p] = Append(@, st[p].snap)]
             /\ st[p].pc \in {"write", "rest"}
    <3>1. PICK m : m = Append(log, s.snap)
      OBVIOUS
    <3>2. s.pc \in {"write", "rest"}
      BY <1>1, <2>2
    <3>3. Logged(p, s, m)
      BY <1>4, <3>1, <3>2, Acknowledged
    <3>4. acked' = [acked EXCEPT ![p] = m] /\ m \in Seq(Snapshots)
      BY <1>1, <1>2, <2>2, <3>1, <3>3 DEF Logged
    <3>5. acked'[p] = m
      BY <3>4 DEF TypeOK
    <3> QED
      BY <1>3, <3>1, <3>3, <3>4, <3>5 DEF TypeOK, Logged
  <2> QED
    BY <2>1, <2>2
<1>7. PlannedOf(t, more)
  BY DEF PlannedOf, Loading
<1>8. JudgingOf(p, t, more)
  BY DEF JudgingOf, Appending, Running
<1>9. RecordedOf(t.gate, more) /\ SettledOf(p, t, more)
  BY <1>1, <1>6 DEF SettledOf, Settled, Appending, Running
<1>10. Planned' /\ Judging' /\ Recorded' /\ AllSettled'
  BY <1>3, <1>5, <1>6, <1>7, <1>8, <1>9, MovesAlone
<1>11. Filed' /\ file' \in Seq(Pieces)
  <2>1. CASE UNCHANGED <<file, acked>>
    <3>1. \A q \in Campaigns : FiledOf(q, st[q], acked[q], file)
      BY DEF IInv, Filed
    <3>2. FiledOf(p, t, log, file)
      BY <1>1, <1>2, <1>4, <3>1 DEF FiledOf
    <3>3. \A q \in Campaigns : FiledOf(q, st'[q], acked'[q], file')
      BY <1>2, <1>5, <2>1, <3>1, <3>2
    <3> QED
      BY <2>1, <3>3 DEF Filed, TypeOK
  <2>2. CASE st[p].pc \in {"write", "rest"} /\ \E part : WrittenBy(file', st[p].snap, part)
    <3>1. PICK part : WrittenBy(file', st[p].snap, part)
      BY <2>2
    <3>2. t.ordinal >= st[p].ordinal
      BY <1>1, <1>4
    <3>3. acked'[p] \in {acked[p], Append(acked[p], st[p].snap)}
      BY <1>1, <1>2, <1>3, <1>6
    <3> QED
      BY <1>5, <1>6, <2>2, <3>1, <3>2, <3>3, FileKept
  <2> QED
    BY <2>1, <2>2
<1>12. TypeOK'
  BY <1>5, <1>6, <1>11 DEF TypeOK, Release, Fault
<1>13. Locked'
  <2>1. /\ \A q \in Campaigns : lock = q <=> st[q].pc \in {"write", "rest"}
        /\ \A q \in Campaigns : LockedBy(q, st[q])
    BY DEF IInv, Locked, LockedBy
  <2>2. lock' = IF lock = p THEN None ELSE lock
    BY DEF Release
  <2>3. LockedBy(p, st[p])'
    BY <1>5, <2>2, NoneAssumption DEF LockedBy
  <2>4. ASSUME NEW q \in Campaigns \ {p}
        PROVE  LockedBy(q, st[q])'
    <3>1. lock' = q <=> lock = q
      BY <2>2, NoneAssumption
    <3>2. st[q].pc = "rest" => file' = file
      BY <2>1
    <3> QED
      BY <1>5, <2>1, <3>1, <3>2 DEF LockedBy
  <2> QED
    BY <2>3, <2>4 DEF Locked
<1>14. Clean'
  BY <1>5 DEF Clean, Broken
<1> QED
  BY <1>10, <1>11, <1>12, <1>13, <1>14 DEF IInv

\* A write that fails breaks the campaign off, with or without a fragment.
LEMMA WriteFailsKeeps ==
  ASSUME TypeOK, IInv, NEW p \in Campaigns, WriteFails(p)
  PROVE  TypeOK' /\ IInv'
<1>1. PICK t : t = [st[p] EXCEPT !.pc = "raised", !.config = None]
  OBVIOUS
<1>2. Fault /\ Release(p) /\ Goto(p, t) /\ UNCHANGED acked
  BY <1>1 DEF WriteFails
<1>3. /\ t \in States /\ t.pc = "raised" /\ t.ordinal = st[p].ordinal /\ t.gate = st[p].gate
      /\ t.stopped = st[p].stopped
  <2>1. PICK s \in States : s = st[p]
    BY DEF TypeOK
  <2>2. /\ t.pc = "raised" /\ t.ordinal = s.ordinal /\ t.gate = s.gate /\ t.stopped = s.stopped
    BY <1>1, <2>1 DEF States
  <2>3. "raised" \in Places
    BY DEF Places, Ended
  <2>4. t \in States
    BY <1>1, <2>1, <2>3 DEF States
  <2> QED
    BY <2>1, <2>2, <2>4
<1>4. CASE UNCHANGED file
  BY <1>2, <1>3, <1>4, BreakKeeps
<1>5. CASE st[p].pc = "write" /\ file' = Written(p, "whole")
  <2>1. WrittenBy(file', st[p].snap, "whole")
    BY <1>5, WriterWrites
  <2> QED
    BY <1>2, <1>3, <1>5, <2>1, BreakKeeps
<1>6. CASE st[p].pc = "rest" /\ file' = Written(p, "tail")
  <2>1. WrittenBy(file', st[p].snap, "tail")
    BY <1>6, WriterWrites
  <2> QED
    BY <1>2, <1>3, <1>6, <2>1, BreakKeeps
<1> QED
  BY <1>4, <1>5, <1>6 DEF WriteFails

\* Files a campaign saves beside the ledger that cannot be written break it off.
LEMMA SaveFailsKeeps ==
  ASSUME TypeOK, IInv, NEW p \in Campaigns, SaveFails(p)
  PROVE  TypeOK' /\ IInv'
<1>1. PICK t : t = [st[p] EXCEPT !.pc = "raised"]
  OBVIOUS
<1>2. /\ Fault /\ Release(p) /\ Goto(p, t) /\ st[p].pc = "write"
      /\ acked' = [acked EXCEPT ![p] = Append(@, st[p].snap)]
      /\ st[p].snap.status # "running" /\ file' = Written(p, "whole")
  BY <1>1 DEF SaveFails
<1>3. /\ t \in States /\ t.pc = "raised" /\ t.ordinal = st[p].ordinal /\ t.gate = st[p].gate
      /\ t.stopped = st[p].stopped
  <2>1. PICK s \in States : s = st[p]
    BY DEF TypeOK
  <2>2. /\ t.pc = "raised" /\ t.ordinal = s.ordinal /\ t.gate = s.gate /\ t.stopped = s.stopped
    BY <1>1, <2>1 DEF States
  <2>3. "raised" \in Places
    BY DEF Places, Ended
  <2>4. t \in States
    BY <1>1, <2>1, <2>3 DEF States
  <2> QED
    BY <2>1, <2>2, <2>4
<1>4. WrittenBy(file', st[p].snap, "whole")
  BY <1>2, WriterWrites
<1> QED
  BY <1>2, <1>3, <1>4, BreakKeeps

\* A process that is killed lets go of the lock.
LEMMA KilledKeeps ==
  ASSUME TypeOK, IInv, NEW p \in Campaigns, Killed(p)
  PROVE  TypeOK' /\ IInv'
<1>1. PICK t : t = [st[p] EXCEPT !.pc = "killed", !.config = None]
  OBVIOUS
<1>2. Fault /\ Release(p) /\ Goto(p, t) /\ UNCHANGED <<file, acked>>
  BY <1>1 DEF Killed
<1>3. /\ t \in States /\ t.pc = "killed" /\ t.ordinal = st[p].ordinal /\ t.gate = st[p].gate
      /\ t.stopped = st[p].stopped
  <2>1. PICK s \in States : s = st[p]
    BY DEF TypeOK
  <2>2. /\ t.pc = "killed" /\ t.ordinal = s.ordinal /\ t.gate = s.gate /\ t.stopped = s.stopped
    BY <1>1, <2>1 DEF States
  <2>3. "killed" \in Places
    BY DEF Places, Ended
  <2>4. t \in States
    BY <1>1, <2>1, <2>3 DEF States
  <2> QED
    BY <2>1, <2>2, <2>4
<1> QED
  BY <1>2, <1>3, BreakKeeps

-----------------------------------------------------------------------------
(* The invariant *)

\* Before any campaign has begun there is nothing recorded.
LEMMA InitKeeps ==
  ASSUME Init
  PROVE  TypeOK /\ IInv
<1>1. \A p \in Campaigns : st[p] = Fresh /\ acked[p] = <<>>
  BY DEF Init
<1>2. lock = None /\ file = <<>> /\ faults = 0
  BY DEF Init
<1>3. Fresh \in States
  BY DEF Fresh, States, Places, Loading
<1>4. TypeOK
  <2>1. st \in [Campaigns -> States] /\ acked \in [Campaigns -> Seq(Snapshots)]
    BY <1>3 DEF Init
  <2> QED
    BY <1>2, <2>1 DEF TypeOK
<1>5. Fresh.pc = "load" /\ Fresh.ordinal = 0 /\ ~Fresh.stopped
  BY DEF Fresh
<1>6. Locked
  BY <1>1, <1>2, <1>5, NoneAssumption DEF Locked, LockedBy
<1>7. Planned
  BY <1>1, <1>5 DEF Planned, PlannedOf
<1>8. Judging
  BY <1>1, <1>5 DEF Judging, JudgingOf, Appending, Running
<1>9. Recorded
  BY <1>1 DEF Recorded, RecordedOf
<1>10. Outcomes(<<>>) = {}
  BY DEF Outcomes
<1>11. AllSettled
  <2>1. \A p \in Campaigns : LastCandidate[p] \in Nat
    BY LastAssumption
  <2> QED
    BY <1>1, <1>5, <1>10, <2>1 DEF AllSettled, SettledOf, Settled, Appending, Running
<1>12. Filed
  BY <1>1, <1>2, <1>10 DEF Filed, FiledOf
<1>13. Clean
  BY <1>2 DEF Clean
<1> QED
  BY <1>4, <1>6, <1>7, <1>8, <1>9, <1>11, <1>12, <1>13 DEF IInv

\* One step per action: every one keeps the invariant.
LEMMA StepKeeps ==
  ASSUME TypeOK, IInv, [Next]_vars
  PROVE  TypeOK' /\ IInv'
<1>1. ASSUME NEW p \in Campaigns, Step(p)
      PROVE  TypeOK' /\ IInv'
  BY <1>1, LoadKeeps, PlanKeeps, BeginKeeps, FlockKeeps, WriteKeeps, WriteRestKeeps, ExecuteKeeps,
     JudgeKeeps DEF Step
<1>2. ASSUME NEW p \in Campaigns, WriteFails(p) \/ SaveFails(p) \/ Killed(p)
      PROVE  TypeOK' /\ IInv'
  BY <1>2, WriteFailsKeeps, SaveFailsKeeps, KilledKeeps
<1>3. CASE UNCHANGED vars
  <2>1. st' = st /\ lock' = lock /\ file' = file /\ acked' = acked /\ faults' = faults
    BY <1>3 DEF vars
  <2>2. TypeOK'
    BY <2>1 DEF TypeOK
  <2>3. Locked' /\ Planned' /\ Judging' /\ Recorded' /\ AllSettled' /\ Filed'
    BY <2>1 DEF IInv, Locked, LockedBy, Planned, Judging, Recorded, AllSettled, Filed
  <2>4. Clean'
    BY <2>1 DEF IInv, Clean, Broken
  <2> QED
    BY <2>2, <2>3, <2>4 DEF IInv
<1> QED
  BY <1>1, <1>2, <1>3 DEF Next

(***************************************************************************)
(* For any campaigns, documents, results and faults: the types and the      *)
(* inductive invariant (the lock and the line under way, the plan, what is  *)
(* recorded, the outcome of each trial behind, and its place in the file).  *)
(***************************************************************************)
THEOREM Invariance == Spec => [](TypeOK /\ IInv)
<1>1. Init => TypeOK /\ IInv
  BY InitKeeps
<1>2. TypeOK /\ IInv /\ [Next]_vars => (TypeOK /\ IInv)'
  BY StepKeeps
<1> QED
  BY <1>1, <1>2, PTL DEF Spec

(***************************************************************************)
(* In a plan no base argument and no parameter's name, spelled as in the    *)
(* tables, takes over an output option of the command or switches profiling *)
(* on: each adapter reserves the outputs it sets, and base arguments that   *)
(* name an output are refused (config.py, the adapters' build_command).     *)
(* Nothing is said of other spellings and of options among the values of a  *)
(* parameter: the code passes them on.                                      *)
(***************************************************************************)
THEOREM CommandsWrite == Spec => []CommandWritesItsResult
<1>1. TypeOK /\ IInv => CommandWritesItsResult
  <2> SUFFICES ASSUME IInv, NEW p \in Campaigns, st[p].pc = "planned"
               PROVE  Writes(BuildCommand(st[p].config))
    BY DEF CommandWritesItsResult, Writes
  <2>1. PICK d : d = st[p].config
    OBVIOUS
  <2>2. /\ d \in DocumentTypes /\ LoadConfig(d)
        /\ PlanOf(d) # Refused /\ ~ManagesLifecycle(d)
    BY <2>1 DEF IInv, Planned, PlannedOf
  <2> QED
    BY <2>1, <2>2, PlanWrites
<1> QED
  BY <1>1, Invariance, PTL

(***************************************************************************)
(* An accepted candidate was measured after a baseline its own campaign     *)
(* recorded as accepted, and the gates say of the two results what they     *)
(* deserve, for any thresholds and any numbers (gates.py, campaign.py).     *)
(***************************************************************************)
THEOREM AcceptanceIsDeserved == Spec => []AcceptedIsGood
<1>1. TypeOK /\ IInv => AcceptedIsGood
  <2> SUFFICES ASSUME TypeOK, IInv, NEW p \in Campaigns, st[p].gate # None,
                      NEW i \in DOMAIN acked[p],
                      acked[p][i].ordinal > 0, acked[p][i].status = "succeeded"
               PROVE  /\ \E j \in 1..(i - 1) : /\ acked[p][j].ordinal = 0
                                               /\ acked[p][j].accepted
                                               /\ acked[p][j].metrics = acked[p][i].base
                      /\ acked[p][i].accepted
                             <=> EvaluateExisting(st[p].gate, acked[p][i].base, acked[p][i].metrics)
                      /\ acked[p][i].accepted
                             => Good(st[p].gate, acked[p][i].base, acked[p][i].metrics)
    BY DEF AcceptedIsGood
  <2>1. RecordedOf(st[p].gate, acked[p]) /\ acked[p] # <<>>
    BY DEF IInv, Recorded
  <2>2. Measured(st[p].gate, acked[p], i)
    BY <2>1 DEF RecordedOf
  <2> QED
    BY <2>2 DEF Measured, Judged
<1> QED
  BY <1>1, Invariance, PTL

-----------------------------------------------------------------------------
(* Reading the ledger *)

\* Natural numbers are well-founded, so that a set of them that is bounded has a
\* greatest.
LEMMA Least ==
  ASSUME NEW T \in SUBSET Nat, T # {}
  PROVE  \E x \in T : \A y \in T : x <= y
<1> DEFINE R == OpToRel(<, Nat)
<1>1. PICK x \in T : \A y \in T : <<y, x>> \notin R
  <2>1. IsWellFoundedOn(R, Nat)
    BY NatLessThanWellFounded
  <2> HIDE DEF R
  <2> QED
    BY <2>1, WFMin
<1>2. \A y \in T : y \in Nat /\ x \in Nat /\ ~(y < x)
  BY <1>1 DEF OpToRel
<1>3. \A y \in T : x <= y
  BY <1>2
<1> QED
  BY <1>1, <1>3

\* A set of naturals with a bound has a greatest element, which Max names.
LEMMA Greatest ==
  ASSUME NEW n \in Nat, NEW T \in SUBSET (0..n), T # {}
  PROVE  Max(T) \in T /\ \A y \in T : y <= Max(T)
<1> DEFINE D == {n - y : y \in T}
<1>1. D \in SUBSET Nat /\ D # {}
  <2>1. \A y \in T : n - y \in Nat
    OBVIOUS
  <2> QED
    BY <2>1
<1>2. \A y \in T : n - y \in D /\ y \in Int
  OBVIOUS
<1>3. \A x \in D : n - x \in T
  OBVIOUS
<1> HIDE DEF D
<1>4. PICK x \in D : \A y \in D : x <= y
  BY <1>1, Least
<1>5. n - x \in T /\ \A y \in T : n - x >= y
  BY <1>1, <1>2, <1>3, <1>4
<1>6. Max(T) \in T /\ \A y \in T : Max(T) >= y
  BY <1>5 DEF Max
<1>7. Max(T) \in Int
  BY <1>2, <1>6
<1> QED
  BY <1>2, <1>6, <1>7

\* A ledger that is read without an error is read to its end.
LEMMA ReadToTheEnd ==
  ASSUME NEW pieces \in Seq(Pieces), ~ReadAll(pieces).corrupt
  PROVE  /\ \A i \in DOMAIN pieces : Decodes(pieces, i)
         /\ DOMAIN ReadAll(pieces).read = DOMAIN pieces
         /\ \A i \in DOMAIN pieces : ReadAll(pieces).read[i] = pieces[i].snap
<1> DEFINE n == Len(pieces)
           T == {m \in 0..n : \A i \in 1..m : Decodes(pieces, i)}
           read == Max(T)
<1>1. n \in Nat /\ DOMAIN pieces = 1..n
  OBVIOUS
<1>2. /\ ReadAll(pieces).read = [i \in 1..read |-> pieces[i].snap]
      /\ ReadAll(pieces).corrupt <=> read < n
  BY DEF ReadAll
<1> HIDE DEF n
<1>3. read \in T
  <2>1. T \in SUBSET (0..n) /\ 0 \in T
    BY <1>1
  <2> HIDE DEF T
  <2> QED
    BY <1>1, <2>1, Greatest
<1> HIDE DEF read
<1>4. read = n
  <2>1. read \in 0..n
    BY <1>3
  <2>2. ~(read < n)
    BY <1>2
  <2> QED
    BY <1>1, <2>1, <2>2
<1> QED
  BY <1>1, <1>2, <1>3, <1>4

\* One whose lines can all be decoded is read without an error.
LEMMA CorruptIsBroken ==
  ASSUME NEW pieces \in Seq(Pieces), \A i \in DOMAIN pieces : Decodes(pieces, i)
  PROVE  ~ReadAll(pieces).corrupt
<1> DEFINE n == Len(pieces)
           T == {m \in 0..n : \A i \in 1..m : Decodes(pieces, i)}
           read == Max(T)
<1>1. n \in Nat /\ DOMAIN pieces = 1..n
  OBVIOUS
<1>2. ReadAll(pieces).corrupt <=> read < n
  BY DEF ReadAll
<1> HIDE DEF n
<1>3. read \in Int /\ n <= read
  <2>1. T \in SUBSET (0..n) /\ n \in T
    BY <1>1
  <2>2. T \in SUBSET Int
    BY <1>1
  <2> HIDE DEF T
  <2>3. read \in T /\ n <= read
    BY <1>1, <2>1, Greatest
  <2> QED
    BY <2>2, <2>3
<1> HIDE DEF read
<1> QED
  BY <1>1, <1>2, <1>3

\* What a reader finds of a campaign whose last snapshots are its outcomes.
LEMMA LatestIsOutcome ==
  ASSUME NEW p \in Campaigns, NEW s, NEW log, NEW pieces \in Seq(Pieces),
         FiledOf(p, s, log, pieces), NEW read, DOMAIN read = DOMAIN pieces,
         \A i \in DOMAIN pieces : read[i] = pieces[i].snap,
         NEW k \in Outcomes(log), log[k].campaign = p
  PROVE  Latest(read, p, log[k].ordinal) = log[k]
<1> DEFINE n == Len(pieces)
           T == History(read, p, log[k].ordinal)
<1>1. n \in Nat /\ DOMAIN pieces = 1..n
  OBVIOUS
<1>2. PICK f \in DOMAIN pieces :
          /\ pieces[f].snap = log[k]
          /\ \A l \in DOMAIN pieces :
                 pieces[l].snap.campaign = p /\ pieces[l].snap.ordinal = log[k].ordinal => l <= f
  BY DEF FiledOf
<1>3. f \in T /\ T \in SUBSET (0..n) /\ \A l \in T : l <= f
  BY <1>1, <1>2 DEF History
<1>4. Max(T) = f
  <2> HIDE DEF T, n
  <2>1. Max(T) \in T /\ f <= Max(T)
    BY <1>1, <1>3, Greatest
  <2>2. Max(T) <= f /\ Max(T) \in Int /\ f \in Int
    BY <1>1, <1>3, <2>1
  <2> QED
    BY <2>1, <2>2
<1> QED
  BY <1>2, <1>4 DEF Latest

(***************************************************************************)
(* Whoever takes the lock finds how every campaign that returned went, one  *)
(* outcome to each trial, unless an append was broken off: however many     *)
(* campaigns append to the ledger, however they are killed (ledger.py).     *)
(***************************************************************************)
THEOREM LedgerTruth == Spec => []LedgerTellsResult
<1>1. TypeOK /\ IInv => LedgerTellsResult
  <2> SUFFICES ASSUME TypeOK, IInv, lock = None
               PROVE  \/ ReadAll(file).corrupt /\ Broken # {}
                      \/ /\ ~ReadAll(file).corrupt
                         /\ \A p \in Campaigns : st[p].pc = "returned" =>
                                \A i \in 0..LastCandidate[p] :
                                    \E k \in DOMAIN acked[p] :
                                        /\ {j \in History(acked[p], p, i) :
                                                acked[p][j].status \in Terminal} = {k}
                                        /\ Latest(ReadAll(file).read, p, i) = acked[p][k]
                                        /\ st[p].stopped /\ i > 0
                                               => acked[p][k].status = "cancelled"
    BY DEF LedgerTellsResult
  <2>1. PICK pieces : pieces = file
    OBVIOUS
  <2>2. pieces \in Seq(Pieces)
    BY <2>1 DEF TypeOK
  <2>3. CASE ReadAll(pieces).corrupt
    <3>1. Broken # {}
      <4> SUFFICES ASSUME Broken = {}
                   PROVE  \A i \in DOMAIN pieces : pieces[i].part = "whole"
        BY <2>2, <2>3, CorruptIsBroken DEF Decodes
      <4>1. \A p \in Campaigns : st[p].pc # "rest"
        BY NoneAssumption DEF IInv, Locked, LockedBy
      <4> QED
        BY <2>1, <4>1 DEF IInv, Clean
    <3> QED
      BY <2>1, <2>3, <3>1
  <2>4. CASE ~ReadAll(pieces).corrupt
    <3>1. PICK read : read = ReadAll(pieces).read
      OBVIOUS
    <3>2. DOMAIN read = DOMAIN pieces /\ \A i \in DOMAIN pieces : read[i] = pieces[i].snap
      BY <2>2, <2>4, <3>1, ReadToTheEnd
    <3>3. ASSUME NEW p \in Campaigns, st[p].pc = "returned", NEW i \in 0..LastCandidate[p]
          PROVE  \E k \in DOMAIN acked[p] :
                     /\ {j \in History(acked[p], p, i) : acked[p][j].status \in Terminal} = {k}
                     /\ Latest(read, p, i) = acked[p][k]
                     /\ st[p].stopped /\ i > 0 => acked[p][k].status = "cancelled"
      <4>1. PICK s : s = st[p]
        OBVIOUS
      <4>2. PICK log : log = acked[p]
        OBVIOUS
      <4>3. Settled(p, s, log) /\ s.ordinal = LastCandidate[p] /\ FiledOf(p, s, log, pieces)
            /\ \E k \in Outcomes(log) : log[k].ordinal = s.ordinal
        BY <2>1, <3>3, <4>1, <4>2 DEF IInv, AllSettled, SettledOf, Filed
      <4>4. PICK k \in Outcomes(log) : log[k].ordinal = i
        <5>1. LastCandidate[p] \in Nat
          BY LastAssumption
        <5>2. i = s.ordinal \/ i \in 0..(s.ordinal - 1)
          BY <4>3, <5>1
        <5> QED
          BY <4>3, <5>2 DEF Settled
      <4>5. k \in DOMAIN log /\ log[k].campaign = p /\ log[k].status \in Terminal
        BY <4>3, <4>4 DEF Settled, Outcomes
      <4>6. {j \in History(log, p, i) : log[j].status \in Terminal} = {k}
        BY <4>3, <4>4, <4>5 DEF Settled, Outcomes, History
      <4>7. Latest(read, p, i) = log[k]
        BY <2>2, <3>2, <4>3, <4>4, <4>5, LatestIsOutcome
      <4>8. s.stopped /\ i > 0 => log[k].status = "cancelled"
        BY <4>3, <4>4 DEF Settled
      <4> QED
        BY <4>1, <4>2, <4>5, <4>6, <4>7, <4>8
    <3> QED
      BY <2>1, <2>4, <3>1, <3>3
  <2> QED
    BY <2>3, <2>4
<1> QED
  BY <1>1, Invariance, PTL

=============================================================================
