---------------------- MODULE PlaygroundWorker_proof ----------------------
(***************************************************************************)
(* For any workers of a session: a target runs in a whole environment, and  *)
(* success is earned.  Two workers meet only in the setup of the            *)
(* environment, which the lock makes one at a time; the rest is the way of   *)
(* one worker by itself.                                                    *)
(***************************************************************************)
EXTENDS PlaygroundWorker, TLAPS

(* The inductive invariant *)

Setup == {"probe", "venv", "sites", "pip", "marker", "read"}
Building == {"venv", "sites", "pip", "marker"}
Using == {"target", "which", "capture", "export"}

Done(w) == work[w].child = "exited" /\ work[w].code = 0

\* The lock is held in the setup, and nowhere else.
Exclusive == \A w \in Workers : work[w].pc \in Setup <=> lock = w

\* The environment comes before its marker, and the marker is not there while
\* somebody builds.
BuiltFor(w) ==
    /\ work[w].pc \in Building => marker = "none"
    /\ (At(w, "venv") /\ Done(w)) \/ At(w, "sites") =>
         venv = IF Packages THEN "bare" ELSE "whole"
    /\ (At(w, "pip") /\ Done(w)) \/ At(w, "marker") => venv = "whole"
    /\ work[w].pc \in Using => marker = "whole"

Built == (marker = "whole" => venv = "whole") /\ \A w \in Workers : BuiltFor(w)

\* What a worker has behind it: the commands that ended badly left a trace, and
\* those a success needs did run.
Kept(s, mode, exports) ==
    /\ s.pc \notin Commands => s.child = "none"
    /\ s.pc # "export" => s.captured = 0 /\ s.exported = 0 /\ s.ok
    /\ s.pc = "target" => mode = "run"
    /\ s.pc \in {"which", "capture", "export"} => mode # "run"
    /\ s.pc = "export" => s.exported < exports
    /\ \A e \in s.exits : e[3] = 0 \/ s.captured = 1 \/ ~s.ok \/ (s.child = "exited" /\ s.code = 1)
    /\ s.child = "exited" /\ s.code = 0 => <<s.pc, s.exported, 0>> \in s.exits
    /\ s.pc = "export" /\ s.captured = 0 => <<"capture", 0, 0>> \in s.exits
    /\ s.pc = "export" /\ s.ok => \A i \in 0..(s.exported - 1) : <<"export", i, 0>> \in s.exits

Shown(s, mode, exports) ==
    s.pc \in {"result", "ack"} /\ s.verdict = "succeeded" =>
        /\ \A e \in s.exits : e[3] = 0
        /\ IF mode = "run" THEN <<"target", 0, 0>> \in s.exits
           ELSE /\ <<"capture", 0, 0>> \in s.exits
                /\ \A i \in 1..exports : <<"export", i - 1, 0>> \in s.exits

Earned(w) == Kept(work[w], Mode[w], Exports(w)) /\ Shown(work[w], Mode[w], Exports(w))

IInv == TypeOK /\ Exclusive /\ Built /\ \A w \in Workers : Earned(w)

-----------------------------------------------------------------------------
(* What the updates of the actions make of a worker *)

\* A step of w leaves the record s to it and all else alone.
Becomes(w, s) == work' = [work EXCEPT ![w] = s]

LEMMA Becoming ==
  ASSUME TypeOK, NEW w \in Workers, NEW s \in Walk, Becomes(w, s)
  PROVE  /\ work' \in [Workers -> Walk] /\ work'[w] = s
         /\ \A x \in Workers : x # w => work'[x] = work[x]
BY DEF Becomes, TypeOK

\* The record after Leave.
Left(s, verdict) ==
    Bare("result", s.stream, verdict, IF verdict = "succeeded" THEN s.exits ELSE {})

LEMMA Leaving ==
  ASSUME TypeOK, Exclusive, NEW w \in Workers, NEW v \in Verdicts, Leave(w, v),
         Kept(work[w], Mode[w], Exports(w)),
         v = "succeeded" => Shown(Left(work[w], v), Mode[w], Exports(w))
  PROVE  /\ work' \in [Workers -> Walk] /\ lock' \in Workers \cup {None}
         /\ Exclusive' /\ Earned(w)' /\ work'[w].pc = "result"
         /\ \A x \in Workers : x # w => work'[x] = work[x]
<1> DEFINE s == Left(work[w], v)
<1>1. s \in Walk
  <2>1. work[w].stream \in {"open", "acknowledged", "broken"}
        /\ work[w].exits \in SUBSET (Commands \X (0..2) \X {0, 1})
    BY DEF TypeOK, Walk
  <2>2. "result" \in Phases
    BY DEF Phases
  <2> QED
    BY <2>1, <2>2 DEF Walk, Left, Bare
<1>2. Becomes(w, s)
  BY DEF Leave, Left, Becomes
<1>3. /\ s.pc = "result" /\ s.child = "none" /\ s.captured = 0 /\ s.exported = 0 /\ s.ok = TRUE
      /\ s.verdict = v /\ (v # "succeeded" => s.exits = {}) /\ (v = "succeeded" => s.exits = work[w].exits)
  BY DEF Left, Bare
<1>4. Shown(s, Mode[w], Exports(w))
  BY <1>3 DEF Shown
<1>5. Kept(s, Mode[w], Exports(w))
  <2>1. \A e \in s.exits : e[3] = 0
    BY <1>3, <1>4 DEF Shown
  <2> QED
    BY <1>3, <2>1 DEF Kept, Commands
<1> HIDE DEF s
<1>6. /\ work' \in [Workers -> Walk] /\ work'[w] = s
      /\ \A x \in Workers : x # w => work'[x] = work[x]
  BY <1>1, <1>2, Becoming
<1>7. lock' = IF lock = w THEN None ELSE lock
  BY DEF Leave
<1>8. Exclusive'
  BY <1>3, <1>6, <1>7, NoneAssumption DEF Exclusive, Setup, TypeOK
<1>9. Earned(w)'
  BY <1>4, <1>5, <1>6 DEF Earned, Exports
<1> QED
  BY <1>3, <1>6, <1>7, <1>8, <1>9 DEF TypeOK

\* To a new phase, with nothing running.
LEMMA Going ==
  ASSUME TypeOK, NEW w \in Workers, NEW p \in Phases, Go(w, p) \/ GoAfresh(w, p)
  PROVE  /\ work' \in [Workers -> Walk]
         /\ \A x \in Workers : x # w => work'[x] = work[x]
         /\ work'[w].pc = p /\ work'[w].child = "none" /\ work'[w].code = 0
         /\ work'[w].captured = work[w].captured /\ work'[w].exported = work[w].exported
         /\ work'[w].ok = work[w].ok /\ work'[w].verdict = work[w].verdict
         /\ work'[w].exits = work[w].exits
<1>1. work[w] \in Walk
  BY DEF TypeOK
<1>2. CASE Go(w, p)
  <2> DEFINE s == [work[w] EXCEPT !.pc = p, !.child = "none", !.away = FALSE, !.code = 0]
  <2>1. /\ s \in Walk /\ s.pc = p /\ s.child = "none" /\ s.code = 0
        /\ s.captured = work[w].captured /\ s.exported = work[w].exported
        /\ s.ok = work[w].ok /\ s.verdict = work[w].verdict /\ s.exits = work[w].exits
    BY <1>1 DEF Walk
  <2>2. Becomes(w, s)
    BY <1>1, <1>2 DEF Go, Becomes, TypeOK, Walk
  <2> HIDE DEF s
  <2> QED
    BY <2>1, <2>2, Becoming
<1>3. CASE GoAfresh(w, p)
  <2> DEFINE s == [work[w] EXCEPT !.pc = p, !.child = "none", !.away = FALSE, !.code = 0,
                                  !.late = FALSE]
  <2>1. /\ s \in Walk /\ s.pc = p /\ s.child = "none" /\ s.code = 0
        /\ s.captured = work[w].captured /\ s.exported = work[w].exported
        /\ s.ok = work[w].ok /\ s.verdict = work[w].verdict /\ s.exits = work[w].exits
    BY <1>1 DEF Walk
  <2>2. Becomes(w, s)
    BY <1>1, <1>3 DEF GoAfresh, Becomes, TypeOK, Walk
  <2> HIDE DEF s
  <2> QED
    BY <2>1, <2>2, Becoming
<1> QED
  BY <1>2, <1>3

LEMMA GoesOn ==
  ASSUME TypeOK, NEW w \in Workers, NEW p \in Phases \ {"export", "result"},
         Go(w, p) \/ GoAfresh(w, p), Earned(w),
         work[w].pc # "export", work[w].child = "none" \/ Done(w),
         p = "target" => Mode[w] = "run",
         p \in {"which", "capture"} => Mode[w] # "run",
         p = "ack" => work[w].pc = "result"
  PROVE  /\ work' \in [Workers -> Walk]
         /\ \A x \in Workers : x # w => work'[x] = work[x]
         /\ work'[w].pc = p /\ work'[w].child = "none" /\ Earned(w)'
<1>1. p \in Phases
  OBVIOUS
<1>2. /\ work' \in [Workers -> Walk]
      /\ \A x \in Workers : x # w => work'[x] = work[x]
      /\ work'[w].pc = p /\ work'[w].child = "none" /\ work'[w].code = 0
      /\ work'[w].captured = work[w].captured /\ work'[w].exported = work[w].exported
      /\ work'[w].ok = work[w].ok /\ work'[w].verdict = work[w].verdict
      /\ work'[w].exits = work[w].exits
  BY <1>1, Going
<1>3. \A e \in work[w].exits : e[3] = 0
  BY DEF Earned, Kept, Done
<1>4. Kept(work'[w], Mode[w], Exports(w))
  BY <1>2, <1>3 DEF Earned, Kept
<1>5. Shown(work'[w], Mode[w], Exports(w))
  BY <1>2 DEF Earned, Shown
<1> QED
  BY <1>2, <1>4, <1>5 DEF Earned, Exports

\* A worker that stays where it is, with the same command and the same traces.
LEMMA Stays ==
  ASSUME NEW s, NEW t, NEW mode, NEW n, Kept(s, mode, n), Shown(s, mode, n),
         t.pc = s.pc, t.captured = s.captured, t.exported = s.exported, t.ok = s.ok,
         t.verdict = s.verdict, t.exits = s.exits, t.code = s.code,
         t.child = s.child \/ (s.child = "none" /\ t.child = "running" /\ s.pc \in Commands)
  PROVE  Kept(t, mode, n) /\ Shown(t, mode, n)
BY DEF Kept, Shown

LEMMA ExclusiveStays ==
  ASSUME Exclusive, NEW w \in Workers, UNCHANGED lock,
         \A x \in Workers : x # w => work'[x] = work[x],
         work'[w].pc \in Setup <=> work[w].pc \in Setup
  PROVE  Exclusive'
BY DEF Exclusive

LEMMA BuiltStays ==
  ASSUME Built, NEW w \in Workers, UNCHANGED disk,
         \A x \in Workers : x # w => work'[x] = work[x],
         BuiltFor(w)'
  PROVE  Built'
BY DEF Built, BuiltFor, At, Done, disk

-----------------------------------------------------------------------------
(* Every step of a worker keeps the invariant *)

Keeps(w) ==
    /\ work' \in [Workers -> Walk] /\ lock' \in Workers \cup {None}
    /\ venv' \in {"none", "torn", "bare", "whole"} /\ marker' \in {"none", "torn", "whole"}
    /\ \A x \in Workers : x # w => work'[x] = work[x]
    /\ Exclusive' /\ Built' /\ Earned(w)'

LEMMA Joined == ASSUME IInv, NEW w \in Workers, Keeps(w) PROVE IInv'
BY DEF Keeps, IInv, TypeOK, Earned, Exports

LEMMA Out ==
  ASSUME IInv, NEW w \in Workers, NEW v \in Verdicts, Leave(w, v), UNCHANGED disk,
         v = "succeeded" => Shown(Left(work[w], v), Mode[w], Exports(w))
  PROVE  Keeps(w)
<1>1. /\ work' \in [Workers -> Walk] /\ lock' \in Workers \cup {None}
      /\ Exclusive' /\ Earned(w)' /\ work'[w].pc = "result"
      /\ \A x \in Workers : x # w => work'[x] = work[x]
  BY Leaving DEF IInv, Earned
<1>2. BuiltFor(w)'
  BY <1>1 DEF BuiltFor, At, Building, Using
<1>3. Built'
  BY <1>1, <1>2, BuiltStays DEF IInv
<1> QED
  BY <1>1, <1>3 DEF Keeps, IInv, TypeOK, disk

LEMMA Failing ==
  ASSUME IInv, NEW w \in Workers, NEW v \in Verdicts \ {"succeeded"}, Leave(w, v), UNCHANGED disk
  PROVE  Keeps(w)
<1>1. v \in Verdicts /\ v # "succeeded"
  OBVIOUS
<1> QED
  BY <1>1, Out

\* A new phase outside of the setup, or a later one of it with the same disk.
LEMMA On ==
  ASSUME IInv, NEW w \in Workers, NEW p \in Phases \ {"export", "result"},
         Go(w, p) \/ GoAfresh(w, p),
         work[w].pc # "export", work[w].child = "none" \/ Done(w),
         p = "target" => Mode[w] = "run",
         p \in {"which", "capture"} => Mode[w] # "run",
         p = "ack" => work[w].pc = "result",
         UNCHANGED disk,
         lock' = lock, p \in Setup <=> work[w].pc \in Setup,
         p \in Building => marker = "none",
         p = "sites" => venv = IF Packages THEN "bare" ELSE "whole",
         p = "marker" => venv = "whole",
         p \in Using => marker = "whole"
  PROVE  Keeps(w)
<1>1. TypeOK /\ Earned(w) /\ Exclusive /\ Built
  BY DEF IInv
<1>2. /\ work' \in [Workers -> Walk]
      /\ \A x \in Workers : x # w => work'[x] = work[x]
      /\ work'[w].pc = p /\ work'[w].child = "none" /\ Earned(w)'
  BY <1>1, GoesOn
<1>3. Exclusive'
  BY <1>1, <1>2, ExclusiveStays
<1>4. BuiltFor(w)'
  BY <1>2 DEF BuiltFor, At, Done, disk
<1>5. Built'
  BY <1>1, <1>2, <1>4, BuiltStays
<1> QED
  BY <1>1, <1>2, <1>3, <1>5 DEF Keeps, TypeOK, disk

\* A worker that stays where it is.
LEMMA Still ==
  ASSUME IInv, NEW w \in Workers, NEW t \in Walk, Becomes(w, t), UNCHANGED <<disk, lock>>,
         t.pc = work[w].pc, t.captured = work[w].captured, t.exported = work[w].exported,
         t.ok = work[w].ok, t.verdict = work[w].verdict, t.exits = work[w].exits,
         t.code = work[w].code, t.child = work[w].child
  PROVE  Keeps(w)
<1>1. TypeOK /\ Earned(w) /\ Exclusive /\ Built
  BY DEF IInv
<1>2. /\ work' \in [Workers -> Walk] /\ work'[w] = t
      /\ \A x \in Workers : x # w => work'[x] = work[x]
  BY <1>1, Becoming
<1>3. Earned(w)'
  <2>1. Kept(work[w], Mode[w], Exports(w)) /\ Shown(work[w], Mode[w], Exports(w))
    BY <1>1 DEF Earned
  <2>2. Kept(t, Mode[w], Exports(w)) /\ Shown(t, Mode[w], Exports(w))
    BY <2>1, Stays
  <2> QED
    BY <1>2, <2>2 DEF Earned, Exports
<1>4. Exclusive'
  BY <1>1, <1>2, ExclusiveStays
<1>5. BuiltFor(w)'
  BY <1>1, <1>2 DEF Built, BuiltFor, At, Done, disk
<1>6. Built'
  BY <1>1, <1>2, <1>5, BuiltStays
<1> QED
  BY <1>1, <1>2, <1>3, <1>4, <1>6 DEF Keeps, TypeOK, disk

LEMMA Stopping ==
  ASSUME NEW w \in Workers, Stop(w) # None
  PROVE  Stop(w) \in Verdicts \ {"succeeded"}
BY DEF Stop, Verdicts, Stops

\* Spawn, Poll and ChildExits: the command itself.
LEMMA CommandKeeps ==
  ASSUME IInv, NEW w \in Workers, Spawn(w) \/ Poll(w) \/ ChildExits(w)
  PROVE  Keeps(w)
<1>t. /\ TypeOK /\ Earned(w) /\ Exclusive /\ Built /\ work[w] \in Walk
      /\ Kept(work[w], Mode[w], Exports(w)) /\ Shown(work[w], Mode[w], Exports(w))
  BY DEF IInv, Earned, TypeOK
<1>1. CASE Spawn(w)
  <2>1. CASE Stop(w) # None
    BY <1>1, <2>1, Stopping, Failing DEF Spawn, disk
  <2>2. CASE Leave(w, "failed") /\ UNCHANGED disk
    BY <2>2, Failing DEF Verdicts
  <2>3. CASE /\ work' = [work EXCEPT ![w].child = "running"] /\ UNCHANGED <<lock, marker>>
             /\ venv' = IF work[w].pc \in {"venv", "pip"} THEN "torn" ELSE venv
             /\ work[w].pc \in Commands /\ work[w].child = "none"
    <3> DEFINE t == [work[w] EXCEPT !.child = "running"]
    <3>1. /\ t \in Walk /\ t.pc = work[w].pc /\ t.child = "running" /\ t.code = work[w].code
          /\ t.captured = work[w].captured /\ t.exported = work[w].exported
          /\ t.ok = work[w].ok /\ t.verdict = work[w].verdict /\ t.exits = work[w].exits
      BY <1>t DEF Walk
    <3>2. Becomes(w, t)
      BY <1>t, <2>3 DEF Becomes, TypeOK, Walk
    <3> HIDE DEF t
    <3>3. /\ work' \in [Workers -> Walk] /\ work'[w] = t
          /\ \A x \in Workers : x # w => work'[x] = work[x]
      BY <1>t, <3>1, <3>2, Becoming
    <3>4. Kept(t, Mode[w], Exports(w)) /\ Shown(t, Mode[w], Exports(w))
      BY <1>t, <2>3, <3>1, Stays
    <3>5. Earned(w)'
      BY <3>3, <3>4 DEF Earned, Exports
    <3>6. Exclusive'
      BY <1>t, <2>3, <3>1, <3>3, ExclusiveStays
    <3>7. CASE work[w].pc \in {"venv", "pip"}
      <4>1. marker = "none" /\ lock = w /\ venv' = "torn" /\ marker' = "none"
        BY <1>t, <2>3, <3>7 DEF Built, BuiltFor, Building, Exclusive, Setup
      <4>2. \A x \in Workers : x # w => work[x].pc \notin Setup \cup Using
        BY <1>t, <4>1 DEF Exclusive, Built, BuiltFor
      <4>3. \A x \in Workers : x # w => BuiltFor(x)'
        BY <4>1, <4>2, <3>3 DEF BuiltFor, At, Setup, Building
      <4>4. BuiltFor(w)'
        BY <3>1, <3>3, <3>7, <4>1 DEF BuiltFor, At, Done, Using
      <4>5. Built'
        BY <4>1, <4>3, <4>4 DEF Built
      <4> QED
        BY <1>t, <2>3, <3>3, <3>5, <3>6, <4>1, <4>5 DEF Keeps, TypeOK
    <3>8. CASE work[w].pc \notin {"venv", "pip"}
      <4>1. BuiltFor(w)'
        BY <1>t, <2>3, <3>1, <3>3, <3>8 DEF Built, BuiltFor, At, Done
      <4>2. UNCHANGED disk
        BY <2>3, <3>8 DEF disk
      <4>3. Built'
        BY <1>t, <3>3, <4>1, <4>2, BuiltStays
      <4> QED
        BY <1>t, <2>3, <3>3, <3>5, <3>6, <4>2, <4>3 DEF Keeps, TypeOK, disk
    <3> QED
      BY <3>7, <3>8
  <2> QED
    BY <1>1, <2>1, <2>2, <2>3 DEF Spawn, disk
<1>2. CASE Poll(w)
  <2>1. CASE At(w, "capture") /\ work[w].stopping = None
    <3> DEFINE t == [work[w] EXCEPT !.stopping = Stop(w), !.late = FALSE]
    <3>1. Stop(w) \in Stops
      BY <1>2, <2>1 DEF Poll, Stop, Stops
    <3>2. /\ t \in Walk /\ t.pc = work[w].pc /\ t.child = work[w].child /\ t.code = work[w].code
          /\ t.captured = work[w].captured /\ t.exported = work[w].exported
          /\ t.ok = work[w].ok /\ t.verdict = work[w].verdict /\ t.exits = work[w].exits
      BY <1>t, <3>1 DEF Walk
    <3>3. Becomes(w, t)
      BY <1>2, <1>t, <2>1 DEF Poll, Becomes, TypeOK, Walk
    <3>4. UNCHANGED <<disk, lock>>
      BY <1>2, <2>1 DEF Poll
    <3> HIDE DEF t
    <3> QED
      BY <3>2, <3>3, <3>4, Still
  <2>2. CASE At(w, "capture") /\ work[w].stopping # None
    <3>1. work[w].stopping \in Verdicts \ {"succeeded"}
      BY <1>t, <2>2 DEF Walk, Verdicts, Stops
    <3>2. Leave(w, work[w].stopping) /\ UNCHANGED disk
      BY <1>2, <2>2 DEF Poll
    <3> QED
      BY <3>1, <3>2, Failing
  <2>3. CASE ~At(w, "capture")
    <3>1. Stop(w) # None /\ Leave(w, Stop(w)) /\ UNCHANGED disk
      BY <1>2, <2>3 DEF Poll
    <3> QED
      BY <3>1, Stopping, Failing
  <2> QED
    BY <2>1, <2>2, <2>3
<1>3. CASE ChildExits(w)
  <2>1. PICK code \in {0, 1}, away \in BOOLEAN :
          /\ work' = [work EXCEPT ![w].child = "exited", ![w].code = code, ![w].away = away,
                 ![w].exits = @ \cup {<<work[w].pc, work[w].exported, code>>}]
          /\ venv' = IF code # 0 THEN venv
                     ELSE CASE At(w, "venv") -> IF Packages THEN "bare" ELSE "whole"
                            [] At(w, "pip") -> "whole"
                            [] OTHER -> venv
    BY <1>3 DEF ChildExits
  <2>2. work[w].child = "running" /\ UNCHANGED <<marker, lock>> /\ work[w].pc \in Commands
    BY <1>3, <1>t DEF ChildExits, Kept
  <2> DEFINE e == <<work[w].pc, work[w].exported, code>>
             t == [work[w] EXCEPT !.child = "exited", !.code = code, !.away = away,
                                  !.exits = @ \cup {e}]
  <2>3. e \in Commands \X (0..2) \X {0, 1}
    BY <1>t, <2>2 DEF Walk
  <2>4. /\ t \in Walk /\ t.pc = work[w].pc /\ t.child = "exited" /\ t.code = code
        /\ t.captured = work[w].captured /\ t.exported = work[w].exported
        /\ t.ok = work[w].ok /\ t.verdict = work[w].verdict /\ t.exits = work[w].exits \cup {e}
    BY <1>t, <2>3 DEF Walk
  <2>5. Becomes(w, t)
    BY <1>t, <2>1 DEF Becomes, TypeOK, Walk
  <2>e. e[3] = code /\ e = <<work[w].pc, work[w].exported, code>>
    OBVIOUS
  <2> HIDE DEF t, e
  <2>6. /\ work' \in [Workers -> Walk] /\ work'[w] = t
        /\ \A x \in Workers : x # w => work'[x] = work[x]
    BY <1>t, <2>4, <2>5, Becoming
  <2>7. Kept(t, Mode[w], Exports(w))
    BY <1>t, <2>2, <2>4, <2>e DEF Kept
  <2>8. Shown(t, Mode[w], Exports(w))
    BY <2>2, <2>4 DEF Shown, Commands
  <2>9. Earned(w)'
    BY <2>6, <2>7, <2>8 DEF Earned, Exports
  <2>10. Exclusive'
    BY <1>t, <2>2, <2>4, <2>6, ExclusiveStays
  <2>11. CASE At(w, "venv") \/ At(w, "pip")
    <3>1. /\ marker = "none" /\ lock = w /\ marker' = "none"
          /\ venv' \in {"none", "torn", "bare", "whole"}
      BY <1>t, <2>1, <2>2, <2>11 DEF Built, BuiltFor, Building, Exclusive, Setup, At, TypeOK
    <3>2. \A x \in Workers : x # w => work[x].pc \notin Setup \cup Using
      BY <1>t, <3>1 DEF Exclusive, Built, BuiltFor
    <3>3. \A x \in Workers : x # w => BuiltFor(x)'
      BY <3>1, <3>2, <2>6 DEF BuiltFor, At, Setup, Building
    <3>4. BuiltFor(w)'
      BY <2>1, <2>4, <2>6, <2>11, <3>1 DEF BuiltFor, At, Done, Using
    <3>5. Built'
      BY <3>1, <3>3, <3>4 DEF Built
    <3> QED
      BY <1>t, <2>2, <2>6, <2>9, <2>10, <3>1, <3>5 DEF Keeps, TypeOK
  <2>12. CASE ~At(w, "venv") /\ ~At(w, "pip")
    <3>1. UNCHANGED disk
      BY <2>1, <2>2, <2>12 DEF disk
    <3>2. BuiltFor(w)'
      BY <1>t, <2>4, <2>6, <2>12, <3>1 DEF Built, BuiltFor, At, disk
    <3>3. Built'
      BY <1>t, <2>6, <3>1, <3>2, BuiltStays
    <3> QED
      BY <1>t, <2>2, <2>6, <2>9, <2>10, <3>1, <3>3 DEF Keeps, TypeOK, disk
  <2> QED
    BY <2>11, <2>12
<1> QED
  BY <1>1, <1>2, <1>3

\* Out of a phase that holds no lock, for good.
LEMMA Ending ==
  ASSUME IInv, NEW w \in Workers, End(w), work[w].pc \notin Setup, UNCHANGED <<disk, lock>>
  PROVE  Keeps(w)
<1>t. TypeOK /\ Exclusive /\ Built
  BY DEF IInv
<1> DEFINE t == Bare("ended", "open", None, {})
<1>1. /\ t \in Walk /\ t.pc = "ended" /\ t.child = "none" /\ t.captured = 0 /\ t.exported = 0
      /\ t.ok = TRUE /\ t.exits = {}
  BY DEF Bare, Walk, Phases
<1>2. Becomes(w, t)
  BY DEF End, Becomes
<1> HIDE DEF t
<1>3. /\ work' \in [Workers -> Walk] /\ work'[w] = t
      /\ \A x \in Workers : x # w => work'[x] = work[x]
  BY <1>t, <1>1, <1>2, Becoming
<1>4. Kept(t, Mode[w], Exports(w)) /\ Shown(t, Mode[w], Exports(w))
  BY <1>1 DEF Kept, Shown, Commands
<1>5. Earned(w)'
  BY <1>3, <1>4 DEF Earned, Exports
<1>6. Exclusive'
  BY <1>t, <1>1, <1>3, ExclusiveStays DEF Setup
<1>7. BuiltFor(w)'
  BY <1>1, <1>3 DEF BuiltFor, At, Building, Using
<1>8. Built'
  BY <1>t, <1>3, <1>7, BuiltStays
<1> QED
  BY <1>t, <1>3, <1>5, <1>6, <1>8 DEF Keeps, TypeOK, disk

LEMMA ThenKeeps ==
  ASSUME IInv, NEW w \in Workers,
         Then(w, "verify", "lock") \/ Then(w, "venv", "sites") \/ Then(w, "pip", "marker")
  PROVE  Keeps(w)
<1>t. Earned(w) /\ Exclusive /\ Built /\ work[w] \in Walk
  BY DEF IInv, TypeOK
<1>1. ASSUME NEW p \in Phases, NEW q \in Phases \ {"export", "result"}, Then(w, p, q),
             q \notin {"target", "which", "capture", "export", "ack"}, p # "export",
             p \in Setup <=> q \in Setup,
             Done(w) /\ At(w, p) /\ q \in Building => marker = "none",
             Done(w) /\ At(w, p) /\ q = "sites" => venv = IF Packages THEN "bare" ELSE "whole",
             Done(w) /\ At(w, p) /\ q = "marker" => venv = "whole"
      PROVE  Keeps(w)
  <2>1. At(w, p) /\ work[w].child = "exited" /\ UNCHANGED disk
    BY <1>1 DEF Then, Returned
  <2>2. CASE work[w].code = 0
    <3>1. Go(w, q) /\ lock' = lock /\ Done(w)
      BY <1>1, <2>1, <2>2 DEF Then, Done
    <3>2. /\ q = "target" => Mode[w] = "run"
          /\ q \in {"which", "capture"} => Mode[w] # "run"
          /\ q = "ack" => work[w].pc = "result"
          /\ q \in Using => marker = "whole"
      BY <1>1 DEF Using
    <3>3. /\ q \in Setup <=> work[w].pc \in Setup
          /\ work[w].pc # "export"
      BY <1>1, <2>1 DEF At
    <3>4. /\ q \in Building => marker = "none"
          /\ q = "sites" => venv = IF Packages THEN "bare" ELSE "whole"
          /\ q = "marker" => venv = "whole"
      BY <1>1, <2>1, <3>1
    <3> QED
      BY <2>1, <3>1, <3>2, <3>3, <3>4, On
  <2>3. CASE work[w].code # 0
    <3>1. Leave(w, "failed")
      BY <1>1, <2>3 DEF Then
    <3> QED
      BY <2>1, <3>1, Failing DEF Verdicts
  <2> QED
    BY <2>2, <2>3
<1>2. CASE Then(w, "verify", "lock")
  BY <1>1, <1>2 DEF Phases, Commands, Setup, Building
<1>3. CASE Then(w, "venv", "sites")
  <2>1. Done(w) /\ At(w, "venv") => marker = "none" /\ venv = IF Packages THEN "bare" ELSE "whole"
    BY <1>t DEF Built, BuiltFor, At, Building
  <2>2. "venv" \in Phases /\ "sites" \in Phases \ {"export", "result"}
    BY DEF Phases, Commands
  <2>3. "venv" \in Setup /\ "sites" \in Setup
    BY DEF Setup
  <2> QED
    BY <1>1, <1>3, <2>1, <2>2, <2>3
<1>4. CASE Then(w, "pip", "marker")
  <2>1. Done(w) /\ At(w, "pip") => marker = "none" /\ venv = "whole"
    BY <1>t DEF Built, BuiltFor, At, Building
  <2>2. "pip" \in Phases /\ "marker" \in Phases \ {"export", "result"}
    BY DEF Phases, Commands
  <2>3. "pip" \in Setup /\ "marker" \in Setup
    BY DEF Setup
  <2> QED
    BY <1>1, <1>4, <2>1, <2>2, <2>3
<1> QED
  BY <1>2, <1>3, <1>4

LEMMA TargetKeeps ==
  ASSUME IInv, NEW w \in Workers, TargetEnds(w)
  PROVE  Keeps(w)
<1>t. Kept(work[w], Mode[w], Exports(w)) /\ work[w] \in Walk
  BY DEF IInv, TypeOK, Earned
<1>1. At(w, "target") /\ work[w].child = "exited" /\ UNCHANGED disk
  BY DEF TargetEnds, Returned
<1>2. CASE work[w].code = 0
  <2>1. Leave(w, "succeeded")
    BY <1>2 DEF TargetEnds
  <2> DEFINE t == Left(work[w], "succeeded")
  <2>2. t.exits = work[w].exits
    BY DEF Left, Bare
  <2> HIDE DEF t
  <2>3. Shown(t, Mode[w], Exports(w))
    BY <1>t, <1>1, <1>2, <2>2 DEF Shown, Kept, At
  <2> QED
    BY <1>1, <2>1, <2>3, Out DEF t, Verdicts
<1>3. CASE work[w].code # 0
  <2>1. Leave(w, "failed")
    BY <1>3 DEF TargetEnds
  <2> QED
    BY <1>1, <2>1, Failing DEF Verdicts
<1> QED
  BY <1>2, <1>3

LEMMA CaptureKeeps ==
  ASSUME IInv, NEW w \in Workers, CaptureEnds(w)
  PROVE  Keeps(w)
<1>t. /\ TypeOK /\ Earned(w) /\ Exclusive /\ Built /\ work[w] \in Walk
      /\ Kept(work[w], Mode[w], Exports(w)) /\ Shown(work[w], Mode[w], Exports(w))
  BY DEF IInv, Earned, TypeOK
<1>1. At(w, "capture") /\ work[w].child = "exited" /\ UNCHANGED disk
  BY DEF CaptureEnds, Returned
<1>2. CASE work[w].stopping # None /\ Leave(w, work[w].stopping)
  <2>1. work[w].stopping \in Verdicts \ {"succeeded"}
    BY <1>t, <1>2 DEF Walk, Verdicts, Stops
  <2> QED
    BY <1>1, <1>2, <2>1, Failing
<1>3. CASE Leave(w, "failed")
  BY <1>1, <1>3, Failing DEF Verdicts
<1>4. CASE /\ work' = [work EXCEPT ![w].pc = "export", ![w].child = "none", ![w].away = FALSE,
                       ![w].late = FALSE, ![w].code = 0, ![w].captured = work[w].code]
           /\ UNCHANGED lock
  <2> DEFINE t == [work[w] EXCEPT !.pc = "export", !.child = "none", !.away = FALSE,
                                  !.late = FALSE, !.code = 0, !.captured = work[w].code]
  <2>1. /\ t \in Walk /\ t.pc = "export" /\ t.child = "none" /\ t.code = 0
        /\ t.captured = work[w].code /\ t.exported = work[w].exported
        /\ t.ok = work[w].ok /\ t.exits = work[w].exits
    BY <1>t DEF Walk, Phases, Commands
  <2>2. Becomes(w, t)
    BY <1>t, <1>4 DEF Becomes, TypeOK, Walk
  <2> HIDE DEF t
  <2>3. /\ work' \in [Workers -> Walk] /\ work'[w] = t
        /\ \A x \in Workers : x # w => work'[x] = work[x]
    BY <1>t, <2>1, <2>2, Becoming
  <2>4. work[w].code \in {0, 1} /\ work[w].exported = 0 /\ work[w].captured = 0 /\ work[w].ok
    BY <1>t, <1>1 DEF Walk, Kept, At
  <2>5. Exports(w) \in {1, 2} /\ Mode[w] # "run"
    BY <1>t, <1>1 DEF Exports, Kept, At
  <2>6. Kept(t, Mode[w], Exports(w))
    BY <1>t, <1>1, <2>1, <2>4, <2>5 DEF Kept, At, Commands
  <2>7. Earned(w)'
    BY <2>1, <2>3, <2>6 DEF Earned, Shown, Exports
  <2>8. Exclusive'
    BY <1>t, <1>1, <1>4, <2>1, <2>3, ExclusiveStays DEF At, Setup
  <2>9. BuiltFor(w)'
    BY <1>t, <1>1, <2>1, <2>3 DEF Built, BuiltFor, At, Building, Using, disk
  <2>10. Built'
    BY <1>t, <1>1, <2>3, <2>9, BuiltStays
  <2> QED
    BY <1>t, <1>1, <1>4, <2>3, <2>7, <2>8, <2>10 DEF Keeps, TypeOK, disk
<1> QED
  BY <1>2, <1>3, <1>4 DEF CaptureEnds

\* The record after an export that another one follows.
Again(s, n, good) ==
    [s EXCEPT !.exported = n, !.ok = good, !.late = FALSE, !.code = 0, !.child = "none",
              !.away = FALSE]

LEMMA Exporting ==
  ASSUME NEW s \in Walk, NEW n \in 0..2, NEW good \in BOOLEAN
  PROVE  LET t == Again(s, n, good)
         IN  /\ t \in Walk /\ t.pc = s.pc /\ t.child = "none" /\ t.code = 0
             /\ t.captured = s.captured /\ t.exported = n /\ t.ok = good /\ t.exits = s.exits
<1> DEFINE t1 == [s EXCEPT !.exported = n]
           t2 == [t1 EXCEPT !.ok = good]
           t3 == [t2 EXCEPT !.late = FALSE, !.code = 0, !.child = "none", !.away = FALSE]
<1>1. /\ t1 \in Walk /\ t1.pc = s.pc /\ t1.captured = s.captured /\ t1.exported = n
      /\ t1.exits = s.exits
  BY DEF Walk
<1> HIDE DEF t1
<1>2. /\ t2 \in Walk /\ t2.pc = s.pc /\ t2.captured = s.captured /\ t2.exported = n
      /\ t2.exits = s.exits /\ t2.ok = good
  BY <1>1 DEF Walk
<1> HIDE DEF t2
<1>3. /\ t3 \in Walk /\ t3.pc = s.pc /\ t3.captured = s.captured /\ t3.exported = n
      /\ t3.exits = s.exits /\ t3.ok = good /\ t3.child = "none" /\ t3.code = 0
  BY <1>2 DEF Walk
<1> QED
  BY <1>3 DEF t1, t2, Again

LEMMA ExportKeeps ==
  ASSUME IInv, NEW w \in Workers, ExportEnds(w)
  PROVE  Keeps(w)
<1>t. /\ TypeOK /\ Earned(w) /\ Exclusive /\ Built /\ work[w] \in Walk
      /\ Kept(work[w], Mode[w], Exports(w)) /\ Shown(work[w], Mode[w], Exports(w))
  BY DEF IInv, Earned, TypeOK
<1> DEFINE good == work[w].ok /\ work[w].code = 0
<1>1. /\ At(w, "export") /\ work[w].child = "exited" /\ UNCHANGED disk
      /\ Exported(w, good)
  BY DEF ExportEnds, Returned, Exported
<1>2. /\ work[w].exported \in 0..2 /\ work[w].ok \in BOOLEAN /\ good \in BOOLEAN
      /\ work[w].captured \in {0, 1} /\ work[w].code \in {0, 1}
  BY <1>t DEF Walk
<1>3. /\ Exports(w) \in {1, 2} /\ Mode[w] # "run" /\ work[w].exported < Exports(w)
      /\ work[w].captured = 0 => <<"capture", 0, 0>> \in work[w].exits
  BY <1>t, <1>1 DEF Exports, Kept, At
<1>4. ASSUME good, NEW i \in 0..work[w].exported
      PROVE  <<"export", i, 0>> \in work[w].exits
  <2>1. work[w].ok /\ work[w].code = 0 /\ work[w].pc = "export"
    BY <1>1, <1>4 DEF At
  <2>2. <<"export", work[w].exported, 0>> \in work[w].exits
    BY <1>t, <1>1, <2>1 DEF Kept
  <2>3. \A k \in 0..(work[w].exported - 1) : <<"export", k, 0>> \in work[w].exits
    BY <1>t, <2>1 DEF Kept
  <2>4. i = work[w].exported \/ i \in 0..(work[w].exported - 1)
    BY <1>2
  <2> QED
    BY <2>2, <2>3, <2>4
<1>5. \A e \in work[w].exits : e[3] = 0 \/ work[w].captured = 1 \/ ~good
  BY <1>t, <1>2 DEF Kept
<1> HIDE DEF good
<1>6. CASE work[w].exported + 1 < Exports(w)
  <2> DEFINE n == work[w].exported + 1
             t == Again(work[w], n, good)
  <2>1. work[w].exported = 0 /\ Exports(w) = 2
    BY <1>2, <1>3, <1>6
  <2>2. /\ t \in Walk /\ t.pc = "export" /\ t.child = "none" /\ t.code = 0
        /\ t.captured = work[w].captured /\ t.exported = 1
        /\ t.ok = good /\ t.exits = work[w].exits
    <3>1. good \in BOOLEAN /\ work[w].pc = "export" /\ n \in 0..2 /\ n = 1
      BY <1>1, <1>2, <2>1 DEF At
    <3> HIDE DEF n
    <3>2. /\ t \in Walk /\ t.pc = work[w].pc /\ t.child = "none" /\ t.code = 0
          /\ t.captured = work[w].captured /\ t.exported = n /\ t.ok = good
          /\ t.exits = work[w].exits
      BY <1>t, <3>1, Exporting
    <3> HIDE DEF t
    <3> QED
      BY <3>1, <3>2
  <2>3. Becomes(w, t) /\ UNCHANGED lock
    <3>1. /\ work' = [work EXCEPT ![w].exported = @ + 1, ![w].ok = good, ![w].late = FALSE,
                                  ![w].code = 0, ![w].child = "none", ![w].away = FALSE]
          /\ UNCHANGED lock
      BY <1>1, <1>6 DEF Exported
    <3>2. work' = [work EXCEPT ![w].exported = n, ![w].ok = good, ![w].late = FALSE,
                               ![w].code = 0, ![w].child = "none", ![w].away = FALSE]
      BY <3>1
    <3> HIDE DEF n
    <3> QED
      BY <1>t, <3>1, <3>2 DEF Becomes, TypeOK, Walk, Again
  <2> HIDE DEF t
  <2>4. /\ work' \in [Workers -> Walk] /\ work'[w] = t
        /\ \A x \in Workers : x # w => work'[x] = work[x]
    BY <1>t, <2>2, <2>3, Becoming
  <2>5. Kept(t, Mode[w], Exports(w))
    BY <1>2, <1>3, <1>4, <1>5, <2>1, <2>2 DEF Kept, Commands
  <2>6. Earned(w)'
    BY <2>2, <2>4, <2>5 DEF Earned, Shown, Exports
  <2>7. Exclusive'
    BY <1>t, <1>1, <2>2, <2>3, <2>4, ExclusiveStays DEF At, Setup
  <2>8. BuiltFor(w)'
    BY <1>t, <1>1, <2>2, <2>4 DEF Built, BuiltFor, At, Building, Using, disk
  <2>9. Built'
    BY <1>t, <1>1, <2>4, <2>8, BuiltStays
  <2> QED
    BY <1>t, <1>1, <2>3, <2>4, <2>6, <2>7, <2>9 DEF Keeps, TypeOK, disk
<1>7. CASE ~(work[w].exported + 1 < Exports(w)) /\ work[w].captured = 0 /\ good
  <2>1. Leave(w, "succeeded")
    BY <1>1, <1>7 DEF Exported
  <2> DEFINE t == Left(work[w], "succeeded")
  <2>2. t.exits = work[w].exits
    BY DEF Left, Bare
  <2> HIDE DEF t
  <2>3. \A i \in 1..Exports(w) : i - 1 \in 0..work[w].exported
    BY <1>2, <1>3, <1>7
  <2>4. \A i \in 1..Exports(w) : <<"export", i - 1, 0>> \in t.exits
    BY <1>4, <1>7, <2>2, <2>3
  <2>5. Shown(t, Mode[w], Exports(w))
    BY <1>3, <1>5, <1>7, <2>2, <2>4 DEF Shown
  <2> QED
    BY <1>1, <2>1, <2>5, Out DEF t, Verdicts
<1>8. CASE ~(work[w].exported + 1 < Exports(w)) /\ ~(work[w].captured = 0 /\ good)
  <2>1. Leave(w, "failed")
    BY <1>1, <1>8 DEF Exported
  <2> QED
    BY <1>1, <2>1, Failing DEF Verdicts
<1> QED
  BY <1>6, <1>7, <1>8

LEMMA LockKeeps ==
  ASSUME IInv, NEW w \in Workers, TakeLock(w)
  PROVE  Keeps(w)
<1>t. TypeOK /\ Earned(w) /\ Exclusive /\ Built /\ Kept(work[w], Mode[w], Exports(w))
  BY DEF IInv, Earned
<1>1. At(w, "lock") /\ work[w].child = "none" /\ UNCHANGED disk
  BY <1>t DEF TakeLock, Kept, At, Commands
<1>2. CASE Stop(w) # None
  <2>1. Leave(w, Stop(w))
    BY <1>2 DEF TakeLock
  <2> QED
    BY <1>1, <1>2, <2>1, Stopping, Failing
<1>3. CASE Stop(w) = None
  <2>1. lock = None /\ Go(w, "probe") /\ lock' = w
    BY <1>3 DEF TakeLock
  <2>2. "probe" \in Phases \ {"export", "result"}
    BY DEF Phases
  <2>3. /\ work' \in [Workers -> Walk]
        /\ \A x \in Workers : x # w => work'[x] = work[x]
        /\ work'[w].pc = "probe" /\ work'[w].child = "none" /\ Earned(w)'
    BY <1>t, <1>1, <2>1, <2>2, GoesOn DEF At
  <2>4. Exclusive'
    BY <1>t, <2>1, <2>3, NoneAssumption DEF Exclusive, Setup
  <2>5. BuiltFor(w)'
    BY <2>3 DEF BuiltFor, At, Building, Using
  <2>6. Built'
    BY <1>t, <1>1, <2>3, <2>5, BuiltStays
  <2> QED
    BY <1>t, <1>1, <2>1, <2>3, <2>4, <2>6 DEF Keeps, TypeOK, disk
<1> QED
  BY <1>2, <1>3

\* The steps in the setup that change the disk.
LEMMA BuildingKeeps ==
  ASSUME IInv, NEW w \in Workers, Probe(w) \/ Sites(w) \/ Mark(w)
  PROVE  Keeps(w)
<1>t. TypeOK /\ Earned(w) /\ Exclusive /\ Built /\ Kept(work[w], Mode[w], Exports(w))
  BY DEF IInv, Earned
<1>p. {"venv", "pip", "marker", "read"} \subseteq Phases \ {"export", "result"}
  BY DEF Phases, Commands
<1>1. /\ At(w, "probe") \/ At(w, "sites") \/ At(w, "marker")
      /\ work[w].pc \in Setup /\ work[w].pc # "export"
      /\ work[w].child = "none" /\ lock = w
  BY <1>t DEF Probe, Sites, Mark, Kept, At, Commands, Exclusive, Setup
<1>2. \A x \in Workers : x # w => work[x].pc \notin Setup
  BY <1>t, <1>1 DEF Exclusive
<1>3. ASSUME marker = "none", marker' = "none", venv' \in {"none", "torn"},
             work' \in [Workers -> Walk], lock' \in Workers \cup {None}, Exclusive', Earned(w)',
             \A x \in Workers : x # w => work'[x] = work[x],
             work'[w].pc = "result" \/ (work'[w].pc = "venv" /\ work'[w].child = "none")
      PROVE  Keeps(w)
  <2>1. \A x \in Workers : x # w => work[x].pc \notin Using
    BY <1>t, <1>3 DEF Built, BuiltFor
  <2>2. \A x \in Workers : x # w => BuiltFor(x)'
    BY <1>2, <1>3, <2>1 DEF BuiltFor, At, Setup, Building
  <2>3. BuiltFor(w)'
    BY <1>3 DEF BuiltFor, At, Done, Building, Using
  <2>4. Built'
    BY <1>3, <2>2, <2>3 DEF Built
  <2> QED
    BY <1>3, <2>4 DEF Keeps
<1>4. CASE Probe(w) /\ marker # "none"
  <2>1. Go(w, "read") /\ UNCHANGED <<disk, lock>>
    BY <1>4 DEF Probe
  <2> QED
    BY <1>1, <1>p, <2>1, On DEF Setup, Building, Using
<1>5. CASE Probe(w) /\ marker = "none" /\ Go(w, "venv") /\ venv' = "none" /\ UNCHANGED <<marker, lock>>
  <2>1. /\ work' \in [Workers -> Walk]
        /\ \A x \in Workers : x # w => work'[x] = work[x]
        /\ work'[w].pc = "venv" /\ work'[w].child = "none" /\ Earned(w)'
    BY <1>t, <1>1, <1>5, <1>p, GoesOn
  <2>2. Exclusive'
    BY <1>t, <1>1, <1>5, <2>1, ExclusiveStays DEF Setup
  <2> QED
    BY <1>t, <1>3, <1>5, <2>1, <2>2 DEF TypeOK
<1>6. CASE Probe(w) /\ marker = "none" /\ Leave(w, "failed") /\ venv' = "torn" /\ UNCHANGED marker
  <2>1. /\ work' \in [Workers -> Walk] /\ lock' \in Workers \cup {None}
        /\ Exclusive' /\ Earned(w)' /\ work'[w].pc = "result"
        /\ \A x \in Workers : x # w => work'[x] = work[x]
    BY <1>t, <1>6, Leaving DEF Verdicts
  <2> QED
    BY <1>3, <1>6, <2>1
<1>7. CASE Sites(w)
  <2> DEFINE p == IF Packages THEN "pip" ELSE "marker"
  <2>1. Go(w, p) /\ UNCHANGED <<disk, lock>> /\ At(w, "sites")
    BY <1>7 DEF Sites
  <2>2. p \in Phases \ {"export", "result"} /\ p \in {"pip", "marker"}
    BY <1>p
  <2>3. marker = "none" /\ (p = "marker" => venv = "whole")
    BY <1>t, <2>1 DEF Built, BuiltFor, At, Building
  <2> HIDE DEF p
  <2>4. p \in Setup /\ p \notin Using /\ p \notin {"target", "which", "capture", "ack", "sites"}
    BY <2>2 DEF Setup, Using
  <2> QED
    BY <1>1, <2>1, <2>2, <2>3, <2>4, On
<1>8. CASE Mark(w) /\ Go(w, "read") /\ marker' = "whole" /\ UNCHANGED lock
  <2>1. /\ work' \in [Workers -> Walk]
        /\ \A x \in Workers : x # w => work'[x] = work[x]
        /\ work'[w].pc = "read" /\ work'[w].child = "none" /\ Earned(w)'
    BY <1>t, <1>1, <1>8, <1>p, GoesOn
  <2>2. Exclusive'
    BY <1>t, <1>1, <1>8, <2>1, ExclusiveStays DEF Setup
  <2>3. venv = "whole" /\ venv' = "whole" /\ marker = "none"
    BY <1>t, <1>8 DEF Mark, Built, BuiltFor, At, Building
  <2>4. \A x \in Workers : BuiltFor(x)'
    BY <1>2, <1>8, <2>1, <2>3 DEF BuiltFor, At, Setup, Building, Using
  <2>5. Built'
    BY <2>3, <2>4 DEF Built
  <2> QED
    BY <1>t, <1>8, <2>1, <2>2, <2>3, <2>5 DEF Keeps, TypeOK
<1>9. CASE Mark(w) /\ Leave(w, "failed") /\ marker' \in {"none", "torn"} /\ UNCHANGED venv
  <2>1. /\ work' \in [Workers -> Walk] /\ lock' \in Workers \cup {None}
        /\ Exclusive' /\ Earned(w)' /\ work'[w].pc = "result"
        /\ \A x \in Workers : x # w => work'[x] = work[x]
    BY <1>t, <1>9, Leaving DEF Verdicts
  <2>2. marker = "none"
    BY <1>t, <1>9 DEF Mark, Built, BuiltFor, At, Building
  <2>3. \A x \in Workers : x # w => work[x].pc \notin Using
    BY <1>t, <2>2 DEF Built, BuiltFor
  <2>4. \A x \in Workers : BuiltFor(x)'
    BY <1>2, <2>1, <2>3 DEF BuiltFor, At, Setup, Building, Using
  <2>5. Built'
    BY <1>9, <2>4 DEF Built
  <2> QED
    BY <1>t, <1>9, <2>1, <2>5 DEF Keeps, TypeOK
<1> QED
  BY <1>4, <1>5, <1>6, <1>7, <1>8, <1>9 DEF Probe, Mark

LEMMA ReadKeeps ==
  ASSUME IInv, NEW w \in Workers, Read(w)
  PROVE  Keeps(w)
<1>t. TypeOK /\ Earned(w) /\ Exclusive /\ Built /\ Kept(work[w], Mode[w], Exports(w))
  BY DEF IInv, Earned
<1>1. At(w, "read") /\ work[w].child = "none" /\ UNCHANGED disk /\ lock = w
  BY <1>t DEF Read, Kept, At, Commands, Exclusive, Setup
<1>2. CASE marker = "whole"
  <2> DEFINE p == IF Mode[w] = "run" THEN "target" ELSE "which"
  <2>1. GoAfresh(w, p) /\ lock' = None
    BY <1>2 DEF Read
  <2>2. /\ p \in Phases \ {"export", "result"} /\ p \in {"target", "which"}
        /\ (p = "target" => Mode[w] = "run") /\ (p = "which" => Mode[w] # "run")
    BY DEF Phases, Commands
  <2> HIDE DEF p
  <2>3. /\ work' \in [Workers -> Walk]
        /\ \A x \in Workers : x # w => work'[x] = work[x]
        /\ work'[w].pc = p /\ work'[w].child = "none" /\ Earned(w)'
    <3>1. p \notin {"capture", "ack"}
      BY <2>2
    <3> QED
      BY <1>t, <1>1, <2>1, <2>2, <3>1, GoesOn DEF At
  <2>4. Exclusive'
    BY <1>t, <1>1, <2>1, <2>2, <2>3, NoneAssumption DEF Exclusive, Setup
  <2>5. BuiltFor(w)'
    BY <1>1, <1>2, <2>2, <2>3 DEF BuiltFor, At, Building, disk
  <2>6. Built'
    BY <1>t, <1>1, <2>3, <2>5, BuiltStays
  <2> QED
    BY <1>t, <1>1, <2>1, <2>3, <2>4, <2>6 DEF Keeps, TypeOK, disk
<1>3. CASE marker # "whole"
  <2>1. Leave(w, "failed")
    BY <1>3 DEF Read
  <2> QED
    BY <1>1, <2>1, Failing DEF Verdicts
<1> QED
  BY <1>2, <1>3

\* Before and after what a worker executes, and the profiler found.
LEMMA OutsideKeeps ==
  ASSUME IInv, NEW w \in Workers, Begin(w) \/ Which(w) \/ Result(w) \/ WaitForAck(w)
  PROVE  Keeps(w)
<1>t. TypeOK /\ Built /\ Kept(work[w], Mode[w], Exports(w))
  BY DEF IInv, Earned
<1>p. {"verify", "capture", "ack"} \subseteq Phases \ {"export", "result"}
  BY DEF Phases, Commands
<1>1. /\ work[w].pc \in {"new", "which", "result", "ack"} /\ UNCHANGED disk
      /\ UNCHANGED lock
  BY DEF Begin, Which, Result, WaitForAck, At
<1>2. work[w].pc \notin Setup /\ work[w].pc # "export" /\ work[w].child = "none"
  BY <1>t, <1>1 DEF Setup, Kept, Commands
<1>3. CASE End(w)
  BY <1>1, <1>2, <1>3, Ending
<1>4. CASE Begin(w) /\ Go(w, "verify")
  BY <1>1, <1>2, <1>4, <1>p, On DEF Setup, Building, Using
<1>5. CASE Which(w)
  <2>1. GoAfresh(w, "capture") /\ work[w].pc = "which"
    BY <1>5 DEF Which, At
  <2>2. Mode[w] # "run" /\ marker = "whole"
    BY <1>t, <2>1 DEF Kept, Built, BuiltFor, Using
  <2>3. "capture" \notin Setup /\ "capture" \notin Building
    BY DEF Setup, Building
  <2> QED
    BY <1>1, <1>2, <1>p, <2>1, <2>2, <2>3, On
<1>6. CASE Result(w) /\ GoAfresh(w, "ack")
  <2>1. work[w].pc = "result" /\ "ack" \notin Setup \cup Building \cup Using
    BY <1>6 DEF Result, At, Setup, Building, Using
  <2> QED
    BY <1>1, <1>2, <1>6, <1>p, <2>1, On
<1> QED
  BY <1>3, <1>4, <1>5, <1>6 DEF Begin, Result, WaitForAck

\* What surrounds a worker changes no phase, but for an exception.
LEMMA AroundKeeps ==
  ASSUME IInv, NEW w \in Workers, Cancel(w) \/ Expire(w) \/ StreamEnds(w) \/ Raise(w)
  PROVE  Keeps(w)
<1>t. TypeOK /\ work[w] \in Walk
  BY DEF IInv, TypeOK
<1>1. CASE Cancel(w)
  <2> DEFINE t == [work[w] EXCEPT !.cancelled = TRUE]
  <2>1. /\ t \in Walk /\ t.pc = work[w].pc /\ t.captured = work[w].captured
        /\ t.exported = work[w].exported /\ t.ok = work[w].ok /\ t.verdict = work[w].verdict
        /\ t.exits = work[w].exits /\ t.code = work[w].code /\ t.child = work[w].child
    BY <1>t DEF Walk
  <2>2. Becomes(w, t) /\ UNCHANGED <<disk, lock>>
    BY <1>1, <1>t DEF Cancel, Becomes, TypeOK, Walk
  <2> HIDE DEF t
  <2> QED
    BY <2>1, <2>2, Still
<1>2. CASE Expire(w)
  <2> DEFINE t == [work[w] EXCEPT !.late = TRUE]
  <2>1. /\ t \in Walk /\ t.pc = work[w].pc /\ t.captured = work[w].captured
        /\ t.exported = work[w].exported /\ t.ok = work[w].ok /\ t.verdict = work[w].verdict
        /\ t.exits = work[w].exits /\ t.code = work[w].code /\ t.child = work[w].child
    BY <1>t DEF Walk
  <2>2. Becomes(w, t) /\ UNCHANGED <<disk, lock>>
    BY <1>2, <1>t DEF Expire, Becomes, TypeOK, Walk
  <2> HIDE DEF t
  <2> QED
    BY <2>1, <2>2, Still
<1>3. CASE StreamEnds(w)
  <2> DEFINE c == IF At(w, "ack") THEN "acknowledged" ELSE "broken"
             t == [work[w] EXCEPT !.stream = c]
  <2>1. c \in {"open", "acknowledged", "broken"}
    OBVIOUS
  <2>2. work' = [work EXCEPT ![w].stream = c] /\ UNCHANGED <<disk, lock>>
    BY <1>3 DEF StreamEnds
  <2> HIDE DEF c
  <2>3. /\ t \in Walk /\ t.pc = work[w].pc /\ t.captured = work[w].captured
        /\ t.exported = work[w].exported /\ t.ok = work[w].ok /\ t.verdict = work[w].verdict
        /\ t.exits = work[w].exits /\ t.code = work[w].code /\ t.child = work[w].child
    BY <1>t, <2>1 DEF Walk
  <2>4. Becomes(w, t)
    BY <2>2, <1>t DEF Becomes, TypeOK, Walk
  <2> HIDE DEF t
  <2> QED
    BY <2>2, <2>3, <2>4, Still
<1>4. CASE Raise(w)
  <2> DEFINE v == IF work[w].stream = "broken" THEN "broken" ELSE "failed"
  <2>1. v \in Verdicts \ {"succeeded"}
    BY DEF Verdicts
  <2>2. Leave(w, v) /\ UNCHANGED disk
    BY <1>4 DEF Raise
  <2> HIDE DEF v
  <2> QED
    BY <2>1, <2>2, Failing
<1> QED
  BY <1>1, <1>2, <1>3, <1>4

-----------------------------------------------------------------------------
(* The theorems *)

LEMMA Initially == Init => IInv
<1> SUFFICES ASSUME Init PROVE IInv
  OBVIOUS
<1>1. /\ Fresh \in Walk /\ Fresh.pc = "new" /\ Fresh.child = "none" /\ Fresh.captured = 0
      /\ Fresh.exported = 0 /\ Fresh.ok = TRUE /\ Fresh.exits = {}
  BY DEF Fresh, Bare, Walk, Phases
<1>2. TypeOK
  BY <1>1 DEF Init, TypeOK
<1>3. \A w \in Workers : work[w] = Fresh
  BY DEF Init
<1>4. Exclusive
  BY <1>1, <1>3, NoneAssumption DEF Init, Exclusive, Setup
<1>5. Built
  BY <1>1, <1>3 DEF Init, Built, BuiltFor, At, Building, Using
<1>6. ASSUME NEW w \in Workers PROVE Earned(w)
  BY <1>1, <1>3 DEF Earned, Kept, Shown, Commands
<1> QED
  BY <1>2, <1>4, <1>5, <1>6 DEF IInv

LEMMA Stepping == IInv /\ [Next]_vars => IInv'
<1>1. ASSUME IInv, NEW w \in Workers, Step(w) \/ Expire(w) \/ Around(w)
      PROVE  IInv'
  <2>1. CASE Spawn(w) \/ Poll(w) \/ ChildExits(w)
    BY <1>1, <2>1, CommandKeeps, Joined
  <2>2. CASE Then(w, "verify", "lock") \/ Then(w, "venv", "sites") \/ Then(w, "pip", "marker")
    BY <1>1, <2>2, ThenKeeps, Joined
  <2>3. CASE TargetEnds(w)
    BY <1>1, <2>3, TargetKeeps, Joined
  <2>4. CASE CaptureEnds(w)
    BY <1>1, <2>4, CaptureKeeps, Joined
  <2>5. CASE ExportEnds(w)
    BY <1>1, <2>5, ExportKeeps, Joined
  <2>6. CASE TakeLock(w)
    BY <1>1, <2>6, LockKeeps, Joined
  <2>7. CASE Probe(w) \/ Sites(w) \/ Mark(w)
    BY <1>1, <2>7, BuildingKeeps, Joined
  <2>8. CASE Read(w)
    BY <1>1, <2>8, ReadKeeps, Joined
  <2>9. CASE Begin(w) \/ Which(w) \/ Result(w) \/ WaitForAck(w)
    BY <1>1, <2>9, OutsideKeeps, Joined
  <2>10. CASE Cancel(w) \/ Expire(w) \/ StreamEnds(w) \/ Raise(w)
    BY <1>1, <2>10, AroundKeeps, Joined
  <2> QED
    BY <1>1, <2>1, <2>2, <2>3, <2>4, <2>5, <2>6, <2>7, <2>8, <2>9, <2>10
       DEF Step, Command, Around
<1>2. ASSUME IInv, UNCHANGED vars PROVE IInv'
  BY <1>2 DEF IInv, TypeOK, Exclusive, Built, BuiltFor, At, Done, Earned, Exports, vars
<1> QED
  BY <1>1, <1>2 DEF Next

LEMMA Invariance == Spec => []IInv
BY Initially, Stepping, PTL DEF Spec

\* A script or a profiler runs only in an environment that is complete and that
\* nobody rebuilds under it (worker.py, the lock and the marker of execute).
THEOREM WholeEnvironment == Spec => []EnvironmentIsWhole
<1>1. IInv => EnvironmentIsWhole
  BY DEF IInv, Built, BuiltFor, Using, EnvironmentIsWhole
<1> QED
  BY <1>1, Invariance, PTL

\* Success is written only after every command ended with code 0, those of a
\* profile and its exports included, and with the lock given back (worker.py main).
THEOREM EarnedResult == Spec => []ResultIsEarned
<1>1. ASSUME IInv PROVE ResultIsEarned
  <2> SUFFICES ASSUME NEW w \in Workers, At(w, "ack")
               PROVE  /\ lock # w
                      /\ work[w].verdict = "succeeded" =>
                           /\ \A e \in work[w].exits : e[3] = 0
                           /\ IF Mode[w] = "run" THEN <<"target", 0, 0>> \in work[w].exits
                              ELSE /\ <<"capture", 0, 0>> \in work[w].exits
                                   /\ \A i \in 1..Exports(w) : <<"export", i - 1, 0>> \in work[w].exits
    BY DEF ResultIsEarned
  <2>1. lock # w
    BY <1>1 DEF IInv, Exclusive, At, Setup
  <2>2. Shown(work[w], Mode[w], Exports(w)) /\ work[w].pc = "ack"
    BY <1>1 DEF IInv, Earned, At
  <2> QED
    BY <2>1, <2>2 DEF Shown
<1> QED
  BY <1>1, Invariance, PTL
=============================================================================
