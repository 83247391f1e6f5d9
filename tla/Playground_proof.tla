-------------------------- MODULE Playground_proof --------------------------
(***************************************************************************)
(* For any number of sessions, runs, releases, server lives and frames on  *)
(* the exec stream: a session runs one thing at a time, in a Pod of its    *)
(* own; a success is the worker's; what has ended stays as it ended.       *)
(***************************************************************************)
EXTENDS Playground, NodeStatus, FiniteSetTheorems, TLAPS

(* The inductive invariant *)

\* Sessions that accept no run again.
RETIRED == {"releasing", "released", "error", "recovery_required"}
Retired(s) == sess[s] \in RETIRED

\* Only a process that serves has threads; only one that starts has runs left to
\* look at, and they are still as it found them.
Halted ==
    /\ ~Serving => /\ \A s \in Sessions : prep[s] = "none"
                   /\ rel = NoReleases
                   /\ \A r \in Runs : exe[r] = "none"
    /\ server # "booting" => left = {}
    /\ \A r \in left : Active(r)

\* The threads of a session agree with its record: one that creates a Pod has the
\* node for itself, one that releases has retired the session, and a release that
\* has deleted the Pod leaves none.
PreparedAt(s) ==
      /\ prep[s] # "none" => sess[s] = "starting"
      /\ prep[s] = "create" => \A t \in Sessions : t # s => pod[t] # "live" /\ prep[t] # "create"
      /\ sess[s] \in {"absent", "released"} => pod[s] # "live"
      /\ rel[s].delete + rel[s].done > 0 => Retired(s)
      /\ rel[s].done > 0 => pod[s] # "live"
Prepared == \A s \in Sessions : PreparedAt(s)

SinglePod == \A s, t \in Sessions : pod[s] = "live" /\ pod[t] = "live" => s = t

SingleRun == \A r, q \in Runs : Active(r) /\ Active(q) /\ Home(r) = Home(q) => r = q

\* The thread of a run, its stream and its worker are in step: none before the
\* request, no stream before the thread opens it, and none that outlives it.
ThreadedOf(r) ==
      /\ run[r].status = "absent" => exe[r] = "none" /\ conn[r] = "none"
                                     /\ wk[r] = "none" /\ chan[r] = <<>>
      /\ exe[r] # "none" => sess[Home(r)] \in {"ready"} \cup RETIRED
      /\ exe[r] = "failed" => Retired(Home(r))
      /\ exe[r] = "start" => Active(r) /\ conn[r] = "none" /\ wk[r] = "none" /\ chan[r] = <<>>
      /\ conn[r] = "open" => exe[r] \in {"stream", "fail", "failed"}
Threaded == \A r \in Runs : ThreadedOf(r)

\* A run that ended under its thread has a worker that is done; a success is the
\* worker's; a result is the last frame of a worker that is done.
StatedOf(r) ==
      /\ exe[r] # "none" /\ ~Active(r) => wk[r] \in {"reported", "ended"}
      /\ exe[r] = "stream" /\ ~Active(r) => chan[r] = <<>>
      /\ run[r].status = "succeeded" => good[r] /\ wk[r] \in {"reported", "ended"}
      /\ \A i \in 1..Len(chan[r]) : chan[r][i] \in Results =>
           /\ i = Len(chan[r]) /\ wk[r] \in {"reported", "ended"}
           /\ chan[r][i] = "succeeded" => good[r]
Stated == \A r \in Runs : StatedOf(r)

IInv == Halted /\ Prepared /\ SinglePod /\ SingleRun /\ Threaded /\ Stated

\* A worker that executes belongs to a run that has not ended, or to a session
\* that has retired or that the starting server is about to retire.
Quiet ==
    \A r \in Runs : wk[r] = "executing" =>
        \/ Active(r) \/ Retired(Home(r))
        \/ server = "booting" /\ Home(r) \in hurt

-----------------------------------------------------------------------------
(* Sets, records and streams *)

\* A set whose elements are all one has at most one.
LEMMA AtMostOne ==
  ASSUME NEW S, \A x, y \in S : x = y
  PROVE  Cardinality(S) <= 1
<1>1. CASE S = {}
  BY <1>1, FS_EmptySet
<1>2. CASE S # {}
  <2>1. PICK x \in S : TRUE
    BY <1>2
  <2>2. S = {x}
    BY <2>1
  <2> QED
    BY <2>2, FS_Singleton
<1> QED
  BY <1>1, <1>2

\* What an assignment to the status of a run does.
LEMMA RunEdits ==
  ASSUME NEW f \in [Runs -> RunRecords], NEW r \in Runs,
         NEW status \in {"absent"} \cup ACTIVE \cup Ended
  PROVE  /\ [f EXCEPT ![r].status = status] \in [Runs -> RunRecords]
         /\ \A q \in Runs : [f EXCEPT ![r].status = status][q].session = f[q].session
         /\ \A q \in Runs : [f EXCEPT ![r].status = status][q].status =
                              IF q = r THEN status ELSE f[q].status
  BY DEF RunRecords

\* A result moves one run and leaves every run in its session.
LEMMA ResultMoves ==
  ASSUME TypeOK, NEW r \in Runs, NEW status \in ACTIVE \cup Ended, Result(r, status)
  PROVE  /\ run' \in [Runs -> RunRecords]
         /\ \A q \in Runs : run'[q].session = run[q].session
         /\ \A q \in Runs : run'[q].status = IF q = r THEN status ELSE run[q].status
<1>1. run \in [Runs -> RunRecords]
  BY DEF TypeOK
<1> QED
  BY <1>1, RunEdits DEF Result

\* So do cancellations.
LEMMA CancellingMoves ==
  ASSUME TypeOK, NEW rs \in SUBSET Runs, Cancelling(rs)
  PROVE  /\ run' \in [Runs -> RunRecords] /\ stop' \in [Runs -> BOOLEAN]
         /\ \A q \in Runs : run'[q].session = run[q].session
         /\ \A q \in Runs : run'[q].status = IF q \in rs THEN "cancelling" ELSE run[q].status
<1>1. run \in [Runs -> RunRecords] /\ stop \in [Runs -> BOOLEAN]
  BY DEF TypeOK
<1>2. stop' \in [Runs -> BOOLEAN]
  BY <1>1 DEF Cancelling
<1>3. \A q \in Runs : /\ [run[q] EXCEPT !.status = "cancelling"] \in RunRecords
                      /\ [run[q] EXCEPT !.status = "cancelling"].session = run[q].session
                      /\ [run[q] EXCEPT !.status = "cancelling"].status = "cancelling"
  BY <1>1 DEF RunRecords, ACTIVE
<1> QED
  BY <1>1, <1>2, <1>3 DEF Cancelling

\* Reading a frame, adding one, and losing the last ones.
LEMMA Streams ==
  ASSUME NEW c \in Seq(Frames)
  PROVE  /\ c # <<>> => /\ Tail(c) \in Seq(Frames) /\ Len(Tail(c)) = Len(c) - 1
                        /\ Len(c) \in Nat \ {0} /\ Head(c) = c[1]
                        /\ \A i \in 1..Len(Tail(c)) : Tail(c)[i] = c[i + 1]
         /\ \A f \in Frames : /\ Append(c, f) \in Seq(Frames) /\ Len(Append(c, f)) = Len(c) + 1
                              /\ Append(c, f)[Len(c) + 1] = f
                              /\ \A i \in 1..Len(c) : Append(c, f)[i] = c[i]
         /\ \A n \in 0..Len(c) : /\ SubSeq(c, 1, n) \in Seq(Frames) /\ Len(SubSeq(c, 1, n)) = n
                                 /\ \A i \in 1..n : SubSeq(c, 1, n)[i] = c[i]
  OBVIOUS

-----------------------------------------------------------------------------
(* The steps of a session *)

Requests == [delete : 0..MaxReleases, done : 0..MaxReleases]

\* kubectl create: the node was the thread's own.
LEMMA PrepareCreateKeeps ==
  ASSUME TypeOK, IInv, NEW s \in Sessions, PrepareCreate(s)
  PROVE  TypeOK' /\ IInv'
<1>1. /\ pod \in [Sessions -> {"none", "live", "terminating", "gone"}]
      /\ sess \in [Sessions -> SessionStatuses]
      /\ prep \in [Sessions -> {"none", "create", "watch"}]
      /\ rel \in [Sessions -> Requests]
  BY DEF TypeOK, Requests
<1>2. pod' = pod \/ pod' = [pod EXCEPT ![s] = "live"]
  BY DEF PrepareCreate
<1>3. \/ sess' = sess /\ prep' = [prep EXCEPT ![s] = "watch"]
      \/ sess' = [sess EXCEPT ![s] = "error"] /\ prep' = [prep EXCEPT ![s] = "none"]
  BY DEF PrepareCreate
<1>4. sess[s] = "starting" /\ prep[s] = "create" /\ rel' = rel
  BY DEF PrepareCreate, IInv, Prepared, PreparedAt
<1>5. TypeOK'
  <2>1. /\ pod' \in [Sessions -> {"none", "live", "terminating", "gone"}]
        /\ prep' \in [Sessions -> {"none", "create", "watch"}]
    BY <1>1, <1>2, <1>3
  <2>2. sess' \in [Sessions -> SessionStatuses]
    BY <1>1, <1>3 DEF SessionStatuses
  <2>3. UNCHANGED <<serverVars, runVars, workVars, rel>>
    BY <1>4 DEF PrepareCreate, SessionKeeps
  <2> QED
    BY <2>1, <2>2, <2>3 DEF serverVars, runVars, workVars, TypeOK
<1>6. Halted'
  BY DEF PrepareCreate, SessionKeeps, serverVars, Halted, IInv, Serving
<1>7. Prepared'
  <2> SUFFICES ASSUME NEW t \in Sessions
               PROVE  PreparedAt(t)'
    BY DEF Prepared, PreparedAt
  <2>1. PreparedAt(t) /\ PreparedAt(s)
    BY DEF IInv, Prepared, PreparedAt
  <2>2. CASE t = s
    BY <1>1, <1>2, <1>3, <1>4, <2>1, <2>2 DEF PreparedAt, Retired, RETIRED, Requests
  <2>3. CASE t # s
    BY <1>1, <1>2, <1>3, <1>4, <2>1, <2>3 DEF PreparedAt, Retired, RETIRED
  <2> QED
    BY <2>2, <2>3
<1>8. SinglePod'
  BY <1>1, <1>2, <1>4 DEF IInv, Prepared, PreparedAt, SinglePod
<1>9. (SingleRun /\ Threaded /\ Stated)'
  BY DEF PrepareCreate, SessionKeeps, runVars, workVars, SingleRun, Threaded, ThreadedOf, Stated,
     StatedOf, TypeOK, IInv, Retired, RETIRED, Active, Home
<1> QED
  BY <1>5, <1>6, <1>7, <1>8, <1>9 DEF IInv

\* What a step does to sessions alone keeps the types of everything else.
LEMMA SessionTypes ==
  ASSUME TypeOK, SessionKeeps,
         sess' \in [Sessions -> SessionStatuses],
         prep' \in [Sessions -> {"none", "create", "watch"}],
         pod' \in [Sessions -> {"none", "live", "terminating", "gone"}],
         rel' \in [Sessions -> Requests],
         \A t \in Sessions : rel'[t].delete + rel'[t].done <= MaxReleases
  PROVE  TypeOK'
<1>1. /\ UNCHANGED <<server, left, hurt, stops, run, exe, stop>>
      /\ UNCHANGED <<marker, conn, chan, wk, good>>
  BY DEF SessionKeeps, serverVars, runVars, workVars
<1> QED
  BY <1>1 DEF TypeOK, Requests

\* The deletion of a release: the session has retired, and no Pod comes to life.
LEMMA ReleaseDeleteKeeps ==
  ASSUME TypeOK, IInv, NEW s \in Sessions, ReleaseDelete(s)
  PROVE  TypeOK' /\ IInv'
<1>1. /\ rel[s].delete > 0 /\ rel \in [Sessions -> Requests] /\ rel[s] \in Requests
      /\ rel[s].delete + rel[s].done <= MaxReleases /\ MaxReleases \in Nat
  BY BoundsAssumption DEF ReleaseDelete, TypeOK, Requests
<1>2. \E n \in {rel[s].done, rel[s].done + 1} :
        /\ rel' = [rel EXCEPT ![s] = [delete |-> rel[s].delete - 1, done |-> n]]
        /\ n # rel[s].done => pod'[s] # "live"
  BY DEF ReleaseDelete, TypeOK
<1>3. /\ rel' \in [Sessions -> Requests]
      /\ rel'[s].delete = rel[s].delete - 1 /\ rel'[s].done \in {rel[s].done, rel[s].done + 1}
      /\ rel'[s].done # rel[s].done => pod'[s] # "live"
      /\ \A t \in Sessions : t # s => rel'[t] = rel[t]
  BY <1>1, <1>2 DEF Requests
<1>4. \A t \in Sessions : rel'[t].delete + rel'[t].done <= MaxReleases
  <2>1. rel'[s].delete + rel'[s].done <= MaxReleases
    BY <1>1, <1>3 DEF Requests
  <2>2. \A t \in Sessions : rel[t].delete + rel[t].done <= MaxReleases
    BY DEF TypeOK
  <2> QED
    BY <1>3, <2>1, <2>2
<1>5. /\ pod \in [Sessions -> {"none", "live", "terminating", "gone"}]
      /\ sess \in [Sessions -> SessionStatuses]
  BY DEF TypeOK
<1>6. pod' = pod \/ pod' = [pod EXCEPT ![s] = "terminating"]
  BY <1>5 DEF ReleaseDelete
<1>7. sess' = sess \/ sess' = [sess EXCEPT ![s] = "error"]
  BY DEF ReleaseDelete
<1>8. UNCHANGED <<prep, serverVars, runVars, workVars>>
  BY DEF ReleaseDelete, SessionKeeps
<1>9. Serving /\ Retired(s)
  BY <1>1 DEF IInv, Halted, NoReleases, Prepared, PreparedAt, Requests
<1>10. TypeOK'
  <2>1. SessionKeeps /\ prep' \in [Sessions -> {"none", "create", "watch"}]
    BY <1>8 DEF SessionKeeps, TypeOK
  <2>2. pod' \in [Sessions -> {"none", "live", "terminating", "gone"}]
    BY <1>5, <1>6
  <2>3. sess' \in [Sessions -> SessionStatuses]
    BY <1>5, <1>7 DEF SessionStatuses
  <2> QED
    BY <1>3, <1>4, <2>1, <2>2, <2>3, SessionTypes
<1>11. (Halted /\ SingleRun /\ Stated)'
  BY <1>8, <1>9
  DEF serverVars, runVars, workVars, IInv, Halted, SingleRun, Stated, StatedOf, Active, Home,
      Serving
<1>12. Threaded'
  BY <1>5, <1>7, <1>8, <1>9
  DEF runVars, workVars, TypeOK, IInv, Threaded, ThreadedOf, Active, Home, Retired, RETIRED
<1>13. Prepared'
  BY <1>1, <1>3, <1>5, <1>6, <1>7, <1>8, <1>9
  DEF IInv, Prepared, PreparedAt, Retired, RETIRED, Requests
<1>14. SinglePod'
  BY <1>5, <1>6 DEF IInv, SinglePod
<1> QED
  BY <1>10, <1>11, <1>12, <1>13, <1>14 DEF IInv

\* One more release request.
LEMMA ReleaseBeginPrepares ==
  ASSUME TypeOK, IInv, NEW s \in Sessions, ReleaseBegin(s)
  PROVE  Prepared'
<1>1. /\ prep[s] = "none" /\ sess \in [Sessions -> SessionStatuses]
      /\ sess' = [sess EXCEPT ![s] = "releasing"]
      /\ rel \in [Sessions -> Requests] /\ rel' = [rel EXCEPT ![s].delete = @ + 1]
      /\ UNCHANGED <<prep, pod>>
      /\ rel[s].done > 0 => pod[s] # "live"
  BY DEF ReleaseBegin, IInv, Prepared, PreparedAt, TypeOK, Requests
<1>2. rel'[s].done = rel[s].done /\ \A t \in Sessions : t # s => rel'[t] = rel[t]
  BY <1>1 DEF Requests
<1> SUFFICES ASSUME NEW t \in Sessions
             PROVE  PreparedAt(t)'
  BY DEF Prepared
<1>3. PreparedAt(t)
  BY DEF IInv, Prepared
<1>4. CASE t = s
  BY <1>1, <1>2, <1>3, <1>4 DEF PreparedAt, Retired, RETIRED
<1>5. CASE t # s
  BY <1>1, <1>2, <1>3, <1>5 DEF PreparedAt, Retired
<1> QED
  BY <1>4, <1>5

\* What happens to a session keeps the types and the invariant.
LEMMA SessionSteps ==
  ASSUME TypeOK, IInv, NEW s \in Sessions, SessionNext(s)
  PROVE  TypeOK' /\ IInv'
<1>1. CASE Connect(s)
  <2>1. TypeOK'
    BY <1>1 DEF Connect, SessionKeeps, serverVars, runVars, workVars, TypeOK, SessionStatuses
  <2>2. (Halted /\ Prepared /\ SinglePod)'
    BY <1>1 DEF Connect, SessionKeeps, serverVars, Halted, Prepared, PreparedAt, SinglePod,
       TypeOK, IInv, Retired, RETIRED, Serving
  <2>3. (SingleRun /\ Threaded /\ Stated)'
    BY <1>1 DEF Connect, SessionKeeps, runVars, workVars, SingleRun, Threaded, ThreadedOf,
       Stated, StatedOf, IInv, Retired, RETIRED, Active, Home
  <2> QED
    BY <2>1, <2>2, <2>3 DEF IInv
<1>2. CASE Reconnect(s)
  <2>1. TypeOK'
    BY <1>2 DEF Reconnect, SessionKeeps, serverVars, runVars, workVars, TypeOK, SessionStatuses
  <2>2. (Halted /\ Prepared /\ SinglePod)'
    BY <1>2 DEF Reconnect, SessionKeeps, serverVars, Halted, Prepared, PreparedAt, SinglePod,
       TypeOK, IInv, Retired, RETIRED, Serving
  <2>3. (SingleRun /\ Threaded /\ Stated)'
    BY <1>2 DEF Reconnect, SessionKeeps, runVars, workVars, SingleRun, Threaded, ThreadedOf,
       Stated, StatedOf, IInv, Retired, RETIRED, Active, Home
  <2> QED
    BY <2>1, <2>2, <2>3 DEF IInv
<1>3. CASE PrepareCreate(s)
  BY <1>3, PrepareCreateKeeps
<1>4. CASE PrepareReady(s)
  <2>1. TypeOK'
    BY <1>4 DEF PrepareReady, SessionKeeps, serverVars, runVars, workVars, TypeOK,
       SessionStatuses
  <2>2. (Halted /\ Prepared /\ SinglePod)'
    BY <1>4 DEF PrepareReady, SessionKeeps, serverVars, Halted, Prepared, PreparedAt,
       SinglePod, TypeOK, IInv, Retired, RETIRED, Serving
  <2>3. (SingleRun /\ Threaded /\ Stated)'
    BY <1>4 DEF PrepareReady, SessionKeeps, runVars, workVars, SingleRun, Threaded, ThreadedOf,
       Stated, StatedOf, IInv, Retired, RETIRED, Active, Home, Serving, Halted, Prepared,
       PreparedAt
  <2> QED
    BY <2>1, <2>2, <2>3 DEF IInv
<1>5. CASE PrepareFails(s)
  <2>1. TypeOK'
    BY <1>5 DEF PrepareFails, SessionKeeps, serverVars, runVars, workVars, TypeOK,
       SessionStatuses
  <2>2. (Halted /\ Prepared /\ SinglePod)'
    BY <1>5 DEF PrepareFails, SessionKeeps, serverVars, Halted, Prepared, PreparedAt,
       SinglePod, TypeOK, IInv, Retired, RETIRED, Serving
  <2>3. (SingleRun /\ Threaded /\ Stated)'
    BY <1>5 DEF PrepareFails, SessionKeeps, runVars, workVars, SingleRun, Threaded, ThreadedOf,
       Stated, StatedOf, IInv, Retired, RETIRED, Active, Home
  <2> QED
    BY <2>1, <2>2, <2>3 DEF IInv
<1>6. CASE ReleaseBegin(s)
  <2>1. TypeOK'
    <3> DEFINE More == [rel[s] EXCEPT !.delete = @ + 1]
    <3>1. rel[s] \in Requests /\ MaxReleases \in Nat /\ rel[s].delete + rel[s].done < MaxReleases
      BY <1>6, BoundsAssumption DEF ReleaseBegin, TypeOK, Requests
    <3>2. More \in Requests /\ More.delete + More.done <= MaxReleases
      BY <3>1 DEF Requests
    <3>3. rel' = [rel EXCEPT ![s] = More]
      BY <1>6 DEF ReleaseBegin
    <3> HIDE DEF More
    <3>4. /\ rel' \in [Sessions -> Requests]
          /\ \A t \in Sessions : rel'[t].delete + rel'[t].done <= MaxReleases
      BY <3>2, <3>3 DEF TypeOK, Requests
    <3>5. /\ sess' \in [Sessions -> SessionStatuses]
          /\ prep' \in [Sessions -> {"none", "create", "watch"}]
          /\ pod' \in [Sessions -> {"none", "live", "terminating", "gone"}] /\ SessionKeeps
      BY <1>6 DEF ReleaseBegin, TypeOK, SessionStatuses
    <3> QED
      BY <3>4, <3>5, SessionTypes
  <2>2. (Halted /\ SinglePod)'
    BY <1>6 DEF ReleaseBegin, Serving, SessionKeeps, serverVars, Halted, SinglePod, IInv
  <2>3. Prepared'
    BY <1>6, ReleaseBeginPrepares
  <2>4. (SingleRun /\ Threaded /\ Stated)'
    BY <1>6 DEF ReleaseBegin, Active, SessionKeeps, runVars, workVars, SingleRun, Threaded,
       ThreadedOf, Stated, StatedOf, IInv, Retired, RETIRED, Home
  <2> QED
    BY <2>1, <2>2, <2>3, <2>4 DEF IInv
<1>7. CASE ReleaseDelete(s)
  BY <1>7, ReleaseDeleteKeeps
<1>8. CASE ReleaseDone(s)
  <2>1. TypeOK'
    <3> DEFINE Less == [rel[s] EXCEPT !.done = @ - 1]
    <3>1. /\ rel[s] \in Requests /\ rel[s].done > 0
          /\ MaxReleases \in Nat /\ rel[s].delete + rel[s].done <= MaxReleases
      BY <1>8, BoundsAssumption DEF ReleaseDone, TypeOK, Requests
    <3>2. Less \in Requests /\ Less.delete + Less.done <= MaxReleases
      BY <3>1 DEF Requests
    <3>3. rel' = [rel EXCEPT ![s] = Less]
      BY <1>8 DEF ReleaseDone
    <3> HIDE DEF Less
    <3>4. /\ rel' \in [Sessions -> Requests]
          /\ \A t \in Sessions : rel'[t].delete + rel'[t].done <= MaxReleases
      BY <3>2, <3>3 DEF TypeOK, Requests
    <3>5. /\ sess' \in [Sessions -> SessionStatuses]
          /\ prep' \in [Sessions -> {"none", "create", "watch"}]
          /\ pod' \in [Sessions -> {"none", "live", "terminating", "gone"}] /\ SessionKeeps
      BY <1>8 DEF ReleaseDone, TypeOK, SessionStatuses
    <3> QED
      BY <3>4, <3>5, SessionTypes
  <2>2. Halted'
    BY <1>8 DEF ReleaseDone, SessionKeeps, serverVars, Halted, IInv, Serving, NoReleases
  <2>3. Prepared'
    BY <1>8 DEF ReleaseDone, Prepared, PreparedAt, TypeOK, IInv, Retired, RETIRED
  <2>4. SinglePod'
    BY <1>8 DEF ReleaseDone, SinglePod, IInv
  <2>5. (SingleRun /\ Threaded /\ Stated)'
    BY <1>8 DEF ReleaseDone, SessionKeeps, runVars, workVars, SingleRun, Threaded, ThreadedOf,
       Stated, StatedOf, IInv, Retired, RETIRED, Active, Home
  <2> QED
    BY <2>1, <2>2, <2>3, <2>4, <2>5 DEF IInv
<1>9. CASE PodVanishes(s)
  <2>1. TypeOK'
    BY <1>9 DEF PodVanishes, serverVars, runVars, TypeOK
  <2>2. (Halted /\ Prepared /\ SinglePod)'
    BY <1>9 DEF PodVanishes, serverVars, runVars, Halted, Prepared, PreparedAt, SinglePod,
       IInv, Retired, Active, Serving
  <2>3. (SingleRun /\ Threaded /\ Stated)'
    BY <1>9 DEF PodVanishes, runVars, SingleRun, Threaded, ThreadedOf, Stated, StatedOf, IInv,
       Retired, Active, Home
  <2> QED
    BY <2>1, <2>2, <2>3 DEF IInv
<1> QED
  BY <1>1, <1>2, <1>3, <1>4, <1>5, <1>6, <1>7, <1>8, <1>9 DEF SessionNext

-----------------------------------------------------------------------------
(* The steps of a run *)

\* The thread ends with a run that was cancelled, or opens the stream.
LEMMA ExecStartKeeps ==
  ASSUME TypeOK, IInv, NEW r \in Runs, ExecStart(r)
  PROVE  TypeOK' /\ IInv'
<1>1. /\ Active(r) /\ Home(r) \in Sessions /\ exe[r] = "start"
      /\ UNCHANGED <<sess, stop, marker, chan, wk, good, server, left, hurt, stops, prep, rel, pod>>
  BY DEF ExecStart, IInv, Threaded, ThreadedOf, Home, TypeOK, Active, ACTIVE, ThreadGoes,
     RunKeeps, serverVars
<1>2. CASE Result(r, "cancelled") /\ exe' = [exe EXCEPT ![r] = "none"] /\ conn' = conn
  <2>1. /\ run' \in [Runs -> RunRecords]
        /\ \A q \in Runs : run'[q].session = run[q].session
        /\ \A q \in Runs : run'[q].status = IF q = r THEN "cancelled" ELSE run[q].status
    BY <1>2, ResultMoves DEF Ended, Results
  <2>2. TypeOK'
    BY <1>1, <1>2, <2>1 DEF TypeOK, Threads, Active, ACTIVE
  <2>3. (Halted /\ Prepared /\ SinglePod)'
    BY <1>1, <1>2, <2>1
    DEF IInv, Halted, Prepared, PreparedAt, SinglePod, Active, Serving, Retired, TypeOK
  <2>4. SingleRun'
    BY <1>1, <1>2, <2>1 DEF IInv, SingleRun, Active, ACTIVE, Home
  <2>5. Threaded'
    BY <1>1, <1>2, <2>1 DEF IInv, Threaded, ThreadedOf, Active, ACTIVE, Home, Retired, TypeOK
  <2>6. Stated'
    <3> SUFFICES ASSUME NEW q \in Runs
                 PROVE  StatedOf(q)'
      BY DEF Stated
    <3>1. StatedOf(q) /\ ThreadedOf(q) /\ exe \in [Runs -> Threads]
      BY DEF IInv, Stated, Threaded, ThreadedOf, TypeOK
    <3>2. CASE q = r
      BY <1>1, <1>2, <2>1, <3>1, <3>2 DEF StatedOf, ThreadedOf, Active, ACTIVE
    <3>3. CASE q # r
      BY <1>1, <1>2, <2>1, <3>1, <3>3 DEF StatedOf, Active
    <3> QED
      BY <3>2, <3>3
  <2> QED
    BY <2>2, <2>3, <2>4, <2>5, <2>6 DEF IInv
<1>3. CASE run' = run
  <2>1. TypeOK'
    BY <1>3 DEF ExecStart, ThreadGoes, RunKeeps, serverVars, TypeOK, Threads
  <2>2. (Halted /\ Prepared /\ SinglePod)'
    BY <1>1, <1>3
    DEF ExecStart, ThreadGoes, IInv, Halted, Prepared, PreparedAt, SinglePod, Active, Serving,
        Retired, TypeOK
  <2>3. (SingleRun /\ Threaded /\ Stated)'
    BY <1>1, <1>3
    DEF ExecStart, ThreadGoes, IInv, SingleRun, Threaded, ThreadedOf, Stated, StatedOf, Home,
        Active, ACTIVE, Retired, TypeOK
  <2> QED
    BY <2>1, <2>2, <2>3 DEF IInv
<1> QED
  BY <1>2, <1>3 DEF ExecStart, ThreadGoes

\* A frame is read while the run has not ended; only a result ends it, and then
\* the worker is done.
LEMMA FrameIsRead ==
  ASSUME TypeOK, IInv, NEW r \in Runs, ExecRead(r)
  PROVE  /\ exe[r] = "stream" /\ Active(r)
         /\ UNCHANGED <<sess, exe, stop, marker, conn, wk, good, serverVars, prep, rel, pod>>
         /\ run' \in [Runs -> RunRecords]
         /\ \A q \in Runs : run'[q].session = run[q].session
         /\ \A q \in Runs : q # r => run'[q].status = run[q].status
         /\ \/ run'[r].status \in ACTIVE
            \/ /\ chan[r][1] \in Results /\ run'[r].status = chan[r][1]
               /\ Tail(chan[r]) = <<>> /\ wk[r] \in {"reported", "ended"}
               /\ chan[r][1] = "succeeded" => good[r]
<1>1. /\ exe[r] = "stream" /\ chan[r] # <<>> /\ chan[r] \in Seq(Frames)
      /\ UNCHANGED <<sess, exe, stop, marker, conn, wk, good, serverVars, prep, rel, pod>>
      /\ run \in [Runs -> RunRecords]
  BY DEF ExecRead, RunKeeps, TypeOK
<1>2. /\ Tail(chan[r]) \in Seq(Frames) /\ Len(Tail(chan[r])) = Len(chan[r]) - 1
      /\ Len(chan[r]) \in Nat \ {0} /\ Head(chan[r]) = chan[r][1]
  BY <1>1, Streams
<1>3. Active(r)
  BY <1>1 DEF IInv, Stated, StatedOf
<1>4. ASSUME chan[r][1] \in Results
      PROVE  /\ Tail(chan[r]) = <<>> /\ wk[r] \in {"reported", "ended"}
             /\ chan[r][1] = "succeeded" => good[r]
  BY <1>1, <1>2, <1>4 DEF IInv, Stated, StatedOf
<1>5. /\ run' \in [Runs -> RunRecords]
      /\ \A q \in Runs : run'[q].session = run[q].session
      /\ \A q \in Runs : q # r => run'[q].status = run[q].status
      /\ run'[r].status \in ACTIVE \/ (chan[r][1] \in Results /\ run'[r].status = chan[r][1])
  <2>1. CASE run' = run
    BY <1>1, <1>3, <2>1 DEF Active
  <2>2. CASE Result(r, "running")
    BY ResultMoves, <2>2 DEF ACTIVE
  <2>3. CASE chan[r][1] \in Results /\ Result(r, chan[r][1])
    BY ResultMoves, <2>3 DEF Ended
  <2> QED
    BY <1>2, <2>1, <2>2, <2>3 DEF ExecRead, Result
<1> QED
  BY <1>1, <1>3, <1>4, <1>5

\* Reading it keeps the invariant.
LEMMA ExecReadKeeps ==
  ASSUME TypeOK, IInv, NEW r \in Runs, ExecRead(r)
  PROVE  TypeOK' /\ IInv'
<1>1. /\ exe[r] = "stream" /\ chan[r] # <<>> /\ chan[r] \in Seq(Frames) /\ Len(chan[r]) <= PipeSize
      /\ chan' = [chan EXCEPT ![r] = Tail(chan[r])] /\ chan \in [Runs -> Seq(Frames)]
      /\ UNCHANGED <<sess, exe, stop, marker, conn, wk, good, prep, rel, pod>>
      /\ UNCHANGED <<server, left, hurt, stops>>
  BY DEF ExecRead, RunKeeps, serverVars, TypeOK
<1>2. /\ Tail(chan[r]) \in Seq(Frames) /\ Len(Tail(chan[r])) = Len(chan[r]) - 1
      /\ Len(chan[r]) \in Nat \ {0}
      /\ \A i \in 1..Len(Tail(chan[r])) : Tail(chan[r])[i] = chan[r][i + 1]
  BY <1>1, Streams
<1>3. /\ Active(r)
      /\ run' \in [Runs -> RunRecords]
      /\ \A q \in Runs : run'[q].session = run[q].session
      /\ \A q \in Runs : q # r => run'[q].status = run[q].status
      /\ \/ run'[r].status \in ACTIVE
         \/ /\ chan[r][1] \in Results /\ run'[r].status = chan[r][1]
            /\ Tail(chan[r]) = <<>> /\ wk[r] \in {"reported", "ended"}
            /\ chan[r][1] = "succeeded" => good[r]
  BY FrameIsRead
<1>4. chan' \in [Runs -> Seq(Frames)] /\ \A q \in Runs : Len(chan'[q]) <= PipeSize
  BY <1>1, <1>2, BoundsAssumption DEF TypeOK
<1>5. \A q \in Runs : run'[q].status # "absent" => run[q].status # "absent"
  BY <1>3 DEF Active, ACTIVE
<1>6. /\ exe'[r] = "stream" /\ conn'[r] = conn[r] /\ wk'[r] = wk[r] /\ chan'[r] = Tail(chan[r])
      /\ good'[r] = good[r] /\ run'[r].status # "absent" /\ run'[r].session = run[r].session
  BY <1>1, <1>3 DEF ACTIVE, Results
<1>7. TypeOK'
  BY <1>1, <1>3, <1>4, <1>5 DEF TypeOK
<1>8. (Halted /\ Prepared /\ SinglePod)'
  BY <1>1, <1>3
  DEF IInv, Halted, Prepared, PreparedAt, SinglePod, Active, Serving, Retired
<1>9. SingleRun'
  BY <1>3 DEF IInv, SingleRun, Active, Home
<1>10. Threaded'
  <2> SUFFICES ASSUME NEW q \in Runs
               PROVE  ThreadedOf(q)'
    BY DEF Threaded, ThreadedOf
  <2>1. ThreadedOf(q)
    BY DEF IInv, Threaded, ThreadedOf
  <2>2. CASE q = r
    BY <1>1, <1>6, <2>1, <2>2 DEF ThreadedOf, Home, Retired
  <2>3. CASE q # r
    BY <1>1, <1>3, <2>1, <2>3 DEF ThreadedOf, Home, Retired, Active
  <2> QED
    BY <2>2, <2>3
<1>11. Stated'
  <2> SUFFICES ASSUME NEW q \in Runs
               PROVE  StatedOf(q)'
    BY DEF Stated
  <2>1. CASE q # r
    BY <1>1, <1>3, <2>1 DEF IInv, Stated, StatedOf, Active
  <2>2. CASE q = r /\ run'[r].status \notin ACTIVE
    <3>1. /\ chan'[r] = <<>> /\ wk'[r] \in {"reported", "ended"}
          /\ run'[r].status = "succeeded" => good'[r]
      BY <1>3, <1>6, <2>2
    <3> QED
      BY <2>2, <3>1 DEF StatedOf
  <2>3. CASE q = r /\ run'[r].status \in ACTIVE
    <3>1. chan'[r] = Tail(chan[r]) /\ Active(r)' /\ run'[r].status # "succeeded" /\ StatedOf(r)
      BY <1>1, <2>3 DEF IInv, Stated, Active, ACTIVE
    <3>2. \A i \in 1..Len(chan'[r]) : i + 1 \in 1..Len(chan[r]) /\ chan'[r][i] = chan[r][i + 1]
      BY <1>2, <3>1
    <3>3. ASSUME NEW i \in 1..Len(chan'[r]), chan'[r][i] \in Results
          PROVE  /\ i = Len(chan'[r]) /\ wk[r] \in {"reported", "ended"}
                 /\ chan'[r][i] = "succeeded" => good[r]
      <4>1. i + 1 \in 1..Len(chan[r]) /\ chan[r][i + 1] = chan'[r][i]
        BY <3>2
      <4>2. /\ i + 1 = Len(chan[r]) /\ wk[r] \in {"reported", "ended"}
            /\ chan[r][i + 1] = "succeeded" => good[r]
        BY <3>1, <3>3, <4>1 DEF StatedOf
      <4> QED
        BY <1>2, <3>1, <3>3, <4>1, <4>2
    <3> QED
      BY <1>6, <2>3, <3>1, <3>3 DEF StatedOf, Active
  <2> QED
    BY <2>1, <2>2, <2>3
<1> QED
  BY <1>7, <1>8, <1>9, <1>10, <1>11 DEF IInv

\* The last write of a run that failed: its session has retired.
LEMMA ExecFailedKeeps ==
  ASSUME TypeOK, IInv, NEW r \in Runs, ExecFailed(r)
  PROVE  TypeOK' /\ IInv'
<1>1. /\ run' \in [Runs -> RunRecords]
      /\ \A q \in Runs : run'[q].session = run[q].session
      /\ \A q \in Runs : run'[q].status = IF q = r THEN "failed" ELSE run[q].status
  BY ResultMoves DEF ExecFailed, Ended, Results
<1>2. /\ exe[r] = "failed" /\ exe' = [exe EXCEPT ![r] = "none"] /\ exe \in [Runs -> Threads]
      /\ run[r].status # "absent" /\ Serving
      /\ UNCHANGED <<sess, stop, marker, good, server, left, hurt, stops, prep, rel, pod>>
  BY DEF ExecFailed, ThreadGoes, RunKeeps, serverVars, TypeOK, IInv, Halted, Threaded, ThreadedOf
<1>3. /\ \A q \in Runs : q # r => conn'[q] = conn[q] /\ wk'[q] = wk[q] /\ chan'[q] = chan[q]
      /\ chan'[r] = <<>> /\ conn'[r] # "open"
      /\ wk'[r] = IF wk[r] = "reported" THEN "ended" ELSE wk[r]
      /\ conn' \in [Runs -> {"none", "open", "zero", "closed"}]
      /\ wk' \in [Runs -> {"none", "executing", "reported", "ended"}]
      /\ chan' \in [Runs -> Seq(Frames)]
  BY DEF ExecFailed, HangUp, TypeOK
<1>4. TypeOK'
  <2>1. /\ \A q \in Runs : run'[q].status # "absent" => run'[q].session \in Sessions
        /\ exe' \in [Runs -> Threads]
    BY <1>1, <1>2 DEF TypeOK, Threads
  <2>2. \A q \in Runs : Len(chan'[q]) <= PipeSize
    <3>1. Len(chan'[r]) = 0 /\ PipeSize \in Nat
      BY <1>3, BoundsAssumption
    <3>2. \A q \in Runs : q # r => Len(chan'[q]) <= PipeSize
      BY <1>3 DEF TypeOK
    <3> QED
      BY <3>1, <3>2
  <2> QED
    BY <1>1, <1>2, <1>3, <2>1, <2>2 DEF TypeOK
<1>5. (Halted /\ Prepared /\ SinglePod)'
  BY <1>1, <1>2 DEF IInv, Halted, Prepared, PreparedAt, SinglePod, Active, ACTIVE, Serving,
     Retired, TypeOK
<1>6. SingleRun'
  BY <1>1 DEF IInv, SingleRun, Active, ACTIVE, Home
<1>7. Threaded'
  <2> SUFFICES ASSUME NEW q \in Runs
               PROVE  ThreadedOf(q)'
    BY DEF Threaded
  <2>1. ThreadedOf(q)
    BY DEF IInv, Threaded
  <2>2. CASE q = r
    BY <1>1, <1>2, <1>3, <2>2 DEF ThreadedOf
  <2>3. CASE q # r
    BY <1>1, <1>2, <1>3, <2>1, <2>3 DEF ThreadedOf, Home, Retired, Active
  <2> QED
    BY <2>2, <2>3
<1>8. Stated'
  <2> SUFFICES ASSUME NEW q \in Runs
               PROVE  StatedOf(q)'
    BY DEF Stated
  <2>1. StatedOf(q)
    BY DEF IInv, Stated
  <2>2. CASE q = r
    BY <1>1, <1>2, <1>3, <2>2 DEF StatedOf
  <2>3. CASE q # r
    BY <1>1, <1>2, <1>3, <2>1, <2>3 DEF StatedOf, Active
  <2> QED
    BY <2>2, <2>3
<1> QED
  BY <1>4, <1>5, <1>6, <1>7, <1>8 DEF IInv

\* A result is the worker's last frame.
LEMMA WorkerReportsStated ==
  ASSUME TypeOK, IInv, NEW r \in Runs, WorkerReports(r)
  PROVE  Stated'
<1>1. PICK f \in Results : /\ chan' = [chan EXCEPT ![r] = Append(chan[r], f)]
                           /\ good' = [good EXCEPT ![r] = (f = "succeeded")]
  BY DEF WorkerReports
<1>2. /\ wk[r] = "executing" /\ wk' = [wk EXCEPT ![r] = "reported"] /\ run' = run /\ exe' = exe
      /\ chan \in [Runs -> Seq(Frames)] /\ good \in [Runs -> BOOLEAN] /\ f \in Frames
      /\ wk \in [Runs -> {"none", "executing", "reported", "ended"}]
  BY DEF WorkerReports, WorkerKeeps, runVars, TypeOK, Frames
<1> SUFFICES ASSUME NEW q \in Runs
             PROVE  StatedOf(q)'
  BY DEF Stated
<1>3. StatedOf(q)
  BY DEF IInv, Stated
<1>4. CASE q # r
  BY <1>1, <1>2, <1>3, <1>4 DEF StatedOf, Active
<1>5. CASE q = r
  <2>1. /\ chan'[r] = Append(chan[r], f) /\ Len(chan'[r]) = Len(chan[r]) + 1 /\ Len(chan[r]) \in Nat
        /\ chan'[r][Len(chan[r]) + 1] = f /\ \A i \in 1..Len(chan[r]) : chan'[r][i] = chan[r][i]
    BY <1>1, <1>2, Streams
  <2>2. run[q].status # "succeeded" /\ (Active(q) \/ exe[q] = "none")
    BY <1>2, <1>3, <1>5 DEF StatedOf, Active, ACTIVE
  <2>3. \A i \in 1..Len(chan[r]) : chan[r][i] \notin Results
    BY <1>2, <1>3, <1>5 DEF StatedOf
  <2>4. good'[r] = (f = "succeeded") /\ wk'[r] = "reported"
    BY <1>1, <1>2
  <2>5. \A i \in 1..Len(chan'[r]) : i \in 1..Len(chan[r]) \/ i = Len(chan'[r])
    BY <2>1
  <2> QED
    BY <1>2, <1>5, <2>1, <2>2, <2>3, <2>4, <2>5 DEF StatedOf, Active
<1> QED
  BY <1>4, <1>5

\* A connection that breaks loses frames from the end of the stream.
LEMMA ConnectionBreaksKeeps ==
  ASSUME TypeOK, IInv, NEW r \in Runs, ConnectionBreaks(r)
  PROVE  TypeOK' /\ IInv'
<1>1. /\ \E n \in 0..Len(chan[r]) : chan' = [chan EXCEPT ![r] = SubSeq(chan[r], 1, n)]
      /\ chan \in [Runs -> Seq(Frames)] /\ \A q \in Runs : Len(chan[q]) <= PipeSize
      /\ Closes({r}) /\ UNCHANGED <<good, marker, serverVars, sessionVars, runVars>>
  BY DEF ConnectionBreaks, WorkerKeeps, TypeOK
<1>2. /\ chan' \in [Runs -> Seq(Frames)] /\ Len(chan'[r]) <= Len(chan[r])
      /\ \A i \in 1..Len(chan'[r]) : chan'[r][i] = chan[r][i]
      /\ Len(chan[r]) \in Nat /\ Len(chan'[r]) \in Nat
      /\ chan[r] = <<>> => chan'[r] = <<>>
      /\ \A q \in Runs : q # r => chan'[q] = chan[q]
  BY <1>1, Streams
<1>3. \A q \in Runs : Len(chan'[q]) <= PipeSize
  BY <1>1, <1>2, BoundsAssumption
<1>4. TypeOK'
  BY <1>1, <1>2, <1>3 DEF Closes, TypeOK, serverVars, sessionVars, runVars
<1>5. (Halted /\ Prepared /\ SinglePod /\ SingleRun)'
  BY <1>1 DEF serverVars, sessionVars, runVars, IInv, Halted, Prepared, PreparedAt, SinglePod,
     SingleRun, Home, Active, Serving, Retired
<1>6. \A q \in Runs : /\ wk[q] \in {"reported", "ended"} => wk'[q] \in {"reported", "ended"}
                      /\ wk[q] = "none" => wk'[q] = "none"
                      /\ conn[q] = "none" => conn'[q] = "none"
                      /\ conn'[q] = "open" => conn[q] = "open"
  BY <1>1 DEF Closes
<1>7. Threaded'
  BY <1>1, <1>2, <1>6 DEF sessionVars, runVars, IInv, Threaded, ThreadedOf, Home, Active, Retired
<1>8. Stated'
  BY <1>1, <1>2, <1>6 DEF runVars, IInv, Stated, StatedOf, Active
<1> QED
  BY <1>4, <1>5, <1>7, <1>8 DEF IInv

\* A cancellation moves runs that were active.
LEMMA CancelTypes ==
  ASSUME TypeOK, NEW r \in Runs, Cancel(r)
  PROVE  TypeOK'
<1>1. Cancelling({r}) /\ run[r].status # "absent"
  BY DEF Cancel, Cancellable, Active, ACTIVE
<1>2. /\ run' \in [Runs -> RunRecords] /\ stop' \in [Runs -> BOOLEAN]
      /\ \A q \in Runs : run'[q].session = run[q].session
      /\ \A q \in Runs : run'[q].status # "absent" => run[q].status # "absent"
  BY <1>1, CancellingMoves
<1> QED
  BY <1>2 DEF Cancel, RunKeeps, workVars, serverVars, TypeOK

\* A marker is written or not.
LEMMA CancelRemoteTypes ==
  ASSUME TypeOK, NEW r \in Runs, CancelRemote(r)
  PROVE  TypeOK'
<1>1. marker' \in [Runs -> BOOLEAN] /\ stop' \in [Runs -> BOOLEAN]
  BY DEF CancelRemote, TypeOK
<1> QED
  BY <1>1 DEF CancelRemote, RunKeeps, serverVars, TypeOK

\* The session of a run that fails exists.
LEMMA ExecFailTypes ==
  ASSUME TypeOK, IInv, NEW r \in Runs, ExecFail(r)
  PROVE  TypeOK'
<1>1. Home(r) \in Sessions
  BY DEF TypeOK, IInv, Threaded, ThreadedOf, ExecFail, ThreadGoes, Home
<1> QED
  BY <1>1 DEF ExecFail, RunKeeps, ThreadGoes, serverVars, TypeOK, workVars, Threads,
     SessionStatuses

\* So does that of a run a starting server finds.
LEMMA BootRunTypes ==
  ASSUME TypeOK, IInv, NEW r \in Runs, BootRun(r)
  PROVE  TypeOK'
<1>1. Active(r) /\ server = "booting" /\ left' = left \ {r}
  BY DEF IInv, Halted, BootRun
<1>2. Home(r) \in Sessions /\ run[r].status # "absent"
  BY <1>1 DEF TypeOK, Active, Home, ACTIVE
<1>3. hurt' \subseteq Sessions /\ left' \subseteq Runs
  BY <1>1, <1>2 DEF TypeOK, BootRun
<1>4. /\ run' \in [Runs -> RunRecords]
      /\ \A q \in Runs : run'[q].session = run[q].session
      /\ \A q \in Runs : run'[q].status = IF q = r THEN "interrupted" ELSE run[q].status
  BY ResultMoves DEF BootRun, Ended, Results
<1> QED
  BY <1>1, <1>2, <1>3, <1>4 DEF BootRun, TypeOK, workVars, sessionVars

\* A request finds its session ready and with no run.
LEMMA SubmitKeeps ==
  ASSUME TypeOK, IInv, NEW s \in Sessions, NEW r \in Runs, Submit(r, s)
  PROVE  TypeOK' /\ IInv'
<1>1. TypeOK'
  BY DEF Submit, Submitted, workVars, RunKeeps, serverVars, TypeOK, ACTIVE, Threads,
     RunRecords
<1>2. (Halted /\ Prepared /\ SinglePod)'
  BY DEF Submit, RunKeeps, serverVars, Halted, Prepared, PreparedAt, SinglePod, IInv,
     Retired, Serving
<1>3. (SingleRun /\ Threaded /\ Stated)'
  BY DEF Submit, Busy, In, Active, Submitted, workVars, SingleRun, Threaded, ThreadedOf,
     Stated, StatedOf, TypeOK, IInv, Retired, Home, ACTIVE
<1> QED
  BY <1>1, <1>2, <1>3 DEF IInv

\* So does what happens to a run.
LEMMA RunSteps ==
  ASSUME TypeOK, IInv, NEW r \in Runs, RunNext(r)
  PROVE  TypeOK' /\ IInv'
<1>1. CASE Cancel(r)
  <2>1. TypeOK'
    BY <1>1, CancelTypes
  <2>2. (Halted /\ Prepared /\ SinglePod)'
    BY <1>1 DEF Cancel, Serving, RunKeeps, serverVars, Halted, Prepared, PreparedAt, SinglePod,
       IInv, Retired
  <2>3. (SingleRun /\ Threaded /\ Stated)'
    BY <1>1 DEF Cancel, Cancellable, Active, Cancelling, workVars, SingleRun, Threaded,
       ThreadedOf, Stated, StatedOf, IInv, Retired, Home, ACTIVE
  <2> QED
    BY <2>1, <2>2, <2>3 DEF IInv
<1>2. CASE CancelRemote(r)
  <2>1. TypeOK'
    BY <1>2, CancelRemoteTypes
  <2>2. (Halted /\ Prepared /\ SinglePod)'
    BY <1>2 DEF CancelRemote, RunKeeps, serverVars, Halted, Prepared, PreparedAt, SinglePod,
       IInv, Retired, Active, Serving
  <2>3. (SingleRun /\ Threaded /\ Stated)'
    BY <1>2 DEF CancelRemote, Home, SingleRun, Threaded, ThreadedOf, Stated, StatedOf, IInv,
       Retired, Active
  <2> QED
    BY <2>1, <2>2, <2>3 DEF IInv
<1>3. CASE ExecStart(r)
  BY <1>3, ExecStartKeeps
<1>4. CASE ExecRead(r)
  BY <1>4, ExecReadKeeps
<1>5. CASE ExecDone(r)
  <2>1. TypeOK'
    BY <1>5, UserAssumption DEF ExecDone, Acked, ThreadGoes, HangUp, RunKeeps, serverVars,
       TypeOK, Threads, RunRecords
  <2>2. (Halted /\ Prepared /\ SinglePod)'
    BY <1>5 DEF ExecDone, ThreadGoes, RunKeeps, serverVars, Halted, Prepared, PreparedAt,
       SinglePod, IInv, Retired, Serving
  <2>3. (SingleRun /\ Threaded /\ Stated)'
    BY <1>5 DEF ExecDone, ThreadGoes, HangUp, SingleRun, Threaded, ThreadedOf, Stated,
       StatedOf, IInv, Retired, RETIRED, Active, Home
  <2> QED
    BY <2>1, <2>2, <2>3 DEF IInv
<1>6. CASE ExecEnds(r)
  <2>1. TypeOK'
    BY <1>6 DEF ExecEnds, ThreadGoes, workVars, RunKeeps, serverVars, TypeOK, Ended, Threads
  <2>2. (Halted /\ Prepared /\ SinglePod)'
    BY <1>6 DEF ExecEnds, ThreadGoes, RunKeeps, serverVars, Halted, Prepared, PreparedAt,
       SinglePod, IInv, Retired, Serving
  <2>3. (SingleRun /\ Threaded /\ Stated)'
    BY <1>6 DEF ExecEnds, ThreadGoes, workVars, SingleRun, Threaded, ThreadedOf, Stated,
       StatedOf, IInv, Retired, Active, Home
  <2> QED
    BY <2>1, <2>2, <2>3 DEF IInv
<1>7. CASE ExecFail(r)
  <2>1. TypeOK'
    BY <1>7, ExecFailTypes
  <2>2. Halted'
    BY <1>7 DEF ExecFail, ThreadGoes, RunKeeps, serverVars, Halted, IInv, Serving
  <2>3. Prepared'
    BY <1>7, StopsAssumption DEF ExecFail, ThreadGoes, RunKeeps, Prepared, PreparedAt, IInv,
       Retired, RETIRED, Serving, NoReleases, Halted, Threaded, ThreadedOf
  <2>4. SinglePod'
    BY <1>7 DEF ExecFail, RunKeeps, SinglePod, IInv
  <2>5. (SingleRun /\ Threaded /\ Stated)'
    BY <1>7 DEF ExecFail, ThreadGoes, Home, workVars, SingleRun, Threaded, ThreadedOf, Stated,
       StatedOf, TypeOK, IInv, Retired, RETIRED, Active
  <2> QED
    BY <2>1, <2>2, <2>3, <2>4, <2>5 DEF IInv
<1>8. CASE ExecFailed(r)
  BY <1>8, ExecFailedKeeps
<1>9. CASE ExecGivesUp(r)
  <2>1. TypeOK'
    BY <1>9 DEF ExecGivesUp, ThreadGoes, workVars, RunKeeps, serverVars, TypeOK, Threads
  <2>2. (Halted /\ Prepared /\ SinglePod)'
    BY <1>9 DEF ExecGivesUp, ThreadGoes, RunKeeps, serverVars, Halted, Prepared, PreparedAt,
       SinglePod, IInv, Retired, Serving
  <2>3. (SingleRun /\ Threaded /\ Stated)'
    BY <1>9 DEF ExecGivesUp, ThreadGoes, workVars, SingleRun, Threaded, ThreadedOf, Stated,
       StatedOf, IInv, Retired, Active, Home
  <2> QED
    BY <2>1, <2>2, <2>3 DEF IInv
<1>10. CASE WorkerStarts(r)
  <2>1. TypeOK'
    BY <1>10 DEF WorkerStarts, WorkerKeeps, serverVars, sessionVars, runVars, TypeOK
  <2>2. (Halted /\ Prepared /\ SinglePod)'
    BY <1>10, StopsAssumption DEF WorkerStarts, WorkerKeeps, serverVars, sessionVars, runVars,
       Halted, Prepared, PreparedAt, SinglePod, IInv, Retired, Active, Serving
  <2>3. (SingleRun /\ Threaded /\ Stated)'
    BY <1>10 DEF WorkerStarts, Home, WorkerKeeps, sessionVars, runVars, SingleRun, Threaded,
       ThreadedOf, Stated, StatedOf, IInv, Retired, Active
  <2> QED
    BY <2>1, <2>2, <2>3 DEF IInv
<1>11. CASE WorkerEmits(r)
  <2>1. TypeOK'
    BY <1>11, BoundsAssumption, StopsAssumption DEF WorkerEmits, Room, WorkerKeeps, serverVars,
       sessionVars, runVars, TypeOK, Frames
  <2>2. (Halted /\ Prepared /\ SinglePod)'
    BY <1>11 DEF WorkerEmits, WorkerKeeps, serverVars, sessionVars, runVars, Halted, Prepared,
       PreparedAt, SinglePod, IInv, Retired, Active, Serving
  <2>3. (SingleRun /\ Threaded /\ Stated)'
    BY <1>11 DEF WorkerEmits, WorkerKeeps, sessionVars, runVars, SingleRun, Threaded,
       ThreadedOf, Stated, StatedOf, IInv, Retired, Active, Home, Results
  <2> QED
    BY <2>1, <2>2, <2>3 DEF IInv
<1>12. CASE WorkerReports(r)
  <2>1. TypeOK'
    BY <1>12, BoundsAssumption, StopsAssumption DEF WorkerReports, Room, WorkerKeeps,
       serverVars, sessionVars, runVars, TypeOK, Frames
  <2>2. (Halted /\ Prepared /\ SinglePod)'
    BY <1>12 DEF WorkerReports, WorkerKeeps, serverVars, sessionVars, runVars, Halted,
       Prepared, PreparedAt, SinglePod, IInv, Retired, Active, Serving
  <2>3. (SingleRun /\ Threaded)'
    BY <1>12 DEF WorkerReports, WorkerKeeps, sessionVars, runVars, SingleRun, Threaded,
       ThreadedOf, IInv, Retired, Active, Home
  <2>4. Stated'
    BY <1>12, WorkerReportsStated
  <2> QED
    BY <2>1, <2>2, <2>3, <2>4 DEF IInv
<1>13. CASE WorkerExits(r)
  <2>1. TypeOK'
    BY <1>13 DEF WorkerExits, WorkerKeeps, serverVars, sessionVars, runVars, TypeOK
  <2>2. (Halted /\ Prepared /\ SinglePod)'
    BY <1>13 DEF WorkerExits, WorkerKeeps, serverVars, sessionVars, runVars, Halted, Prepared,
       PreparedAt, SinglePod, IInv, Retired, Active, Serving
  <2>3. (SingleRun /\ Threaded /\ Stated)'
    BY <1>13 DEF WorkerExits, WorkerKeeps, sessionVars, runVars, SingleRun, Threaded,
       ThreadedOf, Stated, StatedOf, IInv, Retired, Active, Home
  <2> QED
    BY <2>1, <2>2, <2>3 DEF IInv
<1>14. CASE WorkerIsCutOff(r)
  <2>1. TypeOK'
    BY <1>14 DEF WorkerIsCutOff, WorkerKeeps, serverVars, sessionVars, runVars, TypeOK
  <2>2. (Halted /\ Prepared /\ SinglePod)'
    BY <1>14 DEF WorkerIsCutOff, WorkerKeeps, serverVars, sessionVars, runVars, Halted,
       Prepared, PreparedAt, SinglePod, IInv, Retired, Active, Serving
  <2>3. (SingleRun /\ Threaded /\ Stated)'
    BY <1>14 DEF WorkerIsCutOff, WorkerKeeps, sessionVars, runVars, SingleRun, Threaded,
       ThreadedOf, Stated, StatedOf, IInv, Retired, Active, Home
  <2> QED
    BY <2>1, <2>2, <2>3 DEF IInv
<1>15. CASE ConnectionBreaks(r)
  BY <1>15, ConnectionBreaksKeeps
<1>16. CASE BootRun(r)
  <2>1. TypeOK'
    BY <1>16, BootRunTypes
  <2>2. (Halted /\ Prepared /\ SinglePod)'
    BY <1>16 DEF BootRun, Result, sessionVars, Halted, Prepared, PreparedAt, SinglePod, IInv,
       Retired, Active, Serving
  <2>3. (SingleRun /\ Threaded /\ Stated)'
    BY <1>16 DEF BootRun, Home, Result, workVars, SingleRun, Threaded, ThreadedOf, Stated,
       StatedOf, IInv, Active, Serving, Halted
  <2> QED
    BY <2>1, <2>2, <2>3 DEF IInv
<1> QED
  BY <1>1, <1>2, <1>3, <1>4, <1>5, <1>6, <1>7, <1>8, <1>9, <1>10, <1>11, <1>12, <1>13, <1>14,
     <1>15, <1>16 DEF RunNext, ExecStep

-----------------------------------------------------------------------------
(* The steps of the server *)

\* So do the end of a server and the start of the next one.
LEMMA ServerSteps ==
  ASSUME TypeOK, IInv, Close \/ ServerEnds \/ Boot \/ BootSessions
  PROVE  TypeOK' /\ IInv'
<1>1. CASE Close
  <2>1. TypeOK'
    BY <1>1, UserAssumption, StopsAssumption DEF Close, Cancelling, Cancellable, Active,
       sessionVars, workVars, TypeOK, ACTIVE, Results, Threads, RunRecords
  <2>2. (Halted /\ Prepared /\ SinglePod)'
    BY <1>1 DEF Close, sessionVars, Halted, Prepared, PreparedAt, SinglePod, IInv, Retired,
       Serving
  <2>3. (SingleRun /\ Threaded /\ Stated)'
    BY <1>1 DEF Close, Cancelling, Cancellable, Active, sessionVars, workVars, SingleRun,
       Threaded, ThreadedOf, Stated, StatedOf, IInv, Retired, Home, ACTIVE
  <2> QED
    BY <2>1, <2>2, <2>3 DEF IInv
<1>2. CASE ServerEnds
  <2>1. TypeOK'
    BY <1>2, BoundsAssumption, StopsAssumption DEF ServerEnds, NoReleases, Closes, TypeOK,
       Threads
  <2>2. (Halted /\ Prepared /\ SinglePod)'
    BY <1>2 DEF ServerEnds, NoReleases, Halted, Prepared, PreparedAt, SinglePod, IInv
  <2>3. (SingleRun /\ Threaded /\ Stated)'
    BY <1>2 DEF ServerEnds, Closes, SingleRun, Threaded, ThreadedOf, Stated, StatedOf, IInv,
       Active, Home
  <2> QED
    BY <2>1, <2>2, <2>3 DEF IInv
<1>3. CASE Boot
  <2>1. TypeOK'
    BY <1>3 DEF Boot, sessionVars, runVars, workVars, TypeOK
  <2>2. (Halted /\ Prepared /\ SinglePod)'
    BY <1>3 DEF Boot, Active, sessionVars, runVars, Halted, Prepared, PreparedAt, SinglePod,
       IInv, Retired, Serving
  <2>3. (SingleRun /\ Threaded /\ Stated)'
    BY <1>3 DEF Boot, Active, sessionVars, runVars, workVars, SingleRun, Threaded, ThreadedOf,
       Stated, StatedOf, IInv, Retired, Home
  <2> QED
    BY <2>1, <2>2, <2>3 DEF IInv
<1>4. CASE BootSessions
  <2>1. TypeOK'
    BY <1>4 DEF BootSessions, runVars, workVars, Adopted, TypeOK, SessionStatuses
  <2>2. (Halted /\ Prepared /\ SinglePod)'
    BY <1>4, BoundsAssumption DEF BootSessions, Adopted, Halted, Prepared, PreparedAt,
       SinglePod, IInv, Retired, RETIRED, Serving
  <2>3. (SingleRun /\ Threaded /\ Stated)'
    BY <1>4 DEF BootSessions, runVars, workVars, SingleRun, Threaded, ThreadedOf, Stated,
       StatedOf, IInv, Active, Home, Serving, Halted
  <2> QED
    BY <2>1, <2>2, <2>3 DEF IInv
<1> QED
  BY <1>1, <1>2, <1>3, <1>4

-----------------------------------------------------------------------------
(* Workers that execute *)

\* A Pod that vanishes, or a worker that ends, leaves none executing.
LEMMA PodVanishesQuiet ==
  ASSUME TypeOK, Quiet, NEW s \in Sessions, PodVanishes(s)
  PROVE  Quiet'
<1>1. \A r \in Runs : wk'[r] = "executing" => wk[r] = "executing"
  BY DEF PodVanishes
<1>2. UNCHANGED <<server, hurt, sess, run>>
  BY DEF PodVanishes, serverVars, runVars
<1> QED
  BY <1>1, <1>2 DEF Quiet, Active, Home, Retired

\* A run that ends in its thread has a worker that is done, or none.
LEMMA ThreadsQuiet ==
  ASSUME TypeOK, IInv, Quiet, NEW r \in Runs, ExecStart(r) \/ ExecRead(r) \/ ExecFailed(r)
  PROVE  Quiet'
<1>1. CASE ExecStart(r)
  <2>1. wk[r] = "none" /\ UNCHANGED <<server, hurt, sess, wk>>
    BY <1>1 DEF ExecStart, ThreadGoes, RunKeeps, serverVars, IInv, Threaded, ThreadedOf
  <2>2. \A q \in Runs : q # r => run'[q] = run[q]
    BY <1>1 DEF ExecStart, Result, TypeOK
  <2> QED
    BY <2>1, <2>2 DEF Quiet, Active, Home, Retired
<1>2. CASE ExecRead(r)
  <2>1. /\ UNCHANGED <<server, hurt, sess, wk>>
        /\ \A q \in Runs : run'[q].session = run[q].session
        /\ \A q \in Runs : q # r => run'[q].status = run[q].status
        /\ wk[r] = "executing" => Active(r)'
    BY <1>2, FrameIsRead DEF serverVars, Active
  <2> QED
    BY <2>1 DEF Quiet, Active, Home, Retired
<1>3. CASE ExecFailed(r)
  <2>1. Retired(Home(r)) /\ UNCHANGED <<server, hurt, sess>>
    BY <1>3 DEF ExecFailed, ThreadGoes, RunKeeps, serverVars, IInv, Threaded, ThreadedOf
  <2>2. /\ \A q \in Runs : run'[q].session = run[q].session
        /\ \A q \in Runs : q # r => run'[q].status = run[q].status
    BY <1>3, ResultMoves DEF ExecFailed, Ended, Results
  <2>3. \A q \in Runs : wk'[q] = "executing" => wk[q] = "executing"
    BY <1>3 DEF ExecFailed, HangUp, TypeOK
  <2> QED
    BY <2>1, <2>2, <2>3 DEF Quiet, Active, Home, Retired
<1> QED
  BY <1>1, <1>2, <1>3

\* A worker starts for a run that has not ended.
LEMMA WorkerStartsQuiet ==
  ASSUME TypeOK, IInv, Quiet, NEW r \in Runs, WorkerStarts(r)
  PROVE  Quiet'
<1>1. /\ UNCHANGED <<server, hurt, sess, run>>
      /\ wk' = [wk EXCEPT ![r] = "executing"]
      /\ conn[r] = "open" /\ wk[r] = "none"
  BY DEF WorkerStarts, WorkerKeeps, serverVars, sessionVars, runVars
<1>2. Active(r)
  BY <1>1 DEF IInv, Threaded, ThreadedOf, Stated, StatedOf
<1> QED
  BY <1>1, <1>2 DEF Quiet, Active, Home, Retired, TypeOK

\* A starting server remembers the session of each run it interrupts, and retires
\* it before it serves.
LEMMA BootQuiet ==
  ASSUME TypeOK, IInv, Quiet, BootSessions \/ \E r \in Runs : BootRun(r)
  PROVE  Quiet'
<1>1. CASE BootSessions
  <2> SUFFICES ASSUME NEW r \in Runs, wk'[r] = "executing"
               PROVE  Active(r)' \/ Retired(Home(r))'
    BY DEF Quiet
  <2>1. wk[r] = "executing" /\ run' = run /\ Home(r)' = Home(r)
    BY <1>1 DEF BootSessions, workVars, runVars, Home
  <2>2. Home(r) \in Sessions
    BY <2>1 DEF IInv, Threaded, ThreadedOf, TypeOK, Home
  <2>3. sess'[Home(r)] = Adopted(Home(r))
    BY <1>1, <2>2 DEF BootSessions
  <2>4. CASE Active(r)
    BY <2>1, <2>4 DEF Active
  <2>5. CASE Home(r) \in hurt
    BY <2>1, <2>3, <2>5 DEF Adopted, Retired, RETIRED
  <2>6. CASE Retired(Home(r)) /\ Home(r) \notin hurt
    BY <2>1, <2>3, <2>6 DEF Adopted, Retired, RETIRED
  <2> QED
    BY <2>1, <2>4, <2>5, <2>6 DEF Quiet
<1>2. ASSUME NEW r \in Runs, BootRun(r)
      PROVE  Quiet'
  <2>1. /\ server = "booting" /\ hurt' = hurt \cup {Home(r)} /\ UNCHANGED <<server, sess, wk>>
    BY <1>2 DEF BootRun, sessionVars, workVars, IInv, Halted
  <2>2. /\ \A q \in Runs : run'[q].session = run[q].session
        /\ \A q \in Runs : q # r => run'[q].status = run[q].status
    BY <1>2, ResultMoves DEF BootRun, Ended
  <2> QED
    BY <2>1, <2>2 DEF Quiet, Active, Home, Retired
<1> QED
  BY <1>1, <1>2

\* No step leaves a worker executing that nobody answers for, unless a server ends
\* while it reads its records.
LEMMA QuietKept ==
  ASSUME TypeOK, IInv, Quiet, BootMayCrash = FALSE, [Next]_vars
  PROVE  Quiet'
<1>1. ASSUME NEW s \in Sessions, Connect(s)
      PROVE  Quiet'
  BY <1>1 DEF Connect, SessionKeeps, runVars, workVars, Quiet, Retired, RETIRED, Active, Home
<1>2. ASSUME NEW s \in Sessions, Reconnect(s)
      PROVE  Quiet'
  BY <1>2 DEF Reconnect, SessionKeeps, runVars, workVars, Quiet, Retired, RETIRED, Active, Home
<1>3. ASSUME NEW s \in Sessions, PrepareReady(s)
      PROVE  Quiet'
  <2>1. prep[s] # "none"
    BY <1>3 DEF PrepareReady
  <2>2. sess[s] = "starting"
    BY <2>1 DEF IInv, Prepared, PreparedAt
  <2>3. UNCHANGED <<server, hurt, run, wk>> /\ \A t \in Sessions : t # s => sess'[t] = sess[t]
    BY <1>3 DEF PrepareReady, SessionKeeps, serverVars, runVars, workVars
  <2>4. \A r \in Runs : wk[r] = "executing" => Home(r) \in Sessions
    BY DEF IInv, Threaded, ThreadedOf, TypeOK, Home
  <2> QED
    BY <2>2, <2>3, <2>4 DEF Quiet, Active, Home, Retired, RETIRED
<1>4. ASSUME NEW s \in Sessions, PrepareFails(s)
      PROVE  Quiet'
  BY <1>4 DEF PrepareFails, SessionKeeps, serverVars, runVars, workVars, Quiet, Retired,
     RETIRED, Active, Home
<1>5. ASSUME NEW s \in Sessions, ReleaseBegin(s)
      PROVE  Quiet'
  BY <1>5 DEF ReleaseBegin, Serving, Active, SessionKeeps, runVars, workVars, Quiet, Retired,
     RETIRED, Home
<1>6. ASSUME NEW s \in Sessions, ReleaseDone(s)
      PROVE  Quiet'
  BY <1>6 DEF ReleaseDone, SessionKeeps, serverVars, runVars, workVars, Quiet, Retired,
     RETIRED, Active, Home
<1>7. ASSUME NEW s \in Sessions, PodVanishes(s)
      PROVE  Quiet'
  BY <1>7, PodVanishesQuiet
<1>8. ASSUME NEW s \in Sessions, NEW r \in Runs, Submit(r, s)
      PROVE  Quiet'
  BY <1>8 DEF Submit, Active, Submitted, workVars, Quiet, Retired, Home, ACTIVE
<1>9. ASSUME NEW r \in Runs, Cancel(r)
      PROVE  Quiet'
  BY <1>9 DEF Cancel, Serving, Active, Cancelling, workVars, Quiet, Retired, Home, ACTIVE
<1>10. ASSUME NEW r \in Runs, CancelRemote(r)
      PROVE  Quiet'
  BY <1>10 DEF CancelRemote, Home, RunKeeps, serverVars, Quiet, Retired, Active
<1>11. ASSUME NEW r \in Runs, ExecDone(r)
      PROVE  Quiet'
  BY <1>11 DEF ExecDone, HangUp, RunKeeps, serverVars, Quiet, Retired, Active, Home
<1>12. ASSUME NEW r \in Runs, ExecEnds(r)
      PROVE  Quiet'
  BY <1>12 DEF ExecEnds, workVars, RunKeeps, serverVars, Quiet, Retired, Active, Home
<1>13. ASSUME NEW r \in Runs, ExecFail(r)
      PROVE  Quiet'
  BY <1>13 DEF ExecFail, Home, workVars, RunKeeps, serverVars, Quiet, Retired, RETIRED, Active
<1>14. ASSUME NEW r \in Runs, ExecGivesUp(r)
      PROVE  Quiet'
  BY <1>14 DEF ExecGivesUp, workVars, RunKeeps, serverVars, Quiet, Retired, Active, Home
<1>15. ASSUME NEW r \in Runs, WorkerEmits(r)
      PROVE  Quiet'
  BY <1>15 DEF WorkerEmits, WorkerKeeps, serverVars, sessionVars, runVars, Quiet, Retired,
     Active, Home
<1>16. ASSUME NEW r \in Runs, WorkerReports(r)
      PROVE  Quiet'
  BY <1>16 DEF WorkerReports, WorkerKeeps, serverVars, sessionVars, runVars, Quiet, Retired,
     Active, Home
<1>17. ASSUME NEW r \in Runs, WorkerExits(r)
      PROVE  Quiet'
  BY <1>17 DEF WorkerExits, WorkerKeeps, serverVars, sessionVars, runVars, Quiet, Retired,
     Active, Home
<1>18. ASSUME NEW r \in Runs, WorkerIsCutOff(r)
      PROVE  Quiet'
  BY <1>18 DEF WorkerIsCutOff, WorkerKeeps, serverVars, sessionVars, runVars, Quiet, Retired,
     Active, Home
<1>19. ASSUME NEW r \in Runs, WorkerStarts(r)
      PROVE  Quiet'
  BY <1>19, WorkerStartsQuiet
<1>20. CASE Close
  BY <1>20 DEF Close, Cancelling, Active, sessionVars, workVars, Quiet, Retired, Home, ACTIVE
<1>21. CASE Boot
  BY <1>21 DEF Boot, Active, sessionVars, runVars, workVars, Quiet, Retired, Home
<1>22. ASSUME NEW s \in Sessions, PrepareCreate(s) \/ ReleaseDelete(s)
      PROVE  Quiet'
  <2>1. sess' = sess \/ (Retired(s)' /\ \A t \in Sessions : t # s => sess'[t] = sess[t])
    BY <1>22 DEF PrepareCreate, ReleaseDelete, Retired, RETIRED, TypeOK
  <2>2. UNCHANGED <<server, hurt, run, wk>>
    BY <1>22 DEF PrepareCreate, ReleaseDelete, SessionKeeps, serverVars, runVars, workVars
  <2>3. \A r \in Runs : wk[r] = "executing" => Home(r) \in Sessions
    BY DEF IInv, Threaded, ThreadedOf, TypeOK, Home
  <2> QED
    BY <2>1, <2>2, <2>3 DEF Quiet, Active, Home, Retired
<1>23. ASSUME NEW r \in Runs, ConnectionBreaks(r)
      PROVE  Quiet'
  BY <1>23 DEF ConnectionBreaks, Closes, WorkerKeeps, serverVars, sessionVars, runVars, Quiet,
     Active, Home, Retired
<1>24. CASE ServerEnds
  <2>1. server # "booting" /\ UNCHANGED <<sess, run>>
    BY <1>24 DEF ServerEnds
  <2>2. \A r \in Runs : wk'[r] = "executing" => wk[r] = "executing"
    BY <1>24 DEF ServerEnds, Closes
  <2> QED
    BY <2>1, <2>2 DEF Quiet, Active, Home, Retired
<1>25. CASE UNCHANGED vars
  BY <1>25 DEF vars, serverVars, sessionVars, runVars, workVars, Quiet, Active, Home, Retired
<1> QED
  BY <1>1, <1>2, <1>3, <1>4, <1>5, <1>6, <1>7, <1>8, <1>9, <1>10, <1>11, <1>12, <1>13, <1>14,
     <1>15, <1>16, <1>17, <1>18, <1>19, <1>20, <1>21, <1>22, <1>23, <1>24, <1>25, ThreadsQuiet,
     BootQuiet DEF Next, SessionNext, RunNext, ExecStep

-----------------------------------------------------------------------------
(* The theorems                                                              *)

\* The invariant holds when the manager starts on a node without a history.
LEMMA InitHolds == Init => TypeOK /\ IInv /\ Quiet
<1> SUFFICES ASSUME Init PROVE TypeOK /\ IInv /\ Quiet
  OBVIOUS
<1>1. TypeOK
  BY BoundsAssumption, StopsAssumption
  DEF Init, TypeOK, NoReleases, SessionStatuses, RunRecords, Threads, Frames
<1>2. IInv
  BY DEF Init, NoReleases, IInv, Halted, Serving, Prepared, PreparedAt, SinglePod, SingleRun,
     Active, ACTIVE, Threaded, ThreadedOf, Stated, StatedOf
<1>3. Quiet
  BY DEF Init, Quiet
<1> QED
  BY <1>1, <1>2, <1>3

\* Every step keeps the types and the invariant.
LEMMA NextKeeps ==
  ASSUME TypeOK, IInv, [Next]_vars
  PROVE  TypeOK' /\ IInv'
<1>1. CASE \E s \in Sessions : SessionNext(s) \/ \E r \in Runs : Submit(r, s)
  BY <1>1, SessionSteps, SubmitKeeps DEF SessionNext
<1>2. CASE \E r \in Runs : RunNext(r)
  BY <1>2, RunSteps
<1>3. CASE Close \/ ServerEnds \/ Boot \/ BootSessions
  BY <1>3, ServerSteps
<1>4. CASE UNCHANGED vars
  BY <1>4 DEF vars, serverVars, sessionVars, runVars, workVars, TypeOK, IInv, Halted, Serving,
     Prepared, PreparedAt, Retired, SinglePod, SingleRun, Active, Home, Threaded, ThreadedOf,
     Stated, StatedOf
<1> QED
  BY <1>1, <1>2, <1>3, <1>4 DEF Next

\* The types and the invariant hold in every state, for any number of sessions,
\* runs, release requests and restarts and for a stream of any size.
THEOREM Invariance == Spec => [](TypeOK /\ IInv)
<1>1. Init => TypeOK /\ IInv
  BY InitHolds
<1>2. TypeOK /\ IInv /\ [Next]_vars => (TypeOK /\ IInv)'
  BY NextKeeps
<1> QED
  BY <1>1, <1>2, PTL DEF Spec

\* A run that is recorded as succeeded has a worker that reported success.
THEOREM Successes == Spec => []SuccessIsWorkers
<1>1. IInv => SuccessIsWorkers
  BY DEF IInv, Stated, StatedOf, SuccessIsWorkers
<1> QED
  BY <1>1, Invariance, PTL

\* What the invariant says of pairs, in terms of how many there are.
LEMMA OneOfEach == IInv => OneActiveRun /\ OneLivePod /\ ReleasedHasNoPod
<1> SUFFICES ASSUME IInv PROVE OneActiveRun /\ OneLivePod /\ ReleasedHasNoPod
  OBVIOUS
<1>1. OneActiveRun
  <2> SUFFICES ASSUME NEW s \in Sessions PROVE Cardinality({r \in In(s) : Active(r)}) <= 1
    BY DEF OneActiveRun
  <2>1. \A r, q \in {x \in In(s) : Active(x)} : r = q
    BY DEF IInv, SingleRun, In, Home
  <2> QED
    BY <2>1, AtMostOne
<1>2. OneLivePod
  <2>1. \A s, t \in {x \in Sessions : pod[x] = "live"} : s = t
    BY DEF IInv, SinglePod
  <2> QED
    BY <2>1, AtMostOne DEF OneLivePod
<1>3. ReleasedHasNoPod
  BY DEF IInv, Prepared, PreparedAt, ReleasedHasNoPod
<1> QED
  BY <1>1, <1>2, <1>3

\* A session has at most one active run, the node at most one running Pod, and a
\* released session none, wherever the server crashes.
THEOREM OneAtATime == Spec => [](OneActiveRun /\ OneLivePod /\ ReleasedHasNoPod)
  BY Invariance, OneOfEach, PTL

\* Sessions are safe, if a server that starts does not crash between the writes of
\* its runs and of its sessions; if it may, the run playground_boot shows a worker
\* that executes in a session offered again.
THEOREM SessionSafety ==
  ASSUME BootMayCrash = FALSE
  PROVE  Spec => []SessionsAreSafe
<1>1. Init => TypeOK /\ IInv /\ Quiet
  BY InitHolds
<1>2. TypeOK /\ IInv /\ Quiet /\ [Next]_vars => (TypeOK /\ IInv /\ Quiet)'
  BY NextKeeps, QuietKept
<1>3. TypeOK /\ IInv /\ Quiet => SessionsAreSafe
  <2> SUFFICES ASSUME TypeOK, IInv, Quiet PROVE SessionsAreSafe
    OBVIOUS
  <2>1. QuietWhenReady
    BY DEF QuietWhenReady, Quiet, Serving, Retired, RETIRED, Busy, In, Home
  <2> QED
    BY <2>1, OneOfEach DEF SessionsAreSafe
<1> QED
  BY <1>1, <1>2, <1>3, PTL DEF Spec

\* No step changes the outcome of a run that ended, but the except clause of
\* _execute.
LEMMA OutcomesStay ==
  ASSUME TypeOK, IInv, [Next]_vars
  PROVE  OutcomeOnlyFails
<1> SUFFICES ASSUME NEW r \in Runs, run[r].status \in Ended
             PROVE  \/ run'[r].status = run[r].status
                    \/ run'[r].status = "failed" /\ exe[r] = "failed"
  BY DEF OutcomeOnlyFails
<1> USE DEF Ended, Results, ACTIVE, Active
<1>1. ASSUME NEW s \in Sessions, NEW q \in Runs, Submit(q, s)
      PROVE  run'[r] = run[r]
  BY <1>1 DEF Submit, Submitted, TypeOK
<1>2. ASSUME NEW q \in Runs, Cancel(q)
      PROVE  run'[r] = run[r]
  BY <1>2 DEF Cancel, Cancelling, Cancellable
<1>3. CASE Close
  BY <1>3 DEF Close, Cancelling, Cancellable
<1>4. ASSUME NEW q \in Runs, ExecStart(q)
      PROVE  run'[r] = run[r]
  BY <1>4 DEF ExecStart, ThreadGoes, Result, TypeOK, IInv, Threaded, ThreadedOf
<1>5. ASSUME NEW q \in Runs, ExecRead(q)
      PROVE  run'[r].status = run[r].status
  BY <1>5, FrameIsRead
<1>6. ASSUME NEW q \in Runs, ExecFailed(q)
      PROVE  run'[r].status = run[r].status \/ (run'[r].status = "failed" /\ exe[r] = "failed")
  <2>1. exe[q] = "failed" /\ Result(q, "failed")
    BY <1>6 DEF ExecFailed, ThreadGoes
  <2>2. \A x \in Runs : run'[x].status = IF x = q THEN "failed" ELSE run[x].status
    BY <2>1, ResultMoves
  <2> QED
    BY <2>1, <2>2
<1>7. ASSUME NEW q \in Runs, BootRun(q)
      PROVE  run'[r] = run[r]
  <2>1. Active(q) /\ Result(q, "interrupted")
    BY <1>7 DEF BootRun, IInv, Halted
  <2>2. r # q
    BY <2>1
  <2> QED
    BY <2>1, <2>2 DEF Result, TypeOK
<1>8. ASSUME NEW s \in Sessions, SessionNext(s)
      PROVE  run' = run
  BY <1>8 DEF SessionNext, Connect, Reconnect, PrepareCreate, PrepareReady, PrepareFails,
     ReleaseBegin, ReleaseDelete, ReleaseDone, PodVanishes, SessionKeeps, runVars
<1>9. ASSUME NEW q \in Runs,
             \/ CancelRemote(q) \/ ExecDone(q) \/ ExecEnds(q) \/ ExecFail(q) \/ ExecGivesUp(q)
             \/ WorkerStarts(q) \/ WorkerEmits(q) \/ WorkerReports(q) \/ WorkerExits(q)
             \/ WorkerIsCutOff(q) \/ ConnectionBreaks(q)
      PROVE  run' = run
  BY <1>9 DEF CancelRemote, ExecDone, ExecEnds, ExecFail, ExecGivesUp, WorkerStarts, WorkerEmits,
     WorkerReports, WorkerExits, WorkerIsCutOff, ConnectionBreaks, WorkerKeeps, runVars
<1>10. CASE ServerEnds \/ Boot \/ BootSessions \/ UNCHANGED vars
  BY <1>10 DEF ServerEnds, Boot, BootSessions, vars, runVars
<1> QED
  BY <1>1, <1>2, <1>3, <1>4, <1>5, <1>6, <1>7, <1>8, <1>9, <1>10 DEF Next, RunNext, ExecStep

\* No step offers a session again that was released or needs recovery.
LEMMA RetiredStay ==
  ASSUME TypeOK, IInv, [Next]_vars
  PROVE  RetiredForGood
<1> SUFFICES ASSUME NEW t \in Sessions, sess[t] \in {"released", "recovery_required"}
             PROVE  sess'[t] \notin {"starting", "ready", "disconnected"}
  BY DEF RetiredForGood
<1>1. ASSUME NEW s \in Sessions, SessionNext(s)
      PROVE  sess'[t] \notin {"starting", "ready", "disconnected"}
  <2>1. prep[t] = "none" /\ sess \in [Sessions -> SessionStatuses]
    BY DEF IInv, Prepared, PreparedAt, TypeOK
  <2> QED
    BY <1>1, <2>1 DEF SessionNext, Connect, Reconnect, PrepareCreate, PrepareReady, PrepareFails,
       ReleaseBegin, ReleaseDelete, ReleaseDone, PodVanishes
<1>2. ASSUME NEW q \in Runs, ExecFail(q)
      PROVE  sess'[t] \notin {"starting", "ready", "disconnected"}
  BY <1>2 DEF ExecFail, TypeOK
<1>3. CASE BootSessions
  BY <1>3 DEF BootSessions, Adopted
<1>4. ASSUME NEW s \in Sessions, NEW q \in Runs, Submit(q, s)
      PROVE  sess' = sess
  BY <1>4 DEF Submit
<1>5. ASSUME NEW q \in Runs, RunNext(q), ~ExecFail(q)
      PROVE  sess' = sess
  BY <1>5 DEF RunNext, ExecStep, Cancel, CancelRemote, ExecStart, ExecRead, ExecDone, ExecEnds,
     ExecFailed, ExecGivesUp, WorkerStarts, WorkerEmits, WorkerReports, WorkerExits,
     WorkerIsCutOff, ConnectionBreaks, BootRun, WorkerKeeps, sessionVars
<1>6. CASE Close \/ ServerEnds \/ Boot \/ UNCHANGED vars
  BY <1>6 DEF Close, ServerEnds, Boot, vars, sessionVars
<1> QED
  BY <1>1, <1>2, <1>3, <1>4, <1>5, <1>6 DEF Next

\* What has ended stays as it ended, in every step.
THEOREM Endings == Spec => EndsAreFinal
<1>1. TypeOK /\ IInv /\ [Next]_vars => [OutcomeOnlyFails /\ RetiredForGood]_vars
  BY OutcomesStay, RetiredStay
<1> QED
  BY <1>1, Invariance, PTL DEF Spec, EndsAreFinal

-----------------------------------------------------------------------------
(***************************************************************************)
(* The other half of the playground: what it tells of the cluster's nodes.  *)
(* A node is shown as idle only if it was.  A status carries its age        *)
(* through the job and the cache, and while a refresh is under way the      *)
(* listing it started from stays.                                           *)
(***************************************************************************)
(* The inductive invariant *)

\* What the history says of the GPUs in use, and of the exporter's sample.
Recorded(n) ==
    /\ busy[n] = {} => idleAge[n] = 0
    /\ scraped[n].busy = {} => idleAge[n] <= scraped[n].age

\* A status that says idle is no younger than the last idle moment, and says so
\* of the node as it was listed.
Holds(s, l, since) ==
    s.state = "idle" =>
        s.age # None /\ since <= s.age /\ ~Unread(l) /\ l.count = s.total

\* The observations under way are of the nodes as they are listed.
Targeted(n) ==
    /\ Refreshing => cache.nodes[n] # None
    /\ cache.refreshing = "listing" =>
         job[n].stage = "none" /\ job[n].target = cache.nodes[n]
    /\ job[n].stage # "none" =>
         cache.refreshing = "reading" /\ job[n].target = cache.nodes[n]

Told(n) ==
    /\ Holds(cache.gpu[n], cache.nodes[n], idleAge[n])
    /\ job[n].stage = "done" => Holds(job[n].result, cache.nodes[n], idleAge[n])

Accurate == MonitorTypeOK /\ \A n \in Nodes : Recorded(n) /\ Targeted(n) /\ Told(n)

-----------------------------------------------------------------------------
(* The clocks *)

LEMMA Caps == Cap \in Nat /\ 0 \in 0..Cap /\ 0 \in 0..CacheTicks /\ 0 \in Ages
BY TicksAssumption DEF Cap, Ages

LEMMA NotAge == \A a \in Ages : a # None => a \in 0..Cap
BY DEF Ages

LEMMA OlderIsAge ==
  /\ \A a \in 0..Cap : Older(a) \in 0..Cap /\ a <= Older(a)
  /\ \A a \in Ages : Older(a) \in Ages /\ (a # None <=> Older(a) # None)
  /\ \A a, b \in 0..Cap : a <= b => Older(a) <= Older(b)
<1>1. None \notin 0..Cap
  BY NoneAssumption, Caps
<1>2. \A a \in 0..Cap : Older(a) \in 0..Cap /\ a <= Older(a)
  BY <1>1, Caps DEF Older, Until
<1>3. Older(None) = None
  BY DEF Older, Until
<1>4. \A a, b \in 0..Cap : a <= b => Older(a) <= Older(b)
  BY <1>1, Caps DEF Older, Until
<1> QED
  BY <1>1, <1>2, <1>3, <1>4 DEF Ages

LEMMA UntilIsTick == \A a \in 0..CacheTicks : Until(CacheTicks, a) \in 0..CacheTicks
BY TicksAssumption DEF Until

-----------------------------------------------------------------------------
(* Statuses *)

LEMMA Counts ==
  \A l \in Listings \cup {Blind} :
     /\ l.ready \in BOOLEAN \cup {None} /\ l.mig \in BOOLEAN
     /\ l.count \in Nat \cup {None} /\ l.count \in {None, 0, Cardinality(Gpus)}
     /\ l # None
<1>1. ASSUME NEW l \in Listings
      PROVE  /\ l.ready \in BOOLEAN /\ l.mig \in BOOLEAN /\ l.count \in Nat \cup {None}
             /\ l.count \in {None, 0, Cardinality(Gpus)}
  <2>1. l \in Inventory
    BY ListingsAssumption
  <2> QED
    BY <2>1, ListingsAssumption DEF Inventory
<1>2. Blind.ready = None /\ Blind.mig = FALSE /\ Blind.count = None
  BY DEF Blind
<1>3. None \notin Listings /\ None # Blind
  BY NoneAssumption
<1> QED
  BY <1>1, <1>2, <1>3

LEMMA NoStatusType == NoStatus \in Statuses /\ NoStatus.state = "unknown"
BY DEF NoStatus, Statuses, Ages

\* What gpu_status returns is a status, and idle needs all readings to be idle.
LEMMA StatusType ==
  ASSUME NEW l \in Listings \cup {Blind}, NEW r, NEW a \in Ages
  PROVE  /\ GpuStatus(l, r, a) \in Statuses
         /\ GpuStatus(l, r, a).total = l.count /\ GpuStatus(l, r, a).age = a
         /\ GpuStatus(l, r, a).state = "idle" =>
              /\ a # None /\ ~Unread(l)
              /\ l.count # None /\ Cardinality(DOMAIN r) = l.count
              /\ \A g \in DOMAIN r : r[g] = "idle"
<1> DEFINE s == GpuState(l, r, a)
<1>1. GpuStatus(l, r, a) = [total |-> l.count, age |-> a, state |-> s]
  BY DEF GpuStatus
<1>2. l.mig \in BOOLEAN /\ l.count \in Nat \cup {None}
  BY Counts
<1>3. CASE l.ready = FALSE
  <2>1. s = "not_ready"
    BY <1>3 DEF GpuState, Unread
  <2> QED
    BY <1>1, <1>2, <2>1 DEF Statuses
<1>4. CASE l.ready # FALSE /\ l.mig
  <2>1. s = "unknown"
    BY <1>4 DEF GpuState, Unread
  <2> QED
    BY <1>1, <1>2, <2>1 DEF Statuses
<1>5. CASE l.ready # FALSE /\ ~l.mig /\ l.count = 0
  <2>1. s = "no_gpu"
    BY <1>5 DEF GpuState, Unread
  <2> QED
    BY <1>1, <1>2, <2>1 DEF Statuses
<1>6. CASE ~Unread(l)
  <2> DEFINE Whole == /\ l.count # None /\ Cardinality(DOMAIN r) = l.count
                      /\ \A g \in DOMAIN r : r[g] = "idle"
                      /\ a # None
  <2>1. s = IF Stale(a) THEN "unknown"
            ELSE IF \E g \in DOMAIN r : r[g] = "busy" THEN "busy"
            ELSE IF Whole THEN "idle" ELSE "unknown"
    BY <1>6 DEF GpuState, Unread
  <2>2. s \in {"unknown", "busy", "idle"} /\ (s = "idle" => Whole)
    BY <2>1
  <2> QED
    BY <1>1, <1>2, <1>6, <2>2 DEF Statuses
<1> QED
  BY <1>2, <1>3, <1>4, <1>5, <1>6 DEF Unread

\* With no readings, or with no age, nothing is idle.
LEMMA BlankIsNotIdle ==
  ASSUME NEW l \in Listings \cup {Blind}
  PROVE  GpuStatus(l, NoReadings, None) \in Statuses
         /\ GpuStatus(l, NoReadings, None).state # "idle"
BY StatusType DEF Ages

LEMMA BaselineHolds ==
  ASSUME NEW l \in Listings \cup {Blind}, NEW old, NEW s \in Statuses, NEW since,
         Holds(s, old, since)
  PROVE  Baseline(l, s) \in Statuses /\ Holds(Baseline(l, s), l, since)
BY BlankIsNotIdle DEF Baseline, Holds

\* Full readings of GPUs none of which is in use.
LEMMA ReadingIsTrue ==
  ASSUME NEW l \in Listings \cup {Blind}, NEW used \in Loads, NEW r \in Readings(used),
         NEW a \in Ages, GpuStatus(l, r, a).state = "idle"
  PROVE  used = {}
<1>1. /\ Cardinality(DOMAIN r) = l.count /\ l.count # None /\ ~Unread(l)
      /\ \A g \in DOMAIN r : r[g] = "idle"
  BY StatusType
<1>2. PICK some \in SUBSET Gpus :
        /\ r \in [some -> {"idle", "busy", "bad"}]
        /\ \A g \in some : r[g] # "bad" => r[g] = (IF g \in used THEN "busy" ELSE "idle")
  BY DEF Readings
<1>3. Cardinality(Gpus) = Cardinality(some)
  BY <1>1, <1>2, Counts DEF Unread
<1>4. some = Gpus
  BY <1>2, <1>3, FS_Subset, NodesAssumption
<1>5. \A g \in Gpus : g \notin used
  BY <1>1, <1>2, <1>4
<1> QED
  BY <1>5, LoadsAssumption

-----------------------------------------------------------------------------
(* The updates of the cache and of an observation *)

LEMMA CacheType ==
  MonitorTypeOK => /\ cache \in Caches /\ cache.nodes \in [Nodes -> Listings \cup {Blind, None}]
            /\ cache.gpu \in [Nodes -> Statuses]
BY DEF MonitorTypeOK, Caches

\* A status that holds is still true when it and the world grow older together.
LEMMA AgedHolds ==
  ASSUME NEW s \in Statuses, NEW l, NEW i \in 0..Cap, NEW j \in 0..Cap, Holds(s, l, i),
         j = Older(i) \/ j = 0
  PROVE  Aged(s) \in Statuses /\ Holds(Aged(s), l, j)
<1>1. s.age \in Ages /\ Older(s.age) \in Ages /\ (s.age # None => Older(s.age) # None)
  BY OlderIsAge DEF Statuses
<1>2. /\ Aged(s) \in Statuses /\ Aged(s).age = Older(s.age) /\ Aged(s).state = s.state
      /\ Aged(s).total = s.total
  BY <1>1 DEF Aged, Statuses
<1>3. ASSUME s.age # None, i <= s.age
      PROVE  j <= Older(s.age)
  <2>1. s.age \in 0..Cap /\ Older(s.age) \in 0..Cap
    BY <1>1, <1>3, NotAge
  <2>2. Older(i) <= Older(s.age)
    BY <1>3, <2>1, OlderIsAge
  <2> QED
    BY <2>1, <2>2, Caps
<1> QED
  BY <1>1, <1>2, <1>3 DEF Holds

\* The statuses of nodes that are listed anew, or kept.
LEMMA Rebased ==
  ASSUME MonitorTypeOK, NEW nodes \in [Nodes -> Listings \cup {Blind}],
         NEW gpu \in [Nodes -> Statuses],
         NEW old, \A n \in Nodes : Holds(gpu[n], old[n], idleAge[n])
  PROVE  /\ [n \in Nodes |-> Baseline(nodes[n], gpu[n])] \in [Nodes -> Statuses]
         /\ \A n \in Nodes : Holds(Baseline(nodes[n], gpu[n]), nodes[n], idleAge[n])
BY BaselineHolds

LEMMA RelistedCache ==
  ASSUME MonitorTypeOK, NEW nodes \in [Nodes -> Listings \cup {Blind}],
         \A n \in Nodes : Holds(cache.gpu[n], cache.nodes[n], idleAge[n])
  PROVE  /\ Relisted(nodes) \in Caches /\ Relisted(nodes).nodes = nodes
         /\ Relisted(nodes).refreshing = cache.refreshing
         /\ \A n \in Nodes : Holds(Relisted(nodes).gpu[n], nodes[n], idleAge[n])
<1> DEFINE gpu == [n \in Nodes |-> Baseline(nodes[n], cache.gpu[n])]
<1>1. /\ gpu \in [Nodes -> Statuses]
      /\ \A n \in Nodes : Holds(gpu[n], nodes[n], idleAge[n])
  BY CacheType, Rebased
<1>2. Relisted(nodes) = [cache EXCEPT !.nodes = nodes, !.listed = 0, !.gpu = gpu]
  BY DEF Relisted
<1> HIDE DEF gpu
<1>3. cache \in Caches /\ nodes \in [Nodes -> Listings \cup {Blind, None}] /\ 0 \in 0..CacheTicks
  BY CacheType, Caps
<1>4. /\ Relisted(nodes) \in Caches /\ Relisted(nodes).nodes = nodes
      /\ Relisted(nodes).refreshing = cache.refreshing /\ Relisted(nodes).gpu = gpu
  BY <1>1, <1>2, <1>3 DEF Caches
<1> QED
  BY <1>1, <1>4

LEMMA StartedCache ==
  ASSUME MonitorTypeOK, NEW c \in Caches, c.nodes \in [Nodes -> Listings \cup {Blind}],
         \A n \in Nodes : Holds(c.gpu[n], c.nodes[n], idleAge[n])
  PROVE  /\ Started(c) \in Caches /\ Started(c).nodes = c.nodes
         /\ Started(c).refreshing = "listing"
         /\ \A n \in Nodes : Holds(Started(c).gpu[n], c.nodes[n], idleAge[n])
<1> DEFINE gpu == [n \in Nodes |-> Baseline(c.nodes[n], c.gpu[n])]
<1>1. c.gpu \in [Nodes -> Statuses]
  BY DEF Caches
<1>2. /\ gpu \in [Nodes -> Statuses]
      /\ \A n \in Nodes : Holds(gpu[n], c.nodes[n], idleAge[n])
  BY <1>1, Rebased
<1>3. Started(c) = [c EXCEPT !.refreshing = "listing", !.attempted = 0, !.gpu = gpu]
  BY DEF Started
<1> HIDE DEF gpu
<1>4. /\ Started(c) \in Caches /\ Started(c).nodes = c.nodes
      /\ Started(c).refreshing = "listing" /\ Started(c).gpu = gpu
  BY <1>2, <1>3, Caps DEF Caches
<1> QED
  BY <1>2, <1>4

LEMMA UnseenCache ==
  ASSUME MonitorTypeOK, Listed
  PROVE  /\ Unseen \in Caches /\ Unseen.nodes = cache.nodes
         /\ Unseen.refreshing = cache.refreshing
         /\ \A n \in Nodes : Holds(Unseen.gpu[n], cache.nodes[n], idleAge[n])
<1> DEFINE gpu == [n \in Nodes |-> GpuStatus(cache.nodes[n], NoReadings, None)]
<1>1. \A n \in Nodes : cache.nodes[n] \in Listings \cup {Blind}
  BY CacheType DEF Listed
<1>2. gpu \in [Nodes -> Statuses] /\ \A n \in Nodes : gpu[n].state # "idle"
  BY <1>1, BlankIsNotIdle
<1>3. Unseen = [cache EXCEPT !.listed = 0, !.attempted = 0, !.gpu = gpu]
  BY DEF Unseen
<1> HIDE DEF gpu
<1>4. /\ Unseen \in Caches /\ Unseen.nodes = cache.nodes
      /\ Unseen.refreshing = cache.refreshing /\ Unseen.gpu = gpu
  BY <1>2, <1>3, Caps, CacheType DEF Caches
<1> QED
  BY <1>2, <1>4 DEF Holds

LEMMA StoppedCache ==
  ASSUME MonitorTypeOK
  PROVE  /\ Stopped(cache) \in Caches /\ Stopped(cache).nodes = cache.nodes
         /\ Stopped(cache).refreshing = "no" /\ Stopped(cache).gpu = cache.gpu
BY CacheType DEF Stopped, Caches

LEMMA NoJobType ==
  NoJob \in Jobs /\ NoJob.stage = "none" /\ \A l \in Listings \cup {Blind} :
     [NoJob EXCEPT !.target = l] \in Jobs /\ [NoJob EXCEPT !.target = l].stage = "none"
     /\ [NoJob EXCEPT !.target = l].target = l
BY NoStatusType DEF NoJob, Jobs

LEMMA WaitingJob ==
  ASSUME NEW o \in Jobs, NEW e, NEW p, e \in BOOLEAN, p \in BOOLEAN
  PROVE  /\ Waiting(o, e, p) \in Jobs /\ Waiting(o, e, p).stage = "waiting"
         /\ Waiting(o, e, p).target = o.target
BY DEF Waiting, Jobs

LEMMA ReportedJob ==
  ASSUME NEW o \in Jobs, NEW s \in Statuses, NEW p \in {"fallback", "done"}
  PROVE  /\ Reported(o, s, p) \in Jobs /\ Reported(o, s, p).target = o.target
         /\ Reported(o, s, p).stage = p /\ Reported(o, s, p).result = s
BY DEF Reported, Jobs

-----------------------------------------------------------------------------
(* The steps *)

LEMMA Initially == MonitorInit => Accurate
<1> SUFFICES ASSUME MonitorInit PROVE Accurate
  OBVIOUS
<1>1. cache \in Caches /\ job \in [Nodes -> Jobs]
  <2>1. [n \in Nodes |-> NoStatus] \in [Nodes -> Statuses]
    BY NoStatusType
  <2>2. CacheTicks \in 0..CacheTicks
    BY TicksAssumption
  <2> QED
    BY <2>1, <2>2, NoJobType DEF MonitorInit, Caches
<1>2. MonitorTypeOK
  BY <1>1, Caps, LoadsAssumption DEF MonitorInit, MonitorTypeOK
<1>3. \A n \in Nodes : Recorded(n)
  BY DEF MonitorInit, Recorded
<1>4. \A n \in Nodes : Targeted(n) /\ Told(n)
  BY NoJobType, NoStatusType DEF MonitorInit, Targeted, Told, Holds, Refreshing
<1> QED
  BY <1>2, <1>3, <1>4 DEF Accurate

\* Each node by itself: the world goes on.
LEMMA WorkStep ==
  ASSUME Accurate, NEW n \in Nodes, Work(n)
  PROVE  Accurate'
<1>1. PICK used \in Loads :
        /\ busy' = [busy EXCEPT ![n] = used]
        /\ idleAge' = [idleAge EXCEPT ![n] = IF {} \in {busy[n], used} THEN 0 ELSE @]
  BY DEF Work
<1>2. scraped' = scraped /\ cache' = cache /\ job' = job /\ closed' = closed
  BY DEF Work
<1>3. /\ busy \in [Nodes -> Loads] /\ idleAge \in [Nodes -> 0..Cap]
      /\ scraped \in [Nodes -> [age : 0..Cap, busy : Loads]]
  BY DEF Accurate, MonitorTypeOK
<1>4. busy' \in [Nodes -> Loads] /\ idleAge' \in [Nodes -> 0..Cap]
  BY <1>1, <1>3, Caps
<1>5. MonitorTypeOK'
  BY <1>2, <1>4 DEF Accurate, MonitorTypeOK
<1>6. \A x \in Nodes : idleAge'[x] = 0 \/ (idleAge'[x] = idleAge[x] /\ (busy'[x] = {} => busy[x] = {}))
  BY <1>1, <1>3
<1>7. \A x \in Nodes : Recorded(x)'
  <2> TAKE x \in Nodes
  <2>1. idleAge[x] \in 0..Cap /\ idleAge'[x] \in 0..Cap /\ scraped[x].age \in 0..Cap
    BY <1>3, <1>4
  <2> QED
    BY <1>2, <1>6, <2>1, Caps DEF Accurate, Recorded
<1>8. \A x \in Nodes : Targeted(x)'
  BY <1>2 DEF Accurate, Targeted, Refreshing
<1>9. \A x \in Nodes : Told(x)'
  <2> SUFFICES ASSUME NEW x \in Nodes PROVE Told(x)'
    OBVIOUS
  <2>1. idleAge[x] \in 0..Cap /\ idleAge'[x] \in 0..Cap /\ idleAge'[x] <= idleAge[x]
    BY <1>3, <1>4, <1>6, Caps
  <2>2. cache.gpu[x] \in Statuses /\ job[x].result \in Statuses
    BY CacheType DEF Accurate, MonitorTypeOK, Jobs
  <2>3. ASSUME NEW s \in Statuses, NEW l, Holds(s, l, idleAge[x])
        PROVE  Holds(s, l, idleAge'[x])
    <3>1. s.age # None => s.age \in 0..Cap
      BY NotAge DEF Statuses
    <3> QED
      BY <2>1, <2>3, <3>1, Caps DEF Holds
  <2> QED
    BY <1>2, <2>2, <2>3 DEF Accurate, Told
<1> QED
  BY <1>5, <1>7, <1>8, <1>9 DEF Accurate

LEMMA ScrapeStep ==
  ASSUME Accurate, NEW n \in Nodes, Scrape(n)
  PROVE  Accurate'
<1>1. /\ scraped' = [scraped EXCEPT ![n] = [age |-> 0, busy |-> busy[n]]]
      /\ busy' = busy /\ idleAge' = idleAge /\ cache' = cache /\ job' = job /\ closed' = closed
  BY DEF Scrape
<1>2. /\ busy \in [Nodes -> Loads] /\ scraped \in [Nodes -> [age : 0..Cap, busy : Loads]]
      /\ idleAge \in [Nodes -> 0..Cap]
  BY DEF Accurate, MonitorTypeOK
<1>3. MonitorTypeOK'
  BY <1>1, <1>2, Caps DEF Accurate, MonitorTypeOK
<1>4. \A x \in Nodes : Recorded(x)'
  BY <1>1, <1>2, Caps DEF Accurate, Recorded
<1> QED
  BY <1>1, <1>3, <1>4 DEF Accurate, Targeted, Told, Refreshing

LEMMA TickStep ==
  ASSUME Accurate, Tick
  PROVE  Accurate'
<1> DEFINE gpu == [n \in Nodes |-> Aged(cache.gpu[n])]
           Later(n) == [job[n] EXCEPT !.result = Aged(job[n].result)]
<1>1. /\ idleAge' = [n \in Nodes |-> IF busy[n] = {} THEN 0 ELSE Older(idleAge[n])]
      /\ scraped' = [n \in Nodes |-> [scraped[n] EXCEPT !.age = Older(scraped[n].age)]]
      /\ cache' = [cache EXCEPT !.listed = Until(CacheTicks, cache.listed),
                      !.attempted = Until(CacheTicks, cache.attempted), !.gpu = gpu]
      /\ job' = [n \in Nodes |-> Later(n)]
      /\ busy' = busy /\ closed' = closed
  BY DEF Tick
<1>2. /\ busy \in [Nodes -> Loads] /\ scraped \in [Nodes -> [age : 0..Cap, busy : Loads]]
      /\ idleAge \in [Nodes -> 0..Cap] /\ job \in [Nodes -> Jobs] /\ cache \in Caches
      /\ closed \in BOOLEAN
  BY DEF Accurate, MonitorTypeOK
<1>3. \A n \in Nodes : /\ idleAge[n] \in 0..Cap /\ idleAge'[n] \in 0..Cap
                       /\ idleAge'[n] = 0 \/ idleAge'[n] = Older(idleAge[n])
                       /\ busy[n] = {} => idleAge'[n] = 0
  BY <1>1, <1>2, OlderIsAge, Caps
<1>4. \A n \in Nodes : /\ scraped'[n] \in [age : 0..Cap, busy : Loads]
                       /\ scraped'[n].age = Older(scraped[n].age)
                       /\ scraped'[n].busy = scraped[n].busy
  BY <1>1, <1>2, OlderIsAge
<1>5. \A n \in Nodes :
        /\ cache.gpu[n] \in Statuses /\ Aged(cache.gpu[n]) \in Statuses
        /\ Holds(Aged(cache.gpu[n]), cache.nodes[n], idleAge'[n])
  <2> SUFFICES ASSUME NEW n \in Nodes
               PROVE /\ cache.gpu[n] \in Statuses /\ Aged(cache.gpu[n]) \in Statuses
                     /\ Holds(Aged(cache.gpu[n]), cache.nodes[n], idleAge'[n])
    OBVIOUS
  <2>1. cache.gpu[n] \in Statuses /\ Holds(cache.gpu[n], cache.nodes[n], idleAge[n])
    BY CacheType DEF Accurate, Told
  <2> QED
    BY <1>3, <2>1, AgedHolds
<1>6. \A n \in Nodes : job[n].result \in Statuses /\ Aged(job[n].result) \in Statuses
  <2> SUFFICES ASSUME NEW n \in Nodes
               PROVE  job[n].result \in Statuses /\ Aged(job[n].result) \in Statuses
    OBVIOUS
  <2>1. job[n].result \in Statuses
    BY <1>2 DEF Jobs
  <2>2. job[n].result.age \in Ages /\ Older(job[n].result.age) \in Ages
    BY <2>1, OlderIsAge DEF Statuses
  <2> QED
    BY <2>1, <2>2 DEF Aged, Statuses
<1>7. \A n \in Nodes : job[n].stage = "done" =>
        Holds(Aged(job[n].result), cache.nodes[n], idleAge'[n])
  BY <1>3, <1>6, AgedHolds DEF Accurate, Told
<1>8. gpu \in [Nodes -> Statuses] /\ \A n \in Nodes : gpu[n] = Aged(cache.gpu[n])
  BY <1>5
<1>9. \A n \in Nodes : /\ Later(n) \in Jobs /\ Later(n).stage = job[n].stage
                       /\ Later(n).target = job[n].target
                       /\ Later(n).result = Aged(job[n].result)
  <2> SUFFICES ASSUME NEW n \in Nodes, NEW s \in Statuses
               PROVE LET o == [job[n] EXCEPT !.result = s] IN
                     /\ o \in Jobs /\ o.stage = job[n].stage /\ o.target = job[n].target
                     /\ o.result = s
    BY <1>6
  <2> QED
    BY <1>2 DEF Jobs
<1> HIDE DEF gpu, Later
<1>10. cache' \in Caches /\ cache'.nodes = cache.nodes /\ cache'.gpu = gpu
       /\ cache'.refreshing = cache.refreshing
  <2>1. /\ Until(CacheTicks, cache.listed) \in 0..CacheTicks
        /\ Until(CacheTicks, cache.attempted) \in 0..CacheTicks
    BY <1>2, UntilIsTick DEF Caches
  <2> QED
    BY <1>1, <1>2, <1>8, <2>1 DEF Caches
<1>11. job' \in [Nodes -> Jobs] /\ \A n \in Nodes : job'[n] = Later(n)
  BY <1>1, <1>9
<1>12. MonitorTypeOK'
  <2>1. idleAge' \in [Nodes -> 0..Cap] /\ scraped' \in [Nodes -> [age : 0..Cap, busy : Loads]]
    BY <1>1, <1>3, <1>4
  <2> QED
    BY <1>1, <1>2, <1>10, <1>11, <2>1 DEF MonitorTypeOK
<1>13. \A n \in Nodes : Recorded(n)'
  <2> SUFFICES ASSUME NEW n \in Nodes PROVE Recorded(n)'
    OBVIOUS
  <2>1. scraped[n].age \in 0..Cap /\ scraped'[n].age \in 0..Cap
    BY <1>2, <1>4
  <2>2. scraped[n].busy = {} => idleAge'[n] <= scraped'[n].age
    <3>1. idleAge[n] <= scraped[n].age => Older(idleAge[n]) <= scraped'[n].age
      BY <1>3, <1>4, <2>1, OlderIsAge
    <3>2. 0 <= scraped'[n].age
      BY <2>1, Caps
    <3> QED
      BY <1>3, <3>1, <3>2 DEF Accurate, Recorded
  <2> QED
    BY <1>1, <1>3, <1>4, <2>2 DEF Recorded
<1>14. \A n \in Nodes : Targeted(n)'
  BY <1>9, <1>10, <1>11 DEF Accurate, Targeted, Refreshing
<1>15. \A n \in Nodes : Told(n)'
  BY <1>5, <1>7, <1>8, <1>9, <1>10, <1>11 DEF Told
<1> QED
  BY <1>12, <1>13, <1>14, <1>15 DEF Accurate

LEMMA CloseStep ==
  ASSUME Accurate, CloseMonitor \/ UNCHANGED monitorVars
  PROVE  Accurate'
<1>1. /\ busy' = busy /\ idleAge' = idleAge /\ scraped' = scraped /\ cache' = cache
      /\ job' = job /\ closed' \in {TRUE, closed}
  BY DEF CloseMonitor, monitorVars, world
<1> QED
  BY <1>1 DEF Accurate, MonitorTypeOK, Recorded, Targeted, Told, Refreshing

\* A step of the monitor leaves the world alone.
LEMMA SameWorld ==
  ASSUME Accurate, UNCHANGED world, cache' \in Caches, job' \in [Nodes -> Jobs], UNCHANGED closed
  PROVE  MonitorTypeOK' /\ \A n \in Nodes : Recorded(n)' /\ idleAge'[n] = idleAge[n]
BY DEF Accurate, MonitorTypeOK, Recorded, world

\* No refresh is under way: nothing is observed.
LEMMA Resting ==
  ASSUME Accurate, ~Refreshing, NEW n \in Nodes
  PROVE  job[n].stage = "none"
<1>1. job[n].stage # "none" => cache.refreshing = "reading"
  BY DEF Accurate, Targeted
<1> QED
  BY <1>1 DEF Refreshing

\* A refresh, or none, from a cache c that holds of its own listing.
LEMMA StartStep ==
  ASSUME Accurate, NEW c \in Caches, NEW refresh \in BOOLEAN, Start(c, refresh), UNCHANGED world,
         UNCHANGED closed,
         c.refreshing = cache.refreshing, c.nodes \in [Nodes -> Listings \cup {Blind}],
         Refreshing => c.nodes = cache.nodes,
         \A n \in Nodes : Holds(c.gpu[n], c.nodes[n], idleAge[n])
  PROVE  Accurate'
<1>1. MonitorTypeOK /\ job \in [Nodes -> Jobs]
  BY DEF Accurate, MonitorTypeOK
<1>2. \A n \in Nodes : c.nodes[n] \in Listings \cup {Blind} /\ c.nodes[n] # None
  BY Counts
<1>3. CASE cache' = Started(c) /\ ~Refreshing
           /\ job' = [n \in Nodes |-> [NoJob EXCEPT !.target = c.nodes[n]]]
  <2>1. /\ cache' \in Caches /\ cache'.nodes = c.nodes /\ cache'.refreshing = "listing"
        /\ \A n \in Nodes : Holds(cache'.gpu[n], c.nodes[n], idleAge[n])
    BY <1>1, <1>3, StartedCache
  <2>2. /\ job' \in [Nodes -> Jobs]
        /\ \A n \in Nodes : job'[n].stage = "none" /\ job'[n].target = c.nodes[n]
    BY <1>2, <1>3, NoJobType
  <2>3. MonitorTypeOK' /\ \A n \in Nodes : Recorded(n)' /\ idleAge'[n] = idleAge[n]
    BY <2>1, <2>2, SameWorld
  <2>4. \A n \in Nodes : Targeted(n)'
    BY <1>2, <2>1, <2>2 DEF Targeted
  <2>5. \A n \in Nodes : Told(n)'
    BY <2>1, <2>2, <2>3 DEF Told
  <2> QED
    BY <2>3, <2>4, <2>5 DEF Accurate
<1>4. CASE cache' = c /\ UNCHANGED job
  <2>1. MonitorTypeOK' /\ \A n \in Nodes : Recorded(n)' /\ idleAge'[n] = idleAge[n]
    BY <1>1, <1>4, SameWorld
  <2>2. \A n \in Nodes : Targeted(n)'
    <3> SUFFICES ASSUME NEW n \in Nodes PROVE Targeted(n)'
      OBVIOUS
    <3>1. CASE Refreshing
      BY <1>2, <1>4, <3>1 DEF Accurate, Targeted, Refreshing
    <3>2. CASE ~Refreshing
      <4>1. job'[n].stage = "none" /\ cache'.refreshing = "no"
        BY <1>4, <3>2, Resting DEF Refreshing
      <4> QED
        BY <4>1 DEF Targeted, Refreshing
    <3> QED
      BY <3>1, <3>2
  <2>3. \A n \in Nodes : Told(n)'
    <3> SUFFICES ASSUME NEW n \in Nodes PROVE Told(n)'
      OBVIOUS
    <3>1. job[n].stage = "done" => cache.nodes = c.nodes
      BY Resting
    <3> QED
      BY <1>4, <2>1, <3>1 DEF Accurate, Told
  <2> QED
    BY <2>1, <2>2, <2>3 DEF Accurate
<1> QED
  BY <1>3, <1>4 DEF Start

LEMMA SnapshotStep ==
  ASSUME Accurate, NEW refresh \in BOOLEAN, Snapshot(refresh)
  PROVE  Accurate'
<1>1. /\ MonitorTypeOK /\ cache \in Caches
      /\ \A n \in Nodes : Holds(cache.gpu[n], cache.nodes[n], idleAge[n])
  BY DEF Accurate, MonitorTypeOK, Told
<1>2. UNCHANGED world /\ UNCHANGED closed
  BY DEF Snapshot
<1>3. Refreshing => Listed
  BY DEF Accurate, Targeted, Listed
<1>4. CASE MayList(refresh) /\ \E nodes \in NodeLists : Start(Relisted(nodes), refresh)
  <2>1. PICK nodes \in NodeLists : Start(Relisted(nodes), refresh)
    BY <1>4
  <2>2. nodes \in [Nodes -> Listings \cup {Blind}]
    BY DEF NodeLists
  <2>3. /\ Relisted(nodes) \in Caches /\ Relisted(nodes).nodes = nodes
        /\ Relisted(nodes).refreshing = cache.refreshing
        /\ \A n \in Nodes : Holds(Relisted(nodes).gpu[n], nodes[n], idleAge[n])
    BY <1>1, <2>2, RelistedCache
  <2>4. ~Refreshing
    BY <1>3, <1>4 DEF MayList
  <2> QED
    BY <1>2, <2>1, <2>2, <2>3, <2>4, StartStep
<1>5. CASE Listed /\ Start(cache, refresh)
  <2>1. cache.nodes \in [Nodes -> Listings \cup {Blind}]
    BY <1>1, <1>5, CacheType DEF Listed
  <2> QED
    BY <1>1, <1>2, <1>5, <2>1, StartStep
<1> QED
  BY <1>4, <1>5 DEF Snapshot

LEMMA SnapshotFailsStep ==
  ASSUME Accurate, NEW refresh \in BOOLEAN, SnapshotFails(refresh)
  PROVE  Accurate'
<1>1. /\ ~Refreshing /\ Listed /\ cache' = Unseen /\ job' = job /\ UNCHANGED closed
      /\ UNCHANGED world
  BY DEF SnapshotFails, MayList
<1>2. MonitorTypeOK /\ job' \in [Nodes -> Jobs]
  BY <1>1 DEF Accurate, MonitorTypeOK
<1>3. /\ cache' \in Caches /\ cache'.nodes = cache.nodes /\ cache'.refreshing = "no"
      /\ \A n \in Nodes : Holds(cache'.gpu[n], cache.nodes[n], idleAge[n])
  BY <1>1, <1>2, UnseenCache DEF Refreshing
<1>4. MonitorTypeOK' /\ \A n \in Nodes : Recorded(n)' /\ idleAge'[n] = idleAge[n]
  BY <1>1, <1>2, <1>3, SameWorld
<1>5. \A n \in Nodes : job'[n].stage = "none"
  BY <1>1, Resting
<1>6. \A n \in Nodes : Targeted(n)' /\ Told(n)'
  BY <1>3, <1>4, <1>5 DEF Targeted, Told, Refreshing
<1> QED
  BY <1>4, <1>6 DEF Accurate

LEMMA ListSourcesStep ==
  ASSUME Accurate, ListSources
  PROVE  Accurate'
<1>1. cache.refreshing = "listing" /\ UNCHANGED world /\ UNCHANGED closed
  BY DEF ListSources
<1>2. /\ MonitorTypeOK /\ job \in [Nodes -> Jobs]
      /\ \A n \in Nodes : job[n].stage = "none" /\ job[n].target = cache.nodes[n]
      /\ \A n \in Nodes : cache.nodes[n] # None /\ Holds(cache.gpu[n], cache.nodes[n], idleAge[n])
  BY <1>1 DEF Accurate, MonitorTypeOK, Targeted, Told, Refreshing
<1>3. CASE closed
  <2>1. cache' = Stopped(cache) /\ job' = job
    BY <1>3 DEF ListSources
  <2>2. /\ cache' \in Caches /\ cache'.nodes = cache.nodes
        /\ cache'.refreshing = "no" /\ cache'.gpu = cache.gpu
    BY <1>2, <2>1, StoppedCache
  <2>3. MonitorTypeOK' /\ \A n \in Nodes : Recorded(n)' /\ idleAge'[n] = idleAge[n]
    BY <1>1, <1>2, <2>1, <2>2, SameWorld
  <2>4. \A n \in Nodes : Targeted(n)' /\ Told(n)'
    BY <1>2, <2>1, <2>2, <2>3 DEF Targeted, Told, Refreshing
  <2> QED
    BY <2>3, <2>4 DEF Accurate
<1>4. CASE ~closed
  <2>1. cache' = [cache EXCEPT !.refreshing = "reading"]
    BY <1>4 DEF ListSources
  <2>2. PICK exporters \in SUBSET Nodes, sessions \in SessionTargets :
          job' = [n \in Nodes |->
                    IF Unread(job[n].target) THEN NoJob
                    ELSE Waiting(job[n], n \in exporters, n \in sessions)]
    BY <1>4 DEF ListSources
  <2>3. /\ cache' \in Caches /\ cache'.nodes = cache.nodes
        /\ cache'.refreshing = "reading" /\ cache'.gpu = cache.gpu
    BY <1>2, <2>1, CacheType DEF Caches
  <2>4. \A n \in Nodes : /\ job'[n] \in Jobs /\ job'[n].stage \in {"none", "waiting"}
                         /\ job'[n].stage = "waiting" => job'[n].target = job[n].target
    <3> SUFFICES ASSUME NEW n \in Nodes
                 PROVE  /\ job'[n] \in Jobs /\ job'[n].stage \in {"none", "waiting"}
                        /\ job'[n].stage = "waiting" => job'[n].target = job[n].target
      OBVIOUS
    <3>2. CASE Unread(job[n].target)
      BY <2>2, <3>2, NoJobType
    <3>3. CASE ~Unread(job[n].target)
      <4>1. job'[n] = Waiting(job[n], n \in exporters, n \in sessions)
        BY <2>2, <3>3
      <4> DEFINE o == job[n]
                 e == n \in exporters
                 p == n \in sessions
      <4>2. o \in Jobs /\ e \in BOOLEAN /\ p \in BOOLEAN
        BY <1>2
      <4>3. job'[n] = Waiting(o, e, p)
        BY <4>1
      <4> HIDE DEF o, e, p
      <4>4. job'[n] \in Jobs /\ job'[n].stage = "waiting" /\ job'[n].target = o.target
        BY <4>2, <4>3, WaitingJob
      <4> QED
        BY <4>4 DEF o
    <3> QED
      BY <3>2, <3>3
  <2>5. job' \in [Nodes -> Jobs]
    BY <2>2, <2>4
  <2>6. MonitorTypeOK' /\ \A n \in Nodes : Recorded(n)' /\ idleAge'[n] = idleAge[n]
    BY <1>1, <2>3, <2>5, SameWorld
  <2>7. \A n \in Nodes : Targeted(n)' /\ Told(n)'
    BY <1>2, <2>3, <2>4, <2>6 DEF Targeted, Told
  <2> QED
    BY <2>6, <2>7 DEF Accurate
<1> QED
  BY <1>3, <1>4

\* What an observation yields holds of the node as it is listed.
LEMMA ExporterHolds ==
  ASSUME Accurate, NEW n \in Nodes, job[n].stage # "none", NEW s \in ExporterStatuses(n)
  PROVE  s \in Statuses /\ Holds(s, cache.nodes[n], idleAge[n])
<1> DEFINE l == cache.nodes[n]
<1>1. job[n].target = l /\ l \in Listings \cup {Blind}
  BY CacheType DEF Accurate, Targeted, Refreshing
<1>2. busy[n] \in Loads /\ scraped[n].busy \in Loads /\ scraped[n].age \in 0..Cap
      /\ scraped[n].age \in Ages
  BY DEF Accurate, MonitorTypeOK, Ages
<1> HIDE DEF l
<1>3. CASE s = GpuStatus(l, NoReadings, None)
  BY <1>1, <1>3, BlankIsNotIdle DEF Holds, l
<1>4. CASE \E r \in Readings(busy[n]) : s = GpuStatus(l, r, 0)
  <2>1. PICK r \in Readings(busy[n]) : s = GpuStatus(l, r, 0)
    BY <1>4
  <2>2. s.state = "idle" => busy[n] = {}
    BY <1>1, <1>2, <2>1, ReadingIsTrue, Caps
  <2>3. s.state = "idle" => idleAge[n] = 0
    BY <2>2 DEF Accurate, Recorded
  <2>4. /\ s \in Statuses /\ s.total = l.count /\ s.age = 0
        /\ s.state = "idle" => s.age # None /\ ~Unread(l)
    BY <1>1, <2>1, StatusType, Caps
  <2> QED
    BY <2>3, <2>4 DEF Holds, l
<1>5. CASE \E r \in Readings(scraped[n].busy) : s = GpuStatus(l, r, scraped[n].age)
  <2>1. PICK r \in Readings(scraped[n].busy) : s = GpuStatus(l, r, scraped[n].age)
    BY <1>5
  <2>2. s.state = "idle" => scraped[n].busy = {}
    BY <1>1, <1>2, <2>1, ReadingIsTrue
  <2>3. s.state = "idle" => idleAge[n] <= scraped[n].age
    BY <2>2 DEF Accurate, Recorded
  <2>4. /\ s \in Statuses /\ s.total = l.count /\ s.age = scraped[n].age
        /\ s.state = "idle" => s.age # None /\ ~Unread(l)
    BY <1>1, <1>2, <2>1, StatusType
  <2> QED
    BY <2>3, <2>4 DEF Holds, l
<1> QED
  BY <1>1, <1>3, <1>4, <1>5 DEF ExporterStatuses, Checked

LEMMA InventoryHolds ==
  ASSUME Accurate, NEW n \in Nodes, job[n].stage # "none", NEW s \in InventoryStatuses(n)
  PROVE  s \in Statuses /\ Holds(s, cache.nodes[n], idleAge[n])
<1> DEFINE l == cache.nodes[n]
<1>1. job[n].target = l /\ l \in Listings \cup {Blind}
  BY CacheType DEF Accurate, Targeted, Refreshing
<1>2. busy[n] \in Loads
  BY DEF Accurate, MonitorTypeOK
<1> HIDE DEF l
<1>3. CASE s = GpuStatus(l, NoReadings, None)
  BY <1>1, <1>3, BlankIsNotIdle DEF Holds, l
<1>4. CASE \E r \in Readings(busy[n]) : s = GpuStatus(l, r, 0)
  <2>1. PICK r \in Readings(busy[n]) : s = GpuStatus(l, r, 0)
    BY <1>4
  <2>2. s.state = "idle" => busy[n] = {}
    BY <1>1, <1>2, <2>1, ReadingIsTrue, Caps
  <2>3. s.state = "idle" => idleAge[n] = 0
    BY <2>2 DEF Accurate, Recorded
  <2>4. /\ s \in Statuses /\ s.total = l.count /\ s.age = 0
        /\ s.state = "idle" => s.age # None /\ ~Unread(l)
    BY <1>1, <2>1, StatusType, Caps
  <2> QED
    BY <2>3, <2>4 DEF Holds, l
<1> QED
  BY <1>1, <1>3, <1>4 DEF InventoryStatuses

\* An observation is put down.
LEMMA ReportStep ==
  ASSUME Accurate, NEW n \in Nodes, job[n].stage # "none", NEW s \in Statuses,
         NEW p \in {"fallback", "done"}, Holds(s, cache.nodes[n], idleAge[n]),
         job' = [job EXCEPT ![n] = Reported(job[n], s, p)], UNCHANGED <<world, cache, closed>>
  PROVE  Accurate'
<1>1. MonitorTypeOK /\ job \in [Nodes -> Jobs] /\ cache \in Caches
  BY DEF Accurate, MonitorTypeOK
<1>2. /\ Reported(job[n], s, p) \in Jobs /\ Reported(job[n], s, p).target = job[n].target
      /\ Reported(job[n], s, p).stage = p /\ Reported(job[n], s, p).result = s
  BY <1>1, ReportedJob
<1>3. /\ job' \in [Nodes -> Jobs] /\ job'[n] = Reported(job[n], s, p)
      /\ \A x \in Nodes : x # n => job'[x] = job[x]
  BY <1>1, <1>2
<1>4. cache' = cache
  OBVIOUS
<1>5. MonitorTypeOK' /\ \A x \in Nodes : Recorded(x)' /\ idleAge'[x] = idleAge[x]
  BY <1>1, <1>3, <1>4, SameWorld
<1>6. \A x \in Nodes : Targeted(x)'
  BY <1>2, <1>3, <1>4 DEF Accurate, Targeted, Refreshing
<1>7. \A x \in Nodes : Told(x)'
  BY <1>2, <1>3, <1>4, <1>5 DEF Accurate, Told
<1> QED
  BY <1>5, <1>6, <1>7 DEF Accurate

LEMMA AskExporterStep ==
  ASSUME Accurate, NEW n \in Nodes, AskExporter(n)
  PROVE  Accurate'
<1>1. job[n].stage # "none" /\ UNCHANGED <<world, cache, closed>>
  BY DEF AskExporter
<1>2. PICK s \in ExporterStatuses(n), p \in {"fallback", "done"} :
        job' = [job EXCEPT ![n] = Reported(job[n], s, p)]
  BY DEF AskExporter
<1>3. s \in Statuses /\ Holds(s, cache.nodes[n], idleAge[n])
  BY <1>1, ExporterHolds
<1> QED
  BY <1>1, <1>2, <1>3, ReportStep

LEMMA AskInventoryStep ==
  ASSUME Accurate, NEW n \in Nodes, AskInventory(n)
  PROVE  Accurate'
<1>1. job[n].stage # "none" /\ UNCHANGED <<world, cache, closed>>
  BY DEF AskInventory
<1>2. PICK s \in InventoryStatuses(n) : job' = [job EXCEPT ![n] = Reported(job[n], s, "done")]
  BY DEF AskInventory
<1>3. s \in Statuses /\ Holds(s, cache.nodes[n], idleAge[n])
  BY <1>1, InventoryHolds
<1> QED
  BY <1>1, <1>2, <1>3, ReportStep

LEMMA StoreStep ==
  ASSUME Accurate, NEW n \in Nodes, Store(n)
  PROVE  Accurate'
<1>1. /\ job[n].stage = "done" /\ cache.refreshing = "reading"
      /\ UNCHANGED world /\ UNCHANGED closed
      /\ cache' = [cache EXCEPT !.gpu[n] = job[n].result]
      /\ job' = [job EXCEPT ![n] = NoJob]
  BY DEF Store
<1>2. /\ MonitorTypeOK /\ job \in [Nodes -> Jobs]
      /\ cache \in Caches /\ cache.gpu \in [Nodes -> Statuses]
  BY CacheType DEF Accurate, MonitorTypeOK
<1>3. job[n].result \in Statuses /\ Holds(job[n].result, cache.nodes[n], idleAge[n])
  BY <1>1, <1>2 DEF Accurate, Told, Jobs
<1>4. /\ job' \in [Nodes -> Jobs] /\ job'[n] = NoJob
      /\ \A x \in Nodes : x # n => job'[x] = job[x]
  BY <1>1, <1>2, NoJobType
<1>5. /\ cache' \in Caches /\ cache'.nodes = cache.nodes
      /\ cache'.refreshing = cache.refreshing
      /\ cache'.gpu = [cache.gpu EXCEPT ![n] = job[n].result]
  <2>1. [cache.gpu EXCEPT ![n] = job[n].result] \in [Nodes -> Statuses]
    BY <1>2, <1>3
  <2> QED
    BY <1>1, <1>2, <2>1 DEF Caches
<1>6. MonitorTypeOK' /\ \A x \in Nodes : Recorded(x)' /\ idleAge'[x] = idleAge[x]
  BY <1>1, <1>4, <1>5, SameWorld
<1>7. \A x \in Nodes : Targeted(x)'
  <2> SUFFICES ASSUME NEW x \in Nodes PROVE Targeted(x)'
    OBVIOUS
  <2>1. cache'.refreshing = "reading" /\ cache'.nodes[x] # None
    BY <1>1, <1>5 DEF Accurate, Targeted, Refreshing
  <2>2. job'[x].stage # "none" => job'[x].target = cache.nodes[x]
    BY <1>4, NoJobType DEF Accurate, Targeted
  <2> QED
    BY <1>5, <2>1, <2>2 DEF Targeted
<1>8. \A x \in Nodes : Told(x)'
  BY <1>2, <1>3, <1>4, <1>5, <1>6, NoJobType DEF Accurate, Told
<1> QED
  BY <1>6, <1>7, <1>8 DEF Accurate

LEMMA FinishStep ==
  ASSUME Accurate, Finish
  PROVE  Accurate'
<1>1. /\ UNCHANGED world /\ UNCHANGED closed /\ cache' = Stopped(cache)
      /\ job' = [n \in Nodes |-> NoJob]
  BY DEF Finish
<1>2. MonitorTypeOK
  BY DEF Accurate
<1>3. /\ cache' \in Caches /\ cache'.nodes = cache.nodes
      /\ cache'.refreshing = "no" /\ cache'.gpu = cache.gpu
  BY <1>1, <1>2, StoppedCache
<1>4. job' \in [Nodes -> Jobs] /\ \A n \in Nodes : job'[n].stage = "none"
  BY <1>1, NoJobType
<1>5. MonitorTypeOK' /\ \A n \in Nodes : Recorded(n)' /\ idleAge'[n] = idleAge[n]
  BY <1>1, <1>3, <1>4, SameWorld
<1>6. \A n \in Nodes : Targeted(n)' /\ Told(n)'
  BY <1>3, <1>4, <1>5 DEF Accurate, Targeted, Told, Refreshing
<1> QED
  BY <1>5, <1>6 DEF Accurate

LEMMA Stepwise == Accurate /\ [MonitorNext]_monitorVars => Accurate'
<1> SUFFICES ASSUME Accurate, [MonitorNext]_monitorVars PROVE Accurate'
  OBVIOUS
<1>1. ASSUME NEW n \in Nodes, Work(n) \/ Scrape(n)
      PROVE  Accurate'
  BY <1>1, WorkStep, ScrapeStep
<1>2. CASE Tick
  BY <1>2, TickStep
<1>3. CASE CloseMonitor \/ UNCHANGED monitorVars
  BY <1>3, CloseStep
<1>4. ASSUME NEW n \in Nodes, Observe(n)
      PROVE  Accurate'
  BY <1>4, AskExporterStep, AskInventoryStep, StoreStep DEF Observe
<1>5. CASE ListSources \/ Finish
  BY <1>5, ListSourcesStep, FinishStep
<1>6. ASSUME NEW refresh \in BOOLEAN, Snapshot(refresh) \/ SnapshotFails(refresh)
      PROVE  Accurate'
  BY <1>6, SnapshotStep, SnapshotFailsStep
<1> QED
  BY <1>1, <1>2, <1>3, <1>4, <1>5, <1>6 DEF MonitorNext, Thread

\* What a request is told of an idle node.
LEMMA ShownIdle == Accurate => IdleIsTrue
<1> SUFFICES ASSUME Accurate, NEW n \in Nodes, View(n).state = "idle"
             PROVE  /\ idleAge[n] <= StaleTicks
                    /\ ~Unread(cache.nodes[n]) /\ cache.nodes[n].count = View(n).total
  BY DEF Accurate, IdleIsTrue
<1> DEFINE s == cache.gpu[n]
<1>1. s \in Statuses /\ Holds(s, cache.nodes[n], idleAge[n]) /\ idleAge[n] \in 0..Cap
  BY CacheType DEF Accurate, MonitorTypeOK, Told
<1>2. View(n) = s /\ ~Stale(s.age) /\ s.state = "idle"
  <2>1. CASE Stale(s.age) /\ s.state \notin {"not_ready", "no_gpu"}
    <3>1. View(n) = [s EXCEPT !.state = "unknown"]
      BY <2>1 DEF View
    <3>2. View(n).state = "unknown"
      BY <1>1, <3>1 DEF Statuses
    <3> QED
      BY <3>2
  <2>2. CASE ~(Stale(s.age) /\ s.state \notin {"not_ready", "no_gpu"})
    BY <2>2 DEF View
  <2> QED
    BY <2>1, <2>2
<1>3. s.age \in 0..Cap /\ idleAge[n] <= s.age /\ ~(s.age > StaleTicks)
  BY <1>1, <1>2, NotAge DEF Holds, Stale, Statuses
<1>4. idleAge[n] <= StaleTicks
  BY <1>1, <1>3, TicksAssumption, Caps
<1> QED
  BY <1>1, <1>2, <1>4 DEF Holds

(***************************************************************************)
(* Whatever the order of listings, samples and refreshes, for any nodes,    *)
(* GPUs and limits: a node shown as idle was idle within STALE_SECONDS, and *)
(* as it is listed now (snapshot, _refresh and gpu_status).                 *)
(***************************************************************************)
THEOREM IdleNodes == MonitorSpec => []IdleIsTrue
<1>1. MonitorInit => Accurate
  BY Initially
<1>2. Accurate /\ [MonitorNext]_monitorVars => Accurate'
  BY Stepwise
<1>3. Accurate => IdleIsTrue
  BY ShownIdle
<1> QED
  BY <1>1, <1>2, <1>3, PTL DEF MonitorSpec

=============================================================================
