----------------------------- MODULE Playground -----------------------------
(***************************************************************************)
(* The session manager of the GPU playground on one node                   *)
(* (src/euboulia/playground/manager.py), its Pods, and the worker of each  *)
(* run as the manager sees it through the exec stream.                     *)
(*                                                                         *)
(* Requests, the thread that prepares a session, the thread that executes  *)
(* a run and the one that carries its cancellation to the Pod interleave   *)
(* wherever the manager's lock is released.  Records are saved under the   *)
(* lock, so memory and disk differ only while a new server reads them.     *)
(* The server may stop or crash at any step; Pods and workers survive it.  *)
(***************************************************************************)
EXTENDS Naturals, Sequences, FiniteSets

CONSTANTS
    MaxSessions,   \* bound on the sessions ever created for the node
    MaxRuns,       \* bound on the runs ever submitted
    MaxCreated,    \* bound on both together
    Cancels,       \* the runs a user may cancel
    MaxStops,      \* bound on the times a server process ends
    MaxReleases,   \* bound on the release requests in flight for a session at once
    PipeSize,      \* frames the exec stream holds before the worker blocks
    BootMayCrash   \* a server may also end while it reads its records

ASSUME BoundsAssumption == {MaxSessions, MaxRuns, MaxCreated, MaxReleases, PipeSize} \subseteq Nat \ {0}
ASSUME UserAssumption == Cancels \subseteq 1..MaxRuns
ASSUME StopsAssumption == MaxStops \in Nat /\ BootMayCrash \in BOOLEAN

\* Session and run ids are fresh: here they are numbered in order of creation.
Sessions == 1..MaxSessions
Runs == 1..MaxRuns

VARIABLES
    server,   \* the server process
    left,     \* runs a starting server has still to look at
    hurt,     \* sessions in which it found an interrupted run
    stops,    \* server processes ended so far
    sess,     \* status of each session
    prep,     \* the _prepare thread of each session
    rel,      \* the release requests in flight for each session, by their next step
    pod,      \* the Pod of each session, in the cluster
    run,      \* the record of each run
    exe,      \* the _execute thread of each run
    stop,     \* the _cancel_remote thread of each run has work to do
    marker,   \* the cancel file of each run, in its Pod
    conn,     \* the kubectl exec of each run
    chan,     \* frames on it that the manager has not read
    wk,       \* the worker of each run
    good      \* that worker's result was "succeeded"

serverVars == <<server, left, hurt, stops>>
sessionVars == <<sess, prep, rel, pod>>
runVars == <<run, exe, stop>>
workVars == <<marker, conn, chan, wk, good>>
vars == <<serverVars, sessionVars, runVars, workVars>>

-----------------------------------------------------------------------------
(* Types *)

\* "running" stands for every phase a worker announces.
ACTIVE == {"queued", "running", "cancelling"}
\* "failed" stands for "timed_out" as well.
Results == {"succeeded", "failed", "cancelled"}
Ended == Results \cup {"interrupted"}
SessionStatuses == {"absent", "starting", "ready", "disconnected", "releasing",
                    "released", "error", "recovery_required"}

\* A session of 0 is that of a run not submitted yet.
RunRecords == [status : {"absent"} \cup ACTIVE \cup Ended, session : Sessions \cup {0}]

Frames == {"phase"} \cup Results

\* "fail" and "failed" are before and after the first of the two writes of the
\* except clause of _execute.
Threads == {"none", "start", "stream", "fail", "failed"}

TypeOK ==
    /\ server \in {"down", "booting", "up", "stopping"}
    /\ left \subseteq Runs /\ hurt \subseteq Sessions /\ stops \in 0..MaxStops
    /\ server \in {"up", "stopping"} => left = {}
    /\ sess \in [Sessions -> SessionStatuses]
    /\ prep \in [Sessions -> {"none", "create", "watch"}]
    /\ rel \in [Sessions -> [delete : 0..MaxReleases, done : 0..MaxReleases]]
    /\ \A s \in Sessions : rel[s].delete + rel[s].done <= MaxReleases
    /\ pod \in [Sessions -> {"none", "live", "terminating", "gone"}]
    /\ run \in [Runs -> RunRecords]
    /\ \A r \in Runs : run[r].status # "absent" => run[r].session \in Sessions
    /\ exe \in [Runs -> Threads]
    /\ stop \in [Runs -> BOOLEAN] /\ marker \in [Runs -> BOOLEAN] /\ good \in [Runs -> BOOLEAN]
    /\ conn \in [Runs -> {"none", "open", "zero", "closed"}]
    /\ chan \in [Runs -> Seq(Frames)] /\ \A r \in Runs : Len(chan[r]) <= PipeSize
    /\ wk \in [Runs -> {"none", "executing", "reported", "ended"}]

NoReleases == [s \in Sessions |-> [delete |-> 0, done |-> 0]]

Init ==
    /\ server = "up" /\ left = {} /\ hurt = {} /\ stops = 0
    /\ sess = [s \in Sessions |-> "absent"] /\ prep = [s \in Sessions |-> "none"]
    /\ rel = NoReleases /\ pod = [s \in Sessions |-> "none"]
    /\ run = [r \in Runs |-> [status |-> "absent", session |-> 0]]
    /\ exe = [r \in Runs |-> "none"] /\ stop = [r \in Runs |-> FALSE]
    /\ marker = [r \in Runs |-> FALSE] /\ conn = [r \in Runs |-> "none"]
    /\ chan = [r \in Runs |-> <<>>]
    /\ wk = [r \in Runs |-> "none"] /\ good = [r \in Runs |-> FALSE]

Active(r) == run[r].status \in ACTIVE
In(s) == {r \in Runs : run[r].session = s}
Busy(s) == \E r \in In(s) : Active(r)
Home(r) == run[r].session
Created ==
    Cardinality({s \in Sessions : sess[s] # "absent"})
      + Cardinality({r \in Runs : run[r].status # "absent"})
Serving == server \in {"up", "stopping"}

-----------------------------------------------------------------------------
(* Sessions *)

SessionKeeps == UNCHANGED <<serverVars, runVars, workVars>>

\* connect, with no session left on the node: a new one.
Connect(s) ==
    /\ server = "up" /\ sess[s] = "absent" /\ Created < MaxCreated
    /\ \A t \in Sessions : t # s => sess[t] \in (IF t < s THEN {"released"} ELSE {"absent"})
    /\ sess' = [sess EXCEPT ![s] = "starting"] /\ prep' = [prep EXCEPT ![s] = "create"]
    /\ UNCHANGED <<rel, pod>> /\ SessionKeeps

\* connect, to a session of an earlier server whose Pod was left idle.
Reconnect(s) ==
    /\ server = "up" /\ sess[s] = "disconnected"
    /\ sess' = [sess EXCEPT ![s] = "starting"] /\ prep' = [prep EXCEPT ![s] = "watch"]
    /\ UNCHANGED <<rel, pod>> /\ SessionKeeps

\* kubectl create: done; failed though it was done, which the inspection that
\* follows finds or does not; or failed.
PrepareCreate(s) ==
    /\ prep[s] = "create"
    /\ \/ /\ pod' = [pod EXCEPT ![s] = "live"] /\ prep' = [prep EXCEPT ![s] = "watch"]
          /\ sess' = sess
       \/ /\ pod' \in {pod, [pod EXCEPT ![s] = "live"]}
          /\ prep' = [prep EXCEPT ![s] = "none"] /\ sess' = [sess EXCEPT ![s] = "error"]
    /\ UNCHANGED rel /\ SessionKeeps

\* The container is ready and its GPUs are listed.
PrepareReady(s) ==
    /\ prep[s] = "watch" /\ pod[s] = "live"
    /\ prep' = [prep EXCEPT ![s] = "none"] /\ sess' = [sess EXCEPT ![s] = "ready"]
    /\ UNCHANGED <<rel, pod>> /\ SessionKeeps

\* Slip: only a Pod that is gone ends the wait.
PrepareFailsOnLoss(s) ==
    /\ prep[s] = "watch" /\ pod[s] = "gone"
    /\ prep' = [prep EXCEPT ![s] = "none"] /\ sess' = [sess EXCEPT ![s] = "error"]
    /\ UNCHANGED <<rel, pod>> /\ SessionKeeps

\* The startup timeout, a Pod that exited or is gone, a failed call, a server
\* that stops.
PrepareFails(s) ==
    /\ prep[s] = "watch"
    /\ prep' = [prep EXCEPT ![s] = "none"] /\ sess' = [sess EXCEPT ![s] = "error"]
    /\ UNCHANGED <<rel, pod>> /\ SessionKeeps

\* release checks and claims the session under the lock; a second request gets
\* there too, if a run has put the session into recovery since ...
ReleaseBegin(s) ==
    /\ Serving /\ sess[s] \in {"ready", "disconnected", "error", "recovery_required"}
    /\ ~Busy(s) /\ rel[s].delete + rel[s].done < MaxReleases
    /\ sess' = [sess EXCEPT ![s] = "releasing"] /\ rel' = [rel EXCEPT ![s].delete = @ + 1]
    /\ UNCHANGED <<prep, pod>> /\ SessionKeeps

\* ... deletes the Pod without it, if there is one; the call may fail with the
\* deletion accepted or not ...
ReleaseDelete(s) ==
    LET deleted == [pod EXCEPT ![s] = IF @ = "live" THEN "terminating" ELSE @]
    IN  /\ rel[s].delete > 0
        /\ \/ /\ pod' = deleted /\ sess' = sess
              /\ rel' = [rel EXCEPT ![s] = [delete |-> @.delete - 1, done |-> @.done + 1]]
           \/ /\ pod' \in {pod, deleted} /\ sess' = [sess EXCEPT ![s] = "error"]
              /\ rel' = [rel EXCEPT ![s] = [delete |-> @.delete - 1, done |-> @.done]]
        /\ UNCHANGED prep /\ SessionKeeps

\* ... and records the release.
ReleaseDone(s) ==
    /\ rel[s].done > 0
    /\ rel' = [rel EXCEPT ![s].done = @ - 1] /\ sess' = [sess EXCEPT ![s] = "released"]
    /\ UNCHANGED <<prep, pod>> /\ SessionKeeps

-----------------------------------------------------------------------------
(* Runs: requests *)

RunKeeps == UNCHANGED <<serverVars, prep, rel, pod>>

Submitted(r, s) ==
    /\ run[r].status = "absent" /\ \A q \in 1..(r - 1) : run[q].status # "absent"
    /\ Created < MaxCreated
    /\ run' = [run EXCEPT ![r] = [status |-> "queued", session |-> s]]
    /\ exe' = [exe EXCEPT ![r] = "start"]

\* submit, under the lock.
Submit(r, s) ==
    /\ server = "up" /\ sess[s] = "ready" /\ ~Busy(s) /\ Submitted(r, s)
    /\ UNCHANGED <<sess, stop, workVars>> /\ RunKeeps

Cancelling(rs) ==
    /\ run' = [r \in Runs |-> IF r \in rs THEN [run[r] EXCEPT !.status = "cancelling"] ELSE run[r]]
    /\ stop' = [r \in Runs |-> r \in rs \/ stop[r]]

\* Slip: a run can be cancelled at any time.
CancellableEver == {r \in Runs : run[r].status \notin {"absent", "cancelling"}}

Cancellable == {r \in Runs : Active(r) /\ run[r].status # "cancelling"}

\* cancel, under the lock.
Cancel(r) ==
    /\ Serving /\ r \in Cancels \cap Cancellable
    /\ Cancelling({r})
    /\ UNCHANGED <<sess, exe, workVars>> /\ RunKeeps

\* _cancel_remote creates the marker in the Pod, or cannot; it never tries again.
\* Nobody looks for a marker once the worker has ended.
CancelRemote(r) ==
    /\ stop[r] /\ stop' = [stop EXCEPT ![r] = FALSE]
    /\ \/ marker' = marker
       \/ /\ pod[Home(r)] \in {"live", "terminating"}
          /\ marker' = [marker EXCEPT ![r] = (wk[r] # "ended")]
    /\ UNCHANGED <<sess, run, exe, conn, chan, wk, good>> /\ RunKeeps

-----------------------------------------------------------------------------
(* Runs: the thread that executes one *)

ThreadGoes(r, from, to) == exe[r] = from /\ exe' = [exe EXCEPT ![r] = to]

\* A "result" event, from the worker or made up by the manager.
Result(r, status) == run' = [run EXCEPT ![r].status = status]

\* The transport and the Pod are inspected; a run cancelled by now ends here, with
\* no worker; else Popen of kubectl exec.
ExecStart(r) ==
    /\ exe[r] = "start"
    /\ \/ ThreadGoes(r, "start", "fail") /\ UNCHANGED <<run, conn>>
       \/ /\ run[r].status = "cancelling" /\ pod[Home(r)] \in {"live", "terminating"}
          /\ ThreadGoes(r, "start", "none") /\ Result(r, "cancelled") /\ conn' = conn
       \/ /\ run[r].status # "cancelling" /\ pod[Home(r)] \in {"live", "terminating"}
          /\ ThreadGoes(r, "start", "stream") /\ conn' = [conn EXCEPT ![r] = "open"] /\ run' = run
    /\ UNCHANGED <<sess, stop, marker, chan, wk, good>> /\ RunKeeps

\* While the stream is open: the result was seen (result_seen), and acknowledged.
Acked(r) == run[r].status \in Ended

\* _event, for the next frame on the stream.
ExecRead(r) ==
    LET frame == Head(chan[r])
    IN  /\ exe[r] = "stream" /\ chan[r] # <<>>
        /\ chan' = [chan EXCEPT ![r] = Tail(@)]
        /\ \/ /\ frame = "phase"
              /\ run' = IF run[r].status = "cancelling" THEN run
                        ELSE [run EXCEPT ![r].status = "running"]
           \/ frame \in Results /\ Result(r, frame)
        /\ UNCHANGED <<sess, exe, stop, marker, conn, wk, good>> /\ RunKeeps

\* The finally clause: kubectl is gone, and what it still held is lost.
HangUp(r) ==
    /\ conn' = [conn EXCEPT ![r] = IF @ = "none" THEN @ ELSE "closed"]
    /\ wk' = [wk EXCEPT ![r] = IF @ = "reported" THEN "ended" ELSE @]
    /\ chan' = [chan EXCEPT ![r] = <<>>]

\* kubectl has exited and the stream is read to its end: done, if it exited with
\* 0 after the result.
ExecDone(r) ==
    /\ chan[r] = <<>> /\ conn[r] = "zero" /\ Acked(r)
    /\ ThreadGoes(r, "stream", "none") /\ HangUp(r)
    /\ UNCHANGED <<sess, run, stop, marker, good>> /\ RunKeeps

\* Slip: a stream that ends is a run that ends well.
ExecEndsWell(r) ==
    /\ chan[r] = <<>> /\ conn[r] # "open" /\ ~Acked(r)
    /\ ThreadGoes(r, "stream", "none") /\ Result(r, "succeeded")
    /\ UNCHANGED <<sess, stop, workVars>> /\ RunKeeps

\* Otherwise the run has failed.
ExecEnds(r) ==
    /\ chan[r] = <<>>
    /\ conn[r] = "closed" \/ (conn[r] = "zero" /\ ~Acked(r))
    /\ ThreadGoes(r, "stream", "fail")
    /\ UNCHANGED <<sess, run, stop, workVars>> /\ RunKeeps

\* The deadline of the transport, or a frame that _event or the reader refuses.
ExecGivesUp(r) ==
    /\ ThreadGoes(r, "stream", "fail")
    /\ UNCHANGED <<sess, run, stop, workVars>> /\ RunKeeps

\* Slip: the run fails, its session is not touched.
ExecFailRunOnly(r) ==
    /\ ThreadGoes(r, "fail", "failed") /\ Result(r, "failed")
    /\ UNCHANGED <<sess, stop, workVars>> /\ RunKeeps

\* The except clause: the session needs recovery ...
ExecFail(r) ==
    /\ ThreadGoes(r, "fail", "failed")
    /\ sess' = [sess EXCEPT ![Home(r)] = "recovery_required"]
    /\ UNCHANGED <<run, stop, workVars>> /\ RunKeeps

\* ... the run has failed, whatever it was before; then the finally clause.
ExecFailed(r) ==
    /\ ThreadGoes(r, "failed", "none") /\ Result(r, "failed") /\ HangUp(r)
    /\ UNCHANGED <<sess, stop, marker, good>> /\ RunKeeps

ExecStep(r) ==
    \/ ExecStart(r) \/ ExecRead(r) \/ ExecDone(r) \/ ExecEnds(r)
    \/ ExecFail(r) \/ ExecFailed(r)

-----------------------------------------------------------------------------
(* The worker of a run and the exec stream (worker.py, as the manager sees it) *)

WorkerKeeps == UNCHANGED <<serverVars, sessionVars, runVars, marker>>

\* It starts when the request has reached it.
WorkerStarts(r) ==
    /\ conn[r] = "open" /\ wk[r] = "none" /\ pod[Home(r)] \in {"live", "terminating"}
    /\ wk' = [wk EXCEPT ![r] = "executing"]
    /\ UNCHANGED <<conn, chan, good>> /\ WorkerKeeps

Room(r) == conn[r] = "open" /\ Len(chan[r]) < PipeSize

\* It announces its next phase.
WorkerEmits(r) ==
    /\ wk[r] = "executing" /\ Room(r) /\ chan' = [chan EXCEPT ![r] = Append(@, "phase")]
    /\ UNCHANGED <<conn, wk, good>> /\ WorkerKeeps

\* Its result is its last frame but for the acknowledgement; by then it has
\* killed the process group it ran.
WorkerReports(r) ==
    /\ wk[r] = "executing" /\ Room(r)
    /\ \E result \in Results :
         /\ result = "cancelled" => marker[r]
         /\ chan' = [chan EXCEPT ![r] = Append(@, result)]
         /\ good' = [good EXCEPT ![r] = (result = "succeeded")]
    /\ wk' = [wk EXCEPT ![r] = "reported"]
    /\ UNCHANGED conn /\ WorkerKeeps

\* It exits: acknowledged, or with an error after 30 seconds.
WorkerExits(r) ==
    /\ wk[r] = "reported" /\ wk' = [wk EXCEPT ![r] = "ended"]
    /\ conn' = [conn EXCEPT ![r] = IF Acked(r) THEN "zero" ELSE "closed"]
    /\ UNCHANGED <<chan, good>> /\ WorkerKeeps

\* It writes to a stream that is gone, meets its own deadline with nobody to tell,
\* or is killed.
WorkerIsCutOff(r) ==
    /\ wk[r] \in {"executing", "reported"}
    /\ wk' = [wk EXCEPT ![r] = "ended"] /\ conn' = [conn EXCEPT ![r] = "closed"]
    /\ UNCHANGED <<chan, good>> /\ WorkerKeeps

\* The streams of some runs close; a worker that waits for its acknowledgement
\* meets the end of its input.
Closes(rs) ==
    /\ conn' = [r \in Runs |-> IF r \in rs /\ conn[r] = "open" THEN "closed" ELSE conn[r]]
    /\ wk' = [r \in Runs |-> IF r \in rs /\ wk[r] = "reported" THEN "ended" ELSE wk[r]]

\* The connection breaks; kubectl has read a part of what is on it.
ConnectionBreaks(r) ==
    /\ conn[r] = "open" /\ Closes({r})
    /\ \E n \in 0..Len(chan[r]) : chan' = [chan EXCEPT ![r] = SubSeq(@, 1, n)]
    /\ UNCHANGED good /\ WorkerKeeps

\* A Pod terminates, or is lost: its workers end, and the streams to them.
PodVanishes(s) ==
    /\ pod[s] \in {"live", "terminating"} /\ pod' = [pod EXCEPT ![s] = "gone"]
    /\ wk' = [r \in Runs |-> IF r \in In(s) /\ wk[r] # "none" THEN "ended" ELSE wk[r]]
    /\ conn' = [r \in Runs |-> IF r \in In(s) /\ conn[r] = "open" THEN "closed" ELSE conn[r]]
    /\ UNCHANGED <<serverVars, sess, prep, rel, runVars, marker, chan, good>>

-----------------------------------------------------------------------------
(* The server process *)

\* close: no new work, every active run is cancelled; the process ends when the
\* threads have, or after 50 seconds.
Close ==
    /\ server = "up" /\ server' = "stopping"
    /\ Cancelling(Cancellable)
    /\ UNCHANGED <<left, hurt, stops, sessionVars, exe, workVars>>

\* The process ends, after close or in a crash: its threads and their kubectl do.
ServerEnds ==
    /\ stops < MaxStops /\ stops' = stops + 1 /\ server # "down" /\ (server = "booting" => BootMayCrash)
    /\ server' = "down" /\ left' = {} /\ hurt' = {}
    /\ prep' = [s \in Sessions |-> "none"] /\ rel' = NoReleases
    /\ exe' = [r \in Runs |-> "none"] /\ stop' = [r \in Runs |-> FALSE]
    /\ Closes(Runs) /\ chan' = [r \in Runs |-> <<>>]
    /\ UNCHANGED <<sess, pod, run, marker, good>>

\* Manager.__init__ of the next one reads the runs ...
Boot ==
    /\ server = "down" /\ server' = "booting"
    /\ left' = {r \in Runs : Active(r)} /\ hurt' = {}
    /\ UNCHANGED <<stops, sessionVars, runVars, workVars>>

\* ... and writes each that was active as interrupted ...
BootRun(r) ==
    /\ r \in left /\ left' = left \ {r}
    /\ hurt' = hurt \cup {Home(r)} /\ Result(r, "interrupted")
    /\ UNCHANGED <<server, stops, sessionVars, exe, stop, workVars>>

Adopted(s) ==
    IF s \in hurt THEN "recovery_required"
    ELSE CASE sess[s] \in {"absent", "released"}    -> sess[s]
           [] sess[s] \in {"ready", "disconnected"} -> "disconnected"
           [] OTHER                                 -> "recovery_required"

\* ... and only then writes the sessions.
BootSessions ==
    /\ server = "booting" /\ left = {}
    /\ server' = "up" /\ hurt' = {} /\ left' = left
    /\ sess' = [s \in Sessions |-> Adopted(s)]
    /\ UNCHANGED <<stops, prep, rel, pod, runVars, workVars>>

SessionNext(s) ==
    \/ Connect(s) \/ Reconnect(s) \/ PrepareCreate(s) \/ PrepareReady(s) \/ PrepareFails(s)
    \/ ReleaseBegin(s) \/ ReleaseDelete(s) \/ ReleaseDone(s) \/ PodVanishes(s)

RunNext(r) ==
    \/ Cancel(r) \/ CancelRemote(r) \/ ExecStep(r) \/ ExecGivesUp(r)
    \/ WorkerStarts(r) \/ WorkerEmits(r) \/ WorkerReports(r) \/ WorkerExits(r)
    \/ WorkerIsCutOff(r) \/ ConnectionBreaks(r) \/ BootRun(r)

Next ==
    \/ \E s \in Sessions : SessionNext(s) \/ \E r \in Runs : Submit(r, s)
    \/ \E r \in Runs : RunNext(r)
    \/ Close \/ ServerEnds \/ Boot \/ BootSessions

Spec == Init /\ [][Next]_vars

-----------------------------------------------------------------------------
(* Fairness.  Threads go on; the deadlines of _prepare and of the transport *)
(* come; a server that ended is started again.  A worker sends finitely     *)
(* many frames within the deadlines of its request, so that in the end it   *)
(* reports or is cut off.  Users, crashes and the cluster owe nothing.      *)

WorkerProgress(r) ==
    \/ WorkerReports(r) \/ WorkerExits(r)
    \/ WorkerIsCutOff(r) /\ conn[r] # "open"

SessionProgress(s) == PrepareCreate(s) \/ PrepareFails(s) \/ ReleaseDelete(s) \/ ReleaseDone(s)

BootNext == Boot \/ BootSessions \/ \E r \in Runs : BootRun(r)

Fairness ==
    /\ WF_vars(BootNext)
    /\ \A s \in Sessions : WF_vars(SessionProgress(s))
    /\ \A r \in Runs : WF_vars(ExecStep(r) \/ ExecGivesUp(r)) /\ SF_vars(WorkerProgress(r))

LiveSpec == Spec /\ Fairness

-----------------------------------------------------------------------------
(* Safety *)

\* docs/playground.md: one active run per session; recovery, cancellation and late
\* frames do not bring a second one to life (manager.py:358).
OneActiveRun == \A s \in Sessions : Cardinality({r \in In(s) : Active(r)}) <= 1

\* No worker of an earlier run executes in the Pod of a session that would accept
\* the next run: a run ends only with its worker, or after its session needs
\* recovery (manager.py:668).
QuietWhenReady ==
    Serving => \A s \in Sessions : sess[s] = "ready" /\ ~Busy(s) =>
                   \A r \in In(s) : wk[r] # "executing"

\* A broken stream, a timeout or a cancellation is never reported as success
\* (docs/playground.md:245): a run that succeeded has a worker that said so.
SuccessIsWorkers == \A r \in Runs : run[r].status = "succeeded" => good[r]

\* A released session has no running Pod, also when the create call or the delete
\* call failed on the way (manager.py:301).
ReleasedHasNoPod == \A s \in Sessions : sess[s] = "released" => pod[s] # "live"

\* The node has at most one running Pod of the playground, over all releases,
\* failures and restarts: a new session waits for the end of the last
\* (manager.py:191).
OneLivePod == Cardinality({s \in Sessions : pod[s] = "live"}) <= 1

\* Together: however runs, releases, failures and restarts of the server meet, a
\* session runs one thing at a time, in a Pod of its own that is not forgotten.
SessionsAreSafe ==
    TypeOK /\ OneActiveRun /\ QuietWhenReady /\ ReleasedHasNoPod /\ OneLivePod

\* The outcome of a run changes only if its stream fails after the result, and
\* then to failed: no late frame, cancellation or restart touches a run that
\* ended (manager.py:480, 699).
OutcomeOnlyFails ==
    \A r \in Runs : run[r].status \in Ended =>
        run'[r].status = run[r].status \/ (run'[r].status = "failed" /\ exe[r] = "failed")

\* A session released or in recovery never accepts runs again, whatever a late
\* thread or a restart writes into it (manager.py:108, 682).
RetiredForGood ==
    \A s \in Sessions : sess[s] \in {"released", "recovery_required"} =>
        sess'[s] \notin {"starting", "ready", "disconnected"}

\* Together: what has ended stays as it ended, for runs and for sessions.
EndsAreFinal == [][OutcomeOnlyFails /\ RetiredForGood]_vars

-----------------------------------------------------------------------------
(* Liveness *)

\* Every run ends: whatever becomes of its worker, of the stream and of the
\* server, a session is not kept busy for ever (manager.py:626).
RunEnds == \A r \in Runs : Active(r) ~> ~Active(r)

\* A session does not stay in a state in which it can neither run nor be released
\* (manager.py:260, 294).
SessionSettles ==
    \A s \in Sessions : sess[s] \in {"starting", "releasing"} ~>
        sess[s] \notin {"starting", "releasing"}

\* Together: every run and every operation on a session comes to its end.
WorkEnds == RunEnds /\ SessionSettles

-----------------------------------------------------------------------------
(* What the repository says, and a run refutes *)

\* manager.py:105: "Never silently resume a Pod or worker after controller
\* interruption."  A session whose worker still executes is not reconnected.
NeverResumed ==
    [][\A s \in Sessions : sess[s] = "disconnected" /\ sess'[s] = "starting" =>
          \A r \in In(s) : wk[r] # "executing"]_vars

=============================================================================
