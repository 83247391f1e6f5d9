-------------------------- MODULE Supervisor_proof --------------------------
(***************************************************************************)
(* For any number of workers an exec may give rise to: the controller of a  *)
(* run says what its worker did, and deletes the Pod only of a run whose    *)
(* evidence it holds.                                                       *)
(***************************************************************************)
EXTENDS Supervisor, TLAPS

(* The inductive invariant *)

\* The phases of the worker that holds the claim, and those in which it has
\* more to write.
Owning == {"claimed", "working", "stated", "indexed"}
Writing == {"claimed", "working", "stated"}

\* The claim excludes, and the files of the run are where its worker is.
Claimed ==
    /\ \A w \in Workers : worker[w] \in Owning => claim = w
    /\ claim = NoWorker => state = "none" /\ version = 0 /\ index = 0 /\ ~raw
    /\ claim \in Workers =>
         /\ worker[claim] \in Owning \cup {"gone"}
         /\ worker[claim] = "claimed" => state = "none" /\ version = 1
         /\ worker[claim] = "working" => state = "running" /\ version < MaxVersion
         /\ worker[claim] = "stated" => state \in Finished
         /\ worker[claim] \in Writing => index = 0
    /\ index # 0 => claim \in Workers /\ state \in Finished /\ index = version

\* Before the exec there is no worker.
Unstarted == {"start", "opened", "try", "create", "ready", "stage", "exec"}
NoneYet == at \in Unstarted => claim = NoWorker /\ \A w \in Workers : worker[w] = "none"

\* What an observation has read is still so, or was of a worker that runs.
Watched ==
    /\ view.step = "read" => claim \in Workers /\ (view.saw \in Finished => state = view.saw)
    /\ view.step \in {"dead", "lost"} => claim \in Workers /\ worker[claim] = "gone"
    /\ view.step = "lost" => ~(state \in Finished /\ index # 0)

\* A snapshot that verified is of what is indexed, and the Pod goes only after one.
Unverified == Unstarted \cup {"stream", "observe", "sync", "copy", "manifest"}
Copied ==
    /\ copy.index # 0 => copy.index = index
    /\ at \in Unverified => verified = "skipped"
    /\ verified \in {"partial", "complete"} =>
         copy.here /\ copy.index # 0 /\ copy.files = copy.index
    /\ verified = "complete" => (raw => SyncRaw)
    /\ pod = "terminating" => verified = "complete"

\* What run() knows of itself in each place.
Placed ==
    /\ at \in {"start", "opened", "try", "create"} => ~mine
    /\ at \in {"ready", "stage", "exec", "stream", "observe", "sync", "copy", "delete", "deleted"} => mine
    /\ copy.here => mine
    /\ at \in {"start", "opened"} \cup Tried => ~cancelled
    /\ at \in {"delete", "deleted"} => ~cancelled /\ verified = "complete"
    /\ at = "write" /\ Kept => failed

\* A result is the worker's, and so is a completed record.
Told ==
    /\ payload # "none" => payload = state /\ index # 0
    /\ at \in {"delete", "deleted", "write"} /\ copy.here /\ ~failed => verified \in {"partial", "complete"}
    /\ rec.status = "completed" =>
         /\ at \in {"end", "exited"} /\ payload # "none"
         /\ verified \in {"partial", "complete"}

IInv == TypeOK /\ Claimed /\ NoneYet /\ Watched /\ Copied /\ Placed /\ Told

-----------------------------------------------------------------------------
(* The steps *)

\* A result taken over.
LEMMA Taken ==
  ASSUME NEW result, Takes(result)
  PROVE  at' = "sync" /\ payload' \in {"none", "passed", "rejected"} /\ failed' \in BOOLEAN
<1>1. failed' \in BOOLEAN
  BY Zenon DEF Takes
<1> QED
  BY <1>1 DEF Takes

\* The controller up to the worker.
LEMMA PodSteps ==
  ASSUME IInv, Open \/ EnterTry \/ SourcesFail \/ RequestPod \/ PodCreated \/ CreateFails \/ Advance
         \/ StartupFails \/ Exec \/ StreamEnds
  PROVE  IInv'
<1> USE VersionAssumption, WorkersAssumption DEF IInv, TypeOK, Claimed, NoneYet, Watched, Copied,
        Placed, Told, Unstarted, Unverified, Tried, Ending, Places, Owning, Writing, Running,
        Finished, Kept, Views, Records, TERMINAL_STATUSES, CLEANUPS, INFRASTRUCTURE_STATES
<1>1. CASE Open
  BY <1>1 DEF Open, Goes, Record, workVars
<1>2. CASE EnterTry
  BY <1>2 DEF EnterTry, Goes, workVars
<1>3. CASE SourcesFail
  BY <1>3 DEF SourcesFail, Goes, workVars
<1>4. CASE RequestPod
  BY <1>4 DEF RequestPod, Goes, Record, workVars
<1>5. CASE PodCreated
  BY <1>5 DEF PodCreated, Goes, Record, workVars
<1>6. CASE CreateFails
  BY <1>6 DEF CreateFails, Goes, workVars
<1>7. CASE Advance
  BY <1>7 DEF Advance, Goes, workVars
<1>8. CASE StartupFails
  BY <1>8 DEF StartupFails, Goes, workVars
<1>9. CASE Exec
  BY <1>9 DEF Exec, Goes
<1>10. CASE StreamEnds
  BY <1>10 DEF StreamEnds, Goes, WorkersOver, workVars, Unread
<1> QED
  BY <1>1, <1>2, <1>3, <1>4, <1>5, <1>6, <1>7, <1>8, <1>9, <1>10

\* Its observations of the worker.
LEMMA WatchSteps ==
  ASSUME IInv, ObserveState \/ ObserveFinished \/ ObserveRunning \/ ObserveAgain \/ ObserveScan \/
         ObserveNothing \/ WatchFails
  PROVE  IInv'
<1> USE VersionAssumption, WorkersAssumption DEF IInv, TypeOK, Claimed, NoneYet, Watched, Copied,
        Placed, Told, Unstarted, Unverified, Tried, Ending, Places, Owning, Writing, Running,
        Finished, Kept, Views, Records, TERMINAL_STATUSES, CLEANUPS, INFRASTRUCTURE_STATES
<1>1. CASE ObserveState
  BY <1>1 DEF ObserveState, ObserveKeeps, workVars, Observing
<1>2. CASE ObserveFinished
  BY <1>2 DEF ObserveFinished, ObserveKeeps, workVars, Takes, Unread
<1>3. CASE ObserveRunning
  BY <1>3 DEF ObserveRunning, ObserveKeeps, workVars, Observing, Unread
<1>4. CASE ObserveAgain
  <2>1. TypeOK'
    <3>1. /\ at' = "sync" /\ payload' \in {"none", "passed", "rejected"}
          /\ failed' \in BOOLEAN /\ view' \in Views
      BY <1>4, Taken DEF ObserveAgain, Unread
    <3>2. ObserveKeeps
      BY <1>4 DEF ObserveAgain
    <3> QED
      BY <3>1, <3>2 DEF ObserveKeeps, workVars
  <2>2. Claimed'
    BY <1>4 DEF ObserveAgain, ObserveKeeps, workVars, Takes, Unread
  <2>3. NoneYet'
    BY <1>4 DEF ObserveAgain, ObserveKeeps, workVars, Takes, Unread
  <2>4. Watched'
    BY <1>4 DEF ObserveAgain, ObserveKeeps, workVars, Takes, Unread
  <2>5. Copied'
    BY <1>4 DEF ObserveAgain, ObserveKeeps, workVars, Takes, Unread
  <2>6. Placed'
    BY <1>4 DEF ObserveAgain, ObserveKeeps, workVars, Takes, Unread
  <2>7. Told'
    BY <1>4 DEF ObserveAgain, ObserveKeeps, workVars, Takes, Unread
  <2> QED
    BY <2>1, <2>2, <2>3, <2>4, <2>5, <2>6, <2>7
<1>5. CASE ObserveScan
  <2>1. TypeOK'
    <3>1. /\ at' \in {"observe", "sync"} /\ payload' \in {payload, "none"}
          /\ failed' \in BOOLEAN /\ view' \in Views
      <4>1. CASE view' = Unread /\ at' = "observe" /\ UNCHANGED <<failed, payload>>
        BY <4>1 DEF Unread
      <4>2. CASE view' = [step |-> "unseen", saw |-> "none"] /\ Takes("none")
        BY <4>2, Taken DEF Takes
      <4> QED
        BY <1>5, <4>1, <4>2 DEF ObserveScan, Observing
    <3>2. ObserveKeeps
      BY <1>5 DEF ObserveScan
    <3> QED
      BY <3>1, <3>2 DEF ObserveKeeps, workVars
  <2>2. Claimed'
    BY <1>5 DEF ObserveScan, ObserveKeeps, workVars, Observing, Takes, Unread
  <2>3. NoneYet'
    BY <1>5 DEF ObserveScan, ObserveKeeps, workVars, Observing, Takes, Unread
  <2>4. Watched'
    BY <1>5 DEF ObserveScan, ObserveKeeps, workVars, Observing, Takes, Unread
  <2>5. Copied'
    BY <1>5 DEF ObserveScan, ObserveKeeps, workVars, Observing, Takes, Unread
  <2>6. Placed'
    BY <1>5 DEF ObserveScan, ObserveKeeps, workVars, Observing, Takes, Unread
  <2>7. Told'
    BY <1>5 DEF ObserveScan, ObserveKeeps, workVars, Observing, Takes, Unread
  <2> QED
    BY <2>1, <2>2, <2>3, <2>4, <2>5, <2>6, <2>7
<1>6. CASE ObserveNothing
  BY <1>6 DEF ObserveNothing, ObserveKeeps, workVars, Observing, Unread
<1>7. CASE WatchFails
  BY <1>7 DEF WatchFails, Goes, workVars, Unread
<1> QED
  BY <1>1, <1>2, <1>3, <1>4, <1>5, <1>6, <1>7

\* The evidence, the Pod and the record.
LEMMA EvidenceSteps ==
  ASSUME IInv, SyncFiles \/ SyncIndex \/ SyncFails \/ Verify \/ DeletePod \/ DeleteFails \/
         WriteOutcome \/ Exit
  PROVE  IInv'
<1> USE VersionAssumption, WorkersAssumption DEF IInv, TypeOK, Claimed, NoneYet, Watched, Copied,
        Placed, Told, Unstarted, Unverified, Tried, Ending, Places, Owning, Writing, Running,
        Finished, Kept, Views, Records, TERMINAL_STATUSES, CLEANUPS, INFRASTRUCTURE_STATES
<1>1. CASE SyncFiles
  BY <1>1 DEF SyncFiles, Goes, EvidenceKeeps, workVars
<1>2. CASE SyncIndex
  <2>1. TypeOK'
    <3>1. copy' \in [files : 0..MaxVersion, index : 0..MaxVersion, here : BOOLEAN]
      BY <1>2 DEF SyncIndex
    <3>2. at' = "manifest" /\ UNCHANGED <<pod, failed, verified>> /\ EvidenceKeeps
      BY <1>2 DEF SyncIndex, Goes
    <3> QED
      BY <3>1, <3>2 DEF EvidenceKeeps, workVars
  <2>2. Claimed'
    BY <1>2 DEF SyncIndex, Goes, EvidenceKeeps, workVars
  <2>3. NoneYet'
    BY <1>2 DEF SyncIndex, Goes, EvidenceKeeps, workVars
  <2>4. Watched'
    BY <1>2 DEF SyncIndex, Goes, EvidenceKeeps, workVars
  <2>5. Copied'
    BY <1>2 DEF SyncIndex, Goes, EvidenceKeeps, workVars
  <2>6. Placed'
    BY <1>2 DEF SyncIndex, Goes, EvidenceKeeps, workVars
  <2>7. Told'
    BY <1>2 DEF SyncIndex, Goes, EvidenceKeeps, workVars
  <2> QED
    BY <2>1, <2>2, <2>3, <2>4, <2>5, <2>6, <2>7
<1>3. CASE SyncFails
  BY <1>3 DEF SyncFails, Goes, EvidenceKeeps, workVars
<1>4. CASE Verify
  BY <1>4 DEF Verify, EvidenceKeeps, workVars, Verdict, Releases
<1>5. CASE DeletePod
  BY <1>5 DEF DeletePod, Goes, EvidenceKeeps, workVars
<1>6. CASE DeleteFails
  BY <1>6 DEF DeleteFails, Goes, EvidenceKeeps, workVars
<1>7. CASE WriteOutcome
  BY <1>7 DEF WriteOutcome, Goes, Record, Outcome, workVars
<1>8. CASE Exit
  BY <1>8 DEF Exit, Goes, workVars
<1> QED
  BY <1>1, <1>2, <1>3, <1>4, <1>5, <1>6, <1>7, <1>8

\* Signals and the loss of the Pod.
LEMMA FaultSteps ==
  ASSUME IInv, Interrupt \/ InterruptEscapes \/ Killed \/ PodVanishes
  PROVE  IInv'
<1> USE VersionAssumption, WorkersAssumption DEF IInv, TypeOK, Claimed, NoneYet, Watched, Copied,
        Placed, Told, Unstarted, Unverified, Tried, Ending, Places, Owning, Writing, Running,
        Finished, Kept, Views, Records, TERMINAL_STATUSES, CLEANUPS, INFRASTRUCTURE_STATES
<1>1. CASE Interrupt
  BY <1>1 DEF Interrupt, Finally, workVars, Unread
<1>2. CASE InterruptEscapes
  BY <1>2 DEF InterruptEscapes, workVars, Unread
<1>3. CASE Killed
  BY <1>3 DEF Killed, workVars, Unread
<1>4. CASE PodVanishes
  BY <1>4 DEF PodVanishes, ctlVars
<1> QED
  BY <1>1, <1>2, <1>3, <1>4

\* The worker.
LEMMA WorkerSteps ==
  ASSUME IInv, NEW w \in Workers,
         WorkerStarts(w) \/ WorkerClaims(w) \/ WorkerIsSecond(w) \/ WorkerRuns(w) \/
         WorkerWrites(w) \/ WorkerFinishes(w) \/ WorkerIndexes(w) \/ WorkerEnds(w) \/
         WorkerDies(w)
  PROVE  IInv'
<1> USE VersionAssumption, WorkersAssumption DEF IInv, TypeOK, Claimed, NoneYet, Watched, Copied,
        Placed, Told, Unstarted, Unverified, Tried, Ending, Places, Owning, Writing, Running,
        Finished, Kept, Views, Records, TERMINAL_STATUSES, CLEANUPS, INFRASTRUCTURE_STATES
<1>1. CASE WorkerStarts(w)
  BY <1>1 DEF WorkerStarts, WorkerKeeps, ctlVars, Works
<1>2. CASE WorkerClaims(w)
  BY <1>2 DEF WorkerClaims, WorkerKeeps, ctlVars, Works
<1>3. CASE WorkerIsSecond(w)
  BY <1>3 DEF WorkerIsSecond, WorkerKeeps, ctlVars, Works
<1>4. CASE WorkerRuns(w)
  BY <1>4 DEF WorkerRuns, WorkerKeeps, ctlVars, Works
<1>5. CASE WorkerWrites(w)
  <2>1. TypeOK'
    <3>1. version' \in 0..MaxVersion /\ version' = version + 1
      BY <1>5 DEF WorkerWrites
    <3>2. raw' \in BOOLEAN
      BY <1>5 DEF WorkerWrites
    <3> QED
      BY <1>5, <3>1, <3>2 DEF WorkerWrites, WorkerKeeps, ctlVars
  <2>2. Claimed'
    BY <1>5 DEF WorkerWrites, WorkerKeeps, ctlVars
  <2>3. NoneYet'
    BY <1>5 DEF WorkerWrites, WorkerKeeps, ctlVars
  <2>4. Watched'
    BY <1>5 DEF WorkerWrites, WorkerKeeps, ctlVars
  <2>5. Copied'
    BY <1>5 DEF WorkerWrites, WorkerKeeps, ctlVars
  <2>6. Placed'
    BY <1>5 DEF WorkerWrites, WorkerKeeps, ctlVars
  <2>7. Told'
    BY <1>5 DEF WorkerWrites, WorkerKeeps, ctlVars
  <2> QED
    BY <2>1, <2>2, <2>3, <2>4, <2>5, <2>6, <2>7
<1>6. CASE WorkerFinishes(w)
  BY <1>6 DEF WorkerFinishes, WorkerKeeps, ctlVars, Works
<1>7. CASE WorkerIndexes(w)
  BY <1>7 DEF WorkerIndexes, WorkerKeeps, ctlVars, Works
<1>8. CASE WorkerEnds(w)
  BY <1>8 DEF WorkerEnds, WorkerKeeps, ctlVars, Works
<1>9. CASE WorkerDies(w)
  BY <1>9 DEF WorkerDies, WorkerKeeps, ctlVars
<1> QED
  BY <1>1, <1>2, <1>3, <1>4, <1>5, <1>6, <1>7, <1>8, <1>9

LEMMA Initially == Init => IInv
<1> SUFFICES ASSUME Init PROVE IInv
  OBVIOUS
<1>1. TypeOK
  <2>1. rec \in Records
    BY DEF Init, NoRecord, Records, CLEANUPS, INFRASTRUCTURE_STATES
  <2>2. view \in Views /\ at \in Places
    BY DEF Init, Views, Unread, Places
  <2>3. copy \in [files : 0..MaxVersion, index : 0..MaxVersion, here : BOOLEAN]
        /\ version \in 0..MaxVersion /\ index \in 0..MaxVersion
    BY VersionAssumption DEF Init
  <2> QED
    BY <2>1, <2>2, <2>3 DEF Init, TypeOK
<1>2. Claimed /\ NoneYet /\ Watched /\ Copied
  BY WorkersAssumption DEF Init, Claimed, NoneYet, Watched, Copied, Owning, Unread
<1>3. Placed /\ Told
  BY DEF Init, Placed, Told, NoRecord
<1> QED
  BY <1>1, <1>2, <1>3 DEF IInv

LEMMA Stepwise == IInv /\ [Next]_vars => IInv'
<1> SUFFICES ASSUME IInv, [Next]_vars PROVE IInv'
  OBVIOUS
<1>1. CASE ControllerNext
  BY <1>1, PodSteps, WatchSteps, EvidenceSteps DEF ControllerNext, Observe
<1>2. CASE ObserveNothing \/ WatchFails
  BY <1>2, WatchSteps
<1>3. CASE Interrupt \/ InterruptEscapes \/ Killed \/ PodVanishes
  BY <1>3, FaultSteps
<1>4. ASSUME NEW w \in Workers, WorkerStep(w) \/ WorkerDies(w)
      PROVE  IInv'
  BY <1>4, WorkerSteps DEF WorkerStep
<1>5. CASE UNCHANGED vars
  BY <1>5 DEF vars, ctlVars, workVars, IInv, TypeOK, Claimed, NoneYet, Watched, Copied, Placed, Told, Kept
<1> QED
  BY <1>1, <1>2, <1>3, <1>4, <1>5 DEF Next

LEMMA Invariance == Spec => []IInv
BY Initially, Stepwise, PTL DEF Spec

(***************************************************************************)
(* The Pod is deleted only with all evidence at hand, whatever made the     *)
(* controller stop watching its worker (remote.py:595).                     *)
(***************************************************************************)
THEOREM EvidenceSafety == Spec => []EvidenceSafe
<1>1. IInv => EvidenceSafe
  BY WorkersAssumption DEF IInv, TypeOK, Claimed, Copied, EvidenceSafe, Owning, Writing
<1> QED
  BY <1>1, Invariance, PTL

(***************************************************************************)
(* A worker is called lost, and a run completed, only if it is, over every  *)
(* interleaving of the reads with the worker's last steps.                  *)
(***************************************************************************)
THEOREM VerdictTruth == Spec => []VerdictsAreTrue
<1>1. IInv => VerdictsAreTrue
  BY WorkersAssumption DEF IInv, TypeOK, Claimed, Watched, Copied, Told, VerdictsAreTrue, LostIsTrue,
     CompletedIsWorkers, Running
<1> QED
  BY <1>1, Invariance, PTL

(***************************************************************************)
(* What is indexed does not change, however often the exec is delivered     *)
(* (remote.py:1795).                                                        *)
(***************************************************************************)
THEOREM IndexedFinality == Spec => IndexedIsFinal
<1>1. IInv /\ [Next]_vars => [index # 0 => version' = version /\ state' = state]_vars
  <2> SUFFICES ASSUME IInv, Next, index # 0
               PROVE  version' = version /\ state' = state
    BY DEF vars
  <2>1. \A w \in Workers : worker[w] \notin Writing
    BY WorkersAssumption DEF IInv, Claimed, Owning, Writing
  <2>2. claim # NoWorker
    BY WorkersAssumption DEF IInv, Claimed
  <2>3. ASSUME NEW w \in Workers, WorkerStep(w) \/ WorkerDies(w)
        PROVE  version' = version /\ state' = state
    BY <2>1, <2>2, <2>3 DEF WorkerStep, WorkerStarts, WorkerClaims, WorkerIsSecond, WorkerRuns,
       WorkerWrites, WorkerFinishes, WorkerIndexes, WorkerEnds, WorkerDies, Works, Writing
  <2>4. ASSUME ControllerNext \/ ObserveNothing \/ WatchFails \/ Interrupt \/ InterruptEscapes
               \/ Killed \/ PodVanishes
        PROVE  version' = version /\ state' = state
    BY <2>4 DEF ControllerNext, ObserveNothing, WatchFails, Interrupt, InterruptEscapes, Killed,
       PodVanishes, Open, EnterTry, SourcesFail, RequestPod, PodCreated, CreateFails, Advance,
       StartupFails, Exec, StreamEnds, Observe, ObserveState, ObserveFinished, ObserveRunning,
       ObserveAgain, ObserveScan, SyncFiles, SyncIndex, SyncFails, Verify, DeletePod, DeleteFails,
       WriteOutcome, Exit, ObserveKeeps, EvidenceKeeps, workVars
  <2> QED
    BY <2>3, <2>4 DEF Next
<1> QED
  BY <1>1, Invariance, PTL DEF Spec, IndexedIsFinal

-----------------------------------------------------------------------------
(* The refinement: what the control plane sees of a step *)

Seen == <<Ctl, rec, mine, pod>>
Step == Control("run")!ControllerStep("run")

LEMMA Framed == Control("run")!ControllerKeeps
BY DEF Control!ControllerKeeps, Control!loopVars, Control!opVars

\* The steps before there is a Pod, and until the worker is started.
LEMMA PodStepsSeen ==
  ASSUME IInv,
         Open \/ EnterTry \/ SourcesFail \/ RequestPod \/ PodCreated \/ CreateFails \/ Advance \/
         StartupFails \/ Exec \/ StreamEnds
  PROVE  Step \/ UNCHANGED Seen
<1>1. CASE Open
  <2>1. Control("run")!ControllerOpens("run")
    BY <1>1, Framed DEF Open, Goes, Record, Ctl, Control!ControllerOpens, Control!Becomes, Control!Writes
  <2> QED
    BY <2>1 DEF Step, Control!ControllerStep, Control!ControllerProgress
<1>2. CASE SourcesFail \/ StartupFails
  <2>1. Ctl \in {"preparing", "owning"} /\ Ctl' = "closing" /\ UNCHANGED <<rec, mine, pod>>
    BY <1>2 DEF SourcesFail, StartupFails, Goes, Ctl, IInv, Placed, Tried
  <2>2. Control("run")!ControllerCloses("run")
    BY <2>1, Framed DEF Control!ControllerCloses, Control!Becomes
  <2> QED
    BY <2>2 DEF Step, Control!ControllerStep, Control!ControllerProgress
<1>3. CASE RequestPod
  <2>1. Control("run")!ControllerRequestsPod("run")
    BY <1>3, Framed DEF RequestPod, Goes, Record, Ctl, Control!ControllerRequestsPod, Control!Becomes,
       Control!Writes
  <2> QED
    BY <2>1 DEF Step, Control!ControllerStep, Control!ControllerProgress
<1>4. CASE PodCreated
  <2>1. Control("run")!ControllerOwnsPod("run")
    BY <1>4, Framed DEF PodCreated, Goes, Record, Ctl, Control!ControllerOwnsPod, Control!Becomes,
       Control!Writes
  <2> QED
    BY <2>1 DEF Step, Control!ControllerStep, Control!ControllerProgress
<1>5. CASE CreateFails
  <2>1. Ctl = "creating" /\ Ctl' = "closing" /\ UNCHANGED <<rec, mine>> /\ pod' \in {"none", "live"}
    BY <1>5 DEF CreateFails, Goes, Ctl, IInv, Placed, Tried
  <2>2. Control("run")!ControllerLosesReply("run")
    BY <2>1, Framed DEF Control!ControllerLosesReply, Control!Becomes
  <2> QED
    BY <2>2 DEF Step, Control!ControllerStep, Control!ControllerProgress
<1>6. CASE EnterTry \/ Advance \/ Exec \/ StreamEnds
  BY <1>6 DEF EnterTry, Advance, Exec, StreamEnds, Goes, Ctl, Seen
<1> QED
  BY <1>1, <1>2, <1>3, <1>4, <1>5, <1>6

\* An observation is not seen, the end of the watch is.
LEMMA WatchStepsSeen ==
  ASSUME IInv,
         ObserveState \/ ObserveFinished \/ ObserveRunning \/ ObserveAgain \/ ObserveScan \/
         ObserveNothing \/ WatchFails
  PROVE  Step \/ UNCHANGED Seen
<1>1. at \in {"stream", "observe"} /\ at' \in {"observe", "sync"} /\ (at' = "observe" => at = "observe")
      /\ UNCHANGED <<rec, mine, pod, cancelled>>
  BY DEF ObserveState, ObserveFinished, ObserveRunning, ObserveAgain, ObserveScan, ObserveNothing,
     WatchFails, Takes, Observing, ObserveKeeps, Goes
<1>2. CASE at' = "observe"
  BY <1>1, <1>2 DEF Ctl, Seen
<1>3. CASE at' = "sync"
  <2>1. Ctl = "owning" /\ Ctl' = "closing"
    BY <1>1, <1>3 DEF Ctl, IInv, Placed, Tried
  <2>2. Control("run")!ControllerCloses("run")
    BY <1>1, <2>1, Framed DEF Control!ControllerCloses, Control!Becomes
  <2> QED
    BY <2>2 DEF Step, Control!ControllerStep, Control!ControllerProgress
<1> QED
  BY <1>1, <1>2, <1>3

\* The copies are not seen, nor the verdict: the Pod and the record are.
LEMMA EvidenceStepsSeen ==
  ASSUME IInv,
         SyncFiles \/ SyncIndex \/ SyncFails \/ Verify \/ DeletePod \/ DeleteFails \/
         WriteOutcome \/ Exit
  PROVE  Step \/ UNCHANGED Seen
<1>1. CASE SyncFiles \/ SyncIndex \/ SyncFails
  BY <1>1 DEF SyncFiles, SyncIndex, SyncFails, Goes, EvidenceKeeps, Ctl, Seen
<1>2. CASE Verify
  <2>1. UNCHANGED <<rec, mine, pod, cancelled>> /\ at = "manifest"
        /\ (at' = "delete" \/ (at' = "write" /\ ~Kept'))
    BY <1>2 DEF Verify, Releases, EvidenceKeeps, Kept
  <2> QED
    BY <2>1 DEF Ctl, Seen
<1>3. CASE DeletePod
  <2>1. Ctl = "closing" /\ Ctl' = "deleted" /\ mine /\ UNCHANGED <<rec, mine>>
        /\ pod = "live" /\ pod' = "terminating"
    BY <1>3 DEF DeletePod, Goes, EvidenceKeeps, Ctl, IInv, Placed
  <2>2. Control("run")!ControllerDeletesPod("run")
    BY <2>1, Framed DEF Control!ControllerDeletesPod, Control!Becomes
  <2> QED
    BY <2>2 DEF Step, Control!ControllerStep, Control!ControllerProgress
<1>4. CASE DeleteFails
  <2>1. /\ at = "delete" /\ at' = "write" /\ UNCHANGED <<rec, mine, cancelled, verified>>
        /\ pod' = pod \/ (pod = "live" /\ pod' = "terminating")
    BY <1>4 DEF DeleteFails, Goes, EvidenceKeeps
  <2>2. Kept /\ Kept'
    BY <2>1 DEF Kept, IInv, Placed
  <2>3. Ctl = "closing" /\ Ctl' = "kept" /\ mine
    BY <2>1, <2>2 DEF Ctl, Kept
  <2>4. Control("run")!ControllerDeletionFails("run")
    BY <2>1, <2>3, Framed DEF Control!ControllerDeletionFails, Control!Becomes
  <2> QED
    BY <2>4 DEF Step, Control!ControllerStep, Control!ControllerProgress
<1>5. CASE WriteOutcome
  <2>1. Ctl' = "sealed" /\ mine' = mine /\ pod' = pod
    BY <1>5 DEF WriteOutcome, Goes, Ctl
  <2>2. ASSUME at = "deleted" /\ Record(Outcome, "deleted", "pod_deleted")
       PROVE  Control("run")!ControllerSeals("run")
    <3>1. Outcome \in {"completed", "failed"} /\ Ctl = "deleted"
      BY <2>2 DEF Outcome, IInv, Placed, Ctl
    <3> QED
      BY <2>1, <2>2, <3>1, Framed DEF Record, Control!ControllerSeals, Control!Becomes, Control!Writes
  <2>3. ASSUME at = "write" /\ mine /\ Record(Outcome, "retained", "pod_retained")
       PROVE  Control("run")!ControllerSeals("run")
    <3>1. \/ Outcome = "cancelled" /\ Ctl = "stopping"
          \/ Outcome = "failed" /\ Ctl = "kept"
          \/ Outcome \in {"completed", "failed"} /\ Ctl = "closing"
      BY <2>3 DEF Outcome, IInv, Placed, Ctl, Kept
    <3> QED
      BY <2>1, <2>3, <3>1, Framed DEF Record, Control!ControllerSeals, Control!Becomes, Control!Writes
  <2>4. ASSUME at = "write" /\ ~mine /\ Record(Outcome, "not_created", "not_created")
       PROVE  Control("run")!ControllerSeals("run")
    <3>1. \/ Outcome = "cancelled" /\ Ctl = "stopping"
          \/ Outcome = "failed" /\ Ctl = "closing"
      BY <2>4 DEF Outcome, IInv, Placed, Ctl, Kept
    <3> QED
      BY <2>1, <2>4, <3>1, Framed DEF Record, Control!ControllerSeals, Control!Becomes, Control!Writes
  <2>5. Control("run")!ControllerSeals("run")
    BY <1>5, <2>2, <2>3, <2>4 DEF WriteOutcome, Goes
  <2> QED
    BY <2>5 DEF Step, Control!ControllerStep, Control!ControllerProgress
<1>6. CASE Exit
  <2>1. Control("run")!ControllerExits("run")
    BY <1>6, Framed DEF Exit, Goes, Ctl, Control!ControllerExits, Control!Becomes
  <2> QED
    BY <2>1 DEF Step, Control!ControllerStep, Control!ControllerProgress
<1> QED
  BY <1>1, <1>2, <1>3, <1>4, <1>5, <1>6

\* Signals, kills and the end of the Pod.
LEMMA FaultStepsSeen ==
  ASSUME IInv, Interrupt \/ InterruptEscapes \/ Killed \/ PodVanishes
  PROVE  Step \/ UNCHANGED Seen
<1>1. CASE Interrupt
  <2>1. /\ Ctl \in {"preparing", "creating", "owning"} /\ Ctl' = "stopping" /\ UNCHANGED <<rec, mine>>
        /\ pod' = pod \/ (Ctl = "creating" /\ pod' = "live")
    BY <1>1 DEF Interrupt, Finally, Tried, Ctl
  <2>2. Control("run")!Interrupt("run")
    BY <2>1 DEF Control!Interrupt, Control!AfterInterrupt
  <2> QED
    BY <2>2, Framed DEF Step, Control!ControllerStep
<1>2. CASE InterruptEscapes \/ Killed
  <2>1. /\ Ctl \notin {"none", "exited"} /\ Ctl' = "exited" /\ UNCHANGED <<rec, mine>>
        /\ pod' = pod \/ (Ctl = "creating" /\ pod' = "live")
    BY <1>2 DEF InterruptEscapes, Killed, Ending, Tried, Ctl, IInv, TypeOK, Places
  <2>2. Control("run")!ControllerDies("run")
    BY <2>1, Framed DEF Control!ControllerDies, Control!Live, Control!Becomes
  <2> QED
    BY <2>2 DEF Step, Control!ControllerStep
<1>3. CASE PodVanishes
  <2>1. pod \in {"terminating", "live"} /\ pod' = "gone" /\ Ctl' = Ctl /\ UNCHANGED <<rec, mine>>
    BY <1>3 DEF PodVanishes, ctlVars, Ctl, Kept
  <2>2. Control("run")!PodVanishes("run")
    BY <2>1, Framed DEF Control!PodVanishes
  <2> QED
    BY <2>2 DEF Step, Control!ControllerStep
<1> QED
  BY <1>1, <1>2, <1>3

(***************************************************************************)
(* The controller and the Pod in detail implement those of the control      *)
(* plane: what ControlPlane assumes of them is what they do.                *)
(***************************************************************************)
THEOREM ControllerIsImplemented == Spec => ImplementsController
<1>1. IInv /\ [Next]_vars =>
        [Control("run")!ControllerStep("run")]_<<Ctl, rec, mine, pod>>
  <2> SUFFICES ASSUME IInv, [Next]_vars PROVE Step \/ UNCHANGED Seen
    BY DEF Step, Seen
  <2>1. CASE ControllerNext
    BY <2>1, PodStepsSeen, WatchStepsSeen, EvidenceStepsSeen DEF ControllerNext, Observe
  <2>2. CASE ObserveNothing \/ WatchFails
    BY <2>2, WatchStepsSeen
  <2>3. CASE Interrupt \/ InterruptEscapes \/ Killed \/ PodVanishes
    BY <2>3, FaultStepsSeen
  <2>4. ASSUME (\E w \in Workers : WorkerStep(w) \/ WorkerDies(w)) \/ UNCHANGED vars
        PROVE  UNCHANGED Seen
    <3>1. UNCHANGED <<ctlVars, pod>>
      BY <2>4 DEF WorkerStep, WorkerStarts, WorkerClaims, WorkerIsSecond, WorkerRuns, WorkerWrites,
         WorkerFinishes, WorkerIndexes, WorkerEnds, WorkerDies, WorkerKeeps, vars
    <3> QED
      BY <3>1 DEF ctlVars, Seen, Ctl, Kept
  <2> QED
    BY <2>1, <2>2, <2>3, <2>4 DEF Next
<1> QED
  BY <1>1, Invariance, PTL DEF Spec, ImplementsController
=============================================================================
