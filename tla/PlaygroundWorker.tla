-------------------------- MODULE PlaygroundWorker --------------------------
(***************************************************************************)
(* The workers of one playground session inside its Pod                     *)
(* (src/euboulia/playground/worker.py).  A worker prepares the environment  *)
(* it shares with the others, runs a script or profiles it in a process     *)
(* group of its own, and writes one result.  Two of them meet when a server *)
(* that was killed leaves its worker behind.  Each one may be cancelled,    *)
(* overtaken by a deadline or cut from the server at any step, and what it  *)
(* asks of the disk or of a child may fail.                                 *)
(***************************************************************************)
EXTENDS Naturals

CONSTANTS
    Workers,        \* the workers, one per run
    Mode,           \* the mode of each one's request
    Packages,       \* whether the profile names packages to install
    None            \* no value

ASSUME ModeAssumption == Mode \in [Workers -> {"run", "ncu", "nsys"}] /\ Packages \in BOOLEAN
ASSUME NoneAssumption == None \notin Workers

VARIABLES
    work,           \* per worker where it is, its stream, its child and what it found
    venv,           \* the directory venvs/<key>
    marker,         \* .ready.json in it
    lock            \* who holds venvs/<key>.lock

vars == <<work, venv, marker, lock>>
disk == <<venv, marker>>

\* The commands run in a process group under a deadline, Worker.command.
Commands == {"verify", "venv", "pip", "target", "capture", "export"}
Phases == Commands \cup {"new", "lock", "probe", "sites", "marker", "read", "which",
                         "result", "ack", "ended"}
Stops == {"cancelled", "timed_out"}
Verdicts == {"succeeded", "failed", "broken"} \cup Stops

\* The reports a profiler exports.
Exports(w) == IF Mode[w] = "ncu" THEN 2 ELSE 1

\* "away" tells of descendants that left the group and hold the pipes; what is
\* left in the group does not outlive the command.
Walk ==
    [pc : Phases, cancelled : BOOLEAN, stream : {"open", "acknowledged", "broken"},
     late : BOOLEAN, child : {"none", "running", "exited"}, away : BOOLEAN, code : {0, 1},
     stopping : Stops \cup {None}, captured : {0, 1}, exported : 0..2, ok : BOOLEAN,
     verdict : Verdicts \cup {None}, exits : SUBSET (Commands \X (0..2) \X {0, 1})]

TypeOK ==
    /\ work \in [Workers -> Walk]
    /\ venv \in {"none", "torn", "bare", "whole"} /\ marker \in {"none", "torn", "whole"}
    /\ lock \in Workers \cup {None}

\* "cancelled" is the file of that name in run_dir, "late" whether the deadline
\* that counts now has passed, "exits" the codes the commands ended with
\* (history, kept for a result that claims success).
Bare(phase, stream, verdict, exits) ==
    [pc |-> phase, cancelled |-> FALSE, stream |-> stream, late |-> FALSE,
     child |-> "none", away |-> FALSE, code |-> 0, stopping |-> None,
     captured |-> 0, exported |-> 0, ok |-> TRUE, verdict |-> verdict, exits |-> exits]

Fresh == Bare("new", "open", None, {})

Init ==
    /\ work = [w \in Workers |-> Fresh]
    /\ venv = "none" /\ marker = "none" /\ lock = None

-----------------------------------------------------------------------------
At(w, phase) == work[w].pc = phase
Go(w, phase) ==
    work' = [work EXCEPT ![w].pc = phase, ![w].child = "none", ![w].away = FALSE,
                         ![w].code = 0]

\* To a phase with a deadline of its own.
GoAfresh(w, phase) ==
    work' = [work EXCEPT ![w].pc = phase, ![w].child = "none", ![w].away = FALSE,
                         ![w].code = 0, ![w].late = FALSE]

\* How execute ends: its command kills the group and waits for the process, the
\* lock is given back on the way out.
Leave(w, verdict) ==
    /\ work' = [work EXCEPT ![w] = Bare("result", work[w].stream, verdict,
                    IF verdict = "succeeded" THEN work[w].exits ELSE {})]
    /\ lock' = IF lock = w THEN None ELSE lock

End(w) == work' = [work EXCEPT ![w] = Bare("ended", "open", None, {})]

\* Worker.check.
Stop(w) == IF work[w].cancelled THEN "cancelled" ELSE IF work[w].late THEN "timed_out" ELSE None

-----------------------------------------------------------------------------
(* What surrounds a worker. *)

Started(w) == work[w].pc \notin {"new", "ended"}
Executes(w) == Started(w) /\ work[w].pc \notin {"result", "ack"}

Cancel(w) ==
    /\ Executes(w) /\ ~work[w].cancelled
    /\ work' = [work EXCEPT ![w].cancelled = TRUE]
    /\ UNCHANGED <<disk, lock>>

Expire(w) ==
    /\ Executes(w) \/ At(w, "ack")
    /\ ~work[w].late
    /\ work' = [work EXCEPT ![w].late = TRUE]
    /\ UNCHANGED <<disk, lock>>

\* The stream breaks with the server, or the server has read the result.
StreamEnds(w) ==
    /\ Started(w) /\ work[w].stream = "open"
    /\ work' = [work EXCEPT ![w].stream = IF At(w, "ack") THEN "acknowledged" ELSE "broken"]
    /\ UNCHANGED <<disk, lock>>

\* The process of a command ends; its descendants may go on.
ChildExits(w) ==
    /\ work[w].child = "running"
    /\ \E code \in {0, 1}, away \in BOOLEAN :
         /\ work' = [work EXCEPT ![w].child = "exited", ![w].code = code, ![w].away = away,
                ![w].exits = @ \cup {<<work[w].pc, work[w].exported, code>>}]
         /\ venv' = IF code # 0 THEN venv
                    ELSE CASE At(w, "venv") -> IF Packages THEN "bare" ELSE "whole"
                           [] At(w, "pip") -> "whole"
                           [] OTHER -> venv
    /\ UNCHANGED <<marker, lock>>

-----------------------------------------------------------------------------
(* Worker.command: a loop of polls while the pipes are open. *)

Spawn(w) ==
    /\ work[w].pc \in Commands /\ work[w].child = "none"
    /\ IF Stop(w) # None THEN Leave(w, Stop(w)) /\ UNCHANGED venv
       ELSE \/ /\ work' = [work EXCEPT ![w].child = "running"]
               /\ venv' = IF work[w].pc \in {"venv", "pip"} THEN "torn" ELSE venv
               /\ UNCHANGED lock
            \/ Leave(w, "failed") /\ UNCHANGED venv
    /\ UNCHANGED marker

\* Slip: the deadline is checked only while the process runs.
PollRunning(w) ==
    /\ work[w].child = "running" /\ Stop(w) # None /\ Leave(w, Stop(w))
    /\ UNCHANGED disk

\* A capture is interrupted and has a grace period to write its report; other
\* commands, and a capture that used it up, are killed.
Poll(w) ==
    /\ work[w].child # "none"
    /\ IF At(w, "capture") /\ work[w].stopping = None
       THEN /\ Stop(w) # None
            /\ work' = [work EXCEPT ![w].stopping = Stop(w), ![w].late = FALSE]
            /\ UNCHANGED lock
       ELSE \/ At(w, "capture") /\ work[w].late /\ Leave(w, work[w].stopping)
            \/ ~At(w, "capture") /\ Stop(w) # None /\ Leave(w, Stop(w))
    /\ UNCHANGED disk

\* The loop ends with the process and the pipes; it kills what is left of the
\* group, and cannot reach what left it.
Returned(w, phase) == At(w, phase) /\ work[w].child = "exited" /\ ~work[w].away

Then(w, phase, next) ==
    /\ Returned(w, phase)
    /\ IF work[w].code = 0 THEN Go(w, next) /\ UNCHANGED lock ELSE Leave(w, "failed")
    /\ UNCHANGED disk

\* A write to a broken stream raises BrokenPipeError; whatever else may fail does.
Raise(w) ==
    /\ Executes(w)
    /\ Leave(w, IF work[w].stream = "broken" THEN "broken" ELSE "failed")
    /\ UNCHANGED disk

-----------------------------------------------------------------------------
(* Worker.execute: the environment. *)

\* The constructor makes run_dir, outside of what turns an exception into a result.
Begin(w) ==
    /\ At(w, "new")
    /\ \/ Go(w, "verify") \/ End(w)
    /\ UNCHANGED <<disk, lock>>

\* Slip: the lock does not exclude another worker.
TakeLockShared(w) ==
    /\ At(w, "lock")
    /\ IF Stop(w) # None THEN Leave(w, Stop(w)) ELSE Go(w, "probe") /\ lock' = w
    /\ UNCHANGED disk

TakeLock(w) ==
    /\ At(w, "lock")
    /\ IF Stop(w) # None THEN Leave(w, Stop(w))
       ELSE lock = None /\ Go(w, "probe") /\ lock' = w
    /\ UNCHANGED disk

\* An environment without the marker is removed.
Probe(w) ==
    /\ At(w, "probe")
    /\ IF marker # "none" THEN Go(w, "read") /\ UNCHANGED <<disk, lock>>
       ELSE \/ Go(w, "venv") /\ venv' = "none" /\ UNCHANGED <<marker, lock>>
            \/ venv # "none" /\ Leave(w, "failed") /\ venv' = "torn" /\ UNCHANGED marker

\* The site directories of the image are added to the new environment.
Sites(w) ==
    /\ At(w, "sites")
    /\ Go(w, IF Packages THEN "pip" ELSE "marker")
    /\ UNCHANGED <<disk, lock>>

\* The versions are read, and the marker is written in place.
Mark(w) ==
    /\ At(w, "marker")
    /\ \/ Go(w, "read") /\ marker' = "whole" /\ UNCHANGED lock
       \/ Leave(w, "failed") /\ marker' \in {"none", "torn"}
    /\ UNCHANGED venv

\* A marker that is not JSON fails the run.  The lock is given back here.
Read(w) ==
    /\ At(w, "read")
    /\ IF marker = "whole"
       THEN /\ GoAfresh(w, IF Mode[w] = "run" THEN "target" ELSE "which")
            /\ lock' = None
       ELSE Leave(w, "failed")
    /\ UNCHANGED disk

-----------------------------------------------------------------------------
(* The script, or Worker.profile_command. *)

TargetEnds(w) ==
    /\ Returned(w, "target")
    /\ Leave(w, IF work[w].code = 0 THEN "succeeded" ELSE "failed")
    /\ UNCHANGED disk

Which(w) ==
    /\ At(w, "which") /\ GoAfresh(w, "capture")
    /\ UNCHANGED <<disk, lock>>

CaptureEnds(w) ==
    /\ Returned(w, "capture")
    /\ \/ work[w].stopping # None /\ Leave(w, work[w].stopping)
       \/ work[w].stopping = None /\ Leave(w, "failed")          \* no report was left
       \/ /\ work[w].stopping = None
          /\ work' = [work EXCEPT ![w].pc = "export", ![w].child = "none", ![w].away = FALSE,
                                  ![w].late = FALSE, ![w].code = 0,
                                  ![w].captured = work[w].code]
          /\ UNCHANGED lock
    /\ UNCHANGED disk

Exported(w, ok) ==
    /\ IF work[w].exported + 1 < Exports(w)
       THEN /\ work' = [work EXCEPT ![w].exported = @ + 1, ![w].ok = ok, ![w].late = FALSE,
                                    ![w].code = 0, ![w].child = "none", ![w].away = FALSE]
            /\ UNCHANGED lock
       ELSE Leave(w, IF work[w].captured = 0 /\ ok THEN "succeeded" ELSE "failed")
    /\ UNCHANGED disk

\* Slip: the last export tells whether the exports succeeded.
ExportEndsLast(w) == Returned(w, "export") /\ Exported(w, work[w].code = 0)

ExportEnds(w) == Returned(w, "export") /\ Exported(w, work[w].ok /\ work[w].code = 0)

-----------------------------------------------------------------------------
(* main *)

Result(w) ==
    /\ At(w, "result")
    /\ IF work[w].stream = "broken" \/ work[w].verdict = "broken"
       THEN End(w)
       ELSE GoAfresh(w, "ack")
    /\ UNCHANGED <<disk, lock>>

WaitForAck(w) ==
    /\ At(w, "ack") /\ (work[w].late \/ work[w].stream # "open")
    /\ End(w)
    /\ UNCHANGED <<disk, lock>>

-----------------------------------------------------------------------------
Command(w) ==
    \/ Spawn(w) \/ Poll(w)
    \/ Then(w, "verify", "lock") \/ Then(w, "venv", "sites") \/ Then(w, "pip", "marker")
    \/ TargetEnds(w) \/ CaptureEnds(w) \/ ExportEnds(w)

Step(w) ==
    \/ Command(w) \/ TakeLock(w) \/ Probe(w) \/ Sites(w) \/ Mark(w) \/ Read(w) \/ Which(w)
    \/ Result(w) \/ WaitForAck(w)

Around(w) == Cancel(w) \/ StreamEnds(w) \/ ChildExits(w) \/ Raise(w) \/ Begin(w)

Next == \E w \in Workers : Step(w) \/ Expire(w) \/ Around(w)

\* The worker is scheduled and time passes.  A child need not end.
Fairness == \A w \in Workers : WF_vars(Step(w)) /\ WF_vars(Expire(w))

Spec == Init /\ [][Next]_vars /\ Fairness

-----------------------------------------------------------------------------
(* Properties *)

\* A script or a profiler runs only in an environment that is complete and that no
\* worker removes or rebuilds under it, though another worker came from a server
\* that was killed and though setups fail at every step (docs/playground.md:206,
\* "an environment lock prevents competing installers").
EnvironmentIsWhole ==
    /\ TypeOK
    /\ \A w \in Workers : work[w].pc \in {"target", "which", "capture", "export"} =>
         venv = "whole" /\ marker = "whole"

\* A worker writes "succeeded" only if every command it ran ended with code 0, and
\* for a profile only if the capture and every export did run; whatever it writes,
\* it holds no lock then.
ResultIsEarned ==
    \A w \in Workers : At(w, "ack") =>
      /\ lock # w
      /\ work[w].verdict = "succeeded" =>
           /\ \A e \in work[w].exits : e[3] = 0
           /\ IF Mode[w] = "run" THEN <<"target", 0, 0>> \in work[w].exits
              ELSE /\ <<"capture", 0, 0>> \in work[w].exits
                   /\ \A i \in 1..Exports(w) : <<"export", i - 1, 0>> \in work[w].exits

\* A worker that began ends, whatever its children and their descendants do and
\* whoever holds the lock it waits for.
WorkerEnds == \A w \in Workers : Started(w) ~> At(w, "ended")
=============================================================================
