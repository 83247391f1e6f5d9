--------------------------- MODULE MCControlPlane ---------------------------
(* ControlPlane on a small set of runs. *)
EXTENDS ControlPlane, SequencesExt

\* A server that starts over a database in which every run is queued already
\* ("target submit" needs no server): the state Init and the submissions lead to.
Backlog ==
    /\ pc = "idle" /\ todo = {} /\ cur = NoRun /\ slots = 0 /\ kids = {} /\ crashes = 0
    /\ queue \in SetToSeqs(Runs)
    /\ rows = [r \in Runs |-> [AbsentRow EXCEPT !.status = "queued"]]
    /\ snap = [r \in Runs |-> AbsentRow] /\ seen = NoRecord
    /\ asks = [r \in Runs |-> "idle"] /\ op = Idle /\ stash = NoRecord
    /\ ctl = [r \in Runs |-> "none"] /\ rec = [r \in Runs |-> NoRecord]
    /\ mine = [r \in Runs |-> FALSE] /\ pod = [r \in Runs |-> "none"]

BacklogSpec == Backlog /\ [][Next]_vars /\ Fairness
=============================================================================
