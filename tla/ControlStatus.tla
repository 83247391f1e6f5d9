--------------------------- MODULE ControlStatus ---------------------------
(***************************************************************************)
(* Vocabulary shared by the control plane and the supervisor: the status   *)
(* of a task row, the status of a run record (run.json), and the rules     *)
(* control.py applies to them.                                             *)
(***************************************************************************)

\* The statuses of a row of control_runs.
CONTROL_STATUSES ==
    {"queued", "running", "completed", "failed", "cancelled", "disconnected"}

\* Nothing is scheduled or reconciled for a row in one of these.
TERMINAL_STATUSES == {"completed", "failed", "cancelled"}

\* The rows a reconcile pass looks at and the loop counts against its limit.
ACTIVE_STATUSES == {"running", "disconnected"}

\* ControlStore._validate_transition.
LegalTransition(from, to) ==
    \/ from = to
    \/ from = "queued" /\ to \in {"running", "failed", "cancelled"}
    \/ from = "running" /\ to \in TERMINAL_STATUSES \cup {"disconnected"}
    \/ from = "disconnected" /\ to \in TERMINAL_STATUSES \cup {"running"}

\* infrastructure_state; "pod_active" stands for pod_pending and pod_running,
\* which no guard of the control plane tells apart, and pod_lost is never
\* written by any code.
INFRASTRUCTURE_STATES == {"not_created", "pod_active", "pod_retained", "pod_deleted"}

\* The "cleanup" field of run.json; "retained" also stands for
\* retained_for_on_demand_artifacts.
CLEANUPS == {"not_created", "retained", "deleted"}

\* run.json as the control plane reads it; "missing" is the absent file.
Records == [status  : {"missing", "running"} \cup TERMINAL_STATUSES,
            cleanup : CLEANUPS,
            infra   : INFRASTRUCTURE_STATES]

NoRecord == [status |-> "missing", cleanup |-> "not_created", infra |-> "not_created"]

\* The record names a Pod (pod, pod_uid and node are set with "cleanup").
NamesPod(record) == record.cleanup # "not_created"

\* control._infrastructure_state, of a record that exists.
InfrastructureState(record) ==
    IF record.cleanup = "deleted" THEN "pod_deleted" ELSE record.infra
============================================================================
