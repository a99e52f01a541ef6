--------------------------- MODULE PostgresExports ---------------------------
(***************************************************************************)
(* Tasks, artifacts and audit exports in PostgresTeamStateStore behind     *)
(* TeamStateService: several servers, each with a connection of its own,   *)
(* register tasks and export their logs to files they share.  Each row is  *)
(* one statement without a transaction; the payload is an fs::write.  A     *)
(* request that ensure_access refuses changes nothing and is no step.      *)
(***************************************************************************)
EXTENDS Integers

CONSTANTS Task, Server,
          MaxEvents  \* bound: events of a task's log

VARIABLES
  tasks,      \* rows of tasks: the events its status was read from, -1 if none
  artifacts,  \* rows of artifacts: the events the digest is of, -1 if none
  exports,    \* rows of audit_exports, which only grow
  log,        \* each task's events.jsonl: the number of its events, -1 if unreadable
  payload,    \* the export file: its events, -1 if cut short, -2 if absent
  call        \* what each server does

vars == <<tasks, artifacts, exports, log, payload, call>>

Idle == [at |-> "idle"]

Init ==
  /\ tasks = [t \in Task |-> -1] /\ artifacts = [t \in Task |-> -1] /\ exports = {}
  /\ log = [t \in Task |-> 0] /\ payload = [t \in Task |-> -2]
  /\ call = [s \in Server |-> Idle]

Go(s, from, to) == call[s].at = from /\ call' = [call EXCEPT ![s].at = to]
End(s) == call' = [call EXCEPT ![s] = Idle]

-----------------------------------------------------------------------------
\* put_task is given a summary that was read before; a later one may overtake it.
Summarise(s, t) ==
  /\ call[s] = Idle /\ log[t] >= 0
  /\ call' = [call EXCEPT ![s] = [at |-> "put", task |-> t, events |-> log[t]]]
  /\ UNCHANGED <<tasks, artifacts, exports, log, payload>>

PutTask(s) ==
  /\ call[s].at = "put" /\ End(s)
  /\ tasks' = [tasks EXCEPT ![call[s].task] = call[s].events]
  /\ UNCHANGED <<artifacts, exports, log, payload>>

\* plan_audit_export inserts a row for no task, before anything is exported.
PlanExport(s) ==
  /\ call[s] = Idle
  /\ exports' = exports \cup {[status |-> "Planned"]}
  /\ UNCHANGED <<tasks, artifacts, log, payload, call>>

\* export_task_audit: get_task, then the log; without either the export fails.
Export(s, t) ==
  /\ call[s] = Idle
  /\ LET found == tasks[t] # -1 /\ log[t] >= 0
     IN call' = [call EXCEPT ![s] =
          [at |-> IF found THEN "truncate" ELSE "record", task |-> t, events |-> log[t],
           status |-> IF found THEN "Completed" ELSE "Failed"]]
  /\ UNCHANGED <<tasks, artifacts, exports, log, payload>>

\* write_artifact: the file, in two steps, and then its row.
Truncate(s) ==
  /\ Go(s, "truncate", "payload")
  /\ payload' = [payload EXCEPT ![call[s].task] = -1]
  /\ UNCHANGED <<tasks, artifacts, exports, log>>

WritePayload(s) ==
  /\ Go(s, "payload", "artifact")
  /\ payload' = [payload EXCEPT ![call[s].task] = call[s].events]
  /\ UNCHANGED <<tasks, artifacts, exports, log>>

RecordArtifact(s) ==
  /\ Go(s, "artifact", "record")
  /\ artifacts' = [artifacts EXCEPT ![call[s].task] = call[s].events]
  /\ UNCHANGED <<tasks, exports, log, payload>>

\* complete_audit_export and fail_audit_export insert a row each.
RecordExport(s) ==
  /\ call[s].at = "record" /\ End(s)
  /\ exports' = exports \cup {[task |-> call[s].task, status |-> call[s].status]}
  /\ UNCHANGED <<tasks, artifacts, log, payload>>

\* A statement or a write fails, or the server ends, between two steps; that the
\* statement took effect all the same is the same as failing at the next one.
Fail(s) == call[s] # Idle /\ End(s) /\ UNCHANGED <<tasks, artifacts, exports, log, payload>>

\* Elsewhere the task runs.
TaskRuns(t) ==
  /\ log[t] \in 0..(MaxEvents - 1)
  /\ \E n \in {log[t] + 1, -1} : log' = [log EXCEPT ![t] = n]
  /\ UNCHANGED <<tasks, artifacts, exports, payload, call>>

Step(s) ==
  \/ \E t \in Task : Summarise(s, t) \/ Export(s, t)
  \/ PlanExport(s)
  \/ PutTask(s) \/ Truncate(s) \/ WritePayload(s) \/ RecordArtifact(s) \/ RecordExport(s) \/ Fail(s)

Next == (\E s \in Server : Step(s)) \/ (\E t \in Task : TaskRuns(t))

Spec == Init /\ [][Next]_vars

-----------------------------------------------------------------------------
\* What the rows call a completed export is of a registered task and has an
\* artifact behind it: a row with a digest, of a payload that was written, however
\* servers overlap and fail (export_task_audit).
ExportsAreBacked ==
  \A t \in Task : [task |-> t, status |-> "Completed"] \in exports =>
    tasks[t] >= 0 /\ artifacts[t] >= 0 /\ payload[t] >= -1
=============================================================================
