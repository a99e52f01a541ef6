---------------------------- MODULE LocalTeamFile ----------------------------
(***************************************************************************)
(* LocalTeamStateStore behind TeamStateService, as the `taskfence team`    *)
(* commands use them: every command is a process that reads the whole JSON *)
(* file, changes its copy in memory, and writes the file back with         *)
(* fs::write, which truncates the file first.  There is no lock and no     *)
(* rename.  A command that is refused changes nothing and is no step here. *)
(* The commands are of one organization, and any pending task may be the   *)
(* first of the file.                                                      *)
(***************************************************************************)
EXTENDS TeamAccess, Integers, FiniteSets

CONSTANTS
  Task,        \* task ids
  Exportable,  \* bound: the tasks whose evidence migrate and export look at
  Worker,
  Command,     \* processes, each of which runs one command after the other
  MaxEvents    \* bound: events of a task's log

VARIABLES
  file,     \* "missing", "whole", "empty" (truncated, not yet written), or
            \* "torn" (a part of a content, or two contents overlaid)
  content,  \* what a whole file says; otherwise what it said last
  log,      \* each task's events.jsonl: 0 if absent, the number of its events,
            \* or -1 if a line of it cannot be read
  export,   \* each task's export file: -2 if absent, the number of events it
            \* holds, or -1 if it holds no more than a part of them
  call,     \* what each command does, and how far it is
  memory,   \* the content each command has in memory
  granted   \* workers that were told they lease the task

vars == <<file, content, log, export, call, memory, granted>>

Q == INSTANCE TeamLease WITH Key <- Task, lease <- content.leases

\* default_local_team_policy: one actor per role, named for it.
DefaultPolicy ==
  [organization |-> "acme", requireApprovalOwner |-> TRUE,
   grants |-> <<[actor |-> "viewer", role |-> "Viewer"],
                [actor |-> "approver", role |-> "Approver"],
                [actor |-> "operator", role |-> "Operator"],
                [actor |-> "auditor", role |-> "Auditor"],
                [actor |-> "admin", role |-> "Admin"]>>]
Actor == {"viewer", "approver", "operator", "auditor", "admin", "nobody"}

Allowed(actor, method, resource) ==
  EvaluateTeamAccess(DefaultPolicy,
    [organization |-> "acme", actor |-> actor, method |-> method, resource |-> resource])

Idle  == [at |-> "idle"]
Empty == [tasks |-> {}, leases |-> [t \in Task |-> Q!Absent],
          artifacts |-> {}, exports |-> {}]

Init ==
  /\ file = "missing" /\ content = Empty
  /\ Q!Init
  /\ log = [t \in Exportable |-> 0]
  /\ export = [t \in Exportable |-> -2]
  /\ call = [c \in Command |-> Idle]
  /\ memory = [c \in Command |-> Empty]

-----------------------------------------------------------------------------
\* Faulty variant: an empty file is read like an absent one.
OpenEmpty(c) == call[c] = Idle /\ file # "torn"

\* open(): an absent file is an empty store, one that does not parse an error.
Open(c) == call[c] = Idle /\ file \in {"missing", "whole"}

\* The copy in memory is changed and has to be saved.
Change(c, copy, op) ==
  /\ memory' = [memory EXCEPT ![c] = copy]
  /\ call' = [call EXCEPT ![c] = [at |-> "truncate", op |-> op]]
  /\ UNCHANGED <<file, content, log, export, granted>>

\* The process is gone, and its copy with it.
End(c) ==
  /\ call' = [call EXCEPT ![c] = Idle]
  /\ memory' = [memory EXCEPT ![c] = Empty]

Enqueue(c, t) ==
  \E actor \in Actor :
    /\ Open(c) /\ Allowed(actor, "EnqueueTask", "TaskList")
    /\ content.leases[t] = Q!Absent
    /\ Change(c, [content EXCEPT !.leases[t] = Q!Pending], [kind |-> "enqueue"])

Lease(c, w) ==
  \E actor \in Actor, t \in Task :
    /\ Open(c) /\ Allowed(actor, "EnqueueTask", "TaskList")
    /\ content.leases[t] = Q!Pending
    /\ Change(c, [content EXCEPT !.leases[t] = Q!Leased(w)],
              [kind |-> "lease", task |-> t, worker |-> w])

\* Faulty variant: any worker may finish a leased task.
FinishForeign(c, t, w, o) ==
  \E actor \in Actor :
    /\ Open(c) /\ Allowed(actor, "EnqueueTask", "TaskList")
    /\ content.leases[t].state = "leased"
    /\ Change(c, [content EXCEPT !.leases[t] = Q!Ended(w, o)], [kind |-> "finish"])

\* complete and fail.
Finish(c, t, w, o) ==
  \E actor \in Actor :
    /\ Open(c) /\ Allowed(actor, "EnqueueTask", "TaskList")
    /\ content.leases[t] = Q!Leased(w)
    /\ Change(c, [content EXCEPT !.leases[t] = Q!Ended(w, o)], [kind |-> "finish"])

\* migration_plan: the tasks with structured evidence.
MigrationPlan == {t \in Exportable : log[t] # 0}

\* migrate: they are registered one by one.
Migrate(c) ==
  \E actor \in Actor, t \in MigrationPlan :
    /\ Open(c) /\ Allowed(actor, "EnqueueTask", "TaskList")
    /\ Change(c, [content EXCEPT !.tasks = @ \cup {t}],
                 [kind |-> "migrate", rest |-> MigrationPlan \ {t}])

Record(s, t, status) == [s EXCEPT !.exports = @ \cup {[task |-> t, status |-> status]}]

\* export_task_audit up to the export file: a task that is not registered, or
\* a log that cannot be read to its end, is recorded as a failed export.
Export(c, t) ==
  \E actor \in Actor :
    /\ Open(c) /\ Allowed(actor, "ExportAudit", "AuditExport")
    /\ IF t \in content.tasks /\ log[t] > 0
         THEN /\ memory' = [memory EXCEPT ![c] = content]
              /\ call' = [call EXCEPT ![c] =
                   [at |-> "export", op |-> [kind |-> "artifact", task |-> t, events |-> log[t]]]]
              /\ UNCHANGED <<file, content, log, export, granted>>
         ELSE Change(c, Record(content, t, "Failed"), [kind |-> "export"])

\* write_artifact: fs::write of the payload ...
ExportTruncate(c) ==
  /\ call[c].at = "export"
  /\ export' = [export EXCEPT ![call[c].op.task] = -1]
  /\ call' = [call EXCEPT ![c].at = "payload"]
  /\ UNCHANGED <<file, content, log, memory, granted>>

\* Faulty variant: the record of the artifact is left for later.
PayloadUnrecorded(c) ==
  /\ call[c].at = "payload"
  /\ LET op == call[c].op
     IN  /\ export' = [export EXCEPT ![op.task] = op.events]
         /\ memory' = [memory EXCEPT ![c] = Record(@, op.task, "Completed")]
         /\ call' = [call EXCEPT ![c] = [at |-> "truncate", op |-> [kind |-> "export"]]]
  /\ UNCHANGED <<file, content, log, granted>>

\* ... and then the record of the artifact, with its size and digest.
ExportPayload(c) ==
  /\ call[c].at = "payload"
  /\ LET op == call[c].op
     IN  /\ export' = [export EXCEPT ![op.task] = op.events]
         /\ memory' = [memory EXCEPT ![c].artifacts =
                         @ \cup {[task |-> op.task, events |-> op.events]}]
         /\ call' = [call EXCEPT ![c].at = "truncate"]
  /\ UNCHANGED <<file, content, log, granted>>

-----------------------------------------------------------------------------
\* persist() is fs::write, too.
Truncate(c) ==
  /\ call[c].at = "truncate"
  /\ file' = "empty"
  /\ call' = [call EXCEPT ![c].at = "write"]
  /\ UNCHANGED <<content, log, export, memory, granted>>

\* What the command does once its copy is saved: a migration goes on with the
\* next task, and an export with its own record; the others report and exit.
Continue(c) ==
  LET op == call[c].op
  IN  CASE op.kind = "migrate" /\ op.rest # {} ->
             \E t \in op.rest :
               /\ memory' = [memory EXCEPT ![c].tasks = @ \cup {t}]
               /\ call' = [call EXCEPT ![c] =
                    [at |-> "truncate", op |-> [kind |-> "migrate", rest |-> op.rest \ {t}]]]
        [] op.kind = "artifact" ->
             /\ memory' = [memory EXCEPT ![c] = Record(@, op.task, "Completed")]
             /\ call' = [call EXCEPT ![c] = [at |-> "truncate", op |-> [kind |-> "export"]]]
        [] OTHER -> End(c)

Write(c) ==
  /\ call[c].at = "write"
  /\ file' = "whole" /\ content' = memory[c]
  /\ Continue(c)
  /\ granted' = IF call[c].op.kind = "lease"
                  THEN [granted EXCEPT ![call[c].op.task] = @ \cup {call[c].op.worker}]
                  ELSE granted
  /\ UNCHANGED <<log, export>>

\* Only a part of the content when the disk fails.  A content written over
\* that of another command may leave the tail of that one behind.
WriteTorn(c) ==
  /\ call[c].at = "write"
  /\ file' = "torn"
  /\ End(c)
  /\ UNCHANGED <<content, log, export, granted>>

\* Killed, or stopped by an error, between two steps: a file that is truncated
\* stays so.
Kill(c) ==
  /\ call[c] # Idle
  /\ End(c)
  /\ UNCHANGED <<file, content, log, export, granted>>

\* Elsewhere the task runs: its log grows, or a torn line ends it.
TaskRuns(t) ==
  /\ log[t] \in 0..(MaxEvents - 1)
  /\ \E n \in {log[t] + 1, -1} : log' = [log EXCEPT ![t] = n]
  /\ UNCHANGED <<file, content, export, call, memory, granted>>

Run(c) ==
  \/ \E t \in Task : Enqueue(c, t)
  \/ \E w \in Worker : Lease(c, w)
  \/ \E t \in Task, w \in Worker, o \in Q!Outcome : Finish(c, t, w, o)
  \/ Migrate(c) \/ (\E t \in Exportable : Export(c, t))
  \/ ExportTruncate(c) \/ ExportPayload(c)
  \/ Truncate(c) \/ Write(c) \/ WriteTorn(c) \/ Kill(c)

Next == (\E c \in Command : Run(c)) \/ (\E t \in Exportable : TaskRuns(t))

Spec == Init /\ [][Next]_vars

-----------------------------------------------------------------------------
\* While commands do not overlap, the file keeps the promise of the abstract
\* lease store, crashes in the middle of a write included.
LeaseContract == Q!Spec

\* A file that is damaged with no command running is never taken for an empty
\* queue: it stays damaged, and no task is handed out from then on.
Damaged == file \in {"empty", "torn"} /\ \A c \in Command : call[c] = Idle
DamageIsNotForgotten ==
  [][Damaged => Damaged' /\ UNCHANGED <<content, granted>>]_vars

\* What the file calls a completed export has an artifact behind it: a record
\* with its digest in the same file, of a payload that was written out.
ExportsAreBacked ==
  \A t \in Exportable : [task |-> t, status |-> "Completed"] \in content.exports =>
    /\ \E n \in 1..MaxEvents : [task |-> t, events |-> n] \in content.artifacts
    /\ export[t] >= -1

\* docs/architecture.md: "Tasks can be enqueued, leased by one worker id, ..."
LeasedByOne == \A t \in Task : Cardinality(granted[t]) <= 1
=============================================================================
