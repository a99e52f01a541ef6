---------------------------- MODULE Orchestrator ----------------------------
(***************************************************************************)
(* One call of Orchestrator::run: the straight-line lifecycle of a task    *)
(* over eight fallible ports, and the append-only events.jsonl it leaves   *)
(* behind.  Every call of a port is one action with a success and a        *)
(* failure outcome; the process may be killed between any two calls, and a *)
(* task file with a fixed id may be run again over the same log.           *)
(***************************************************************************)
EXTENDS Integers, Sequences

CONSTANTS
  Streams,   \* how many of stdout and stderr are captured and not empty
  FileDiff,  \* audit.capture.file_diff
  Large,     \* kinds of events that may be longer than the buffer of the log writer
  MaxRuns    \* bound: how often the same task id is run

ASSUME StreamsAssumption == Streams \in 0..2
ASSUME FileDiffAssumption == FileDiff \in BOOLEAN
ASSUME MaxRunsAssumption == MaxRuns \in Nat

VARIABLES
  pc,        \* the next call of the running process, "idle" between runs
  run,       \* number of runs begun, the current one included
  status,    \* the latest status in the state store of this process
  lines,     \* lines of events.jsonl, the ones still in the writer's buffer last
  flushed,   \* how many of them are known to have reached the file
  events,    \* the in-memory copy handed to the report generator
  decision,  \* answer of the policy engine
  answer,    \* decision of the approval record wait() returned
  sandbox,   \* the sandbox this run started
  exit,      \* exit status collected from the runner
  logged,    \* streams recorded so far
  failure,   \* failure_message.is_some()
  final,     \* the status run() returns in Ok(TaskResult)
  resolved,  \* the run that last wrote task.resolved.json
  report,    \* the run that last wrote report.md and what it shows
  leak       \* why a sandbox may have been left running

port   == <<sandbox, exit, leak, resolved, report>>
ledger == <<lines, flushed, events>>
local  == <<decision, answer, logged, failure, final>>
vars   == <<pc, run, status, ledger, port, local>>

Terminal == {"Succeeded", "Failed", "Denied", "TimedOut"}
TaskStatus == Terminal \cup {"none", "Created", "Validating", "Preparing",
  "Running", "WaitingForApproval", "CollectingArtifacts", "Reporting"}
Decisions == {"Allow", "Deny", "RequireApproval"}
Answers   == {"Approved", "Denied", "TimedOut", "Unresolved"}
ExitStatus == {"zero", "nonzero", "timeout"}

Line ==
  [kind : {"status"}, val : TaskStatus]
    \cup [kind : {"decision"}, val : Decisions]
    \cup [kind : {"resolved"}, val : Answers]
    \cup [kind : {"exit"}, val : ExitStatus]
    \cup [kind : {"created", "requested", "error", "artifact", "log", "open", "bad"},
          val : {"none"}]

Event(kind, val) == [kind |-> kind, val |-> val]
Status(s)        == Event("status", s)
Plain(kind)      == Event(kind, "none")
OpenLine         == Plain("open")   \* garbage that no newline ends
BadLine          == Plain("bad")    \* garbage that a newline ends

-----------------------------------------------------------------------------
(* The audit log.  A record that fails to flush stays in the BufWriter and  *)
(* is written with the next one; one that does not fit may be cut short,    *)
(* and whatever is written next continues the same line.                    *)

Join(s, e) ==
  IF s # <<>> /\ s[Len(s)] = OpenLine
    THEN IF e = OpenLine THEN s ELSE [s EXCEPT ![Len(s)] = BadLine]
    ELSE Append(s, e)

Unflushed(s, e) ==
  {Join(s, e)} \cup (IF e.kind \in Large THEN {Join(s, OpenLine)} ELSE {})

Recorded(e) == \E i \in DOMAIN events : events[i] = e

At(s, kind) == {i \in DOMAIN s : s[i].kind = kind}

Last(s, kind) ==
  IF At(s, kind) = {} THEN "none"
  ELSE s[CHOOSE i \in At(s, kind) : \A j \in At(s, kind) : j <= i].val

\* The last status of a sequence of lines, as read_latest_task_status and the
\* report compute it: lines that do not parse are skipped.
LastStatus(s) == Last(s, "status")

\* ReportData::from_events, without the times and texts of its tables: the
\* status and the exit at the top, the decisions and answers, the residual risks.
ReportData(s) ==
  [status    |-> LastStatus(s),
   exit      |-> Last(s, "exit"),
   decisions |-> {s[i].val : i \in At(s, "decision")},
   approvals |-> {s[i].val : i \in At(s, "resolved")},
   errors    |-> At(s, "error") # {}]

\* What is left of the file when the process ends: buffered lines are written
\* when the writer is dropped, or lost from some point on, possibly mid-line.
Surviving ==
  {lines} \cup
  {IF torn THEN Join(SubSeq(lines, 1, k), OpenLine) ELSE SubSeq(lines, 1, k) :
     k \in flushed..(Len(lines) - 1), torn \in BOOLEAN}

-----------------------------------------------------------------------------
Goto(from, to) == pc = from /\ pc' = to

\* Faulty variant: what is recorded stays in the writer.
RecordBuffered(e, next, failed) ==
  /\ lines' = Join(lines, e) /\ events' = Append(events, e)
  /\ UNCHANGED flushed /\ pc' \in {next, failed}

\* record_event: AuditLogger::record, then the in-memory push.
RecordEvent(e, next, failed) ==
  \/ /\ lines' = Join(lines, e)
     /\ flushed' = Len(lines')
     /\ events' = Append(events, e)
     /\ pc' = next
  \/ /\ lines' \in Unflushed(lines, e)
     /\ UNCHANGED <<flushed, events>>
     /\ pc' = failed

\* transition: set_status, then the TaskStatusChanged event.
Transition(s, next, failed) ==
  \/ status' = s /\ RecordEvent(Status(s), next, failed)
  \/ pc' = failed /\ UNCHANGED <<status, ledger>>

\* Steps that only record one event, only change the status, or only call a
\* port that may fail and leaves nothing behind.
Log(from, e, next, failed) ==
  /\ pc = from
  /\ RecordEvent(e, next, failed)
  /\ UNCHANGED <<run, status, port, local>>

Move(from, s, next, failed) ==
  /\ pc = from
  /\ Transition(s, next, failed)
  /\ UNCHANGED <<run, port, local>>

Call(from, next, failed) ==
  /\ Goto(from, next) \/ Goto(from, failed)
  /\ UNCHANGED <<run, status, ledger, port, local>>

Init ==
  /\ pc = "idle" /\ status = "none" /\ events = <<>>
  /\ decision = "none" /\ answer = "none" /\ logged = 0
  /\ failure = FALSE /\ final = "none"
  /\ sandbox = "none" /\ exit = "none" /\ leak = {}
  /\ run = 0 /\ lines = <<>> /\ flushed = 0
  /\ resolved = 0 /\ report = [run |-> 0, shows |-> ReportData(<<>>)]

\* The CLI opens events.jsonl for appending and builds fresh ports.
StartRun ==
  /\ Goto("idle", "created")
  /\ run < MaxRuns
  /\ run' = run + 1
  /\ UNCHANGED <<status, ledger, port, local>>

-----------------------------------------------------------------------------
(* Before the agent: validation, evidence directory, policy, approval.      *)

Create            == Move("created", "Created", "taskCreated", "aborted")
RecordTaskCreated == Log("taskCreated", Plain("created"), "validating", "aborted")
Validate          == Move("validating", "Validating", "invocation", "aborted")
BuildInvocation   == Call("invocation", "preparing", "aborted")
Prepare           == Move("preparing", "Preparing", "taskDir", "aborted")
CreateTaskDir     == Call("taskDir", "resolvedTask", "aborted")

\* Faulty variant: a resolved task that cannot be written is forgotten.
UnresolvedTaskIgnored ==
  /\ pc = "resolvedTask" /\ pc' = "evaluate"
  /\ resolved' \in {resolved, run}
  /\ UNCHANGED <<run, status, ledger, local, sandbox, exit, leak, report>>

WriteResolvedTask ==
  /\ \/ Goto("resolvedTask", "evaluate") /\ resolved' = run
     \/ Goto("resolvedTask", "aborted") /\ UNCHANGED resolved
  /\ UNCHANGED <<run, status, ledger, local, sandbox, exit, leak, report>>

EvaluatePolicy ==
  /\ \/ Goto("evaluate", "decided") /\ decision' \in Decisions
     \/ Goto("evaluate", "preRunFailure") /\ UNCHANGED decision
  /\ UNCHANGED <<run, status, ledger, port, answer, logged, failure, final>>

\* Faulty variant: only a Deny keeps the agent from starting.
UnlessDenied ==
  Log("decided", Event("decision", decision),
      IF decision = "Deny" THEN "deny" ELSE "baseline", "preRunFailure")

RecordDecision ==
  Log("decided", Event("decision", decision),
      CASE decision = "Allow" -> "baseline"
        [] decision = "Deny"  -> "deny"
        [] OTHER              -> "waiting",
      "preRunFailure")

\* Faulty variant: Denied is recorded and the run goes on.
DenyAndGoOn == Move("deny", "Denied", "baseline", "preRunFailure")

Deny             == Move("deny", "Denied", "preRunFailure", "preRunFailure")
WaitForApproval  == Move("waiting", "WaitingForApproval", "request", "preRunFailure")
RequestApproval  == Call("request", "requested", "preRunFailure")
RecordRequested  == Log("requested", Plain("requested"), "wait", "preRunFailure")

Wait ==
  /\ \/ Goto("wait", "answered") /\ answer' \in Answers
     \/ Goto("wait", "preRunFailure") /\ UNCHANGED answer
  /\ UNCHANGED <<run, status, ledger, port, decision, logged, failure, final>>

\* Faulty variant: an approval that nobody resolved in time counts as given.
UnlessRefused ==
  Log("answered", Event("resolved", answer),
      IF answer = "Denied" THEN "deny" ELSE "baseline", "preRunFailure")

RecordResolved ==
  Log("answered", Event("resolved", answer),
      IF answer = "Approved" THEN "baseline" ELSE "deny", "preRunFailure")

\* finish_pre_run_failure: a run already marked Denied keeps that status.
FinishPreRunFailure ==
  /\ pc = "preRunFailure"
  /\ IF Recorded(Status("Denied"))
       THEN /\ pc' = "preRunError" /\ final' = "Denied"
            /\ UNCHANGED <<status, ledger>>
       ELSE /\ Transition("Failed", "preRunError", "aborted")
            /\ final' = "Failed"
  /\ UNCHANGED <<run, port, decision, answer, logged, failure>>

RecordPreRunError == Log("preRunError", Plain("error"), "report", "aborted")

-----------------------------------------------------------------------------
(* The agent: baseline, sandbox, run, exit.                                 *)

CaptureBaseline == Call("baseline", "prepare", "aborted")
PrepareSandbox  == Call("prepare", "running", "aborted")
MarkRunning     == Move("running", "Running", "start", "aborted")

\* A start that fails may have launched the sandbox already.
StartRunner ==
  /\ \/ Goto("start", "collect") /\ sandbox' = "up" /\ UNCHANGED leak
     \/ /\ Goto("start", "runError")
        /\ \/ UNCHANGED <<sandbox, leak>>
           \/ sandbox' = "up" /\ leak' = leak \cup {"start"}
  /\ UNCHANGED <<run, status, ledger, local, exit, resolved, report>>

\* Faulty variant: a runner whose exit cannot be collected is not stopped.
CollectWithoutStop ==
  /\ \/ /\ Goto("collect", "logs")
        /\ exit' \in ExitStatus /\ sandbox' = "exited"
     \/ Goto("collect", "runError") /\ UNCHANGED <<exit, sandbox>>
  /\ UNCHANGED <<run, status, ledger, local, leak, resolved, report>>

\* The exit is the client's: only a success is the agent's as well.  After any
\* other the agent may run on, where it was cut off or could not be removed.
CollectExit ==
  /\ \/ /\ Goto("collect", "logs")
        /\ exit' \in ExitStatus
        /\ \/ sandbox' = "exited" /\ UNCHANGED leak
           \/ exit' # "zero" /\ leak' = leak \cup {"exit"} /\ UNCHANGED sandbox
     \/ Goto("collect", "stop") /\ UNCHANGED <<exit, sandbox, leak>>
  /\ UNCHANGED <<run, status, ledger, local, resolved, report>>

\* The result of stop is ignored.
StopRunner ==
  /\ Goto("stop", "runError")
  /\ \/ sandbox' = "exited" /\ UNCHANGED leak
     \/ leak' = leak \cup {"stop"} /\ UNCHANGED sandbox
  /\ UNCHANGED <<run, status, ledger, local, exit, resolved, report>>

RecordRunError == Log("runError", Plain("error"), "runFailed", "aborted")

FailRun ==
  /\ pc = "runFailed"
  /\ Transition("Failed", "lastReport", "aborted")
  /\ final' = "Failed"
  /\ UNCHANGED <<run, port, decision, answer, logged, failure>>

-----------------------------------------------------------------------------
(* Evidence: logs, exit, diff.                                              *)

WriteLog ==
  /\ logged < Streams
  /\ Call("logs", "logArtifact", "logError")
RecordLogArtifact == Log("logArtifact", Plain("artifact"), "logChunk", "logError")
RecordLogChunk ==
  /\ pc = "logChunk"
  /\ RecordEvent(Plain("log"), "logs", "logError")
  /\ logged' = logged + 1
  /\ UNCHANGED <<run, status, port, decision, answer, failure, final>>
LogsDone ==
  /\ Goto("logs", "exit")
  /\ logged = Streams
  /\ UNCHANGED <<run, status, ledger, port, local>>

\* Faulty variant: the failure is recorded and then forgotten.
ForgetFailure(from, next) ==
  /\ pc = from
  /\ RecordEvent(Plain("error"), next, "aborted")
  /\ UNCHANGED <<run, status, port, decision, answer, logged, failure, final>>

\* An evidence step that fails is recorded and remembered, and the run goes on.
RememberFailure(from, next) ==
  /\ pc = from
  /\ RecordEvent(Plain("error"), next, "aborted")
  /\ failure' = TRUE
  /\ UNCHANGED <<run, status, port, decision, answer, logged, final>>

RecordLogError == RememberFailure("logError", "exit")
RecordExit     == Log("exit", Event("exit", exit), "collecting", "aborted")
MarkCollecting == Move("collecting", "CollectingArtifacts",
                       IF FileDiff THEN "diff" ELSE "reporting", "aborted")
CollectDiff ==
  \/ Call("diff", "diffArtifact", "diffError")
  \/ Call("diff", "reporting", "diffError")
RecordDiff      == Log("diffArtifact", Plain("artifact"), "reporting", "aborted")
RecordDiffError == RememberFailure("diffError", "reporting")
MarkReporting   == Move("reporting", "Reporting", "finalise", "aborted")

FinalStatus ==
  IF failure THEN "Failed"
  ELSE IF exit = "timeout" THEN "TimedOut"
  ELSE IF exit = "zero" THEN "Succeeded"
  ELSE "Failed"

\* The status is final before the report is generated: the report shows it.
Finalise ==
  /\ pc = "finalise"
  /\ Transition(FinalStatus, "report", "aborted")
  /\ final' = FinalStatus
  /\ UNCHANGED <<run, port, decision, answer, logged, failure>>

-----------------------------------------------------------------------------
(* The report, and the end of the run.                                      *)

Generate(from, next, failed) ==
  /\ \/ /\ Goto(from, next)
        /\ report' = [run |-> run, shows |-> ReportData(events)]
     \/ Goto(from, failed) /\ UNCHANGED report
  /\ UNCHANGED <<run, status, ledger, local, sandbox, exit, leak, resolved>>

GenerateReport    == Generate("report", "reportArtifact", "reportError")
RecordReport      == Log("reportArtifact", Plain("artifact"), "returned", "reportError")
RecordReportError == Log("reportError", Plain("error"), "reportFailed", "aborted")
\* Faulty variant: the failure is returned, its status never set.
FailWithoutStatus ==
  /\ Goto("reportFailed", "returned")
  /\ final' = "Failed"
  /\ UNCHANGED <<run, status, ledger, port, decision, answer, logged, failure>>

FailReport ==
  /\ pc = "reportFailed"
  /\ Transition("Failed", "returned", "aborted")
  /\ final' = "Failed"
  /\ UNCHANGED <<run, port, decision, answer, logged, failure>>

\* After a runner error the result of generate_report is ignored.
GenerateLastReport == Generate("lastReport", "lastArtifact", "returned")
RecordLastReport   == Log("lastArtifact", Plain("artifact"), "returned", "returned")

Done == {"returned", "aborted"}

\* The process ends, or is killed at any point: its memory is gone and the
\* buffered end of the log may be.
EndProcess ==
  /\ lines' \in Surviving
  /\ flushed' = Len(lines')
  /\ pc' = "idle" /\ status' = "none" /\ events' = <<>>
  /\ decision' = "none" /\ answer' = "none" /\ logged' = 0
  /\ failure' = FALSE /\ final' = "none"
  /\ sandbox' = "none" /\ exit' = "none" /\ leak' = {}
  /\ UNCHANGED <<run, resolved, report>>
Exit  == pc \in Done /\ EndProcess
Crash == pc \notin Done \cup {"idle"} /\ EndProcess

\* Nothing is left to do once the task has been run MaxRuns times.
Finished == pc = "idle" /\ run = MaxRuns /\ UNCHANGED vars

PreRun ==
  \/ Create \/ RecordTaskCreated \/ Validate \/ BuildInvocation \/ Prepare
  \/ CreateTaskDir \/ WriteResolvedTask \/ EvaluatePolicy \/ RecordDecision
  \/ Deny \/ WaitForApproval \/ RequestApproval \/ RecordRequested \/ Wait
  \/ RecordResolved \/ FinishPreRunFailure \/ RecordPreRunError
Agent ==
  \/ CaptureBaseline \/ PrepareSandbox \/ MarkRunning \/ StartRunner
  \/ CollectExit \/ StopRunner \/ RecordRunError \/ FailRun
Evidence ==
  \/ WriteLog \/ RecordLogArtifact \/ RecordLogChunk \/ LogsDone
  \/ RecordLogError \/ RecordExit \/ MarkCollecting \/ CollectDiff
  \/ RecordDiff \/ RecordDiffError \/ MarkReporting \/ Finalise
Reporting ==
  \/ GenerateReport \/ RecordReport \/ RecordReportError \/ FailReport
  \/ GenerateLastReport \/ RecordLastReport
Step == PreRun \/ Agent \/ Evidence \/ Reporting

Next == StartRun \/ Step \/ Exit \/ Crash \/ Finished

Spec == Init /\ [][Next]_vars

-----------------------------------------------------------------------------
(* Properties.                                                              *)

Place ==
  Done \cup
  {"idle", "created", "taskCreated", "validating", "invocation", "preparing",
   "taskDir", "resolvedTask", "evaluate", "decided", "waiting", "request",
   "requested", "wait", "answered", "deny", "preRunFailure", "preRunError",
   "baseline", "prepare", "running", "start", "collect", "stop", "runError",
   "runFailed", "lastReport", "lastArtifact", "logs", "logArtifact", "logChunk",
   "logError", "exit", "collecting", "diff", "diffArtifact", "diffError",
   "reporting", "finalise", "report", "reportArtifact", "reportError",
   "reportFailed"}

ReportPage ==
  [status : TaskStatus, exit : {"none"} \cup ExitStatus, decisions : SUBSET Decisions,
   approvals : SUBSET Answers, errors : BOOLEAN]

TypeOK ==
  /\ pc \in Place /\ run \in 0..MaxRuns
  /\ status \in TaskStatus /\ final \in {"none"} \cup Terminal
  /\ lines \in Seq(Line) /\ events \in Seq(Line) /\ flushed \in 0..Len(lines)
  /\ decision \in {"none"} \cup Decisions /\ answer \in {"none"} \cup Answers
  /\ sandbox \in {"none", "up", "exited"} /\ exit \in {"none"} \cup ExitStatus
  /\ logged \in 0..Streams /\ failure \in BOOLEAN /\ leak \subseteq {"start", "stop", "exit"}
  /\ resolved \in 0..MaxRuns
  /\ report \in [run : 0..MaxRuns, shows : ReportPage]

Permit == {Event("decision", "Allow"), Event("resolved", "Approved")}

\* Runner::start is called only after this run recorded a decision that
\* allows the command, or an approval of it, and never after Denied.
StartAuthorised ==
  sandbox # "none" =>
    /\ \/ Recorded(Event("decision", "Allow"))
       \/ /\ Recorded(Event("decision", "RequireApproval"))
          /\ Recorded(Event("resolved", "Approved"))
    /\ ~Recorded(Status("Denied"))

\* The log alone shows it too, whatever was lost in crashes before: between a
\* task's permission and its Running line nothing ended or restarted the task.
EvidencePrecedesRunning ==
  \A i \in DOMAIN lines : lines[i] = Status("Running") =>
    \E j \in 1..(i - 1) :
      /\ lines[j] \in Permit
      /\ \A k \in (j + 1)..(i - 1) :
           lines[k] \notin {Status(s) : s \in {"Created", "Running"} \cup Terminal}

\* When run() returns Ok, the status it returns is the one the state store holds.
\* One other than Failed is also what a reader of the durable log finds last, and
\* what the report of this very run shows, never that of a run before.  Failed may
\* be missing from the log, where the line of a decision or of an approval was cut
\* short before it and took it in; but then a reader finds no end of the task there,
\* and not a better one.
StatusesAgree ==
  pc = "returned" =>
    /\ status = final
    /\ final # "Failed" =>
         LastStatus(SubSeq(lines, 1, flushed)) = final
           /\ report.run = run /\ report.shows.status = final
    /\ final = "Failed" =>
         LastStatus(SubSeq(lines, 1, flushed)) \notin Terminal \ {"Failed"}

\* A run that returns Denied never touched a sandbox, and left the resolved task
\* and the policy decision behind it in the durable evidence, and the refusal and
\* its error in a report of its own.
DeniedLeavesEvidence ==
  pc = "returned" /\ final = "Denied" =>
    /\ sandbox = "none"
    /\ resolved = run
    /\ \E i \in 1..flushed : lines[i] = Event("decision", decision)
    /\ report.run = run /\ report.shows.errors
    /\ "Deny" \in report.shows.decisions \/ report.shows.approvals \ {"Approved"} # {}

\* Succeeded and TimedOut are returned only by runs whose evidence is whole:
\* the exit is recorded, no step of the run recorded an error, and the report
\* shows that exit and no error.
CleanOutcome ==
  pc = "returned" /\ final \in {"Succeeded", "TimedOut"} =>
    /\ exit = (IF final = "TimedOut" THEN "timeout" ELSE "zero")
    /\ Recorded(Event("exit", exit))
    /\ ~Recorded(Plain("error"))
    /\ report.shows.exit = exit /\ ~report.shows.errors

\* run() never returns with a sandbox still up, except after a start or a stop
\* that itself failed or an exit that was not a success.
NoSilentLeak == pc \in Done /\ sandbox = "up" => leak # {}

\* The statuses of a run follow the lifecycle, and the agent is launched only
\* while the task is Running.
Abstract == INSTANCE TaskLifecycle WITH launched <- (sandbox # "none")
Lifecycle == Abstract!Spec
=============================================================================
