---------------------------- MODULE EvidenceStore ----------------------------
(***************************************************************************)
(* The evidence directories of a workspace and the commands that share     *)
(* them: `run` and the run of a replay, which write a directory, `replay   *)
(* run`, which copies the inputs of one into a new one, and `state index`, *)
(* which reads them all.  A command is a process; nothing locks anything.  *)
(***************************************************************************)
EXTENDS Naturals

CONSTANTS
  Task,
  Runner, Replayer, Refresher  \* the commands, by what they are

VARIABLES
  evidence, \* the directory of each task: resolved inputs and last status
  replays,  \* artifacts/replay.json of each task
  index,    \* .taskfence/state/local-index.json
  cmd,      \* the commands
  since     \* per command and task, the last statuses its log had meanwhile

vars == <<evidence, replays, index, cmd, since>>

Commands == Runner \cup Replayer \cup Refresher

\* What a replay may repeat: fixtures, no listener, no network.  Anything else
\* is "live".
Inputs == {"contained", "live"}

NoEvidence == [exists |-> FALSE, inputs |-> "absent", status |-> "none"]

\* A file that is written in place is empty in between and does not parse.
Absent   == [state |-> "absent"]
Torn     == [state |-> "torn"]
Whole(f) == f.state = "whole"

Idle == [at |-> "idle", task |-> "none", source |-> "none",
         planned |-> "absent", inputs |-> "absent", known |-> {},
         was |-> "none", is |-> "none", final |-> "none", seen |-> <<>>, todo |-> {}]

\* Some tasks have evidence of earlier runs, which may have ended early.
Init ==
  /\ evidence \in [Task -> {NoEvidence} \cup
                      [exists : {TRUE}, inputs : Inputs, status : {"Created", "Failed"}]]
  /\ replays = [t \in Task |-> Absent] /\ index = Absent
  /\ cmd = [c \in Commands |-> Idle] /\ since = [c \in Commands |-> [t \in Task |-> {}]]

-----------------------------------------------------------------------------
Known == {t \in Task : evidence[t].exists}

Begin(c, fields) ==
  /\ cmd[c].at = "idle" /\ cmd' = [cmd EXCEPT ![c] = fields]
  /\ since' = [since EXCEPT ![c] = [t \in Task |-> {evidence[t].status}]]
  /\ UNCHANGED <<evidence, replays, index>>

Go(c, from, fields) == cmd[c].at = from /\ cmd' = [cmd EXCEPT ![c] = fields]
Step(c, from, to)   == Go(c, from, [cmd[c] EXCEPT !.at = to])
Active(c) == cmd[c].at \notin {"idle", "ended"}

\* The directory of c's task changes, and so does what others can have seen.
Put(c, e) ==
  LET t == cmd[c].task
  IN /\ evidence' = [evidence EXCEPT ![t] = e]
     /\ since' = [d \in Commands |-> IF Active(d) THEN [since[d] EXCEPT ![t] = @ \cup {e.status}]
                                                 ELSE since[d]]
     /\ UNCHANGED <<replays, index>>

PutStatus(c, from, s, to) ==
  /\ Go(c, from, [cmd[c] EXCEPT !.at = to, !.final = s])
  /\ Put(c, [evidence[cmd[c].task] EXCEPT !.status = s])

BeginRun(c) ==
  \E t \in Task, i \in Inputs :
    Begin(c, [Idle EXCEPT !.at = "open", !.task = t, !.inputs = i])

BeginReplay(c) ==
  \E t, s \in Task :
    Begin(c, [Idle EXCEPT !.at = "plan", !.task = t, !.source = s, !.known = Known])

BeginRefresh(c) == Begin(c, [Idle EXCEPT !.at = "list"])

\* What others may still ask of a command that is over.
End(c, from) ==
  Go(c, from, [Idle EXCEPT !.at = "ended", !.task = cmd[c].task, !.final = cmd[c].final])

\* A command fails or is killed.
Stop(c) == Active(c) /\ End(c, cmd[c].at) /\ UNCHANGED <<evidence, replays, index, since>>

-----------------------------------------------------------------------------
(* replay run, up to its run.                                               *)

Own(c)     == evidence[cmd[c].task]
Sourced(c) == evidence[cmd[c].source]

\* Limitations are never empty, so that a replay which does not accept them
\* ends here; the plan does not look at the status.
Plan(c) ==
  /\ Go(c, "plan", [cmd[c] EXCEPT !.at = "inputs", !.planned = Sourced(c).inputs])
  /\ Sourced(c).exists /\ Sourced(c).inputs # "absent"
  /\ UNCHANGED <<evidence, replays, index, since>>

\* The inputs are read once more, and may be another run's by now.
ReadInputs(c) ==
  /\ Go(c, "inputs", [cmd[c] EXCEPT !.at = "look", !.inputs = Sourced(c).inputs])
  /\ Sourced(c).inputs # "absent"
  /\ UNCHANGED <<evidence, replays, index, since>>

Look(c) ==
  /\ Step(c, "look", "contract") /\ ~Own(c).exists
  /\ UNCHANGED <<evidence, replays, index, since>>

\* Faulty variant: the inputs the plan was made from are validated.
CheckPlanned(c) ==
  /\ Step(c, "contract", "open") /\ cmd[c].planned = "contained"
  /\ UNCHANGED <<evidence, replays, index, since>>

CheckContract(c) ==
  /\ Step(c, "contract", "open") /\ cmd[c].inputs = "contained"
  /\ UNCHANGED <<evidence, replays, index, since>>

-----------------------------------------------------------------------------
(* A run, as far as the directory shows it.                                 *)

\* Opening the log creates the directory.
Open(c) == Step(c, "open", "created") /\ Put(c, [Own(c) EXCEPT !.exists = TRUE])

Created(c) == PutStatus(c, "created", "Created", "write")

\* write_resolved_task replaces the file as a whole.
WriteInputs(c) == Step(c, "write", "start") /\ Put(c, [Own(c) EXCEPT !.inputs = cmd[c].inputs])

Start(c) == PutStatus(c, "start", "Running", "running")

Finish(c) ==
  \/ PutStatus(c, "start", "Denied", "report")
  \/ \E s \in {"Succeeded", "Failed"} : PutStatus(c, "running", s, "report")

AfterRun(c) == IF c \in Replayer THEN "left" ELSE "over"

\* A report that fails turns the status into Failed.
Report(c) ==
  \/ Step(c, "report", AfterRun(c)) /\ UNCHANGED <<evidence, replays, index, since>>
  \/ PutStatus(c, "report", "Failed", AfterRun(c))

-----------------------------------------------------------------------------
(* replay run, after its run: two summaries, then the record in place.      *)

ReadLeft(c) ==
  /\ Go(c, "left", [cmd[c] EXCEPT !.at = "right", !.was = Sourced(c).status])
  /\ UNCHANGED <<evidence, replays, index, since>>

ReadRight(c) ==
  /\ Go(c, "right", [cmd[c] EXCEPT !.at = "truncate record", !.is = Own(c).status])
  /\ UNCHANGED <<evidence, replays, index, since>>

TruncateRecord(c) ==
  /\ Step(c, "truncate record", "record") /\ replays' = [replays EXCEPT ![cmd[c].task] = Torn]
  /\ UNCHANGED <<evidence, index, since>>

\* What a file holds after a write into it: if somebody else has written it since
\* it was emptied, the longer text may show at the end.
Written(old, new) == IF old = Torn THEN {new} ELSE {new, Torn}

WriteRecord(c) ==
  /\ End(c, "record")
  /\ \E r \in Written(replays[cmd[c].task],
                      [state |-> "whole", by |-> c, source |-> cmd[c].source,
                       was |-> cmd[c].was, is |-> cmd[c].is]) :
       replays' = [replays EXCEPT ![cmd[c].task] = r]
  /\ UNCHANGED <<evidence, index, since>>

-----------------------------------------------------------------------------
(* state index: the directories one after the other, then the file in place. *)

List(c) ==
  /\ Go(c, "list", [cmd[c] EXCEPT !.at = "summarise", !.todo = Known,
                                  !.seen = [t \in Task |-> "unlisted"]])
  /\ UNCHANGED <<evidence, replays, index, since>>

\* Faulty variant: what the index already lists is not read again.
SummariseOnce(c) ==
  /\ \E t \in cmd[c].todo :
       Go(c, "summarise",
          [cmd[c] EXCEPT !.todo = @ \ {t},
                         !.seen[t] = IF Whole(index) /\ index.seen[t] # "unlisted"
                                     THEN index.seen[t] ELSE evidence[t].status])
  /\ UNCHANGED <<evidence, replays, index, since>>

\* A task whose artifacts cannot be listed gets a warning and no record.
Summarise(c) ==
  /\ \E t \in cmd[c].todo : \E s \in {"unlisted", evidence[t].status} :
       Go(c, "summarise", [cmd[c] EXCEPT !.todo = @ \ {t}, !.seen[t] = s])
  /\ UNCHANGED <<evidence, replays, index, since>>

TruncateIndex(c) ==
  /\ cmd[c].todo = {} /\ Step(c, "summarise", "index") /\ index' = Torn
  /\ UNCHANGED <<evidence, replays, since>>

\* The review server refreshes the index at each request for it.
WriteIndex(c) ==
  /\ Go(c, "index", Idle)
  /\ index' \in Written(index, [state |-> "whole", seen |-> cmd[c].seen, could |-> since[c]])
  /\ since' = [since EXCEPT ![c] = [t \in Task |-> {}]]
  /\ UNCHANGED <<evidence, replays>>

-----------------------------------------------------------------------------
RunStep(c) == Open(c) \/ Created(c) \/ WriteInputs(c) \/ Start(c) \/ Finish(c) \/ Report(c)
Running == \E c \in Runner : BeginRun(c) \/ RunStep(c) \/ Stop(c)

Replaying ==
  \E c \in Replayer :
    \/ BeginReplay(c) \/ Plan(c) \/ ReadInputs(c) \/ Look(c) \/ CheckContract(c) \/ RunStep(c)
    \/ ReadLeft(c) \/ ReadRight(c) \/ TruncateRecord(c) \/ WriteRecord(c) \/ Stop(c)

Indexing ==
  \E c \in Refresher :
    BeginRefresh(c) \/ List(c) \/ Summarise(c) \/ TruncateIndex(c) \/ WriteIndex(c) \/ Stop(c)

Next == Running \/ Replaying \/ Indexing
Spec == Init /\ [][Next]_vars

-----------------------------------------------------------------------------
\* A replay changes no directory that was there when it began, its source's
\* included, and starts an agent only with inputs that meet the replay contract,
\* whatever other commands rewrite between its reads (replay_run_with_runner).
FailsClosed ==
  \A c \in Replayer, t \in Task :
    /\ cmd'[c] # cmd[c]
    /\ evidence'[t] # evidence[t] \/ replays'[t] # replays[t]
    => /\ t \notin cmd[c].known
       /\ evidence'[t].status = "Running" => cmd[c].inputs = "contained"
ReplayFailsClosed == [][FailsClosed]_vars

\* Files that are derived from the logs and written in place say nothing untrue
\* once they can be read back: the index lists statuses the tasks had since its
\* refresh began, a replay record those its two tasks had, and, if no other
\* command wrote to the replay's directory, the status its own run ended with.
DerivedFilesHold ==
  /\ Whole(index) => \A t \in Task : index.seen[t] # "unlisted" => index.seen[t] \in index.could[t]
  /\ \A t \in Task : Whole(replays[t]) =>
       LET r == replays[t]
       IN /\ r.was \in since[r.by][r.source] /\ r.is \in since[r.by][t]
          /\ (\A d \in (Runner \cup Replayer) \ {r.by} : cmd[d].task # t) => r.is = cmd[r.by].final
=============================================================================
