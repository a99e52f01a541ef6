# TaskFence: a formal model

TaskFence runs an AI agent's command in a sandbox, after a policy decision and,
if needed, a human approval, and leaves an evidence directory behind: an event
log, the resolved task, captured output, a diff and a report. A gateway makes
calls to external services on the agent's behalf. A team control plane keeps
task, lease and export records for several workers. This directory holds TLA+
models of that code, the TLC runs that check them and the proofs that TLAPS
checks. `PROJECT.json` maps each definition to the lines it stands for and lists
the hazards by the line where they bite.

## 1. The system

| Part | Source (`src/crates/…`) | State | Operations |
|---|---|---|---|
| Configuration | `taskfence-config` | none | parse, validate and resolve a task file |
| Agent adapters | `taskfence-agent` | none | invocation of a generic agent or of a profile |
| Policy | `taskfence-policy` | none | `evaluate`, per kind of action |
| Orchestrator | `taskfence-core` | a run's position, status, event list | `run`: one call of eight ports after another |
| Audit log | `taskfence-audit` | `events.jsonl`, the buffer of its writer | `record` (append, flush) |
| Report | `taskfence-report` | `report.md` | `generate` from the run's events |
| In-process approval | `taskfence-approval` | records in a mutex | `request`, `wait`, terminal prompt |
| External approval | `taskfence-approval`, CLI, review server | one JSON file per record | `request`, `wait` (polling, timeout), `approve`, `deny` |
| Runners | `taskfence-runner` | client processes, containers | `prepare`, `start`, `collect_exit`, `stop` |
| Artifacts | `taskfence-artifacts` | the evidence directory | create, write, baseline, diff |
| Gateway | `taskfence-gateway`, CLI | spool files, a listener | mediate, budget, egress, secrets, execute |
| Connectors | `taskfence-gateway` | none | templates, planned usage, requests |
| Worker queue | `taskfence-state` | a map of leases in a mutex | `enqueue`, `lease_next`, `complete`, `fail` |
| Postgres team state | `taskfence-state` | rows of four tables | the same, and tasks, artifacts, exports |
| Local JSON team state | `taskfence-state`, CLI | one file | the same, one process per command |
| Team service | `taskfence-state` | none of its own | roles, artifacts, audit export |
| Evidence store, replay | `taskfence-state`, CLI | the local index, replay records | index, compare, replay |

How they interact. The CLI builds fresh ports for a run and calls
`Orchestrator::run`, a single thread that calls policy, approval, artifacts,
runner, audit, state and report through traits. The approval port either decides
in the process or polls a file that other processes (`taskfence approve`,
`taskfence deny`, the review server) rewrite. The evidence directory is shared
with every later run of the same task id, with gateway commands, with replays and
with readers. The agent reaches the gateway through a spool of request and
response files or a listener; each call runs through one executor and its
connector. Workers of a team share one queue, in memory, in a file or in Postgres.

What is hard. Any port call may fail, and the process may be killed, between two
calls whose effects belong together. The log's writer keeps what it could not
write. A task id can be run again over the evidence of the run before. Approval
files, the team file, the index and the spool are read, changed and replaced
without a lock. A timeout races a late answer, and a daemon may serve what a dead
client asked for. Statements of several servers interleave, and may take effect
although they report an error. The same rule is written down in several tables or
computed twice, in configuration, policy, runner and connectors.

What makes the parts correct, in a sentence each:

- Configuration, policy, runners: what a container may read, write and reach is
  what the policy allows; what was accepted is not refused later for a reason that
  had been looked at; nothing runs unapproved that a rule restricts.
- Orchestrator: no start without a recorded permission; a status that is returned
  is the status that is durable; a clean status has whole evidence; nothing is
  left running unnoticed; statuses follow one lifecycle.
- Approval: a record is decided once, everybody is told that decision, nothing is
  approved by default, a decision in time beats the timeout, waiting ends.
- Runner process: the outcome is never better than what happened; after a timeout
  nothing of the run is left running; a client does not outlive its deadline.
- Artifacts: a diff shows the run's changes, all of them, or says why not.
- Gateway: no effect and no secret without permission, every effect announced in
  the log, a returned execution is the one recorded, one answer and one verdict
  per request; templates, plans and dispatch of a connector agree.
- Leases: a task is queued once, leased to one worker, finished once by it, and
  whoever is told so can rely on it.
- Exports: a completed export has its artifact. Index and replay records say
  nothing untrue; a replay leaves existing evidence alone.

## 2. Modules

| Module | What it models |
|---|---|
| `TaskLifecycle` | abstract: which status follows which, and that the agent is launched only while Running |
| `Orchestrator`, `OrchestratorProofs` | `Orchestrator::run`, its log and its process |
| `ApprovalOnce` | abstract: a record is decided once and that is what everybody is told |
| `InProcessApproval` | `LocalApprovalEngine` |
| `ExternalApproval` | `LocalExternalApprovalEngine` and the resolvers of its file |
| `TeamLease` | abstract: the lease of a task |
| `WorkerQueue` | `InMemoryWorkerQueue` |
| `PostgresLeases` | leases in Postgres |
| `PostgresExports` | tasks, artifacts and audit exports in Postgres, behind `TeamStateService` |
| `TeamAccess` | `evaluate_team_access` with its two tables |
| `LocalTeamFile` | every command on the local JSON file |
| `EvidenceStore`, `EvidenceStoreProofs` | runs, replays and `state index` over the evidence directories |
| `WorkspaceDiff` | `capture_baseline`, `collect_diff` |
| `GatewayOutcome` | what a tool action can end with, and the statuses made of it |
| `GatewayExecution`, `GatewayExecutionProofs` | `GatewayExecutor::execute_tool_action` with its mediator |
| `GatewaySpool`, `GatewaySpoolProofs` | `gateway call` and `gateway spool process` on one task |
| `GatewayListener` | `gateway listen`, extends `GatewayExecution` |
| `TaskConfig` | task files, their validation and what they resolve to |
| `Policy` | `BuiltInPolicyEngine` |
| `RunnerPlan` | agent adapters, capability reports, the Docker plan, the arguments of docker and ssh |
| `Connectors` | templates, planned usage, parameters, secrets and requests of the connectors |
| `TaskAdmission`, `TaskAdmissionProofs` | composes the four modules above, from a task file to its container or its request |
| `RunnerProcess` | `run_command_with_timeout` and the daemon |
| `SandboxedRun`, `RunnerProcessProofs` | composes `Orchestrator` and `RunnerProcess`: a task whose port `start` is that loop |
| `MC…` | instances for TLC; `MCStores` and `MCApprovals` also compose |
| `StoresProofs`, `ApprovalProofs` | proofs about `MCStores`, `MCApprovals` and the parts they compose |

Refinements: `Orchestrator` implements `TaskLifecycle`; `SandboxedRun` implements
`Orchestrator`; `InProcessApproval`
implements `ApprovalOnce`; `WorkerQueue`, `PostgresLeases` and `LocalTeamFile`
(while commands do not overlap) implement `TeamLease`. `ExternalApproval` does not
implement `ApprovalOnce`: two resolvers can both decide a record. What does hold
of it is stated by its own properties. `GatewayExecution` and `GatewaySpool` are
composed by a contract: `PossibleOutcomes` is what the first is shown to return
(`ContractKept`) and what the second takes an execution to be. `GatewayListener`
contains the executor itself.

### Orchestrator

`pc` is the next port call of the running process. Each call is an action with a
success and a failure outcome; the failure goes where the code goes: `?` to
`aborted`, the error branches to `preRunFailure`, `stop`, `runError`, `logError`,
`diffError` and `reportError`. `lines` is the file together with the writer's
buffer, `flushed` how much of it is known to be in the file, `events` the list in
memory that only grows when `record` returned Ok. When `record` fails, the record is
in the buffer all the same (`Join`), or, if it is longer than the buffer, cut short
(`Unflushed`); a fragment makes the next line unreadable. `EndProcess` empties the
memory and keeps any prefix of the buffer, torn or not: both a normal exit and a
kill end the process that way. `StartRun` opens the same log again for the next run
of the id. The lines of an event are abstracted to a kind and the one value
properties look at; `report` is what `ReportData` extracts from the events. `leak`
records a start or a stop that failed, and an exit other than zero: that is what
excuses a sandbox left up. (A client may report failure while its container goes on,
as when it loses its daemon; only success and removal say that it is over.)
`FinishPreRunFailure` looks for the Denied *event*, as `has_status` does, not for
the status.

### Approval

In `InProcessApproval` the two critical sections of `wait` are `Look` and `Store`;
between them the lock is free while a prompt runs (`Prompt`, one round per action).
In `ExternalApproval` the engine's places are `request`, `announce`, `poll`,
`timeout` (before the read in `resolve_with_actor`), `store` (between its read and
its write) and `recheck`; a resolver has the same two steps, and a third that tells
its caller: in between the decision is already in the file, where `wait` may find it.
`Expire` is the clock; it may strike between any two steps of `wait`. `EngineCrash`
and `ResolverCrash` kill a process, with its decision stored or not. A file is replaced by a rename and so
is one value. `writes` is a history variable.

### Team state

`TeamLease` keeps a lease per key, and in `granted` to whom it was ever announced.
`WorkerQueue` has one action per critical section. `PostgresLeases` splits
`lease_next` into the locking SELECT and UPDATE with COMMIT, and finishing into a
SELECT and a later UPDATE with a condition; `call` is what a connection is in the
middle of. An UPDATE or a COMMIT may take effect and be reported as failed: then
`granted` and `acked` do not change. `PostgresExports` has an action per statement
and two per file write. In `LocalTeamFile` a command is a process that opens,
applies, truncates and writes; `Kill` ends it between two of those, `TeamAccess`
guards it, a migration is a loop of load and save, and an export has its two saves
around the payload. A lease's worker is kept after the end (`by`), a memory the
code does not have in all stores; only the contract looks at it.

### Evidence, replay, workspace

`EvidenceStore` follows commands that share directories: a run writes inputs and
statuses, a replay reads plan and inputs in separate reads, looks whether its
directory exists, runs and compares, an index refresh lists and summarises one
directory after another. Files written in place are `Torn` between truncation and
write, and stay so if two writers overlap. `since` and `known` remember what a
command could have seen. In `WorkspaceDiff` a path has the contents git knows (last
commit, index, working tree); each git command is a step, and `Edit` changes the
workspace between any two of them. `touched` and `moved` are history variables:
what changed since the baseline, and while the diff was collected.

### Gateway

`GatewayExecution` follows one call. `pc` names the next step; mediation goes from
`normalize` to `decided`, `request` to `resolved` are the approval of the tool or of
the destination (`subject`), `usage` to `used` the loop over the usages an adapter
plans or reports (`phase`, `left`, `denial`). `Refuse` ends a call with an error
that is recorded as its outcome, `err` is a `?` that returns without one. Which of
the two follows a failure differs by place: an audit error inside the mediation, or
inside the approval of a destination, becomes an outcome, everywhere else it ends
the call. An event whose record failed may be in the log all the same
(`Unrecorded`). `setup` is how the executor was built and what kind of action it
got.

`GatewaySpool` has a process per command. They share the request file, which the
agent's wrapper empties before it writes it (`torn`), the response file, which is
looked for and then created with `create_new`, and the log, of which the set of
execution ends and terminal statuses with their command is kept. `Stop` is a failing
call or a kill at any step. The container has the whole spool mounted for writing, so
`TouchResponse` lets the agent delete, replace or overwrite a response between any two
steps (`edits`, `removed`): what a processor writes then goes into the file it still
has open. `GatewayListener` puts the executor between `read` and
`respond`: a connection is read, executed, recorded and answered, an error ends the
listener where the code's `?` does, and `--once` leads to the report.

### Task admission

`TaskConfig`, `Policy`, `RunnerPlan` and `Connectors` are operators: which texts,
paths and combinations are accepted, what the result is, in which order rules are
tried. A text is a value with a normal form and the kinds of characters it
contains; a path is a sequence of components; a pattern tells which texts it
matches literally and as a glob, and whether it is valid. `TaskAdmission` is the
pipeline: `Load`, `Invoke`, `Authorise`, `PrepareRun`, `Start`, and for the gateway
`ServeCall`; each step rejects or goes on, and `by` names the step that rejected.
The modules state the rules twice where the code does, which is what the properties
compare.

`RunnerProcess` has the loop of `run_command_with_timeout` step by step, and the
daemon as an external part that serves `create` and `start` in its own time, knows
containers by name and answers to `rm -f`. `LoseConnection` is a client that fails
while its agent goes on.

`SandboxedRun` is `Orchestrator::run` over that runner. `StartOf` gives each run of the
task the call of `start()` it makes, in a process of its own; the other members of `Run`
are other tasks, and `Name` may give all of them one container. While the task is at
`start`, its thread is in the loop (`Starting`); `StartReturns`, `CollectReturns` and
`StopReturns` are the port actions of `Orchestrator` with their outcome taken from the
loop. `TaskStep` is everything else, with a kill at any time: the killed run's client,
container and daemon go on (`Around`) beside the rerun. Both modules call their
position `pc`; here the orchestrator's is `step`.

## 3. Runs

| Run | Bounds | States | Shows |
|---|---|---|---|
| `task_run` | one run, both streams, a diff | 11 212 | permission, evidence of denials, clean outcomes, leaks, lifecycle |
| `task_rerun` | two runs, one stream | 2 994 550 | what a second run's log, status and report say after the first was killed anywhere |
| `approvals` | 2 waiters, or 3 resolvers with a timeout | 530 552 | decisions are explicit, justified, made once or by those who contend; the wait ends |
| `external_double` | two resolvers | | **violated**: two resolutions both succeed |
| `stores` | see below | 2 080 470 | the lease contracts, exports, index, replay and diff |
| `postgres_duplicate` | 1 task, 1 worker, 2 connections | | **violated**: two outcomes of one lease acknowledged |
| `local_team_overlap` | 1 task, 2 workers, 2 commands at a time | | **violated**: a task leased to two workers |
| `gateway_listener` | 2 connections, 2 usages per list, 2 secrets | 1 114 692 | every step of a call and of the listener around it |
| `gateway_spool` | 2 processors, 1 caller, 1 rewrite of the request, 1 edit of the response, 7 outcomes | 4 297 410 | one response, one verdict, statuses agree with the executions recorded |
| `task_admission` | families of task files and calls | 63 529 | the independent tables agree |
| `sandboxed_run` | 2 calls of `start()` for one container name: 2 processes, a task beside another, or 2 runs of a task | 2 416 650 | success is the agent's, nothing runs on after a run without a reported failure, an agent that runs is on record, no client stays past its deadline |
| `adapter_hints` | as `task_admission` | | **violated**: a profile's hints do not reach the container |

Why the bounds are enough. A run treats its streams in a loop of at most two, so
`Streams = 2` is the code's maximum. What an earlier run can do to a later one goes
through the log and the report alone; two runs have every pair of an end and a
beginning, and one stream is enough for a line that is cut short. Two waiters are
needed for different answers to one prompt; the three attempts are the code's
constant. Two resolvers are needed for a lost decision, a third one for a decision
that comes after it. In `stores`, one part of the system is in use per behaviour
(`used`), since the parts share no state: two connections interleave every pair of
statements on two rows; three queued tasks show the order of the queue; one command
at a time is killed anywhere in its life on the file, of which two tasks have
evidence; a runner and a replayer share two directories; two refreshers write one
index; a workspace of one ordinary path and one under `.taskfence/` is edited twice
in each of two runs. Two connections are needed for a listener that goes on after a
call, two usages for a denied one that is followed by an allowed one, two secrets for
a call that ends between them. Two processors race on a response, and one edit is
enough for a response that is gone, foreign or overwritten in the middle of the race; a
caller meets them in the log alone. The outcomes are one of each kind the statuses tell
apart. The task files of `task_admission` vary the fields that interact
together (paths, networks with gateway modes, command rules with agents, SSH
isolation, tool rules, connectors with references) and let every other field slip on
its own; calls have good parameters, one missing or one bad. In
`sandboxed_run` two calls of `start()` for one container name meet in every order; what
may meet is chosen first (`met`): two processes with a deadline each; a run of the task,
with a deadline, and one of another task; two runs of the task, of which the second
begins when the first has left a client or a container behind, as a killed one does
(a second run that meets nothing is what `task_rerun` checks). The output of the agent
is left out there, since only `task_run` asks about it. A run over SSH is one whose
container is never removed, which Docker runs may be, too, as their removal may fail. `Symmetry` permutes
processors and refreshers, which nothing tells apart; those runs check safety only.

`CHECK_DEADLOCK FALSE` is set for the stores and for `sandboxed_run`, where the
system really may stop: every task is finished, every command or run has ended, an
edit budget is spent. The other models say by `Finished` or `Done` where stopping is
meant, and a stop anywhere else is an error.

The violated runs are findings; `PROJECT.json` quotes the text each of them
contradicts. In short: a test says a second resolution is an error, which two
processes can circumvent; the architecture document says that duplicate transitions
are rejected by both backends, which the two statements of `finish_postgres_lease`
do not ensure; it says that a task is leased by one worker, which the unlocked JSON
file does not ensure; and it says that specialized profiles add hints for the
container, which `build_docker_run_args` leaves out and `RemoteSshRunner` rejects.

Fairness. Two runs check liveness. In `approvals`, weak fairness of the external
engine alone, its clock included, for `WaitReturns`: the loop polls a file and sleeps,
and nobody has to resolve anything. In `sandboxed_run`, weak fairness of the steps of
the polling loop (`try_wait`, the look at the clock, `kill`), which wait for nothing but
its sleep, and of the deadline's passing, for `ClientsEnd`: no agent has to end, and the
daemon owes nothing. It is stated where two processes meet, as a task may be killed in
its loop. That `start()` returns is not claimed, since past the deadline it waits for
`docker rm` and for the readers of the pipes without a limit. Nor is it claimed that
`Orchestrator::run` returns, which waits for its ports, or that a listener answers: the
connectors' requests and the write of the answer have no time limit.

### Behaviours worth knowing

No run asks about these; the models have them, and no document says otherwise.

- The final status of a run is recorded before its report exists
  (`docs/development-design.md` has the report as step 11 and the final state as 12).
- A `?` after the evidence directory was created leaves a log without a terminal
  status.
- A line longer than the writer's 8 KiB (a decision or a request quotes the whole
  command) that a failing write cuts short takes the Failed status, which is appended
  next, with it: the state store says Failed, the log ends with a status that is no end
  (`StatusesAgree` says as much).
- A spool request that is processed again is executed again: the response is looked
  for after the execution. And once the agent has deleted a response, the next
  processor creates one and puts a second verdict into the log.
- The destination of a fetch is evaluated once; a redirect leads the HTTP client on to
  a host that nobody evaluated. `EffectIsAuthorised` speaks of the destination the
  action names.
- `database.read` wants no approval, and its check of the statement is a search for
  keywords with blanks around them: a statement that passes it may still change data.
- An allowed domain with a NUL in it passes the configuration and the plan, and is
  refused only when the arguments of docker are built.
- With `--once`, the log of the listener ends Succeeded even if its only call was
  denied. A tool action that parses but cannot be normalised ends the listener, while
  malformed JSON is answered with 400; the task then stays Running.
- Replay limitations are never empty, so `replay run` without their acceptance never
  executes. A comparison may read the status of a later run of the source, and two
  replays may both find their directory absent.
- `validate` reports the network "bridge" for a default of allow with domains and
  egress, while the container starts with "none".
- Secret references are lower-cased, grants are not: a grant with a capital letter
  never matches. A secret parameter named like an operation parameter replaces it.
  Both refuse rather than allow.
- A database engine other than postgres is accepted, planned and approved, and refused
  by the client. Budget limits apply to a call, they do not accumulate.
- A create request the daemon serves after the kill leaves a created container, which
  makes the next run of that name fail. `stop` and `rm -f` act on the name only, and
  names are cut to 120 bytes.
- Two servers that export one task overlap on one file: the digest in the row may be
  that of the other's bytes. A migration may put a status that is out of date.
- A diff does not contain what the agent committed or what git ignores; tracked files
  under `.taskfence/` are in the patches though not in the status; a path that moves
  between unstaged and staged while git is asked may be listed twice or not at all; a
  run that collects no diff leaves the `diff.patch` of an earlier one, whose notes its
  report then quotes.
- A descendant of the client that keeps a pipe open keeps the run waiting for its
  readers, deadline or not, as does a `docker rm` that hangs.

## 4. Proofs

Eight modules hold the proofs. Each table row names the property a theorem states and
the inductive invariant behind it; each includes the type of the variables its steps need.

**Orchestrator** (`OrchestratorProofs`)

| Theorem | States | Invariant |
|---|---|---|
| `TypeCorrect` | `TypeOK` | itself |
| `StartIsAuthorised` | `StartAuthorised` | `Located`: from which places a start can still be reached and what was recorded by then; `Authority`: a sandbox has its permission |
| `RunFollowsLifecycle` | `Lifecycle` | `StatusAt`: which statuses are possible at which place |
| `NoRunLeaksSilently` | `NoSilentLeak` | `SandboxAt`: where a sandbox may be up |
| `DenialsLeaveEvidence` | `DeniedLeavesEvidence` | `Account`, its part `Denials`: who denied has the refusal and its decision on record |
| `CleanRunsAreWhole` | `CleanOutcome` | `Account`, `Exits`: a recorded exit is this run's, an error in the log is a failure of the run |
| `OutcomesAgree` | `StatusesAgree` | `Account`, `Intact` and `Statuses`: what is in the buffer, how it will be cut, and which status a reader will find |
| `PermissionPrecedesRunning` | `EvidencePrecedesRunning` | `Trace`: every Running in the file has its permission before it, and so will the next one |

`OutcomesAgree` holds for lines of any length, whichever kinds are `Large`. A line that
is cut short leaves a fragment, and the line after it joins the fragment and is lost to
readers. So a run that returns Failed may have no Failed line that can be read; what is
proved is that no reader finds another end then. In the runs every kind of event that
quotes a text may be longer than the buffer (`LargeKinds`).

**Approval** (`ApprovalProofs`)

| Theorem | States | Invariant |
|---|---|---|
| `RecordIsDecidedOnce`, `EverybodyIsToldTheSame` | the engine implements `ApprovalOnce`, and so nobody is told anything else | `Answered`: answers given are the decision on record |
| `ApprovalIsExplicit` | `ApprovedOnlyExplicitly` of the engine | `Source`: an approval that is chosen was typed or configured |
| `AnswersAreJustified` | `JustifiedAnswer`: an approval was stored by a resolver called to approve, told of it or not | `Origin`: every decision has its author |
| `LateResolutionsAreRejected`, `DecisionsInTimeStand` | `LateResolutionsRejected`, `DecidedInTimeStands` | the same |
| `UncontestedDecisionsStand` | `UncontestedDecisionStands` | `Stored`: the file shows a decision from the first one stored on, and nobody heard of one before |
| `ApprovalsAreGiven`, `EngineDecidesOnce` | the invariants and `DecidedOnce` of `MCApprovals`, where both engines run side by side | those of the two |

**Team state, evidence, workspace** (`StoresProofs`, `EvidenceStoreProofs`)

| Theorem | States | Invariant |
|---|---|---|
| `LessorIsAlone`, `RowsImplementLeases` | `LeaseContract` of `PostgresLeases` | `SoleLessor` with `TypeOK`, which ties each lock to its call |
| `LeaseHasOneLessee` | `Q!OneLessee` of the rows, from the contract alone | `OneLessee` |
| `AcknowledgedIsFinished` | `AckedIsFinished` | `FinishInv`: what a finishing call knows of its row |
| `QueueImplementsLeases` | `QueueContract` | the refinement needs none: one mutex, one step |
| `FileImplementsLeases` | `FileContract` | `CopyInv`: the copy a command will save is one step of the abstract store away from the file |
| `DamageStays` | `DamageIsNotForgotten` | none: no command is active on a damaged file, and none opens it |
| `CompletedExportsAreBacked` | `ExportsAreBacked` | `ExportInv`: what each server has checked of its export so far; `FileInv`: the file and every copy in memory are backed |
| `DiffsTellTheRun` | `DiffTellsTheRun` | `SinceBaseline`: what differs was touched since; `SinceStatus`: what stood still is listed by the commands that are over |
| `DerivedFilesAreTrue`, `ReplaysFailClosed` | `DerivedFilesHold`, `ReplayFailsClosed` of `EvidenceStore` | `Inv`: each command has seen what it remembers (`Watched`, `Recalled`, `Listed`), a replay in its run is vetted (`Vetted`), a record is of a replay that is over (`RecordHolds`) |
| `DerivedFilesStayTrue`, `ReplaysStayClosed` | the same of `MCStores` | instances of the two |

`FileImplementsLeases` assumes `OneAtATime`: commands do not overlap, though each may
be killed anywhere. `local_team_overlap` shows that it is needed. `DamageStays` and
`CompletedExportsAreBacked` do not need it. The theorems of `EvidenceStore` assume
`Kinds`: no command is a run and a replay or a refresh at a time; `MCStores` assumes
the same of its constants. The parts of `MCStores` are proved about
each on its own: `PartSteps` shows that a step of the whole is a step of the part in
use and a stutter of the others, and `PartsBehave` that the whole implies each part's
specification.

**Gateway** (`GatewayExecutionProofs`, `GatewaySpoolProofs`)

| Theorem | States | Invariant |
|---|---|---|
| `TypeCorrect` | `TypeOK` with `Located` | itself |
| `EffectsAreAuthorised` | `EffectIsAuthorised` | `Progress`: what an execution holds at which place; `Authority`: what the log shows at each place before the start |
| `ExecutorKeepsContract` | `ContractKept` | `Progress` |
| `SecretsFollowChecks` | `SecretsAfterChecks` | `Unbegun`, `Granted`: the checks passed before a line of the log after which only the start or the end was recorded |
| `ReturnsAreRecorded` | `ReturnedIsRecorded`: the last line of a returned execution, and no earlier one, is its end | `Told` |
| `ListenerKeepsChecks` | the three invariants above, of every call a listener serves | `Sound`, the conjunction of all of them |
| `AnswersHaveRecords` | `AnswersAreRecorded` of `GatewayListener` | `Heard`: an answer is given after its status is in the log, and stays until the next connection |
| `VerdictIsTheResponse`, `StatusesHaveEvidence` | `OneVerdict`, `StatusMatchesEvidence` | `Course`: what a command has in the log at each place, and whose response it found; `Response`: a complete one has its author |
| `ResponsesStand` | `ResponseStands` | the same |

**Runner** (`RunnerProcessProofs`)

| Theorem | States | Invariant |
|---|---|---|
| `OutcomesAreTruthful` | `OutcomeIsTruthful` | `Truthful`: what the caller holds is what was seen |
| `TimedOutRunsAreOver` | `TimedOutIsOver` | `OneLife`: a run's container is made and started once; `Over`: a removed one has no client that could start it again |
| `AgentsAreOnRecord` | `AgentIsOnRecord` of `SandboxedRun` | `Joint`, its part `Recorded`: a call of `start()` has its Running line in the file, and a permission before it |
| `SuccessesAreTheAgents` | `SuccessIsTheAgents` | `Joint`, its part `Known`: an exit of zero, and a sandbox that is over, are the agent's own end or its removal |
| `NothingOutlivesTheRun` | `NothingRunsOn` | the same, with `NoSilentLeak` of the task: without a leak, a run that is over has no sandbox up |

The last three are theorems of the composition. They rest on the parts: `RunnerSteps`
shows that a step of the whole is a step of the runners or a stutter, so that their
invariant `Inv` holds of it, and `TaskBehaves` that the whole implies the specification
of `Orchestrator`, so that every theorem of `OrchestratorProofs` holds of a task over
the real loop, `NoSilentLeak` and `Trace` among them (`TaskProofs` is that module with
`step` for `pc`). `Joint` says what the parts do not: which calls of `start()` are
still to come (`Untouched`), and what the task knows of its runner. It is needed
because each part sees the other only through the port: the task that returns Succeeded
knows an exit status, not what the agent did. What the task's log holds is followed in
`OrchestratorProofs` by `OnRecord`, which no step takes back between two runs
(`Onward`), whatever fails and whatever a kill cuts from the buffer.

**From a task file to its container** (`TaskAdmissionProofs`)

| Theorem | States | Lemmas beside `Trail` |
|---|---|---|
| `FilesAreAsAllowed` | `FilesFollowPolicy` | `ContainerPrefixes`: a directory holds a path in the container as it does on the host; `HoldersNest` with the refusal of mixed overlaps: the mounts that hold a path have one mode; `DeepestMount`; `ShownInPlace`: every root that holds a file shows it at the file's own place in the container |
| `NothingIsBeyondPolicy` | `NothingBeyondPolicy` | `NetworkWorkedOutTwice`: plan and arguments agree on the network, and it is open only if the task says so; `RemoteAllowsNetwork` |
| `StartFailsForTexts` | `LateRejections` | `WhyDockerIsRefused`, `WhySshIsRefused`, `MountsCanBeWritten`: each check of the start is implied by an earlier one but for the texts named |
| `UnapprovedIsClear` | `UnapprovedIsAllowed` | `FirstPair`: of the pairs of a spelling and a pattern that settle a decision one comes first; `AnswerOfPatterns`, `AnswerOfLists`, `PassesTheLists` |
| `ConnectorsServeTemplates` | `TemplatesAreServed` | `TemplateContract`: each adapter has a request for each operation of its template; what is sent without an approval is a GET, or a statement that passed the search for keywords |

`Trail`, the invariant of all five, says that everything a step leaves behind is made
from the one task file, and that every check the run is past has accepted it. The rest
is about the rules themselves, for any task file of the shape `RawTaskFile`, any
links, texts, hosts, paths and calls. Assumed of the tables are only facts of the
texts they stand for: a link leads to a path, a newline is white space, the names the
runner itself puts into paths contain no comma and no NUL, nor do those of the variables
it sets a NUL. A link is resolved when the task file is loaded and is taken to stay what
it is. `FilesFollowPolicy` looks at every path of the host through every mount
(`Modes`): the spool, which the policy denies and the runner mounts at
`/taskfence/gateway-spool`, is the one exception, and the property names it.

They hold for every value of the constants: any number of streams up to two, runs,
waiters, resolvers, connections, servers, tasks, workers, commands, paths, processors,
usages, secrets, task files, hosts and calls. Apart from the hypotheses `OneAtATime` and `Kinds`, the assumptions are
those the modules state of their constants, which TLC evaluates. The invariants are
needed because the properties speak of what was recorded in the past, or of something
a process has read: `StartAuthorised` for instance is not inductive, since a state in
which the run is about to start without a permission satisfies it.

The proofs corrected the model in two respects. `FinalStatus` of `Orchestrator`, and
the dispatch in `Connectors` and `Policy`, had a CASE with guards that overlap; TLC takes
the first that holds, which is what the code's chain of conditions does, but the
definition allowed any. They are IF chains now. And `CollectExit` took every exit for
the end of the sandbox, which the refinement by `SandboxedRun` refuted: a client that
lost its daemon reports a failure while its agent goes on. Such an exit is a `leak` now.

They also sharpened two definitions. `EvaluateBudget` names the first limit of its kind
instead of filtering the list. `NothingBeyondPolicy` leaves out the variables the plan
sets itself: a host may have one of the same name, which the plan overwrites.

Only model-checked are the liveness properties `WaitReturns` and `ClientsEnd`, which are
out of the prover's reach. All other properties of the passing runs are stated by a
theorem. Two are proved and not among the runs' properties, which say more:
`OutcomeIsTruthful` and `TimedOutIsOver` are what `SuccessIsTheAgents` and
`NothingRunsOn` make of the runner.

## 5. Not modelled, and what comes next

Not modelled, since they are computations on texts or only read: YAML and JSON
parsing, the syntax of globs, the redaction of the audit log, the Markdown of
reports, the compliance report, the pages and read-only routes of the review server,
the texts of requests and results of the connectors, the cut of a diff at its largest
size. `evaluate_approval_resolution` has no caller outside its tests, and the check
of artifact roots is a computation on paths with the one root the CLI configures. The
fake runner is a test double. What is outside the repository (git, docker, ssh,
Postgres, the connectors' services) is modelled by what the code may see of it.

Left for later: a gateway command and a run of the same task over one log.
