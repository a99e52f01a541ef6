---------------------------- MODULE SandboxedRun ----------------------------
(***************************************************************************)
(* Orchestrator::run over a real runner: its port runner.start is the loop *)
(* of run_command_with_timeout, while the daemon serves what the clients   *)
(* of this process, of the process before it and of other tasks asked.     *)
(***************************************************************************)
EXTENDS RunnerProcess, Sequences

CONSTANTS
  Streams, FileDiff, Large, MaxRuns,  \* of Orchestrator
  StartOf                             \* the call of start() each run of the task may make

ASSUME StartOfAssumption ==
  /\ StartOf \in [1..MaxRuns -> Run]
  /\ \A k, l \in 1..MaxRuns : StartOf[k] = StartOf[l] => k = l
ASSUME TaskAssumption == Streams \in 0..2 /\ FileDiff \in BOOLEAN /\ MaxRuns \in Nat

VARIABLES
  step,      \* pc of Orchestrator
  run, status, lines, flushed, events, decision, answer, sandbox, exit,
  logged, failure, final, resolved, report, leak

Task == INSTANCE Orchestrator WITH pc <- step

taskVars == <<step, run, status, lines, flushed, events, decision, answer, sandbox, exit,
              logged, failure, final, resolved, report, leak>>
allVars  == <<vars, taskVars>>

\* The call of start() of the process that runs the task now, or ran it last.
Mine == StartOf[run]
Own  == {StartOf[k] : k \in 1..MaxRuns}

Ports == {"start", "collect", "stop"}

BothInit == Init /\ Task!Init

-----------------------------------------------------------------------------
\* Everything of the task but its calls of the runner, and a kill during them:
\* the client and the container outlive the process.
TaskStep ==
  /\ Task!Next /\ (step \in Ports => Task!Crash)
  /\ UNCHANGED vars

Starting == step = "start" /\ (Spawn(Mine) \/ Caller(Mine)) /\ UNCHANGED taskVars

\* An outcome that cannot be kept for collect_exit is lost.
StartReturns ==
  /\ step = "start" /\ pc[Mine] = "done"
  /\ Task!StartRunner
  /\ result[Mine] = "error" => step' = "runError"
  /\ step' = "runError" => (sandbox' = "up" <=> client[Mine] # "none")
  /\ UNCHANGED vars

ExitOf(r) == CASE result[r] = "ok" -> "zero" [] result[r] = "timeout" -> "timeout" [] OTHER -> "nonzero"

\* collect_exit hands out the outcome that start() kept.
CollectReturns ==
  /\ step = "collect"
  /\ Task!CollectExit
  /\ step' = "logs" =>
       exit' = ExitOf(Mine) /\ (sandbox' = "exited" <=> result[Mine] = "ok" \/ removed[Mine])
  /\ UNCHANGED vars

StopReturns ==
  /\ step = "stop"
  /\ Task!StopRunner
  /\ Stop(Mine) /\ (sandbox' = "exited" <=> removed'[Mine])

\* The daemon and the hosts, and other processes of TaskFence.
Around ==
  /\ \E r \in Run : External(r) \/ (r \notin Own /\ (Spawn(r) \/ Caller(r) \/ Stop(r)))
  /\ UNCHANGED taskVars

BothNext == TaskStep \/ Starting \/ StartReturns \/ CollectReturns \/ StopReturns \/ Around

BothSpec == BothInit /\ [][BothNext]_allVars

-----------------------------------------------------------------------------
Running(r) == [of |-> r, running |-> TRUE] \in containers

\* Whenever an agent of the latest run runs, or has run, its process alive or
\* killed, the durable log says so: Running stands there, no later Created
\* follows it, and the permission of this run stands before it (Orchestrator::run,
\* core lib.rs:1123-1126; run_command_with_timeout, runner lib.rs:1057-1069).
AgentIsOnRecord ==
  run > 0 /\ (Running(Mine) \/ agent[Mine] # "none") =>
    \E j \in 1..flushed :
      /\ lines[j] = Task!Status("Running")
      /\ \A k \in (j + 1)..flushed : lines[k] # Task!Status("Created")
      /\ \E i \in 1..(j - 1) :
           /\ lines[i] \in Task!Permit
           /\ \A k \in (i + 1)..(j - 1) : lines[k] # Task!Status("Created")

\* A run that returns Succeeded had its agent end well, in a container of its own
\* that is gone.
SuccessIsTheAgents ==
  step = "returned" /\ final = "Succeeded" => agent[Mine] = "ok" /\ ~Running(Mine)

\* When run() returns or gives up without a start, stop or exit that failed, no
\* agent of it runs on, and none is started by what the daemon serves late.
NothingRunsOn == step \in Task!Done /\ leak = {} /\ run > 0 => ~Running(Mine)
=============================================================================
