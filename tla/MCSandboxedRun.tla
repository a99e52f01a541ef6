--------------------------- MODULE MCSandboxedRun ---------------------------
(***************************************************************************)
(* Three calls of start() for one container name, of which two meet in a   *)
(* behaviour: two processes by themselves; a run of the task beside one of *)
(* another task; or two runs of the task, of which the second meets what   *)
(* the first one left behind.                                              *)
(***************************************************************************)
EXTENDS SandboxedRun

CONSTANTS first, again, other

MCRun == {first, again, other}
MCTimed == {first, other}
MCName == [r \in MCRun |-> "taskfence-a"]
MCStartOf == [k \in 1..MaxRuns |-> IF k = 1 THEN first ELSE again]

VARIABLE met

MCInit == BothInit /\ met \in {"processes", "tasks", "runs"}

Leftovers == client[first] = "alive" \/ containers # {}

\* Bounds: a deadline may pass for two processes, or for the task beside another.
Processes ==
  /\ met = "processes"
  /\ \E r \in MCTimed : Spawn(r) \/ Caller(r) \/ Stop(r) \/ External(r)
  /\ UNCHANGED <<taskVars, met>>

Tasks == met = "tasks" /\ BothNext /\ run' < 2 /\ ~expired'[other] /\ UNCHANGED met

Runs ==
  /\ met = "runs" /\ BothNext /\ pc'[other] = "idle"
  /\ (run > 0 /\ run' > run) => Leftovers
  /\ UNCHANGED <<expired, met>>

MCNext == Processes \/ Tasks \/ Runs

\* The fairness of RunnerProcess, where no process is killed.
MCFairness ==
  \A r \in MCTimed :
    /\ WF_vars(met = "processes" /\ Polling(r))
    /\ WF_vars(met = "processes" /\ Expire(r))

MCSpec == MCInit /\ [][MCNext]_<<allVars, met>> /\ MCFairness

\* Past the deadline the client does not stay: start() kills it or gives up with an
\* error, whatever the agent and the daemon do.  Whether start() returns is another
\* matter: docker rm and the readers of the output are waited for without a limit
\* (run_command_with_timeout, runner lib.rs:1070-1111).
ClientsEnd == met = "processes" => TimedClientEnds
=============================================================================
