---------------------------- MODULE RunnerProcess ----------------------------
(***************************************************************************)
(* run_command_with_timeout, as DockerRunner and RemoteSshRunner use it:   *)
(* the client is spawned and polled, killed at the deadline, the container *)
(* is removed by name, and the readers of its output are joined.  The      *)
(* daemon is external: it serves the requests of a client even if that     *)
(* client is dead by then, and knows a container by its name alone.        *)
(***************************************************************************)
EXTENDS Naturals, FiniteSets

CONSTANTS
  Run,        \* calls of start(), each in a process of its own
  DockerRun,  \* those of DockerRunner; the others are RemoteSshRunner's
  Name,       \* the container name of each run (docker_container_name)
  Timed       \* the runs whose task has a timeout

ASSUME RunAssumption == DockerRun \subseteq Run /\ Timed \subseteq Run

VARIABLES
  pc,          \* where start() is
  client,      \* the docker or ssh process
  request,     \* what the client asked the daemon, or the remote host, last
  containers,  \* the containers: whose, and whether they are running
  agent,       \* how the agent of the run ended
  expired,     \* whether the deadline has passed
  timedOut,    \* the flag of the same name
  result,      \* what start() returned
  removed      \* whether the removal of the container took effect

vars == <<pc, client, request, containers, agent, expired, timedOut, result, removed>>

Exited == {"ok", "failed"}

Init ==
  /\ pc = [r \in Run |-> "idle"] /\ client = [r \in Run |-> "none"]
  /\ request = [r \in Run |-> "none"] /\ containers = {}
  /\ agent = [r \in Run |-> "none"] /\ expired = [r \in Run |-> FALSE]
  /\ timedOut = [r \in Run |-> FALSE] /\ result = [r \in Run |-> "none"]
  /\ removed = [r \in Run |-> FALSE]

-----------------------------------------------------------------------------
(* The daemon, the containers and the clients: external.                    *)

\* The client's process ends with this status unless it has ended before.
ClientEnds(r, how) == [client EXCEPT ![r] = IF @ = "alive" THEN how ELSE @]

Taken(r) == \E c \in containers : Name[c.of] = Name[r]

\* A second container of a name is refused, and the client fails (status 125).
ServeCreate(r) ==
  /\ request[r] = "create"
  /\ \/ /\ ~Taken(r)
        /\ containers' = containers \cup {[of |-> r, running |-> FALSE]}
        /\ request' = [request EXCEPT ![r] = "created"] /\ UNCHANGED client
     \/ /\ Taken(r) /\ client' = ClientEnds(r, "failed")
        /\ request' = [request EXCEPT ![r] = "none"] /\ UNCHANGED containers
  /\ UNCHANGED <<pc, agent, expired, timedOut, result, removed>>

AskStart(r) ==
  /\ request[r] = "created" /\ client[r] = "alive"
  /\ request' = [request EXCEPT ![r] = "start"]
  /\ UNCHANGED <<pc, client, containers, agent, expired, timedOut, result, removed>>

ServeStart(r) ==
  /\ request[r] = "start" /\ request' = [request EXCEPT ![r] = "attached"]
  /\ LET own == [of |-> r, running |-> FALSE]
     IN IF own \in containers
        THEN /\ containers' = (containers \ {own}) \cup {[of |-> r, running |-> TRUE]}
             /\ UNCHANGED client
        ELSE client' = ClientEnds(r, "failed") /\ UNCHANGED containers
  /\ UNCHANGED <<pc, agent, expired, timedOut, result, removed>>

\* The agent ends by itself; its container goes with it (--rm).
AgentEnds(r) ==
  LET own == [of |-> r, running |-> TRUE]
  IN /\ own \in containers /\ containers' = containers \ {own}
     /\ \E how \in Exited :
          agent' = [agent EXCEPT ![r] = how] /\ client' = ClientEnds(r, how)
     /\ UNCHANGED <<pc, request, expired, timedOut, result, removed>>

\* A client that loses its daemon or its remote host fails; the agent goes on.
LoseConnection(r) ==
  /\ client[r] = "alive" /\ client' = ClientEnds(r, "failed")
  /\ UNCHANGED <<pc, request, containers, agent, expired, timedOut, result, removed>>

\* docker rm -f removes whatever container has the name.
RemoveByName(r) ==
  LET gone == {c \in containers : Name[c.of] = Name[r]}
      cut == {c.of : c \in {g \in gone : g.running}}
  IN /\ containers' = containers \ gone
     /\ agent' = [o \in Run |-> IF o \in cut THEN "cut" ELSE agent[o]]
     /\ client' = [o \in Run |-> IF o \in cut /\ client[o] = "alive" THEN "failed" ELSE client[o]]

Expire(r) ==
  /\ r \in Timed /\ pc[r] # "idle" /\ ~expired[r] /\ expired' = [expired EXCEPT ![r] = TRUE]
  /\ UNCHANGED <<pc, client, request, containers, agent, timedOut, result, removed>>

-----------------------------------------------------------------------------
(* start().                                                                 *)

Goto(r, to) == pc' = [pc EXCEPT ![r] = to]
Return(r, value) == Goto(r, "done") /\ result' = [result EXCEPT ![r] = value]

Spawn(r) ==
  /\ pc[r] = "idle"
  /\ \/ /\ Goto(r, "poll") /\ client' = [client EXCEPT ![r] = "alive"]
        /\ request' = [request EXCEPT ![r] = "create"] /\ UNCHANGED result
     \/ Return(r, "error") /\ UNCHANGED <<client, request>>
  /\ UNCHANGED <<containers, agent, expired, timedOut, removed>>

\* try_wait: an error is returned at once, with the client left as it is.
TryWait(r) ==
  /\ pc[r] = "poll"
  /\ \/ client[r] # "alive" /\ Goto(r, "join") /\ UNCHANGED result
     \/ client[r] = "alive" /\ Goto(r, "deadline") /\ UNCHANGED result
     \/ Return(r, "error")
  /\ UNCHANGED <<client, request, containers, agent, expired, timedOut, removed>>

\* Faulty variant: the clock of the deadline starts anew at every poll.
CheckDeadlineAnew(r) ==
  /\ pc[r] = "deadline" /\ Goto(r, "poll")
  /\ UNCHANGED <<client, request, containers, agent, expired, timedOut, result, removed>>

\* The deadline is looked at after the status; in between the client may end.
CheckDeadline(r) ==
  /\ pc[r] = "deadline"
  /\ IF expired[r] THEN Goto(r, "kill") /\ timedOut' = [timedOut EXCEPT ![r] = TRUE]
                   ELSE Goto(r, "poll") /\ UNCHANGED timedOut
  /\ UNCHANGED <<client, request, containers, agent, expired, result, removed>>

\* A client that cannot be killed ends the call before the container is removed.
Kill(r) ==
  /\ pc[r] = "kill"
  /\ \/ Goto(r, "remove") /\ client' = ClientEnds(r, "killed") /\ UNCHANGED result
     \/ Return(r, "error") /\ UNCHANGED client
  /\ UNCHANGED <<request, containers, agent, expired, timedOut, removed>>

\* Faulty variant: as over SSH, nothing is removed.
KillOnly(r) ==
  /\ pc[r] = "remove" /\ Goto(r, "wait") /\ removed' = [removed EXCEPT ![r] = TRUE]
  /\ UNCHANGED <<client, request, containers, agent, expired, timedOut, result>>

\* Only a container is removed; whether that worked is ignored.  The docker rm that
\* removes it is waited for without a limit: the step need never happen.
Cleanup(r) ==
  /\ pc[r] = "remove" /\ Goto(r, "wait")
  /\ \/ /\ r \in DockerRun /\ RemoveByName(r) /\ removed' = [removed EXCEPT ![r] = TRUE]
     \/ UNCHANGED <<containers, agent, client, removed>>
  /\ UNCHANGED <<request, expired, timedOut, result>>

WaitKilled(r) ==
  /\ pc[r] = "wait"
  /\ \/ client[r] # "alive" /\ Goto(r, "join") /\ UNCHANGED result
     \/ Return(r, "error")
  /\ UNCHANGED <<client, request, containers, agent, expired, timedOut, removed>>

\* Faulty variant: a client without an exit code counts as successful.
OutcomeDefaultZero(r) == IF client[r] = "killed" THEN "ok" ELSE client[r]

\* The exit status that is reported.
Outcome(r) ==
  IF timedOut[r] THEN "timeout" ELSE IF client[r] = "killed" THEN "signal" ELSE client[r]

\* The readers end when the last process that holds an end of the pipes does, which
\* may be one the client started: this step need never happen either.
JoinReaders(r) ==
  /\ pc[r] = "join" /\ (Return(r, Outcome(r)) \/ Return(r, "error"))
  /\ UNCHANGED <<client, request, containers, agent, expired, timedOut, removed>>

\* stop(), when the outcome of the run was not to be had: by then the client is
\* gone, and the name may be another run's. A docker rm that fails is ignored.
Stop(r) ==
  /\ pc[r] = "done" /\ result[r] \notin {"none", "error"} /\ Goto(r, "stopped")
  /\ \/ r \in DockerRun /\ RemoveByName(r) /\ removed' = [removed EXCEPT ![r] = TRUE]
     \/ UNCHANGED <<containers, agent, client, removed>>
  /\ UNCHANGED <<request, expired, timedOut, result>>

\* The steps of the polling loop wait for nothing but its sleep.
Polling(r) == TryWait(r) \/ CheckDeadline(r) \/ Kill(r)
Caller(r) == Polling(r) \/ Cleanup(r) \/ WaitKilled(r) \/ JoinReaders(r)
External(r) == \/ ServeCreate(r) \/ AskStart(r) \/ ServeStart(r) \/ AgentEnds(r)
               \/ LoseConnection(r) \/ Expire(r)

Next == \E r \in Run : Spawn(r) \/ Caller(r) \/ Stop(r) \/ External(r)

\* The caller's loop runs on, and time passes; no agent has to end, no daemon has
\* to answer, and nothing that waits for them has to go on.
Fairness == \A r \in Run : WF_vars(Polling(r)) /\ WF_vars(Expire(r))
Spec == Init /\ [][Next]_vars /\ Fairness

-----------------------------------------------------------------------------
\* The outcome is never better than what happened: success is reported only for
\* an agent that ended well in a container of the run's own, and a timeout only
\* past the deadline, even if names are shared or the client ends at the deadline
\* (run_command_with_timeout, runner lib.rs:1082-1124).
OutcomeIsTruthful ==
  \A r \in Run : /\ result[r] = "ok" => agent[r] = "ok"
                 /\ result[r] = "timeout" => expired[r]

\* Once a Docker run has returned as timed out and the removal of its container
\* took effect, no container of it runs, and none will: a request of the killed
\* client that the daemon serves later can leave one behind, but not start it.
TimedOutIsOver ==
  \A r \in DockerRun : result[r] = "timeout" /\ removed[r] =>
    [of |-> r, running |-> TRUE] \notin containers

\* The client of a run with a timeout is gone in the end, or start() has given up
\* with an error.
TimedClientEnds == \A r \in Timed : pc[r] # "idle" ~> client[r] # "alive" \/ result[r] = "error"
=============================================================================
