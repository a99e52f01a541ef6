--------------------------- MODULE GatewayListener ---------------------------
(***************************************************************************)
(* taskfence gateway listen: a foreground process that opens the task's    *)
(* evidence, announces the task as running and then serves one connection  *)
(* after the other.  Every tool action is one execution of                 *)
(* GatewayExecution, whose variables hold the current one.                 *)
(***************************************************************************)
EXTENDS GatewayExecution

CONSTANT MaxConnections  \* bound: connections served

ASSUME MaxConnectionsAssumption == MaxConnections \in Nat \ {0}

VARIABLES
  place,   \* the next step of the listener
  once,    \* the option --once
  handled, \* connections taken so far
  trail,   \* statuses the listener has put into the task's log
  reply    \* what the client of the current connection was sent

listening == <<place, once, handled, trail, reply>>
allVars == <<vars, listening>>

Stopped == {"ended", "failed", "killed"}

ListenerInit ==
  /\ Init /\ place = "open" /\ once \in BOOLEAN
  /\ handled = 0 /\ trail = <<>> /\ reply = "none"

Move(from, to) == place = from /\ place' = to

\* A call that leaves no trace here; its error ends the listener.
Call(from, to) == (Move(from, to) \/ Move(from, "failed")) /\ UNCHANGED <<vars, once, handled, trail, reply>>

\* gateway_transition; a line whose record failed may be in the log all the same.
Transition(from, s, to) ==
  /\ \/ Move(from, to) /\ trail' = Append(trail, s)
     \/ Move(from, "failed") /\ trail' \in {trail, Append(trail, s)}
  /\ UNCHANGED <<vars, once, handled, reply>>

-----------------------------------------------------------------------------
\* A task without tools is refused; the directory, the resolved task and the
\* log precede the first status.
Open        == Call("open", "created")
Created     == Transition("created", "Created", "name")
RecordTask  == Call("name", "running")
Running     == Transition("running", "Running", "bind")
Bind        == Call("bind", "accept")

\* The next connection is given to a new executor.  Without --once the loop
\* has no end of its own.
Accept ==
  /\ handled < MaxConnections
  /\ \/ Move("accept", "read") /\ handled' = handled + 1
     \/ Move("accept", "failed") /\ UNCHANGED handled
  /\ reply' = "none" /\ pc' = "normalize" /\ setup' \in Setup /\ log' = <<>>
  /\ decision' = "none" /\ subject' = "tool" /\ answer' = "none"
  /\ phase' = "planned" /\ left' = 0 /\ denial' = FALSE
  /\ issued' = 0 /\ effect' = FALSE /\ result' = FALSE /\ error' = "none"
  /\ UNCHANGED <<once, trail>>

\* Where the loop goes after a connection.
Following == IF once THEN "reporting" ELSE "accept"

\* What cannot be read is answered with 400 and the listener goes on; what can
\* be read and cannot be normalized, or finds no registry, ends it.
Read ==
  /\ \/ Move("read", "execute") /\ UNCHANGED reply
     \/ Move("read", Following) /\ reply' = "malformed"
     \/ Move("read", "failed") /\ UNCHANGED reply
  /\ UNCHANGED <<vars, once, handled, trail>>

Execution == place = "execute" /\ Step /\ UNCHANGED listening

\* An error of the executor is one of the listener, whatever the action did.
Returned ==
  /\ \/ pc = "done" /\ Move("execute", "artifacts")
     \/ pc = "err" /\ Move("execute", "failed")
  /\ UNCHANGED <<vars, once, handled, trail, reply>>

\* Faulty variant: the client is answered before the status is in the log.
AnswerFirst ==
  /\ Move("artifacts", "status") /\ reply' = ExecutionStatus(error)
  /\ UNCHANGED <<vars, once, handled, trail>>

RecordArtifacts == Call("artifacts", "status")
RecordStatus    == Transition("status", ExecutionStatus(error), "respond")

Respond ==
  /\ \/ Move("respond", Following) /\ reply' = ExecutionStatus(error)
     \/ Move("respond", "failed") /\ reply' \in {reply, ExecutionStatus(error)}
  /\ UNCHANGED <<vars, once, handled, trail>>

Reporting      == Transition("reporting", "Reporting", "report")
GenerateReport == Call("report", "artifact")
RecordReport   == Call("artifact", "succeed")
Succeed        == Transition("succeed", "Succeeded", "ended")

KillListener ==
  /\ place \notin Stopped /\ place' = "killed" /\ UNCHANGED <<once, handled, trail, reply>>
  /\ IF place = "execute" /\ pc \notin Ends THEN Kill ELSE UNCHANGED vars

-----------------------------------------------------------------------------
Connection == Read \/ Execution \/ Returned \/ RecordArtifacts \/ RecordStatus \/ Respond
Begin == Open \/ Created \/ RecordTask \/ Running \/ Bind
End   == Reporting \/ GenerateReport \/ RecordReport \/ Succeed

Waiting == place = "accept" /\ handled = MaxConnections

ListenerNext ==
  \/ Begin \/ Accept \/ Connection \/ End \/ KillListener
  \/ (place \in Stopped \/ Waiting) /\ UNCHANGED allVars

\* One thread.  Nothing is assumed of its progress: the calls of the connectors and
\* of the client's socket wait without a limit.
ListenerSpec == ListenerInit /\ [][ListenerNext]_allVars

-----------------------------------------------------------------------------
\* A client is answered only after its execution is over and on record: the
\* answer is the last status of the task's log, it follows from the outcome the
\* execution recorded as its last event, and "Succeeded" means that the connector
\* acted (handle_gateway_listener_stream, execute_tool_action).
AnswersAreRecorded ==
  /\ place = "execute" => ReturnedIsRecorded
  /\ reply \in {"Succeeded", "Denied", "Failed"} =>
       /\ ReturnedIsRecorded /\ pc = "done" /\ reply = ExecutionStatus(error)
       /\ \E i \in DOMAIN trail :
            /\ trail[i] = reply
            /\ \A j \in DOMAIN trail : j > i => trail[j] \in {"Reporting", "Succeeded"}
       /\ reply = "Succeeded" => effect /\ result
=============================================================================
