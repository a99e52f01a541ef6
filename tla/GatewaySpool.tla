---------------------------- MODULE GatewaySpool ----------------------------
(***************************************************************************)
(* The commands that carry out a tool action for a task: `gateway call`,   *)
(* and `gateway spool process` on one request file that the agent writes   *)
(* from inside its sandbox.  Commands are processes of their own; they     *)
(* share the audit log of the task, the request file and the response      *)
(* file.  The sandbox mounts the whole spool for reading and writing, so   *)
(* the agent reaches the response as well.  The execution in the middle of *)
(* a command ends as GatewayExecution may end.                             *)
(***************************************************************************)
EXTENDS Integers, GatewayOutcome

CONSTANTS
  Processors, \* runs of `gateway spool process` on the request
  Callers,    \* runs of `gateway call`
  Outcomes,   \* what an execution may end with
  MaxWrites,  \* bound: how often the agent rewrites the request under the commands
  MaxEdits    \* bound: how often the agent reaches for the response

Commands == Processors \cup Callers
ASSUME CommandsAssumption == Processors \cap Callers = {} /\ {"nobody", "agent"} \cap Commands = {}
ASSUME OutcomesAssumption == Outcomes \subseteq PossibleOutcomes
ASSUME BoundsAssumption == MaxWrites \in Nat /\ MaxEdits \in Nat

VARIABLES
  request,  \* the request file
  writes,   \* number of times the agent opened it for writing
  response, \* the response file: who created it and what it says
  edits,    \* number of times the agent touched the response file
  removed,  \* the agent took away a response that was there
  pc,       \* the next step of each command
  answer,   \* the response state a command has made up its mind about
  outcome,  \* the execution a command holds
  acted,    \* commands whose connector acted
  log       \* the task's log: ends of executions and terminal statuses, by command

memory == <<answer, outcome>>
agentVars == <<request, writes, edits, removed>>
vars   == <<agentVars, response, pc, memory, acted, log>>

Content   == {"call", "cancel", "expired", "malformed"}
NoResponse == [by |-> "nobody", state |-> "none"]
NoOutcome == [effect |-> FALSE, result |-> FALSE, error |-> "none"]
Terminal  == {"Succeeded", "Failed", "Denied", "TimedOut", "Cancelled"}
Ends      == {"ok", "refused", "stopped"}

Status(c, s) == [by |-> c, kind |-> "status", val |-> s]
Finish(c)    == [by |-> c, kind |-> "finished", val |-> outcome[c].error]

\* The agent may have written its request before the first command starts.
Init ==
  /\ request \in Content \cup {"absent"} /\ writes = 0
  /\ response = NoResponse /\ edits = 0 /\ removed = FALSE
  /\ pc = [c \in Commands |-> IF c \in Processors THEN "read" ELSE "execute"]
  /\ answer = [c \in Commands |-> "none"]
  /\ outcome = [c \in Commands |-> NoOutcome]
  /\ acted = {} /\ log = {}

-----------------------------------------------------------------------------
(* The agent.  The generated wrapper redirects into the file, which empties *)
(* it first; a request is cancelled by writing it again.                    *)

OpenRequest ==
  /\ writes < MaxWrites /\ request # "torn"
  /\ request' = "torn" /\ writes' = writes + 1
  /\ UNCHANGED <<edits, removed, response, pc, memory, acted, log>>

WriteRequest ==
  /\ request = "torn" /\ request' \in Content
  /\ UNCHANGED <<writes, edits, removed, response, pc, memory, acted, log>>

\* It deletes the response, puts a file of its own in that place, or writes over what
\* the file says: a processor that still has the file open then writes into it.
TouchResponse ==
  /\ edits < MaxEdits /\ edits' = edits + 1
  /\ \/ response # NoResponse /\ response' = NoResponse /\ removed' = TRUE
     \/ response' = [by |-> "agent", state |-> "foreign"] /\ removed' = (removed \/ response # NoResponse)
     \/ /\ response # NoResponse /\ response' = [response EXCEPT !.state = "foreign"]
        /\ UNCHANGED removed
  /\ UNCHANGED <<request, writes, pc, memory, acted, log>>

-----------------------------------------------------------------------------
(* Steps of a command.  What it records and prepares before it reads the    *)
(* request, or before it executes, other commands do not look at: a command *)
(* that fails there stops at the step that follows.  A `call` has its       *)
(* action from its arguments.                                               *)

Goto(c, from, to) == pc[c] = from /\ pc' = [pc EXCEPT ![c] = to]

\* Whatever a command remembers goes with its process.
Forget(c) ==
  answer' = [answer EXCEPT ![c] = "none"] /\ outcome' = [outcome EXCEPT ![c] = NoOutcome]

\* No request can be read from the file: it is missing or half-written, it does not
\* parse, or its name or kind is not the one of a request file.
Unreadable == {"absent", "torn", "malformed"}

\* What a request that is not executed is answered with.
Shortcut(content) ==
  CASE content = "cancel"      -> "Cancelled"
    [] content = "expired"     -> "TimedOut"
    [] content \in Unreadable -> "MalformedRequest"

ReadRequest(c) ==
  /\ IF request = "call"
       THEN Goto(c, "read", "execute") /\ UNCHANGED answer
       ELSE Goto(c, "read", "check") /\ answer' = [answer EXCEPT ![c] = Shortcut(request)]
  /\ UNCHANGED <<agentVars, response, outcome, acted, log>>

Execute(c) ==
  /\ Goto(c, "execute", "finish")
  /\ \E o \in Outcomes :
       /\ outcome' = [outcome EXCEPT ![c] = o]
       /\ acted' = IF o.effect THEN acted \cup {c} ELSE acted
  /\ UNCHANGED <<agentVars, response, answer, log>>

\* The execution is recorded; the artifacts of its result follow, and what to
\* answer is settled.
RecordFinished(c) ==
  /\ Goto(c, "finish", IF c \in Processors THEN "check" ELSE "finalise")
  /\ log' = log \cup {Finish(c)}
  /\ answer' = [answer EXCEPT ![c] = ResponseState(outcome[c].error)]
  /\ UNCHANGED <<agentVars, response, outcome, acted>>

-----------------------------------------------------------------------------
(* write_gateway_spool_response: look for a response, create the file only  *)
(* if there is none, write it.                                              *)

\* The status a command ends with.
FinalStatus(c) ==
  IF c \in Processors THEN SpoolStatus(answer[c]) ELSE ExecutionStatus(outcome[c].error)

Refuse(c, from) == Goto(c, from, "refused") /\ Forget(c)

\* Faulty variant: a processor finishes before it looks for a response.
RefuseAfterStatus(c) ==
  /\ \/ response.state = "none" /\ Goto(c, "check", "create") /\ UNCHANGED <<memory, log>>
     \/ /\ response.state # "none" /\ Refuse(c, "check")
        /\ log' = log \cup {Status(c, FinalStatus(c))}
  /\ UNCHANGED <<agentVars, response, acted>>

CheckResponse(c) ==
  /\ \/ response.state = "none" /\ Goto(c, "check", "create") /\ UNCHANGED memory
     \/ response.state # "none" /\ Refuse(c, "check")
  /\ UNCHANGED <<agentVars, response, acted, log>>

\* Faulty variant: the file is opened without create_new.
CreateOrTruncate(c) ==
  /\ Goto(c, "create", "write")
  /\ response' = [by |-> c, state |-> "torn"]
  /\ UNCHANGED <<agentVars, memory, acted, log>>

CreateResponse(c) ==
  /\ \/ /\ response.state = "none" /\ Goto(c, "create", "write")
        /\ response' = [by |-> c, state |-> "torn"] /\ UNCHANGED memory
     \/ response.state # "none" /\ Refuse(c, "create") /\ UNCHANGED response
  /\ UNCHANGED <<agentVars, acted, log>>

\* What is written reaches the file this processor created, if that is still the one
\* with the name, and may be followed by the rest of a longer text of the agent.
WriteResponse(c) ==
  /\ Goto(c, "write", "finalise")
  /\ response' \in
       IF response.by # c THEN {response}
       ELSE {[by |-> c, state |-> s] :
               s \in {answer[c]} \cup ({"foreign"} \cap {response.state})}
  /\ UNCHANGED <<agentVars, memory, acted, log>>

-----------------------------------------------------------------------------
(* The end: terminal status, report, exit.                                  *)

Finalise(c) ==
  /\ Goto(c, "finalise", "report") /\ log' = log \cup {Status(c, FinalStatus(c))}
  /\ UNCHANGED <<agentVars, response, memory, acted>>

Report(c) ==
  /\ Goto(c, "report", "ok") /\ Forget(c)
  /\ UNCHANGED <<agentVars, response, acted, log>>

\* A call fails, or the process is killed.  A line whose record failed may be
\* in the log all the same: then it is as if the command stopped after it.  An
\* executor that returns an error may have acted.
Stop(c) ==
  /\ pc[c] \notin Ends /\ pc' = [pc EXCEPT ![c] = "stopped"] /\ Forget(c)
  /\ acted' \in (IF pc[c] = "execute" THEN {acted, acted \cup {c}} ELSE {acted})
  /\ UNCHANGED <<agentVars, response, log>>

Step(c) ==
  \/ ReadRequest(c) \/ Execute(c) \/ RecordFinished(c)
  \/ CheckResponse(c) \/ CreateResponse(c) \/ WriteResponse(c) \/ Finalise(c) \/ Report(c)

Finished == (\A c \in Commands : pc[c] \in Ends) /\ UNCHANGED vars

Next ==
  \/ OpenRequest \/ WriteRequest \/ TouchResponse
  \/ (\E c \in Commands : Step(c) \/ Stop(c))
  \/ Finished

Spec == Init /\ [][Next]_vars

-----------------------------------------------------------------------------
\* No step of a command changes a response that is complete, or a file that the agent
\* put in its place: of the processors of one request only the one that created the
\* file fills it (write_gateway_spool_response, create_new).
ResponseStands ==
  [][(response.state \in SpoolState \/ response.by = "agent") /\ edits' = edits
       => response' = response]_vars

\* However many processors work on a request, as long as the agent has not taken away a
\* response at most one of them puts a terminal status into the task's log, the one
\* that created the response; and as long as the agent has not touched the response at
\* all, that is the status the response tells.
OneVerdict ==
  \A c \in Processors, s \in Terminal :
    Status(c, s) \in log =>
      /\ removed \/ response.by = c
      /\ edits > 0 \/ SpoolStatus(response.state) = s

\* The terminal status of a command agrees with the end of the execution it
\* recorded, in the same terms for `call` and `spool process`; a command that
\* recorded none has no success and no denial to report, and a success means
\* that the connector acted.
StatusMatchesEvidence ==
  \A c \in Commands, s \in Terminal :
    Status(c, s) \in log =>
      /\ \A l \in log : l.by = c /\ l.kind = "finished" => s = ExecutionStatus(l.val)
      /\ s \in {"Succeeded", "Denied"} => \E l \in log : l.by = c /\ l.kind = "finished"
      /\ s = "Succeeded" => c \in acted
=============================================================================
