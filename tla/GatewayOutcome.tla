--------------------------- MODULE GatewayOutcome ---------------------------
(***************************************************************************)
(* What one mediated tool action can end with, and the status each front   *)
(* end of the gateway makes of it.                                         *)
(***************************************************************************)

\* Kinds of errors by who raises them.
Refusals      == {"PolicyDenied", "ApprovalDeniedOrTimedOut"}
AdapterErrors == {"UnsupportedTool", "InvalidParameters", "AdapterFailed", "SecretUnavailable"}
ErrorKind     == Refusals \cup AdapterErrors
                   \cup {"UnsupportedProtocol", "UnregisteredTool", "BudgetExceeded"}

\* A finished execution: whether the connector acted, whether its result is
\* attached, and the error reported.
Outcome == [effect : BOOLEAN, result : BOOLEAN, error : ErrorKind \cup {"none"}]

\* The contract of the executor: a refusal is a refusal, a result stands for
\* an effect, and a budget error with an effect carries its result.  Only a
\* failing connector leaves it open whether something happened.
PossibleOutcomes ==
  [effect : {TRUE},  result : {TRUE},  error : {"none", "BudgetExceeded"}]
    \cup [effect : {FALSE}, result : {FALSE}, error : ErrorKind]
    \cup [effect : {TRUE},  result : {FALSE}, error : AdapterErrors]

\* gateway_execution_status: the exit status of `gateway call`.
ExecutionStatus(error) ==
  CASE error = "none" -> "Succeeded"
    [] error \in Refusals \cup {"BudgetExceeded"} -> "Denied"
    [] OTHER -> "Failed"

\* Faulty variant: a budget error is not among the refusals of a response.
BudgetErrorFails(error) ==
  CASE error = "none" -> "Succeeded"
    [] error \in Refusals -> "Denied"
    [] error \in {"UnsupportedProtocol", "UnsupportedTool"} -> "UnsupportedAction"
    [] OTHER -> "Failed"

\* GatewaySpoolResponse::from_execution and gateway_spool_task_status: the
\* state in a response file, and the task status read off that state.
ResponseState(error) ==
  CASE error = "none" -> "Succeeded"
    [] error \in Refusals \cup {"BudgetExceeded"} -> "Denied"
    [] error \in {"UnsupportedProtocol", "UnsupportedTool"} -> "UnsupportedAction"
    [] OTHER -> "Failed"

SpoolState == {"Succeeded", "Failed", "Denied", "TimedOut", "Cancelled",
               "MalformedRequest", "UnsupportedAction"}

SpoolStatus(state) ==
  IF state \in {"MalformedRequest", "UnsupportedAction"} THEN "Failed" ELSE state
=============================================================================
