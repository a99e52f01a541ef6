-------------------------- MODULE GatewayExecution --------------------------
(***************************************************************************)
(* One call of GatewayExecutor::execute_tool_action: mediation, approval,  *)
(* planned budget, egress, secrets, the connector, observed budget, and    *)
(* the audit events between them.  A failing audit record or policy call   *)
(* ends the call with an error; the process may be killed at any point.    *)
(***************************************************************************)
EXTENDS Integers, Sequences, GatewayOutcome

CONSTANTS
  MaxUsages,  \* bound: budget usages an adapter reports at a time
  MaxSecrets  \* bound: secret references of an adapter

ASSUME MaxUsagesAssumption == MaxUsages \in Nat
ASSUME MaxSecretsAssumption == MaxSecrets \in Nat

VARIABLES
  setup,    \* how the executor was built, and what kind of action it is given
  pc,       \* the next step of the call
  log,      \* events of this call that are in the audit log
  decision, \* the policy decision about to be recorded
  subject,  \* what the pending approval is about: the tool or the destination
  answer,   \* decision of the approval record wait() returned
  phase,    \* which list of usages is evaluated: planned or observed
  left,     \* usages of that list still to be evaluated
  denial,   \* one of them was over its limit
  issued,   \* secret references the broker has handed out
  effect,   \* the connector has acted
  result,   \* its result is attached to the execution
  error     \* error of the execution

approving == <<subject, answer>>
budget    == <<phase, left, denial>>
execution == <<effect, result, error>>
vars == <<setup, pc, log, decision, approving, budget, issued, execution>>

Setup == [approval : BOOLEAN, registry : BOOLEAN, broker : BOOLEAN,
          egress : BOOLEAN, secrets : 0..MaxSecrets]
Decisions == {"Allow", "Deny", "RequireApproval"}
Answers   == {"Approved", "Denied", "TimedOut", "Unresolved"}
Subjects  == {"tool", "network", "budget"}
Ends      == {"done", "err", "killed"}

Event(kind, of, val) == [kind |-> kind, of |-> of, val |-> val]
Decided(of, d)       == Event("decision", of, d)
Resolved(of, a)      == Event("resolved", of, a)
Started              == Event("started", "none", "none")
FinishedWith(e)      == Event("finished", "none", e)
Events ==
  [kind : {"decision", "usage"}, of : Subjects, val : Decisions]
    \cup [kind : {"requested"}, of : Subjects, val : {"none"}]
    \cup [kind : {"resolved"}, of : Subjects, val : Answers]
    \cup [kind : {"error", "started"}, of : {"none"}, val : {"none"}]
    \cup [kind : {"finished"}, of : {"none"},
          val : [result : BOOLEAN, error : ErrorKind \cup {"none"}]]

-----------------------------------------------------------------------------
\* A record that fails may be in the log all the same.
Record(e) == log' = Append(log, e)
Unrecorded(e) == UNCHANGED log \/ Record(e)

Goto(from, to) == pc = from /\ pc' = to

\* End the call with an error that is still recorded as its outcome.
Refuse(kind) == pc' = "finish" /\ error' = kind

Init ==
  /\ setup \in Setup
  /\ pc = "normalize" /\ log = <<>>
  /\ decision = "none" /\ subject = "tool" /\ answer = "none"
  /\ phase = "planned" /\ left = 0 /\ denial = FALSE
  /\ issued = 0 /\ effect = FALSE /\ result = FALSE /\ error = "none"

-----------------------------------------------------------------------------
(* Mediation: normalize, protocol, registry, policy.  Any error of it, one  *)
(* of the audit log included, becomes the outcome of the execution.         *)

Normalize ==
  /\ pc = "normalize"
  /\ \/ pc' = "protocol" /\ UNCHANGED error
     \/ Refuse("InvalidParameters")
  /\ UNCHANGED <<setup, log, decision, approving, budget, issued, effect, result>>

CheckProtocol ==
  /\ pc = "protocol"
  /\ pc' \in {"unsupported", IF setup.registry THEN "registry" ELSE "policy"}
  /\ UNCHANGED <<setup, log, decision, approving, budget, issued, execution>>

CheckRegistry ==
  /\ pc = "registry"
  /\ pc' \in {"unregistered", "policy"}
  /\ UNCHANGED <<setup, log, decision, approving, budget, issued, execution>>

RecordRejection ==
  /\ pc \in {"unsupported", "unregistered"}
  /\ \/ /\ Record(Event("error", "none", "none"))
        /\ Refuse(IF pc = "unsupported" THEN "UnsupportedProtocol" ELSE "UnregisteredTool")
     \/ Unrecorded(Event("error", "none", "none")) /\ Refuse("AdapterFailed")
  /\ UNCHANGED <<setup, decision, approving, budget, issued, effect, result>>

EvaluateTool ==
  /\ pc = "policy"
  /\ \/ pc' = "decided" /\ decision' \in Decisions /\ UNCHANGED error
     \/ Refuse("PolicyDenied") /\ UNCHANGED decision
  /\ UNCHANGED <<setup, log, approving, budget, issued, effect, result>>

\* What follows a recorded decision about the tool or the destination.
Follow(of, next) ==
  \/ decision = "Allow" /\ pc' = next /\ UNCHANGED <<subject, error>>
  \/ decision = "Deny" /\ Refuse("PolicyDenied") /\ UNCHANGED subject
  \/ /\ decision = "RequireApproval"
     /\ IF setup.approval
          THEN pc' = "request" /\ subject' = of /\ UNCHANGED error
          ELSE Refuse("ApprovalDeniedOrTimedOut") /\ UNCHANGED subject

RecordToolDecision ==
  /\ pc = "decided"
  /\ \/ Record(Decided("tool", decision)) /\ Follow("tool", "plan")
     \/ Unrecorded(Decided("tool", decision)) /\ Refuse("AdapterFailed") /\ UNCHANGED subject
  /\ UNCHANGED <<setup, decision, answer, budget, issued, effect, result>>

-----------------------------------------------------------------------------
(* request_tool_approval, for the tool or for the destination.              *)

RequestApproval ==
  /\ pc = "request"
  /\ \/ pc' = "requested" /\ UNCHANGED error
     \/ \E kind \in {"ApprovalDeniedOrTimedOut", "AdapterFailed"} : Refuse(kind)
  /\ UNCHANGED <<setup, log, decision, approving, budget, issued, effect, result>>

RecordRequested ==
  /\ pc = "requested"
  /\ \/ Record(Event("requested", subject, "none")) /\ pc' = "wait" /\ UNCHANGED error
     \/ Unrecorded(Event("requested", subject, "none")) /\ Refuse("AdapterFailed")
  /\ UNCHANGED <<setup, decision, approving, budget, issued, effect, result>>

Wait ==
  /\ pc = "wait"
  /\ \/ pc' = "resolved" /\ answer' \in Answers /\ UNCHANGED error
     \/ /\ \E kind \in {"ApprovalDeniedOrTimedOut", "AdapterFailed"} : Refuse(kind)
        /\ UNCHANGED answer
  /\ UNCHANGED <<setup, log, decision, subject, budget, issued, effect, result>>

\* Faulty variant: an approval nobody resolved counts as given.
RecordResolvedFailsOpen ==
  /\ pc = "resolved"
  /\ Record(Resolved(subject, answer))
  /\ IF answer # "Denied"
       THEN pc' = (IF subject = "tool" THEN "plan" ELSE "secrets") /\ UNCHANGED error
       ELSE Refuse("ApprovalDeniedOrTimedOut")
  /\ UNCHANGED <<setup, decision, approving, budget, issued, effect, result>>

RecordResolved ==
  /\ pc = "resolved"
  /\ \/ /\ Record(Resolved(subject, answer))
        /\ IF answer = "Approved"
             THEN pc' = (IF subject = "tool" THEN "plan" ELSE "secrets") /\ UNCHANGED error
             ELSE Refuse("ApprovalDeniedOrTimedOut")
     \/ Unrecorded(Resolved(subject, answer)) /\ Refuse("AdapterFailed")
  /\ UNCHANGED <<setup, decision, approving, budget, issued, effect, result>>

-----------------------------------------------------------------------------
(* record_budget_usages, for what the adapter plans and for what it reports *)
(* afterwards.                                                              *)

PlanBudget ==
  /\ pc = "plan"
  /\ \/ pc' = "usage" /\ left' \in 0..MaxUsages /\ UNCHANGED error
     \/ \E kind \in AdapterErrors : Refuse(kind) /\ UNCHANGED left
  /\ UNCHANGED <<setup, log, decision, approving, phase, denial, issued, effect, result>>

\* A usage that does not normalize ends the list; the policy may fail.
EvaluateUsage ==
  /\ pc = "usage" /\ left > 0
  /\ \/ pc' = "budgetDecided" /\ decision' \in {"Allow", "Deny"} /\ UNCHANGED error
     \/ Refuse("BudgetExceeded") /\ UNCHANGED decision
     \/ pc' = "err" /\ UNCHANGED <<decision, error>>
  /\ UNCHANGED <<setup, log, approving, budget, issued, effect, result>>

RecordBudgetDecision ==
  /\ pc = "budgetDecided"
  /\ \/ Record(Decided("budget", decision)) /\ pc' = "used"
     \/ Unrecorded(Decided("budget", decision)) /\ pc' = "err"
  /\ UNCHANGED <<setup, decision, approving, budget, issued, execution>>

\* Faulty variant: the last usage decides, not any of them.
RecordUsageLastWins ==
  /\ Goto("used", "usage")
  /\ Record(Event("usage", "budget", decision))
  /\ left' = left - 1 /\ denial' = (decision = "Deny")
  /\ UNCHANGED <<setup, decision, approving, phase, issued, execution>>

RecordUsage ==
  /\ pc = "used"
  /\ \/ /\ Record(Event("usage", "budget", decision)) /\ pc' = "usage"
        /\ left' = left - 1 /\ denial' = (denial \/ decision = "Deny")
     \/ /\ Unrecorded(Event("usage", "budget", decision)) /\ pc' = "err"
        /\ UNCHANGED <<left, denial>>
  /\ UNCHANGED <<setup, decision, approving, phase, issued, execution>>

UsagesDone ==
  /\ pc = "usage" /\ left = 0
  /\ IF denial THEN Refuse("BudgetExceeded")
     ELSE pc' = (IF phase = "planned" THEN "egress" ELSE "finish") /\ UNCHANGED error
  /\ UNCHANGED <<setup, log, decision, approving, budget, issued, effect, result>>

-----------------------------------------------------------------------------
(* enforce_gateway_egress_policy and attach_configured_secret_references.   *)

EvaluateEgress ==
  /\ pc = "egress"
  /\ \/ ~setup.egress /\ pc' = "secrets" /\ UNCHANGED <<decision, error>>
     \/ setup.egress /\ Refuse("InvalidParameters") /\ UNCHANGED decision
     \/ setup.egress /\ pc' = "egressDecided" /\ decision' \in Decisions /\ UNCHANGED error
     \/ setup.egress /\ pc' = "err" /\ UNCHANGED <<decision, error>>
  /\ UNCHANGED <<setup, log, approving, budget, issued, effect, result>>

RecordEgressDecision ==
  /\ pc = "egressDecided"
  /\ \/ Record(Decided("network", decision)) /\ Follow("network", "secrets")
     \/ Unrecorded(Decided("network", decision)) /\ pc' = "err" /\ UNCHANGED <<subject, error>>
  /\ UNCHANGED <<setup, decision, answer, budget, issued, effect, result>>

\* References are issued one after the other; the first that is not granted,
\* not available or not attachable ends the call.
AttachSecrets ==
  /\ pc = "secrets"
  /\ \/ /\ setup.secrets = 0 \/ setup.broker
        /\ issued' = setup.secrets /\ pc' = "start" /\ UNCHANGED error
     \/ /\ setup.secrets > 0 /\ setup.broker
        /\ issued' \in 0..setup.secrets
        /\ \E kind \in {"SecretUnavailable", "InvalidParameters", "AdapterFailed"} : Refuse(kind)
     \/ /\ setup.secrets > 0 /\ ~setup.broker
        /\ Refuse("SecretUnavailable") /\ UNCHANGED issued
  /\ UNCHANGED <<setup, log, decision, approving, budget, effect, result>>

-----------------------------------------------------------------------------
(* The connector and the end.                                               *)

RecordStarted ==
  /\ pc = "start"
  /\ \/ Record(Started) /\ pc' = "execute"
     \/ Unrecorded(Started) /\ pc' = "err"
  /\ UNCHANGED <<setup, decision, approving, budget, issued, execution>>

\* Faulty variant: a failing connector returns at once.
ExecuteOrFail ==
  /\ pc = "execute"
  /\ \/ /\ effect' = TRUE /\ result' = TRUE /\ pc' = "usage"
        /\ phase' = "observed" /\ left' \in 0..MaxUsages /\ denial' = FALSE
        /\ UNCHANGED error
     \/ /\ \E kind \in AdapterErrors : error' = kind
        /\ pc' = "done" /\ effect' \in BOOLEAN /\ UNCHANGED <<result, budget>>
  /\ UNCHANGED <<setup, log, decision, approving, issued>>

\* Faulty variant: the result is attached after its budget was accepted.
ExecuteWithoutResult ==
  /\ pc = "execute"
  /\ \/ /\ effect' = TRUE /\ pc' = "usage"
        /\ phase' = "observed" /\ left' \in 0..MaxUsages /\ denial' = FALSE
        /\ UNCHANGED <<result, error>>
     \/ /\ \E kind \in AdapterErrors : Refuse(kind)
        /\ effect' \in BOOLEAN /\ UNCHANGED <<result, budget>>
  /\ UNCHANGED <<setup, log, decision, approving, issued>>

\* A connector that fails may have acted before.
Execute ==
  /\ pc = "execute"
  /\ \/ /\ effect' = TRUE /\ result' = TRUE /\ pc' = "usage"
        /\ phase' = "observed" /\ left' \in 0..MaxUsages /\ denial' = FALSE
        /\ UNCHANGED error
     \/ /\ \E kind \in AdapterErrors : Refuse(kind)
        /\ effect' \in BOOLEAN /\ UNCHANGED <<result, budget>>
  /\ UNCHANGED <<setup, log, decision, approving, issued>>

RecordFinished ==
  /\ pc = "finish"
  /\ LET e == FinishedWith([result |-> result, error |-> error])
     IN  \/ Record(e) /\ pc' = "done"
         \/ Unrecorded(e) /\ pc' = "err"
  /\ UNCHANGED <<setup, decision, approving, budget, issued, execution>>

Kill ==
  /\ pc \notin Ends /\ pc' = "killed"
  /\ effect' \in (IF pc = "execute" THEN BOOLEAN ELSE {effect})
  /\ UNCHANGED <<setup, log, decision, approving, budget, issued, result, error>>

Finished == pc \in Ends /\ UNCHANGED vars

Mediation == Normalize \/ CheckProtocol \/ CheckRegistry \/ RecordRejection
               \/ EvaluateTool \/ RecordToolDecision
Approval  == RequestApproval \/ RecordRequested \/ Wait \/ RecordResolved
Budget    == PlanBudget \/ EvaluateUsage \/ RecordBudgetDecision \/ RecordUsage \/ UsagesDone
Effect    == EvaluateEgress \/ RecordEgressDecision \/ AttachSecrets \/ RecordStarted
               \/ Execute \/ RecordFinished
Step == Mediation \/ Approval \/ Budget \/ Effect
Next == Step \/ Kill \/ Finished

Spec     == Init /\ [][Next]_vars

-----------------------------------------------------------------------------
TypeOK ==
  /\ setup \in Setup
  /\ pc \in Ends \cup {"normalize", "protocol", "unsupported", "registry", "unregistered",
       "policy", "decided", "request", "requested", "wait", "resolved", "plan", "usage",
       "budgetDecided", "used", "egress", "egressDecided", "secrets", "start", "execute", "finish"}
  /\ log \in Seq(Events)
  /\ decision \in Decisions \cup {"none"}
  /\ subject \in {"tool", "network"}
  /\ answer \in Answers \cup {"none"}
  /\ phase \in {"planned", "observed"} /\ left \in 0..MaxUsages /\ denial \in BOOLEAN
  /\ issued \in 0..MaxSecrets
  /\ effect \in BOOLEAN /\ result \in BOOLEAN /\ error \in ErrorKind \cup {"none"}

\* In the first n lines of s, x was allowed, or an approval that was asked for
\* it afterwards was given.
Permitted(s, x, n) ==
  \E i \in 1..n :
    \/ s[i] = Decided(x, "Allow")
    \/ s[i] = Decided(x, "RequireApproval") /\ \E j \in i..n : s[j] = Resolved(x, "Approved")

\* No usage in the first n lines of s was over its limit.
WithinBudget(s, n) ==
  \A i \in 1..n : s[i] \notin {Decided("budget", "Deny"), Event("usage", "budget", "Deny")}

\* Everything the executor must have obtained before it acts: permission for
\* the tool, planned usages within their limits, and for an egress action
\* permission for its destination.
ChecksPassed(s, n) ==
  /\ Permitted(s, "tool", n) /\ WithinBudget(s, n)
  /\ setup.egress => Permitted(s, "network", n)

\* A connector that acted has the line that announces its start in the log, and
\* before that line the log shows every check passed, whatever failed later and
\* wherever the process was killed (GatewayExecutor::execute_tool_action).  This is
\* about the action's own destination: an egress fetch follows redirections to
\* hosts nothing was asked about (UreqGatewayEgressClient::fetch).
EffectIsAuthorised ==
  effect => \E n \in DOMAIN log : log[n] = Started /\ ChecksPassed(log, n)

\* The broker hands out a reference only when the log shows every check passed
\* before the start, or before the end of a call that never starts: budget
\* "fails closed before secret attachment" (architecture.md).
SecretsAfterChecks ==
  issued > 0 =>
    \E n \in 0..Len(log) :
      /\ ChecksPassed(log, n) /\ \A i \in 1..n : log[i] # Started
      /\ n = Len(log) \/ log[n + 1].kind \in {"started", "finished"}

\* What execute_tool_action returns is what the contract allows: a refusal has
\* no effect behind it, a budget error after an effect keeps the result.
ContractKept ==
  pc = "done" => [effect |-> effect, result |-> result, error |-> error] \in PossibleOutcomes

\* A call that returns an execution has recorded exactly that execution as its
\* last event, whichever way out it took.
ReturnedIsRecorded ==
  pc = "done" =>
    /\ log # <<>>
    /\ log[Len(log)] = FinishedWith([result |-> result, error |-> error])
    /\ \A i \in 1..(Len(log) - 1) : log[i].kind # "finished"
=============================================================================
