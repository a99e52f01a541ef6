----------------------- MODULE GatewayExecutionProofs -----------------------
(***************************************************************************)
(* Proofs about GatewayExecutor::execute_tool_action for any number of     *)
(* budget usages and of secret references.                                 *)
(***************************************************************************)
EXTENDS GatewayListener, TLAPS

USE MaxUsagesAssumption, MaxSecretsAssumption

Places == Ends \cup {"normalize", "protocol", "unsupported", "registry", "unregistered",
  "policy", "decided", "request", "requested", "wait", "resolved", "plan", "usage",
  "budgetDecided", "used", "egress", "egressDecided", "secrets", "start", "execute", "finish"}

\* What a step relies on was set by a step before it.
Located ==
  /\ pc \in {"decided", "egressDecided"} => decision \in Decisions
  /\ pc \in {"budgetDecided", "used"} => decision \in {"Allow", "Deny"} /\ left > 0
  /\ pc = "resolved" => answer \in Answers

Typed == TypeOK /\ Located

-----------------------------------------------------------------------------
LEMMA AppendType ==
  ASSUME NEW s \in Seq(Events), NEW e \in Events
  PROVE  Append(s, e) \in Seq(Events)
OBVIOUS

\* Every event that is recorded is one.
LEMMA EventTypes ==
  /\ Event("error", "none", "none") \in Events /\ Started \in Events
  /\ \A x \in Subjects, d \in Decisions : Decided(x, d) \in Events
  /\ \A x \in Subjects, a \in Answers : Resolved(x, a) \in Events
  /\ \A x \in Subjects : Event("requested", x, "none") \in Events
  /\ \A d \in Decisions : Event("usage", "budget", d) \in Events
  /\ \A r \in BOOLEAN, k \in ErrorKind \cup {"none"} :
       FinishedWith([result |-> r, error |-> k]) \in Events
BY DEF Events, Event, Started, Decided, Resolved, FinishedWith, Subjects

LEMMA RecordType ==
  ASSUME TypeOK, NEW e \in Events, Record(e) \/ Unrecorded(e)
  PROVE  log' \in Seq(Events)
BY AppendType DEF TypeOK, Record, Unrecorded

LEMMA Initially == Init => Typed
<1> SUFFICES ASSUME Init PROVE Typed
  OBVIOUS
<1>1. log \in Seq(Events) /\ left \in 0..MaxUsages /\ issued \in 0..MaxSecrets
  BY DEF Init
<1>2. denial \in BOOLEAN /\ effect \in BOOLEAN /\ result \in BOOLEAN
  BY Zenon DEF Init
<1>3. TypeOK
  BY <1>1, <1>2 DEF Init, TypeOK, Ends
<1>4. Located
  BY DEF Init, Located
<1> QED BY <1>3, <1>4 DEF Typed

LEMMA TypedStep == Typed /\ [Next]_vars => Typed'
<1> SUFFICES ASSUME Typed, [Next]_vars PROVE Typed'
  OBVIOUS
<1> USE DEF Refuse, Goto, approving, budget, execution
<1> USE DEF Ends, Places
<1>0. TypeOK /\ Located
  BY DEF Typed
<1>1. CASE Normalize
  BY <1>0, <1>1 DEF Normalize, Typed, TypeOK, Located, ErrorKind, AdapterErrors
<1>2. CASE CheckProtocol
  BY <1>0, <1>2 DEF CheckProtocol, Typed, TypeOK, Located
<1>3. CASE CheckRegistry
  BY <1>0, <1>3 DEF CheckRegistry, Typed, TypeOK, Located
<1>4. CASE RecordRejection
  <2>1. log' \in Seq(Events)
    BY <1>0, <1>4, EventTypes, RecordType DEF RecordRejection
  <2> QED BY <1>0, <1>4, <2>1
    DEF RecordRejection, Typed, TypeOK, Located, ErrorKind, AdapterErrors
<1>5. CASE EvaluateTool
  BY <1>0, <1>5 DEF EvaluateTool, Typed, TypeOK, Located, ErrorKind, Refusals
<1>6. CASE RecordToolDecision
  <2>1. log' \in Seq(Events)
    <3>1. Decided("tool", decision) \in Events
      BY <1>0, <1>6, EventTypes DEF RecordToolDecision, Located, Subjects
    <3> QED BY <1>0, <1>6, <3>1, RecordType DEF RecordToolDecision
  <2> QED BY <1>0, <1>6, <2>1 DEF RecordToolDecision, Follow, Typed, TypeOK, Located,
            ErrorKind, Refusals, AdapterErrors
<1>7. CASE RequestApproval
  BY <1>0, <1>7 DEF RequestApproval, Typed, TypeOK, Located, ErrorKind, Refusals, AdapterErrors
<1>8. CASE RecordRequested
  <2>1. log' \in Seq(Events)
    <3>1. Event("requested", subject, "none") \in Events
      BY <1>0, EventTypes DEF TypeOK, Subjects
    <3> QED BY <1>0, <1>8, <3>1, RecordType DEF RecordRequested
  <2> QED BY <1>0, <1>8, <2>1
    DEF RecordRequested, Typed, TypeOK, Located, ErrorKind, AdapterErrors
<1>9. CASE Wait
  BY <1>0, <1>9 DEF Wait, Typed, TypeOK, Located, ErrorKind, Refusals, AdapterErrors
<1>10. CASE RecordResolved
  <2>1. log' \in Seq(Events)
    <3>1. Resolved(subject, answer) \in Events
      BY <1>0, <1>10, EventTypes DEF RecordResolved, TypeOK, Located, Subjects
    <3> QED BY <1>0, <1>10, <3>1, RecordType DEF RecordResolved
  <2> QED BY <1>0, <1>10, <2>1 DEF RecordResolved, Typed, TypeOK, Located,
            ErrorKind, Refusals, AdapterErrors
<1>11. CASE PlanBudget
  BY <1>0, <1>11 DEF PlanBudget, Typed, TypeOK, Located, ErrorKind
<1>12. CASE EvaluateUsage
  BY <1>0, <1>12 DEF EvaluateUsage, Typed, TypeOK, Located, ErrorKind, Decisions
<1>13. CASE RecordBudgetDecision
  <2>1. log' \in Seq(Events)
    <3>1. Decided("budget", decision) \in Events
      BY <1>0, <1>13, EventTypes DEF RecordBudgetDecision, Located, Subjects, Decisions
    <3> QED BY <1>0, <1>13, <3>1, RecordType DEF RecordBudgetDecision
  <2> QED BY <1>0, <1>13, <2>1 DEF RecordBudgetDecision, Typed, TypeOK, Located
<1>14. CASE RecordUsage
  <2>1. log' \in Seq(Events)
    <3>1. Event("usage", "budget", decision) \in Events
      BY <1>0, <1>14, EventTypes DEF RecordUsage, Located, Decisions
    <3> QED BY <1>0, <1>14, <3>1, RecordType DEF RecordUsage
  <2>2. left' \in 0..MaxUsages
    BY <1>0, <1>14 DEF RecordUsage, TypeOK, Located
  <2>3. denial' \in BOOLEAN
    BY <1>0, <1>14 DEF RecordUsage, TypeOK
  <2> QED BY <1>0, <1>14, <2>1, <2>2, <2>3 DEF RecordUsage, Typed, TypeOK, Located
<1>15. CASE UsagesDone
  BY <1>0, <1>15 DEF UsagesDone, Typed, TypeOK, Located, ErrorKind
<1>16. CASE EvaluateEgress
  BY <1>0, <1>16 DEF EvaluateEgress, Typed, TypeOK, Located, ErrorKind, AdapterErrors
<1>17. CASE RecordEgressDecision
  <2>1. log' \in Seq(Events)
    <3>1. Decided("network", decision) \in Events
      BY <1>0, <1>17, EventTypes DEF RecordEgressDecision, Located, Subjects
    <3> QED BY <1>0, <1>17, <3>1, RecordType DEF RecordEgressDecision
  <2> QED BY <1>0, <1>17, <2>1 DEF RecordEgressDecision, Follow, Typed, TypeOK, Located,
            ErrorKind, Refusals
<1>18. CASE AttachSecrets
  <2>1. issued' \in 0..MaxSecrets
    BY <1>0, <1>18 DEF AttachSecrets, TypeOK, Setup
  <2> QED BY <1>0, <1>18, <2>1 DEF AttachSecrets, Typed, TypeOK, Located, ErrorKind, AdapterErrors
<1>19. CASE RecordStarted
  <2>1. log' \in Seq(Events)
    BY <1>0, <1>19, EventTypes, RecordType DEF RecordStarted
  <2> QED BY <1>0, <1>19, <2>1 DEF RecordStarted, Typed, TypeOK, Located
<1>20. CASE Execute
  BY <1>0, <1>20 DEF Execute, Typed, TypeOK, Located, ErrorKind
<1>21. CASE RecordFinished
  <2>1. log' \in Seq(Events)
    <3>1. FinishedWith([result |-> result, error |-> error]) \in Events
      BY <1>0, EventTypes DEF TypeOK
    <3> QED BY <1>0, <1>21, <3>1, RecordType DEF RecordFinished
  <2> QED BY <1>0, <1>21, <2>1 DEF RecordFinished, Typed, TypeOK, Located
<1>22. CASE Kill
  <2>1. effect' \in BOOLEAN
    BY <1>0, <1>22 DEF Kill, TypeOK
  <2> QED BY <1>0, <1>22, <2>1 DEF Kill, Typed, TypeOK, Located
<1>23. CASE UNCHANGED vars
  BY <1>0, <1>23 DEF vars, Typed, TypeOK, Located
<1> QED BY <1>1, <1>2, <1>3, <1>4, <1>5, <1>6, <1>7, <1>8, <1>9, <1>10, <1>11, <1>12, <1>13,
  <1>14, <1>15, <1>16, <1>17, <1>18, <1>19, <1>20, <1>21, <1>22, <1>23
  DEF Next, Step, Mediation, Approval, Budget, Effect, Finished

-----------------------------------------------------------------------------
(* The contract.  It speaks of an execution that has ended; before that,     *)
(* what has happened depends on whether the connector was called.            *)

Outside == {"finish", "done", "err", "killed"}

Progress ==
  /\ pc \notin Outside /\ phase = "planned" => ~effect /\ ~result /\ error = "none"
  /\ phase = "observed" =>
       /\ pc \in Outside \cup {"usage", "budgetDecided", "used"}
       /\ effect /\ result /\ error \in {"none", "BudgetExceeded"}
       /\ pc \notin Outside => error = "none"
  /\ pc \in {"finish", "done"} =>
       [effect |-> effect, result |-> result, error |-> error] \in PossibleOutcomes

\* What a refusal before the connector ends with is possible.
LEMMA RefusalPossible ==
  ASSUME NEW k \in ErrorKind
  PROVE  [effect |-> FALSE, result |-> FALSE, error |-> k] \in PossibleOutcomes
BY DEF PossibleOutcomes

LEMMA ResultPossible ==
  ASSUME NEW k \in {"none", "BudgetExceeded"}
  PROVE  [effect |-> TRUE, result |-> TRUE, error |-> k] \in PossibleOutcomes
BY DEF PossibleOutcomes

LEMMA FailurePossible ==
  ASSUME NEW k \in AdapterErrors, NEW e \in BOOLEAN
  PROVE  [effect |-> e, result |-> FALSE, error |-> k] \in PossibleOutcomes
BY DEF PossibleOutcomes, ErrorKind

\* A step that leaves effect and result alone and at most refuses keeps Progress.
LEMMA RefuseStep ==
  ASSUME TypeOK, Progress, pc \notin Outside, phase = "planned",
         UNCHANGED <<phase, effect, result>>,
         \/ pc' \notin {"finish", "done"} /\ UNCHANGED error
         \/ pc' = "finish" /\ error' \in ErrorKind
  PROVE  Progress'
<1>1. effect = FALSE /\ result = FALSE /\ error = "none"
  BY DEF Progress, TypeOK
<1>2. CASE pc' \notin {"finish", "done"} /\ UNCHANGED error
  BY <1>1, <1>2 DEF Progress
<1>3. CASE pc' = "finish" /\ error' \in ErrorKind
  <2>1. [effect |-> effect', result |-> result', error |-> error'] \in PossibleOutcomes
    BY <1>1, <1>3, RefusalPossible
  <2> QED BY <1>1, <1>3, <2>1 DEF Progress, Outside
<1> QED BY <1>2, <1>3

LEMMA ProgressStep == Typed /\ Progress /\ [Next]_vars => Progress'
<1> SUFFICES ASSUME Typed, Progress, [Next]_vars PROVE Progress'
  OBVIOUS
<1> USE DEF Refuse, Goto, approving, budget, execution
<1>0. TypeOK /\ Progress
  BY DEF Typed
<1>1. CASE \/ Mediation \/ Approval \/ PlanBudget
           \/ EvaluateEgress \/ RecordEgressDecision \/ AttachSecrets \/ RecordStarted
  <2>1. pc \notin Outside /\ pc \notin {"usage", "budgetDecided", "used"}
    BY <1>1 DEF Mediation, Approval, Normalize, CheckProtocol, CheckRegistry, RecordRejection,
      EvaluateTool, RecordToolDecision, RequestApproval, RecordRequested, Wait, RecordResolved,
      PlanBudget, EvaluateEgress, RecordEgressDecision, AttachSecrets, RecordStarted, Outside
  <2>2. phase = "planned"
    BY <1>0, <2>1 DEF Progress, TypeOK
  <2>3. UNCHANGED <<phase, effect, result>>
    BY <1>1 DEF Mediation, Approval, Normalize, CheckProtocol, CheckRegistry, RecordRejection,
      EvaluateTool, RecordToolDecision, RequestApproval, RecordRequested, Wait, RecordResolved,
      PlanBudget, EvaluateEgress, RecordEgressDecision, AttachSecrets, RecordStarted
  <2>4. \/ pc' \notin {"finish", "done"} /\ UNCHANGED error
        \/ pc' = "finish" /\ error' \in ErrorKind
    <3> USE DEF ErrorKind, Refusals, AdapterErrors
    <3>1. CASE Mediation
      BY <3>1 DEF Mediation, Normalize, CheckProtocol, CheckRegistry, RecordRejection,
        EvaluateTool, RecordToolDecision, Follow
    <3>2. CASE Approval
      BY <3>2 DEF Approval, RequestApproval, RecordRequested, Wait, RecordResolved
    <3>3. CASE PlanBudget \/ EvaluateEgress \/ RecordEgressDecision
      BY <3>3 DEF PlanBudget, EvaluateEgress, RecordEgressDecision, Follow
    <3>4. CASE AttachSecrets \/ RecordStarted
      BY <3>4 DEF AttachSecrets, RecordStarted
    <3> QED BY <1>1, <3>1, <3>2, <3>3, <3>4
  <2> QED BY <1>0, <2>1, <2>2, <2>3, <2>4, RefuseStep
<1>2. CASE EvaluateUsage \/ RecordBudgetDecision \/ RecordUsage \/ UsagesDone
  <2>1. /\ pc \in {"usage", "budgetDecided", "used"}
        /\ UNCHANGED <<phase, effect, result>>
        /\ \/ pc' \in {"usage", "budgetDecided", "used", "err"} /\ UNCHANGED error
           \/ pc' = "finish" /\ error' = "BudgetExceeded"
           \/ phase = "planned" /\ pc' = "egress" /\ UNCHANGED error
           \/ phase # "planned" /\ pc' = "finish" /\ UNCHANGED error
    BY <1>2 DEF EvaluateUsage, RecordBudgetDecision, RecordUsage, UsagesDone
  <2>2. CASE phase = "planned"
    BY <1>0, <2>1, <2>2, RefuseStep DEF Outside, ErrorKind
  <2>3. CASE phase = "observed"
    <3>1. effect = TRUE /\ result = TRUE /\ error = "none"
      BY <1>0, <2>1, <2>3 DEF Progress, TypeOK, Outside
    <3>2. [effect |-> TRUE, result |-> TRUE, error |-> error'] \in PossibleOutcomes
      BY <2>1, <3>1, ResultPossible
    <3> QED BY <2>1, <2>3, <3>1, <3>2 DEF Progress, Outside
  <2> QED BY <1>0, <2>2, <2>3 DEF TypeOK
<1>3. CASE Execute
  <2>1. effect = FALSE /\ result = FALSE /\ error = "none" /\ phase = "planned"
    BY <1>0, <1>3 DEF Execute, Progress, TypeOK, Outside
  <2>2. CASE pc' = "usage"
    BY <1>3, <2>1, <2>2 DEF Execute, Progress, Outside
  <2>3. CASE pc' = "finish"
    <3>1. error' \in AdapterErrors /\ effect' \in BOOLEAN /\ result' = FALSE /\ phase' = "planned"
      BY <1>3, <2>1, <2>3 DEF Execute
    <3>2. [effect |-> effect', result |-> FALSE, error |-> error'] \in PossibleOutcomes
      BY <3>1, FailurePossible
    <3> QED BY <2>3, <3>1, <3>2 DEF Progress, Outside
  <2> QED BY <1>3, <2>2, <2>3 DEF Execute
<1>4. CASE RecordFinished
  BY <1>0, <1>4 DEF RecordFinished, Progress, Outside
<1>5. CASE Kill
  <2>1. CASE phase = "planned"
    BY <1>0, <1>5, <2>1 DEF Kill, Progress, Outside
  <2>2. CASE phase = "observed"
    <3>1. pc # "execute"
      BY <1>0, <2>2 DEF Progress, Outside
    <3> QED BY <1>0, <1>5, <2>2, <3>1 DEF Kill, Progress, Outside, TypeOK
  <2> QED BY <1>0, <2>1, <2>2 DEF TypeOK
<1>6. CASE UNCHANGED vars
  BY <1>0, <1>6 DEF vars, Progress
<1> QED BY <1>1, <1>2, <1>3, <1>4, <1>5, <1>6 DEF Next, Step, Budget, Effect, Finished

-----------------------------------------------------------------------------
(* The audit log.  Evidence once in the log stays there.                     *)

Require(x) == Decided(x, "RequireApproval")
Asked(s, x) == \E i \in 1..Len(s) : s[i] = Require(x)
OverLimit == {Decided("budget", "Deny"), Event("usage", "budget", "Deny")}

LEMMA PermittedKept ==
  ASSUME NEW s \in Seq(Events), NEW e \in Events, NEW x, NEW n \in 0..Len(s),
         Permitted(s, x, n)
  PROVE  /\ Permitted(Append(s, e), x, n)
         /\ Permitted(Append(s, e), x, Len(s) + 1)
<1> DEFINE t == Append(s, e)
<1>1. \A i \in 1..n : t[i] = s[i]
  OBVIOUS
<1>2. PICK i \in 1..n :
        \/ s[i] = Decided(x, "Allow")
        \/ s[i] = Decided(x, "RequireApproval") /\ \E j \in i..n : s[j] = Resolved(x, "Approved")
  BY DEF Permitted
<1>3. i \in 1..(Len(s) + 1) /\ t[i] = s[i]
  BY <1>1
<1>4. CASE s[i] = Decided(x, "Allow")
  BY <1>3, <1>4 DEF Permitted
<1>5. CASE s[i] = Decided(x, "RequireApproval") /\ \E j \in i..n : s[j] = Resolved(x, "Approved")
  <2>1. PICK j \in i..n : s[j] = Resolved(x, "Approved")
    BY <1>5
  <2>2. t[j] = Resolved(x, "Approved") /\ j \in i..(Len(s) + 1)
    BY <1>1, <2>1
  <2> QED BY <1>3, <1>5, <2>2 DEF Permitted
<1> QED BY <1>2, <1>4, <1>5

LEMMA PermittedByAllow ==
  ASSUME NEW s \in Seq(Events), NEW x
  PROVE  Permitted(Append(s, Decided(x, "Allow")), x, Len(s) + 1)
<1>1. /\ Len(s) + 1 \in 1..(Len(s) + 1)
      /\ Append(s, Decided(x, "Allow"))[Len(s) + 1] = Decided(x, "Allow")
  OBVIOUS
<1> QED BY <1>1 DEF Permitted

LEMMA PermittedByApproval ==
  ASSUME NEW s \in Seq(Events), NEW x, Asked(s, x)
  PROVE  Permitted(Append(s, Resolved(x, "Approved")), x, Len(s) + 1)
<1> DEFINE t == Append(s, Resolved(x, "Approved"))
<1>1. PICK i \in 1..Len(s) : s[i] = Require(x)
  BY DEF Asked
<1>2. i \in 1..(Len(s) + 1) /\ t[i] = Require(x)
  BY <1>1
<1>3. Len(s) + 1 \in i..(Len(s) + 1) /\ t[Len(s) + 1] = Resolved(x, "Approved")
  OBVIOUS
<1> QED BY <1>2, <1>3 DEF Permitted, Require

LEMMA AskedKept ==
  ASSUME NEW s \in Seq(Events), NEW e \in Events, NEW x, Asked(s, x) \/ e = Require(x)
  PROVE  Asked(Append(s, e), x)
<1> DEFINE t == Append(s, e)
<1>0. Len(t) = Len(s) + 1 /\ t[Len(s) + 1] = e /\ \A i \in 1..Len(s) : t[i] = s[i]
  OBVIOUS
<1>1. CASE Asked(s, x)
  <2>1. PICK i \in 1..Len(s) : s[i] = Require(x)
    BY <1>1 DEF Asked
  <2>2. i \in 1..Len(t) /\ t[i] = Require(x)
    BY <1>0, <2>1
  <2> QED BY <2>2 DEF Asked
<1>2. CASE e = Require(x)
  <2>1. Len(s) + 1 \in 1..Len(t) /\ t[Len(s) + 1] = Require(x)
    BY <1>0, <1>2
  <2> QED BY <2>1 DEF Asked
<1> QED BY <1>1, <1>2

LEMMA BudgetKept ==
  ASSUME NEW s \in Seq(Events), NEW e \in Events, NEW n \in 0..Len(s), WithinBudget(s, n)
  PROVE  /\ WithinBudget(Append(s, e), n)
         /\ n = Len(s) /\ e \notin OverLimit => WithinBudget(Append(s, e), Len(s) + 1)
BY DEF WithinBudget, OverLimit

\* A step appends at most one event; only the loop over the usages reports that a limit
\* is exceeded, and the start and the end are recorded by the steps named so.
LEMMA LogStep ==
  ASSUME Typed, [Next]_vars
  PROVE  /\ setup' = setup
         /\ \/ log' = log
            \/ \E e \in Events :
                 /\ log' = Append(log, e)
                 /\ e \in OverLimit => RecordBudgetDecision \/ RecordUsage
                 /\ e = Started => RecordStarted
                 /\ e.kind = "finished" =>
                      RecordFinished /\ e = FinishedWith([result |-> result, error |-> error])
<1> USE DEF Record, Unrecorded, OverLimit, Event, Decided, Resolved, Started, FinishedWith
<1>1. CASE \/ Normalize \/ CheckProtocol \/ CheckRegistry \/ EvaluateTool \/ RequestApproval
           \/ Wait \/ PlanBudget \/ EvaluateUsage \/ UsagesDone \/ EvaluateEgress
           \/ AttachSecrets \/ Execute \/ Kill \/ UNCHANGED vars
  BY <1>1 DEF Normalize, CheckProtocol, CheckRegistry, EvaluateTool, RequestApproval, Wait,
    PlanBudget, EvaluateUsage, UsagesDone, EvaluateEgress, AttachSecrets, Execute, Kill, vars
<1>2. CASE RecordRejection \/ RecordStarted
  BY <1>2, EventTypes DEF RecordRejection, RecordStarted
<1>3. CASE RecordToolDecision
  BY <1>3, EventTypes DEF RecordToolDecision, Typed, Located, Subjects
<1>4. CASE RecordRequested
  BY <1>4, EventTypes DEF RecordRequested, Typed, TypeOK, Subjects
<1>5. CASE RecordResolved
  BY <1>5, EventTypes DEF RecordResolved, Typed, TypeOK, Located, Subjects
<1>6. CASE RecordBudgetDecision \/ RecordUsage
  BY <1>6, EventTypes DEF RecordBudgetDecision, RecordUsage, Typed, Located, Subjects, Decisions
<1>7. CASE RecordEgressDecision
  BY <1>7, EventTypes DEF RecordEgressDecision, Typed, Located, Subjects
<1>8. CASE RecordFinished
  BY <1>8, EventTypes DEF RecordFinished, Typed, TypeOK
<1> QED BY <1>1, <1>2, <1>3, <1>4, <1>5, <1>6, <1>7, <1>8
  DEF Next, Step, Mediation, Approval, Budget, Effect, Finished

-----------------------------------------------------------------------------
(* Authority: what the log shows at each place before the start.             *)

Approving == {"request", "requested", "wait", "resolved"}
Judging   == {"usage", "budgetDecided", "used"}
Checked   == {"egress", "egressDecided", "secrets", "start"}
Early     == {"normalize", "protocol", "unsupported", "registry", "unregistered",
              "policy", "decided", "plan"}

\* Whether the usage whose decision is being recorded is over its limit.
Refused == denial \/ (pc = "used" /\ decision = "Deny")

ToolPermitted ==
  \/ phase = "planned" /\ pc \in {"plan"} \cup Judging \cup Checked
  \/ pc \in Approving /\ subject = "network"
  => Permitted(log, "tool", Len(log))
ApprovalAsked == pc \in Approving => Asked(log, subject)
LimitsKept ==
  \/ pc \in Early \cup Approving \cup Checked
  \/ phase = "planned" /\ pc \in Judging /\ ~Refused
  => WithinBudget(log, Len(log))
DestinationPermitted ==
  pc \in {"secrets", "start"} /\ setup.egress => Permitted(log, "network", Len(log))
Begun == effect \/ pc = "execute" =>
  \E n \in DOMAIN log : log[n] = Started /\ ChecksPassed(log, n)

Authority == ToolPermitted /\ ApprovalAsked /\ LimitsKept /\ DestinationPermitted /\ Begun

LEMMA ToolPermittedStep ==
  ASSUME Typed, Progress, Authority, [Next]_vars
  PROVE  ToolPermitted'
<1> USE DEF Goto, Refuse
<1>0. log \in Seq(Events) /\ decision \in Decisions \cup {"none"}
  BY DEF Typed, TypeOK
<1>1. CASE RecordToolDecision /\ pc' = "plan"
  <2>1. log' = Append(log, Decided("tool", "Allow"))
    BY <1>1 DEF RecordToolDecision, Follow, Record
  <2>2. Permitted(log', "tool", Len(log')) /\ Len(log') = Len(log) + 1
    BY <1>0, <2>1, PermittedByAllow
  <2> QED BY <2>2 DEF ToolPermitted
<1>2. CASE RecordResolved /\ pc' = "plan"
  <2>1. log' = Append(log, Resolved("tool", "Approved")) /\ subject = "tool" /\ pc = "resolved"
    BY <1>2 DEF RecordResolved, Record
  <2>2. Asked(log, "tool")
    BY <2>1 DEF Authority, ApprovalAsked, Approving
  <2>3. Permitted(log', "tool", Len(log')) /\ Len(log') = Len(log) + 1
    BY <1>0, <2>1, <2>2, PermittedByApproval
  <2> QED BY <2>3 DEF ToolPermitted
<1>3. CASE ~(RecordToolDecision /\ pc' = "plan") /\ ~(RecordResolved /\ pc' = "plan")
  <2> SUFFICES ASSUME \/ phase' = "planned" /\ pc' \in {"plan"} \cup Judging \cup Checked
                      \/ pc' \in Approving /\ subject' = "network"
               PROVE  Permitted(log', "tool", Len(log'))
    BY DEF ToolPermitted
  <2>1. \/ phase = "planned" /\ pc \in {"plan"} \cup Judging \cup Checked
        \/ pc \in Approving /\ subject = "network"
    <3> USE DEF Judging, Checked, Approving, approving, budget, execution
    <3>1. CASE Mediation
      BY <1>3, <3>1 DEF Mediation, Normalize, CheckProtocol, CheckRegistry, RecordRejection,
        EvaluateTool, RecordToolDecision, Follow
    <3>2. CASE Approval
      BY <1>3, <3>2 DEF Approval, RequestApproval, RecordRequested, Wait, RecordResolved,
        Typed, TypeOK
    <3>3. CASE Budget
      BY <3>3
        DEF Budget, PlanBudget, EvaluateUsage, RecordBudgetDecision, RecordUsage, UsagesDone,
        Progress, Outside
    <3>4. CASE EvaluateEgress \/ RecordEgressDecision \/ AttachSecrets \/ RecordStarted
      BY <3>4 DEF EvaluateEgress, RecordEgressDecision, Follow, AttachSecrets, RecordStarted,
        Progress, Outside, Typed, TypeOK
    <3>5. CASE Execute \/ RecordFinished \/ Kill
      BY <3>5 DEF Execute, RecordFinished, Kill
    <3>6. CASE UNCHANGED vars
      BY <3>6 DEF vars
    <3> QED BY <3>1, <3>2, <3>3, <3>4, <3>5, <3>6 DEF Next, Step, Effect, Finished
  <2>2. Permitted(log, "tool", Len(log)) /\ Len(log) \in 0..Len(log)
    BY <1>0, <2>1 DEF Authority, ToolPermitted
  <2>3. CASE log' = log
    BY <2>2, <2>3
  <2>4. CASE \E e \in Events : log' = Append(log, e)
    <3>1. PICK e \in Events : log' = Append(log, e)
      BY <2>4
    <3>2. Len(log') = Len(log) + 1
      BY <1>0, <3>1
    <3> QED BY <1>0, <2>2, <3>1, <3>2, PermittedKept
  <2>5. log' = log \/ \E e \in Events : log' = Append(log, e)
    BY LogStep
  <2> QED BY <2>3, <2>4, <2>5
<1> QED BY <1>1, <1>2, <1>3

LEMMA ApprovalAskedStep ==
  ASSUME Typed, Progress, Authority, [Next]_vars
  PROVE  ApprovalAsked'
<1> USE DEF Goto, Refuse
<1> SUFFICES ASSUME pc' \in Approving PROVE Asked(log', subject')
  BY DEF ApprovalAsked
<1>0. log \in Seq(Events)
  BY DEF Typed, TypeOK
<1>1. CASE RecordToolDecision
  <2>1. log' = Append(log, Require("tool")) /\ subject' = "tool"
    BY <1>1 DEF RecordToolDecision, Follow, Record, Require, Approving
  <2> QED BY <1>0, <2>1, AskedKept, EventTypes DEF Require, Subjects, Decisions
<1>2. CASE RecordEgressDecision
  <2>1. log' = Append(log, Require("network")) /\ subject' = "network"
    BY <1>2 DEF RecordEgressDecision, Follow, Record, Require, Approving
  <2> QED BY <1>0, <2>1, AskedKept, EventTypes DEF Require, Subjects, Decisions
<1>3. CASE ~RecordToolDecision /\ ~RecordEgressDecision
  <2>1. pc \in Approving /\ subject' = subject
    <3> USE DEF Approving, approving, budget, execution
    <3>1. CASE Mediation
      BY <1>3, <3>1
        DEF Mediation, Normalize, CheckProtocol, CheckRegistry, RecordRejection, EvaluateTool
    <3>2. CASE Approval
      BY <3>2 DEF Approval, RequestApproval, RecordRequested, Wait, RecordResolved
    <3>3. CASE Budget
      BY <3>3 DEF Budget, PlanBudget, EvaluateUsage, RecordBudgetDecision, RecordUsage, UsagesDone
    <3>4. CASE Effect
      BY <1>3, <3>4
        DEF Effect, EvaluateEgress, AttachSecrets, RecordStarted, Execute, RecordFinished
    <3>5. CASE Kill \/ UNCHANGED vars
      BY <3>5 DEF Kill, vars
    <3> QED BY <3>1, <3>2, <3>3, <3>4, <3>5 DEF Next, Step, Finished
  <2>2. Asked(log, subject)
    BY <2>1 DEF Authority, ApprovalAsked
  <2>3. CASE log' = log
    BY <2>1, <2>2, <2>3 DEF Asked
  <2>4. CASE \E e \in Events : log' = Append(log, e)
    BY <1>0, <2>1, <2>2, <2>4, AskedKept
  <2>5. log' = log \/ \E e \in Events : log' = Append(log, e)
    BY LogStep
  <2> QED BY <2>3, <2>4, <2>5
<1> QED BY <1>1, <1>2, <1>3

LEMMA LimitsKeptStep ==
  ASSUME Typed, Progress, Authority, [Next]_vars
  PROVE  LimitsKept'
<1> USE DEF Goto, Refuse
<1> SUFFICES ASSUME \/ pc' \in Early \cup Approving \cup Checked
                    \/ phase' = "planned" /\ pc' \in Judging /\ ~Refused'
             PROVE  WithinBudget(log', Len(log'))
  BY DEF LimitsKept
<1>0. log \in Seq(Events) /\ Len(log) \in 0..Len(log)
  BY DEF Typed, TypeOK
<1>1. CASE RecordBudgetDecision \/ RecordUsage
  <2>0. /\ pc \in {"budgetDecided", "used"} /\ pc' \in {"used", "usage", "err"} /\ phase' = phase
        /\ pc = "budgetDecided" => pc' # "usage" /\ decision' = decision /\ denial' = denial
        /\ pc = "used" /\ pc' # "err" => (denial' <=> denial \/ decision = "Deny")
        /\ pc = "used" => pc' # "used"
    BY <1>1 DEF RecordBudgetDecision, RecordUsage, budget
  <2>1. /\ pc \in {"budgetDecided", "used"} /\ pc' \in Judging /\ phase = "planned"
        /\ ~Refused /\ decision = "Allow"
    <3>1. /\ pc' \in {"used", "usage"} /\ phase' = "planned" /\ ~Refused'
      BY <2>0 DEF Judging, Early, Approving, Checked
    <3>2. ~denial' /\ (pc' = "used" => decision' # "Deny")
      BY <3>1 DEF Refused
    <3>3. decision \in {"Allow", "Deny"}
      BY <2>0 DEF Typed, Located
    <3>4. ~denial /\ decision # "Deny"
      BY <2>0, <3>1, <3>2
    <3> QED BY <2>0, <3>1, <3>3, <3>4 DEF Refused, Judging
  <2>2. WithinBudget(log, Len(log))
    BY <2>1 DEF Authority, LimitsKept, Judging
  <2>3. /\ log' \in {Append(log, Decided("budget", "Allow")), Append(log, Event("usage", "budget", "Allow"))}
    BY <1>1, <2>1 DEF RecordBudgetDecision, RecordUsage, Record, Judging
  <2>4. /\ Decided("budget", "Allow") \notin OverLimit
        /\ Event("usage", "budget", "Allow") \notin OverLimit
    BY DEF OverLimit, Decided, Event
  <2>5. Decided("budget", "Allow") \in Events /\ Event("usage", "budget", "Allow") \in Events
    BY EventTypes DEF Subjects, Decisions
  <2>6. PICK e \in Events : log' = Append(log, e) /\ e \notin OverLimit
    BY <2>3, <2>4, <2>5
  <2>7. Len(log') = Len(log) + 1
    BY <1>0, <2>6
  <2> QED BY <1>0, <2>2, <2>6, <2>7, BudgetKept
<1>2. CASE ~RecordBudgetDecision /\ ~RecordUsage
  <2>1. \/ pc \in Early \cup Approving \cup Checked
        \/ phase = "planned" /\ pc \in Judging /\ ~Refused
    <3> USE DEF Early, Approving, Checked, Judging, Refused, approving, budget, execution
    <3>1. CASE Mediation
      BY <3>1 DEF Mediation, Normalize, CheckProtocol, CheckRegistry, RecordRejection,
        EvaluateTool, RecordToolDecision, Follow
    <3>2. CASE Approval
      BY <3>2 DEF Approval, RequestApproval, RecordRequested, Wait, RecordResolved
    <3>3. CASE PlanBudget \/ EvaluateUsage \/ UsagesDone
      BY <3>3 DEF PlanBudget, EvaluateUsage, UsagesDone
    <3>4. CASE EvaluateEgress \/ RecordEgressDecision \/ AttachSecrets \/ RecordStarted
      BY <3>4 DEF EvaluateEgress, RecordEgressDecision, Follow, AttachSecrets, RecordStarted
    <3>5. CASE Execute \/ RecordFinished \/ Kill
      BY <3>5 DEF Execute, RecordFinished, Kill
    <3>6. CASE UNCHANGED vars
      BY <3>6 DEF vars
    <3> QED BY <1>2, <3>1, <3>2, <3>3, <3>4, <3>5, <3>6 DEF Next, Step, Budget, Effect, Finished
  <2>2. WithinBudget(log, Len(log))
    BY <2>1 DEF Authority, LimitsKept
  <2>3. CASE log' = log
    BY <2>2, <2>3
  <2>4. CASE \E e \in Events : log' = Append(log, e) /\ e \notin OverLimit
    <3>1. PICK e \in Events : log' = Append(log, e) /\ e \notin OverLimit
      BY <2>4
    <3>2. Len(log') = Len(log) + 1
      BY <1>0, <3>1
    <3> QED BY <1>0, <2>2, <3>1, <3>2, BudgetKept
  <2>5. \/ log' = log
        \/ \E e \in Events : /\ log' = Append(log, e)
                             /\ e \in OverLimit => RecordBudgetDecision \/ RecordUsage
    BY LogStep
  <2> QED BY <1>2, <2>3, <2>4, <2>5
<1> QED BY <1>1, <1>2

LEMMA DestinationPermittedStep ==
  ASSUME Typed, Progress, Authority, [Next]_vars
  PROVE  DestinationPermitted'
<1> USE DEF Goto, Refuse
<1> SUFFICES ASSUME pc' \in {"secrets", "start"}, setup'.egress
             PROVE  Permitted(log', "network", Len(log'))
  BY DEF DestinationPermitted
<1>0. log \in Seq(Events) /\ Len(log) \in 0..Len(log) /\ setup.egress
  BY LogStep DEF Typed, TypeOK
<1>1. CASE RecordEgressDecision
  <2>1. log' = Append(log, Decided("network", "Allow"))
    BY <1>1 DEF RecordEgressDecision, Follow, Record
  <2> QED BY <1>0, <2>1, PermittedByAllow
<1>2. CASE RecordResolved
  <2>1. log' = Append(log, Resolved("network", "Approved")) /\ subject = "network" /\ pc = "resolved"
    BY <1>2 DEF RecordResolved, Record, Typed, TypeOK
  <2>2. Asked(log, "network")
    BY <2>1 DEF Authority, ApprovalAsked, Approving
  <2> QED BY <1>0, <2>1, <2>2, PermittedByApproval
<1>3. CASE ~RecordEgressDecision /\ ~RecordResolved
  <2>1. pc \in {"secrets", "start"}
    <3>1. CASE Mediation
      BY <3>1 DEF Mediation, Normalize, CheckProtocol, CheckRegistry, RecordRejection,
        EvaluateTool, RecordToolDecision, Follow
    <3>2. CASE Approval
      BY <1>3, <3>2 DEF Approval, RequestApproval, RecordRequested, Wait
    <3>3. CASE Budget
      BY <3>3 DEF Budget, PlanBudget, EvaluateUsage, RecordBudgetDecision, RecordUsage, UsagesDone
    <3>4. CASE EvaluateEgress
      BY <1>0, <3>4 DEF EvaluateEgress
    <3>5. CASE AttachSecrets \/ RecordStarted \/ Execute \/ RecordFinished \/ Kill
      BY <3>5 DEF AttachSecrets, RecordStarted, Execute, RecordFinished, Kill
    <3>6. CASE UNCHANGED vars
      BY <3>6 DEF vars
    <3> QED BY <1>3, <3>1, <3>2, <3>3, <3>4, <3>5, <3>6 DEF Next, Step, Effect, Finished
  <2>2. Permitted(log, "network", Len(log))
    BY <1>0, <2>1 DEF Authority, DestinationPermitted
  <2>3. CASE log' = log
    BY <2>2, <2>3
  <2>4. CASE \E e \in Events : log' = Append(log, e)
    <3>1. PICK e \in Events : log' = Append(log, e)
      BY <2>4
    <3>2. Len(log') = Len(log) + 1
      BY <1>0, <3>1
    <3> QED BY <1>0, <2>2, <3>1, <3>2, PermittedKept
  <2> QED BY <2>3, <2>4, LogStep
<1> QED BY <1>1, <1>2, <1>3

LEMMA BegunStep ==
  ASSUME Typed, Progress, Authority, [Next]_vars
  PROVE  Begun'
<1> USE DEF Goto, Refuse
<1> SUFFICES ASSUME effect' \/ pc' = "execute"
             PROVE  \E n \in DOMAIN log' : log'[n] = Started /\ ChecksPassed(log, n)'
  BY DEF Begun, Started, Event
<1>0. log \in Seq(Events) /\ setup' = setup /\ Len(log) \in 0..Len(log)
  BY LogStep DEF Typed, TypeOK
<1>1. CASE RecordStarted /\ pc' = "execute"
  <2>1. log' = Append(log, Started) /\ pc = "start"
    BY <1>1 DEF RecordStarted, Record
  <2>2. phase = "planned"
    BY <2>1 DEF Progress, Outside, Typed, TypeOK
  <2>3. /\ Permitted(log, "tool", Len(log)) /\ WithinBudget(log, Len(log))
        /\ setup.egress => Permitted(log, "network", Len(log))
    BY <2>1, <2>2 DEF Authority, ToolPermitted, LimitsKept, DestinationPermitted, Checked
  <2>4. Started \in Events /\ Started \notin OverLimit
    BY EventTypes DEF OverLimit, Started, Decided, Event
  <2>5. Len(log) + 1 \in DOMAIN log' /\ log'[Len(log) + 1] = Started
    BY <1>0, <2>1, <2>4
  <2>6. /\ Permitted(log', "tool", Len(log) + 1) /\ WithinBudget(log', Len(log) + 1)
        /\ setup.egress => Permitted(log', "network", Len(log) + 1)
    BY <1>0, <2>1, <2>3, <2>4, PermittedKept, BudgetKept
  <2> QED BY <1>0, <2>5, <2>6 DEF ChecksPassed, Permitted, WithinBudget
<1>2. CASE ~(RecordStarted /\ pc' = "execute")
  <2>1. effect \/ pc = "execute"
    <3> USE DEF approving, budget, execution
    <3>1. CASE Mediation
      BY <3>1 DEF Mediation, Normalize, CheckProtocol, CheckRegistry, RecordRejection,
        EvaluateTool, RecordToolDecision, Follow
    <3>2. CASE Approval
      BY <3>2 DEF Approval, RequestApproval, RecordRequested, Wait, RecordResolved
    <3>3. CASE Budget
      BY <3>3 DEF Budget, PlanBudget, EvaluateUsage, RecordBudgetDecision, RecordUsage, UsagesDone
    <3>4. CASE EvaluateEgress \/ RecordEgressDecision \/ AttachSecrets \/ RecordStarted
      BY <1>2, <3>4 DEF EvaluateEgress, RecordEgressDecision, Follow, AttachSecrets, RecordStarted
    <3>5. CASE Execute \/ RecordFinished \/ Kill
      BY <3>5 DEF Execute, RecordFinished, Kill
    <3>6. CASE UNCHANGED vars
      BY <3>6 DEF vars
    <3> QED BY <3>1, <3>2, <3>3, <3>4, <3>5, <3>6 DEF Next, Step, Effect, Finished
  <2>2. PICK n \in DOMAIN log : log[n] = Started /\ ChecksPassed(log, n)
    BY <2>1 DEF Authority, Begun
  <2>3. n \in 0..Len(log) /\ n \in 1..Len(log)
    BY <1>0, <2>2
  <2>4. CASE log' = log
    BY <1>0, <2>2, <2>4 DEF ChecksPassed, Permitted, WithinBudget
  <2>5. CASE \E e \in Events : log' = Append(log, e)
    <3>1. PICK e \in Events : log' = Append(log, e)
      BY <2>5
    <3>2. n \in DOMAIN log' /\ log'[n] = Started
      BY <1>0, <2>2, <2>3, <3>1
    <3>3. /\ Permitted(log', "tool", n) /\ WithinBudget(log', n)
          /\ setup.egress => Permitted(log', "network", n)
      BY <1>0, <2>2, <2>3, <3>1, PermittedKept, BudgetKept DEF ChecksPassed
    <3> QED BY <1>0, <3>2, <3>3 DEF ChecksPassed, Permitted, WithinBudget
  <2> QED BY <2>4, <2>5, LogStep
<1> QED BY <1>1, <1>2

-----------------------------------------------------------------------------
(* The order of the log: nothing starts before the start, the broker hands   *)
(* out nothing before the checks, and the end is recorded once, at the end.  *)

Ahead == Early \cup Approving \cup Judging \cup Checked

Unstarted(s, n) == \A i \in 1..n : s[i] # Started
Unfinished(s, n) == \A i \in 1..n : s[i].kind # "finished"

Unbegun == pc \in Ahead /\ phase = "planned" => Unstarted(log, Len(log))

\* The checks precede the references: up to the line n of the log, which is the last
\* one as long as neither the start nor the end has been recorded.
GrantedAt(n) ==
  /\ ChecksPassed(log, n) /\ Unstarted(log, n)
  /\ \/ n < Len(log) /\ log[n + 1].kind \in {"started", "finished"}
     \/ n = Len(log) /\ pc \in {"start", "finish"} \cup Ends

Granted ==
  issued > 0 =>
    /\ pc \in {"start", "execute", "finish"} \cup Ends \/ phase = "observed"
    /\ \E n \in 0..Len(log) : GrantedAt(n)

Told ==
  /\ pc \notin Ends => Unfinished(log, Len(log))
  /\ ReturnedIsRecorded

\* What one execution keeps from its first step to its last.
Sound == Typed /\ Progress /\ Authority /\ Unbegun /\ Granted /\ Told

LEMMA UnstartedKept ==
  ASSUME NEW s \in Seq(Events), NEW e \in Events, NEW n \in 0..Len(s), Unstarted(s, n)
  PROVE  /\ Unstarted(Append(s, e), n)
         /\ n = Len(s) /\ e # Started => Unstarted(Append(s, e), Len(s) + 1)
BY DEF Unstarted

\* The places a step may come from.
LEMMA StepsFrom ==
  ASSUME Typed, [Next]_vars
  PROVE  /\ pc' \in Ahead /\ phase' = "planned" => pc \in Ahead /\ phase = "planned"
         /\ RecordStarted => pc' \in {"execute", "err"}
         /\ pc' \notin Ends => pc \notin Ends
         /\ pc' = "done" => pc = "done" \/ (RecordFinished /\ UNCHANGED <<result, error>>)
         /\ pc \in {"start", "execute", "finish"} \cup Ends =>
              pc' \in {"start", "execute", "finish"} \cup Ends \/ phase' = "observed"
         /\ phase = "observed" => phase' = "observed"
         /\ issued' = issued \/ AttachSecrets
         /\ pc \in Ends => UNCHANGED <<pc, log, result, error>>
         /\ pc = "start" => RecordStarted \/ Kill \/ UNCHANGED vars
         /\ pc = "finish" => RecordFinished \/ Kill \/ UNCHANGED vars
<1> USE DEF Goto, Refuse, Ahead, Early, Approving, Judging, Checked, Ends, approving, budget, execution
<1>0. RecordStarted => pc' \in {"execute", "err"}
  BY DEF RecordStarted
<1>1. CASE Mediation
  BY <1>0, <1>1 DEF Mediation, Normalize, CheckProtocol, CheckRegistry, RecordRejection,
    EvaluateTool, RecordToolDecision, Follow
<1>2. CASE Approval
  BY <1>0, <1>2 DEF Approval, RequestApproval, RecordRequested, Wait, RecordResolved
<1>3. CASE Budget
  BY <1>0, <1>3
    DEF Budget, PlanBudget, EvaluateUsage, RecordBudgetDecision, RecordUsage, UsagesDone
<1>4. CASE EvaluateEgress \/ RecordEgressDecision \/ AttachSecrets \/ RecordStarted
  BY <1>0, <1>4 DEF EvaluateEgress, RecordEgressDecision, Follow, AttachSecrets, RecordStarted
<1>5. CASE Execute \/ RecordFinished \/ Kill
  BY <1>0, <1>5 DEF Execute, RecordFinished, Kill
<1>6. CASE UNCHANGED vars
  BY <1>0, <1>6 DEF vars
<1> QED BY <1>1, <1>2, <1>3, <1>4, <1>5, <1>6 DEF Next, Step, Effect, Finished

LEMMA UnbegunStep ==
  ASSUME Sound, [Next]_vars
  PROVE  Unbegun'
<1> SUFFICES ASSUME pc' \in Ahead, phase' = "planned" PROVE Unstarted(log', Len(log'))
  BY DEF Unbegun, Unstarted, Started, Event
<1>0. log \in Seq(Events) /\ Len(log) \in 0..Len(log) /\ Typed
  BY DEF Sound, Typed, TypeOK
<1>1. Unstarted(log, Len(log)) /\ ~RecordStarted
  BY <1>0, StepsFrom DEF Sound, Unbegun, Ahead, Early, Approving, Judging, Checked
<1>2. CASE log' = log
  BY <1>1, <1>2
<1>3. CASE \E e \in Events : log' = Append(log, e) /\ e # Started
  <2>1. PICK e \in Events : log' = Append(log, e) /\ e # Started
    BY <1>3
  <2>2. Len(log') = Len(log) + 1
    BY <1>0, <2>1
  <2> QED BY <1>0, <1>1, <2>1, <2>2, UnstartedKept
<1> QED BY <1>0, <1>1, <1>2, <1>3, LogStep

LEMMA GrantedStep ==
  ASSUME Sound, [Next]_vars
  PROVE  Granted'
<1>0. /\ log \in Seq(Events) /\ Len(log) \in 0..Len(log) /\ issued \in 0..MaxSecrets
      /\ Typed /\ setup' = setup /\ (log' = log \/ \E e \in Events : log' = Append(log, e))
  BY LogStep DEF Sound, Typed, TypeOK
<1>1. CASE AttachSecrets
  <2>1. /\ pc = "secrets" /\ log' = log /\ UNCHANGED phase /\ pc' \in {"start", "finish"}
    BY <1>1 DEF AttachSecrets, Refuse, budget
  <2>2. phase = "planned"
    BY <2>1 DEF Sound, Typed, TypeOK, Progress, Outside
  <2>3. ChecksPassed(log, Len(log))
    BY <2>1, <2>2 DEF Sound, Authority, ToolPermitted, LimitsKept, DestinationPermitted, Checked,
      ChecksPassed
  <2>4. Unstarted(log, Len(log))
    BY <2>1, <2>2 DEF Sound, Unbegun, Ahead, Checked
  <2>5. ChecksPassed(log, Len(log))'
    BY <1>0, <2>1, <2>3 DEF ChecksPassed
  <2>6. Len(log') \in 0..Len(log') /\ Unstarted(log', Len(log'))
    BY <1>0, <2>1, <2>4
  <2> QED BY <2>1, <2>5, <2>6 DEF Granted, GrantedAt, ChecksPassed, Unstarted
<1>2. CASE ~AttachSecrets
  <2> SUFFICES ASSUME issued' > 0
               PROVE  /\ pc' \in {"start", "execute", "finish"} \cup Ends \/ phase' = "observed"
                      /\ \E n \in 0..Len(log') : GrantedAt(n)'
    BY DEF Granted
  <2>1. /\ pc \in {"start", "execute", "finish"} \cup Ends \/ phase = "observed"
        /\ pc' \in {"start", "execute", "finish"} \cup Ends \/ phase' = "observed"
        /\ issued > 0
    BY <1>0, <1>2, StepsFrom DEF Sound, Granted
  <2>2. PICK n \in 0..Len(log) : GrantedAt(n)
    BY <2>1 DEF Sound, Granted
  <2>3. CASE log' = log
    <3>1. n < Len(log) \/ pc' \in {"start", "finish"} \cup Ends
      <4> SUFFICES ASSUME pc \in {"start", "finish"} \cup Ends, ~(n < Len(log))
                   PROVE  pc' \in {"start", "finish"} \cup Ends
        BY <2>2 DEF GrantedAt
      <4>1. CASE pc = "start"
        <5>1. RecordStarted => pc' \in Ends
          BY <1>0, <2>3 DEF RecordStarted, Record, Ends
        <5> QED BY <1>0, <4>1, <5>1, StepsFrom DEF Kill, Ends, vars
      <4>2. CASE pc = "finish"
        BY <1>0, <4>2, StepsFrom DEF RecordFinished, Kill, Ends, vars
      <4>3. CASE pc \in Ends
        BY <1>0, <4>3, StepsFrom
      <4> QED BY <4>1, <4>2, <4>3
    <3>2. GrantedAt(n)'
      BY <1>0, <2>2, <2>3, <3>1 DEF GrantedAt, ChecksPassed, Unstarted
    <3> QED BY <2>1, <2>3, <3>2
  <2>4. CASE \E e \in Events : log' = Append(log, e)
    <3>1. PICK e \in Events : log' = Append(log, e)
      BY <2>4
    <3>2. Len(log') = Len(log) + 1 /\ n \in 0..Len(log')
          /\ \A i \in 1..Len(log) : log'[i] = log[i]
      BY <1>0, <2>2, <3>1
    <3>3. ChecksPassed(log, n)' /\ Unstarted(log', n)
      <4>1. ChecksPassed(log, n) /\ Unstarted(log, n)
        BY <2>2 DEF GrantedAt
      <4>2. /\ Permitted(log', "tool", n) /\ WithinBudget(log', n)
            /\ setup.egress => Permitted(log', "network", n)
        BY <1>0, <2>2, <3>1, <4>1, PermittedKept, BudgetKept DEF ChecksPassed
      <4> QED BY <1>0, <2>2, <3>1, <4>1, <4>2, UnstartedKept
        DEF ChecksPassed, Permitted, WithinBudget
    <3>4. n < Len(log') /\ log'[n + 1].kind \in {"started", "finished"}
      <4>1. CASE n < Len(log)
        <5>1. n + 1 \in 1..Len(log)
          BY <1>0, <2>2, <4>1
        <5>2. log[n + 1].kind \in {"started", "finished"}
          BY <1>0, <2>2, <4>1 DEF GrantedAt
        <5> QED BY <1>0, <3>2, <4>1, <5>1, <5>2
      <4>2. CASE ~(n < Len(log))
        <5>1. n = Len(log) /\ pc \in {"start", "finish"} \cup Ends /\ log' # log
          BY <1>0, <2>2, <3>2, <4>2 DEF GrantedAt
        <5>2. RecordStarted \/ RecordFinished
          BY <1>0, <5>1, StepsFrom DEF Kill, vars
        <5>3. log'[Len(log) + 1].kind \in {"started", "finished"}
          BY <1>0, <5>1, <5>2 DEF RecordStarted, RecordFinished, Record, Unrecorded, Started,
            FinishedWith, Event
        <5> QED BY <1>0, <3>2, <5>1, <5>3
      <4> QED BY <4>1, <4>2
    <3> QED BY <2>1, <3>2, <3>3, <3>4 DEF GrantedAt, ChecksPassed, Unstarted
  <2> QED BY <1>0, <2>3, <2>4
<1> QED BY <1>1, <1>2

LEMMA ToldStep ==
  ASSUME Sound, [Next]_vars
  PROVE  Told'
<1>0. /\ log \in Seq(Events) /\ Typed
      /\ log' = log \/ \E e \in Events :
           /\ log' = Append(log, e)
           /\ e.kind = "finished" =>
                RecordFinished /\ e = FinishedWith([result |-> result, error |-> error])
  BY LogStep DEF Sound, Typed, TypeOK
<1>1. ASSUME pc' \notin Ends PROVE Unfinished(log', Len(log'))
  <2>1. pc \notin Ends /\ Unfinished(log, Len(log)) /\ ~RecordFinished
    BY <1>0, <1>1, StepsFrom DEF Sound, Told, RecordFinished, Ends
  <2>2. CASE log' = log
    BY <2>1, <2>2
  <2>3. CASE \E e \in Events : log' = Append(log, e) /\ e.kind # "finished"
    BY <1>0, <2>1, <2>3 DEF Unfinished
  <2> QED BY <1>0, <2>1, <2>2, <2>3
<1>2. ASSUME pc' = "done"
      PROVE  /\ log' # <<>>
             /\ log'[Len(log')] = FinishedWith([result |-> result', error |-> error'])
             /\ \A i \in 1..(Len(log') - 1) : log'[i].kind # "finished"
  <2>1. CASE pc = "done"
    <3>1. UNCHANGED <<log, result, error>>
      BY <1>0, <2>1, StepsFrom DEF Ends
    <3> QED BY <2>1, <3>1 DEF Sound, Told, ReturnedIsRecorded
  <2>2. CASE pc # "done"
    <3>1. RecordFinished /\ UNCHANGED <<result, error>>
      BY <1>0, <1>2, <2>2, StepsFrom
    <3>2. log' = Append(log, FinishedWith([result |-> result, error |-> error]))
      BY <1>2, <3>1 DEF RecordFinished, Record
    <3>3. Unfinished(log, Len(log))
      BY <3>1 DEF RecordFinished, Sound, Told, Ends
    <3>4. FinishedWith([result |-> result, error |-> error]) \in Events
      BY EventTypes DEF Sound, Typed, TypeOK
    <3>5. Len(log') = Len(log) + 1 /\ \A i \in 1..Len(log) : log'[i] = log[i]
      BY <1>0, <3>2, <3>4
    <3> QED BY <1>0, <3>1, <3>2, <3>3, <3>4, <3>5 DEF Unfinished
  <2> QED BY <2>1, <2>2
<1>3. FinishedWith([result |-> result, error |-> error])'
        = FinishedWith([result |-> result', error |-> error'])
  BY DEF FinishedWith, Event
<1> QED BY <1>1, <1>2, <1>3 DEF Told, ReturnedIsRecorded, Unfinished

LEMMA SoundInitially == Init => Sound
<1> SUFFICES ASSUME Init PROVE Sound
  OBVIOUS
<1>1. Progress
  BY DEF Init, Progress, Outside
<1>2. WithinBudget(log, Len(log)) /\ Unstarted(log, Len(log)) /\ Unfinished(log, Len(log))
  BY DEF Init, WithinBudget, Unstarted, Unfinished
<1>3. Authority
  BY <1>2 DEF Init, Authority, ToolPermitted, ApprovalAsked, LimitsKept, DestinationPermitted,
    Begun, Judging, Checked, Approving
<1>4. Unbegun /\ Granted /\ Told
  BY <1>2 DEF Init, Unbegun, Granted, Told, ReturnedIsRecorded
<1> QED BY <1>1, <1>3, <1>4, Initially DEF Sound

LEMMA SoundStep == Sound /\ [Next]_vars => Sound'
<1> SUFFICES ASSUME Sound, [Next]_vars PROVE Sound'
  OBVIOUS
<1>1. Typed' /\ Progress'
  BY TypedStep, ProgressStep DEF Sound
<1>2. Authority'
  BY ToolPermittedStep, ApprovalAskedStep, LimitsKeptStep, DestinationPermittedStep, BegunStep
    DEF Sound, Authority
<1> QED BY <1>1, <1>2, UnbegunStep, GrantedStep, ToldStep DEF Sound

-----------------------------------------------------------------------------
(* One execution, for any number of usages and of references.               *)

LEMMA SoundAlways == Spec => []Sound
BY SoundInitially, SoundStep, PTL DEF Spec

\* Every variable of an execution keeps its type (execute_tool_action).
THEOREM TypeCorrect == Spec => []TypeOK
<1>1. Sound => TypeOK
  BY DEF Sound, Typed
<1> QED BY <1>1, SoundAlways, PTL

\* What the executor returns is a possible outcome: no refusal with an effect,
\* no result without one, no budget error that drops the result of an effect.
THEOREM ExecutorKeepsContract == Spec => []ContractKept
<1>1. Sound => ContractKept
  BY DEF Sound, Progress, ContractKept
<1> QED BY <1>1, SoundAlways, PTL

\* A connector that acted has its start in the log, and before it every check
\* passed, in whatever way the call failed or was killed afterwards.
THEOREM EffectsAreAuthorised == Spec => []EffectIsAuthorised
<1>1. Sound => EffectIsAuthorised
  BY DEF Sound, Authority, Begun, EffectIsAuthorised
<1> QED BY <1>1, SoundAlways, PTL

\* Whatever the broker handed out it handed out after the last check, and before the
\* start: also in a call that was refused then, or killed.
THEOREM SecretsFollowChecks == Spec => []SecretsAfterChecks
<1>1. Sound => SecretsAfterChecks
  BY DEF Sound, Granted, GrantedAt, Unstarted, SecretsAfterChecks
<1> QED BY <1>1, SoundAlways, PTL

\* The execution that is returned is the one on record, and it is recorded once.
THEOREM ReturnsAreRecorded == Spec => []ReturnedIsRecorded
<1>1. Sound => ReturnedIsRecorded
  BY DEF Sound, Told
<1> QED BY <1>1, SoundAlways, PTL

-----------------------------------------------------------------------------
(* The listener: one execution after the other, and what its clients hear.  *)

Answer == {"Succeeded", "Denied", "Failed"}

LEMMA AnswerIs ==
  ASSUME TypeOK
  PROVE  /\ ExecutionStatus(error) \in Answer
         /\ ExecutionStatus(error) = "Succeeded" => error = "none"
<1>1. CASE error = "none"
  <2>1. error \notin Refusals \cup {"BudgetExceeded"}
    BY <1>1 DEF Refusals
  <2>2. ExecutionStatus(error) = "Succeeded"
    BY <1>1, <2>1, Zenon DEF ExecutionStatus
  <2> QED BY <1>1, <2>2 DEF Answer
<1>2. CASE error \in Refusals \cup {"BudgetExceeded"}
  <2>1. error # "none"
    BY <1>2 DEF Refusals
  <2>2. ExecutionStatus(error) = "Denied"
    BY <1>2, <2>1, Zenon DEF ExecutionStatus
  <2> QED BY <2>2 DEF Answer
<1>3. CASE error # "none" /\ error \notin Refusals \cup {"BudgetExceeded"}
  <2>1. ExecutionStatus(error) = "Failed"
    BY <1>3, Zenon DEF ExecutionStatus
  <2> QED BY <2>1 DEF Answer
<1> QED BY <1>1, <1>2, <1>3

\* A list of statuses that ends, but for the end of the task, with s.
EndsWith(list, s) ==
  \E i \in DOMAIN list :
    list[i] = s /\ \A j \in DOMAIN list : j > i => list[j] \in {"Reporting", "Succeeded"}

LEMMA JustAppended ==
  ASSUME NEW s, NEW S, NEW list \in Seq(S), s \in S
  PROVE  EndsWith(Append(list, s), s)
<1>1. Len(list) + 1 \in DOMAIN Append(list, s) /\ Append(list, s)[Len(list) + 1] = s
  OBVIOUS
<1>2. \A j \in DOMAIN Append(list, s) : ~(j > Len(list) + 1)
  OBVIOUS
<1> QED BY <1>1, <1>2 DEF EndsWith

LEMMA StillEnds ==
  ASSUME NEW s, NEW S, NEW list \in Seq(S), EndsWith(list, s), NEW e \in S,
         e \in {"Reporting", "Succeeded"}
  PROVE  EndsWith(Append(list, e), s)
<1>1. PICK i \in DOMAIN list :
        list[i] = s /\ \A j \in DOMAIN list : j > i => list[j] \in {"Reporting", "Succeeded"}
  BY DEF EndsWith
<1>2. i \in DOMAIN Append(list, e) /\ Append(list, e)[i] = s
  BY <1>1
<1>3. \A j \in DOMAIN Append(list, e) : j > i => Append(list, e)[j] \in {"Reporting", "Succeeded"}
  BY <1>1
<1> QED BY <1>2, <1>3 DEF EndsWith

Line == {"Created", "Running", "Reporting"} \cup Answer

\* An answer is given at the end of an execution, after its status is in the trail; it
\* stays the answer until the next connection is taken.
Heard ==
  /\ trail \in Seq(Line) /\ reply \in {"none", "malformed"} \cup Answer
  /\ place \in {"read", "execute", "artifacts", "status", "respond"} => reply = "none"
  /\ place \in {"artifacts", "status", "respond"} => pc = "done"
  /\ place = "respond" => EndsWith(trail, ExecutionStatus(error))
  /\ reply \in Answer =>
       /\ place \in {"accept", "reporting", "report", "artifact", "succeed"} \cup Stopped
       /\ pc = "done" /\ reply = ExecutionStatus(error) /\ EndsWith(trail, reply)

\* A step of the listener is one of the execution, or begins the next.
LEMMA ListenerSteps == [ListenerNext]_allVars => [Next]_vars \/ Init'
<1> SUFFICES ASSUME [ListenerNext]_allVars PROVE [Next]_vars \/ Init'
  OBVIOUS
<1>1. CASE Begin \/ End
  BY <1>1 DEF Begin, End, Open, Created, RecordTask, Running, Bind, Reporting, GenerateReport,
    RecordReport, Succeed, Call, Transition
<1>2. CASE Accept
  BY <1>2 DEF Accept, Init
<1>3. CASE Connection
  BY <1>3 DEF Connection, Read, Execution, Returned, RecordArtifacts, RecordStatus, Respond,
    Call, Transition, Next
<1>4. CASE KillListener
  BY <1>4 DEF KillListener, Next
<1>5. CASE UNCHANGED allVars
  BY <1>5 DEF allVars
<1> QED BY <1>1, <1>2, <1>3, <1>4, <1>5 DEF ListenerNext

LEMMA HeardStep ==
  ASSUME Sound, Heard, [ListenerNext]_allVars
  PROVE  Heard'
<1> USE DEF Move, Stopped
<1>0. TypeOK /\ ExecutionStatus(error) \in Answer /\ trail \in Seq(Line)
  BY AnswerIs DEF Sound, Typed, Heard
<1>1. CASE Begin
  <2>1. /\ place \in {"open", "created", "name", "running", "bind"}
        /\ place' \in {"created", "name", "running", "bind", "accept", "failed"}
        /\ reply' = reply /\ trail' \in Seq(Line)
    BY <1>0, <1>1 DEF Begin, Open, Created, RecordTask, Running, Bind, Call, Transition, Line
  <2>2. reply \notin Answer
    BY <2>1 DEF Heard
  <2> QED BY <2>1, <2>2 DEF Heard
<1>2. CASE Accept
  BY <1>2 DEF Accept, Heard, Answer
<1>3. CASE Read
  BY <1>3 DEF Read, Heard, Answer, Following
<1>4. CASE Execution
  BY <1>4 DEF Execution, listening, Heard, Answer
<1>5. CASE Returned
  BY <1>5 DEF Returned, vars, Heard, Answer
<1>6. CASE RecordArtifacts
  BY <1>6 DEF RecordArtifacts, Call, vars, Heard, Answer
<1>7. CASE RecordStatus
  <2>1. /\ place = "status" /\ place' \in {"respond", "failed"} /\ UNCHANGED <<vars, reply>>
        /\ trail' \in {trail, Append(trail, ExecutionStatus(error))}
        /\ place' = "respond" => trail' = Append(trail, ExecutionStatus(error))
    BY <1>7 DEF RecordStatus, Transition
  <2>2. trail' \in Seq(Line)
    <3>1. ExecutionStatus(error) \in Line
      BY <1>0 DEF Line
    <3>2. Append(trail, ExecutionStatus(error)) \in Seq(Line)
      BY <1>0, <3>1
    <3> QED BY <1>0, <2>1, <3>2
  <2>3. place' = "respond" => EndsWith(trail', ExecutionStatus(error))
    <3>1. EndsWith(Append(trail, ExecutionStatus(error)), ExecutionStatus(error))
      BY <1>0, JustAppended DEF Line
    <3> QED BY <2>1, <3>1
  <2>4. ExecutionStatus(error)' = ExecutionStatus(error) /\ pc' = pc
    BY <2>1 DEF vars, execution
  <2> QED BY <2>1, <2>2, <2>3, <2>4 DEF Heard, Answer
<1>8. CASE Respond
  <2>1. /\ place = "respond" /\ place' \in {"accept", "reporting", "failed"}
        /\ UNCHANGED <<vars, trail>> /\ reply' \in {reply, ExecutionStatus(error)}
    BY <1>8 DEF Respond, Following
  <2>2. ExecutionStatus(error)' = ExecutionStatus(error) /\ pc' = pc
    BY <2>1 DEF vars, execution
  <2> QED BY <1>0, <2>1, <2>2 DEF Heard, Answer
<1>9. CASE End
  <2>1. /\ place \in {"reporting", "report", "artifact", "succeed"}
        /\ place' \in {"report", "artifact", "succeed", "ended", "failed"}
        /\ UNCHANGED <<vars, reply>>
        /\ trail' \in {trail, Append(trail, "Reporting"), Append(trail, "Succeeded")}
    BY <1>9 DEF End, Reporting, GenerateReport, RecordReport, Succeed, Call, Transition
  <2>2. trail' \in Seq(Line) /\ (EndsWith(trail, reply) => EndsWith(trail', reply))
    <3>1. ASSUME NEW e \in {"Reporting", "Succeeded"}, trail' = Append(trail, e)
          PROVE  trail' \in Seq(Line) /\ (EndsWith(trail, reply) => EndsWith(trail', reply))
      <4>1. e \in Line
        BY DEF Line, Answer
      <4> QED BY <1>0, <3>1, <4>1, StillEnds
    <3> QED BY <1>0, <2>1, <3>1
  <2>3. ExecutionStatus(error)' = ExecutionStatus(error) /\ pc' = pc
    BY <2>1 DEF vars, execution
  <2> QED BY <2>1, <2>2, <2>3 DEF Heard
<1>10. CASE KillListener
  <2>1. place' = "killed" /\ UNCHANGED <<trail, reply>>
    BY <1>10 DEF KillListener
  <2>2. reply \in Answer => UNCHANGED vars
    BY <1>10 DEF KillListener, Heard
  <2>3. reply \in Answer => ExecutionStatus(error)' = ExecutionStatus(error) /\ pc' = pc
    BY <2>2 DEF vars, execution
  <2> QED BY <2>1, <2>3 DEF Heard
<1>11. CASE UNCHANGED allVars
  BY <1>11 DEF allVars, listening, vars, execution, Heard
<1> QED BY <1>1, <1>2, <1>3, <1>4, <1>5, <1>6, <1>7, <1>8, <1>9, <1>10, <1>11
  DEF ListenerNext, Connection

LEMMA ListenerSound == ListenerSpec => [](Sound /\ Heard)
<1>1. ListenerInit => Init /\ Heard
  BY DEF ListenerInit, Heard, Answer, Stopped
<1> QED BY <1>1, SoundInitially, SoundStep, ListenerSteps, HeardStep, PTL DEF ListenerSpec

\* The executions a listener serves one after the other keep what one execution keeps:
\* nothing of an earlier connection counts as permission for a later one.
THEOREM ListenerKeepsChecks ==
  ListenerSpec => [](EffectIsAuthorised /\ SecretsAfterChecks /\ ContractKept)
<1>1. Sound => EffectIsAuthorised /\ SecretsAfterChecks /\ ContractKept
  BY DEF Sound, Authority, Begun, EffectIsAuthorised, Granted, GrantedAt, Unstarted,
    SecretsAfterChecks, Progress, ContractKept
<1> QED BY <1>1, ListenerSound, PTL

\* What a client hears is the end its execution has on record, and the last status of
\* the task when it hears it; a success is one of the connector.
THEOREM AnswersHaveRecords == ListenerSpec => []AnswersAreRecorded
<1>1. Sound /\ Heard => AnswersAreRecorded
  <2> SUFFICES ASSUME Sound, Heard, reply \in Answer
               PROVE  /\ pc = "done" /\ reply = ExecutionStatus(error) /\ EndsWith(trail, reply)
                      /\ reply = "Succeeded" => effect /\ result
    BY DEF AnswersAreRecorded, Answer, Sound, Told, EndsWith
  <2>1. pc = "done" /\ reply = ExecutionStatus(error) /\ EndsWith(trail, reply)
    BY DEF Heard
  <2>2. [effect |-> effect, result |-> result, error |-> error] \in PossibleOutcomes
    BY <2>1 DEF Sound, Progress
  <2>3. reply = "Succeeded" => error = "none"
    BY <2>1, AnswerIs DEF Sound, Typed
  <2>4. error = "none" => effect /\ result
    BY <2>2 DEF PossibleOutcomes, ErrorKind, AdapterErrors, Refusals
  <2> QED BY <2>1, <2>3, <2>4
<1> QED BY <1>1, ListenerSound, PTL
=============================================================================
