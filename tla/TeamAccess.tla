----------------------------- MODULE TeamAccess -----------------------------
(***************************************************************************)
(* Who may do what in the team control plane: evaluate_team_access and     *)
(* its two tables, a pure function of a policy and a request.              *)
(***************************************************************************)
EXTENDS Naturals, Sequences

TeamRole == {"Viewer", "Approver", "Operator", "Auditor", "Admin"}
TeamApiMethod == {"Read", "ResolveApproval", "EnqueueTask", "WriteArtifact", "ExportAudit"}

TaskEvidence == {"TaskList", "TaskDetail", "TaskEvents", "TaskLogs", "TaskDiff",
                 "TaskReport", "TaskArtifacts"}
TeamApiResource ==
  TaskEvidence \cup {"Approvals", "ApprovalDetail", "ReplayInputs", "AuditExport"}

\* The resources a method makes sense for, whoever asks.
MethodResources ==
  [Read            |-> TeamApiResource \ {"AuditExport"},
   ResolveApproval |-> {"ApprovalDetail"},
   EnqueueTask     |-> {"TaskList"},
   WriteArtifact   |-> {"TaskArtifacts"},
   ExportAudit     |-> {"AuditExport"}]

\* The resources a role may apply a method to.
RoleAllows(role, method) ==
  CASE role = "Admin" -> TeamApiResource
    [] role = "Viewer" /\ method = "Read" -> TaskEvidence \cup {"ReplayInputs"}
    [] role = "Approver" /\ method = "Read" -> TeamApiResource \ {"AuditExport"}
    [] role = "Approver" /\ method = "ResolveApproval" -> TeamApiResource
    [] role = "Operator" /\ method = "Read" -> TeamApiResource \ {"AuditExport"}
    [] role = "Operator" /\ method \in {"EnqueueTask", "WriteArtifact", "ResolveApproval"}
         -> TeamApiResource
    [] role = "Auditor" /\ method = "Read" -> TeamApiResource \ {"ReplayInputs"}
    [] role = "Auditor" /\ method = "ExportAudit" -> {"AuditExport"}
    [] OTHER -> {}

\* The role of the first grant that names the actor, as a set: empty if none.
RolesOf(policy, actor) ==
  {policy.grants[i].role : i \in {n \in DOMAIN policy.grants :
     /\ policy.grants[n].actor = actor
     /\ \A k \in 1..(n - 1) : policy.grants[k].actor # actor}}

EvaluateTeamAccess(policy, request) ==
  /\ policy.organization = request.organization
  /\ \E role \in RolesOf(policy, request.actor) :
       /\ request.resource \in MethodResources[request.method]
       /\ request.resource \in RoleAllows(role, request.method)
=============================================================================
