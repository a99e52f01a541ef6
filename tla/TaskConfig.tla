------------------------------ MODULE TaskConfig ------------------------------
(***************************************************************************)
(* taskfence-config: what a task file says, which task files are accepted  *)
(* and what they resolve to.                                               *)
(*                                                                         *)
(* A path is the sequence of its components.  A path as written has been   *)
(* joined to the directory of the task file and tells whether it has a     *)
(* ".." component.  A text is a value of which only two things matter: its *)
(* normal form, and which kinds of characters it contains.  An optional    *)
(* field is a set of at most one element.                                  *)
(***************************************************************************)
EXTENDS Naturals, Sequences, SequencesExt

CONSTANTS
  Canonical,   \* existing path |-> the path its links lead to
  Unreadable,  \* paths whose resolution fails for another reason than absence
  Normal,      \* text |-> trimmed and in lower case, "" if nothing is left
  Has          \* kind of characters |-> the texts that contain some

\* Links lead to paths, and a newline is white space.
ASSUME CanonicalAssumption == \A p \in DOMAIN Canonical : Canonical[p] \in Seq(STRING)
ASSUME WhiteSpaceAssumption == Has.newline \subseteq Has.space

NonBlank(text) == Normal[text] # ""
Free(text, kinds) == \A kind \in kinds : text \notin Has[kind]

-----------------------------------------------------------------------------
(* What a task file may say.                                                *)

WrittenPath == [at : Seq(STRING), parent : BOOLEAN]

RawSandbox ==
  LET Place == [absolute : BOOLEAN, parent : BOOLEAN, text : STRING]
      Ssh == [host : STRING, user : SUBSET STRING, port : SUBSET Nat,
              workspace : SUBSET Place, identity : SUBSET Place, knownHosts : SUBSET Place,
              isolatedWorkspace : BOOLEAN, isolatedSecrets : BOOLEAN, terminates : BOOLEAN,
              enforcesLimits : BOOLEAN, uncontrolledAllow : BOOLEAN]
  IN [kind : SUBSET STRING, image : SUBSET STRING, ssh : SUBSET Ssh, timeout : SUBSET Nat,
      cpu : SUBSET STRING, memory : SUBSET STRING, disk : SUBSET STRING]

RawConnector ==
  [kind : STRING, api : STRING, name : STRING, engine : STRING, path : WrittenPath]
RawGatewayTool ==
  [name : STRING, connector : RawConnector,
   secretRefs : SUBSET [name : STRING, parameter : STRING, scope : STRING]]

\* Patterns and the lists of them, for texts of one type.
Pattern(Text) == [literal : SUBSET Text, glob : SUBSET Text, valid : BOOLEAN]
RuleLists(Text) ==
  [deny : Seq(Pattern(Text)), approval : Seq(Pattern(Text)), allow : Seq(Pattern(Text))]

\* A command is the sequence of its words.
RawTaskFile ==
  [id : STRING, goal : STRING, workspace : WrittenPath,
   agent : [kind : STRING, command : STRING, args : Seq(STRING)], sandbox : RawSandbox,
   read : SUBSET WrittenPath, write : SUBSET WrittenPath,
   network : [default : SUBSET STRING, domains : SUBSET STRING],
   commands : RuleLists(Seq(STRING)), tools : RuleLists(STRING), env : Seq(STRING),
   budget : Seq([kind : STRING, max : Nat]), exposeSecrets : BOOLEAN,
   grants : SUBSET [name : STRING, useFor : SUBSET STRING], approval : [timeout : SUBSET Nat],
   gateway : [mode : SUBSET STRING, egress : BOOLEAN, tools : SUBSET RawGatewayTool],
   report : SUBSET STRING, fileDiff : BOOLEAN]

-----------------------------------------------------------------------------
(* Paths.                                                                   *)

Under(root, path) == IsPrefix(root, path)

\* The workspace has to exist; its links are resolved.
ResolveExistingWorkspace(raw) ==
  {Canonical[p] : p \in {raw.at} \cap (DOMAIN Canonical \ Unreadable)}

\* A path that does not exist yet is taken as written, any other as resolved.
ValidateAllowedPath(path) ==
  IF path \in DOMAIN Canonical THEN Canonical[path] ELSE path

\* The path a permission stands for, none if it is rejected.
ResolvePath(workspace, raw) ==
  {p \in {ValidateAllowedPath(raw.at)} :
     ~raw.parent /\ raw.at \notin Unreadable /\ Under(workspace, p)}

PathsAccepted(workspace, raws) == \A raw \in raws : ResolvePath(workspace, raw) # {}
ResolvePaths(workspace, raws) == UNION {ResolvePath(workspace, raw) : raw \in raws}

-----------------------------------------------------------------------------
(* The sections of a task file.                                             *)

AgentAccepted(agent) == NonBlank(agent.command)
ResolveAgent(agent) ==
  [agent EXCEPT !.kind = IF @ = "generic" THEN "Generic" ELSE @]

SshSegment(text) == NonBlank(text) /\ Free(text, {"nul", "at", "control"})
SshPath(path) == path.absolute /\ ~path.parent /\ Free(path.text, {"nul"})

SshAccepted(ssh) ==
  /\ \A text \in {ssh.host} \cup ssh.user : SshSegment(text)
  /\ 0 \notin ssh.port
  /\ \A path \in ssh.workspace \cup ssh.identity \cup ssh.knownHosts : SshPath(path)

RunnerKinds == {"docker", "remote_ssh", "kubernetes_job", "microvm", "managed_cloud"}

\* Any type is accepted here; the runner rejects the ones it does not know.
SandboxAccepted(sandbox) ==
  /\ sandbox.kind # {}
  /\ 0 \notin sandbox.timeout
  /\ (sandbox.kind = {"remote_ssh"}) = (sandbox.ssh # {})
  /\ \A ssh \in sandbox.ssh : SshAccepted(ssh)

ResolveSandboxKind(kind) == IF kind \in RunnerKinds THEN kind ELSE "unsupported"

ValidateDomain(text) ==
  NonBlank(text) /\ Free(text, {"slash", "colon", "star", "emptyLabel"})

NetworkAccepted(network) ==
  /\ network.default \subseteq {"allow", "deny", "disabled"}
  /\ \A domain \in network.domains : ValidateDomain(domain)

NetworkDefault(network) == IF network.default = {} THEN "deny"
                           ELSE CHOOSE default \in network.default : TRUE

BudgetAccepted(budget) ==
  \A n \in DOMAIN budget : NonBlank(budget[n].kind) /\ budget[n].max > 0

ResolveBudget(budget) == [n \in DOMAIN budget |-> [budget[n] EXCEPT !.kind = Normal[@]]]

ApprovalAccepted(approval) == 0 \notin approval.timeout
ResolveApproval(approval) == IF approval.timeout = {} THEN {60} ELSE approval.timeout

ReportAccepted(format) == format \subseteq {"markdown", "html"}

-----------------------------------------------------------------------------
(* Gateway tools and their connectors.                                      *)

ApiBase(text) == text \in Has.https /\ Free(text, {"at", "query", "space"})
Token(text) == NonBlank(text) /\ Free(text, {"dotdot", "odd", "slash"})
ConnectorPath(text) == NonBlank(text) /\ Free(text, {"dotdot", "odd", "emptySegment"})
Repository(text) ==
  text \in Has.slash /\ Free(text, {"dotdot", "odd", "emptySegment", "twoSlashes"})
Reference(text) == NonBlank(text) /\ Free(text, {"space", "at", "query", "credential"})

\* What the name beside the API base of a connector has to be.
NamedBy ==
  [github_rest |-> "repository", github_enterprise_rest |-> "repository",
   gitlab |-> "path", gitee |-> "path", coding |-> "path",
   jira |-> "token", feishu |-> "token", wecom |-> "token", dingtalk |-> "token",
   internal_http |-> "token", siem_export |-> "reference"]

NameAccepted(rule, text) ==
  \/ rule = "repository" /\ Repository(text)
  \/ rule = "path" /\ ConnectorPath(text)
  \/ rule = "token" /\ Token(text)
  \/ rule = "reference" /\ Reference(text)

\* A fixture has to exist inside the workspace.
FixtureAccepted(workspace, raw) ==
  /\ raw.at \in DOMAIN Canonical \ Unreadable /\ ~raw.parent
  /\ Under(workspace, Canonical[raw.at])

ConnectorAccepted(workspace, connector) ==
  CASE connector.kind = "local_fixture" ->
         NonBlank(connector.name) /\ FixtureAccepted(workspace, connector.path)
    [] connector.kind = "unsupported" -> NonBlank(connector.name)
    [] connector.kind = "database" -> Token(connector.engine) /\ Reference(connector.name)
    [] OTHER -> /\ ApiBase(connector.api)
                /\ NameAccepted(NamedBy[connector.kind], connector.name)

SecretRefAccepted(ref) == \A text \in {ref.name, ref.parameter, ref.scope} : NonBlank(text)

ToolAccepted(workspace, tool) ==
  /\ NonBlank(tool.name)
  /\ ConnectorAccepted(workspace, tool.connector)
  /\ \A ref \in tool.secretRefs : SecretRefAccepted(ref)

\* The names of a tool and of its secrets are taken in lower case.
ResolveTool(tool) ==
  [tool EXCEPT !.name = Normal[@],
               !.secretRefs = {[ref EXCEPT !.name = Normal[@], !.scope = Normal[@]] : ref \in @}]

GatewayMode(gateway) == IF gateway.mode = {} THEN "spool_only"
                        ELSE CHOOSE mode \in gateway.mode : TRUE

GatewayAccepted(workspace, gateway) ==
  /\ gateway.mode \subseteq {"spool_only", "local_listener"}
  /\ gateway.egress => GatewayMode(gateway) = "local_listener"
  /\ \A tool \in gateway.tools : ToolAccepted(workspace, tool)

-----------------------------------------------------------------------------
(* The whole file.                                                          *)

ParseTaskFile(raw) ==
  /\ NonBlank(raw.goal) /\ ~raw.workspace.parent
  /\ \E workspace \in ResolveExistingWorkspace(raw.workspace) :
       /\ PathsAccepted(workspace, raw.read \cup raw.write)
       /\ GatewayAccepted(workspace, raw.gateway)
  /\ NetworkAccepted(raw.network) /\ BudgetAccepted(raw.budget)
  /\ ~raw.exposeSecrets
  /\ AgentAccepted(raw.agent) /\ SandboxAccepted(raw.sandbox)
  /\ ApprovalAccepted(raw.approval) /\ ReportAccepted(raw.report)

Resolve(raw) ==
  LET workspace == CHOOSE w \in ResolveExistingWorkspace(raw.workspace) : TRUE
      kind == CHOOSE k \in raw.sandbox.kind : TRUE
  IN [id |-> raw.id, workspace |-> workspace,
      agent |-> ResolveAgent(raw.agent),
      sandbox |-> [raw.sandbox EXCEPT !.kind = ResolveSandboxKind(kind)],
      read |-> ResolvePaths(workspace, raw.read),
      write |-> ResolvePaths(workspace, raw.write),
      network |-> [default |-> NetworkDefault(raw.network),
                   domains |-> {Normal[d] : d \in raw.network.domains}],
      commands |-> raw.commands, tools |-> raw.tools, env |-> raw.env,
      budget |-> ResolveBudget(raw.budget),
      exposeSecrets |-> raw.exposeSecrets, grants |-> raw.grants,
      approvalTimeout |-> ResolveApproval(raw.approval),
      gateway |-> [mode |-> GatewayMode(raw.gateway), egress |-> raw.gateway.egress,
                   tools |-> {ResolveTool(t) : t \in raw.gateway.tools}],
      fileDiff |-> raw.fileDiff]
=============================================================================
