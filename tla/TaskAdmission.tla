---------------------------- MODULE TaskAdmission ----------------------------
(***************************************************************************)
(* What a task file has to pass before its agent runs: taskfence run loads *)
(* the file, builds the agent's invocation, asks the policy, has a human   *)
(* approve where the policy says so, prepares the sandbox and starts it.   *)
(* taskfence validate takes the same steps up to the plan.  The rules are  *)
(* those of TaskConfig, Policy and RunnerPlan; Orchestrator has the same   *)
(* steps with every outcome possible, and what happens around them.        *)
(* The gateway serves calls of a task that is loaded: the rules are those  *)
(* of Connectors, GatewayExecution has the steps with every outcome.       *)
(***************************************************************************)
EXTENDS RunnerPlan, Policy, Connectors

CONSTANTS
  RawTask,   \* the task files
  Path,      \* host paths the properties look at
  Host,      \* hosts an agent may want to reach
  ToolKey,   \* tool calls it may want to make
  Amount,    \* amounts it may want to spend
  Call       \* calls of the gateway's tools

ASSUME TaskFilesAssumption == RawTask \subseteq RawTaskFile /\ Path \subseteq Seq(STRING)
ASSUME CallsAssumption == \A action \in Call : DOMAIN action = {"name", "parameters", "host"}
ASSUME ToolKeysAssumption == ToolKey \subseteq STRING

VARIABLES
  raw,        \* the task file
  stage,      \* how far the run is, or "rejected"
  by,         \* the step that rejected it
  task,       \* the resolved task, as a set: empty before it is loaded
  invocation, \* the agent's invocation, likewise
  approved,   \* whether a human approved the command
  prepared,   \* the prepared run, likewise
  container,  \* the arguments the backend is started with, likewise
  served      \* a call of a gateway tool with its outcome, likewise

run  == <<invocation, prepared, container>>
vars == <<raw, stage, by, task, approved, run, served>>

Init ==
  /\ raw \in RawTask /\ stage = "written" /\ by = "none" /\ approved = FALSE
  /\ task = {} /\ invocation = {} /\ prepared = {} /\ container = {} /\ served = {}

Reject(step) ==
  /\ stage' = "rejected" /\ by' = step
  /\ UNCHANGED <<raw, task, approved, run, served>>

Load ==
  /\ stage = "written"
  /\ IF ParseTaskFile(raw)
     THEN /\ task' = {Resolve(raw)} /\ stage' = "loaded"
          /\ UNCHANGED <<raw, by, approved, run, served>>
     ELSE Reject("config")

Invoke ==
  /\ stage = "loaded"
  /\ \E t \in task :
       IF InvocationAccepted(t)
       THEN /\ invocation' = {BuildInvocation(t)} /\ stage' = "invoked"
            /\ UNCHANGED <<raw, by, task, approved, prepared, container, served>>
       ELSE Reject("agent")

CommandDecision ==
  CHOOSE d \in Decision :
    \A t \in task, i \in invocation : d = EvaluateCommand(t, CommandActionFromInvocation(i))

\* An approval may be given or not; a rule that is no valid pattern is an error.
Authorise ==
  /\ stage = "invoked"
  /\ \/ /\ CommandDecision \in {"Allow", "RequireApproval"}
        /\ approved' = (CommandDecision = "RequireApproval") /\ stage' = "authorised"
        /\ UNCHANGED <<raw, by, task, run, served>>
     \/ CommandDecision \in {"Deny", "error"} /\ Reject("policy")
     \/ CommandDecision = "RequireApproval" /\ Reject("approval")

PrepareRun ==
  /\ stage = "authorised"
  /\ \E t \in task :
       IF PrepareAccepted(t)
       THEN /\ prepared' = {Prepare(t)} /\ stage' = "prepared"
            /\ UNCHANGED <<raw, by, task, invocation, approved, container, served>>
       ELSE Reject("prepare")

Start ==
  /\ stage = "prepared"
  /\ \E p \in prepared, i \in invocation :
       IF StartAccepted(p, i)
       THEN /\ container' = {IF p.kind = "docker" THEN BuildDockerRunArgs(p, i)
                             ELSE [network |-> {"remote"}, mounts |-> {}, env |-> NoEnv]}
            /\ stage' = "started"
            /\ UNCHANGED <<raw, by, task, invocation, approved, prepared, served>>
       ELSE Reject("start")

\* The check after the policy that refuses a call: what the adapter plans, the
\* destination of an egress call, the secrets; "none" if the adapter is called.
Refusal(t, tool, action) ==
  IF \A n \in PlannedUsage(tool, action.name) :
       n > 0 /\ EvaluateBudget(t, "gateway_calls", n) # "Allow"
  THEN "plan"
  ELSE IF /\ IsEgress(action.name)
          /\ ~EgressDestination(action) \/ EvaluateNetwork(t, action.host) # "Allow"
  THEN "egress"
  ELSE IF ~SecretsAvailable(t, tool, action.name) THEN "secret" ELSE "none"

\* A call of a registered tool by taskfence gateway-tool, the spool or the listener.
ServeCall ==
  /\ stage = "loaded"
  /\ \E t \in task, action \in Call : \E tool \in {x \in t.gateway.tools : x.name = action.name} :
       LET decision == EvaluateTool(t, action.name)
           refusal == Refusal(t, tool, action)
       IN \/ decision \in {"Deny", "error"} /\ Reject("policy")
          \/ decision = "RequireApproval" /\ Reject("approval")
          \/ decision \in {"Allow", "RequireApproval"} /\ refusal # "none" /\ Reject(refusal)
          \/ /\ decision \in {"Allow", "RequireApproval"} /\ refusal = "none"
             /\ \E outcome \in ExecuteTool(tool, AttachSecrets(tool, action)) :
                  served' = {[tool |-> tool, action |-> action, outcome |-> outcome]}
             /\ approved' = (decision = "RequireApproval") /\ stage' = "served"
             /\ UNCHANGED <<raw, by, task, run>>

Done == stage \in {"started", "served", "rejected"} /\ UNCHANGED vars

Next == Load \/ Invoke \/ Authorise \/ PrepareRun \/ Start \/ ServeCall \/ Done
Spec == Init /\ [][Next]_vars

-----------------------------------------------------------------------------
(* What a started container may do with a file of the host.                 *)

Docker == stage = "started" /\ \A t \in task : t.sandbox.kind = "docker"

\* Where the container finds a file of the host that is below a mounted path.
ShownAt(mount, path) ==
  mount.container \o SubSeq(path, Len(mount.host) + 1, Len(path))

\* The modes in which it finds the file: of each mount the file is below, unless
\* a deeper mount covers the place.
Modes(mounts, path) ==
  {m.mode : m \in {d \in mounts :
     /\ IsPrefix(d.host, path)
     /\ \A o \in mounts :
          IsPrefix(o.container, ShownAt(d, path)) => Len(o.container) <= Len(d.container)}}

\* Wherever its mounts show them, a started container reads and writes exactly the
\* files of the host that the policy engine lets the task read or write, and those
\* of the task's gateway spool, all of which the policy denies it and the runner
\* mounts for writing at a place of its own (DockerRunner::build_mount_plan,
\* BuiltInPolicyEngine): overlaps of roots and spool never make the two disagree.
FilesFollowPolicy ==
  Docker =>
    \A t \in task, c \in container, p \in Path :
      LET modes == Modes(c.mounts, p)
          read  == EvaluateRead(t, p) = "Allow"
          write == EvaluateWrite(t, p) = "Allow"
          spool == DockerGatewaySpoolRequired(t) /\ IsPrefix(GatewaySpoolHostPath(t), p)
      IN /\ "ReadWrite" \in modes <=> write \/ spool
         /\ modes # {} <=> read \/ write \/ spool
         /\ spool => ~read /\ ~write

\* Whatever the backend, an agent that runs with a network it can use reaches no
\* host and sees no variable of the host that the policy engine would deny it:
\* what docker_network_arg and remote_ssh leave open, the task has allowed.  A
\* variable the plan sets itself holds the plan's value, not the host's.
NothingBeyondPolicy ==
  stage = "started" =>
    \A t \in task, c \in container :
      /\ "none" \notin c.network => \A h \in Host : EvaluateNetwork(t, h) = "Allow"
      /\ \A name \in (DOMAIN c.env \cap HostEnv) \ GeneratedEnv : EvaluateEnv(t, name) = "Allow"

\* A task that is loaded, authorised and prepared is refused at the start only
\* for a text the earlier steps do not look at: no image, a comma in a path of
\* the container's mounts, a NUL in an image, a limit or a domain the gateway may
\* fetch from (validate_domain lets it through, and build_env_plan joins the
\* domains to a variable), a newline or generated variables over SSH.  The
\* network, worked out twice, is never the reason.
LateRejections ==
  by = "start" =>
    \A t \in task, i \in invocation :
      IF t.sandbox.kind = "docker"
      THEN \/ t.sandbox.image = {}
           \/ \E p \in t.read \cup t.write \cup {t.workspace, <<t.id>>} : ~MountPathAccepted(p)
           \/ \E x \in t.sandbox.image \cup t.sandbox.memory \cup t.sandbox.disk : x \in Has.nul
           \/ DockerGatewayEgressEnabled(t) /\ \E x \in t.network.domains : x \in Has.nul
      ELSE \/ t.agent.kind # "Generic"
           \/ \E n \in DOMAIN i.args : i.args[n] \in Has.newline
           \/ \E ssh \in t.sandbox.ssh : \E p \in ssh.workspace \cup ssh.identity
                \cup ssh.knownHosts : p.text \in Has.newline

Matching(rules, texts) ==
  {n \in DOMAIN rules : texts \cap (rules[n].literal \cup rules[n].glob) # {}}

\* Allowed by these rules: nothing denies it or asks for an approval, whatever the
\* order the texts and the rules are tried in, and all those rules are valid.
ClearlyAllowed(texts, restricting, allowing) ==
  /\ Matching(restricting, texts) = {} /\ Matching(allowing, texts) # {}
  /\ \A n \in DOMAIN restricting : restricting[n].valid

\* What runs without an approval is clearly allowed: the command, which no rule
\* restricts under any of its spellings and which is no shell, and every tool
\* call; an amount is within a limit of its kind, and
\* a secret of the gateway always needs an approval (BuiltInPolicyEngine::evaluate, evaluate_command, first_match).
UnapprovedIsAllowed ==
  \A t \in task :
    /\ stage = "started" /\ ~approved =>
         \A i \in invocation :
           LET action == CommandActionFromInvocation(i)
           IN /\ ~action.shellWrapped
              /\ ClearlyAllowed(ToSet(CommandMatchCandidates(action)),
                                t.commands.deny \o t.commands.approval, t.commands.allow)
    /\ stage = "loaded" =>
         /\ \A key \in ToolKey : EvaluateTool(t, key) = "Allow" =>
              ClearlyAllowed({key}, t.tools.deny \o t.tools.approval, t.tools.allow)
         /\ \A grant \in t.grants : \A scope \in grant.useFor :
              EvaluateSecret(t, grant.name, scope) = "RequireApproval"
         /\ \A kind \in {t.budget[n].kind : n \in DOMAIN t.budget}, amount \in Amount :
              EvaluateBudget(t, kind, amount) = "Allow" =>
                \E n \in DOMAIN t.budget : t.budget[n].kind = kind /\ amount <= t.budget[n].max

\* The tables of a connector agree, whoever adds an operation to one of them: a
\* request that leaves the gateway is an operation of the template; the template
\* wants it approved unless it is a GET or a statement that has passed the search
\* for keywords (which is no proof that the statement changes nothing); and what
\* the template supports is only refused for its parameters or its secret.  The
\* one exception is a database engine without a client, which the configuration
\* accepts (connector_policy_template, planned_budget_usage, gateway_adapter_for,
\* execute_with_secrets, enterprise_http_request and validate_sql_statement).
TemplatesAreServed ==
  \A c \in served :
    LET kind == c.tool.connector.kind
    IN Live(kind) /\ ~IsEgress(c.action.name) =>
         /\ c.outcome.sent # <<>> => c.action.name \in SupportedOperations(kind)
         /\ ToSet(c.outcome.sent) \subseteq {"GET", "QUERY"}
              \/ c.action.name \in ApprovalRequiredOperations(kind)
         /\ "QUERY" \in ToSet(c.outcome.sent) =>
              ValidateSqlStatement(c.action.parameters.query, TRUE)
         /\ c.outcome.error = "UnsupportedTool" =>
              kind = "database" /\ c.tool.connector.engine # "postgres"

\* The hints a specialized profile adds to its invocation are in the
\* environment of the container, as the adapter's notes and the documents say.
HintsReachTheAgent ==
  Docker => \A i \in invocation, c \in container : i.env \subseteq DOMAIN c.env
=============================================================================
