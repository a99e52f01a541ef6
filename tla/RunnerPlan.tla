------------------------------ MODULE RunnerPlan ------------------------------
(***************************************************************************)
(* From a resolved task to the arguments of docker run or ssh: the agent   *)
(* adapters' invocation (taskfence-agent), what each backend is able to    *)
(* enforce, the plan prepare() makes and the arguments start() builds from *)
(* it (taskfence-runner).                                                  *)
(***************************************************************************)
EXTENDS TaskConfig

CONSTANTS
  HostEnv,       \* names of the host's environment variables
  SocketEnv,     \* those of them whose value points to a host socket
  HostHome,      \* the home directory of the host's user, if known
  SshAuthSock,   \* the path in SSH_AUTH_SOCK, if set
  DockerSocket   \* paths that name a Docker socket

\* The names the runner itself puts into the paths of mounts.
OwnNames == {"workspace", ".taskfence", "tasks", "taskfence", "gateway-spool"}
ASSUME OwnNamesAssumption == \A name \in OwnNames : Free(name, {"comma", "nul"})

\* The names it sets in the container's environment, whatever they hold on the host.
GeneratedEnv ==
  {"TASKFENCE_GATEWAY_SPOOL", "TASKFENCE_GATEWAY_MODE", "TASKFENCE_GATEWAY_EGRESS_ALLOW_DOMAINS"}
ASSUME GeneratedEnvAssumption == \A name \in GeneratedEnv : Free(name, {"nul"})

-----------------------------------------------------------------------------
(* The agent adapters.                                                      *)

Profiles == {"codex_cli", "claude_code", "gemini_cli", "openhands"}

\* The command is one word without a NUL, and so is no argument one with a NUL.
ValidateExecutable(agent) ==
  /\ Free(agent.command, {"space", "nul"})
  /\ \A n \in DOMAIN agent.args : Free(agent.args[n], {"nul"})

Hints(task) ==
  {"TASKFENCE_AGENT_PROFILE", "TASKFENCE_PROMPT", "TASKFENCE_WORKSPACE"}
    \cup (IF task.gateway.tools = {} THEN {} ELSE {"TASKFENCE_GATEWAY_MODE"})

InvocationAccepted(task) ==
  task.agent.kind \in {"Generic"} \cup Profiles /\ ValidateExecutable(task.agent)

BuildInvocation(task) ==
  [executable |-> task.agent.command, args |-> task.agent.args,
   env |-> IF task.agent.kind = "Generic" THEN {} ELSE Hints(task)]

Shells == {"sh", "bash", "zsh"}

\* The words are joined and split again: a quote that is left open in one
\* argument hides the arguments after it up to the next quote.
ShellWrapped(invocation) ==
  /\ invocation.executable \in Shells
  /\ \E n \in DOMAIN invocation.args :
       /\ invocation.args[n] \in Has.dashC
       /\ Len(SelectSeq(SubSeq(invocation.args, 1, n - 1),
                        LAMBDA arg : arg \in Has.openQuote)) % 2 = 0

CommandActionFromInvocation(invocation) ==
  LET words == <<invocation.executable>> \o invocation.args
  IN [raw |-> words, joined |-> words, executable |-> <<invocation.executable>>,
      args |-> invocation.args, shellWrapped |-> ShellWrapped(invocation)]

-----------------------------------------------------------------------------
(* What a backend is able to enforce.                                       *)

GatewayEgressToolConfigured(task) == \E t \in task.gateway.tools : t.name = "egress.fetch"

DockerGatewayEgressEnabled(task) ==
  /\ task.gateway.mode = "local_listener" /\ task.gateway.egress
  /\ task.network.domains # {} /\ GatewayEgressToolConfigured(task)

DockerGatewaySpoolRequired(task) ==
  task.gateway.tools # {} \/ DockerGatewayEgressEnabled(task)

LimitsRequested(sandbox) == sandbox.cpu \cup sandbox.memory \cup sandbox.disk # {}

SshLimitsAreSupported(sandbox, ssh) ==
  /\ LimitsRequested(sandbox) => ssh.enforcesLimits
  /\ sandbox.timeout # {} => ssh.terminates

\* The guarantees a RunnerCapabilityReport names: every task needs these, and
\* a task may need one of "disabled" and "deny", and "domains".
Guarantees == {"filesystem", "secrets", "limits", "output", "artifacts"}

\* Kinds of sandboxes that have a contract and no backend, and unknown ones.
UnavailableReport == {}

\* Docker leaves only domains to the gateway.
DockerReport(task) ==
  Guarantees \cup {"disabled", "deny"}
    \cup (IF DockerGatewayEgressEnabled(task) THEN {"domains"} ELSE {})

\* The remote host does what the task file claims of it; the network, the
\* environment, the gateway and the file diff are beyond it.
RemoteSshReport(task) ==
  IF \E ssh \in task.sandbox.ssh :
       /\ ssh.isolatedWorkspace /\ ssh.workspace # {} /\ ssh.isolatedSecrets
       /\ ssh.identity # {} /\ ssh.knownHosts # {}
       /\ SshLimitsAreSupported(task.sandbox, ssh) /\ ssh.terminates
       /\ task.network.default = "allow" /\ ssh.uncontrolledAllow
       /\ task.network.domains = {} /\ task.env = <<>> /\ ~task.exposeSecrets
       /\ task.gateway.mode = "spool_only" /\ task.gateway.tools = {}
       /\ ~task.fileDiff
  THEN Guarantees ELSE UnavailableReport

CapabilityReport(task) ==
  CASE task.sandbox.kind = "docker" -> DockerReport(task)
    [] task.sandbox.kind = "remote_ssh" -> RemoteSshReport(task)
    [] OTHER -> UnavailableReport

IsSufficientForTask(report, task) ==
  /\ Guarantees \subseteq report
  /\ task.network.default # "allow" => task.network.default \in report
  /\ task.network.domains # {} => "domains" \in report

\* Faulty variant: nothing is asked of the network.
EnsureCapableAnyNetwork(task) ==
  LET open == [task EXCEPT !.network = [default |-> "allow", domains |-> {}]]
  IN IsSufficientForTask(CapabilityReport(open), open)

EnsureCapable(task) == IsSufficientForTask(CapabilityReport(task), task)

-----------------------------------------------------------------------------
(* The Docker plan.                                                         *)

ExposesHostHome(path) == \E home \in HostHome : IsPrefix(path, home)
ExposesSshAuthSocket(path) ==
  \E socket \in SshAuthSock : IsPrefix(path, socket) \/ IsPrefix(socket, path)

ValidateMountPath(task, path) ==
  /\ path \notin DockerSocket
  /\ ~ExposesHostHome(path) /\ ~ExposesSshAuthSocket(path)
  /\ Under(task.workspace, path)

Nested(p, q) == IsPrefix(p, q) \/ IsPrefix(q, p)

\* Faulty variant: only the same path in both modes is thought of.
AcceptOverlaps(task) == \A r \in task.read, w \in task.write : TRUE

\* A directory and one inside it must not be mounted in different modes.
RejectMixedModeOverlaps(task) ==
  \A r \in task.read, w \in task.write : r = w \/ ~Nested(r, w)

SafeId(id) == id \notin {"", ".", ".."} /\ Free(id, {"slash", "control"})
GatewaySpoolHostPath(task) ==
  task.workspace \o <<".taskfence", "tasks", task.id, "gateway-spool">>

\* The spool, if one is needed, must not be reachable through another mount.
GatewaySpoolAccepted(task) ==
  DockerGatewaySpoolRequired(task) =>
    /\ SafeId(task.id)
    /\ ValidateMountPath(task, GatewaySpoolHostPath(task))
    /\ \A p \in task.read \cup task.write : ~Nested(p, GatewaySpoolHostPath(task))

ContainerPathFor(task, path) ==
  <<"workspace">> \o SubSeq(path, Len(task.workspace) + 1, Len(path))

MountPlanAccepted(task) ==
  /\ \A p \in task.read \cup task.write : ValidateMountPath(task, p)
  /\ RejectMixedModeOverlaps(task) /\ GatewaySpoolAccepted(task)

BuildMountPlan(task) ==
  {[host |-> p, container |-> ContainerPathFor(task, p), mode |-> "ReadOnly"] :
     p \in task.read \ task.write}
  \cup {[host |-> p, container |-> ContainerPathFor(task, p), mode |-> "ReadWrite"] :
     p \in task.write}
  \cup {[host |-> GatewaySpoolHostPath(task), container |-> <<"taskfence", "gateway-spool">>,
         mode |-> "ReadWrite"] : on \in {TRUE} \cap {DockerGatewaySpoolRequired(task)}}

\* A variable the host does not have is left out.
EnvPlanAccepted(task) ==
  \A name \in ToSet(task.env) :
    /\ name # "" /\ Free(name, {"equals", "nul"})
    /\ name \notin {"HOME", "SSH_AUTH_SOCK", "DOCKER_HOST"} \cup SocketEnv

PlannedEnv(task) ==
  (ToSet(task.env) \cap HostEnv)
    \cup (IF DockerGatewaySpoolRequired(task) THEN {"TASKFENCE_GATEWAY_SPOOL"} ELSE {})
    \cup (IF task.gateway.mode = "local_listener" THEN {"TASKFENCE_GATEWAY_MODE"} ELSE {})
    \cup (IF DockerGatewayEgressEnabled(task) THEN {"TASKFENCE_GATEWAY_EGRESS_ALLOW_DOMAINS"} ELSE {})

\* Each variable with the texts of the task file its value is made of.  The values
\* of the host are looked at here, the list of the domains is not.
BuildEnvPlan(task) ==
  [name \in PlannedEnv(task) |->
     IF name = "TASKFENCE_GATEWAY_EGRESS_ALLOW_DOMAINS" /\ DockerGatewayEgressEnabled(task)
     THEN task.network.domains ELSE {}]

NoEnv == [name \in {} |-> {}]

\* The mode of the plan, none if the plan is rejected.  prepare() checks it and
\* drops it: start() works the mode out again.
BuildNetworkPlan(task) ==
  CASE task.network.domains # {} /\ ~DockerGatewayEgressEnabled(task) -> {}
    [] task.network.domains = {} /\ task.network.default = "allow" -> {"bridge"}
    [] OTHER -> {"none"}

DockerPlanAccepted(task) ==
  MountPlanAccepted(task) /\ EnvPlanAccepted(task) /\ BuildNetworkPlan(task) # {}

PrepareAccepted(task) ==
  EnsureCapable(task) /\ (task.sandbox.kind = "docker" => DockerPlanAccepted(task))

\* Faulty variant: the prepared gateway is left out of the plan.
PrepareWithoutGateway(task) ==
  [kind |-> task.sandbox.kind, image |-> task.sandbox.image, network |-> task.network,
   mounts |-> IF task.sandbox.kind = "docker" THEN BuildMountPlan(task) ELSE {},
   env |-> IF task.sandbox.kind = "docker" THEN BuildEnvPlan(task) ELSE NoEnv,
   egress |-> FALSE, sandbox |-> task.sandbox]

\* The egress plan is there if the gateway fetches for the agent.
Prepare(task) ==
  IF task.sandbox.kind = "docker"
  THEN [kind |-> "docker", image |-> task.sandbox.image,
        mounts |-> BuildMountPlan(task), env |-> BuildEnvPlan(task),
        network |-> task.network, egress |-> DockerGatewayEgressEnabled(task),
        sandbox |-> task.sandbox]
  ELSE [kind |-> "remote_ssh", image |-> {}, mounts |-> {}, env |-> NoEnv,
        network |-> task.network, egress |-> FALSE, sandbox |-> task.sandbox]

-----------------------------------------------------------------------------
(* The arguments.                                                           *)

\* The network mode of docker run, none if it is rejected.
DockerNetworkArg(prepared) ==
  CASE prepared.network.domains # {} /\ ~prepared.egress -> {}
    [] prepared.network.domains = {} /\ prepared.network.default = "allow" -> {"bridge"}
    [] OTHER -> {"none"}

MountPathAccepted(path) == \A n \in DOMAIN path : Free(path[n], {"comma", "nul"})

DockerArgsAccepted(prepared, invocation) ==
  /\ prepared.image # {} /\ \A text \in prepared.image : Free(text, {"nul"})
  /\ Free(invocation.executable, {"nul"})
  /\ \A n \in DOMAIN invocation.args : Free(invocation.args[n], {"nul"})
  /\ DockerNetworkArg(prepared) # {}
  /\ \A m \in prepared.mounts : MountPathAccepted(m.host) /\ MountPathAccepted(m.container)
  /\ \A name \in DOMAIN prepared.env :
       \A text \in {name} \cup prepared.env[name] : Free(text, {"nul"})
  /\ \A text \in prepared.sandbox.memory \cup prepared.sandbox.disk : Free(text, {"nul"})

\* docker run gets the environment of the plan, never the one of the invocation.
BuildDockerRunArgs(prepared, invocation) ==
  [network |-> DockerNetworkArg(prepared), mounts |-> prepared.mounts, env |-> prepared.env]

SshArg(text) == Free(text, {"nul", "newline"})

\* build_ssh_args looks at everything again that ends up in its arguments.
SshArgsAccepted(prepared, invocation) ==
  /\ \A ssh \in prepared.sandbox.ssh :
       /\ \A text \in {ssh.host} \cup ssh.user : SshSegment(text)
       /\ \A path \in ssh.workspace \cup ssh.identity \cup ssh.knownHosts :
            SshPath(path) /\ SshArg(path.text)
  /\ SshArg(invocation.executable)
  /\ \A n \in DOMAIN invocation.args : SshArg(invocation.args[n])
  /\ DOMAIN prepared.env = {} /\ invocation.env = {}

StartAccepted(prepared, invocation) ==
  IF prepared.kind = "docker" THEN DockerArgsAccepted(prepared, invocation)
                              ELSE SshArgsAccepted(prepared, invocation)
=============================================================================
