--------------------------- MODULE MCTaskAdmission ---------------------------
(* One good Docker task and one good remote SSH task; the fields that        *)
(* interact vary together, every other field slips on its own.               *)
EXTENDS TaskAdmission, FiniteSets

Ws == <<"home", "u", "ws">>
Src == Ws \o <<"src">>
Lib == Src \o <<"lib">>
Link == Ws \o <<"link">>
New == Ws \o <<"new">>
Out == <<"out">>
Sock == Ws \o <<"docker.sock">>
Comma == Ws \o <<"a,b">>
State == Ws \o <<".taskfence">>

Spool == Ws \o <<".taskfence", "tasks", "t1", "gateway-spool">>
MCPath == {Ws, Src, Lib, New, State, Out, Spool, Spool \o <<"responses">>}
MCHost == {"good.org", "evil.org"}
MCCanonical ==
  [p \in {Ws, Src, Lib, Link, Out, Sock, Comma, State, <<"home", "u">>} |->
     IF p = Link THEN Out ELSE p]
MCUnreadable == {<<"locked">>}
MCHostHome == {<<"home", "u">>}
MCSshAuthSock == {<<"run", "agent">>}
MCDockerSocket == {Sock}

MCTools == UNION {SupportedOperations(k) : k \in DOMAIN NamedBy \cup {"database"}}
MCToolKey == {"github.read_issue", "egress.fetch"}
Plain == {"fix it", "codex", "sh", "-c", "exec", "two words", "x", "img", "t1", "KEY", "HOME",
          "good.org", "GOOD.org", "a*", "egress.fetch", "Egress.Fetch",
          "owner/repo", "owner", "a//b", "https://api", "http://api", "vault:db", "token=1",
          "h", "u@h", "tokens", "a/b", "it's", "two\nlines", "nul", "src", "lib", "new", "a,b",
          "home", "u", "ws", "workspace", ".taskfence", "tasks", "gateway-spool", "taskfence",
          "docker.sock", "out", "link", "", " ", "gateway_calls", "redacted", "7", "abc1234",
          "open", "GET", "{}", "select 1", "select update x", "select change", "update t", "drop t", "TOKEN", "token", "title", "github", "long", "postgres", "mysql"}
         \cup MCTools
MCNormal == [t \in Plain |-> CASE t = "GOOD.org" -> "good.org" [] t = " " -> "" [] t = "GET" -> "get" [] t = "TOKEN" -> "token"
                               [] t = "Egress.Fetch" -> "egress.fetch" [] OTHER -> t]
MCHas ==
  [nul |-> {"nul"}, newline |-> {"two\nlines"}, control |-> {"nul", "two\nlines"},
   space |-> {"fix it", "two words", "two\nlines", "select 1", "select update x", "select change",
             "update t", "drop t"}, at |-> {"u@h"}, slash |-> {"owner/repo", "a/b", "a//b"},
   colon |-> {"vault:db", "https://api", "http://api"}, star |-> {"a*"}, emptyLabel |-> {},
   https |-> {"https://api"}, query |-> {}, odd |-> {"fix it", "vault:db", "token=1", "u@h", "two words"},
   dotdot |-> {}, emptySegment |-> {"a//b"}, twoSlashes |-> {"a//b"}, credential |-> {"token=1"},
   dashC |-> {"-c"}, openQuote |-> {"it's"}, equals |-> {"token=1"}, comma |-> {"a,b"},
   long |-> {"long"}, short |-> {"7", "x"}, nondigit |-> Plain \ {"7"}, dot |-> {}, dash |-> {"-c"},
   nonhex |-> Plain \ {"7", "abc1234"}, http |-> {"https://api", "http://api"}, hash |-> {},
   json |-> {"{}"}, comment |-> {}, statements |-> {}, select |-> {"select 1", "select update x", "select change"},
   keyword |-> {"select update x"}, schema |-> {"drop t"}]

At(p) == [at |-> p, parent |-> FALSE]
Abs(text) == [absolute |-> TRUE, parent |-> FALSE, text |-> text]

Rule(literal, glob) == [literal |-> literal, glob |-> glob, valid |-> TRUE]
Codex == Rule({<<"codex">>, <<"codex", "exec">>}, {<<"codex">>})
Exec == Rule({}, {<<"codex", "exec">>})
Shell == Rule({<<"sh">>, <<"sh", "-c">>}, {<<"sh">>})
Broken == [literal |-> {<<"codex">>}, glob |-> {}, valid |-> FALSE]

Tool(name, connector) ==
  [name |-> name, connector |-> connector, secretRefs |-> {[name |-> "x", parameter |-> "x", scope |-> "x"]}]
Connector(kind, api, name) ==
  [kind |-> kind, api |-> api, name |-> name, engine |-> "x", path |-> At(Src)]
Issue == Tool("github.read_issue", Connector("github_rest", "https://api", "owner/repo"))
Egress == Tool("Egress.Fetch", Connector("internal_http", "https://api", "x"))

DockerTask ==
  [id |-> "t1", goal |-> "fix it", workspace |-> At(Ws),
   agent |-> [kind |-> "generic", command |-> "codex", args |-> <<"exec">>],
   sandbox |-> [kind |-> {"docker"}, image |-> {"img"}, ssh |-> {}, timeout |-> {5},
                cpu |-> {}, memory |-> {"x"}, disk |-> {}],
   read |-> {At(Src)}, write |-> {}, network |-> [default |-> {}, domains |-> {}],
   commands |-> [deny |-> <<>>, approval |-> <<>>, allow |-> <<Codex>>],
   tools |-> [deny |-> <<>>, approval |-> <<>>, allow |-> <<>>],
   env |-> <<"KEY">>, budget |-> <<>>, exposeSecrets |-> FALSE, grants |-> {},
   approval |-> [timeout |-> {}],
   gateway |-> [mode |-> {}, egress |-> FALSE, tools |-> {}], report |-> {}, fileDiff |-> TRUE]

Ssh == [host |-> "h", user |-> {"u"}, port |-> {22}, workspace |-> {Abs("x")}, identity |-> {Abs("x")},
        knownHosts |-> {Abs("x")}, isolatedWorkspace |-> TRUE, isolatedSecrets |-> TRUE,
        terminates |-> TRUE, enforcesLimits |-> TRUE, uncontrolledAllow |-> TRUE]
SshTask ==
  [DockerTask EXCEPT !.sandbox.kind = {"remote_ssh"}, !.sandbox.ssh = {Ssh}, !.fileDiff = FALSE,
                     !.env = <<>>, !.network.default = {"allow"}]

UpTo2(S) == {T \in SUBSET S : Cardinality(T) <= 2}
Raws == {At(p) : p \in {Ws, Src, Lib, Link, New, State}}

Files == {[DockerTask EXCEPT !.read = r, !.write = w, !.gateway.tools = t] :
            r \in UpTo2(Raws), w \in UpTo2(Raws), t \in {{}, {Issue}}}
Networks ==
  {[DockerTask EXCEPT !.network = [default |-> d, domains |-> o],
                      !.gateway = [mode |-> m, egress |-> e, tools |-> t]] :
     d \in {{}, {"allow"}, {"deny"}, {"disabled"}, {"x"}}, o \in {{}, {"GOOD.org"}, {"a*"}, {"nul"}},
     m \in {{}, {"spool_only"}, {"local_listener"}, {"x"}}, e \in BOOLEAN,
     t \in {{}, {Issue}, {Egress}, {Issue, Egress}}}
Rules == {<<>>, <<Codex>>, <<Exec>>, <<Shell>>, <<Broken, Exec>>, <<Exec, Broken>>}
Commands ==
  {[DockerTask EXCEPT !.commands = [deny |-> d, approval |-> p, allow |-> a], !.agent = g] :
     d \in Rules, p \in Rules, a \in Rules,
     g \in {[kind |-> "generic", command |-> c, args |-> x] :
              c \in {"codex", "sh"}, x \in {<<>>, <<"exec">>, <<"-c">>, <<"it's", "-c">>}}}
Remotes ==
  {[SshTask EXCEPT !.sandbox.ssh = {[Ssh EXCEPT !.isolatedWorkspace = b[1], !.isolatedSecrets = b[2],
                       !.terminates = b[3], !.enforcesLimits = b[4], !.uncontrolledAllow = b[5]]},
                   !.sandbox.memory = r, !.sandbox.timeout = t, !.network.default = d, !.fileDiff = f] :
     b \in [1..5 -> BOOLEAN], r \in {{}, {"x"}}, t \in {{}, {5}},
     d \in {{}, {"allow"}, {"disabled"}}, f \in BOOLEAN}

ToolRule(keys) == Rule(keys, keys)
ToolRules == {<<>>, <<ToolRule({"github.read_issue"})>>,
              <<[literal |-> {}, glob |-> {}, valid |-> FALSE], ToolRule({"github.read_issue"})>>,
              <<Rule({}, {"github.read_issue", "egress.fetch"})>>}
Tools ==
  {[DockerTask EXCEPT !.tools = [deny |-> d, approval |-> p, allow |-> a],
                      !.grants = {[name |-> "x", useFor |-> {"x"}]},
                      !.budget = <<[kind |-> "x", max |-> 1], [kind |-> "x", max |-> 2]>>] :
     d \in ToolRules, p \in ToolRules, a \in ToolRules}

Agents == {[DockerTask EXCEPT !.agent.kind = k, !.agent.command = c, !.agent.args = a,
                              !.gateway.tools = t] :
             k \in {"generic", "codex_cli", "hermes"}, c \in {"codex", "two words", " ", "nul"},
             a \in {<<>>, <<"exec">>, <<"nul">>}, t \in {{}, {Issue}}}

Slips ==
  {[DockerTask EXCEPT !.goal = " "], [DockerTask EXCEPT !.workspace = At(New)],
   [DockerTask EXCEPT !.workspace.parent = TRUE], [DockerTask EXCEPT !.exposeSecrets = TRUE],
   [DockerTask EXCEPT !.sandbox.kind = {}], [DockerTask EXCEPT !.sandbox.kind = {"microvm"}],
   [DockerTask EXCEPT !.sandbox.kind = {"x"}], [DockerTask EXCEPT !.sandbox.kind = {"remote_ssh"}],
   [DockerTask EXCEPT !.sandbox.ssh = {Ssh}], [DockerTask EXCEPT !.sandbox.timeout = {0}],
   [DockerTask EXCEPT !.sandbox.image = {}], [DockerTask EXCEPT !.sandbox.image = {"nul"}],
   [DockerTask EXCEPT !.sandbox.memory = {"nul"}], [DockerTask EXCEPT !.approval.timeout = {0}],
   [DockerTask EXCEPT !.report = {"x"}], [DockerTask EXCEPT !.read = {At(Comma)}],
   [DockerTask EXCEPT !.read = {At(Sock)}], [DockerTask EXCEPT !.write = {At(<<"locked">>)}],
   [DockerTask EXCEPT !.read = {[at |-> Src, parent |-> TRUE]}],
   [DockerTask EXCEPT !.workspace = At(<<"home", "u">>), !.read = {At(<<"home", "u">>)}],
   [DockerTask EXCEPT !.id = "a/b", !.gateway.tools = {Issue}]}
  \cup {[DockerTask EXCEPT !.env = e] : e \in {<<"">>, <<"HOME">>, <<"token=1">>, <<"SOCK">>}}
  \cup {[DockerTask EXCEPT !.budget = <<b>>] : b \in [kind : {" ", "x"}, max : {0, 1}]}
  \cup {[DockerTask EXCEPT !.gateway.tools = {Tool("x", Connector(k, a, n))}] :
          k \in DOMAIN NamedBy \cup {"database", "unsupported", "local_fixture"},
          a \in {"https://api", "http://api"},
          n \in {"x", "owner/repo", "a//b", "vault:db", "token=1", " "}}
  \cup {[SshTask EXCEPT !.sandbox.ssh = {[Ssh EXCEPT !.host = h]}] : h \in {"u@h", " "}}
  \cup {[SshTask EXCEPT !.sandbox.ssh = {[Ssh EXCEPT !.port = {0}]}],
        [SshTask EXCEPT !.sandbox.ssh = {[Ssh EXCEPT !.workspace = {Abs("two\nlines")}]}],
        [SshTask EXCEPT !.sandbox.ssh = {[Ssh EXCEPT !.identity = {}]}],
        [SshTask EXCEPT !.agent.args = <<"two\nlines">>],
        [SshTask EXCEPT !.env = <<"KEY">>], [SshTask EXCEPT !.agent.kind = "codex_cli"]}

\* Calls: every operation with good parameters, with one missing and with one bad.
Good ==
  [number |-> "7", iid |-> "7", max_rows |-> "7", issue_key |-> "t1", channel |-> "t1", task_id |-> "t1",
   head |-> "src", base |-> "lib", source_branch |-> "src", target_branch |-> "lib", branch |-> "src",
   from_ref |-> "lib", path |-> "src", title |-> "x", body |-> "x", message |-> "x", content |-> "x",
   summary |-> "x", description |-> "x", issue_type |-> "x", text |-> "x", sha |-> "abc1234",
   state |-> "open", method |-> "GET", query |-> "select 1", events_json |-> "{}",
   url |-> "https://api", report_url |-> "https://api"]
Parameters ==
  {Good, [number |-> "7"]} \cup {[Good EXCEPT ![p] = t] : p \in DOMAIN Good, t \in {"two words", " ", "long"}}
  \cup {[Good EXCEPT !.query = q] : q \in {"select update x", "select change", "update t", "drop t"}}
MCCall == [name : MCTools \cup {"egress.fetch"}, parameters : Parameters, host : MCHost]
\* One host is enough for a call that is no egress.
MCCalls == {c \in MCCall : c.host = "good.org" \/ c.name = "egress.fetch"}

Ref(name, parameter, scope) == [name |-> name, parameter |-> parameter, scope |-> scope]
References ==
  {{}, {Ref("token", "token", "x")}, {Ref("TOKEN", "title", "x")}, {Ref("token", "token", "fix it")},
   {Ref("x", "token", "x")}}
Caller(connector, name, references) ==
  [DockerTask EXCEPT
     !.gateway.tools = {[name |-> name, connector |-> connector, secretRefs |-> references]},
     !.tools.allow = <<[literal |-> {name}, glob |-> {}, valid |-> TRUE]>>,
     !.network.domains = {"good.org"},
     !.grants = {[name |-> n, useFor |-> {"x"}] : n \in {"token", "x"}},
     !.budget = <<[kind |-> "gateway_calls", max |-> 1]>>]
Named(kind) == IF kind \in {"github_rest", "github_enterprise_rest"} THEN "owner/repo"
               ELSE IF kind = "local_fixture" THEN "github" ELSE "x"
Connectors ==
  {[kind |-> k, api |-> "https://api", name |-> Named(k), engine |-> e, path |-> At(Src)] :
     k \in DOMAIN NamedBy \cup {"database", "unsupported", "local_fixture"}, e \in {"postgres", "mysql"}}
Callers ==
  {Caller(c, n, r) : r \in References,
     <<c, n>> \in {x \in Connectors \X (MCTools \cup {"egress.fetch"}) :
        /\ x[1].engine = "mysql" => x[1].kind = "database"
        /\ x[2] \in SupportedOperations(x[1].kind) \cup {"github.read_issue", "egress.fetch"}}}
  \cup {[Caller(c, "egress.fetch", {}) EXCEPT !.budget = <<>>] : c \in Connectors}

MCRawTask == Callers \cup Files \cup Networks \cup Commands \cup Tools \cup Remotes \cup Agents \cup Slips
=============================================================================
