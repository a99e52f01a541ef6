------------------------------ MODULE Connectors ------------------------------
(***************************************************************************)
(* The gateway's connectors (taskfence-gateway, and their selection in     *)
(* taskfence-cli): what each declares in its policy template, what it      *)
(* plans, how it checks a call and which requests it sends.                *)
(*                                                                         *)
(* A tool is named by its operation, "github.read_issue".  The parameters  *)
(* of a call are a function from names to texts.                           *)
(***************************************************************************)
EXTENDS TaskConfig

CONSTANT GatewaySecret  \* secrets the gateway's own environment has a value for

-----------------------------------------------------------------------------
(* The policy templates.                                                    *)

GitHubOperations ==
  {"github.read_issue", "github.create_branch", "github.commit_file", "github.create_pr",
   "github.update_pr", "github.comment_issue", "github.comment_report"}

\* The operations a connector's template supports; a fixture has no template.
SupportedOperations(kind) ==
  CASE kind \in {"github_rest", "github_enterprise_rest"} -> GitHubOperations
    [] kind = "gitlab" -> {"gitlab.read_issue", "gitlab.create_merge_request", "gitlab.comment_issue"}
    [] kind = "jira" -> {"jira.read_issue", "jira.create_issue", "jira.comment_issue"}
    [] kind = "feishu" -> {"feishu.send_message", "feishu.create_doc"}
    [] kind = "wecom" -> {"wecom.send_message"}
    [] kind = "dingtalk" -> {"dingtalk.send_message"}
    [] kind = "gitee" -> {"gitee.read_issue", "gitee.create_pr", "gitee.comment_issue"}
    [] kind = "coding" -> {"coding.read_issue", "coding.create_merge_request", "coding.comment_issue"}
    [] kind = "database" -> {"database.read", "database.write"}
    [] kind = "internal_http" -> {"internal_http.call"}
    [] kind = "siem_export" -> {"siem.export_events"}
    [] OTHER -> {}

\* Each template asks for an approval of all its operations but the reads.
ApprovalRequiredOperations(kind) ==
  SupportedOperations(kind)
    \ {"github.read_issue", "gitlab.read_issue", "jira.read_issue", "gitee.read_issue",
       "coding.read_issue", "database.read"}

-----------------------------------------------------------------------------
(* Parameters.  A redacted one stands for an attached secret.               *)

Fits(rule, text) ==
  NonBlank(text) /\
  CASE rule = "any"    -> TRUE
    [] rule = "text"   -> Free(text, {"long"})
    [] rule = "number" -> Free(text, {"nondigit"})
    [] rule = "ref"    -> Free(text, {"dotdot", "odd", "emptySegment", "dot", "dash"})
    [] rule = "file"   -> Free(text, {"dotdot", "odd", "emptySegment", "dot"})
    [] rule = "sha"    -> Free(text, {"nonhex", "short", "long"})
    [] rule = "key"    -> Free(text, {"dotdot", "odd", "slash"})
    [] rule = "path"   -> Free(text, {"dotdot", "odd", "emptySegment"})
    [] rule = "state"  -> Normal[text] \in {"open", "closed"}
    [] rule = "method" -> Normal[text] \in {"get", "post", "patch"}
    [] rule = "url"    -> text \in Has.http /\ Free(text, {"at", "hash", "space", "credential"})
    [] rule = "json"   -> text \in Has.json /\ Free(text, {"long"})

Given(action, name) ==
  /\ name \in DOMAIN action.parameters
  /\ action.parameters[name] # "redacted" /\ NonBlank(action.parameters[name])

Operation(needs, may) == [needs |-> needs, may |-> may]
None == [p \in {} |-> "any"]

ParametersFit(operation, action) ==
  /\ \A name \in DOMAIN operation.needs :
       Given(action, name) /\ Fits(operation.needs[name], action.parameters[name])
  /\ \A name \in DOMAIN operation.may :
       Given(action, name) => Fits(operation.may[name], action.parameters[name])

-----------------------------------------------------------------------------
(* The requests of a call, in order, by their methods.                      *)

Refused(error) == {[sent |-> <<>>, error |-> error]}

\* A live connector needs a secret; the broker has made sure that it has a value.
LiveSecret(tool) == tool.secretRefs # {}

\* ensure_tool_matches_config; the tool has been found by its name.
MatchesConfig(tool, action) == action.name \in SupportedOperations(tool.connector.kind)

\* The remote end may fail any of the requests; the ones after it are not sent.
Remote(methods) ==
  {[sent |-> methods, error |-> "none"]}
    \cup {[sent |-> SubSeq(methods, 1, n), error |-> "AdapterFailed"] : n \in DOMAIN methods}

\* The requests of GitHubApiClient.  A branch is created from the commit its
\* reference leads to, which is read first.
GitHubIssueRequests(name) == IF name = "github.read_issue" THEN <<"GET">> ELSE <<"POST">>
GitHubRequests(name) ==
  CASE name = "github.create_branch" -> <<"GET", "POST">>
    [] name = "github.commit_file" -> <<"PUT">>
    [] name = "github.update_pr" -> <<"PATCH">>
    [] OTHER -> GitHubIssueRequests(name)

\* The cases of GitHubRestAdapter, none for an operation it does not know.
GitHubIssueCall(name) ==
  CASE name = "github.read_issue" -> {Operation([number |-> "number"], None)}
    [] name = "github.create_pr" ->
         {Operation([title |-> "text", head |-> "ref", base |-> "ref"], [body |-> "text"])}
    [] name = "github.comment_issue" ->
         {Operation([number |-> "number", body |-> "text"], None)}
    [] OTHER -> {}
GitHubRepositoryCall(name) ==
  CASE name = "github.create_branch" ->
         {Operation([branch |-> "ref", from_ref |-> "ref"], None)}
    [] name = "github.commit_file" ->
         {Operation([path |-> "file", message |-> "text", content |-> "text",
                     branch |-> "ref"], [sha |-> "sha"])}
    [] name = "github.update_pr" ->
         {Operation([number |-> "number"],
                    [title |-> "text", body |-> "text", state |-> "state", base |-> "ref"])}
    [] name = "github.comment_report" ->
         {Operation([number |-> "number"], [summary |-> "text", report_url |-> "url"])}
    [] OTHER -> {}

\* An update has to update something.
ExecuteGitHub(tool, action) ==
  LET operations == GitHubIssueCall(action.name) \cup GitHubRepositoryCall(action.name)
  IN IF ~LiveSecret(tool) THEN Refused("SecretUnavailable")
     ELSE IF operations = {} THEN Refused("UnsupportedTool")
     ELSE UNION {IF /\ ParametersFit(o, action)
                    /\ action.name = "github.update_pr" => \E p \in DOMAIN o.may : Given(action, p)
                 THEN Remote(GitHubRequests(action.name))
                 ELSE Refused("InvalidParameters") : o \in operations}

Request(method, needs, may) == {[method |-> method, operation |-> Operation(needs, may)]}
ReadIssue(number) == Request("GET", [p \in {number} |-> "number"], None)
Change(source, target, text) ==
  Request("POST", [p \in {"title", source, target} |-> IF p = "title" THEN "text" ELSE "ref"],
          [p \in {text} |-> "text"])
Comment(number) ==
  Request("POST", [p \in {number, "body"} |-> IF p = "body" THEN "text" ELSE "number"], None)

\* enterprise_message_request.
MessageCall(kind, name) ==
  CASE name \in {"feishu.send_message", "wecom.send_message", "dingtalk.send_message"}
          /\ name \in SupportedOperations(kind) ->
         Request("POST", [channel |-> "key", text |-> "text"], None)
    [] kind = "feishu" /\ name = "feishu.create_doc" ->
         Request("POST", [title |-> "text", content |-> "text"], None)
    [] OTHER -> {}

\* An internal service is called by the method asked for, POST if none is.
InternalCall(kind, action) ==
  LET upper == [get |-> "GET", post |-> "POST", patch |-> "PATCH"]
      asked == IF Given(action, "method") /\ Normal[action.parameters.method] \in DOMAIN upper
               THEN upper[Normal[action.parameters.method]] ELSE "POST"
  IN CASE kind = "internal_http" /\ action.name = "internal_http.call" ->
            Request(asked, [path |-> "path"], [method |-> "method", body |-> "text"])
       [] kind = "siem_export" /\ action.name = "siem.export_events" ->
            Request("POST", [events_json |-> "json", task_id |-> "text"], [summary |-> "text"])
       [] OTHER -> {}

\* The issues and merge requests of the other hosts.
TrackerCall(kind, name) ==
  CASE kind = "gitlab" /\ name = "gitlab.read_issue" -> ReadIssue("iid")
    [] kind = "gitlab" /\ name = "gitlab.create_merge_request" ->
         Change("source_branch", "target_branch", "description")
    [] kind = "gitlab" /\ name = "gitlab.comment_issue" -> Comment("iid")
    [] kind = "jira" /\ name = "jira.read_issue" -> Request("GET", [issue_key |-> "key"], None)
    [] kind = "jira" /\ name = "jira.create_issue" ->
         Request("POST", [summary |-> "text"], [description |-> "text", issue_type |-> "text"])
    [] kind = "jira" /\ name = "jira.comment_issue" ->
         Request("POST", [issue_key |-> "key", body |-> "text"], None)
    [] kind = "gitee" /\ name = "gitee.read_issue" -> ReadIssue("number")
    [] kind = "gitee" /\ name = "gitee.create_pr" -> Change("head", "base", "body")
    [] kind = "gitee" /\ name = "gitee.comment_issue" -> Comment("number")
    [] kind = "coding" /\ name = "coding.read_issue" -> ReadIssue("number")
    [] kind = "coding" /\ name = "coding.create_merge_request" ->
         Change("source_branch", "target_branch", "description")
    [] kind = "coding" /\ name = "coding.comment_issue" -> Comment("number")
    [] OTHER -> {}

\* The HTTP client knows three methods; a status that is no success is a failure.
SendEnterprise(method) ==
  IF method \in {"GET", "POST", "PATCH"} THEN Remote(<<method>>) ELSE Refused("InvalidParameters")

ExecuteEnterprise(tool, action) ==
  LET kind == tool.connector.kind
      requests == TrackerCall(kind, action.name) \cup MessageCall(kind, action.name)
                    \cup InternalCall(kind, action)
  IN IF ~MatchesConfig(tool, action) THEN Refused("UnsupportedTool")
     ELSE IF ~LiveSecret(tool) THEN Refused("SecretUnavailable")
     ELSE IF requests = {} THEN Refused("UnsupportedTool")
     ELSE UNION {IF ParametersFit(q.operation, action) THEN SendEnterprise(q.method)
                 ELSE Refused("InvalidParameters") : q \in requests}

\* One statement without comments.  For a read it starts as a query and has none of
\* ten keywords between two blanks, which is all the gateway knows of what it does;
\* for a write it does not start with a word about the schema or privileges.
ValidateSqlStatement(sql, readOnly) ==
  /\ Free(sql, {"long", "nul", "comment", "statements"})
  /\ IF readOnly THEN sql \in Has.select /\ Free(sql, {"keyword"}) ELSE Free(sql, {"schema"})

\* Postgres is the only engine with a client; it connects, then runs the statement.
SendStatement(engine, readOnly) ==
  IF engine # "postgres" THEN Refused("UnsupportedTool")
  ELSE Remote(<<IF readOnly THEN "QUERY" ELSE "EXECUTE">>) \cup Refused("AdapterFailed")

ExecuteDatabase(tool, action) ==
  LET readOnly == action.name = "database.read"
  IN IF ~MatchesConfig(tool, action) THEN Refused("UnsupportedTool")
     ELSE IF \/ ~Given(action, "query")
             \/ ~ValidateSqlStatement(action.parameters.query, readOnly)
             \/ Given(action, "max_rows") /\ ~Fits("number", action.parameters.max_rows)
       THEN Refused("InvalidParameters")
     ELSE IF ~LiveSecret(tool) THEN Refused("SecretUnavailable")
     ELSE SendStatement(tool.connector.engine, readOnly)

\* The fixture is a file: it may be unreadable, or not have the issue.
FixtureIssue(action) ==
  Refused("AdapterFailed") \cup Refused("InvalidParameters")
    \cup (IF ParametersFit(Operation([number |-> "number"], None), action)
          THEN Remote(<<"READ">>) ELSE {})
FixtureProposal(action) ==
  Refused("AdapterFailed")
    \cup (IF ParametersFit(Operation([title |-> "any"], None), action)
          THEN Remote(<<"WRITE">>) ELSE Refused("InvalidParameters"))

ExecuteFixture(tool, action) ==
  IF tool.connector.name # "github" THEN Refused("UnsupportedTool")
  ELSE CASE action.name = "github.read_issue" -> FixtureIssue(action)
         [] action.name = "github.create_pr" -> FixtureProposal(action)
         [] OTHER -> Refused("UnsupportedTool")

\* A kind of connector without an adapter only refuses.
ExecuteUnsupported(action) == Refused("UnsupportedTool")

\* Only reads over https.
EgressDestination(action) ==
  /\ Given(action, "method") => Normal[action.parameters.method] \in {"get", "head"}
  /\ Given(action, "url") /\ action.parameters.url \in Has.https
  /\ Free(action.parameters.url, {"at", "hash", "space", "credential", "dotdot"})

\* The HTTP client follows redirections: after the request to the destination that
\* was checked, it sends others wherever the answers lead, and nothing checks those.
FetchEgress(action) ==
  LET method == IF Given(action, "method") /\ Normal[action.parameters.method] = "head"
                THEN "HEAD" ELSE "GET"
  IN Remote(<<method>>) \cup Remote(<<method, "REDIRECTED">>)

ExecuteEgress(action) ==
  IF EgressDestination(action) THEN FetchEgress(action) ELSE Refused("InvalidParameters")

-----------------------------------------------------------------------------
(* Adapters and secret brokers.                                             *)

IsEgress(name) == name = "egress.fetch"
Live(kind) == kind \notin {"local_fixture", "unsupported"}

\* What the adapter plans to use: calls, or none if it does not support the tool.
PlannedUsage(tool, name) ==
  LET kind == tool.connector.kind
  IN IF IsEgress(name) THEN {1}
     ELSE IF ~Live(kind) THEN {0}
     ELSE {n \in {1} : name \in SupportedOperations(kind)}

\* A live connector gets its secrets from the environment, another one handles
\* that stand for them.
BrokerHas(kind, name) == Live(kind) => name \in GatewaySecret

\* Each secret has to be granted; names and scopes are in lower case by now, the
\* grants are as written.
SecretsAvailable(task, tool, name) ==
  IsEgress(name) \/
  \A ref \in tool.secretRefs :
    /\ ~task.exposeSecrets
    /\ \E grant \in task.grants : grant.name = ref.name /\ ref.scope \in grant.useFor
    /\ BrokerHas(tool.connector.kind, ref.name)

\* A reference takes the place of a parameter of the same name.
AttachSecrets(tool, action) ==
  LET named == IF IsEgress(action.name) THEN {} ELSE {ref.parameter : ref \in tool.secretRefs}
  IN [action EXCEPT !.parameters =
        [p \in DOMAIN @ \cup named |-> IF p \in named THEN "redacted" ELSE @[p]]]

\* Faulty variant: an enterprise GitHub is sent through the general HTTP adapter.
ExecuteByName(tool, action) ==
  LET kind == tool.connector.kind
  IN IF IsEgress(action.name) THEN ExecuteEgress(action)
     ELSE CASE kind = "local_fixture" -> ExecuteFixture(tool, action)
            [] kind = "github_rest" -> ExecuteGitHub(tool, action)
            [] kind = "database" -> ExecuteDatabase(tool, action)
            [] kind = "unsupported" -> ExecuteUnsupported(action)
            [] OTHER -> ExecuteEnterprise(tool, action)

\* gateway_adapter_for, and the call of the adapter it returns.
ExecuteTool(tool, action) ==
  LET kind == tool.connector.kind
  IN IF IsEgress(action.name) THEN ExecuteEgress(action)
     ELSE CASE kind = "local_fixture" -> ExecuteFixture(tool, action)
            [] kind \in {"github_rest", "github_enterprise_rest"} -> ExecuteGitHub(tool, action)
            [] kind = "database" -> ExecuteDatabase(tool, action)
            [] kind = "unsupported" -> ExecuteUnsupported(action)
            [] OTHER -> ExecuteEnterprise(tool, action)
=============================================================================
