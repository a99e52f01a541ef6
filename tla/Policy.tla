-------------------------------- MODULE Policy --------------------------------
(***************************************************************************)
(* BuiltInPolicyEngine: the decision about one action of a resolved task.  *)
(*                                                                         *)
(* A pattern tells the texts it matches literally (equal to the pattern,   *)
(* or starting with it and a space), the ones it matches as a glob, and    *)
(* whether it is a valid glob.                                             *)
(***************************************************************************)
EXTENDS Naturals, Sequences, SequencesExt

Decision == {"Allow", "Deny", "RequireApproval", "error"}

-----------------------------------------------------------------------------
(* Rules.  The candidates are tried in order, each against the patterns in  *)
(* order; the first pair that matches or whose pattern is invalid decides.  *)

Literal(text, pattern) == text \in pattern.literal
Settles(text, pattern) ==
  Literal(text, pattern) \/ ~pattern.valid \/ text \in pattern.glob
Earlier(x, y) == x[1] < y[1] \/ (x[1] = y[1] /\ x[2] <= y[2])

MatchesAny(candidates, patterns) ==
  LET settling == {x \in (DOMAIN candidates) \X (DOMAIN patterns) :
                     Settles(candidates[x[1]], patterns[x[2]])}
      first == CHOOSE x \in settling : \A y \in settling : Earlier(x, y)
  IN IF settling = {} THEN "no"
     ELSE IF Literal(candidates[first[1]], patterns[first[2]]) \/ patterns[first[2]].valid
       THEN "yes" ELSE "error"

\* Faulty variant: what is allowed is looked up before what needs an approval.
FirstMatchAllowFirst(candidates, deny, approval, allow) ==
  LET hit(list) == MatchesAny(candidates, list)
  IN IF hit(deny) # "no" THEN "Deny"
     ELSE IF hit(allow) # "no" THEN "Allow"
     ELSE IF hit(approval) # "no" THEN "RequireApproval" ELSE "Deny"

\* The first list with a match decides; an invalid pattern met before is an error.
FirstMatch(candidates, deny, approval, allow) ==
  LET lists == <<deny, approval, allow>>
      answers == [n \in 1..3 |-> MatchesAny(candidates, lists[n])]
      outcome == <<"Deny", "RequireApproval", "Allow">>
      first == CHOOSE n \in 1..3 : answers[n] # "no" /\ \A k \in 1..(n - 1) : answers[k] = "no"
  IN IF \A n \in 1..3 : answers[n] = "no" THEN "Deny"
     ELSE IF answers[first] = "error" THEN "error" ELSE outcome[first]

-----------------------------------------------------------------------------
(* Kinds of actions.                                                        *)

\* The command as given, the executable alone, and the words joined again.
CommandMatchCandidates(command) ==
  <<command.raw, command.executable>>
    \o (IF command.args = <<>> THEN <<>> ELSE <<command.joined>>)

EvaluateCommand(task, command) ==
  LET candidates == CommandMatchCandidates(command)
      denied == MatchesAny(candidates, task.commands.deny)
  IN CASE denied = "error" -> "error"
       [] denied = "yes" -> "Deny"
       [] denied = "no" /\ command.shellWrapped -> "RequireApproval"
       [] OTHER -> FirstMatch(candidates, <<>>, task.commands.approval, task.commands.allow)

EvaluateTool(task, key) ==
  FirstMatch(<<key>>, task.tools.deny, task.tools.approval, task.tools.allow)

\* The first limit of the kind counts, even if a later one is larger.
EvaluateBudget(task, kind, amount) ==
  IF kind # "" /\ \E n \in DOMAIN task.budget :
       /\ task.budget[n].kind = kind /\ amount <= task.budget[n].max
       /\ \A m \in 1..(n - 1) : task.budget[m].kind # kind
  THEN "Allow" ELSE "Deny"

EvaluateNetwork(task, host) ==
  IF \/ task.network.default = "allow"
     \/ (task.network.default = "deny" /\ host \in task.network.domains)
  THEN "Allow" ELSE "Deny"

EvaluateRead(task, path) ==
  IF \E root \in task.read : IsPrefix(root, path) THEN "Allow" ELSE "Deny"
EvaluateWrite(task, path) ==
  IF \E root \in task.write : IsPrefix(root, path) THEN "Allow" ELSE "Deny"
EvaluateEnv(task, name) == IF name \in ToSet(task.env) THEN "Allow" ELSE "Deny"

\* A secret for the gateway needs an approval; one the agent would see is denied.
EvaluateSecret(task, name, scope) ==
  IF /\ ~task.exposeSecrets
     /\ \E grant \in task.grants : grant.name = name /\ scope \in grant.useFor
  THEN "RequireApproval" ELSE "Deny"
=============================================================================
