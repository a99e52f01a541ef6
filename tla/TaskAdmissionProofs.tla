------------------------ MODULE TaskAdmissionProofs ------------------------
(***************************************************************************)
(* Proofs about what a task file has to pass before its agent runs: for    *)
(* every set of task files, paths, hosts and calls, what the steps let     *)
(* through together is what the policy engine allows.                      *)
(***************************************************************************)
EXTENDS TaskAdmission, WellFoundedInduction, TLAPS

-----------------------------------------------------------------------------
(* Numbers.                                                                 *)

\* A set of natural numbers that is not empty has a least one.
LEMMA LeastNumber ==
  ASSUME NEW S, S \subseteq Nat, S # {}
  PROVE  \E n \in S : \A m \in S : n <= m
<1> DEFINE R == OpToRel(<, Nat)
<1>1. IsWellFoundedOn(R, Nat)
  BY NatLessThanWellFounded
<1> HIDE DEF R
<1>2. PICK n \in S : \A m \in S : ~ (<<m, n>> \in R)
  BY <1>1, WFMin
<1>3. \A m \in S : ~ (m < n)
  BY <1>2 DEF R, OpToRel
<1> QED
  BY <1>3

\* Of the pairs of numbers in a set, one comes before all the others.
LEMMA FirstPair ==
  ASSUME NEW S \in SUBSET (Nat \X Nat), S # {}
  PROVE  \E x \in S : \A y \in S : Earlier(x, y)
<1> DEFINE Firsts == {x[1] : x \in S}
           Seconds(n) == {x[2] : x \in {y \in S : y[1] = n}}
<1>1. Firsts \subseteq Nat /\ Firsts # {}
  OBVIOUS
<1>2. PICK n \in Firsts : \A m \in Firsts : n <= m
  BY <1>1, LeastNumber
<1>3. Seconds(n) \subseteq Nat /\ Seconds(n) # {}
  OBVIOUS
<1>4. PICK k \in Seconds(n) : \A m \in Seconds(n) : k <= m
  BY <1>3, LeastNumber
<1>5. PICK x \in S : x[1] = n /\ x[2] = k
  BY <1>4
<1>6. ASSUME NEW y \in S
      PROVE  Earlier(x, y)
  <2>1. /\ n \in Nat /\ y[1] \in Nat /\ k \in Nat /\ y[2] \in Nat
        /\ n <= y[1]
    BY <1>1, <1>2, <1>3, <1>4
  <2>2. CASE y[1] = n
    BY <1>4, <1>5, <2>1, <2>2 DEF Earlier
  <2>3. CASE y[1] # n
    BY <1>5, <2>1, <2>3 DEF Earlier
  <2> QED
    BY <2>2, <2>3
<1> QED
  BY <1>6

-----------------------------------------------------------------------------
(* Rules.                                                                   *)

\* What the answer of a list of patterns says about its patterns.
LEMMA AnswerOfPatterns ==
  ASSUME NEW Text, NEW candidates \in Seq(Text), NEW patterns \in Seq(Pattern(Text))
  PROVE  LET answer == MatchesAny(candidates, patterns)
         IN /\ answer \in {"no", "yes", "error"}
            /\ answer = "no" =>
                 \A x \in DOMAIN candidates, y \in DOMAIN patterns :
                   ~ Settles(candidates[x], patterns[y])
            /\ answer = "yes" =>
                 \E x \in DOMAIN candidates, y \in DOMAIN patterns :
                   candidates[x] \in patterns[y].literal \cup patterns[y].glob
<1> DEFINE settling == {x \in (DOMAIN candidates) \X (DOMAIN patterns) :
                          Settles(candidates[x[1]], patterns[x[2]])}
           first == CHOOSE x \in settling : \A y \in settling : Earlier(x, y)
<1>1. CASE settling = {}
  <2>1. MatchesAny(candidates, patterns) = "no"
    BY <1>1 DEF MatchesAny
  <2>2. ASSUME NEW x \in DOMAIN candidates, NEW y \in DOMAIN patterns
        PROVE  ~ Settles(candidates[x], patterns[y])
    <3>1. <<x, y>> \notin settling
      BY <1>1
    <3> QED
      BY <3>1
  <2> QED
    BY <2>1, <2>2
<1>2. CASE settling # {}
  <2>1. settling \in SUBSET (Nat \X Nat)
    OBVIOUS
  <2>2. first \in settling
    <3> HIDE DEF settling
    <3> QED
      BY <1>2, <2>1, FirstPair
  <2> HIDE DEF first
  <2>3. PICK x \in DOMAIN candidates, y \in DOMAIN patterns :
          first = <<x, y>> /\ Settles(candidates[x], patterns[y])
    BY <2>2
  <2>4. MatchesAny(candidates, patterns) =
          IF Literal(candidates[x], patterns[y]) \/ patterns[y].valid THEN "yes" ELSE "error"
    <3>1. MatchesAny(candidates, patterns) =
            IF settling = {} THEN "no"
            ELSE IF Literal(candidates[first[1]], patterns[first[2]]) \/ patterns[first[2]].valid
              THEN "yes" ELSE "error"
      BY DEF MatchesAny, first
    <3>2. first[1] = x /\ first[2] = y
      BY <2>3
    <3> HIDE DEF settling
    <3> QED
      BY <1>2, <3>1, <3>2
  <2>5. MatchesAny(candidates, patterns) = "yes" =>
          candidates[x] \in patterns[y].literal \cup patterns[y].glob
    BY <2>3, <2>4 DEF Settles, Literal
  <2> QED
    BY <2>4, <2>5
<1> QED
  BY <1>1, <1>2

\* The lists are tried one after the other, and only the last one allows.
LEMMA AnswerOfLists ==
  ASSUME NEW Text, NEW candidates \in Seq(Text), NEW deny \in Seq(Pattern(Text)),
         NEW approval \in Seq(Pattern(Text)), NEW allow \in Seq(Pattern(Text))
  PROVE  LET decision == FirstMatch(candidates, deny, approval, allow)
         IN /\ decision \in Decision
            /\ decision = "Allow" => /\ MatchesAny(candidates, deny) = "no"
                                    /\ MatchesAny(candidates, approval) = "no"
                                    /\ MatchesAny(candidates, allow) = "yes"
<1> DEFINE lists == <<deny, approval, allow>>
           answers == [n \in 1..3 |-> MatchesAny(candidates, lists[n])]
           outcome == <<"Deny", "RequireApproval", "Allow">>
           Decides(n) == answers[n] # "no" /\ \A k \in 1..(n - 1) : answers[k] = "no"
           first == CHOOSE n \in 1..3 : Decides(n)
<1>1. /\ answers[1] = MatchesAny(candidates, deny)
      /\ answers[2] = MatchesAny(candidates, approval)
      /\ answers[3] = MatchesAny(candidates, allow)
  OBVIOUS
<1>2. \A n \in 1..3 : answers[n] \in {"no", "yes", "error"}
  BY <1>1, AnswerOfPatterns, \A n \in 1..3 : n = 1 \/ n = 2 \/ n = 3
<1>3. FirstMatch(candidates, deny, approval, allow) =
        IF \A n \in 1..3 : answers[n] = "no" THEN "Deny"
        ELSE IF answers[first] = "error" THEN "error" ELSE outcome[first]
  BY DEF FirstMatch
<1> HIDE DEF answers
<1>4. CASE \A n \in 1..3 : answers[n] = "no"
  BY <1>3, <1>4 DEF Decision
<1>5. CASE ~ \A n \in 1..3 : answers[n] = "no"
  <2>1. \E n \in 1..3 : Decides(n)
    <3>1. \A k \in 1..2 : k = 1 \/ k = 2
      OBVIOUS
    <3>2. answers[1] # "no" => Decides(1)
      OBVIOUS
    <3>3. answers[1] = "no" /\ answers[2] # "no" => Decides(2)
      OBVIOUS
    <3>4. answers[1] = "no" /\ answers[2] = "no" /\ answers[3] # "no" => Decides(3)
      BY <3>1
    <3>5. \A n \in 1..3 : n = 1 \/ n = 2 \/ n = 3
      OBVIOUS
    <3> HIDE DEF Decides
    <3> QED
      BY <1>5, <3>2, <3>3, <3>4, <3>5
  <2>2. first \in 1..3 /\ Decides(first)
    <3> HIDE DEF Decides
    <3> QED
      BY <2>1
  <2> HIDE DEF first
  <2>3. answers[first] = "error" \/ answers[first] = "yes"
    BY <1>2, <2>2
  <2>4. outcome[first] \in Decision /\ (outcome[first] = "Allow" => first = 3)
    BY <2>2 DEF Decision
  <2>5. first = 3 => answers[1] = "no" /\ answers[2] = "no"
    BY <2>2
  <2> QED
    BY <1>1, <1>3, <1>5, <2>3, <2>4, <2>5 DEF Decision
<1> QED
  BY <1>4, <1>5

\* Nothing in an empty list matches.
LEMMA NoPatterns ==
  ASSUME NEW candidates
  PROVE  MatchesAny(candidates, <<>>) = "no"
BY DEF MatchesAny

\* What passes all three lists is clearly allowed, whatever the order of trying.
LEMMA PassesTheLists ==
  ASSUME NEW Text, NEW candidates \in Seq(Text), candidates # <<>>,
         NEW deny \in Seq(Pattern(Text)), NEW approval \in Seq(Pattern(Text)),
         NEW allow \in Seq(Pattern(Text)),
         MatchesAny(candidates, deny) = "no", MatchesAny(candidates, approval) = "no",
         MatchesAny(candidates, allow) = "yes"
  PROVE  ClearlyAllowed(ToSet(candidates), deny \o approval, allow)
<1> DEFINE restricting == deny \o approval
<1>1. /\ \A x \in DOMAIN candidates, y \in DOMAIN deny : ~ Settles(candidates[x], deny[y])
      /\ \A x \in DOMAIN candidates, y \in DOMAIN approval : ~ Settles(candidates[x], approval[y])
  BY AnswerOfPatterns
<1>2. \A y \in DOMAIN restricting :
        \/ \E z \in DOMAIN deny : restricting[y] = deny[z]
        \/ \E z \in DOMAIN approval : restricting[y] = approval[z]
  <2> SUFFICES ASSUME NEW y \in DOMAIN restricting
               PROVE  \/ \E z \in DOMAIN deny : restricting[y] = deny[z]
                      \/ \E z \in DOMAIN approval : restricting[y] = approval[z]
    OBVIOUS
  <2>1. CASE y <= Len(deny)
    BY <2>1
  <2>2. CASE y > Len(deny)
    <3>1. y - Len(deny) \in DOMAIN approval /\ restricting[y] = approval[y - Len(deny)]
      BY <2>2
    <3> QED
      BY <3>1
  <2> QED
    BY <2>1, <2>2
<1> HIDE DEF restricting
<1>3. \A x \in DOMAIN candidates, y \in DOMAIN restricting :
        ~ Settles(candidates[x], restricting[y])
  BY <1>1, <1>2
<1>4. Matching(restricting, ToSet(candidates)) = {}
  BY <1>3 DEF Matching, ToSet, Settles, Literal
<1>5. \A y \in DOMAIN restricting : restricting[y].valid
  <2>1. 1 \in DOMAIN candidates
    OBVIOUS
  <2> QED
    BY <1>3, <2>1 DEF Settles
<1>6. Matching(allow, ToSet(candidates)) # {}
  <2>1. PICK x \in DOMAIN candidates, y \in DOMAIN allow :
          candidates[x] \in allow[y].literal \cup allow[y].glob
    BY AnswerOfPatterns
  <2>2. y \in Matching(allow, ToSet(candidates))
    BY <2>1 DEF Matching, ToSet
  <2> QED
    BY <2>2
<1> QED
  BY <1>4, <1>5, <1>6 DEF ClearlyAllowed, restricting

\* The spellings of a command are commands, and there is always one.
LEMMA Spellings ==
  ASSUME NEW i, i.executable \in STRING, i.args \in Seq(STRING)
  PROVE  LET candidates == CommandMatchCandidates(CommandActionFromInvocation(i))
         IN candidates \in Seq(Seq(STRING)) /\ candidates # <<>>
<1> DEFINE words == <<i.executable>> \o i.args
           action == CommandActionFromInvocation(i)
<1>1. /\ action.raw = words /\ action.joined = words
      /\ action.executable = <<i.executable>> /\ action.args = i.args
  BY DEF CommandActionFromInvocation
<1>2. words \in Seq(STRING) /\ <<i.executable>> \in Seq(STRING)
  OBVIOUS
<1> HIDE DEF words, action
<1>3. CommandMatchCandidates(action) =
        <<words, <<i.executable>>>> \o (IF i.args = <<>> THEN <<>> ELSE <<words>>)
  BY <1>1 DEF CommandMatchCandidates
<1>4. CommandMatchCandidates(action) \in Seq(Seq(STRING))
  <2>1. <<words, <<i.executable>>>> \in Seq(Seq(STRING)) /\ <<words>> \in Seq(Seq(STRING))
    BY <1>2
  <2>2. CASE i.args = <<>>
    <3>1. CommandMatchCandidates(action) = <<words, <<i.executable>>>>
      BY <1>2, <1>3, <2>2
    <3> QED
      BY <2>1, <3>1
  <2>3. CASE i.args # <<>>
    <3>1. CommandMatchCandidates(action) = <<words, <<i.executable>>>> \o <<words>>
      BY <1>3, <2>3
    <3> QED
      BY <2>1, <3>1
  <2> QED
    BY <2>2, <2>3
<1>5. CommandMatchCandidates(action) # <<>>
  BY <1>2, <1>3
<1> QED
  BY <1>4, <1>5 DEF action

\* The decision about a command is one of four, and it allows only a command that
\* is clearly allowed and no shell.
LEMMA DecisionOfCommand ==
  ASSUME NEW t, t.commands \in RuleLists(Seq(STRING)),
         NEW i, i.executable \in STRING, i.args \in Seq(STRING)
  PROVE  LET action == CommandActionFromInvocation(i)
             decision == EvaluateCommand(t, action)
         IN /\ decision \in Decision
            /\ decision = "Allow" =>
                 /\ ~ action.shellWrapped
                 /\ ClearlyAllowed(ToSet(CommandMatchCandidates(action)),
                                   t.commands.deny \o t.commands.approval, t.commands.allow)
<1> DEFINE action == CommandActionFromInvocation(i)
           candidates == CommandMatchCandidates(action)
           denied == MatchesAny(candidates, t.commands.deny)
           listed == FirstMatch(candidates, <<>>, t.commands.approval, t.commands.allow)
<1>1. candidates \in Seq(Seq(STRING)) /\ candidates # <<>>
  BY Spellings
<1>2. /\ t.commands.deny \in Seq(Pattern(Seq(STRING)))
      /\ t.commands.approval \in Seq(Pattern(Seq(STRING)))
      /\ t.commands.allow \in Seq(Pattern(Seq(STRING)))
      /\ <<>> \in Seq(Pattern(Seq(STRING)))
  BY DEF RuleLists
<1> HIDE DEF candidates
<1>3. denied \in {"no", "yes", "error"}
  BY <1>1, <1>2, AnswerOfPatterns
<1>4. /\ listed \in Decision
      /\ listed = "Allow" => /\ MatchesAny(candidates, t.commands.approval) = "no"
                             /\ MatchesAny(candidates, t.commands.allow) = "yes"
  <2> DEFINE Text == Seq(STRING)
             none == <<>>
  <2>1. none \in Seq(Pattern(Text))
    OBVIOUS
  <2> HIDE DEF none, Text
  <2>2. /\ FirstMatch(candidates, none, t.commands.approval, t.commands.allow) \in Decision
        /\ FirstMatch(candidates, none, t.commands.approval, t.commands.allow) = "Allow" =>
             /\ MatchesAny(candidates, t.commands.approval) = "no"
             /\ MatchesAny(candidates, t.commands.allow) = "yes"
    BY <1>1, <1>2, <2>1, AnswerOfLists DEF Text
  <2> QED
    BY <2>2 DEF none
<1>5. EvaluateCommand(t, action) =
        CASE denied = "error" -> "error"
          [] denied = "yes" -> "Deny"
          [] denied = "no" /\ action.shellWrapped -> "RequireApproval"
          [] OTHER -> listed
  BY Zenon DEF EvaluateCommand, candidates
<1> HIDE DEF denied, listed, action
<1>6. CASE denied = "error"
  <2>1. EvaluateCommand(t, action) = "error"
    <3>1. denied # "yes" /\ denied # "no"
      BY <1>6
    <3> QED
      BY <1>5, <1>6, <3>1, Zenon
  <2> QED
    BY <2>1 DEF Decision, action
<1>7. CASE denied = "yes"
  <2>1. EvaluateCommand(t, action) = "Deny"
    <3>1. denied # "error" /\ denied # "no"
      BY <1>7
    <3> QED
      BY <1>5, <1>7, <3>1, Zenon
  <2> QED
    BY <2>1 DEF Decision, action
<1>8. CASE denied = "no" /\ action.shellWrapped
  <2>1. EvaluateCommand(t, action) = "RequireApproval"
    <3>1. denied # "error" /\ denied # "yes"
      BY <1>8
    <3> QED
      BY <1>5, <1>8, <3>1, Zenon
  <2> QED
    BY <2>1 DEF Decision, action
<1>9. CASE denied = "no" /\ ~ action.shellWrapped
  <2>1. EvaluateCommand(t, action) = listed
    <3>1. denied # "error" /\ denied # "yes"
      BY <1>9
    <3> QED
      BY <1>5, <1>9, <3>1, Zenon
  <2>2. ASSUME listed = "Allow"
        PROVE  ClearlyAllowed(ToSet(candidates),
                              t.commands.deny \o t.commands.approval, t.commands.allow)
    <3>1. /\ MatchesAny(candidates, t.commands.deny) = "no"
          /\ MatchesAny(candidates, t.commands.approval) = "no"
          /\ MatchesAny(candidates, t.commands.allow) = "yes"
      BY <1>4, <1>9, <2>2 DEF denied
    <3> QED
      BY <1>1, <1>2, <3>1, PassesTheLists
  <2> QED
    BY <1>4, <1>9, <2>1, <2>2 DEF action, candidates
<1> QED
  BY <1>3, <1>6, <1>7, <1>8, <1>9

-----------------------------------------------------------------------------
(* What a loaded task is like.                                              *)

\* Resolving keeps the lists of rules and the arguments, and what it makes of the
\* paths are paths; the checks of the file hold of what is resolved.
LEMMA LoadedTask ==
  ASSUME NEW f \in RawTaskFile, ParseTaskFile(f)
  PROVE  LET t == Resolve(f)
         IN /\ t.commands \in RuleLists(Seq(STRING)) /\ t.tools \in RuleLists(STRING)
            /\ t.agent.command \in STRING /\ t.agent.args \in Seq(STRING)
            /\ t.id \in STRING /\ t.workspace \in Seq(STRING)
            /\ t.read \subseteq Seq(STRING) /\ t.write \subseteq Seq(STRING)
            /\ t.exposeSecrets = FALSE
            /\ \A ssh \in t.sandbox.ssh : SshAccepted(ssh)
<1> DEFINE t == Resolve(f)
           workspace == CHOOSE w \in ResolveExistingWorkspace(f.workspace) : TRUE
<1>1. /\ t.id = f.id /\ t.commands = f.commands /\ t.tools = f.tools
      /\ t.exposeSecrets = f.exposeSecrets
      /\ t.agent = ResolveAgent(f.agent) /\ t.workspace = workspace
      /\ t.read = ResolvePaths(workspace, f.read) /\ t.write = ResolvePaths(workspace, f.write)
      /\ t.sandbox = [f.sandbox EXCEPT
                        !.kind = ResolveSandboxKind(CHOOSE k \in f.sandbox.kind : TRUE)]
  BY DEF Resolve
<1> HIDE DEF t
<1>2. /\ f.id \in STRING
      /\ f.commands \in RuleLists(Seq(STRING)) /\ f.tools \in RuleLists(STRING)
      /\ f.exposeSecrets \in BOOLEAN
      /\ f.agent \in [kind : STRING, command : STRING, args : Seq(STRING)]
      /\ f.sandbox \in RawSandbox
      /\ f.read \subseteq WrittenPath /\ f.write \subseteq WrittenPath
  BY DEF RawTaskFile
<1>3. /\ t.agent.command = f.agent.command /\ t.agent.args = f.agent.args
      /\ f.agent.command \in STRING /\ f.agent.args \in Seq(STRING)
  BY <1>1, <1>2 DEF ResolveAgent
<1>4. workspace \in Seq(STRING)
  <2>1. ResolveExistingWorkspace(f.workspace) # {}
    BY DEF ParseTaskFile
  <2>2. ResolveExistingWorkspace(f.workspace) \subseteq Seq(STRING)
    BY CanonicalAssumption DEF ResolveExistingWorkspace, CanonicalAssumption
  <2> QED
    BY <2>1, <2>2
<1>5. ASSUME NEW raws, raws \subseteq WrittenPath
      PROVE  ResolvePaths(workspace, raws) \subseteq Seq(STRING)
  <2>1. \A path \in Seq(STRING) : ValidateAllowedPath(path) \in Seq(STRING)
    BY CanonicalAssumption DEF ValidateAllowedPath, CanonicalAssumption
  <2>2. \A written \in raws : ResolvePath(workspace, written) \subseteq Seq(STRING)
    BY <1>5, <2>1 DEF ResolvePath, WrittenPath
  <2> QED
    BY <2>2 DEF ResolvePaths
<1>6. t.sandbox.ssh = f.sandbox.ssh
  BY <1>1, <1>2 DEF RawSandbox
<1>7. ~ f.exposeSecrets /\ \A ssh \in f.sandbox.ssh : SshAccepted(ssh)
  BY DEF ParseTaskFile, SandboxAccepted
<1> QED
  BY <1>1, <1>2, <1>3, <1>4, <1>5, <1>6, <1>7 DEF t

-----------------------------------------------------------------------------
(* Paths and mounts.                                                        *)

\* A path in the container has a root the host need not know.
Component == STRING \cup OwnNames

\* A prefix is what agrees with a sequence up to its own length.
LEMMA PrefixElements ==
  ASSUME NEW Text, NEW s \in Seq(Text), NEW t \in Seq(Text)
  PROVE  IsPrefix(s, t) <=> Len(s) <= Len(t) /\ \A n \in 1..Len(s) : s[n] = t[n]
BY DEF IsPrefix

\* What is appended to a sequence leaves its start alone.
LEMMA StartOfConcatenation ==
  ASSUME NEW Text, NEW s \in Seq(Text), NEW t \in Seq(Text), Len(s) >= 1
  PROVE  s \o t \in Seq(Text) /\ Len(s \o t) >= 1 /\ (s \o t)[1] = s[1]
OBVIOUS

\* Two directories that hold the same path are nested.
LEMMA HoldersNest ==
  ASSUME NEW Text, NEW p \in Seq(Text), NEW q \in Seq(Text), NEW path \in Seq(Text),
         IsPrefix(p, path), IsPrefix(q, path)
  PROVE  Nested(p, q)
BY PrefixElements DEF Nested

\* A path of the workspace keeps its components behind the container's root.
LEMMA ContainerComponents ==
  ASSUME NEW t, t.workspace \in Seq(STRING), NEW p \in Seq(STRING), Under(t.workspace, p)
  PROVE  LET c == ContainerPathFor(t, p)
         IN /\ c \in Seq(Component) /\ Len(c) = Len(p) - Len(t.workspace) + 1
            /\ c[1] = "workspace"
            /\ \A n \in 2..Len(c) : c[n] = p[Len(t.workspace) + n - 1]
<1> DEFINE w == Len(t.workspace)
           rest == SubSeq(p, w + 1, Len(p))
           c == ContainerPathFor(t, p)
<1>1. w \in Nat /\ w <= Len(p)
  BY PrefixElements DEF Under
<1>2. c = <<"workspace">> \o rest
  BY DEF ContainerPathFor
<1> HIDE DEF w, c
<1>3. /\ rest \in Seq(STRING) /\ Len(rest) = Len(p) - w
      /\ \A n \in 1..Len(rest) : rest[n] = p[w + n]
  BY <1>1
<1> HIDE DEF rest
<1>4. c \in Seq(Component) /\ Len(c) = Len(p) - w + 1 /\ c[1] = "workspace"
  <2>1. <<"workspace">> \in Seq(Component) /\ rest \in Seq(Component)
    BY <1>3 DEF Component, OwnNames
  <2>2. c \in Seq(Component)
    BY <1>2, <2>1
  <2>3. Len(c) = 1 + Len(rest)
    BY <1>2, <1>3
  <2>4. c[1] = "workspace"
    BY <1>2, <1>3
  <2> QED
    BY <1>1, <1>3, <2>2, <2>3, <2>4
<1>5. ASSUME NEW n \in 2..Len(c)
      PROVE  c[n] = p[w + n - 1]
  <2>1. n - 1 \in 1..Len(rest) /\ c[n] = rest[n - 1]
    BY <1>1, <1>2, <1>3, <1>4
  <2> QED
    BY <1>1, <1>3, <2>1
<1> QED
  BY <1>4, <1>5 DEF c, w

\* A directory holds a path in the container exactly if it does on the host.
LEMMA ContainerPrefixes ==
  ASSUME NEW t, t.workspace \in Seq(STRING), NEW p \in Seq(STRING), NEW q \in Seq(STRING),
         Under(t.workspace, p), Under(t.workspace, q)
  PROVE  IsPrefix(ContainerPathFor(t, q), ContainerPathFor(t, p)) <=> IsPrefix(q, p)
<1> DEFINE w == Len(t.workspace)
           cp == ContainerPathFor(t, p)
           cq == ContainerPathFor(t, q)
<1>1. /\ w \in Nat /\ w <= Len(p) /\ w <= Len(q)
      /\ \A n \in 1..w : p[n] = t.workspace[n] /\ q[n] = t.workspace[n]
  BY PrefixElements DEF Under
<1>2. /\ cp \in Seq(Component) /\ Len(cp) = Len(p) - w + 1 /\ cp[1] = "workspace"
      /\ \A n \in 2..Len(cp) : cp[n] = p[w + n - 1]
  BY ContainerComponents
<1>3. /\ cq \in Seq(Component) /\ Len(cq) = Len(q) - w + 1 /\ cq[1] = "workspace"
      /\ \A n \in 2..Len(cq) : cq[n] = q[w + n - 1]
  BY ContainerComponents
<1> HIDE DEF cp, cq, w
<1>4. ASSUME IsPrefix(cq, cp)
      PROVE  IsPrefix(q, p)
  <2>1. Len(cq) <= Len(cp) /\ \A n \in 1..Len(cq) : cq[n] = cp[n]
    <3>1. cq \in Seq(Component) /\ cp \in Seq(Component)
      BY <1>2, <1>3
    <3> QED BY <1>4, <3>1, PrefixElements
  <2>2. ASSUME NEW n \in 1..Len(q)
        PROVE  q[n] = p[n]
    <3>1. CASE n <= w
      BY <1>1, <3>1
    <3>2. CASE n > w
      <4>1. n - w + 1 \in 2..Len(cq)
        BY <1>1, <1>3, <3>2
      <4>2. cq[n - w + 1] = cp[n - w + 1]
        BY <2>1, <4>1
      <4>3. cq[n - w + 1] = q[n] /\ cp[n - w + 1] = p[n]
        BY <1>1, <1>2, <1>3, <2>1, <4>1
      <4> QED
        BY <4>2, <4>3
    <3> QED
      BY <1>1, <3>1, <3>2
  <2>3. Len(q) <= Len(p)
    BY <1>1, <1>2, <1>3, <2>1
  <2> QED
    BY <2>2, <2>3, PrefixElements
<1>5. ASSUME IsPrefix(q, p)
      PROVE  IsPrefix(cq, cp)
  <2>1. Len(q) <= Len(p) /\ \A n \in 1..Len(q) : q[n] = p[n]
    BY <1>5, PrefixElements
  <2>2. ASSUME NEW n \in 1..Len(cq)
        PROVE  cq[n] = cp[n]
    <3>1. CASE n = 1
      BY <1>2, <1>3, <3>1
    <3>2. CASE n # 1
      <4>1. n \in 2..Len(cq) /\ n \in 2..Len(cp) /\ w + n - 1 \in 1..Len(q)
        BY <1>1, <1>2, <1>3, <2>1, <3>2
      <4> QED
        BY <1>2, <1>3, <2>1, <4>1
    <3> QED
      BY <3>1, <3>2
  <2>3. Len(cq) <= Len(cp)
    BY <1>1, <1>2, <1>3, <2>1
  <2> QED
    BY <1>2, <1>3, <2>2, <2>3, PrefixElements
<1> QED
  BY <1>4, <1>5 DEF cp, cq

\* Of the mounts that hold a path, one is the deepest.
LEMMA DeepestMount ==
  ASSUME NEW path \in Seq(Component), NEW holding, holding # {},
         \A m \in holding : m.container \in Seq(Component) /\ IsPrefix(m.container, path)
  PROVE  \E d \in holding : \A o \in holding : Len(o.container) <= Len(d.container)
<1> DEFINE Above(m) == Len(path) - Len(m.container)
           heights == {Above(m) : m \in holding}
<1>1. \A m \in holding : Len(m.container) \in Nat /\ Len(m.container) <= Len(path)
  BY PrefixElements
<1>2. heights \subseteq Nat /\ heights # {}
  BY <1>1
<1>3. PICK least \in heights : \A height \in heights : least <= height
  BY <1>2, LeastNumber
<1>4. PICK d \in holding : least = Above(d)
  OBVIOUS
<1>5. \A o \in holding : Above(d) <= Above(o)
  BY <1>3, <1>4
<1> QED
  BY <1>1, <1>5

\* A file below a mounted path is shown where its own path is.
LEMMA ShownInPlace ==
  ASSUME NEW t, t.workspace \in Seq(STRING), NEW p \in Seq(STRING), NEW q \in Seq(STRING),
         Under(t.workspace, q), IsPrefix(q, p),
         NEW m, m.host = q, m.container = ContainerPathFor(t, q)
  PROVE  Under(t.workspace, p) /\ ShownAt(m, p) = ContainerPathFor(t, p)
<1> DEFINE w == Len(t.workspace)
           cp == ContainerPathFor(t, p)
           cq == ContainerPathFor(t, q)
           rest == SubSeq(p, Len(q) + 1, Len(p))
           shown == cq \o rest
<1>1. /\ w \in Nat /\ Len(q) \in Nat /\ Len(p) \in Nat /\ w <= Len(q) /\ Len(q) <= Len(p)
      /\ \A n \in 1..w : t.workspace[n] = q[n]
      /\ \A n \in 1..Len(q) : q[n] = p[n]
  BY PrefixElements DEF Under
<1>2. Under(t.workspace, p)
  BY <1>1, PrefixElements DEF Under
<1>3. /\ cp \in Seq(Component) /\ Len(cp) = Len(p) - w + 1 /\ cp[1] = "workspace"
      /\ \A n \in 2..Len(cp) : cp[n] = p[w + n - 1]
  BY <1>2, ContainerComponents
<1>4. /\ cq \in Seq(Component) /\ Len(cq) = Len(q) - w + 1 /\ cq[1] = "workspace"
      /\ \A n \in 2..Len(cq) : cq[n] = q[w + n - 1]
  BY ContainerComponents
<1>5. /\ rest \in Seq(Component) /\ Len(rest) = Len(p) - Len(q)
      /\ \A n \in 1..Len(rest) : rest[n] = p[Len(q) + n]
  BY <1>1 DEF Component
<1>6. ShownAt(m, p) = shown
  BY DEF ShownAt
<1> HIDE DEF w, cp, cq, rest
<1>7. shown \in Seq(Component) /\ Len(shown) = Len(cp)
  <2>1. cq \in Seq(Component) /\ rest \in Seq(Component)
    BY <1>4, <1>5
  <2>2. shown \in Seq(Component) /\ Len(shown) = Len(cq) + Len(rest)
    BY <2>1
  <2>3. Len(cq) + Len(rest) = Len(cp)
    BY <1>1, <1>3, <1>4, <1>5
  <2> QED
    BY <2>2, <2>3
<1>8. ASSUME NEW n \in 1..Len(cp)
      PROVE  shown[n] = cp[n]
  <2>1. CASE n <= Len(cq)
    <3>1. shown[n] = cq[n]
      BY <1>4, <1>5, <2>1
    <3>2. CASE n = 1
      BY <1>3, <1>4, <3>1, <3>2
    <3>3. CASE n # 1
      <4>1. n \in 2..Len(cq) /\ n \in 2..Len(cp) /\ w + n - 1 \in 1..Len(q)
        BY <1>1, <1>3, <1>4, <2>1, <3>3
      <4>2. cq[n] = q[w + n - 1] /\ cp[n] = p[w + n - 1]
        BY <1>3, <1>4, <4>1
      <4> QED
        BY <1>1, <3>1, <4>1, <4>2
    <3> QED
      BY <3>2, <3>3
  <2>2. CASE n > Len(cq)
    <3>1. n - Len(cq) \in 1..Len(rest) /\ n \in 2..Len(cp)
      <4>1. Len(cp) \in Nat /\ Len(cq) \in Nat /\ Len(rest) \in Nat
        BY <1>3, <1>4, <1>5
      <4>2. Len(cp) = Len(cq) + Len(rest) /\ 1 <= Len(cq)
        BY <1>1, <1>3, <1>4, <1>5
      <4> QED
        BY <2>2, <4>1, <4>2
    <3>2. shown[n] = rest[n - Len(cq)]
      BY <1>4, <1>5, <3>1
    <3>3. rest[n - Len(cq)] = p[Len(q) + (n - Len(cq))]
      BY <1>5, <3>1
    <3>4. Len(q) + (n - Len(cq)) = w + n - 1
      BY <1>1, <1>4
    <3>5. cp[n] = p[w + n - 1]
      BY <1>3, <3>1
    <3> QED
      BY <3>2, <3>3, <3>4, <3>5
  <2>3. n \in Nat /\ Len(cq) \in Nat
    BY <1>3, <1>4
  <2> HIDE DEF shown
  <2> QED
    BY <2>1, <2>2, <2>3
<1> HIDE DEF shown
<1>9. shown = cp
  <2>1. DOMAIN shown = 1..Len(cp) /\ DOMAIN cp = 1..Len(cp)
    BY <1>3, <1>7
  <2> QED
    BY <1>3, <1>7, <1>8, <2>1
<1> QED
  BY <1>2, <1>6, <1>9 DEF cp

\* The container finds a file in the modes the policy engine gives it, and the
\* files of the gateway spool, which it gives none, for writing.
LEMMA ModesFollowPolicy ==
  ASSUME NEW t, t.workspace \in Seq(STRING), t.id \in STRING, t.read \subseteq Seq(STRING),
         t.write \subseteq Seq(STRING), MountPlanAccepted(t), NEW p \in Seq(STRING)
  PROVE  LET modes == Modes(BuildMountPlan(t), p)
             reads == \E q \in t.read : IsPrefix(q, p)
             writes == \E q \in t.write : IsPrefix(q, p)
             spool == DockerGatewaySpoolRequired(t) /\ IsPrefix(GatewaySpoolHostPath(t), p)
         IN /\ "ReadWrite" \in modes <=> writes \/ spool
            /\ modes # {} <=> reads \/ writes \/ spool
            /\ spool => ~ reads /\ ~ writes
<1> DEFINE c == ContainerPathFor(t, p)
           plan == BuildMountPlan(t)
           host == GatewaySpoolHostPath(t)
           inside == <<"taskfence", "gateway-spool">>
           required == DockerGatewaySpoolRequired(t)
           Mount(q, m) == [host |-> q, container |-> ContainerPathFor(t, q), mode |-> m]
           SpoolMount == [host |-> host, container |-> inside, mode |-> "ReadWrite"]
           Shows(d) == /\ IsPrefix(d.host, p)
                       /\ \A o \in plan : IsPrefix(o.container, ShownAt(d, p)) =>
                            Len(o.container) <= Len(d.container)
           modes == Modes(plan, p)
           reads == \E q \in t.read : IsPrefix(q, p)
           writes == \E q \in t.write : IsPrefix(q, p)
           spool == required /\ IsPrefix(host, p)
<1>1. /\ \A m \in plan : \/ \E q \in t.read \ t.write : m = Mount(q, "ReadOnly")
                         \/ \E q \in t.write : m = Mount(q, "ReadWrite")
                         \/ required /\ m = SpoolMount
      /\ \A q \in t.read \ t.write : Mount(q, "ReadOnly") \in plan
      /\ \A q \in t.write : Mount(q, "ReadWrite") \in plan
      /\ required => SpoolMount \in plan
  BY DEF BuildMountPlan
<1>2. \A q \in t.read \cup t.write : q \in Seq(STRING) /\ Under(t.workspace, q)
  BY DEF MountPlanAccepted, ValidateMountPath
<1>3. modes = {d.mode : d \in {m \in plan : Shows(m)}}
  BY DEF Modes
<1>4. host \in Seq(Component) /\ p \in Seq(Component) /\ inside \in Seq(Component)
  <2>1. <<".taskfence", "tasks", t.id, "gateway-spool">> \in Seq(Component)
    BY DEF Component, OwnNames
  <2>2. t.workspace \in Seq(Component) /\ p \in Seq(Component)
    BY DEF Component
  <2>3. inside \in Seq(Component)
    BY DEF Component, OwnNames
  <2> QED
    BY <2>1, <2>2, <2>3 DEF GatewaySpoolHostPath
<1>5. \A q \in t.read \cup t.write : ContainerPathFor(t, q) \in Seq(Component)
                                    /\ ContainerPathFor(t, q)[1] = "workspace"
                                    /\ Len(ContainerPathFor(t, q)) >= 1
  <2> SUFFICES ASSUME NEW q \in t.read \cup t.write
               PROVE  /\ ContainerPathFor(t, q) \in Seq(Component)
                      /\ ContainerPathFor(t, q)[1] = "workspace"
                      /\ Len(ContainerPathFor(t, q)) >= 1
    OBVIOUS
  <2>1. q \in Seq(STRING) /\ Under(t.workspace, q)
    BY <1>2
  <2>2. Len(t.workspace) \in Nat /\ Len(q) \in Nat /\ Len(t.workspace) <= Len(q)
    BY <2>1, PrefixElements DEF Under
  <2>3. /\ ContainerPathFor(t, q) \in Seq(Component)
        /\ Len(ContainerPathFor(t, q)) = Len(q) - Len(t.workspace) + 1
        /\ ContainerPathFor(t, q)[1] = "workspace"
    BY <2>1, ContainerComponents
  <2> QED
    BY <2>2, <2>3
<1>6. \A q \in t.read \cup t.write, m \in {"ReadOnly", "ReadWrite"} :
        IsPrefix(q, p) => Under(t.workspace, p) /\ ShownAt(Mount(q, m), p) = c
  BY <1>2, ShownInPlace
<1>7. spool => ~ reads /\ ~ writes
  <2> SUFFICES ASSUME spool, NEW q \in t.read \cup t.write, IsPrefix(q, p)
               PROVE  FALSE
    OBVIOUS
  <2>1. q \in Seq(Component)
    BY <1>2 DEF Component
  <2>2. Nested(q, host)
    BY <1>4, <2>1, HoldersNest
  <2> QED
    BY <2>2 DEF MountPlanAccepted, GatewaySpoolAccepted
<1>8. \A r \in t.read, w \in t.write : IsPrefix(r, p) /\ IsPrefix(w, p) => r = w
  BY <1>2, HoldersNest DEF MountPlanAccepted, RejectMixedModeOverlaps
<1>9. spool => SpoolMount \in plan /\ Shows(SpoolMount)
  <2> SUFFICES ASSUME spool, NEW o \in plan, IsPrefix(o.container, ShownAt(SpoolMount, p))
               PROVE  Len(o.container) <= Len(inside)
    BY <1>1
  <2> DEFINE rest == SubSeq(p, Len(host) + 1, Len(p))
             shown == inside \o rest
  <2>1. rest \in Seq(Component)
    BY <1>4
  <2> HIDE DEF rest
  <2>2. shown \in Seq(Component) /\ shown[1] = "taskfence" /\ Len(shown) >= 1
    <3> HIDE DEF rest
    <3>1. Len(inside) = 2 /\ inside[1] = "taskfence" /\ inside \in Seq(Component)
      BY <1>4
    <3> HIDE DEF inside
    <3>2. /\ inside \o rest \in Seq(Component) /\ Len(inside \o rest) >= 1
          /\ (inside \o rest)[1] = inside[1]
      <4>1. inside \in Seq(Component) /\ rest \in Seq(Component) /\ Len(inside) >= 1
        BY <2>1, <3>1
      <4> QED
        BY <4>1, StartOfConcatenation
    <3> QED
      BY <3>1, <3>2 DEF shown
  <2>3. IsPrefix(o.container, shown)
    BY DEF ShownAt, rest
  <2> HIDE DEF shown
  <2>4. ASSUME NEW q \in t.read \cup t.write, o.container = ContainerPathFor(t, q)
        PROVE  FALSE
    <3>1. o.container \in Seq(Component) /\ Len(o.container) >= 1 /\ o.container[1] = "workspace"
      BY <1>5, <2>4
    <3>2. o.container[1] = shown[1]
      BY <2>2, <2>3, <3>1, PrefixElements
    <3> QED
      BY <2>2, <3>1, <3>2
  <2>5. o = SpoolMount
    BY <1>1, <2>4
  <2> QED
    BY <1>4, <2>5
<1>10. reads \/ writes =>
         \E d \in plan : Shows(d) /\ (d.mode = "ReadWrite" <=> writes)
  <2> SUFFICES ASSUME reads \/ writes
               PROVE  \E d \in plan : Shows(d) /\ (d.mode = "ReadWrite" <=> writes)
    OBVIOUS
  <2> DEFINE holding == {m \in plan : IsPrefix(m.container, c)}
  <2>1. Under(t.workspace, p)
    BY <1>6
  <2>2. c \in Seq(Component) /\ Len(c) >= 1 /\ c[1] = "workspace"
    <3>1. Len(t.workspace) \in Nat /\ Len(p) \in Nat /\ Len(t.workspace) <= Len(p)
      BY <2>1, PrefixElements DEF Under
    <3>2. c \in Seq(Component) /\ Len(c) = Len(p) - Len(t.workspace) + 1 /\ c[1] = "workspace"
      BY <2>1, ContainerComponents
    <3> HIDE DEF c
    <3> QED
      BY <3>1, <3>2
  <2>3. \A q \in t.read \cup t.write : IsPrefix(ContainerPathFor(t, q), c) <=> IsPrefix(q, p)
    BY <1>2, <2>1, ContainerPrefixes
  <2>4. ~ IsPrefix(inside, c)
    <3>1. Len(inside) = 2 /\ inside[1] = "taskfence" /\ inside \in Seq(Component)
      BY <1>4
    <3> HIDE DEF inside, c
    <3>2. inside \in Seq(Component) /\ c \in Seq(Component)
      BY <2>2, <3>1
    <3>3. IsPrefix(inside, c) => \A n \in 1..Len(inside) : inside[n] = c[n]
      BY <3>2, PrefixElements
    <3>4. 1 \in 1..Len(inside)
      BY <3>1
    <3> QED
      BY <2>2, <3>1, <3>3, <3>4
  <2>5. holding # {}
    <3>1. CASE writes
      <4>1. PICK q \in t.write : IsPrefix(q, p)
        BY <3>1
      <4>2. Mount(q, "ReadWrite") \in holding
        BY <1>1, <2>3, <4>1
      <4> QED
        BY <4>2
    <3>2. CASE reads /\ ~ writes
      <4>1. PICK q \in t.read \ t.write : IsPrefix(q, p)
        BY <3>2
      <4>2. Mount(q, "ReadOnly") \in holding
        BY <1>1, <2>3, <4>1
      <4> QED
        BY <4>2
    <3> QED
      BY <3>1, <3>2
  <2> HIDE DEF plan, c, inside
  <2>6. \A m \in holding : m.container \in Seq(Component) /\ IsPrefix(m.container, c)
    <3> SUFFICES ASSUME NEW m \in plan, IsPrefix(m.container, c)
                 PROVE  m.container \in Seq(Component)
      OBVIOUS
    <3> HIDE DEF holding
    <3> QED
      BY <1>1, <1>4, <1>5
  <2>7. PICK d \in holding : \A o \in holding : Len(o.container) <= Len(d.container)
    <3> HIDE DEF holding
    <3> QED
      BY <2>2, <2>5, <2>6, DeepestMount
  <2>8. PICK q \in t.read \cup t.write :
          /\ \/ d = Mount(q, "ReadOnly") /\ q \in t.read \ t.write
             \/ d = Mount(q, "ReadWrite") /\ q \in t.write
          /\ IsPrefix(q, p)
    <3>1. d.container # inside
      BY <2>4
    <3>2. PICK q \in t.read \cup t.write :
            \/ d = Mount(q, "ReadOnly") /\ q \in t.read \ t.write
            \/ d = Mount(q, "ReadWrite") /\ q \in t.write
      BY <1>1, <3>1
    <3>3. d.container = ContainerPathFor(t, q)
      BY <3>2
    <3> QED
      BY <2>3, <3>2, <3>3
  <2>9. ShownAt(d, p) = c /\ IsPrefix(d.host, p)
    <3>1. d.host = q
      BY <2>8
    <3>2. d = Mount(q, "ReadOnly") \/ d = Mount(q, "ReadWrite")
      BY <2>8
    <3> HIDE DEF Mount
    <3>3. /\ ShownAt(Mount(q, "ReadOnly"), p) = c
          /\ ShownAt(Mount(q, "ReadWrite"), p) = c
      BY <1>6, <2>8
    <3> QED
      BY <2>8, <3>1, <3>2, <3>3
  <2>10. d.mode = "ReadWrite" <=> writes
    <3>1. CASE d = Mount(q, "ReadWrite") /\ q \in t.write
      BY <2>8, <3>1
    <3>2. CASE d = Mount(q, "ReadOnly") /\ q \in t.read \ t.write
      <4>1. ~ writes
        BY <1>8, <2>8, <3>2
      <4> QED
        BY <3>2, <4>1
    <3> QED
      BY <2>8, <3>1, <3>2
  <2> QED
    BY <2>7, <2>9, <2>10
<1>11. \A d \in plan : IsPrefix(d.host, p) =>
         \/ d.mode = "ReadWrite" /\ (writes \/ spool)
         \/ d.mode = "ReadOnly" /\ reads
  BY <1>1
<1> HIDE DEF plan, modes, reads, writes, spool, Shows, SpoolMount
<1>12. \A x \in modes : \E d \in plan : Shows(d) /\ x = d.mode
  BY <1>3
<1>13. \A d \in plan : Shows(d) => d.mode \in modes /\ IsPrefix(d.host, p)
  BY <1>3 DEF Shows
<1>14. SpoolMount.mode = "ReadWrite"
  BY DEF SpoolMount
<1>15. "ReadWrite" \in modes <=> writes \/ spool
  <2>1. "ReadWrite" \in modes => writes \/ spool
    BY <1>11, <1>12, <1>13
  <2>2. writes => "ReadWrite" \in modes
    BY <1>10, <1>13
  <2>3. spool => "ReadWrite" \in modes
    BY <1>9, <1>13, <1>14
  <2> QED
    BY <2>1, <2>2, <2>3
<1>16. modes # {} <=> reads \/ writes \/ spool
  <2>1. modes # {} => reads \/ writes \/ spool
    BY <1>11, <1>12, <1>13
  <2>2. reads \/ writes => modes # {}
    BY <1>10, <1>13
  <2> QED
    BY <1>15, <2>1, <2>2
<1> QED
  BY <1>7, <1>15, <1>16 DEF modes, plan, reads, writes, spool

-----------------------------------------------------------------------------
(* What prepare() accepts and start() looks at again.                       *)

\* The network mode is worked out twice, and comes out the same: open only if the
\* task has allowed the network.
LEMMA NetworkWorkedOutTwice ==
  ASSUME NEW t, t.sandbox.kind = "docker"
  PROVE  /\ DockerNetworkArg(Prepare(t)) = BuildNetworkPlan(t)
         /\ BuildNetworkPlan(t) # {} /\ "none" \notin BuildNetworkPlan(t) =>
              t.network.default = "allow"
<1> DEFINE p == Prepare(t)
           refused == t.network.domains # {} /\ ~ DockerGatewayEgressEnabled(t)
           open == t.network.domains = {} /\ t.network.default = "allow"
<1>1. p.network = t.network /\ p.egress = DockerGatewayEgressEnabled(t)
  BY DEF Prepare
<1>2. BuildNetworkPlan(t) = CASE refused -> {} [] open -> {"bridge"} [] OTHER -> {"none"}
  BY Zenon DEF BuildNetworkPlan
<1>3. DockerNetworkArg(p) = CASE p.network.domains # {} /\ ~ p.egress -> {}
                              [] p.network.domains = {} /\ p.network.default = "allow" -> {"bridge"}
                              [] OTHER -> {"none"}
  BY Zenon DEF DockerNetworkArg
<1> HIDE DEF p
<1>4. CASE refused
  <2>1. ~ open
    BY <1>4
  <2>2. BuildNetworkPlan(t) = {}
    BY <1>2, <1>4, <2>1, Zenon
  <2>3. DockerNetworkArg(p) = {}
    <3>1. /\ p.network.domains # {} /\ ~ p.egress
          /\ ~ (p.network.domains = {} /\ p.network.default = "allow")
      BY <1>1, <1>4
    <3> QED
      BY <1>3, <3>1, Zenon
  <2> QED
    BY <2>2, <2>3 DEF p
<1>5. CASE open
  <2>1. ~ refused
    BY <1>5
  <2>2. BuildNetworkPlan(t) = {"bridge"}
    BY <1>2, <1>5, <2>1, Zenon
  <2>3. DockerNetworkArg(p) = {"bridge"}
    <3>1. /\ ~ (p.network.domains # {} /\ ~ p.egress)
          /\ p.network.domains = {} /\ p.network.default = "allow"
      BY <1>1, <1>5
    <3> QED
      BY <1>3, <3>1, Zenon
  <2> QED
    BY <1>5, <2>2, <2>3 DEF p
<1>6. CASE ~ refused /\ ~ open
  <2>1. BuildNetworkPlan(t) = {"none"}
    BY <1>2, <1>6, Zenon
  <2>2. DockerNetworkArg(p) = {"none"}
    <3>1. /\ ~ (p.network.domains # {} /\ ~ p.egress)
          /\ ~ (p.network.domains = {} /\ p.network.default = "allow")
      BY <1>1, <1>6
    <3> QED
      BY <1>3, <3>1, Zenon
  <2> QED
    BY <2>1, <2>2 DEF p
<1> QED
  BY <1>4, <1>5, <1>6

\* If the paths of the task can be written into an argument, all its mounts can.
LEMMA MountsCanBeWritten ==
  ASSUME NEW t, t.workspace \in Seq(STRING), t.read \subseteq Seq(STRING),
         t.write \subseteq Seq(STRING), MountPlanAccepted(t),
         \A p \in t.read \cup t.write \cup {t.workspace, <<t.id>>} : MountPathAccepted(p)
  PROVE  \A m \in BuildMountPlan(t) : MountPathAccepted(m.host) /\ MountPathAccepted(m.container)
<1> DEFINE Fine(text) == Free(text, {"comma", "nul"})
           tail == <<".taskfence", "tasks", t.id, "gateway-spool">>
           spool == <<"taskfence", "gateway-spool">>
<1>1. \A name \in OwnNames : Fine(name)
  BY OwnNamesAssumption DEF OwnNamesAssumption
<1>2. \A p \in t.read \cup t.write :
        /\ p \in Seq(STRING) /\ Under(t.workspace, p)
        /\ \A n \in DOMAIN p : Fine(p[n])
  BY DEF MountPlanAccepted, ValidateMountPath, MountPathAccepted
<1>3. /\ \A n \in DOMAIN t.workspace : Fine(t.workspace[n])
      /\ Fine(t.id)
  <2>1. MountPathAccepted(<<t.id>>) /\ MountPathAccepted(t.workspace)
    OBVIOUS
  <2>2. 1 \in DOMAIN <<t.id>> /\ <<t.id>>[1] = t.id
    OBVIOUS
  <2> QED
    BY <2>1, <2>2 DEF MountPathAccepted
<1>4. \A n \in DOMAIN tail : Fine(tail[n])
  BY <1>1, <1>3 DEF OwnNames
<1>5. MountPathAccepted(spool)
  BY <1>1 DEF OwnNames, MountPathAccepted
<1>6. MountPathAccepted(GatewaySpoolHostPath(t))
  <2> DEFINE path == t.workspace \o tail
  <2>1. tail \in Seq({".taskfence", "tasks", t.id, "gateway-spool"})
    OBVIOUS
  <2> HIDE DEF tail
  <2>2. ASSUME NEW n \in DOMAIN path
        PROVE  Fine(path[n])
    <3>1. Len(path) = Len(t.workspace) + Len(tail) /\ n \in 1..Len(path)
      BY <2>1
    <3>2. CASE n <= Len(t.workspace)
      <4>1. n \in DOMAIN t.workspace /\ path[n] = t.workspace[n]
        BY <2>1, <3>1, <3>2
      <4> QED
        BY <1>3, <4>1
    <3>3. CASE n > Len(t.workspace)
      <4>1. n - Len(t.workspace) \in DOMAIN tail /\ path[n] = tail[n - Len(t.workspace)]
        BY <2>1, <3>1, <3>3
      <4> QED
        BY <1>4, <4>1
    <3> QED
      BY <3>1, <3>2, <3>3
  <2> QED
    BY <2>2 DEF MountPathAccepted, GatewaySpoolHostPath, tail
<1>7. ASSUME NEW p \in t.read \cup t.write
      PROVE  MountPathAccepted(p) /\ MountPathAccepted(ContainerPathFor(t, p))
  <2> DEFINE c == ContainerPathFor(t, p)
             w == Len(t.workspace)
  <2>1. /\ c \in Seq(Component) /\ Len(c) = Len(p) - w + 1 /\ c[1] = "workspace"
        /\ \A n \in 2..Len(c) : c[n] = p[w + n - 1]
    BY <1>2, ContainerComponents
  <2>2. w \in Nat /\ w <= Len(p) /\ Len(p) \in Nat /\ DOMAIN p = 1..Len(p)
    BY <1>2, PrefixElements DEF Under
  <2> HIDE DEF c, w
  <2>3. ASSUME NEW n \in DOMAIN c
        PROVE  Fine(c[n])
    <3>1. n \in 1..Len(c)
      BY <2>1
    <3>2. CASE n = 1
      BY <1>1, <2>1, <3>2 DEF OwnNames
    <3>3. CASE n # 1
      <4>1. n \in 2..Len(c) /\ w + n - 1 \in DOMAIN p
        <5>1. n \in Int /\ 2 <= n /\ n <= Len(p) - w + 1 /\ n <= Len(c)
          BY <2>1, <2>2, <3>1, <3>3
        <5>2. w + n - 1 \in 1..Len(p)
          BY <2>2, <5>1
        <5> QED BY <2>1, <2>2, <5>1, <5>2
      <4> QED
        BY <1>2, <2>1, <4>1
    <3> QED
      BY <3>2, <3>3
  <2> QED
    BY <2>3 DEF MountPathAccepted, c
<1> HIDE DEF spool, tail
<1>8. \A m \in BuildMountPlan(t) :
        \/ \E p \in t.read \cup t.write : m.host = p /\ m.container = ContainerPathFor(t, p)
        \/ m.host = GatewaySpoolHostPath(t) /\ m.container = spool
  BY DEF BuildMountPlan, spool
<1> QED
  BY <1>5, <1>6, <1>7, <1>8

\* Why docker run can still be refused.
LEMMA WhyDockerIsRefused ==
  ASSUME NEW f \in RawTaskFile, ParseTaskFile(f), NEW t, t = Resolve(f),
         t.sandbox.kind = "docker", InvocationAccepted(t), PrepareAccepted(t),
         ~ StartAccepted(Prepare(t), BuildInvocation(t))
  PROVE  \/ t.sandbox.image = {}
         \/ \E p \in t.read \cup t.write \cup {t.workspace, <<t.id>>} : ~ MountPathAccepted(p)
         \/ \E x \in t.sandbox.image \cup t.sandbox.memory \cup t.sandbox.disk : x \in Has.nul
         \/ DockerGatewayEgressEnabled(t) /\ \E x \in t.network.domains : x \in Has.nul
<1> DEFINE p == Prepare(t)
           i == BuildInvocation(t)
<1>1. /\ t.workspace \in Seq(STRING) /\ t.read \subseteq Seq(STRING)
      /\ t.write \subseteq Seq(STRING)
  BY LoadedTask
<1>2. /\ p.kind = "docker" /\ p.image = t.sandbox.image /\ p.sandbox = t.sandbox
      /\ p.mounts = BuildMountPlan(t) /\ p.env = BuildEnvPlan(t)
  BY DEF Prepare
<1>3. MountPlanAccepted(t) /\ EnvPlanAccepted(t) /\ BuildNetworkPlan(t) # {}
  BY DEF PrepareAccepted, DockerPlanAccepted
<1>4. DockerNetworkArg(p) # {}
  BY <1>3, NetworkWorkedOutTwice
<1>5. /\ i.executable = t.agent.command /\ i.args = t.agent.args
      /\ Free(t.agent.command, {"space", "nul"})
      /\ \A n \in DOMAIN t.agent.args : Free(t.agent.args[n], {"nul"})
  BY DEF BuildInvocation, InvocationAccepted, ValidateExecutable
<1>6. Free(i.executable, {"nul"}) /\ \A n \in DOMAIN i.args : Free(i.args[n], {"nul"})
  BY <1>5 DEF Free
<1>7. ~ DockerArgsAccepted(p, i)
  BY <1>2 DEF StartAccepted
<1> HIDE DEF p, i
<1> SUFFICES ASSUME t.sandbox.image # {},
                    \A path \in t.read \cup t.write \cup {t.workspace, <<t.id>>} :
                      MountPathAccepted(path),
                    \A x \in t.sandbox.image \cup t.sandbox.memory \cup t.sandbox.disk :
                      x \notin Has.nul,
                    DockerGatewayEgressEnabled(t) => \A x \in t.network.domains : x \notin Has.nul
             PROVE  FALSE
  OBVIOUS
<1>8. \A m \in p.mounts : MountPathAccepted(m.host) /\ MountPathAccepted(m.container)
  BY <1>1, <1>2, <1>3, MountsCanBeWritten
<1>9. \A x \in t.sandbox.image \cup t.sandbox.memory \cup t.sandbox.disk : Free(x, {"nul"})
  BY DEF Free
<1>10. ASSUME NEW name \in DOMAIN p.env, NEW text \in {name} \cup p.env[name]
       PROVE  Free(text, {"nul"})
  <2>1. /\ name \in PlannedEnv(t)
        /\ p.env[name] = IF /\ name = "TASKFENCE_GATEWAY_EGRESS_ALLOW_DOMAINS"
                            /\ DockerGatewayEgressEnabled(t)
                         THEN t.network.domains ELSE {}
    BY <1>2 DEF BuildEnvPlan
  <2>2. CASE text = name
    <3>1. name \in ToSet(t.env) \cup GeneratedEnv
      BY <2>1 DEF PlannedEnv, GeneratedEnv
    <3>2. name \in ToSet(t.env) => Free(name, {"nul"})
      BY <1>3 DEF EnvPlanAccepted, Free
    <3>3. name \in GeneratedEnv => Free(name, {"nul"})
      BY GeneratedEnvAssumption DEF GeneratedEnvAssumption
    <3> QED
      BY <2>2, <3>1, <3>2, <3>3
  <2>3. CASE text \in p.env[name]
    BY <2>1, <2>3 DEF Free
  <2> QED
    BY <2>2, <2>3
<1> QED
  BY <1>2, <1>4, <1>6, <1>7, <1>8, <1>9, <1>10 DEF DockerArgsAccepted

\* Why ssh can still be refused.
LEMMA WhySshIsRefused ==
  ASSUME NEW f \in RawTaskFile, ParseTaskFile(f), NEW t, t = Resolve(f),
         t.sandbox.kind # "docker", InvocationAccepted(t),
         ~ StartAccepted(Prepare(t), BuildInvocation(t))
  PROVE  \/ t.agent.kind # "Generic"
         \/ \E n \in DOMAIN t.agent.args : t.agent.args[n] \in Has.newline
         \/ \E ssh \in t.sandbox.ssh :
              \E path \in ssh.workspace \cup ssh.identity \cup ssh.knownHosts :
                path.text \in Has.newline
<1> DEFINE p == Prepare(t)
           i == BuildInvocation(t)
<1>1. \A ssh \in t.sandbox.ssh : SshAccepted(ssh)
  BY LoadedTask
<1>2. /\ p.kind = "remote_ssh" /\ DOMAIN p.env = {} /\ p.sandbox = t.sandbox
  BY DEF Prepare, NoEnv
<1>3. /\ i.executable = t.agent.command /\ i.args = t.agent.args
      /\ t.agent.kind = "Generic" => i.env = {}
      /\ Free(t.agent.command, {"space", "nul"})
      /\ \A n \in DOMAIN t.agent.args : Free(t.agent.args[n], {"nul"})
  BY DEF BuildInvocation, InvocationAccepted, ValidateExecutable
<1>4. ~ SshArgsAccepted(p, i)
  BY <1>2 DEF StartAccepted
<1> HIDE DEF p, i
<1> SUFFICES ASSUME t.agent.kind = "Generic",
                    \A n \in DOMAIN t.agent.args : t.agent.args[n] \notin Has.newline,
                    \A ssh \in t.sandbox.ssh :
                      \A path \in ssh.workspace \cup ssh.identity \cup ssh.knownHosts :
                        path.text \notin Has.newline
             PROVE  FALSE
  OBVIOUS
<1>5. SshArg(i.executable) /\ \A n \in DOMAIN i.args : SshArg(i.args[n])
  BY <1>3, WhiteSpaceAssumption DEF WhiteSpaceAssumption, SshArg, Free
<1>6. ASSUME NEW ssh \in t.sandbox.ssh
      PROVE  /\ \A text \in {ssh.host} \cup ssh.user : SshSegment(text)
             /\ \A path \in ssh.workspace \cup ssh.identity \cup ssh.knownHosts :
                  SshPath(path) /\ SshArg(path.text)
  <2>1. /\ \A text \in {ssh.host} \cup ssh.user : SshSegment(text)
        /\ \A path \in ssh.workspace \cup ssh.identity \cup ssh.knownHosts : SshPath(path)
    BY <1>1 DEF SshAccepted
  <2>2. \A path \in ssh.workspace \cup ssh.identity \cup ssh.knownHosts : SshArg(path.text)
    BY <2>1 DEF SshPath, SshArg, Free
  <2> QED
    BY <2>1, <2>2
<1> QED
  BY <1>2, <1>3, <1>4, <1>5, <1>6 DEF SshArgsAccepted

-----------------------------------------------------------------------------
(* What a started container may do.                                         *)

\* A remote host is asked to run only a task that has allowed the network.
LEMMA RemoteAllowsNetwork ==
  ASSUME NEW t, t.sandbox.kind # "docker", PrepareAccepted(t)
  PROVE  t.network.default = "allow"
<1>1. Guarantees \subseteq CapabilityReport(t)
  BY DEF PrepareAccepted, EnsureCapable, IsSufficientForTask
<1>2. CapabilityReport(t) = RemoteSshReport(t) \/ CapabilityReport(t) = UnavailableReport
  BY DEF CapabilityReport
<1>3. RemoteSshReport(t) = UnavailableReport \/ t.network.default = "allow"
  BY DEF RemoteSshReport
<1> QED
  BY <1>1, <1>2, <1>3 DEF UnavailableReport, Guarantees

\* What a prepared task is started with.
Arguments(t) ==
  IF Prepare(t).kind = "docker" THEN BuildDockerRunArgs(Prepare(t), BuildInvocation(t))
  ELSE [network |-> {"remote"}, mounts |-> {}, env |-> NoEnv]

\* Neither backend is started with more than the policy engine allows.
LEMMA ArgumentsWithinPolicy ==
  ASSUME NEW t, PrepareAccepted(t), NEW c, c = Arguments(t)
  PROVE  /\ "none" \notin c.network => t.network.default = "allow"
         /\ \A name \in (DOMAIN c.env \cap HostEnv) \ GeneratedEnv : name \in ToSet(t.env)
<1>1. CASE t.sandbox.kind = "docker"
  <2>1. /\ c.network = DockerNetworkArg(Prepare(t)) /\ c.env = BuildEnvPlan(t)
    BY <1>1 DEF Arguments, Prepare, BuildDockerRunArgs
  <2>2. BuildNetworkPlan(t) # {}
    BY <1>1 DEF PrepareAccepted, DockerPlanAccepted
  <2>3. DOMAIN BuildEnvPlan(t) \subseteq ToSet(t.env) \cup GeneratedEnv
    BY DEF BuildEnvPlan, PlannedEnv, GeneratedEnv
  <2> QED
    BY <1>1, <2>1, <2>2, <2>3, NetworkWorkedOutTwice
<1>2. CASE t.sandbox.kind # "docker"
  <2>1. DOMAIN c.env = {}
    BY <1>2 DEF Arguments, Prepare, NoEnv
  <2> QED
    BY <1>2, <2>1, RemoteAllowsNetwork
<1> QED
  BY <1>1, <1>2

-----------------------------------------------------------------------------
(* Connectors.                                                              *)

\* Whatever fails, only requests of the call are sent, and none is unsupported.
LEMMA RemoteOutcome ==
  ASSUME NEW S, NEW methods \in Seq(S), NEW outcome \in Remote(methods)
  PROVE  ToSet(outcome.sent) \subseteq ToSet(methods) /\ outcome.error # "UnsupportedTool"
<1>1. CASE outcome = [sent |-> methods, error |-> "none"]
  BY <1>1
<1>2. CASE \E n \in DOMAIN methods :
             outcome = [sent |-> SubSeq(methods, 1, n), error |-> "AdapterFailed"]
  <2>1. PICK n \in DOMAIN methods :
          outcome = [sent |-> SubSeq(methods, 1, n), error |-> "AdapterFailed"]
    BY <1>2
  <2>2. ToSet(SubSeq(methods, 1, n)) \subseteq ToSet(methods)
    BY DEF ToSet
  <2> QED
    BY <2>1, <2>2
<1> QED
  BY <1>1, <1>2 DEF Remote

\* A refused call sends nothing.
LEMMA RefusedOutcome ==
  ASSUME NEW error, NEW outcome \in Refused(error)
  PROVE  outcome.sent = <<>> /\ ToSet(outcome.sent) = {} /\ outcome.error = error
BY DEF Refused, ToSet

\* The operations of every template; anything else supports none.
LEMMA OperationsOfKinds ==
  ASSUME NEW kind, NEW name \in SupportedOperations(kind)
  PROVE  \/ kind \in {"github_rest", "github_enterprise_rest"} /\ name \in GitHubOperations
         \/ kind = "database" /\ name \in {"database.read", "database.write"}
         \/ /\ kind \in {"gitlab", "jira", "gitee", "coding", "feishu", "wecom", "dingtalk",
                         "internal_http", "siem_export"}
            /\ name \notin ApprovalRequiredOperations(kind) =>
                 name \in {"gitlab.read_issue", "jira.read_issue", "gitee.read_issue",
                           "coding.read_issue"}
BY DEF SupportedOperations, ApprovalRequiredOperations

\* Every operation a template supports has a request, and only GET needs no approval.
LEMMA EnterpriseRequests ==
  ASSUME NEW kind \in {"gitlab", "jira", "gitee", "coding", "feishu", "wecom", "dingtalk",
                       "internal_http", "siem_export"},
         NEW action, action.name \in SupportedOperations(kind)
  PROVE  LET requests == TrackerCall(kind, action.name) \cup MessageCall(kind, action.name)
                           \cup InternalCall(kind, action)
         IN /\ requests # {}
            /\ action.name \notin ApprovalRequiredOperations(kind) =>
                 \A q \in requests : q.method = "GET"
<1> DEFINE name == action.name
<1>1. \A method, needs, may : Request(method, needs, may) # {}
  BY DEF Request
<1>2. \A number : /\ ReadIssue(number) # {} /\ Comment(number) # {}
                  /\ \A q \in ReadIssue(number) : q.method = "GET"
  BY DEF ReadIssue, Comment, Request
<1>3. \A source, target, text : Change(source, target, text) # {}
  BY DEF Change, Request
<1>4. \A needs, may, q : q \in Request("GET", needs, may) => q.method = "GET"
  BY DEF Request
<1>5. CASE kind = "gitlab"
  <2>1. name \in {"gitlab.read_issue", "gitlab.create_merge_request", "gitlab.comment_issue"}
    BY <1>5 DEF SupportedOperations
  <2>2. TrackerCall(kind, name) # {}
    BY <1>2, <1>3, <1>5, <2>1 DEF TrackerCall
  <2>3. name = "gitlab.read_issue" => \A q \in TrackerCall(kind, name) : q.method = "GET"
    BY <1>2, <1>5 DEF TrackerCall
  <2>4. MessageCall(kind, name) = {} /\ InternalCall(kind, action) = {}
    BY <1>5, <2>1 DEF MessageCall, InternalCall
  <2> QED
    BY <1>5, <2>1, <2>2, <2>3, <2>4, OperationsOfKinds
<1>6. CASE kind = "jira"
  <2>1. name \in {"jira.read_issue", "jira.create_issue", "jira.comment_issue"}
    BY <1>6 DEF SupportedOperations
  <2>2. TrackerCall(kind, name) # {}
    BY <1>1, <1>6, <2>1 DEF TrackerCall
  <2>3. name = "jira.read_issue" => \A q \in TrackerCall(kind, name) : q.method = "GET"
    BY <1>4, <1>6 DEF TrackerCall
  <2>4. MessageCall(kind, name) = {} /\ InternalCall(kind, action) = {}
    BY <1>6, <2>1 DEF MessageCall, InternalCall
  <2> QED
    BY <1>6, <2>1, <2>2, <2>3, <2>4, OperationsOfKinds
<1>7. CASE kind = "gitee"
  <2>1. name \in {"gitee.read_issue", "gitee.create_pr", "gitee.comment_issue"}
    BY <1>7 DEF SupportedOperations
  <2>2. TrackerCall(kind, name) # {}
    BY <1>2, <1>3, <1>7, <2>1 DEF TrackerCall
  <2>3. name = "gitee.read_issue" => \A q \in TrackerCall(kind, name) : q.method = "GET"
    BY <1>2, <1>7 DEF TrackerCall
  <2>4. MessageCall(kind, name) = {} /\ InternalCall(kind, action) = {}
    BY <1>7, <2>1 DEF MessageCall, InternalCall
  <2> QED
    BY <1>7, <2>1, <2>2, <2>3, <2>4, OperationsOfKinds
<1>8. CASE kind = "coding"
  <2>1. name \in {"coding.read_issue", "coding.create_merge_request", "coding.comment_issue"}
    BY <1>8 DEF SupportedOperations
  <2>2. TrackerCall(kind, name) # {}
    BY <1>2, <1>3, <1>8, <2>1 DEF TrackerCall
  <2>3. name = "coding.read_issue" => \A q \in TrackerCall(kind, name) : q.method = "GET"
    BY <1>2, <1>8 DEF TrackerCall
  <2>4. MessageCall(kind, name) = {} /\ InternalCall(kind, action) = {}
    BY <1>8, <2>1 DEF MessageCall, InternalCall
  <2> QED
    BY <1>8, <2>1, <2>2, <2>3, <2>4, OperationsOfKinds
<1>9. CASE kind \in {"feishu", "wecom", "dingtalk"}
  <2>1. name \in {"feishu.send_message", "feishu.create_doc", "wecom.send_message",
                  "dingtalk.send_message"}
    BY <1>9 DEF SupportedOperations
  <2>2. name = "feishu.create_doc" => kind = "feishu"
    BY <1>9 DEF SupportedOperations
  <2>3. MessageCall(kind, name) # {}
    BY <1>1, <2>1, <2>2 DEF MessageCall
  <2> QED
    BY <1>9, <2>1, <2>3, OperationsOfKinds
<1>10. CASE kind \in {"internal_http", "siem_export"}
  <2>1. \/ kind = "internal_http" /\ name = "internal_http.call"
        \/ kind = "siem_export" /\ name = "siem.export_events"
    BY <1>10 DEF SupportedOperations
  <2>2. InternalCall(kind, action) # {}
    BY <1>1, <2>1 DEF InternalCall
  <2> QED
    BY <2>1, <2>2, OperationsOfKinds
<1> QED
  BY <1>5, <1>6, <1>7, <1>8, <1>9, <1>10

\* What an outcome of an operation of a template may be.
Contract(kind, action, engine, outcome) ==
  /\ \/ ToSet(outcome.sent) \subseteq {"GET", "QUERY"}
     \/ action.name \in ApprovalRequiredOperations(kind)
  /\ "QUERY" \in ToSet(outcome.sent) =>
       Given(action, "query") /\ ValidateSqlStatement(action.parameters.query, TRUE)
  /\ outcome.error = "UnsupportedTool" => kind = "database" /\ engine # "postgres"

\* The HTTP adapter keeps the contract of its templates.
LEMMA EnterpriseContract ==
  ASSUME NEW tool, NEW action,
         NEW kind \in {"gitlab", "jira", "gitee", "coding", "feishu", "wecom", "dingtalk",
                       "internal_http", "siem_export"}, tool.connector.kind = kind,
         action.name \in SupportedOperations(kind),
         NEW outcome \in ExecuteEnterprise(tool, action)
  PROVE  Contract(kind, action, tool.connector.engine, outcome)
<1> DEFINE requests == TrackerCall(kind, action.name) \cup MessageCall(kind, action.name)
                         \cup InternalCall(kind, action)
           Part(q) == IF ParametersFit(q.operation, action) THEN SendEnterprise(q.method)
                      ELSE Refused("InvalidParameters")
<1>1. /\ requests # {}
      /\ action.name \notin ApprovalRequiredOperations(kind) => \A q \in requests : q.method = "GET"
  BY EnterpriseRequests
<1>2. MatchesConfig(tool, action)
  BY DEF MatchesConfig
<1>3. ExecuteEnterprise(tool, action) =
        IF ~ MatchesConfig(tool, action) THEN Refused("UnsupportedTool")
        ELSE IF ~ LiveSecret(tool) THEN Refused("SecretUnavailable")
        ELSE IF requests = {} THEN Refused("UnsupportedTool")
        ELSE UNION {Part(q) : q \in requests}
  BY Zenon DEF ExecuteEnterprise
<1> HIDE DEF requests, Part
<1>4. CASE outcome \in Refused("SecretUnavailable") \/ outcome \in Refused("InvalidParameters")
  BY <1>4, RefusedOutcome DEF Contract
<1>5. CASE \E q \in requests : outcome \in Part(q)
  <2>1. PICK q \in requests : outcome \in Part(q)
    BY <1>5
  <2>2. CASE outcome \in Refused("InvalidParameters")
    BY <1>4, <2>2
  <2>3. CASE outcome \in Remote(<<q.method>>) /\ q.method \in {"GET", "POST", "PATCH"}
    <3>1. <<q.method>> \in Seq({q.method}) /\ ToSet(<<q.method>>) = {q.method}
      BY DEF ToSet
    <3>2. ToSet(outcome.sent) \subseteq {q.method} /\ outcome.error # "UnsupportedTool"
      BY <2>3, <3>1, RemoteOutcome
    <3>3. "QUERY" \notin ToSet(outcome.sent)
      BY <2>3, <3>2
    <3> QED
      BY <1>1, <3>2, <3>3 DEF Contract
  <2> QED
    BY <2>1, <2>2, <2>3 DEF Part, SendEnterprise
<1> QED
  BY <1>1, <1>2, <1>3, <1>4, <1>5

\* So does the one for GitHub.
LEMMA GitHubContract ==
  ASSUME NEW tool, NEW action, NEW kind \in {"github_rest", "github_enterprise_rest"},
         action.name \in GitHubOperations, NEW outcome \in ExecuteGitHub(tool, action)
  PROVE  Contract(kind, action, tool.connector.engine, outcome)
<1> DEFINE name == action.name
           operations == GitHubIssueCall(name) \cup GitHubRepositoryCall(name)
           Fitting(o) == /\ ParametersFit(o, action)
                         /\ name = "github.update_pr" => \E p \in DOMAIN o.may : Given(action, p)
           Part(o) == IF Fitting(o) THEN Remote(GitHubRequests(name))
                      ELSE Refused("InvalidParameters")
<1>1. operations # {}
  BY DEF GitHubOperations, GitHubIssueCall, GitHubRepositoryCall
<1>2. /\ GitHubRequests(name) \in Seq({"GET", "POST", "PUT", "PATCH"})
      /\ name = "github.read_issue" => GitHubRequests(name) = <<"GET">>
  <2> DEFINE Methods == {"GET", "POST", "PUT", "PATCH"}
  <2>1. /\ <<"GET", "POST">> \in Seq(Methods) /\ <<"PUT">> \in Seq(Methods)
        /\ <<"PATCH">> \in Seq(Methods) /\ <<"GET">> \in Seq(Methods)
        /\ <<"POST">> \in Seq(Methods)
    OBVIOUS
  <2> HIDE DEF Methods
  <2>2. GitHubRequests(name) \in Seq(Methods)
    BY <2>1, Zenon DEF GitHubRequests, GitHubIssueRequests
  <2>3. name = "github.read_issue" => GitHubRequests(name) = <<"GET">>
    BY DEF GitHubRequests, GitHubIssueRequests
  <2> QED
    BY <2>2, <2>3 DEF Methods
<1>3. name \in ApprovalRequiredOperations(kind) \/ name = "github.read_issue"
  BY DEF ApprovalRequiredOperations, SupportedOperations, GitHubOperations
<1>4. ExecuteGitHub(tool, action) =
        IF ~ LiveSecret(tool) THEN Refused("SecretUnavailable")
        ELSE IF operations = {} THEN Refused("UnsupportedTool")
        ELSE UNION {Part(o) : o \in operations}
  BY DEF ExecuteGitHub
<1> HIDE DEF operations, Part
<1>5. CASE outcome \in Refused("SecretUnavailable") \/ outcome \in Refused("InvalidParameters")
  BY <1>5, RefusedOutcome DEF Contract
<1>6. CASE outcome \in Remote(GitHubRequests(name))
  <2>1. /\ ToSet(outcome.sent) \subseteq ToSet(GitHubRequests(name))
        /\ outcome.error # "UnsupportedTool"
    BY <1>2, <1>6, RemoteOutcome
  <2>2. ToSet(GitHubRequests(name)) \subseteq {"GET", "POST", "PUT", "PATCH"}
    BY <1>2 DEF ToSet
  <2>3. name = "github.read_issue" => ToSet(GitHubRequests(name)) = {"GET"}
    BY <1>2 DEF ToSet
  <2> QED
    BY <1>3, <2>1, <2>2, <2>3 DEF Contract
<1>7. CASE \E o \in operations : outcome \in Part(o)
  BY <1>5, <1>6, <1>7 DEF Part
<1> QED
  BY <1>1, <1>4, <1>5, <1>7

\* The one for databases knows both operations, but only one engine.
LEMMA DatabaseContract ==
  ASSUME NEW tool, NEW action, tool.connector.kind = "database",
         action.name \in {"database.read", "database.write"},
         NEW outcome \in ExecuteDatabase(tool, action)
  PROVE  Contract("database", action, tool.connector.engine, outcome)
<1> DEFINE readOnly == action.name = "database.read"
           method == IF readOnly THEN "QUERY" ELSE "EXECUTE"
<1>1. MatchesConfig(tool, action)
  BY DEF MatchesConfig, SupportedOperations
<1>2. readOnly \/ action.name \in ApprovalRequiredOperations("database")
  BY DEF ApprovalRequiredOperations, SupportedOperations
<1>3. CASE outcome \in Refused("InvalidParameters") \/ outcome \in Refused("SecretUnavailable")
  BY <1>3, RefusedOutcome DEF Contract
<1>4. CASE /\ outcome \in SendStatement(tool.connector.engine, readOnly)
           /\ Given(action, "query") /\ ValidateSqlStatement(action.parameters.query, readOnly)
  <2>1. CASE tool.connector.engine # "postgres"
    BY <1>4, <2>1, RefusedOutcome DEF SendStatement, Contract
  <2>2. CASE tool.connector.engine = "postgres"
    <3>1. outcome \in Remote(<<method>>) \/ outcome \in Refused("AdapterFailed")
      BY <1>4, <2>2 DEF SendStatement
    <3>2. CASE outcome \in Refused("AdapterFailed")
      BY <3>2, RefusedOutcome DEF Contract
    <3>3. CASE outcome \in Remote(<<method>>)
      <4>1. <<method>> \in Seq({method}) /\ ToSet(<<method>>) = {method}
        BY DEF ToSet
      <4> HIDE DEF method
      <4>2. ToSet(outcome.sent) \subseteq {method} /\ outcome.error # "UnsupportedTool"
        BY <3>3, <4>1, RemoteOutcome
      <4>3. method = (IF readOnly THEN "QUERY" ELSE "EXECUTE")
        BY DEF method
      <4>4. CASE readOnly
        <5>1. ValidateSqlStatement(action.parameters.query, TRUE)
          BY <1>4, <4>4
        <5> QED
          BY <1>4, <4>2, <4>3, <4>4, <5>1 DEF Contract
      <4>5. CASE ~ readOnly
        BY <1>2, <4>2, <4>3, <4>5 DEF Contract
      <4> QED
        BY <4>4, <4>5
    <3> QED
      BY <3>1, <3>2, <3>3
  <2> QED
    BY <2>1, <2>2
<1> QED
  BY <1>1, <1>3, <1>4 DEF ExecuteDatabase

\* Whatever operation of a live connector's template is called, its adapter knows it.
LEMMA TemplateContract ==
  ASSUME NEW tool, NEW action, Live(tool.connector.kind), ~ IsEgress(action.name),
         action.name \in SupportedOperations(tool.connector.kind),
         NEW outcome \in ExecuteTool(tool, action)
  PROVE  Contract(tool.connector.kind, action, tool.connector.engine, outcome)
<1> DEFINE kind == tool.connector.kind
<1>1. CASE kind \in {"github_rest", "github_enterprise_rest"} /\ action.name \in GitHubOperations
  <2>1. ExecuteTool(tool, action) = ExecuteGitHub(tool, action)
    BY <1>1 DEF ExecuteTool
  <2> QED
    BY <1>1, <2>1, GitHubContract
<1>2. CASE kind = "database" /\ action.name \in {"database.read", "database.write"}
  <2>1. ExecuteTool(tool, action) = ExecuteDatabase(tool, action)
    BY <1>2 DEF ExecuteTool
  <2> QED
    BY <1>2, <2>1, DatabaseContract
<1>3. CASE kind \in {"gitlab", "jira", "gitee", "coding", "feishu", "wecom", "dingtalk",
                     "internal_http", "siem_export"}
  <2>1. ExecuteTool(tool, action) = ExecuteEnterprise(tool, action)
    BY <1>3 DEF ExecuteTool
  <2> QED
    BY <1>3, <2>1, EnterpriseContract
<1> QED
  BY <1>1, <1>2, <1>3, OperationsOfKinds

-----------------------------------------------------------------------------
(* The steps of a run.                                                      *)

CommandVerdict(t) == EvaluateCommand(t, CommandActionFromInvocation(BuildInvocation(t)))

\* A call that was served: the adapter had planned it, which it does only for the
\* operations of its template.
Answered(t, c) ==
  /\ c.tool \in t.gateway.tools /\ c.action \in Call /\ c.action.name = c.tool.name
  /\ PlannedUsage(c.tool, c.action.name) # {}
  /\ c.outcome \in ExecuteTool(c.tool, AttachSecrets(c.tool, c.action))

\* What each step leaves behind is made from the task file, and every check the
\* run is past has accepted it.
Trail ==
  /\ raw \in RawTask
  /\ stage = "written" => task = {}
  /\ stage \notin {"written", "rejected"} => task # {}
  /\ task # {} => ParseTaskFile(raw) /\ task = {Resolve(raw)}
  /\ stage \in {"invoked", "authorised", "prepared", "started"} => invocation # {}
  /\ invocation # {} =>
       /\ task # {} /\ invocation = {BuildInvocation(Resolve(raw))}
       /\ InvocationAccepted(Resolve(raw))
  /\ stage \in {"authorised", "prepared", "started"} =>
       CommandVerdict(Resolve(raw)) = IF approved THEN "RequireApproval" ELSE "Allow"
  /\ stage \in {"prepared", "started"} => prepared # {}
  /\ prepared # {} =>
       /\ invocation # {} /\ prepared = {Prepare(Resolve(raw))}
       /\ PrepareAccepted(Resolve(raw))
  /\ container # {} => prepared # {} /\ container = {Arguments(Resolve(raw))}
  /\ by = "start" =>
       /\ stage = "rejected" /\ prepared # {}
       /\ ~ StartAccepted(Prepare(Resolve(raw)), BuildInvocation(Resolve(raw)))
  /\ \A c \in served : task # {} /\ Answered(Resolve(raw), c)

\* Loading leaves the resolved task or nothing.
LEMMA LoadKeepsTrail == Trail /\ Load => Trail'
<1> SUFFICES ASSUME Trail, Load PROVE Trail'
  OBVIOUS
<1>1. task = {} /\ invocation = {} /\ prepared = {} /\ container = {} /\ served = {}
  BY DEF Trail, Load
<1>2. CASE ParseTaskFile(raw)
  <2>1. /\ task' = {Resolve(raw)} /\ stage' = "loaded" /\ raw' = raw /\ by' = by
        /\ invocation' = {} /\ prepared' = {} /\ container' = {} /\ served' = {}
    BY <1>1, <1>2 DEF Load, run
  <2>2. by # "start"
    BY DEF Trail, Load
  <2> QED
    BY <1>2, <2>1, <2>2 DEF Trail
<1>3. CASE ~ ParseTaskFile(raw)
  <2>1. /\ stage' = "rejected" /\ by' = "config" /\ raw' = raw
        /\ task' = {} /\ invocation' = {} /\ prepared' = {} /\ container' = {} /\ served' = {}
    BY <1>1, <1>3 DEF Load, Reject, run
  <2> QED
    BY <2>1 DEF Trail
<1> QED
  BY <1>2, <1>3

\* A step that rejects the run for another reason than the start leaves no more.
LEMMA RejectKeepsTrail ==
  ASSUME Trail, stage # "written", NEW step, step # "start", Reject(step)
  PROVE  Trail'
<1>1. /\ stage' = "rejected" /\ by' = step /\ raw' = raw /\ task' = task
      /\ invocation' = invocation /\ prepared' = prepared /\ container' = container
      /\ served' = served
  BY DEF Reject, run
<1> QED
  BY <1>1 DEF Trail

\* The invocation is kept only if the adapter has accepted the task.
LEMMA InvokeKeepsTrail == Trail /\ Invoke => Trail'
<1> SUFFICES ASSUME Trail, Invoke PROVE Trail'
  OBVIOUS
<1> DEFINE t == Resolve(raw)
<1>1. stage = "loaded" /\ task = {t} /\ by # "start"
  BY DEF Trail, Invoke
<1>2. CASE InvocationAccepted(t)
  <2>1. /\ invocation' = {BuildInvocation(t)} /\ stage' = "invoked" /\ raw' = raw /\ by' = by
        /\ task' = task /\ prepared' = prepared /\ container' = container /\ served' = served
    BY <1>1, <1>2 DEF Invoke
  <2> QED
    BY <1>1, <1>2, <2>1 DEF Trail
<1>3. CASE ~ InvocationAccepted(t)
  <2>1. Reject("agent")
    BY <1>1, <1>3 DEF Invoke
  <2> QED
    BY <1>1, <2>1, RejectKeepsTrail
<1> QED
  BY <1>2, <1>3

\* A run goes on only with a decision that allows it or asks for the approval.
LEMMA AuthoriseKeepsTrail == Trail /\ Authorise => Trail'
<1> SUFFICES ASSUME Trail, Authorise PROVE Trail'
  OBVIOUS
<1> DEFINE t == Resolve(raw)
           i == BuildInvocation(t)
<1>1. stage = "invoked" /\ task = {t} /\ invocation = {i} /\ by # "start"
  BY DEF Trail, Authorise
<1>2. CommandDecision = CommandVerdict(t)
  <2>1. raw \in RawTaskFile /\ ParseTaskFile(raw)
    BY <1>1, TaskFilesAssumption DEF Trail, TaskFilesAssumption
  <2>2. i.executable \in STRING /\ i.args \in Seq(STRING)
    BY <2>1, LoadedTask DEF BuildInvocation
  <2>3. CommandVerdict(t) \in Decision
    BY <2>1, <2>2, LoadedTask, DecisionOfCommand DEF CommandVerdict
  <2>4. CommandDecision = CHOOSE d \in Decision : d = CommandVerdict(t)
    BY <1>1 DEF CommandDecision, CommandVerdict
  <2> QED
    BY <2>3, <2>4
<1>3. CASE /\ CommandDecision \in {"Allow", "RequireApproval"}
           /\ approved' = (CommandDecision = "RequireApproval") /\ stage' = "authorised"
           /\ UNCHANGED <<raw, by, task, run, served>>
  <2>1. /\ raw' = raw /\ by' = by /\ task' = task /\ invocation' = invocation
        /\ prepared' = prepared /\ container' = container /\ served' = served
    BY <1>3 DEF run
  <2>2. CommandVerdict(t) = IF approved' THEN "RequireApproval" ELSE "Allow"
    BY <1>2, <1>3
  <2> QED
    BY <1>1, <1>3, <2>1, <2>2 DEF Trail
<1>4. CASE Reject("policy") \/ Reject("approval")
  BY <1>1, <1>4, RejectKeepsTrail
<1> QED
  BY <1>3, <1>4 DEF Authorise

\* The prepared run is kept only if the runner has accepted the task.
LEMMA PrepareKeepsTrail == Trail /\ PrepareRun => Trail'
<1> SUFFICES ASSUME Trail, PrepareRun PROVE Trail'
  OBVIOUS
<1> DEFINE t == Resolve(raw)
<1>1. stage = "authorised" /\ task = {t} /\ invocation # {} /\ by # "start"
  BY DEF Trail, PrepareRun
<1>2. CASE PrepareAccepted(t)
  <2>1. /\ prepared' = {Prepare(t)} /\ stage' = "prepared" /\ raw' = raw /\ by' = by
        /\ task' = task /\ invocation' = invocation /\ approved' = approved
        /\ container' = container /\ served' = served
    BY <1>1, <1>2 DEF PrepareRun
  <2> QED
    BY <1>1, <1>2, <2>1 DEF Trail
<1>3. CASE ~ PrepareAccepted(t)
  <2>1. Reject("prepare")
    BY <1>1, <1>3 DEF PrepareRun
  <2> QED
    BY <1>1, <2>1, RejectKeepsTrail
<1> QED
  BY <1>2, <1>3

\* The backend is started with the arguments it accepts, or the start rejects.
LEMMA StartKeepsTrail == Trail /\ Start => Trail'
<1> SUFFICES ASSUME Trail, Start PROVE Trail'
  OBVIOUS
<1> DEFINE t == Resolve(raw)
           i == BuildInvocation(t)
           p == Prepare(t)
<1>1. stage = "prepared" /\ invocation = {i} /\ prepared = {p} /\ by # "start"
  BY DEF Trail, Start
<1>2. CASE StartAccepted(p, i)
  <2>1. /\ container' = {Arguments(t)} /\ stage' = "started" /\ raw' = raw /\ by' = by
        /\ task' = task /\ invocation' = invocation /\ approved' = approved
        /\ prepared' = prepared /\ served' = served
    BY <1>1, <1>2 DEF Start, Arguments
  <2> QED
    BY <1>1, <2>1 DEF Trail
<1>3. CASE ~ StartAccepted(p, i)
  <2>1. Reject("start")
    BY <1>1, <1>3 DEF Start
  <2>2. /\ stage' = "rejected" /\ by' = "start" /\ raw' = raw /\ task' = task
        /\ invocation' = invocation /\ prepared' = prepared /\ container' = container
        /\ served' = served
    BY <2>1 DEF Reject, run
  <2> QED
    BY <1>1, <1>3, <2>2 DEF Trail
<1> QED
  BY <1>2, <1>3

\* A served call was planned by its adapter and executed with its secrets.
LEMMA ServeKeepsTrail == Trail /\ ServeCall => Trail'
<1> SUFFICES ASSUME Trail, ServeCall PROVE Trail'
  OBVIOUS
<1> DEFINE t == Resolve(raw)
<1>1. stage = "loaded" /\ task = {t} /\ by # "start"
  BY DEF Trail, ServeCall
<1> DEFINE Outcome(tool, action) ==
             LET decision == EvaluateTool(t, action.name)
                 refusal == Refusal(t, tool, action)
             IN \/ decision \in {"Deny", "error"} /\ Reject("policy")
                \/ decision = "RequireApproval" /\ Reject("approval")
                \/ decision \in {"Allow", "RequireApproval"} /\ refusal # "none" /\ Reject(refusal)
                \/ /\ decision \in {"Allow", "RequireApproval"} /\ refusal = "none"
                   /\ \E outcome \in ExecuteTool(tool, AttachSecrets(tool, action)) :
                        served' = {[tool |-> tool, action |-> action, outcome |-> outcome]}
                   /\ approved' = (decision = "RequireApproval") /\ stage' = "served"
                   /\ UNCHANGED <<raw, by, task, run>>
<1>2. PICK action \in Call :
        \E tool \in {x \in t.gateway.tools : x.name = action.name} : Outcome(tool, action)
  BY <1>1 DEF ServeCall
<1>3. PICK tool \in {x \in t.gateway.tools : x.name = action.name} : Outcome(tool, action)
  BY <1>2
<1>4. CASE Reject("policy") \/ Reject("approval") \/ Reject(Refusal(t, tool, action))
  <2>1. Refusal(t, tool, action) # "start"
    BY DEF Refusal
  <2> QED
    BY <1>1, <1>4, <2>1, RejectKeepsTrail
<1>5. CASE /\ Refusal(t, tool, action) = "none"
           /\ \E outcome \in ExecuteTool(tool, AttachSecrets(tool, action)) :
                served' = {[tool |-> tool, action |-> action, outcome |-> outcome]}
           /\ stage' = "served" /\ UNCHANGED <<raw, by, task, run>>
  <2>1. PICK outcome \in ExecuteTool(tool, AttachSecrets(tool, action)) :
          served' = {[tool |-> tool, action |-> action, outcome |-> outcome]}
    BY <1>5
  <2>2. PlannedUsage(tool, action.name) # {}
    BY <1>5 DEF Refusal
  <2>3. \A c \in served' : Answered(t, c)
    BY <2>1, <2>2 DEF Answered
  <2>4. /\ raw' = raw /\ by' = by /\ task' = task /\ invocation' = invocation
        /\ prepared' = prepared /\ container' = container
    BY <1>5 DEF run
  <2> QED
    BY <1>1, <1>5, <2>3, <2>4 DEF Trail
<1> QED
  BY <1>3, <1>4, <1>5

\* The trail is an invariant of a run.
LEMMA TrailHolds == Spec => []Trail
<1>1. Init => Trail
  BY DEF Init, Trail
<1>2. Trail /\ [Next]_vars => Trail'
  <2>1. Trail /\ UNCHANGED vars => Trail'
    BY DEF vars, run, Trail
  <2> QED
    BY <2>1, LoadKeepsTrail, InvokeKeepsTrail, AuthoriseKeepsTrail, PrepareKeepsTrail,
       StartKeepsTrail, ServeKeepsTrail DEF Next, Done
<1> QED
  BY <1>1, <1>2, PTL DEF Spec

\* The task file of a run is one, so what LoadedTask says holds of every task.
LEMMA TrailOfTask ==
  ASSUME Trail, NEW t \in task
  PROVE  t = Resolve(raw) /\ raw \in RawTaskFile /\ ParseTaskFile(raw)
BY TaskFilesAssumption DEF Trail, TaskFilesAssumption

-----------------------------------------------------------------------------
(* What the steps add up to.                                                *)

\* Wherever its mounts show them, a container that has started reads and writes the
\* files the policy engine allows and those of the task's gateway spool, which it
\* denies, and no others (build_mount_plan, evaluate).
THEOREM FilesAreAsAllowed == Spec => []FilesFollowPolicy
<1>1. Trail => FilesFollowPolicy
  <2> SUFFICES ASSUME Trail, Docker, NEW t \in task, NEW c \in container, NEW p \in Path
               PROVE  LET modes == Modes(c.mounts, p)
                          read  == EvaluateRead(t, p) = "Allow"
                          write == EvaluateWrite(t, p) = "Allow"
                          spool == /\ DockerGatewaySpoolRequired(t)
                                   /\ IsPrefix(GatewaySpoolHostPath(t), p)
                      IN /\ "ReadWrite" \in modes <=> write \/ spool
                         /\ modes # {} <=> read \/ write \/ spool
                         /\ spool => ~ read /\ ~ write
    BY DEF FilesFollowPolicy
  <2>1. t = Resolve(raw) /\ raw \in RawTaskFile /\ ParseTaskFile(raw)
    BY TrailOfTask
  <2>2. t.sandbox.kind = "docker" /\ PrepareAccepted(t) /\ c = Arguments(t)
    BY <2>1 DEF Docker, Trail
  <2>3. c.mounts = BuildMountPlan(t)
    BY <2>2 DEF Arguments, Prepare, BuildDockerRunArgs
  <2>4. MountPlanAccepted(t)
    BY <2>2 DEF PrepareAccepted, DockerPlanAccepted
  <2>5. /\ t.workspace \in Seq(STRING) /\ t.id \in STRING /\ t.read \subseteq Seq(STRING)
        /\ t.write \subseteq Seq(STRING) /\ p \in Seq(STRING)
    BY <2>1, LoadedTask, TaskFilesAssumption DEF TaskFilesAssumption
  <2> DEFINE modes == Modes(c.mounts, p)
             reads == \E q \in t.read : IsPrefix(q, p)
             writes == \E q \in t.write : IsPrefix(q, p)
             spool == DockerGatewaySpoolRequired(t) /\ IsPrefix(GatewaySpoolHostPath(t), p)
  <2>6. /\ "ReadWrite" \in modes <=> writes \/ spool
        /\ modes # {} <=> reads \/ writes \/ spool
        /\ spool => ~ reads /\ ~ writes
    BY <2>3, <2>4, <2>5, ModesFollowPolicy
  <2>7. (EvaluateRead(t, p) = "Allow" <=> reads) /\ (EvaluateWrite(t, p) = "Allow" <=> writes)
    BY DEF EvaluateRead, EvaluateWrite
  <2> QED
    BY <2>6, <2>7
<1> QED
  BY <1>1, TrailHolds, PTL

\* Whatever backend runs it, an agent reaches no host and sees no variable that the
\* policy engine would deny it (docker_network_arg, build_env_plan, the SSH report).
THEOREM NothingIsBeyondPolicy == Spec => []NothingBeyondPolicy
<1>1. Trail => NothingBeyondPolicy
  <2> SUFFICES ASSUME Trail, stage = "started", NEW t \in task, NEW c \in container
               PROVE  /\ "none" \notin c.network => \A h \in Host : EvaluateNetwork(t, h) = "Allow"
                      /\ \A name \in (DOMAIN c.env \cap HostEnv) \ GeneratedEnv :
                           EvaluateEnv(t, name) = "Allow"
    BY DEF NothingBeyondPolicy
  <2>1. t = Resolve(raw) /\ PrepareAccepted(t) /\ c = Arguments(t)
    BY DEF Trail
  <2> QED
    BY <2>1, ArgumentsWithinPolicy DEF EvaluateNetwork, EvaluateEnv
<1> QED
  BY <1>1, TrailHolds, PTL

\* A run that got as far as the start fails there only for the texts that nothing
\* looks at before (docker_run_args, build_ssh_args).
THEOREM StartFailsForTexts == Spec => []LateRejections
<1>1. Trail => LateRejections
  <2> SUFFICES ASSUME Trail, by = "start", NEW t \in task, NEW i \in invocation
               PROVE  IF t.sandbox.kind = "docker"
                      THEN \/ t.sandbox.image = {}
                           \/ \E p \in t.read \cup t.write \cup {t.workspace, <<t.id>>} :
                                ~ MountPathAccepted(p)
                           \/ \E x \in t.sandbox.image \cup t.sandbox.memory
                                       \cup t.sandbox.disk : x \in Has.nul
                           \/ /\ DockerGatewayEgressEnabled(t)
                              /\ \E x \in t.network.domains : x \in Has.nul
                      ELSE \/ t.agent.kind # "Generic"
                           \/ \E n \in DOMAIN i.args : i.args[n] \in Has.newline
                           \/ \E ssh \in t.sandbox.ssh :
                                \E p \in ssh.workspace \cup ssh.identity \cup ssh.knownHosts :
                                  p.text \in Has.newline
    BY DEF LateRejections
  <2>1. t = Resolve(raw) /\ raw \in RawTaskFile /\ ParseTaskFile(raw)
    BY TrailOfTask
  <2>2. /\ i = BuildInvocation(t) /\ InvocationAccepted(t) /\ PrepareAccepted(t)
        /\ ~ StartAccepted(Prepare(t), BuildInvocation(t))
    BY <2>1 DEF Trail
  <2>3. i.args = t.agent.args
    BY <2>2 DEF BuildInvocation
  <2>4. CASE t.sandbox.kind = "docker"
    BY <2>1, <2>2, <2>4, WhyDockerIsRefused
  <2>5. CASE t.sandbox.kind # "docker"
    BY <2>1, <2>2, <2>3, <2>5, WhySshIsRefused
  <2> QED
    BY <2>4, <2>5
<1> QED
  BY <1>1, TrailHolds, PTL

\* A command that ran without an approval and a tool call that needs none are
\* clearly allowed by the rules of the task; a secret is never used without one, and
\* an amount stays within a limit of its kind (evaluate_command, first_match).
THEOREM UnapprovedIsClear == Spec => []UnapprovedIsAllowed
<1>1. ASSUME Trail, NEW t \in task, stage = "started", ~ approved, NEW i \in invocation
      PROVE  LET action == CommandActionFromInvocation(i)
             IN /\ ~ action.shellWrapped
                /\ ClearlyAllowed(ToSet(CommandMatchCandidates(action)),
                                  t.commands.deny \o t.commands.approval, t.commands.allow)
  <2>1. t = Resolve(raw) /\ raw \in RawTaskFile /\ ParseTaskFile(raw)
    BY <1>1, TrailOfTask
  <2>2. i = BuildInvocation(t) /\ CommandVerdict(t) = "Allow"
    BY <1>1, <2>1 DEF Trail
  <2>3. /\ t.commands \in RuleLists(Seq(STRING))
        /\ i.executable \in STRING /\ i.args \in Seq(STRING)
    BY <2>1, <2>2, LoadedTask DEF BuildInvocation
  <2> QED
    BY <2>2, <2>3, DecisionOfCommand DEF CommandVerdict
<1>2. ASSUME Trail, NEW t \in task, NEW key \in STRING, EvaluateTool(t, key) = "Allow"
      PROVE  ClearlyAllowed({key}, t.tools.deny \o t.tools.approval, t.tools.allow)
  <2>1. t = Resolve(raw) /\ raw \in RawTaskFile /\ ParseTaskFile(raw)
    BY <1>2, TrailOfTask
  <2>2. /\ t.tools.deny \in Seq(Pattern(STRING)) /\ t.tools.approval \in Seq(Pattern(STRING))
        /\ t.tools.allow \in Seq(Pattern(STRING))
    BY <2>1, LoadedTask DEF RuleLists
  <2> DEFINE keys == <<key>>
             decision == FirstMatch(keys, t.tools.deny, t.tools.approval, t.tools.allow)
  <2>3. /\ keys \in Seq(STRING) /\ Len(keys) = 1 /\ decision = "Allow"
    BY <1>2 DEF EvaluateTool
  <2>4. ToSet(keys) = {key} /\ keys # <<>>
    <3>1. DOMAIN keys = {1} /\ keys[1] = key
      OBVIOUS
    <3> HIDE DEF keys
    <3>2. ToSet(keys) = {key}
      BY <3>1 DEF ToSet
    <3>3. 1 \notin DOMAIN <<>>
      OBVIOUS
    <3> QED
      BY <3>1, <3>2, <3>3
  <2> HIDE DEF keys
  <2>5. /\ MatchesAny(keys, t.tools.deny) = "no" /\ MatchesAny(keys, t.tools.approval) = "no"
        /\ MatchesAny(keys, t.tools.allow) = "yes"
    BY <2>2, <2>3, AnswerOfLists
  <2> QED
    BY <2>2, <2>3, <2>4, <2>5, PassesTheLists
<1>3. ASSUME Trail, NEW t \in task, NEW grant \in t.grants, NEW scope \in grant.useFor
      PROVE  EvaluateSecret(t, grant.name, scope) = "RequireApproval"
  <2>1. t.exposeSecrets = FALSE
    BY <1>3, TrailOfTask, LoadedTask
  <2> QED
    BY <2>1 DEF EvaluateSecret
<1>4. ASSUME NEW t, NEW kind, NEW amount, EvaluateBudget(t, kind, amount) = "Allow"
      PROVE  \E n \in DOMAIN t.budget : t.budget[n].kind = kind /\ amount <= t.budget[n].max
  BY <1>4 DEF EvaluateBudget
<1>5. ToolKey \subseteq STRING
  BY ToolKeysAssumption DEF ToolKeysAssumption
<1>6. Trail => UnapprovedIsAllowed
  <2> SUFFICES ASSUME Trail, NEW t \in task
               PROVE  /\ stage = "started" /\ ~ approved =>
                           \A i \in invocation :
                             LET action == CommandActionFromInvocation(i)
                             IN /\ ~ action.shellWrapped
                                /\ ClearlyAllowed(ToSet(CommandMatchCandidates(action)),
                                     t.commands.deny \o t.commands.approval, t.commands.allow)
                      /\ stage = "loaded" =>
                           /\ \A key \in ToolKey : EvaluateTool(t, key) = "Allow" =>
                                ClearlyAllowed({key}, t.tools.deny \o t.tools.approval,
                                               t.tools.allow)
                           /\ \A grant \in t.grants : \A scope \in grant.useFor :
                                EvaluateSecret(t, grant.name, scope) = "RequireApproval"
                           /\ \A kind \in {t.budget[n].kind : n \in DOMAIN t.budget},
                                 amount \in Amount :
                                EvaluateBudget(t, kind, amount) = "Allow" =>
                                  \E n \in DOMAIN t.budget :
                                    t.budget[n].kind = kind /\ amount <= t.budget[n].max
    BY DEF UnapprovedIsAllowed
  <2>1. stage = "started" /\ ~ approved =>
          \A i \in invocation :
            LET action == CommandActionFromInvocation(i)
            IN /\ ~ action.shellWrapped
               /\ ClearlyAllowed(ToSet(CommandMatchCandidates(action)),
                                 t.commands.deny \o t.commands.approval, t.commands.allow)
    BY <1>1
  <2>2. \A key \in ToolKey : EvaluateTool(t, key) = "Allow" =>
          ClearlyAllowed({key}, t.tools.deny \o t.tools.approval, t.tools.allow)
    BY <1>2, <1>5
  <2>3. \A grant \in t.grants : \A scope \in grant.useFor :
          EvaluateSecret(t, grant.name, scope) = "RequireApproval"
    BY <1>3
  <2> QED
    BY <1>4, <2>1, <2>2, <2>3
<1> QED
  BY <1>6, TrailHolds, PTL

\* What takes the place of a parameter is no parameter that was given.
LEMMA GivenIsUnchanged ==
  ASSUME NEW tool, NEW action \in Call, NEW name, Given(AttachSecrets(tool, action), name)
  PROVE  AttachSecrets(tool, action).parameters[name] = action.parameters[name]
<1> DEFINE named == IF IsEgress(action.name) THEN {} ELSE {ref.parameter : ref \in tool.secretRefs}
           attached == AttachSecrets(tool, action)
<1>1. attached.parameters =
        [p \in DOMAIN action.parameters \cup named |->
           IF p \in named THEN "redacted" ELSE action.parameters[p]]
  BY CallsAssumption DEF CallsAssumption, AttachSecrets
<1>2. name \in DOMAIN attached.parameters /\ attached.parameters[name] # "redacted"
  BY DEF Given
<1> QED
  BY <1>1, <1>2

\* Every connector serves the operations of its template, and without the approval
\* the template asks for it sends only a GET or a statement the search for keywords
\* has let pass (gateway_adapter_for, connector_policy_template).
THEOREM ConnectorsServeTemplates == Spec => []TemplatesAreServed
<1>1. ASSUME Trail, NEW c \in served,
             Live(c.tool.connector.kind), ~ IsEgress(c.action.name)
      PROVE  LET kind == c.tool.connector.kind
                 sent == ToSet(c.outcome.sent)
             IN /\ c.action.name \in SupportedOperations(kind)
                /\ sent \subseteq {"GET", "QUERY"}
                     \/ c.action.name \in ApprovalRequiredOperations(kind)
                /\ "QUERY" \in sent => ValidateSqlStatement(c.action.parameters.query, TRUE)
                /\ c.outcome.error = "UnsupportedTool" =>
                     kind = "database" /\ c.tool.connector.engine # "postgres"
  <2> DEFINE attached == AttachSecrets(c.tool, c.action)
  <2>1. Answered(Resolve(raw), c)
    BY <1>1 DEF Trail
  <2>2. c.action.name \in SupportedOperations(c.tool.connector.kind)
    BY <1>1, <2>1 DEF Answered, PlannedUsage
  <2>3. attached.name = c.action.name
    BY <2>1, CallsAssumption DEF Answered, CallsAssumption, AttachSecrets
  <2>4. c.outcome \in ExecuteTool(c.tool, attached)
    BY <2>1 DEF Answered
  <2>5. Given(attached, "query") => attached.parameters.query = c.action.parameters.query
    <3>1. c.action \in Call
      BY <2>1 DEF Answered
    <3> QED
      BY <3>1, GivenIsUnchanged
  <2> HIDE DEF attached
  <2>6. Contract(c.tool.connector.kind, attached, c.tool.connector.engine, c.outcome)
    BY <1>1, <2>2, <2>3, <2>4, TemplateContract
  <2> QED
    BY <2>2, <2>3, <2>5, <2>6 DEF Contract
<1>2. Trail => TemplatesAreServed
  BY <1>1 DEF TemplatesAreServed
<1> QED
  BY <1>2, TrailHolds, PTL
=============================================================================
