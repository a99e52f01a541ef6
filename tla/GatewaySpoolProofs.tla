------------------------- MODULE GatewaySpoolProofs -------------------------
(***************************************************************************)
(* Proofs about `gateway call` and `gateway spool process` for any number  *)
(* of commands at work on one request, and an agent that rewrites it, and  *)
(* reaches for the response, at any time.                                  *)
(***************************************************************************)
EXTENDS GatewaySpool, TLAPS

Place == {"read", "execute", "finish", "check", "create", "write", "finalise", "report",
          "ok", "refused", "stopped"}

File == [by : Commands \cup {"nobody", "agent"},
         state : SpoolState \cup {"none", "torn", "foreign"}]

Types ==
  /\ request \in Content \cup {"absent", "torn"}
  /\ pc \in [Commands -> Place]
  /\ answer \in [Commands -> SpoolState \cup {"none"}]
  /\ outcome \in [Commands -> PossibleOutcomes \cup {NoOutcome}]
  /\ response \in File
  /\ edits \in Nat /\ removed \in BOOLEAN /\ (removed => edits > 0)

\* The response file has one creator, who alone fills it, unless the agent took it away;
\* and it says what that processor wrote, unless the agent touched it.
Holds(c, says) == (removed \/ response.by = c) /\ (edits = 0 => response.state = says)

HeldBy(c) ==
  /\ pc[c] = "write" =>
       Holds(c, "torn") /\ (response.by = c => response.state \in {"torn", "foreign"})
  /\ pc[c] = "finalise" /\ c \in Processors => Holds(c, answer[c])

Response ==
  /\ response.state = "none" <=> response.by = "nobody"
  /\ \A c \in Commands : HeldBy(c)

\* The lines of a command.
Lines(c) == {l \in log : l.by = c}

\* What a command has settled on: what became of its execution, or what the request
\* says that is not executed.
Executed(c) ==
  /\ Lines(c) = {Finish(c)} /\ answer[c] = ResponseState(outcome[c].error)
  /\ outcome[c] \in PossibleOutcomes
  /\ outcome[c].effect => c \in acted

Unexecuted(c) ==
  /\ c \in Processors /\ Lines(c) = {}
  /\ answer[c] \in {"Cancelled", "TimedOut", "MalformedRequest"}

\* A status stands on what the command recorded and did, and a processor's status on
\* its response too.
Backed(c, s) ==
  /\ \A l \in Lines(c) : l.kind = "finished" => s = ExecutionStatus(l.val)
  /\ s \in {"Succeeded", "Denied"} => \E l \in Lines(c) : l.kind = "finished"
  /\ s = "Succeeded" => c \in acted

Answered(c, s) ==
  c \in Processors =>
    /\ removed \/ response.by = c
    /\ edits = 0 => response.state \in SpoolState /\ SpoolStatus(response.state) = s

Course(c) ==
  /\ pc[c] \in {"read", "check", "create", "write"} => c \in Processors
  /\ pc[c] \in {"read", "execute", "finish"} => Lines(c) = {}
  /\ pc[c] = "finish" => outcome[c] \in PossibleOutcomes /\ (outcome[c].effect => c \in acted)
  /\ pc[c] \in {"check", "create", "write", "finalise"} => Executed(c) \/ Unexecuted(c)
  /\ \A l \in Lines(c) :
       l.kind = "status" =>
         pc[c] \in {"report", "ok", "stopped"} /\ Backed(c, l.val) /\ Answered(c, l.val)

Inv == Types /\ Response /\ \A c \in Commands : Course(c)

-----------------------------------------------------------------------------

\* What an execution may have ended with is answered, and recorded, alike.
LEMMA AnswersAgree ==
  ASSUME NEW o \in PossibleOutcomes
  PROVE  /\ ResponseState(o.error) \in SpoolState
         /\ SpoolStatus(ResponseState(o.error)) = ExecutionStatus(o.error)
         /\ ExecutionStatus(o.error) = "Succeeded" => o.effect
<1>1. o.error \in ErrorKind \cup {"none"} /\ (o.error = "none" => o.effect)
  BY DEF PossibleOutcomes, ErrorKind, AdapterErrors, Refusals
<1>2. CASE o.error = "none"
  <2>1. /\ o.error \notin Refusals \cup {"BudgetExceeded"}
        /\ o.error \notin {"UnsupportedProtocol", "UnsupportedTool"}
    BY <1>2 DEF Refusals
  <2>2. ResponseState(o.error) = "Succeeded" /\ ExecutionStatus(o.error) = "Succeeded"
    BY <1>2, <2>1, Zenon DEF ResponseState, ExecutionStatus
  <2> QED BY <1>1, <1>2, <2>2 DEF SpoolState, SpoolStatus
<1>3. CASE o.error \in Refusals \cup {"BudgetExceeded"}
  <2>1. o.error # "none" /\ o.error \notin {"UnsupportedProtocol", "UnsupportedTool"}
    BY <1>3 DEF Refusals
  <2>2. ResponseState(o.error) = "Denied" /\ ExecutionStatus(o.error) = "Denied"
    BY <1>3, <2>1, Zenon DEF ResponseState, ExecutionStatus
  <2> QED BY <2>2 DEF SpoolState, SpoolStatus
<1>4. CASE o.error \in {"UnsupportedProtocol", "UnsupportedTool"}
  <2>1. o.error # "none" /\ o.error \notin Refusals \cup {"BudgetExceeded"}
    BY <1>4 DEF Refusals
  <2>2. ResponseState(o.error) = "UnsupportedAction" /\ ExecutionStatus(o.error) = "Failed"
    BY <1>4, <2>1, Zenon DEF ResponseState, ExecutionStatus
  <2> QED BY <2>2 DEF SpoolState, SpoolStatus
<1>5. CASE o.error \notin Refusals \cup {"BudgetExceeded", "UnsupportedProtocol",
                                         "UnsupportedTool", "none"}
  <2>1. ResponseState(o.error) = "Failed" /\ ExecutionStatus(o.error) = "Failed"
    BY <1>5, Zenon DEF ResponseState, ExecutionStatus
  <2> QED BY <2>1 DEF SpoolState, SpoolStatus
<1> QED BY <1>2, <1>3, <1>4, <1>5

LEMMA ShortcutIs ==
  ASSUME NEW content \in Content \cup {"absent", "torn"}, content # "call"
  PROVE  Shortcut(content) \in {"Cancelled", "TimedOut", "MalformedRequest"}
<1>1. content \in {"cancel", "expired", "malformed", "absent", "torn"}
  BY DEF Content
<1>2. CASE content = "cancel"
  <2>1. Shortcut("cancel") = "Cancelled"
    BY Zenon DEF Shortcut, Unreadable
  <2> QED BY <1>2, <2>1
<1>3. CASE content = "expired"
  <2>1. Shortcut("expired") = "TimedOut"
    BY Zenon DEF Shortcut, Unreadable
  <2> QED BY <1>3, <2>1
<1>4. CASE content \in Unreadable
  <2>1. content # "cancel" /\ content # "expired"
    BY <1>4 DEF Unreadable
  <2>2. Shortcut(content) = "MalformedRequest"
    BY <1>4, <2>1, Zenon DEF Shortcut
  <2> QED BY <2>2
<1> QED BY <1>1, <1>2, <1>3, <1>4 DEF Unreadable

LEMMA LinesAre ==
  ASSUME NEW c, NEW s
  PROVE  /\ Status(c, s).by = c /\ Status(c, s).kind = "status" /\ Status(c, s).val = s
         /\ Finish(c).by = c /\ Finish(c).kind = "finished" /\ Finish(c).val = outcome[c].error
         /\ Status(c, s) \in log => Status(c, s) \in Lines(c)
BY DEF Status, Finish, Lines

\* Whatever befalls the response of a command that takes no step is the agent's doing.
Spared(c) ==
  /\ removed' \/ (~removed /\ (response.by = c => response'.by = c))
  /\ edits' = 0 => edits = 0 /\ (response.by = c => response' = response)
  /\ response'.by = c => response.by = c /\ response'.state \in {response.state, "foreign"}

\* A step of one command, or of the agent, leaves what another has settled.
LEMMA OthersKeep ==
  ASSUME Inv, NEW c \in Commands, Course(c), Spared(c),
         UNCHANGED <<pc[c], answer[c], outcome[c], Lines(c)>>, acted \subseteq acted'
  PROVE  Course(c)'
<1>1. Finish(c)' = Finish(c)
  BY DEF Finish
<1>2. (Executed(c) => Executed(c)') /\ (Unexecuted(c) => Unexecuted(c)')
  BY <1>1 DEF Executed, Unexecuted
<1>3. \A s : Backed(c, s) => Backed(c, s)'
  BY DEF Backed
<1>4. edits' = 0 => ~removed
  BY DEF Spared, Inv, Types
<1>5. \A s : Answered(c, s) => Answered(c, s)'
  BY <1>4 DEF Answered, Spared
<1> QED BY <1>2, <1>3, <1>5 DEF Course

LEMMA OthersHold ==
  ASSUME Inv, NEW c \in Commands, HeldBy(c), Spared(c), UNCHANGED <<pc[c], answer[c]>>
  PROVE  HeldBy(c)'
<1>1. edits' = 0 => ~removed
  BY DEF Spared, Inv, Types
<1>2. \A s : Holds(c, s) => (removed' \/ response'.by = c) /\ (edits' = 0 => response'.state = s)
  BY <1>1 DEF Holds, Spared
<1>3. pc'[c] = "write" => Holds(c, "torn")'
  BY <1>2 DEF HeldBy, Holds
<1>4. pc'[c] = "finalise" /\ c \in Processors => Holds(c, answer[c])'
  BY <1>2 DEF HeldBy, Holds
<1> QED BY <1>3, <1>4 DEF HeldBy, Spared

LEMMA Initially == Init => Inv
<1> SUFFICES ASSUME Init PROVE Inv
  OBVIOUS
<1>1. Types
  BY DEF Init, Types, File, NoResponse, Place, Content, NoOutcome, SpoolState
<1>2. Response
  BY CommandsAssumption DEF Init, Response, HeldBy, Holds, NoResponse, Commands
<1>3. ASSUME NEW c \in Commands PROVE Course(c)
  BY DEF Init, Course, Lines, Commands
<1> QED BY <1>1, <1>2, <1>3 DEF Inv

-----------------------------------------------------------------------------

\* A step of one command: what the others have settled stands, and it remains to see
\* what becomes of the command itself.
LEMMA OwnStep ==
  ASSUME Inv, NEW c \in Commands, Types',
         \A o \in Commands \ {c} :
           pc'[o] = pc[o] /\ answer'[o] = answer[o] /\ outcome'[o] = outcome[o],
         acted \subseteq acted', \A l : l \in log' => l \in log \/ l.by = c, log \subseteq log',
         UNCHANGED <<edits, removed>>,
         \A o \in Commands \ {c} : response'.by = o \/ response.by = o => response' = response,
         (response.state = "none" <=> response.by = "nobody")', HeldBy(c)', Course(c)'
  PROVE  Inv'
<1>1. ASSUME NEW o \in Commands \ {c} PROVE Spared(o)
  BY DEF Spared, Inv, Types
<1>2. ASSUME NEW o \in Commands \ {c} PROVE Course(o)'
  <2>1. Lines(o)' = Lines(o)
    BY DEF Lines
  <2> QED BY <1>1, <2>1, OthersKeep DEF Inv
<1>3. ASSUME NEW o \in Commands \ {c} PROVE HeldBy(o)'
  BY <1>1, OthersHold DEF Inv, Response
<1> QED BY <1>2, <1>3 DEF Inv, Response

LEMMA GotoFrame ==
  ASSUME Types, NEW c \in Commands, NEW from, NEW to \in Place, Goto(c, from, to)
  PROVE  /\ pc[c] = from /\ pc'[c] = to /\ pc' \in [Commands -> Place]
         /\ \A o \in Commands \ {c} : pc'[o] = pc[o]
BY DEF Goto, Types

\* A command that comes to its end keeps what it has told.
LEMMA EndInv ==
  ASSUME Inv, NEW c \in Commands, NEW from, NEW to \in {"ok", "refused", "stopped"},
         Goto(c, from, to), Forget(c), UNCHANGED <<request, edits, removed, response, log>>,
         acted' \in {acted, acted \cup {c}},
         to = "refused" => from \in {"check", "create"}
  PROVE  Inv'
<1>1. /\ pc[c] = from /\ pc'[c] = to /\ pc' \in [Commands -> Place]
      /\ \A o \in Commands \ {c} : pc'[o] = pc[o]
  BY GotoFrame DEF Inv, Place
<1>2. Types' /\ \A o \in Commands \ {c} : answer'[o] = answer[o] /\ outcome'[o] = outcome[o]
  BY <1>1 DEF Forget, Inv, Types
<1>3. Course(c)'
  <2>1. Lines(c)' = Lines(c) /\ Course(c)
    BY DEF Lines, Inv
  <2>2. \A s : Backed(c, s) => Backed(c, s)'
    BY <2>1 DEF Backed
  <2>3. \A s : Answered(c, s) => Answered(c, s)'
    BY DEF Answered
  <2>4. CASE to = "refused"
    <3>1. \A l \in Lines(c) : l.kind # "status"
      BY <1>1, <2>1, <2>4 DEF Course
    <3> QED BY <1>1, <2>1, <2>4, <3>1 DEF Course
  <2>5. CASE to # "refused"
    <3>1. pc'[c] \in {"ok", "stopped"}
      BY <1>1, <2>5
    <3> QED BY <2>1, <2>2, <2>3, <3>1 DEF Course
  <2> QED BY <2>4, <2>5
<1>4. HeldBy(c)' /\ (response.state = "none" <=> response.by = "nobody")'
  BY <1>1 DEF HeldBy, Holds, Inv, Response
<1> QED BY <1>1, <1>2, <1>3, <1>4, OwnStep

LEMMA AgentInv ==
  ASSUME Inv, OpenRequest \/ WriteRequest \/ TouchResponse
  PROVE  Inv'
<1>1. UNCHANGED <<pc, answer, outcome, acted, log>>
  BY DEF OpenRequest, WriteRequest, TouchResponse, memory
<1>2. CASE OpenRequest \/ WriteRequest
  <2>1. UNCHANGED <<edits, removed, response>>
    BY <1>2 DEF OpenRequest, WriteRequest
  <2>2. Types' /\ (response.state = "none" <=> response.by = "nobody")'
    BY <1>1, <1>2, <2>1 DEF OpenRequest, WriteRequest, Inv, Types, Content, Response
  <2>3. ASSUME NEW c \in Commands PROVE Spared(c)
    BY <2>1 DEF Spared, Inv, Types
  <2> QED BY <1>1, <2>2, <2>3, OthersKeep, OthersHold DEF Inv, Response, Lines
<1>3. CASE TouchResponse
  <2>1. /\ edits' = edits + 1 /\ UNCHANGED <<request, writes>>
        /\ \/ response # NoResponse /\ response' = NoResponse /\ removed' = TRUE
           \/ /\ response' = [by |-> "agent", state |-> "foreign"]
              /\ removed' = (removed \/ response # NoResponse)
           \/ /\ response # NoResponse /\ response' = [response EXCEPT !.state = "foreign"]
              /\ UNCHANGED removed
    BY <1>3 DEF TouchResponse
  <2>2. edits' \in Nat /\ edits' > 0 /\ response \in File /\ removed \in BOOLEAN
        /\ (response.state = "none" <=> response.by = "nobody")
        /\ "nobody" \notin Commands /\ "agent" \notin Commands
    BY <2>1, CommandsAssumption DEF Inv, Types, Response
  <2>3. response' \in File /\ (response.state = "none" <=> response.by = "nobody")'
    BY <2>1, <2>2 DEF File, NoResponse
  <2>4. response = NoResponse <=> response.by = "nobody"
    BY <2>2 DEF File, NoResponse
  <2>5. ASSUME NEW c \in Commands PROVE Spared(c)
    <3>1. edits' # 0 /\ c # "nobody" /\ c # "agent"
      BY <2>2
    <3>2. CASE response # NoResponse /\ response' = NoResponse /\ removed' = TRUE
      BY <3>1, <3>2 DEF Spared, NoResponse
    <3>3. CASE /\ response' = [by |-> "agent", state |-> "foreign"]
               /\ removed' = (removed \/ response # NoResponse)
      <4>1. response'.by # c /\ (~removed' => ~removed /\ response.by # c)
        BY <2>4, <3>1, <3>3
      <4> QED BY <2>2, <3>1, <4>1 DEF Spared
    <3>4. CASE /\ response # NoResponse /\ response' = [response EXCEPT !.state = "foreign"]
               /\ UNCHANGED removed
      <4>1. response'.by = response.by /\ response'.state = "foreign"
        BY <2>2, <3>4 DEF File
      <4> QED BY <2>2, <3>1, <3>4, <4>1 DEF Spared
    <3> QED BY <2>1, <3>2, <3>3, <3>4
  <2>6. Types'
    BY <1>1, <2>1, <2>2, <2>3 DEF Inv, Types
  <2> QED BY <1>1, <2>3, <2>5, <2>6, OthersKeep, OthersHold DEF Inv, Response, Lines
<1> QED BY <1>2, <1>3

LEMMA ReadRequestInv ==
  ASSUME Inv, NEW c \in Commands, ReadRequest(c)
  PROVE  Inv'
<1>1. UNCHANGED <<request, edits, removed, response, outcome, acted, log>> /\ Lines(c)' = Lines(c)
  BY DEF ReadRequest, agentVars, Lines
<1>2. CASE request = "call"
  <2>1. Goto(c, "read", "execute") /\ UNCHANGED answer
    BY <1>2 DEF ReadRequest
  <2>2. /\ pc[c] = "read" /\ pc'[c] = "execute" /\ pc' \in [Commands -> Place]
        /\ \A o \in Commands \ {c} : pc'[o] = pc[o]
    BY <2>1, GotoFrame DEF Inv, Place
  <2>3. Types'
    BY <1>1, <2>1, <2>2 DEF Inv, Types
  <2>4. Course(c)'
    BY <1>1, <2>2 DEF Inv, Course
  <2>5. HeldBy(c)' /\ (response.state = "none" <=> response.by = "nobody")'
    BY <1>1, <2>2 DEF HeldBy, Holds, Inv, Response
  <2> QED BY <1>1, <2>1, <2>2, <2>3, <2>4, <2>5, OwnStep
<1>3. CASE request # "call"
  <2>1. Goto(c, "read", "check") /\ answer' = [answer EXCEPT ![c] = Shortcut(request)]
    BY <1>3 DEF ReadRequest
  <2>2. /\ pc[c] = "read" /\ pc'[c] = "check" /\ pc' \in [Commands -> Place]
        /\ \A o \in Commands \ {c} : pc'[o] = pc[o]
    BY <2>1, GotoFrame DEF Inv, Place
  <2>3. Shortcut(request) \in {"Cancelled", "TimedOut", "MalformedRequest"}
    BY <1>3, ShortcutIs DEF Inv, Types
  <2>4. /\ answer'[c] \in {"Cancelled", "TimedOut", "MalformedRequest"} /\ Types'
        /\ \A o \in Commands \ {c} : answer'[o] = answer[o]
    BY <1>1, <2>1, <2>2, <2>3 DEF Inv, Types, SpoolState
  <2>5. c \in Processors /\ Lines(c) = {}
    BY <2>2 DEF Inv, Course
  <2>6. Course(c)'
    BY <1>1, <2>2, <2>4, <2>5 DEF Course, Unexecuted
  <2>7. HeldBy(c)' /\ (response.state = "none" <=> response.by = "nobody")'
    BY <1>1, <2>2 DEF HeldBy, Holds, Inv, Response
  <2> QED BY <1>1, <2>2, <2>4, <2>6, <2>7, OwnStep
<1> QED BY <1>2, <1>3

LEMMA ExecuteInv ==
  ASSUME Inv, NEW c \in Commands, Execute(c)
  PROVE  Inv'
<1>1. PICK o \in Outcomes :
        /\ outcome' = [outcome EXCEPT ![c] = o]
        /\ acted' = IF o.effect THEN acted \cup {c} ELSE acted
  BY DEF Execute
<1>2. UNCHANGED <<request, edits, removed, response, answer, log>> /\ Lines(c)' = Lines(c)
  BY DEF Execute, agentVars, Lines
<1>3. /\ pc[c] = "execute" /\ pc'[c] = "finish" /\ pc' \in [Commands -> Place]
      /\ \A d \in Commands \ {c} : pc'[d] = pc[d]
  BY GotoFrame DEF Execute, Inv, Place
<1>o. o \in PossibleOutcomes
  BY OutcomesAssumption
<1>4. Types' /\ outcome'[c] = o /\ \A d \in Commands \ {c} : outcome'[d] = outcome[d]
  BY <1>1, <1>o, <1>2, <1>3 DEF Inv, Types
<1>5. acted \subseteq acted' /\ (o.effect => c \in acted')
  BY <1>1
<1>6. Lines(c) = {}
  BY <1>3 DEF Inv, Course
<1>7. Course(c)'
  BY <1>o, <1>2, <1>3, <1>4, <1>5, <1>6 DEF Course
<1>8. HeldBy(c)' /\ (response.state = "none" <=> response.by = "nobody")'
  BY <1>2, <1>3 DEF HeldBy, Holds, Inv, Response
<1> QED BY <1>2, <1>3, <1>4, <1>5, <1>7, <1>8, OwnStep

LEMMA RecordFinishedInv ==
  ASSUME Inv, NEW c \in Commands, RecordFinished(c)
  PROVE  Inv'
<1> DEFINE to == IF c \in Processors THEN "check" ELSE "finalise"
<1>1. /\ UNCHANGED <<request, edits, removed, response, outcome, acted>> /\ log' = log \cup {Finish(c)}
      /\ answer' = [answer EXCEPT ![c] = ResponseState(outcome[c].error)]
      /\ Goto(c, "finish", to)
  BY DEF RecordFinished, agentVars
<1>2. to \in {"check", "finalise"} /\ (to = "check" => c \in Processors)
      /\ (to = "finalise" => c \notin Processors)
  OBVIOUS
<1> HIDE DEF to
<1>3. /\ pc[c] = "finish" /\ pc'[c] = to /\ pc' \in [Commands -> Place]
      /\ \A o \in Commands \ {c} : pc'[o] = pc[o]
  BY <1>1, <1>2, GotoFrame DEF Inv, Place
<1>4. /\ Lines(c) = {} /\ outcome[c] \in PossibleOutcomes
      /\ outcome[c].effect => c \in acted
  BY <1>3 DEF Inv, Course
<1>5. /\ Types' /\ answer'[c] = ResponseState(outcome[c].error)
      /\ \A o \in Commands \ {c} : answer'[o] = answer[o]
  BY <1>1, <1>3, <1>4, AnswersAgree DEF Inv, Types
<1>6. Finish(c)' = Finish(c) /\ Finish(c).by = c /\ Finish(c).kind = "finished"
  BY <1>1, LinesAre DEF Finish
<1>7. Lines(c)' = {Finish(c)}
  BY <1>1, <1>4, <1>6 DEF Lines
<1>8. Executed(c)'
  BY <1>1, <1>4, <1>5, <1>6, <1>7 DEF Executed
<1>9. Course(c)'
  BY <1>2, <1>3, <1>6, <1>7, <1>8 DEF Course
<1>10. HeldBy(c)' /\ (response.state = "none" <=> response.by = "nobody")'
  BY <1>1, <1>2, <1>3 DEF HeldBy, Holds, Inv, Response
<1> QED BY <1>1, <1>3, <1>5, <1>6, <1>9, <1>10, OwnStep

LEMMA CheckResponseInv ==
  ASSUME Inv, NEW c \in Commands, CheckResponse(c)
  PROVE  Inv'
<1>1. UNCHANGED <<request, edits, removed, response, acted, log>> /\ Lines(c)' = Lines(c)
  BY DEF CheckResponse, agentVars, Lines
<1>2. CASE Goto(c, "check", "create") /\ UNCHANGED memory
  <2>1. UNCHANGED <<answer, outcome>>
    BY <1>2 DEF memory
  <2>2. /\ pc[c] = "check" /\ pc'[c] = "create" /\ pc' \in [Commands -> Place]
        /\ \A o \in Commands \ {c} : pc'[o] = pc[o]
    BY <1>2, GotoFrame DEF Inv, Place
  <2>3. Types'
    BY <1>1, <2>1, <2>2 DEF Inv, Types
  <2>4. Course(c)'
    BY <1>1, <2>1, <2>2 DEF Inv, Course, Executed, Unexecuted, Finish
  <2>5. HeldBy(c)' /\ (response.state = "none" <=> response.by = "nobody")'
    BY <1>1, <2>2 DEF HeldBy, Holds, Inv, Response
  <2> QED BY <1>1, <2>1, <2>2, <2>3, <2>4, <2>5, OwnStep
<1>3. CASE Refuse(c, "check")
  BY <1>1, <1>3, EndInv DEF Refuse
<1> QED BY <1>2, <1>3 DEF CheckResponse

LEMMA CreateResponseInv ==
  ASSUME Inv, NEW c \in Commands, CreateResponse(c)
  PROVE  Inv'
<1>1. UNCHANGED <<request, edits, removed, acted, log>> /\ Lines(c)' = Lines(c)
  BY DEF CreateResponse, agentVars, Lines
<1>2. CASE /\ response.state = "none" /\ Goto(c, "create", "write")
           /\ response' = [by |-> c, state |-> "torn"] /\ UNCHANGED memory
  <2>1. /\ UNCHANGED <<answer, outcome>> /\ response'.by = c /\ response'.state = "torn"
        /\ response' \in File
        /\ response.by = "nobody" /\ c # "nobody" /\ "nobody" \notin Commands
    BY <1>2, CommandsAssumption DEF memory, Inv, Response, File
  <2>2. /\ pc[c] = "create" /\ pc'[c] = "write" /\ pc' \in [Commands -> Place]
        /\ \A o \in Commands \ {c} : pc'[o] = pc[o]
    BY <1>2, GotoFrame DEF Inv, Place
  <2>3. Types'
    BY <1>1, <2>1, <2>2 DEF Inv, Types
  <2>4. Course(c)'
    BY <1>1, <2>1, <2>2 DEF Inv, Course, Executed, Unexecuted, Finish
  <2>5. HeldBy(c)' /\ (response.state = "none" <=> response.by = "nobody")'
    BY <2>1, <2>2 DEF HeldBy, Holds
  <2> QED BY <1>1, <2>1, <2>2, <2>3, <2>4, <2>5, OwnStep
<1>3. CASE Refuse(c, "create") /\ UNCHANGED response
  BY <1>1, <1>3, EndInv DEF Refuse
<1> QED BY <1>2, <1>3 DEF CreateResponse

\* The file is filled by its creator, before anything else is read from it.
LEMMA Filled ==
  ASSUME Inv, NEW c \in Commands, WriteResponse(c)
  PROVE  /\ c \in Processors /\ answer[c] \in SpoolState /\ Holds(c, "torn")
         /\ response.by = c \/ response' = response
         /\ response.by = c => /\ response.state \in {"torn", "foreign"}
                               /\ response' = [by |-> c, state |-> response'.state]
                               /\ response'.state \in {answer[c]} \cup ({"foreign"} \cap {response.state})
<1>1. /\ pc[c] = "write"
      /\ response' \in
           IF response.by # c THEN {response}
           ELSE {[by |-> c, state |-> s] :
                   s \in {answer[c]} \cup ({"foreign"} \cap {response.state})}
  BY DEF WriteResponse, Goto
<1>2. c \in Processors /\ (Executed(c) \/ Unexecuted(c))
  BY <1>1 DEF Inv, Course
<1>3. answer[c] \in SpoolState
  BY <1>2, AnswersAgree DEF Executed, Unexecuted, SpoolState
<1>4. Holds(c, "torn") /\ (response.by = c => response.state \in {"torn", "foreign"})
  BY <1>1 DEF Inv, Response, HeldBy
<1>5. CASE response.by = c
  <2>1. PICK s \in {answer[c]} \cup ({"foreign"} \cap {response.state}) :
          response' = [by |-> c, state |-> s]
    BY <1>1, <1>5
  <2> QED BY <1>2, <1>3, <1>4, <1>5, <2>1
<1>6. CASE response.by # c
  BY <1>1, <1>2, <1>3, <1>4, <1>6
<1> QED BY <1>5, <1>6

LEMMA WriteResponseInv ==
  ASSUME Inv, NEW c \in Commands, WriteResponse(c)
  PROVE  Inv'
<1>1. /\ UNCHANGED <<request, edits, removed, answer, outcome, acted, log>> /\ Lines(c)' = Lines(c)
      /\ Goto(c, "write", "finalise")
  BY DEF WriteResponse, agentVars, Lines, memory
<1>2. /\ pc[c] = "write" /\ pc'[c] = "finalise" /\ pc' \in [Commands -> Place]
      /\ \A o \in Commands \ {c} : pc'[o] = pc[o]
  BY <1>1, GotoFrame DEF Inv, Place
<1>3. /\ response' \in File /\ (response.state = "none" <=> response.by = "nobody")'
      /\ Holds(c, answer[c])'
  <2>1. response \in File /\ (response.state = "none" <=> response.by = "nobody")
        /\ c # "nobody" /\ answer[c] \in SpoolState /\ answer'[c] = answer[c]
        /\ "none" \notin SpoolState
    BY <1>1, Filled, CommandsAssumption DEF Inv, Types, Response, SpoolState
  <2>2. CASE response.by = c
    BY <1>1, <2>1, <2>2, Filled DEF File, Holds
  <2>3. CASE response.by # c
    BY <1>1, <2>1, <2>3, Filled DEF Holds, Inv, Types
  <2> QED BY <2>2, <2>3
<1>4. Types'
  BY <1>1, <1>2, <1>3 DEF Inv, Types
<1>5. Course(c)'
  BY <1>1, <1>2 DEF Inv, Course, Executed, Unexecuted, Finish
<1>6. HeldBy(c)'
  BY <1>1, <1>2, <1>3 DEF HeldBy
<1>7. \A o \in Commands \ {c} : response'.by = o \/ response.by = o => response' = response
  BY Filled
<1> QED BY <1>1, <1>2, <1>3, <1>4, <1>5, <1>6, <1>7, OwnStep

LEMMA FinaliseInv ==
  ASSUME Inv, NEW c \in Commands, Finalise(c)
  PROVE  Inv'
<1>s. PICK s : s = FinalStatus(c)
  OBVIOUS
<1>1. /\ UNCHANGED <<request, edits, removed, response, answer, outcome, acted>>
      /\ Goto(c, "finalise", "report") /\ log' = log \cup {Status(c, s)}
  BY <1>s DEF Finalise, agentVars, memory
<1>2. /\ pc[c] = "finalise" /\ pc'[c] = "report" /\ pc' \in [Commands -> Place]
      /\ \A o \in Commands \ {c} : pc'[o] = pc[o]
  BY <1>1, GotoFrame DEF Inv, Place
<1>3. Executed(c) \/ Unexecuted(c)
  BY <1>2 DEF Inv, Course
<1>4. Executed(c) => s = ExecutionStatus(outcome[c].error)
  BY <1>s, AnswersAgree DEF Executed, FinalStatus
<1>5. Unexecuted(c) => s \in {"Cancelled", "TimedOut", "Failed"}
  BY <1>s DEF Unexecuted, FinalStatus, SpoolStatus
<1>6. Lines(c)' = Lines(c) \cup {Status(c, s)}
  BY <1>1, LinesAre DEF Lines
<1>7. \A l \in Lines(c) : l.kind = "finished" /\ l = Finish(c)
  BY <1>3, LinesAre DEF Executed, Unexecuted
<1>8. Backed(c, s)'
  <2>1. CASE Executed(c)
    <3>1. Finish(c) \in Lines(c)' /\ Finish(c).kind = "finished"
      BY <1>6, <2>1, LinesAre DEF Executed
    <3>2. s = "Succeeded" => c \in acted'
      BY <1>1, <1>4, <2>1, AnswersAgree DEF Executed
    <3>3. \A l \in Lines(c)' : l.kind = "finished" => l.val = outcome[c].error
      BY <1>6, <1>7, LinesAre
    <3> QED BY <1>4, <2>1, <3>1, <3>2, <3>3 DEF Backed
  <2>2. CASE Unexecuted(c)
    <3>1. \A l \in Lines(c)' : l.kind = "status"
      BY <1>6, <2>2, LinesAre DEF Unexecuted
    <3> QED BY <1>5, <2>2, <3>1 DEF Backed
  <2> QED BY <1>3, <2>1, <2>2
<1>9. Answered(c, s)'
  <2> SUFFICES ASSUME c \in Processors
               PROVE  ((removed \/ response.by = c)
                         /\ (edits = 0 => response.state \in SpoolState
                                            /\ SpoolStatus(response.state) = s))'
    BY DEF Answered
  <2>1. Holds(c, answer[c])
    BY <1>2 DEF Inv, Response, HeldBy
  <2>2. s = SpoolStatus(answer[c])
    BY <1>s DEF FinalStatus
  <2>3. answer[c] \in SpoolState
    BY <1>3, AnswersAgree DEF Executed, Unexecuted, SpoolState
  <2> QED BY <1>1, <2>1, <2>2, <2>3 DEF Holds
<1>10. Course(c)'
  BY <1>2, <1>6, <1>7, <1>8, <1>9, LinesAre DEF Course
<1>11. Types'
  BY <1>1, <1>2 DEF Inv, Types
<1>12. HeldBy(c)' /\ (response.state = "none" <=> response.by = "nobody")'
  BY <1>1, <1>2 DEF HeldBy, Holds, Inv, Response
<1> QED BY <1>1, <1>2, <1>10, <1>11, <1>12, LinesAre, OwnStep

LEMMA NextInv ==
  ASSUME Inv, [Next]_vars
  PROVE  Inv'
<1>1. ASSUME NEW c \in Commands, Step(c) PROVE Inv'
  <2>1. CASE Report(c)
    BY <2>1, EndInv DEF Report, agentVars
  <2> QED BY <1>1, <2>1, ReadRequestInv, ExecuteInv, RecordFinishedInv, CheckResponseInv,
          CreateResponseInv, WriteResponseInv, FinaliseInv DEF Step
<1>2. ASSUME NEW c \in Commands, Stop(c) PROVE Inv'
  <2>1. Goto(c, pc[c], "stopped") /\ acted' \in {acted, acted \cup {c}}
    BY <1>2 DEF Stop, Goto
  <2> QED BY <1>2, <2>1, EndInv DEF Stop, agentVars
<1>3. CASE UNCHANGED vars
  <2>1. UNCHANGED <<request, edits, removed, response, pc, answer, outcome, acted, log>>
    BY <1>3 DEF vars, agentVars, memory
  <2>2. Types' /\ Response'
    BY <2>1 DEF Inv, Types, Response, HeldBy, Holds
  <2>3. ASSUME NEW c \in Commands PROVE Course(c)'
    <3>1. Spared(c)
      BY <2>1 DEF Spared, Inv, Types
    <3> QED BY <2>1, <3>1, OthersKeep DEF Inv, Lines
  <2> QED BY <2>2, <2>3 DEF Inv
<1> QED BY <1>1, <1>2, <1>3, AgentInv DEF Next, Finished

LEMMA Invariance == Spec => []Inv
BY Initially, NextInv, PTL DEF Spec

-----------------------------------------------------------------------------

\* Without the agent taking a response away at most one processor tells a status, the one
\* that created the response, and an untouched response tells that status.
THEOREM VerdictIsTheResponse == Spec => []OneVerdict
<1>1. Inv => OneVerdict
  <2> SUFFICES ASSUME Inv, NEW c \in Processors, NEW s \in Terminal, Status(c, s) \in log
               PROVE  /\ removed \/ response.by = c
                      /\ edits > 0 \/ SpoolStatus(response.state) = s
    BY DEF OneVerdict
  <2>1. Status(c, s) \in Lines(c) /\ Status(c, s).kind = "status" /\ Status(c, s).val = s
    BY LinesAre
  <2>2. Course(c) /\ edits \in Nat
    BY DEF Inv, Types, Commands
  <2>3. Answered(c, s)
    BY <2>1, <2>2 DEF Course
  <2> QED BY <2>2, <2>3 DEF Answered
<1> QED BY <1>1, Invariance, PTL

\* The status of `call` and of `spool process` alike is the one of the execution on
\* record, and a success of a connector that acted.
THEOREM StatusesHaveEvidence == Spec => []StatusMatchesEvidence
<1>1. Inv => StatusMatchesEvidence
  <2> SUFFICES ASSUME Inv, NEW c \in Commands, NEW s \in Terminal, Status(c, s) \in log
               PROVE  /\ \A l \in log : l.by = c /\ l.kind = "finished" => s = ExecutionStatus(l.val)
                      /\ s \in {"Succeeded", "Denied"} =>
                           \E l \in log : l.by = c /\ l.kind = "finished"
                      /\ s = "Succeeded" => c \in acted
    BY DEF StatusMatchesEvidence
  <2>1. Status(c, s) \in Lines(c) /\ Status(c, s).kind = "status" /\ Status(c, s).val = s
    BY LinesAre
  <2>2. Backed(c, s)
    BY <2>1 DEF Inv, Course
  <2> QED BY <2>2 DEF Backed, Lines
<1> QED BY <1>1, Invariance, PTL

\* No command changes a response that is written in full, or the agent's file.
THEOREM ResponsesStand == Spec => ResponseStands
<1> DEFINE Settled == response.state \in SpoolState \/ response.by = "agent"
<1>1. ASSUME Inv, [Next]_vars, Settled, edits' = edits PROVE response' = response
  <2>1. ASSUME NEW c \in Commands, Step(c) \/ Stop(c) PROVE response' = response
    <3>1. response.state # "none"
      BY <1>1, CommandsAssumption DEF Inv, Response, SpoolState
    <3>2. CASE CreateResponse(c)
      BY <3>1, <3>2 DEF CreateResponse
    <3>3. CASE WriteResponse(c)
      <4>1. response.by = c => response.state \in {"torn", "foreign"} /\ c # "agent"
        BY <1>1, <3>3, Filled, CommandsAssumption
      <4> QED BY <1>1, <3>3, <4>1, Filled DEF SpoolState
    <3> QED BY <2>1, <3>2, <3>3 DEF Step, Stop, ReadRequest, Execute, RecordFinished,
            CheckResponse, Finalise, Report
  <2>2. CASE TouchResponse
    BY <1>1, <2>2 DEF TouchResponse, Inv, Types
  <2> QED BY <1>1, <2>1, <2>2 DEF Next, OpenRequest, WriteRequest, Finished, vars
<1>2. Inv /\ [Next]_vars => [Settled /\ edits' = edits => response' = response]_vars
  BY <1>1
<1> QED BY <1>2, Invariance, PTL DEF Spec, ResponseStands
=============================================================================
