-------------------------- MODULE OrchestratorProofs --------------------------
(***************************************************************************)
(* Proofs about Orchestrator::run for any number of streams, any set of    *)
(* long events and any number of runs of one task id.                      *)
(***************************************************************************)
EXTENDS Orchestrator, WellFoundedInduction, NaturalsInduction, SequenceTheorems, TLAPS

USE StreamsAssumption, FileDiffAssumption, MaxRunsAssumption

-----------------------------------------------------------------------------
(* The operators the model is built from.                                   *)

\* A line of the log is a line whatever precedes it in the writer's buffer.
LEMMA JoinType ==
  ASSUME NEW s \in Seq(Line), NEW e \in Line
  PROVE  /\ Join(s, e) \in Seq(Line)
         /\ Len(s) <= Len(Join(s, e))
<1>1. BadLine \in Line
  BY DEF BadLine, Plain, Event, Line
<1>2. CASE s # <<>> /\ s[Len(s)] = OpenLine
  <2>1. Len(s) \in 1..Len(s)
    BY <1>2
  <2>2. /\ [s EXCEPT ![Len(s)] = BadLine] \in Seq(Line)
        /\ Len([s EXCEPT ![Len(s)] = BadLine]) = Len(s)
    BY <1>1, <2>1, ExceptSeq
  <2> QED BY <1>2, <2>2 DEF Join
<1>3. CASE ~(s # <<>> /\ s[Len(s)] = OpenLine)
  BY <1>3 DEF Join
<1> QED BY <1>2, <1>3

\* A nonempty set of indexes has a last one.
LEMMA LastIndex ==
  ASSUME NEW n \in Nat, NEW at \in SUBSET (1..n), at # {}
  PROVE  \E i \in at : \A j \in at : j <= i
<1> DEFINE far == {n - i : i \in at}
<1>1. far \subseteq Nat /\ far # {}
  <2>1. \A i \in at : n - i \in Nat
    OBVIOUS
  <2>2. PICK i \in at : TRUE
    OBVIOUS
  <2>3. n - i \in far
    OBVIOUS
  <2> QED BY <2>1, <2>3
<1>2. PICK x \in far : \A y \in far : ~(<<y, x>> \in OpToRel(<, Nat))
  BY <1>1, WFMin, NatLessThanWellFounded
<1>3. \A y \in far : x <= y
  <2> SUFFICES ASSUME NEW y \in far PROVE x <= y
    OBVIOUS
  <2>1. x \in Nat /\ y \in Nat
    BY <1>1
  <2>2. ~(y < x)
    BY <1>2, <2>1, Zenon DEF OpToRel
  <2> QED BY <2>1, <2>2
<1>4. PICK i \in at : x = n - i
  OBVIOUS
<1>5. ASSUME NEW j \in at PROVE j <= i
  <2>1. n - i <= n - j
    BY <1>3, <1>4
  <2>2. i \in 1..n /\ j \in 1..n
    OBVIOUS
  <2> QED BY <2>1, <2>2
<1> QED BY <1>5

\* What a reader of a log finds last is one of its lines of that kind.
LEMMA LastType ==
  ASSUME NEW s \in Seq(Line), NEW kind
  PROVE  \/ Last(s, kind) = "none"
         \/ \E e \in Line : e.kind = kind /\ Last(s, kind) = e.val
<1>1. CASE At(s, kind) = {}
  BY <1>1 DEF Last
<1>2. CASE At(s, kind) # {}
  <2>1. At(s, kind) \in SUBSET (1..Len(s)) /\ Len(s) \in Nat
    BY DEF At
  <2>2. \E i \in At(s, kind) : \A j \in At(s, kind) : j <= i
    BY <1>2, <2>1, LastIndex
  <2> DEFINE last == CHOOSE i \in At(s, kind) : \A j \in At(s, kind) : j <= i
  <2>3. last \in At(s, kind)
    BY <2>2
  <2>4. Last(s, kind) = s[last].val
    BY <1>2 DEF Last
  <2>5. s[last] \in Line /\ s[last].kind = kind
    BY <2>3 DEF At
  <2> QED BY <2>4, <2>5
<1> QED BY <1>1, <1>2

\* What the report shows of a sequence of events.
LEMMA ReportDataType ==
  ASSUME NEW s \in Seq(Line)
  PROVE  ReportData(s) \in ReportPage
<1>1. LastStatus(s) \in TaskStatus
  <2>1. Last(s, "status") = "none" \/ \E e \in Line : e.kind = "status" /\ Last(s, "status") = e.val
    BY LastType
  <2> QED BY <2>1 DEF LastStatus, Line, TaskStatus
<1>2. Last(s, "exit") \in {"none"} \cup ExitStatus
  <2>1. Last(s, "exit") = "none" \/ \E e \in Line : e.kind = "exit" /\ Last(s, "exit") = e.val
    BY LastType
  <2> QED BY <2>1 DEF Line
<1>3. \A i \in At(s, "decision") : s[i] \in Line /\ s[i].kind = "decision"
  BY DEF At
<1>4. {s[i].val : i \in At(s, "decision")} \subseteq Decisions
  BY <1>3 DEF Line
<1>5. \A i \in At(s, "resolved") : s[i] \in Line /\ s[i].kind = "resolved"
  BY DEF At
<1>6. {s[i].val : i \in At(s, "resolved")} \subseteq Answers
  BY <1>5 DEF Line
<1>7. (At(s, "error") # {}) \in BOOLEAN
  BY Zenon
<1> HIDE DEF At
<1> QED BY <1>1, <1>2, <1>4, <1>6, <1>7 DEF ReportData, ReportPage

-----------------------------------------------------------------------------
(* Type correctness.  What a later call relies on is set by an earlier one:  *)
(* TypeOK alone does not say that the decision that is recorded was taken,   *)
(* or that there is a stream left to record.                                 *)

Located ==
  /\ pc = "decided" => decision \in Decisions
  /\ pc = "answered" => answer \in Answers
  /\ pc \in {"logs", "logArtifact", "logChunk", "logError", "exit"} => exit \in ExitStatus
  /\ pc \in {"logArtifact", "logChunk"} => logged < Streams

TypeInv == TypeOK /\ Located

LEMMA RecordEventType ==
  ASSUME TypeOK, NEW e \in Line, NEW next \in Place, NEW failed \in Place,
         RecordEvent(e, next, failed)
  PROVE  /\ pc' \in Place
         /\ lines' \in Seq(Line) /\ events' \in Seq(Line) /\ flushed' \in 0..Len(lines')
<1>1. /\ Join(lines, e) \in Seq(Line) /\ Len(lines) <= Len(Join(lines, e))
      /\ Len(Join(lines, e)) \in Nat /\ Len(lines) \in Nat
  <2>1. lines \in Seq(Line)
    BY DEF TypeOK
  <2> QED BY <2>1, JoinType
<1>2. /\ Join(lines, OpenLine) \in Seq(Line) /\ Len(lines) <= Len(Join(lines, OpenLine))
      /\ Len(Join(lines, OpenLine)) \in Nat
  <2>1. OpenLine \in Line
    BY DEF OpenLine, Plain, Event, Line
  <2> QED BY <2>1, JoinType DEF TypeOK
<1>3. CASE lines' = Join(lines, e) /\ flushed' = Len(lines') /\ events' = Append(events, e) /\ pc' = next
  BY <1>1, <1>3 DEF TypeOK
<1>4. CASE lines' \in Unflushed(lines, e) /\ UNCHANGED <<flushed, events>> /\ pc' = failed
  <2>1. lines' = Join(lines, e) \/ lines' = Join(lines, OpenLine)
    BY <1>4 DEF Unflushed
  <2> QED BY <1>1, <1>2, <1>4, <2>1 DEF TypeOK
<1> QED BY <1>3, <1>4 DEF RecordEvent

LEMMA LogType ==
  ASSUME TypeOK, NEW from, NEW e \in Line, NEW next \in Place, NEW failed \in Place,
         Log(from, e, next, failed)
  PROVE  TypeOK'
<1>1. RecordEvent(e, next, failed) /\ UNCHANGED <<run, status, port, local>>
  BY DEF Log
<1> QED BY <1>1, RecordEventType DEF TypeOK, port, local

LEMMA TransitionType ==
  ASSUME TypeOK, NEW s \in TaskStatus, NEW next \in Place, NEW failed \in Place,
         Transition(s, next, failed)
  PROVE  /\ pc' \in Place /\ status' \in TaskStatus
         /\ lines' \in Seq(Line) /\ events' \in Seq(Line) /\ flushed' \in 0..Len(lines')
<1>1. Status(s) \in Line
  BY DEF Status, Event, Line
<1>2. CASE status' = s /\ RecordEvent(Status(s), next, failed)
  BY <1>1, <1>2, RecordEventType
<1>3. CASE pc' = failed /\ UNCHANGED <<status, ledger>>
  BY <1>3 DEF TypeOK, ledger
<1> QED BY <1>2, <1>3 DEF Transition

LEMMA MoveType ==
  ASSUME TypeOK, NEW from, NEW s \in TaskStatus, NEW next \in Place, NEW failed \in Place,
         Move(from, s, next, failed)
  PROVE  TypeOK'
<1>1. Transition(s, next, failed) /\ UNCHANGED <<run, port, local>>
  BY DEF Move
<1> QED BY <1>1, TransitionType DEF TypeOK, port, local

LEMMA CallType ==
  ASSUME TypeOK, NEW from, NEW next \in Place, NEW failed \in Place,
         Call(from, next, failed)
  PROVE  TypeOK'
BY DEF Call, Goto, TypeOK, ledger, port, local

LEMMA PlainType ==
  ASSUME NEW kind \in {"created", "requested", "error", "artifact", "log", "open", "bad"}
  PROVE  Plain(kind) \in Line
BY DEF Plain, Event, Line

LEMMA RememberType ==
  ASSUME TypeOK, NEW from, NEW next \in Place, RememberFailure(from, next)
  PROVE  TypeOK'
<1>1. /\ RecordEvent(Plain("error"), next, "aborted") /\ failure' = TRUE
      /\ UNCHANGED <<run, status, port, decision, answer, logged, final>>
  BY DEF RememberFailure
<1>2. Plain("error") \in Line /\ "aborted" \in Place
  BY PlainType DEF Place, Done
<1>3. /\ pc' \in Place /\ lines' \in Seq(Line) /\ events' \in Seq(Line)
      /\ flushed' \in 0..Len(lines')
  BY <1>1, <1>2, RecordEventType
<1> QED BY <1>1, <1>3 DEF TypeOK, port

LEMMA PreRunType ==
  ASSUME TypeInv, PreRun
  PROVE  TypeInv'
<1>1. CASE Create
  <2>1. TypeOK' BY <1>1, MoveType DEF Create, TypeInv, Place, Done, TaskStatus
  <2> QED BY <1>1, <2>1 DEF Create, Move, Transition, RecordEvent, TypeInv, Located
<1>2. CASE RecordTaskCreated
  <2>1. TypeOK' BY <1>2, LogType, PlainType DEF RecordTaskCreated, TypeInv, Place, Done
  <2> QED BY <1>2, <2>1 DEF RecordTaskCreated, Log, RecordEvent, TypeInv, Located
<1>3. CASE Validate
  <2>1. TypeOK' BY <1>3, MoveType DEF Validate, TypeInv, Place, Done, TaskStatus
  <2> QED BY <1>3, <2>1 DEF Validate, Move, Transition, RecordEvent, TypeInv, Located
<1>4. CASE BuildInvocation
  <2>1. TypeOK' BY <1>4, CallType DEF BuildInvocation, TypeInv, Place, Done
  <2> QED BY <1>4, <2>1 DEF BuildInvocation, Call, Goto, TypeInv, Located
<1>5. CASE Prepare
  <2>1. TypeOK' BY <1>5, MoveType DEF Prepare, TypeInv, Place, Done, TaskStatus
  <2> QED BY <1>5, <2>1 DEF Prepare, Move, Transition, RecordEvent, TypeInv, Located
<1>6. CASE CreateTaskDir
  <2>1. TypeOK' BY <1>6, CallType DEF CreateTaskDir, TypeInv, Place, Done
  <2> QED BY <1>6, <2>1 DEF CreateTaskDir, Call, Goto, TypeInv, Located
<1>7. CASE WriteResolvedTask
  BY <1>7 DEF WriteResolvedTask, Goto, TypeInv, TypeOK, Place, Done, Located, ledger, local
<1>8. CASE EvaluatePolicy
  BY <1>8 DEF EvaluatePolicy, Goto, TypeInv, TypeOK, Place, Done, Located, ledger, port
<1>9. CASE RecordDecision
  <2>1. decision \in Decisions
    BY <1>9 DEF RecordDecision, Log, TypeInv, Located
  <2>2. Event("decision", decision) \in Line
    BY <2>1 DEF Event, Line
  <2> DEFINE next == CASE decision = "Allow" -> "baseline"
                       [] decision = "Deny"  -> "deny"
                       [] OTHER              -> "waiting"
  <2>3. next \in {"baseline", "deny", "waiting"}
    BY <2>1 DEF Decisions
  <2>4. Log("decided", Event("decision", decision), next, "preRunFailure")
    BY <1>9 DEF RecordDecision
  <2> HIDE DEF next
  <2>5. TypeOK'
    BY <2>2, <2>3, <2>4, LogType DEF TypeInv, Place, Done
  <2> QED BY <2>3, <2>4, <2>5 DEF Log, RecordEvent, TypeInv, Located
<1>10. CASE Deny
  <2>1. TypeOK' BY <1>10, MoveType DEF Deny, TypeInv, Place, Done, TaskStatus, Terminal
  <2> QED BY <1>10, <2>1 DEF Deny, Move, Transition, RecordEvent, TypeInv, Located
<1>11. CASE WaitForApproval
  <2>1. TypeOK' BY <1>11, MoveType DEF WaitForApproval, TypeInv, Place, Done, TaskStatus
  <2> QED BY <1>11, <2>1 DEF WaitForApproval, Move, Transition, RecordEvent, TypeInv, Located
<1>12. CASE RequestApproval
  <2>1. TypeOK' BY <1>12, CallType DEF RequestApproval, TypeInv, Place, Done
  <2> QED BY <1>12, <2>1 DEF RequestApproval, Call, Goto, TypeInv, Located
<1>13. CASE RecordRequested
  <2>1. TypeOK' BY <1>13, LogType, PlainType DEF RecordRequested, TypeInv, Place, Done
  <2> QED BY <1>13, <2>1 DEF RecordRequested, Log, RecordEvent, TypeInv, Located
<1>14. CASE Wait
  BY <1>14 DEF Wait, Goto, TypeInv, TypeOK, Place, Done, Located, ledger, port
<1>15. CASE RecordResolved
  <2>1. Event("resolved", answer) \in Line
    BY <1>15 DEF RecordResolved, Log, TypeInv, Located, Event, Line
  <2>2. TypeOK' BY <1>15, <2>1, LogType DEF RecordResolved, TypeInv, Place, Done
  <2> QED BY <1>15, <2>2 DEF RecordResolved, Log, RecordEvent, TypeInv, Located
<1>16. CASE FinishPreRunFailure
  <2>1. CASE Recorded(Status("Denied"))
    BY <1>16, <2>1
      DEF FinishPreRunFailure, TypeInv, TypeOK, Place, Done, Located, ledger, port, Terminal
  <2>2. CASE ~Recorded(Status("Denied"))
    <3>1. Transition("Failed", "preRunError", "aborted") /\ final' = "Failed"
      BY <1>16, <2>2 DEF FinishPreRunFailure
    <3>2. /\ pc' \in Place /\ status' \in TaskStatus
          /\ lines' \in Seq(Line) /\ events' \in Seq(Line) /\ flushed' \in 0..Len(lines')
      <4>1. "Failed" \in TaskStatus /\ "preRunError" \in Place /\ "aborted" \in Place
        BY DEF TaskStatus, Terminal, Place, Done
      <4> QED BY <3>1, <4>1, TransitionType DEF TypeInv
    <3>3. TypeOK'
      BY <1>16, <3>1, <3>2 DEF FinishPreRunFailure, TypeInv, TypeOK, Terminal, port
    <3> QED BY <3>1, <3>3 DEF Transition, RecordEvent, TypeInv, Located
  <2> QED BY <2>1, <2>2
<1>17. CASE RecordPreRunError
  <2>1. TypeOK' BY <1>17, LogType, PlainType DEF RecordPreRunError, TypeInv, Place, Done
  <2> QED BY <1>17, <2>1 DEF RecordPreRunError, Log, RecordEvent, TypeInv, Located
<1> QED
  BY <1>1, <1>2, <1>3, <1>4, <1>5, <1>6, <1>7, <1>8, <1>9, <1>10, <1>11, <1>12,
     <1>13, <1>14, <1>15, <1>16, <1>17 DEF PreRun

LEMMA AgentType ==
  ASSUME TypeInv, Agent
  PROVE  TypeInv'
<1>1. CASE CaptureBaseline
  <2>1. TypeOK' BY <1>1, CallType DEF CaptureBaseline, TypeInv, Place, Done
  <2> QED BY <1>1, <2>1 DEF CaptureBaseline, Call, Goto, TypeInv, Located
<1>2. CASE PrepareSandbox
  <2>1. TypeOK' BY <1>2, CallType DEF PrepareSandbox, TypeInv, Place, Done
  <2> QED BY <1>2, <2>1 DEF PrepareSandbox, Call, Goto, TypeInv, Located
<1>3. CASE MarkRunning
  <2>1. TypeOK' BY <1>3, MoveType DEF MarkRunning, TypeInv, Place, Done, TaskStatus
  <2> QED BY <1>3, <2>1 DEF MarkRunning, Move, Transition, RecordEvent, TypeInv, Located
<1>4. CASE StartRunner
  <2>1. /\ pc = "start" /\ pc' \in {"collect", "runError"}
        /\ sandbox' \in {sandbox, "up"} /\ leak' \in {leak, leak \cup {"start"}}
        /\ UNCHANGED <<run, status, ledger, local, exit, resolved, report>>
    BY <1>4 DEF StartRunner, Goto
  <2>2. pc' \in Place /\ sandbox' \in {"none", "up", "exited"}
    BY <2>1 DEF TypeInv, TypeOK, Place, Done
  <2>3. leak' \subseteq {"start", "stop", "exit"}
    BY <2>1 DEF TypeInv, TypeOK
  <2>4. TypeOK'
    BY <2>1, <2>2, <2>3 DEF TypeInv, TypeOK, ledger, local
  <2> QED BY <2>1, <2>4 DEF TypeInv, Located
<1>5. CASE CollectExit
  <2>1. /\ pc' \in {"logs", "stop"} /\ sandbox' \in {sandbox, "exited"}
        /\ leak' \in {leak, leak \cup {"exit"}}
        /\ exit' \in {exit} \cup ExitStatus /\ (pc' = "logs" => exit' \in ExitStatus)
        /\ UNCHANGED <<run, status, ledger, local, resolved, report>>
    BY <1>5 DEF CollectExit, Goto
  <2>2. pc' \in Place /\ sandbox' \in {"none", "up", "exited"}
    BY <2>1 DEF TypeInv, TypeOK, Place, Done
  <2>3. leak' \subseteq {"start", "stop", "exit"}
    BY <2>1 DEF TypeInv, TypeOK
  <2>4. TypeOK'
    BY <2>1, <2>2, <2>3 DEF TypeInv, TypeOK, ledger, local
  <2> QED BY <2>1, <2>4 DEF TypeInv, Located
<1>6. CASE StopRunner
  <2>1. /\ pc' = "runError" /\ sandbox' \in {sandbox, "exited"}
        /\ leak' \in {leak, leak \cup {"stop"}}
        /\ UNCHANGED <<run, status, ledger, local, exit, resolved, report>>
    BY <1>6 DEF StopRunner, Goto
  <2>2. pc' \in Place /\ sandbox' \in {"none", "up", "exited"}
    BY <2>1 DEF TypeInv, TypeOK, Place, Done
  <2>3. leak' \subseteq {"start", "stop", "exit"}
    BY <2>1 DEF TypeInv, TypeOK
  <2>4. TypeOK'
    BY <2>1, <2>2, <2>3 DEF TypeInv, TypeOK, ledger, local
  <2> QED BY <2>1, <2>4 DEF TypeInv, Located
<1>7. CASE RecordRunError
  <2>1. TypeOK' BY <1>7, LogType, PlainType DEF RecordRunError, TypeInv, Place, Done
  <2> QED BY <1>7, <2>1 DEF RecordRunError, Log, RecordEvent, TypeInv, Located
<1>8. CASE FailRun
  <2>0. /\ pc' \in Place /\ status' \in TaskStatus
        /\ lines' \in Seq(Line) /\ events' \in Seq(Line) /\ flushed' \in 0..Len(lines')
    <3>1. Transition("Failed", "lastReport", "aborted")
      BY <1>8 DEF FailRun
    <3>2. "Failed" \in TaskStatus /\ "lastReport" \in Place /\ "aborted" \in Place
      BY DEF TaskStatus, Terminal, Place, Done
    <3> QED BY <3>1, <3>2, TransitionType DEF TypeInv
  <2>1. TypeOK'
    BY <1>8, <2>0 DEF FailRun, TypeInv, TypeOK, Terminal, port
  <2> QED BY <1>8, <2>1 DEF FailRun, Transition, RecordEvent, TypeInv, Located
<1> QED BY <1>1, <1>2, <1>3, <1>4, <1>5, <1>6, <1>7, <1>8 DEF Agent

LEMMA EvidenceType ==
  ASSUME TypeInv, Evidence
  PROVE  TypeInv'
<1>1. CASE WriteLog
  <2>1. TypeOK' BY <1>1, CallType DEF WriteLog, TypeInv, Place, Done
  <2> QED BY <1>1, <2>1 DEF WriteLog, Call, Goto, TypeInv, Located, port, local
<1>2. CASE RecordLogArtifact
  <2>1. TypeOK' BY <1>2, LogType, PlainType DEF RecordLogArtifact, TypeInv, Place, Done
  <2> QED BY <1>2, <2>1 DEF RecordLogArtifact, Log, RecordEvent, TypeInv, Located, port, local
<1>3. CASE RecordLogChunk
  <2>1. logged + 1 \in 0..Streams /\ exit \in ExitStatus
    BY <1>3 DEF RecordLogChunk, TypeInv, TypeOK, Place, Done, Located
  <2>2. TypeOK'
    <3>1. /\ RecordEvent(Plain("log"), "logs", "logError") /\ logged' = logged + 1
          /\ UNCHANGED <<run, status, port, decision, answer, failure, final>>
      BY <1>3 DEF RecordLogChunk
    <3>2. Plain("log") \in Line /\ "logs" \in Place /\ "logError" \in Place
      BY PlainType DEF Place, Done
    <3>3. /\ pc' \in Place /\ lines' \in Seq(Line) /\ events' \in Seq(Line)
          /\ flushed' \in 0..Len(lines')
      BY <3>1, <3>2, RecordEventType DEF TypeInv
    <3> QED BY <2>1, <3>1, <3>3 DEF TypeInv, TypeOK, port
  <2> QED BY <1>3, <2>1, <2>2 DEF RecordLogChunk, RecordEvent, TypeInv, Located, port
<1>4. CASE LogsDone
  BY <1>4 DEF LogsDone, Goto, TypeInv, TypeOK, Place, Done, Located, ledger, port, local
<1>5. CASE RecordLogError
  <2>1. TypeOK'
    <3>1. "exit" \in Place /\ RememberFailure("logError", "exit")
      BY <1>5 DEF RecordLogError, Place
    <3> QED BY <3>1, RememberType DEF TypeInv
  <2> QED BY <1>5, <2>1 DEF RecordLogError, RememberFailure, RecordEvent, TypeInv, Located, port
<1>6. CASE RecordExit
  <2>1. Event("exit", exit) \in Line
    BY <1>6 DEF RecordExit, Log, TypeInv, Located, Event, Line
  <2>2. TypeOK' BY <1>6, <2>1, LogType DEF RecordExit, TypeInv, Place, Done
  <2> QED BY <1>6, <2>2 DEF RecordExit, Log, RecordEvent, TypeInv, Located
<1>7. CASE MarkCollecting
  <2>1. TypeOK' BY <1>7, MoveType DEF MarkCollecting, TypeInv, Place, Done, TaskStatus
  <2> QED BY <1>7, <2>1 DEF MarkCollecting, Move, Transition, RecordEvent, TypeInv, Located
<1>8. CASE CollectDiff
  <2>1. TypeOK' BY <1>8, CallType DEF CollectDiff, TypeInv, Place, Done
  <2> QED BY <1>8, <2>1 DEF CollectDiff, Call, Goto, TypeInv, Located
<1>9. CASE RecordDiff
  <2>1. TypeOK' BY <1>9, LogType, PlainType DEF RecordDiff, TypeInv, Place, Done
  <2> QED BY <1>9, <2>1 DEF RecordDiff, Log, RecordEvent, TypeInv, Located
<1>10. CASE RecordDiffError
  <2>1. TypeOK'
    <3>1. "reporting" \in Place /\ RememberFailure("diffError", "reporting")
      BY <1>10 DEF RecordDiffError, Place
    <3> QED BY <3>1, RememberType DEF TypeInv
  <2> QED BY <1>10, <2>1 DEF RecordDiffError, RememberFailure, RecordEvent, TypeInv, Located
<1>11. CASE MarkReporting
  <2>1. TypeOK' BY <1>11, MoveType DEF MarkReporting, TypeInv, Place, Done, TaskStatus
  <2> QED BY <1>11, <2>1 DEF MarkReporting, Move, Transition, RecordEvent, TypeInv, Located
<1>12. CASE Finalise
  <2>1. FinalStatus \in Terminal /\ FinalStatus \in TaskStatus
    BY DEF FinalStatus, Terminal, TaskStatus
  <2>0. /\ pc' \in Place /\ status' \in TaskStatus
        /\ lines' \in Seq(Line) /\ events' \in Seq(Line) /\ flushed' \in 0..Len(lines')
    <3>1. Transition(FinalStatus, "report", "aborted")
      BY <1>12 DEF Finalise
    <3>2. "report" \in Place /\ "aborted" \in Place
      BY DEF Place, Done
    <3> QED BY <2>1, <3>1, <3>2, TransitionType DEF TypeInv
  <2>2. TypeOK'
    BY <1>12, <2>0, <2>1 DEF Finalise, TypeInv, TypeOK, port
  <2> QED BY <1>12, <2>2 DEF Finalise, Transition, RecordEvent, TypeInv, Located
<1> QED
  BY <1>1, <1>2, <1>3, <1>4, <1>5, <1>6, <1>7, <1>8, <1>9, <1>10, <1>11, <1>12 DEF Evidence

LEMMA ReportingType ==
  ASSUME TypeInv, Reporting
  PROVE  TypeInv'
<1>0. ReportData(events) \in ReportPage
  BY ReportDataType DEF TypeInv, Place, Done, TypeOK
<1>1. CASE GenerateReport
  BY <1>0, <1>1
    DEF GenerateReport, Generate, Goto, TypeInv, TypeOK, Place, Done, Located, ledger, local
<1>2. CASE RecordReport
  <2>1. TypeOK' BY <1>2, LogType, PlainType DEF RecordReport, TypeInv, Place, Done
  <2> QED BY <1>2, <2>1 DEF RecordReport, Log, RecordEvent, TypeInv, Located
<1>3. CASE RecordReportError
  <2>1. TypeOK' BY <1>3, LogType, PlainType DEF RecordReportError, TypeInv, Place, Done
  <2> QED BY <1>3, <2>1 DEF RecordReportError, Log, RecordEvent, TypeInv, Located
<1>4. CASE FailReport
  <2>0. /\ pc' \in Place /\ status' \in TaskStatus
        /\ lines' \in Seq(Line) /\ events' \in Seq(Line) /\ flushed' \in 0..Len(lines')
    <3>1. Transition("Failed", "returned", "aborted")
      BY <1>4 DEF FailReport
    <3>2. "Failed" \in TaskStatus /\ "returned" \in Place /\ "aborted" \in Place
      BY DEF TaskStatus, Terminal, Place, Done
    <3> QED BY <3>1, <3>2, TransitionType DEF TypeInv
  <2>1. TypeOK'
    BY <1>4, <2>0 DEF FailReport, TypeInv, TypeOK, Terminal, port
  <2> QED BY <1>4, <2>1 DEF FailReport, Transition, RecordEvent, TypeInv, Located
<1>5. CASE GenerateLastReport
  BY <1>0, <1>5
    DEF GenerateLastReport, Generate, Goto, TypeInv, TypeOK, Place, Done, Located, ledger, local
<1>6. CASE RecordLastReport
  <2>1. TypeOK' BY <1>6, LogType, PlainType DEF RecordLastReport, TypeInv, Place, Done
  <2> QED BY <1>6, <2>1 DEF RecordLastReport, Log, RecordEvent, TypeInv, Located
<1> QED BY <1>1, <1>2, <1>3, <1>4, <1>5, <1>6 DEF Reporting

\* What survives the end of the process is a sequence of lines.
LEMMA SurvivingType ==
  ASSUME TypeOK, NEW s \in Surviving
  PROVE  s \in Seq(Line)
<1>1. CASE s = lines
  BY <1>1 DEF TypeOK
<1>2. CASE s # lines
  <2>1. PICK k \in flushed..(Len(lines) - 1), torn \in BOOLEAN :
          s = IF torn THEN Join(SubSeq(lines, 1, k), OpenLine) ELSE SubSeq(lines, 1, k)
    BY <1>2 DEF Surviving
  <2>2. SubSeq(lines, 1, k) \in Seq(Line)
    <3>1. \A i \in 1..k : lines[i] \in Line
      BY DEF TypeOK
    <3> QED BY <3>1, SubSeqProperties DEF TypeOK
  <2>3. OpenLine \in Line
    BY PlainType DEF OpenLine
  <2> QED BY <2>1, <2>2, <2>3, JoinType
<1> QED BY <1>1, <1>2

LEMMA EndProcessType ==
  ASSUME TypeInv, EndProcess
  PROVE  TypeInv'
<1>1. lines' \in Seq(Line) /\ Len(lines') \in Nat
  BY SurvivingType DEF EndProcess, TypeInv
<1>2. events' \in Seq(Line)
  BY DEF EndProcess
<1>3. flushed' \in 0..Len(lines')
  BY <1>1 DEF EndProcess
<1>4. TypeOK'
  <2>1. pc' \in Place /\ run' \in 0..MaxRuns
    BY DEF EndProcess, TypeInv, TypeOK, Place
  <2>2. status' \in TaskStatus /\ final' \in {"none"} \cup Terminal
    BY DEF EndProcess, TaskStatus
  <2>3. decision' \in {"none"} \cup Decisions /\ answer' \in {"none"} \cup Answers
    BY DEF EndProcess
  <2>4. sandbox' \in {"none", "up", "exited"} /\ exit' \in {"none"} \cup ExitStatus
    BY DEF EndProcess
  <2>5. logged' \in 0..Streams /\ leak' \subseteq {"start", "stop", "exit"}
    BY DEF EndProcess
  <2>7. failure' \in BOOLEAN
    BY Zenon DEF EndProcess
  <2>6. resolved' \in 0..MaxRuns /\ report' \in [run : 0..MaxRuns, shows : ReportPage]
    BY DEF EndProcess, TypeInv, TypeOK
  <2> QED BY <1>1, <1>2, <1>3, <2>1, <2>2, <2>3, <2>4, <2>5, <2>6, <2>7 DEF TypeOK
<1>5. Located'
  BY DEF EndProcess, Located
<1> QED BY <1>4, <1>5 DEF TypeInv

LEMMA TypeStep ==
  ASSUME TypeInv, [Next]_vars
  PROVE  TypeInv'
<1>1. CASE StartRun
  BY <1>1 DEF StartRun, Goto, TypeInv, TypeOK, Place, Done, Located, ledger, port, local
<1>2. CASE Step
  BY <1>2, PreRunType, AgentType, EvidenceType, ReportingType DEF Step
<1>3. CASE Exit \/ Crash
  BY <1>3, EndProcessType DEF Exit, Crash
<1>4. CASE UNCHANGED vars
  BY <1>4 DEF TypeInv, TypeOK, Place, Done, Located, vars, ledger, port, local
<1> QED BY <1>1, <1>2, <1>3, <1>4 DEF Next, Finished

LEMMA InitType ==
  ASSUME Init
  PROVE  TypeInv
<1>1. lines \in Seq(Line) /\ events \in Seq(Line) /\ flushed \in 0..Len(lines)
  BY DEF Init
<1>2. pc \in Place /\ run \in 0..MaxRuns /\ status \in TaskStatus
  BY DEF Init, Place, TaskStatus
<1>3. logged \in 0..Streams /\ leak \subseteq {"start", "stop", "exit"}
  BY DEF Init
<1>6. failure \in BOOLEAN
  BY Zenon DEF Init
<1>4. resolved \in 0..MaxRuns /\ report \in [run : 0..MaxRuns, shows : ReportPage]
  <2>1. ReportData(events) \in ReportPage
    BY <1>1, ReportDataType
  <2>2. ReportData(<<>>) = ReportData(events)
    BY Zenon DEF Init
  <2> QED BY <2>1, <2>2 DEF Init
<1>5. TypeOK
  BY <1>1, <1>2, <1>3, <1>4, <1>6 DEF Init, TypeOK
<1> QED BY <1>5 DEF Init, TypeInv, Located

\* Every run of a task, whatever fails and whenever it is killed, keeps to the
\* types of the model's state.
THEOREM TypeCorrect == Spec => []TypeOK
<1>1. Init => TypeInv
  BY InitType
<1>2. TypeInv /\ [Next]_vars => TypeInv'
  BY TypeStep
<1>3. TypeInv => TypeOK
  BY DEF TypeInv, Place, Done
<1> QED BY <1>1, <1>2, <1>3, PTL DEF Spec

-----------------------------------------------------------------------------
(* Authority: where the run is tells what it has recorded.                  *)

Authorised ==
  /\ \/ Recorded(Event("decision", "Allow"))
     \/ /\ Recorded(Event("decision", "RequireApproval"))
        /\ Recorded(Event("resolved", "Approved"))
  /\ ~Recorded(Status("Denied"))

Unasked == {"idle", "created", "taskCreated", "validating", "invocation", "preparing",
            "taskDir", "resolvedTask", "evaluate", "decided"}
Asking  == {"waiting", "request", "requested", "wait", "answered"}
Refused == {"deny", "preRunFailure", "preRunError"}
Cleared == {"baseline", "prepare", "running", "start", "collect", "stop", "runError",
            "runFailed", "lastReport", "lastArtifact", "logs", "logArtifact", "logChunk",
            "logError", "exit", "collecting", "diff", "diffArtifact", "diffError",
            "reporting", "finalise"}

Authority ==
  /\ pc \in Unasked \cup Asking \cup {"deny"} => ~Recorded(Status("Denied"))
  /\ pc \in Unasked \cup Asking \cup Refused => sandbox = "none"
  /\ pc \in Asking => Recorded(Event("decision", "RequireApproval"))
  /\ pc \in Cleared \/ sandbox # "none" => Authorised

\* Recording anything but Denied leaves what Authority says about the past.
Keeps ==
  /\ Authorised => Authorised'
  /\ ~Recorded(Status("Denied")) => ~Recorded(Status("Denied"))'
  /\ Recorded(Event("decision", "RequireApproval"))
       => Recorded(Event("decision", "RequireApproval"))'

\* A successful record adds its event to the others, a failed one adds none.
LEMMA RecordEventAdds ==
  ASSUME TypeOK, NEW e, NEW next, NEW failed, RecordEvent(e, next, failed)
  PROVE  /\ pc' \in {next, failed}
         /\ \A x : Recorded(x) => Recorded(x)'
         /\ \A x : Recorded(x)' => Recorded(x) \/ x = e
         /\ pc' # failed => Recorded(e)'
<1>1. CASE events' = Append(events, e) /\ pc' = next
  <2>1. /\ Len(events) \in Nat
        /\ DOMAIN events' = 1..(Len(events) + 1)
        /\ \A i \in 1..Len(events) : events'[i] = events[i]
        /\ events'[Len(events) + 1] = e
        /\ DOMAIN events = 1..Len(events)
    BY <1>1 DEF TypeOK
  <2> QED BY <1>1, <2>1 DEF Recorded
<1>2. CASE UNCHANGED events /\ pc' = failed
  BY <1>2 DEF Recorded
<1> QED BY <1>1, <1>2 DEF RecordEvent

LEMMA RecordEventKeeps ==
  ASSUME TypeOK, NEW e, e # Status("Denied"), NEW next, NEW failed,
         RecordEvent(e, next, failed)
  PROVE  Keeps
BY RecordEventAdds DEF Keeps, Authorised

LEMMA LogKeeps ==
  ASSUME TypeOK, NEW e, e # Status("Denied"), NEW from, NEW next, NEW failed,
         Log(from, e, next, failed)
  PROVE  /\ pc = from /\ pc' \in {next, failed} /\ sandbox' = sandbox
         /\ Keeps
BY RecordEventAdds, RecordEventKeeps DEF Log, port

LEMMA SameEventsKeeps ==
  ASSUME events' = events
  PROVE  Keeps
BY DEF Keeps, Authorised, Recorded

LEMMA TransitionKeeps ==
  ASSUME TypeOK, NEW s, s # "Denied", NEW next, NEW failed,
         Transition(s, next, failed)
  PROVE  pc' \in {next, failed} /\ Keeps
<1>1. Status(s) # Status("Denied")
  BY DEF Status, Event
<1>2. CASE RecordEvent(Status(s), next, failed)
  BY <1>1, <1>2, RecordEventAdds, RecordEventKeeps
<1>3. CASE pc' = failed /\ UNCHANGED <<status, ledger>>
  BY <1>3, SameEventsKeeps DEF ledger
<1> QED BY <1>2, <1>3 DEF Transition

LEMMA MoveKeeps ==
  ASSUME TypeOK, NEW s, s # "Denied", NEW from, NEW next, NEW failed,
         Move(from, s, next, failed)
  PROVE  /\ pc = from /\ pc' \in {next, failed} /\ sandbox' = sandbox
         /\ Keeps
BY TransitionKeeps DEF Move, port

LEMMA CallKeeps ==
  ASSUME NEW from, NEW next, NEW failed, Call(from, next, failed)
  PROVE  /\ pc = from /\ pc' \in {next, failed} /\ sandbox' = sandbox
         /\ Keeps
BY SameEventsKeeps DEF Call, Goto, port, ledger

LEMMA PlainIsNotDenied ==
  ASSUME NEW kind, kind # "status", NEW v
  PROVE  Event(kind, v) # Status("Denied") /\ Plain(kind) # Status("Denied")
BY DEF Event, Plain, Status

LEMMA PreRunAuthority ==
  ASSUME TypeInv, Authority, PreRun
  PROVE  Authority'
<1> USE DEF TypeInv
<1>1. CASE Create
  BY <1>1, MoveKeeps DEF Create, Keeps, Authority, Unasked, Asking, Refused, Cleared
<1>2. CASE RecordTaskCreated
  BY <1>2, LogKeeps, PlainIsNotDenied
  DEF RecordTaskCreated, Keeps, Authority, Unasked, Asking, Refused, Cleared
<1>3. CASE Validate
  BY <1>3, MoveKeeps DEF Validate, Keeps, Authority, Unasked, Asking, Refused, Cleared
<1>4. CASE BuildInvocation
  BY <1>4, CallKeeps DEF BuildInvocation, Keeps, Authority, Unasked, Asking, Refused, Cleared
<1>5. CASE Prepare
  BY <1>5, MoveKeeps DEF Prepare, Keeps, Authority, Unasked, Asking, Refused, Cleared
<1>6. CASE CreateTaskDir
  BY <1>6, CallKeeps DEF CreateTaskDir, Keeps, Authority, Unasked, Asking, Refused, Cleared
<1>7. CASE WriteResolvedTask
  BY <1>7, SameEventsKeeps
  DEF WriteResolvedTask, Goto, ledger, Keeps, Authority, Unasked, Asking, Refused, Cleared
<1>8. CASE EvaluatePolicy
  BY <1>8, SameEventsKeeps
  DEF EvaluatePolicy, Goto, ledger, port, Keeps, Authority, Unasked, Asking, Refused, Cleared
<1>9. CASE RecordDecision
  <2>0. PICK d, e : d = decision /\ e = Event("decision", d)
    OBVIOUS
  <2>1. PICK next : /\ Log("decided", e, next, "preRunFailure")
                    /\ d = "Allow" => next = "baseline"
                    /\ d = "Deny" => next = "deny"
                    /\ d = "RequireApproval" => next = "waiting"
    BY <1>9, <2>0 DEF RecordDecision
  <2>2. d \in Decisions
    BY <2>0, <2>1 DEF Log, Located
  <2>3. /\ pc = "decided" /\ pc' \in {next, "preRunFailure"} /\ sandbox' = sandbox /\ Keeps
        /\ pc' # "preRunFailure" => Recorded(e)'
    BY <2>0, <2>1, LogKeeps, RecordEventAdds, PlainIsNotDenied DEF Log
  <2>4. ~Recorded(Status("Denied"))' /\ sandbox' = "none"
    BY <2>3 DEF Authority, Keeps, Unasked, Asking, Refused
  <2>5. CASE pc' = "preRunFailure"
    BY <2>4, <2>5 DEF Authority, Unasked, Asking, Cleared
  <2>6. CASE d = "Allow" /\ pc' = "baseline"
    <3>1. Recorded(Event("decision", "Allow"))'
      BY <2>0, <2>3, <2>6
    <3> QED BY <2>4, <2>6, <3>1 DEF Authority, Authorised, Unasked, Asking, Refused
  <2>7. CASE d = "Deny" /\ pc' = "deny"
    BY <2>4, <2>7 DEF Authority, Asking, Cleared
  <2>8. CASE d = "RequireApproval" /\ pc' = "waiting"
    <3>1. Recorded(Event("decision", "RequireApproval"))'
      BY <2>0, <2>3, <2>8
    <3> QED BY <2>4, <2>8, <3>1 DEF Authority, Cleared
  <2> QED BY <2>1, <2>2, <2>3, <2>5, <2>6, <2>7, <2>8 DEF Decisions
<1>10. CASE Deny
  <2>1. pc = "deny" /\ pc' = "preRunFailure" /\ sandbox' = sandbox
    BY <1>10, RecordEventAdds DEF Deny, Move, Transition, port
  <2> QED BY <2>1 DEF Authority, Unasked, Asking, Refused, Cleared
<1>11. CASE WaitForApproval
  BY <1>11, MoveKeeps DEF WaitForApproval, Keeps, Authority, Unasked, Asking, Refused, Cleared
<1>12. CASE RequestApproval
  BY <1>12, CallKeeps DEF RequestApproval, Keeps, Authority, Unasked, Asking, Refused, Cleared
<1>13. CASE RecordRequested
  BY <1>13, LogKeeps, PlainIsNotDenied
  DEF RecordRequested, Keeps, Authority, Unasked, Asking, Refused, Cleared
<1>14. CASE Wait
  BY <1>14, SameEventsKeeps
  DEF Wait, Goto, ledger, port, Keeps, Authority, Unasked, Asking, Refused, Cleared
<1>15. CASE RecordResolved
  <2>0. PICK a, e : a = answer /\ e = Event("resolved", a)
    OBVIOUS
  <2>1. PICK next : /\ Log("answered", e, next, "preRunFailure")
                    /\ next = IF a = "Approved" THEN "baseline" ELSE "deny"
    BY <1>15, <2>0 DEF RecordResolved
  <2>2. /\ pc = "answered" /\ pc' \in {next, "preRunFailure"} /\ sandbox' = sandbox /\ Keeps
        /\ pc' # "preRunFailure" => Recorded(e)'
    BY <2>0, <2>1, LogKeeps, RecordEventAdds, PlainIsNotDenied DEF Log
  <2>3. /\ ~Recorded(Status("Denied"))' /\ sandbox' = "none"
        /\ Recorded(Event("decision", "RequireApproval"))'
    BY <2>2 DEF Authority, Keeps, Unasked, Asking, Refused
  <2>4. CASE a = "Approved" /\ pc' = "baseline"
    <3>1. Recorded(Event("resolved", "Approved"))'
      BY <2>0, <2>2, <2>4
    <3> QED BY <2>3, <2>4, <3>1 DEF Authority, Authorised, Unasked, Asking, Refused
  <2>5. CASE pc' \in {"deny", "preRunFailure"}
    BY <2>3, <2>5 DEF Authority, Asking, Cleared
  <2> QED BY <2>1, <2>2, <2>4, <2>5
<1>16. CASE FinishPreRunFailure
  <2>1. pc = "preRunFailure" /\ pc' \in {"preRunError", "aborted"} /\ sandbox' = sandbox
    BY <1>16, TransitionKeeps DEF FinishPreRunFailure, port
  <2> QED BY <2>1 DEF Authority, Unasked, Asking, Refused, Cleared
<1>17. CASE RecordPreRunError
  BY <1>17, LogKeeps, PlainIsNotDenied
  DEF RecordPreRunError, Keeps, Authority, Unasked, Asking, Refused, Cleared
<1> QED
  BY <1>1, <1>2, <1>3, <1>4, <1>5, <1>6, <1>7, <1>8, <1>9, <1>10, <1>11, <1>12,
     <1>13, <1>14, <1>15, <1>16, <1>17 DEF PreRun

LEMMA AgentAuthority ==
  ASSUME TypeInv, Authority, Agent
  PROVE  Authority'
<1> USE DEF TypeInv
<1>1. CASE CaptureBaseline
  BY <1>1, CallKeeps DEF CaptureBaseline, Keeps, Authority, Unasked, Asking, Refused, Cleared
<1>2. CASE PrepareSandbox
  BY <1>2, CallKeeps DEF PrepareSandbox, Keeps, Authority, Unasked, Asking, Refused, Cleared
<1>3. CASE MarkRunning
  BY <1>3, MoveKeeps DEF MarkRunning, Keeps, Authority, Unasked, Asking, Refused, Cleared
<1>4. CASE StartRunner
  BY <1>4, SameEventsKeeps
  DEF StartRunner, Goto, ledger, Keeps, Authority, Unasked, Asking, Refused, Cleared
<1>5. CASE CollectExit
  BY <1>5, SameEventsKeeps
  DEF CollectExit, Goto, ledger, Keeps, Authority, Unasked, Asking, Refused, Cleared
<1>6. CASE StopRunner
  BY <1>6, SameEventsKeeps
  DEF StopRunner, Goto, ledger, Keeps, Authority, Unasked, Asking, Refused, Cleared
<1>7. CASE RecordRunError
  BY <1>7, LogKeeps, PlainIsNotDenied
  DEF RecordRunError, Keeps, Authority, Unasked, Asking, Refused, Cleared
<1>8. CASE FailRun
  BY <1>8, TransitionKeeps DEF FailRun, port, Keeps, Authority, Unasked, Asking, Refused, Cleared
<1> QED
  BY <1>1, <1>2, <1>3, <1>4, <1>5, <1>6, <1>7, <1>8 DEF Agent

LEMMA EvidenceAuthority ==
  ASSUME TypeInv, Authority, Evidence
  PROVE  Authority'
<1> USE DEF TypeInv
<1>1. CASE WriteLog
  BY <1>1, CallKeeps DEF WriteLog, Keeps, Authority, Unasked, Asking, Refused, Cleared
<1>2. CASE RecordLogArtifact
  BY <1>2, LogKeeps, PlainIsNotDenied
  DEF RecordLogArtifact, Keeps, Authority, Unasked, Asking, Refused, Cleared
<1>3. CASE RecordLogChunk
  BY <1>3, RecordEventKeeps, RecordEventAdds, PlainIsNotDenied
  DEF RecordLogChunk, port, Keeps, Authority, Unasked, Asking, Refused, Cleared
<1>4. CASE LogsDone
  BY <1>4, SameEventsKeeps
  DEF LogsDone, port, Goto, ledger, Keeps, Authority, Unasked, Asking, Refused, Cleared
<1>5. CASE RecordLogError
  BY <1>5, RecordEventKeeps, RecordEventAdds, PlainIsNotDenied
  DEF RecordLogError, RememberFailure, port, Keeps, Authority, Unasked, Asking, Refused, Cleared
<1>6. CASE RecordExit
  BY <1>6, LogKeeps, PlainIsNotDenied
  DEF RecordExit, Keeps, Authority, Unasked, Asking, Refused, Cleared
<1>7. CASE MarkCollecting
  BY <1>7, MoveKeeps DEF MarkCollecting, Keeps, Authority, Unasked, Asking, Refused, Cleared
<1>8. CASE CollectDiff
  BY <1>8, CallKeeps DEF CollectDiff, Keeps, Authority, Unasked, Asking, Refused, Cleared
<1>9. CASE RecordDiff
  BY <1>9, LogKeeps, PlainIsNotDenied
  DEF RecordDiff, Keeps, Authority, Unasked, Asking, Refused, Cleared
<1>10. CASE RecordDiffError
  BY <1>10, RecordEventKeeps, RecordEventAdds, PlainIsNotDenied
  DEF RecordDiffError, RememberFailure, port, Keeps, Authority, Unasked, Asking, Refused, Cleared
<1>11. CASE MarkReporting
  BY <1>11, MoveKeeps DEF MarkReporting, Keeps, Authority, Unasked, Asking, Refused, Cleared
<1>12. CASE Finalise
  BY <1>12, TransitionKeeps
    DEF Finalise, FinalStatus, port, Keeps, Authority, Unasked, Asking, Refused, Cleared
<1> QED
  BY <1>1, <1>2, <1>3, <1>4, <1>5, <1>6, <1>7, <1>8, <1>9, <1>10, <1>11, <1>12 DEF Evidence

LEMMA ReportingAuthority ==
  ASSUME TypeInv, Authority, Reporting
  PROVE  Authority'
<1> USE DEF TypeInv
<1>1. CASE GenerateReport
  BY <1>1, SameEventsKeeps
  DEF GenerateReport, Generate, Goto, ledger, Keeps, Authority, Unasked, Asking, Refused, Cleared
<1>2. CASE RecordReport
  BY <1>2, LogKeeps, PlainIsNotDenied
  DEF RecordReport, Keeps, Authority, Unasked, Asking, Refused, Cleared
<1>3. CASE RecordReportError
  BY <1>3, LogKeeps, PlainIsNotDenied
  DEF RecordReportError, Keeps, Authority, Unasked, Asking, Refused, Cleared
<1>4. CASE FailReport
  BY <1>4, TransitionKeeps
    DEF FailReport, port, Keeps, Authority, Unasked, Asking, Refused, Cleared
<1>5. CASE GenerateLastReport
  BY <1>5, SameEventsKeeps
  DEF GenerateLastReport, Generate, Goto, ledger, Keeps, Authority, Unasked, Asking, Refused, Cleared
<1>6. CASE RecordLastReport
  BY <1>6, LogKeeps, PlainIsNotDenied
  DEF RecordLastReport, Keeps, Authority, Unasked, Asking, Refused, Cleared
<1> QED
  BY <1>1, <1>2, <1>3, <1>4, <1>5, <1>6 DEF Reporting

LEMMA AuthorityStep ==
  ASSUME TypeInv, Authority, [Next]_vars
  PROVE  Authority'
<1>1. CASE StartRun
  BY <1>1, SameEventsKeeps DEF StartRun, Goto, ledger, port, Keeps, Authority,
     Unasked, Asking, Refused, Cleared
<1>2. CASE Step
  BY <1>2, PreRunAuthority, AgentAuthority, EvidenceAuthority, ReportingAuthority DEF Step
<1>3. CASE Exit \/ Crash
  BY <1>3 DEF Exit, Crash, EndProcess, Recorded, Authority, Asking, Cleared
<1>4. CASE UNCHANGED vars
  BY <1>4, SameEventsKeeps DEF vars, ledger, port, Keeps, Authority
<1> QED BY <1>1, <1>2, <1>3, <1>4 DEF Next, Finished

\* The runner is started only under the authority that the run recorded: an
\* Allow, or an approval of what had to be approved, and never after a denial.
THEOREM StartIsAuthorised == Spec => []StartAuthorised
<1>1. Init => TypeInv /\ Authority
  <2> SUFFICES ASSUME Init PROVE TypeInv /\ Authority
    OBVIOUS
  <2>1. ~Recorded(Status("Denied"))
    BY DEF Init, Recorded
  <2> QED BY <2>1, InitType DEF Init, Authority, Asking, Cleared
<1>2. TypeInv /\ Authority /\ [Next]_vars => (TypeInv /\ Authority)'
  BY TypeStep, AuthorityStep
<1>3. Authority => StartAuthorised
  BY DEF Authority, Authorised, StartAuthorised
<1> QED BY <1>1, <1>2, <1>3, PTL DEF Spec

-----------------------------------------------------------------------------
(* The lifecycle: where the run is tells its status.                        *)

Ended == {"Preparing", "WaitingForApproval"} \cup Terminal

StatusAt ==
  /\ pc \in {"idle", "created"} => status = "none"
  /\ pc \in {"taskCreated", "validating"} => status = "Created"
  /\ pc \in {"invocation", "preparing"} => status = "Validating"
  /\ pc \in {"taskDir", "resolvedTask", "evaluate", "decided", "waiting"} => status = "Preparing"
  /\ pc \in {"request", "requested", "wait", "answered"} => status = "WaitingForApproval"
  /\ pc \in {"deny", "baseline", "prepare", "running"} =>
       status \in {"Preparing", "WaitingForApproval"}
  /\ pc \in {"start", "collect", "stop", "runError", "runFailed", "logs", "logArtifact",
             "logChunk", "logError", "exit", "collecting"} => status = "Running"
  /\ pc \in {"diff", "diffArtifact", "diffError", "reporting"} => status = "CollectingArtifacts"
  /\ pc = "finalise" => status = "Reporting"
  /\ pc \in {"preRunFailure", "preRunError", "report", "reportArtifact", "reportError",
             "reportFailed"} => status \in Ended

Lifecycle1 == [Abstract!Next]_(Abstract!lifecycle)
May(s)     == status = s \/ s \in Abstract!Follows[status]

\* The steps that change the status follow the abstract lifecycle.
LEMMA StatusFollows ==
  /\ status = "none" => May("Created")
  /\ status = "Created" => May("Validating")
  /\ status = "Validating" => May("Preparing")
  /\ status = "Preparing" => May("WaitingForApproval")
  /\ status \in {"Preparing", "WaitingForApproval"} => May("Denied") /\ May("Running")
  /\ status = "Running" => May("CollectingArtifacts") /\ May("Failed")
  /\ status = "CollectingArtifacts" => May("Reporting")
  /\ status = "Reporting" => May("Succeeded") /\ May("Failed") /\ May("TimedOut")
  /\ status \in Ended => May("Failed")
BY DEF May, Abstract!Follows, Ended, Terminal

LEMMA SameStatusRefines ==
  ASSUME status' = status, sandbox' = sandbox
  PROVE  Lifecycle1
BY DEF Lifecycle1, Abstract!lifecycle

LEMMA TransitionRefines ==
  ASSUME NEW s, May(s), NEW next, NEW failed, Transition(s, next, failed), sandbox' = sandbox
  PROVE  /\ Lifecycle1
         /\ \/ status' = s /\ pc' \in {next, failed}
            \/ status' = status /\ pc' = failed
<1>1. \/ status' = s /\ pc' \in {next, failed}
      \/ status' = status /\ pc' = failed
  BY DEF Transition, RecordEvent
<1>2. status' = status \/ status' \in Abstract!Follows[status]
  BY <1>1 DEF May
<1> QED BY <1>1, <1>2, SameStatusRefines DEF Lifecycle1, Abstract!Next, Abstract!Advance

LEMMA MoveRefines ==
  ASSUME NEW s, May(s), NEW from, NEW next, NEW failed, Move(from, s, next, failed)
  PROVE  /\ pc = from /\ Lifecycle1
         /\ \/ status' = s /\ pc' \in {next, failed}
            \/ status' = status /\ pc' = failed
BY TransitionRefines DEF Move, port

LEMMA LogRefines ==
  ASSUME NEW e, NEW from, NEW next, NEW failed, Log(from, e, next, failed)
  PROVE  pc = from /\ pc' \in {next, failed} /\ status' = status /\ Lifecycle1
BY SameStatusRefines DEF Log, RecordEvent, port

LEMMA CallRefines ==
  ASSUME NEW from, NEW next, NEW failed, Call(from, next, failed)
  PROVE  pc = from /\ pc' \in {next, failed} /\ status' = status /\ Lifecycle1
BY SameStatusRefines DEF Call, Goto, port

LEMMA PreRunRefines ==
  ASSUME StatusAt, PreRun
  PROVE  StatusAt' /\ Lifecycle1
<1>1. CASE Create
  <2>1. May("Created")
    BY <1>1, StatusFollows DEF Create, Move, StatusAt
  <2> QED BY <1>1, <2>1, MoveRefines DEF Create, StatusAt, Ended, Terminal
<1>2. CASE RecordTaskCreated
  BY <1>2, LogRefines DEF RecordTaskCreated, StatusAt, Ended, Terminal
<1>3. CASE Validate
  <2>1. May("Validating")
    BY <1>3, StatusFollows DEF Validate, Move, StatusAt
  <2> QED BY <1>3, <2>1, MoveRefines DEF Validate, StatusAt, Ended, Terminal
<1>4. CASE BuildInvocation
  BY <1>4, CallRefines DEF BuildInvocation, StatusAt, Ended, Terminal
<1>5. CASE Prepare
  <2>1. May("Preparing")
    BY <1>5, StatusFollows DEF Prepare, Move, StatusAt
  <2> QED BY <1>5, <2>1, MoveRefines DEF Prepare, StatusAt, Ended, Terminal
<1>6. CASE CreateTaskDir
  BY <1>6, CallRefines DEF CreateTaskDir, StatusAt, Ended, Terminal
<1>7. CASE WriteResolvedTask
  BY <1>7, SameStatusRefines DEF WriteResolvedTask, Goto, StatusAt, Ended, Terminal
<1>8. CASE EvaluatePolicy
  BY <1>8, SameStatusRefines DEF EvaluatePolicy, port, Goto, StatusAt, Ended, Terminal
<1>9. CASE RecordDecision
  <2>1. PICK next \in {"baseline", "deny", "waiting"} :
          Log("decided", Event("decision", decision), next, "preRunFailure")
    BY <1>9 DEF RecordDecision
  <2> QED BY <2>1, LogRefines DEF StatusAt, Ended
<1>10. CASE Deny
  <2>1. May("Denied")
    BY <1>10, StatusFollows DEF Deny, Move, StatusAt
  <2> QED BY <1>10, <2>1, MoveRefines DEF Deny, StatusAt, Ended, Terminal
<1>11. CASE WaitForApproval
  <2>1. May("WaitingForApproval")
    BY <1>11, StatusFollows DEF WaitForApproval, Move, StatusAt
  <2> QED BY <1>11, <2>1, MoveRefines DEF WaitForApproval, StatusAt, Ended, Terminal
<1>12. CASE RequestApproval
  BY <1>12, CallRefines DEF RequestApproval, StatusAt, Ended, Terminal
<1>13. CASE RecordRequested
  BY <1>13, LogRefines DEF RecordRequested, StatusAt, Ended, Terminal
<1>14. CASE Wait
  BY <1>14, SameStatusRefines DEF Wait, port, Goto, StatusAt, Ended, Terminal
<1>15. CASE RecordResolved
  BY <1>15, LogRefines DEF RecordResolved, StatusAt, Ended, Terminal
<1>16. CASE FinishPreRunFailure
  <2>1. May("Failed")
    BY <1>16, StatusFollows DEF FinishPreRunFailure, StatusAt
  <2> QED BY <1>16, <2>1, TransitionRefines, SameStatusRefines
          DEF FinishPreRunFailure, port, StatusAt, Ended, Terminal
<1>17. CASE RecordPreRunError
  BY <1>17, LogRefines DEF RecordPreRunError, StatusAt, Ended, Terminal
<1> QED
  BY <1>1, <1>2, <1>3, <1>4, <1>5, <1>6, <1>7, <1>8, <1>9, <1>10, <1>11, <1>12, <1>13, <1>14,
      <1>15, <1>16, <1>17 DEF PreRun

LEMMA AgentRefines ==
  ASSUME StatusAt, Agent
  PROVE  StatusAt' /\ Lifecycle1
<1>1. CASE CaptureBaseline
  BY <1>1, CallRefines DEF CaptureBaseline, StatusAt, Ended, Terminal
<1>2. CASE PrepareSandbox
  BY <1>2, CallRefines DEF PrepareSandbox, StatusAt, Ended, Terminal
<1>3. CASE MarkRunning
  <2>1. May("Running")
    BY <1>3, StatusFollows DEF MarkRunning, Move, StatusAt
  <2> QED BY <1>3, <2>1, MoveRefines DEF MarkRunning, StatusAt, Ended, Terminal
<1>4. CASE StartRunner
  <2>1. pc \in {"start", "collect", "stop"} /\ status = "Running" /\ status' = status
    BY <1>4 DEF StartRunner, Goto, StatusAt
  <2>2. sandbox' = sandbox \/ sandbox' # "none"
    BY <1>4 DEF StartRunner
  <2>3. Lifecycle1
    BY <2>1, <2>2, SameStatusRefines
      DEF Lifecycle1, Abstract!Next, Abstract!Launch, Abstract!lifecycle
  <2> QED BY <1>4, <2>1, <2>3 DEF StartRunner, Goto, StatusAt
<1>5. CASE CollectExit
  <2>1. pc \in {"start", "collect", "stop"} /\ status = "Running" /\ status' = status
    BY <1>5 DEF CollectExit, Goto, StatusAt
  <2>2. sandbox' = sandbox \/ sandbox' # "none"
    BY <1>5 DEF CollectExit
  <2>3. Lifecycle1
    BY <2>1, <2>2, SameStatusRefines
      DEF Lifecycle1, Abstract!Next, Abstract!Launch, Abstract!lifecycle
  <2> QED BY <1>5, <2>1, <2>3 DEF CollectExit, Goto, StatusAt
<1>6. CASE StopRunner
  <2>1. pc \in {"start", "collect", "stop"} /\ status = "Running" /\ status' = status
    BY <1>6 DEF StopRunner, Goto, StatusAt
  <2>2. sandbox' = sandbox \/ sandbox' # "none"
    BY <1>6 DEF StopRunner
  <2>3. Lifecycle1
    BY <2>1, <2>2, SameStatusRefines
      DEF Lifecycle1, Abstract!Next, Abstract!Launch, Abstract!lifecycle
  <2> QED BY <1>6, <2>1, <2>3 DEF StopRunner, Goto, StatusAt
<1>7. CASE RecordRunError
  BY <1>7, LogRefines DEF RecordRunError, StatusAt, Ended, Terminal
<1>8. CASE FailRun
  <2>1. May("Failed")
    BY <1>8, StatusFollows DEF FailRun, StatusAt
  <2> QED BY <1>8, <2>1, TransitionRefines DEF FailRun, port, StatusAt, Ended, Terminal
<1> QED
  BY <1>1, <1>2, <1>3, <1>4, <1>5, <1>6, <1>7, <1>8 DEF Agent

LEMMA EvidenceRefines ==
  ASSUME StatusAt, Evidence
  PROVE  StatusAt' /\ Lifecycle1
<1>1. CASE WriteLog
  BY <1>1, CallRefines DEF WriteLog, StatusAt, Ended, Terminal
<1>2. CASE RecordLogArtifact
  BY <1>2, LogRefines DEF RecordLogArtifact, StatusAt, Ended, Terminal
<1>3. CASE RecordLogChunk
  BY <1>3, SameStatusRefines
    DEF RecordLogChunk, RecordEvent, port, Goto, StatusAt, Ended, Terminal
<1>4. CASE LogsDone
  BY <1>4, SameStatusRefines DEF LogsDone, port, Goto, StatusAt, Ended, Terminal
<1>5. CASE RecordLogError
  BY <1>5, SameStatusRefines
    DEF RecordLogError, RememberFailure, RecordEvent, port, Goto, StatusAt, Ended, Terminal
<1>6. CASE RecordExit
  BY <1>6, LogRefines DEF RecordExit, StatusAt, Ended, Terminal
<1>7. CASE MarkCollecting
  <2>1. May("CollectingArtifacts")
    BY <1>7, StatusFollows DEF MarkCollecting, Move, StatusAt
  <2> QED BY <1>7, <2>1, MoveRefines DEF MarkCollecting, StatusAt, Ended, Terminal
<1>8. CASE CollectDiff
  BY <1>8, CallRefines DEF CollectDiff, StatusAt, Ended, Terminal
<1>9. CASE RecordDiff
  BY <1>9, LogRefines DEF RecordDiff, StatusAt, Ended, Terminal
<1>10. CASE RecordDiffError
  BY <1>10, SameStatusRefines
    DEF RecordDiffError, RememberFailure, RecordEvent, port, Goto, StatusAt, Ended, Terminal
<1>11. CASE MarkReporting
  <2>1. May("Reporting")
    BY <1>11, StatusFollows DEF MarkReporting, Move, StatusAt
  <2> QED BY <1>11, <2>1, MoveRefines DEF MarkReporting, StatusAt, Ended, Terminal
<1>12. CASE Finalise
  <2>1. May(FinalStatus) /\ FinalStatus \in Terminal
    BY <1>12, StatusFollows DEF Finalise, FinalStatus, Terminal, StatusAt
  <2>2. PICK s : s = FinalStatus
    OBVIOUS
  <2> QED BY <1>12, <2>1, <2>2, TransitionRefines DEF Finalise, port, StatusAt, Ended
<1> QED
  BY <1>1, <1>2, <1>3, <1>4, <1>5, <1>6, <1>7, <1>8, <1>9, <1>10, <1>11, <1>12 DEF Evidence

LEMMA ReportingRefines ==
  ASSUME StatusAt, Reporting
  PROVE  StatusAt' /\ Lifecycle1
<1>1. CASE GenerateReport
  BY <1>1, SameStatusRefines DEF GenerateReport, Generate, Goto, StatusAt, Ended, Terminal
<1>2. CASE RecordReport
  BY <1>2, LogRefines DEF RecordReport, StatusAt, Ended, Terminal
<1>3. CASE RecordReportError
  BY <1>3, LogRefines DEF RecordReportError, StatusAt, Ended, Terminal
<1>4. CASE FailReport
  <2>1. May("Failed")
    BY <1>4, StatusFollows DEF FailReport, StatusAt
  <2> QED BY <1>4, <2>1, TransitionRefines DEF FailReport, port, StatusAt, Ended, Terminal
<1>5. CASE GenerateLastReport
  BY <1>5, SameStatusRefines DEF GenerateLastReport, Generate, Goto, StatusAt, Ended, Terminal
<1>6. CASE RecordLastReport
  BY <1>6, LogRefines DEF RecordLastReport, StatusAt, Ended, Terminal
<1> QED
  BY <1>1, <1>2, <1>3, <1>4, <1>5, <1>6 DEF Reporting

LEMMA NextRefines ==
  ASSUME StatusAt, [Next]_vars
  PROVE  StatusAt' /\ Lifecycle1
<1>1. CASE StartRun
  BY <1>1, SameStatusRefines DEF StartRun, Goto, port, StatusAt
<1>2. CASE Step
  BY <1>2, PreRunRefines, AgentRefines, EvidenceRefines, ReportingRefines DEF Step
<1>3. CASE Exit \/ Crash
  <2>1. status' = "none" /\ pc' = "idle" /\ sandbox' = "none"
    BY <1>3 DEF Exit, Crash, EndProcess
  <2> QED BY <2>1 DEF StatusAt, Lifecycle1, Abstract!Next, Abstract!Restart, Abstract!Init
<1>4. CASE UNCHANGED vars
  BY <1>4, SameStatusRefines DEF vars, port, StatusAt
<1> QED BY <1>1, <1>2, <1>3, <1>4 DEF Next, Finished

\* The status of a task follows the abstract lifecycle whatever fails in the
\* run, and the agent is launched only while the task is Running.
THEOREM RunFollowsLifecycle == Spec => Lifecycle
<1>1. Init => StatusAt /\ Abstract!Init
  BY DEF Init, StatusAt, Abstract!Init
<1>2. StatusAt /\ [Next]_vars => StatusAt' /\ [Abstract!Next]_(Abstract!lifecycle)
  BY NextRefines DEF Lifecycle1
<1> QED BY <1>1, <1>2, PTL DEF Spec, Lifecycle, Abstract!Spec

-----------------------------------------------------------------------------
(* The sandbox: it is up only between a start and an exit or a stop.         *)

SandboxAt == sandbox = "up" => pc \in {"collect", "stop"} \/ leak # {}

LEMMA SandboxStep ==
  ASSUME SandboxAt, [Next]_vars
  PROVE  SandboxAt'
<1>1. CASE StartRunner \/ CollectExit \/ StopRunner
  BY <1>1 DEF StartRunner, CollectExit, StopRunner, Goto, SandboxAt
<1>2. CASE Exit \/ Crash
  BY <1>2 DEF Exit, Crash, EndProcess, SandboxAt
<1>3. ASSUME UNCHANGED <<sandbox, leak>>, pc \notin {"collect", "stop"}
      PROVE  SandboxAt'
  BY <1>3 DEF SandboxAt
<1>4. CASE StartRun
  BY <1>3, <1>4 DEF StartRun, Goto, port
<1>5. CASE PreRun
  BY <1>3, <1>5 DEF PreRun, Create, RecordTaskCreated, Validate, BuildInvocation, Prepare,
     CreateTaskDir, WriteResolvedTask, EvaluatePolicy, RecordDecision, Deny, WaitForApproval,
     RequestApproval, RecordRequested, Wait, RecordResolved, FinishPreRunFailure,
     RecordPreRunError, Log, Move, Call, Goto, port
<1>6. CASE Agent
  BY <1>1, <1>3, <1>6 DEF Agent, CaptureBaseline, PrepareSandbox, MarkRunning, RecordRunError,
     FailRun, Log, Move, Call, Goto, port
<1>7. CASE Evidence
  BY <1>3, <1>7 DEF Evidence, WriteLog, RecordLogArtifact, RecordLogChunk, LogsDone,
     RecordLogError, RecordExit, MarkCollecting, CollectDiff, RecordDiff, RecordDiffError,
     MarkReporting, Finalise, RememberFailure, Log, Move, Call, Goto, port
<1>8. CASE Reporting
  BY <1>3, <1>8 DEF Reporting, GenerateReport, RecordReport, RecordReportError, FailReport,
     GenerateLastReport, RecordLastReport, Generate, Log, Goto, port
<1>9. CASE UNCHANGED vars
  BY <1>9 DEF vars, port, SandboxAt
<1> QED BY <1>2, <1>4, <1>5, <1>6, <1>7, <1>8, <1>9 DEF Next, Step, Finished

\* No run returns, or gives up, with the sandbox it started still up, unless
\* the runner failed to start or to stop it.
THEOREM NoRunLeaksSilently == Spec => []NoSilentLeak
<1>1. Init => SandboxAt
  BY DEF Init, SandboxAt
<1>2. SandboxAt /\ [Next]_vars => SandboxAt'
  BY SandboxStep
<1>3. SandboxAt => NoSilentLeak
  BY DEF SandboxAt, NoSilentLeak, Done
<1> QED BY <1>1, <1>2, <1>3, PTL DEF Spec

-----------------------------------------------------------------------------
(* What a reader of the log finds last.                                      *)

\* The latest line of a kind is the one no other of that kind comes after.
LEMMA LastIs ==
  ASSUME NEW s \in Seq(Line), NEW kind, NEW i \in At(s, kind), \A j \in At(s, kind) : j <= i
  PROVE  Last(s, kind) = s[i].val
<1>1. At(s, kind) \in SUBSET Nat
  BY DEF At
<1> DEFINE last == CHOOSE k \in At(s, kind) : \A j \in At(s, kind) : j <= k
<1>2. last \in At(s, kind) /\ \A j \in At(s, kind) : j <= last
  OBVIOUS
<1>3. last = i
  <2>1. last <= i /\ i <= last /\ last \in Nat /\ i \in Nat
    BY <1>1, <1>2
  <2> HIDE DEF last
  <2> QED BY <2>1
<1>4. At(s, kind) # {}
  OBVIOUS
<1> QED BY <1>3, <1>4, Zenon DEF Last

\* It depends on the lines of that kind alone.
LEMMA SameLast ==
  ASSUME NEW s \in Seq(Line), NEW t \in Seq(Line), NEW kind,
         At(s, kind) = At(t, kind), \A i \in At(s, kind) : s[i] = t[i]
  PROVE  Last(s, kind) = Last(t, kind)
<1>1. CASE At(s, kind) = {}
  BY <1>1 DEF Last
<1>2. CASE At(s, kind) # {}
  <2>1. At(s, kind) \in SUBSET (1..Len(s)) /\ Len(s) \in Nat
    BY DEF At
  <2>2. PICK i \in At(s, kind) : \A j \in At(s, kind) : j <= i
    BY <1>2, <2>1, LastIndex
  <2>3. Last(s, kind) = s[i].val
    BY <2>2, LastIs
  <2>4. Last(t, kind) = t[i].val
    BY <2>2, LastIs
  <2> QED BY <2>2, <2>3, <2>4
<1> QED BY <1>1, <1>2

LEMMA LastOfAppend ==
  ASSUME NEW s \in Seq(Line), NEW e \in Line, NEW kind
  PROVE  Last(Append(s, e), kind) = IF e.kind = kind THEN e.val ELSE Last(s, kind)
<1> DEFINE t == Append(s, e)
<1>1. /\ t \in Seq(Line) /\ Len(t) = Len(s) + 1 /\ Len(s) \in Nat
      /\ DOMAIN t = 1..(Len(s) + 1) /\ DOMAIN s = 1..Len(s)
      /\ \A i \in 1..Len(s) : t[i] = s[i]
      /\ t[Len(s) + 1] = e
  OBVIOUS
<1> HIDE DEF t
<1>2. CASE e.kind = kind
  <2>1. Len(s) + 1 \in At(t, kind) /\ \A j \in At(t, kind) : j <= Len(s) + 1
    BY <1>1, <1>2 DEF At
  <2>2. Last(t, kind) = t[Len(s) + 1].val
    BY <1>1, <2>1, LastIs
  <2> QED BY <1>1, <1>2, <2>2 DEF t
<1>3. CASE e.kind # kind
  <2>1. At(t, kind) = At(s, kind) /\ \A i \in At(s, kind) : t[i] = s[i]
    BY <1>1, <1>3 DEF At
  <2>2. Last(t, kind) = Last(s, kind)
    BY <1>1, <2>1, SameLast
  <2> QED BY <1>3, <2>2 DEF t
<1> QED BY <1>2, <1>3

LEMMA LastOfEmpty == \A kind : Last(<<>>, kind) = "none"
BY DEF Last, At

\* A line that is cut short, or ends one that was, hides no other line.
LEMMA LastOfJoin ==
  ASSUME NEW s \in Seq(Line), NEW e \in Line, NEW kind, e.kind # kind, kind \notin {"open", "bad"}
  PROVE  Last(Join(s, e), kind) = Last(s, kind)
<1>1. CASE s # <<>> /\ s[Len(s)] = OpenLine
  <2>1. OpenLine.kind # kind /\ BadLine.kind # kind /\ BadLine \in Line
    BY DEF OpenLine, BadLine, Plain, Event, Line
  <2>2. CASE e = OpenLine
    BY <1>1, <2>2 DEF Join
  <2>3. CASE e # OpenLine
    <3> DEFINE t == [s EXCEPT ![Len(s)] = BadLine]
    <3>1. t \in Seq(Line) /\ Len(t) = Len(s)
      BY <1>1, <2>1, ExceptSeq
    <3>2. At(s, kind) = At(t, kind) /\ \A i \in At(s, kind) : s[i] = t[i]
      BY <1>1, <2>1 DEF At
    <3>3. Last(t, kind) = Last(s, kind)
      <4> HIDE DEF t
      <4> QED BY <3>1, <3>2, SameLast
    <3> QED BY <1>1, <2>3, <3>3 DEF Join
  <2> QED BY <2>2, <2>3
<1>2. CASE ~(s # <<>> /\ s[Len(s)] = OpenLine)
  BY <1>2, LastOfAppend DEF Join
<1> QED BY <1>1, <1>2

\* What has reached the file of it still has when more is written.
LEMMA LastOfWritten ==
  ASSUME NEW s \in Seq(Line), NEW e \in Line, NEW n \in 0..Len(s),
         NEW kind, e.kind # kind, kind \notin {"open", "bad"}
  PROVE  Last(SubSeq(Join(s, e), 1, n), kind) = Last(SubSeq(s, 1, n), kind)
<1> DEFINE old == SubSeq(s, 1, n)
           new == SubSeq(Join(s, e), 1, n)
<1>1. /\ Join(s, e) \in Seq(Line) /\ Len(s) <= Len(Join(s, e))
      /\ Len(s) \in Nat /\ Len(Join(s, e)) \in Nat
  BY JoinType
<1>2. /\ old \in Seq(Line) /\ DOMAIN old = 1..n /\ \A i \in 1..n : old[i] = s[i]
      /\ new \in Seq(Line) /\ DOMAIN new = 1..n /\ \A i \in 1..n : new[i] = Join(s, e)[i]
  <2>1. /\ \A i \in 1..n : s[i] \in Line
        /\ \A i \in 1..n : Join(s, e)[i] \in Line
    BY <1>1
  <2> QED BY <1>1, <2>1, SubSeqProperties
<1>3. \A i \in 1..n : Join(s, e)[i] = s[i] \/ (s[i] = OpenLine /\ Join(s, e)[i] = BadLine)
  BY <1>1 DEF Join
<1>4. OpenLine.kind # kind /\ BadLine.kind # kind
  BY DEF OpenLine, BadLine, Plain, Event
<1>5. At(old, kind) = At(new, kind) /\ \A i \in At(old, kind) : old[i] = new[i]
  BY <1>2, <1>3, <1>4 DEF At
<1> QED
  <2> HIDE DEF old, new
  <2>1. Last(new, kind) = Last(old, kind)
    BY <1>2, <1>5, SameLast
  <2> QED BY <2>1 DEF old, new

-----------------------------------------------------------------------------
(* The log of a run.  A record that succeeds leaves a whole line behind; it  *)
(* is the line of the event unless what was there was cut short.            *)

Whole      == lines = <<>> \/ lines[Len(lines)] # OpenLine
Durable(e) == \E i \in 1..flushed : lines[i] = e
Shown      == LastStatus(events)
Settled(s) == LastStatus(lines) = s /\ LastStatus(SubSeq(lines, 1, flushed)) = s

\* Neither the lines of the log nor the durable ones end the task better than Failed.
Better  == Terminal \ {"Failed"}
Unended == LastStatus(lines) \notin Better /\ LastStatus(SubSeq(lines, 1, flushed)) \notin Better

\* A record that succeeded, as far as it matters later.
Success(e) ==
  /\ Recorded(e)' /\ Whole'
  /\ Whole => Durable(e)'
  /\ e.kind = "status" => Shown' = e.val /\ (Whole => Settled(e.val)')

\* The past is not changed by a step, whatever the step records.
Kept ==
  /\ \A x : Recorded(x) => Recorded(x)'
  /\ \A x : x # OpenLine /\ Durable(x) => Durable(x)'

Unsaid == Shown' = Shown /\ (\A s : Settled(s) => Settled(s)') /\ (Unended => Unended')

\* Lines that a run records.
LEMMA EventLines ==
  /\ \A s \in TaskStatus : /\ Status(s) \in Line /\ Status(s) \notin {OpenLine, BadLine}
                           /\ Status(s).kind = "status" /\ Status(s).val = s
  /\ \A k \in {"created", "requested", "error", "artifact", "log"} :
       /\ Plain(k) \in Line /\ Plain(k) \notin {OpenLine, BadLine} /\ Plain(k).kind = k
  /\ \A d \in Decisions : Event("decision", d) \in Line
  /\ \A a \in Answers : Event("resolved", a) \in Line
  /\ \A x \in ExitStatus : Event("exit", x) \in Line
  /\ \A k \in {"decision", "resolved", "exit"} : \A v :
       /\ Event(k, v) \notin {OpenLine, BadLine} /\ Event(k, v).kind = k
       /\ Event(k, v) # Status("Denied") /\ Event(k, v) # Plain("error")
  /\ Status("Denied") # Plain("error")
BY DEF Status, Plain, Event, OpenLine, BadLine, Line

LEMMA RecordEventTells ==
  ASSUME TypeOK, NEW e \in Line, e \notin {OpenLine, BadLine}, NEW next, NEW failed,
         RecordEvent(e, next, failed)
  PROVE  /\ Kept
         /\ \A x : Recorded(x)' => Recorded(x) \/ x = e
         /\ e.kind # "status" => Unsaid
         /\ e.kind = "status" /\ e.val \notin Better => (Unended => Unended')
         /\ \/ pc' = next /\ Success(e)
            \/ pc' = failed /\ UNCHANGED events /\ (Whole /\ Unended => Whole' \/ Unended')
<1>0. lines \in Seq(Line) /\ events \in Seq(Line) /\ flushed \in 0..Len(lines) /\ Len(lines) \in Nat
  BY DEF TypeOK
<1>1. /\ Join(lines, e) \in Seq(Line) /\ Len(lines) <= Len(Join(lines, e)) /\ Len(Join(lines, e)) \in Nat
      /\ OpenLine \in Line
      /\ Join(lines, OpenLine) \in Seq(Line) /\ Len(lines) <= Len(Join(lines, OpenLine))
      /\ Len(Join(lines, OpenLine)) \in Nat
  <2>1. OpenLine \in Line
    BY PlainType DEF OpenLine
  <2>2. Join(lines, e) \in Seq(Line) /\ Len(lines) <= Len(Join(lines, e))
    BY <1>0, JoinType
  <2>3. Join(lines, OpenLine) \in Seq(Line) /\ Len(lines) <= Len(Join(lines, OpenLine))
    BY <1>0, <2>1, JoinType
  <2> QED BY <2>1, <2>2, <2>3
<1>2. OpenLine # BadLine /\ OpenLine.kind = "open"
  BY DEF OpenLine, BadLine, Plain, Event
<1>3. ASSUME NEW x \in {e, OpenLine}, NEW i \in 1..Len(lines), lines[i] # OpenLine
      PROVE  Join(lines, x)[i] = lines[i]
  BY <1>0, <1>3 DEF Join
<1>4. CASE lines' = Join(lines, e) /\ flushed' = Len(lines') /\ events' = Append(events, e) /\ pc' = next
  <2>1. /\ \A x : Recorded(x) => Recorded(x)'
        /\ \A x : Recorded(x)' => Recorded(x) \/ x = e
        /\ Recorded(e)'
    <3>1. /\ Len(events) \in Nat
          /\ DOMAIN events' = 1..(Len(events) + 1)
          /\ \A i \in 1..Len(events) : events'[i] = events[i]
          /\ events'[Len(events) + 1] = e
          /\ DOMAIN events = 1..Len(events)
      BY <1>0, <1>4
    <3> QED BY <3>1 DEF Recorded
  <2>2. \A x : x # OpenLine /\ Durable(x) => Durable(x)'
    BY <1>0, <1>1, <1>3, <1>4 DEF Durable
  <2>3. Whole'
    BY <1>0, <1>1, <1>2, <1>4 DEF Whole, Join
  <2>4. Whole => Durable(e)'
    BY <1>0, <1>4 DEF Whole, Durable, Join
  <2>5. SubSeq(lines', 1, flushed') = lines'
    BY <1>1, <1>4
  <2>6. CASE e.kind # "status"
    <3>1. Shown' = Shown
      BY <1>0, <1>4, <2>6, LastOfAppend DEF Shown, LastStatus
    <3>2. Last(lines', "status") = Last(lines, "status")
      BY <1>0, <1>4, <2>6, LastOfJoin
    <3>3. (\A s : Settled(s) => Settled(s)') /\ (Unended => Unended')
      BY <2>5, <3>2, Zenon DEF Settled, Unended, Better, LastStatus
    <3> QED BY <1>4, <2>1, <2>2, <2>3, <2>4, <2>6, <3>1, <3>3 DEF Kept, Unsaid, Success
  <2>7. CASE e.kind = "status"
    <3>1. Shown' = e.val
      BY <1>0, <1>4, <2>7, LastOfAppend DEF Shown, LastStatus
    <3>2. ASSUME Whole PROVE Settled(e.val)'
      <4>1. lines' = Append(lines, e)
        BY <1>4, <3>2 DEF Whole, Join
      <4>2. Last(lines', "status") = e.val
        BY <1>0, <4>1, <2>7, LastOfAppend
      <4> QED BY <2>5, <4>2, Zenon DEF Settled, LastStatus
    <3>3. ASSUME ~Whole PROVE Unended => Unended'
      <4>1. Join(lines, e) = Join(lines, Plain("error"))
        BY <3>3, EventLines DEF Whole, Join, OpenLine
      <4>2. Last(lines', "status") = Last(lines, "status")
        BY <1>0, <1>4, <4>1, EventLines, LastOfJoin
      <4> QED BY <2>5, <4>2, Zenon DEF Unended, Better, LastStatus
    <3>4. e.val \notin Better => (Unended => Unended')
      BY <3>2, <3>3 DEF Settled, Unended
    <3> QED BY <1>4, <2>1, <2>2, <2>3, <2>4, <2>7, <3>1, <3>2, <3>4 DEF Kept, Success
  <2> QED BY <2>6, <2>7
<1>5. CASE lines' \in Unflushed(lines, e) /\ UNCHANGED <<flushed, events>> /\ pc' = failed
  <2>1. PICK x \in {e, OpenLine} : lines' = Join(lines, x) /\ (x # e => e.kind \in Large)
    BY <1>5 DEF Unflushed
  <2>2. \A y : Recorded(y)' <=> Recorded(y)
    BY <1>5 DEF Recorded
  <2>3. \A y : y # OpenLine /\ Durable(y) => Durable(y)'
    BY <1>0, <1>3, <1>5, <2>1 DEF Durable
  <2>4. ASSUME x.kind # "status"
        PROVE  /\ Last(lines', "status") = Last(lines, "status")
               /\ Last(SubSeq(lines', 1, flushed'), "status") = Last(SubSeq(lines, 1, flushed), "status")
    <3>1. x \in Line
      BY <1>1, <2>1
    <3> QED BY <1>0, <1>5, <2>1, <2>4, <3>1, LastOfJoin, LastOfWritten
  <2>5. x.kind # "status" =>
          (\A s : Settled(s) => Settled(s)') /\ (Unended => Unended')
    BY <2>4, Zenon DEF Settled, Unended, Better, LastStatus
  <2>6. x.kind # "status" \/ x = e
    BY <1>2, <2>1
  <2>7. ASSUME x = e, e.kind = "status", Whole
        PROVE  Whole' /\ (e.val \notin Better => (Unended => Unended'))
    <3>1. lines' = Append(lines, e)
      BY <2>1, <2>7 DEF Whole, Join
    <3>2. Whole'
      BY <1>0, <3>1 DEF Whole
    <3>3. Last(lines', "status") = e.val
      BY <1>0, <2>7, <3>1, LastOfAppend
    <3>4. SubSeq(lines', 1, flushed') = SubSeq(lines, 1, flushed)
      BY <1>0, <1>5, <3>1
    <3>5. e.val \notin Better => (Unended => Unended')
      BY <3>3, <3>4, Zenon DEF Unended, Better, LastStatus
    <3> QED BY <3>2, <3>5
  <2>8. ASSUME x = e, ~Whole PROVE Unended => Unended'
    <3>1. Join(lines, e) = Join(lines, Plain("error"))
      BY <2>8, EventLines DEF Whole, Join, OpenLine
    <3>2. /\ Last(lines', "status") = Last(lines, "status")
          /\ Last(SubSeq(lines', 1, flushed'), "status") = Last(SubSeq(lines, 1, flushed), "status")
      BY <1>0, <1>5, <2>1, <2>8, <3>1, EventLines, LastOfJoin, LastOfWritten
    <3> QED BY <3>2, Zenon DEF Unended, Better, LastStatus
  <2>9. Shown' = Shown
    BY <1>5 DEF Shown, LastStatus
  <2>10. e.kind # "status" => Unsaid
    BY <2>5, <2>6, <2>9 DEF Unsaid
  <2>11. e.kind = "status" /\ e.val \notin Better => (Unended => Unended')
    BY <2>5, <2>6, <2>7, <2>8
  <2>12. Whole /\ Unended => Whole' \/ Unended'
    BY <2>5, <2>6, <2>7
  <2> QED BY <1>5, <2>2, <2>3, <2>10, <2>11, <2>12 DEF Kept
<1> QED BY <1>4, <1>5 DEF RecordEvent

-----------------------------------------------------------------------------
(* What a run tells of itself: where it is tells what it has recorded, what  *)
(* of it is durable, and what it will return.                                *)

\* Places that only a successful record, and calls after it, lead to.
Broken == Done \cup {"idle", "created", "preRunFailure", "logError", "diffError", "reportError"}

Intact == pc \notin Broken => Whole

\* A refusal: the decision is durable, and it or the answer to it was no yes.
Refusal ==
  /\ Durable(Event("decision", decision))
  /\ \/ Recorded(Event("decision", "Deny"))
     \/ \E a \in Answers \ {"Approved"} : Recorded(Event("resolved", a))

Unresolved == {"idle", "created", "taskCreated", "validating", "invocation", "preparing",
               "taskDir", "resolvedTask", "aborted"}

Denials ==
  /\ pc \notin Unresolved => resolved = run
  /\ pc \in Asking \cup {"deny"} => Durable(Event("decision", decision))
  /\ pc = "deny" \/ Recorded(Status("Denied")) => Refusal
  /\ final = "Denied" => Recorded(Status("Denied"))
  /\ final = "Denied" /\ pc \in {"report", "reportArtifact", "returned"} => Recorded(Plain("error"))

Exited == {"collecting", "diff", "diffArtifact", "diffError", "reporting", "finalise"}
Closing == {"report", "reportArtifact", "reportError", "reportFailed"} \cup Done
Clean   == {"Succeeded", "TimedOut"}

ExitSeen == {x \in ExitStatus : Recorded(Event("exit", x))}

Exits ==
  /\ ExitSeen \subseteq {exit}
  /\ ExitSeen # {} => pc \in Exited \cup Closing
  /\ pc \in Exited => ExitSeen # {}
  /\ pc \notin Closing \cup {"runFailed", "lastReport", "lastArtifact"} =>
       (Recorded(Plain("error")) => failure)
  /\ pc \in {"preRunError", "lastReport", "lastArtifact"} => final \notin Clean
  /\ final \in Clean /\ pc \in {"report", "reportArtifact", "returned"} =>
       /\ exit = (IF final = "TimedOut" THEN "timeout" ELSE "zero")
       /\ ExitSeen # {}
       /\ ~Recorded(Plain("error"))

\* The report of a run that returns anything but Failed.
Reported ==
  /\ report.run = run
  /\ report.shows.status = final
  /\ final = "Denied" =>
       /\ report.shows.errors
       /\ "Deny" \in report.shows.decisions \/ report.shows.approvals \ {"Approved"} # {}
  /\ final \in Clean => report.shows.exit = exit /\ ~report.shows.errors

\* From Preparing on, until a permission is recorded or denied, the log has no
\* end of the task.
Pending == {"taskDir", "resolvedTask", "evaluate", "decided", "deny"} \cup Asking

Agreed ==
  /\ status = final
  /\ final # "Failed" => Settled(final)
  /\ final = "Failed" => Unended

Statuses ==
  /\ pc \in Pending => Unended
  /\ pc = "preRunFailure" =>
       /\ Whole \/ Unended
       /\ Recorded(Status("Denied")) =>
            status = "Denied" /\ Whole /\ Shown = "Denied" /\ Settled("Denied")
  /\ pc \in {"preRunError", "report"} => Agreed /\ Shown = final
  /\ pc \in {"reportArtifact", "lastReport", "lastArtifact", "returned"} => Agreed
  /\ pc \in {"lastReport", "lastArtifact"} => final = "Failed"
  /\ pc \in {"reportArtifact", "returned"} /\ final # "Failed" => Reported

LEMMA LogTells ==
  ASSUME TypeOK, NEW e \in Line, e \notin {OpenLine, BadLine}, NEW from, NEW next, NEW failed,
         Log(from, e, next, failed)
  PROVE  /\ pc = from /\ UNCHANGED <<run, status, port, local>>
         /\ Kept
         /\ \A x : Recorded(x)' => Recorded(x) \/ x = e
         /\ e.kind # "status" => Unsaid
         /\ \/ pc' = next /\ Success(e)
            \/ pc' = failed /\ UNCHANGED events
BY RecordEventTells DEF Log

LEMMA SameLedgerTells ==
  ASSUME UNCHANGED ledger
  PROVE  /\ Kept /\ Unsaid
         /\ \A x : Recorded(x)' <=> Recorded(x)
         /\ Whole' <=> Whole
BY DEF ledger, Kept, Unsaid, Recorded, Durable, Whole, Shown, Settled, Unended, Better

LEMMA TransitionTells ==
  ASSUME TypeOK, NEW s \in TaskStatus, NEW next, NEW failed, Transition(s, next, failed)
  PROVE  /\ Kept
         /\ \A x : Recorded(x)' => Recorded(x) \/ x = Status(s)
         /\ s \notin Better => (Unended => Unended')
         /\ \/ pc' = next /\ status' = s /\ Success(Status(s))
            \/ pc' = failed /\ (Whole /\ Unended => Whole' \/ Unended')
                /\ \A x : Recorded(x)' => Recorded(x)
<1>1. Status(s) \in Line /\ Status(s) \notin {OpenLine, BadLine} /\ Status(s).kind = "status"
  BY EventLines
<1>2. CASE status' = s /\ RecordEvent(Status(s), next, failed)
  <2>1. /\ Kept
        /\ \A x : Recorded(x)' => Recorded(x) \/ x = Status(s)
        /\ Status(s).val \notin Better => (Unended => Unended')
        /\ \/ pc' = next /\ Success(Status(s))
           \/ pc' = failed /\ UNCHANGED events /\ (Whole /\ Unended => Whole' \/ Unended')
    BY <1>1, <1>2, RecordEventTells
  <2> QED BY <1>1, <1>2, <2>1, EventLines DEF Recorded
<1>3. CASE pc' = failed /\ UNCHANGED <<status, ledger>>
  BY <1>3, SameLedgerTells DEF Unsaid
<1> QED BY <1>2, <1>3 DEF Transition

\* A refusal is never taken back.
LEMMA RefusalKept ==
  ASSUME Kept, UNCHANGED decision
  PROVE  /\ Durable(Event("decision", decision)) => Durable(Event("decision", decision))'
         /\ Refusal => Refusal'
<1>1. Durable(Event("decision", decision)) => Durable(Event("decision", decision))'
  <2>1. PICK e : e = Event("decision", decision)
    OBVIOUS
  <2>2. e # OpenLine
    BY <2>1, EventLines
  <2>3. Durable(e) => Durable(e)'
    BY <2>2 DEF Kept
  <2>4. e = Event("decision", decision')
    BY <2>1
  <2> QED BY <2>1, <2>3, <2>4 DEF Durable
<1>2. \A x : Recorded(x) => Recorded(x)'
  BY DEF Kept
<1> QED BY <1>1, <1>2 DEF Refusal

\* Steps that say nothing new of how the run will end.
Routine ==
  \/ Create \/ RecordTaskCreated \/ Validate \/ BuildInvocation \/ Prepare
  \/ CreateTaskDir \/ WaitForApproval \/ RequestApproval \/ RecordRequested \/ Wait
  \/ CaptureBaseline \/ PrepareSandbox \/ MarkRunning \/ StartRunner \/ StopRunner
  \/ WriteLog \/ RecordLogArtifact \/ RecordLogChunk \/ LogsDone \/ MarkCollecting
  \/ CollectDiff \/ RecordDiff \/ MarkReporting

Silent ==
  /\ Kept
  /\ Unended => Unended'
  /\ \A x : Recorded(x)' /\ (x \in {Status("Denied"), Plain("error")} \/ x.kind = "exit") => Recorded(x)

Working == Cleared \ (Exited \cup {"runFailed", "lastReport", "lastArtifact"})

Stays(places) == pc \in places /\ pc' \in places \cup {"aborted"}

LEMMA LogIsSilent ==
  ASSUME TypeOK, Intact,
         NEW e \in {Plain(k) : k \in {"created", "requested", "artifact", "log"}},
         NEW from, NEW next, NEW failed,
         Log(from, e, next, failed)
  PROVE  /\ pc = from /\ pc' \in {next, failed}
         /\ UNCHANGED <<run, decision, exit, failure, final, resolved>>
         /\ Silent
         /\ pc' # failed => Whole'
<1>1. /\ e \in Line /\ e \notin {OpenLine, BadLine} /\ e.kind \notin {"status", "exit"}
      /\ e \notin {Status("Denied"), Plain("error")}
  BY DEF Plain, Event, OpenLine, BadLine, Line, Status
<1>2. /\ pc = from /\ UNCHANGED <<run, status, port, local>>
      /\ Kept
      /\ Unsaid
      /\ \A x : Recorded(x)' => Recorded(x) \/ x = e
      /\ \/ pc' = next /\ Success(e)
         \/ pc' = failed /\ UNCHANGED events
  BY <1>1, LogTells
<1> QED BY <1>1, <1>2 DEF Silent, Unsaid, Success, Intact, port, local

LEMMA MoveIsSilent ==
  ASSUME TypeOK, Intact, NEW s \in TaskStatus \ Better, NEW from, NEW next, NEW failed,
         Move(from, s, next, failed)
  PROVE  /\ pc = from /\ pc' \in {next, failed}
         /\ UNCHANGED <<run, decision, exit, failure, final, resolved>>
         /\ Silent
         /\ pc' # failed => Whole' /\ (pc \notin Broken => Unended')
<1>1. /\ Status(s).kind = "status" /\ Status(s).val = s
      /\ Status(s) \notin {Status("Denied"), Plain("error")}
  BY DEF Plain, Event, Status, Better, Terminal
<1>2. /\ Kept
      /\ \A x : Recorded(x)' => Recorded(x) \/ x = Status(s)
      /\ Unended => Unended'
      /\ \/ pc' = next /\ status' = s /\ Success(Status(s))
         \/ pc' = failed /\ \A x : Recorded(x)' => Recorded(x)
  BY TransitionTells DEF Move
<1>3. Settled(s)' => Unended'
  BY DEF Settled, Unended
<1> QED BY <1>1, <1>2, <1>3 DEF Silent, Success, Intact, Move, port, local

LEMMA CallIsSilent ==
  ASSUME Intact, UNCHANGED ledger
  PROVE  Silent /\ (pc \notin Broken => Whole')
<1>1. Kept /\ (\A x : Recorded(x)' <=> Recorded(x)) /\ (Whole' <=> Whole)
  BY SameLedgerTells
<1>2. Unended => Unended'
  BY SameLedgerTells DEF Unsaid
<1> QED BY <1>1, <1>2 DEF Silent, Intact

LEMMA RoutineTells ==
  ASSUME TypeInv, Intact, Routine
  PROVE  /\ UNCHANGED <<run, decision, exit, failure, final, resolved>>
         /\ Silent
         /\ \/ Stays(Unresolved \ {"aborted"}) \/ Stays(Working) \/ Stays(Exited)
            \/ pc \in Asking /\ pc' \in Asking \cup {"preRunFailure"}
         /\ pc' \in Pending => pc \in Pending \/ Unended'
         /\ Intact'
<1>1. CASE Create
  BY <1>1, MoveIsSilent
    DEF Create, TypeInv, TaskStatus, Terminal, Intact, Broken, Done, Pending, Better, Asking, Stays, Unresolved
<1>2. CASE RecordTaskCreated
  BY <1>2, LogIsSilent
    DEF RecordTaskCreated, TypeInv, Intact, Broken, Done, Pending, Better, Asking, Stays,
      Unresolved
<1>3. CASE Validate
  BY <1>3, MoveIsSilent
    DEF Validate, TypeInv, TaskStatus, Terminal, Intact, Broken, Done, Pending, Better, Asking, Stays, Unresolved
<1>4. CASE BuildInvocation
  BY <1>4, CallIsSilent
    DEF BuildInvocation, Call, Goto, port, local, Intact, Broken, Done, Pending, Better, Asking, Stays, Unresolved
<1>5. CASE Prepare
  BY <1>5, MoveIsSilent
    DEF Prepare, TypeInv, TaskStatus, Terminal, Intact, Broken, Done, Pending, Better, Asking, Stays, Unresolved
<1>6. CASE CreateTaskDir
  BY <1>6, CallIsSilent
    DEF CreateTaskDir, Call, Goto, port, local, Intact, Broken, Done, Pending, Better, Asking, Stays, Unresolved
<1>7. CASE WaitForApproval
  BY <1>7, MoveIsSilent
    DEF WaitForApproval, TypeInv, TaskStatus, Terminal, Intact, Broken, Done, Pending, Better, Asking
<1>8. CASE RequestApproval
  BY <1>8, CallIsSilent
    DEF RequestApproval, Call, Goto, port, local, Intact, Broken, Done, Pending, Better, Asking
<1>9. CASE RecordRequested
  BY <1>9, LogIsSilent
    DEF RecordRequested, TypeInv, Intact, Broken, Done, Pending, Better, Asking
<1>10. CASE Wait
  BY <1>10, CallIsSilent
    DEF Wait, Goto, port, local, Intact, Broken, Done, Pending, Better, Asking
<1>11. CASE CaptureBaseline
  BY <1>11, CallIsSilent
    DEF CaptureBaseline, Call, Goto, port, local, Intact, Broken, Done, Pending, Better, Asking, Stays, Working, Cleared,
      Exited
<1>12. CASE PrepareSandbox
  BY <1>12, CallIsSilent
    DEF PrepareSandbox, Call, Goto, port, local, Intact, Broken, Done, Pending, Better, Asking, Stays, Working, Cleared,
      Exited
<1>13. CASE MarkRunning
  BY <1>13, MoveIsSilent
    DEF MarkRunning, TypeInv, TaskStatus, Terminal, Intact, Broken, Done, Pending, Better, Asking, Stays, Working,
      Cleared, Exited
<1>14. CASE StartRunner
  BY <1>14, CallIsSilent
    DEF StartRunner, Goto, port, local, Intact, Broken, Done, Pending, Better, Asking, Stays, Working, Cleared, Exited
<1>15. CASE StopRunner
  BY <1>15, CallIsSilent
    DEF StopRunner, Goto, port, local, Intact, Broken, Done, Pending, Better, Asking, Stays, Working, Cleared, Exited
<1>16. CASE WriteLog
  BY <1>16, CallIsSilent
    DEF WriteLog, Call, Goto, port, local, Intact, Broken, Done, Pending, Better, Asking, Stays, Working, Cleared, Exited
<1>17. CASE RecordLogArtifact
  BY <1>17, LogIsSilent
    DEF RecordLogArtifact, TypeInv, Intact, Broken, Done, Pending, Better, Asking, Stays, Working, Cleared, Exited
<1>18. CASE RecordLogChunk
  <2>1. /\ Plain("log") \in Line /\ Plain("log") \notin {OpenLine, BadLine} /\ Plain("log").kind = "log"
        /\ Plain("log") \notin {Status("Denied"), Plain("error")}
    BY DEF Plain, Event, OpenLine, BadLine, Line, Status
  <2>2. /\ Kept
        /\ \A x : Recorded(x)' => Recorded(x) \/ x = Plain("log")
        /\ Unended => Unended'
        /\ \/ pc' = "logs" /\ Success(Plain("log"))
           \/ pc' = "logError"
    BY <1>18, <2>1, RecordEventTells DEF RecordLogChunk, TypeInv, Unsaid
  <2> QED BY <1>18, <2>1, <2>2
    DEF RecordLogChunk, Silent, Success, port, Intact, Broken, Done, Pending, Better, Asking, Stays, Working, Cleared,
      Exited
<1>19. CASE LogsDone
  BY <1>19, CallIsSilent
    DEF LogsDone, Goto, port, local, Intact, Broken, Done, Pending, Better, Asking, Stays, Working, Cleared, Exited
<1>20. CASE MarkCollecting
  BY <1>20, MoveIsSilent
    DEF MarkCollecting, TypeInv, TaskStatus, Terminal, Intact, Broken, Done, Pending, Better, Asking, Stays, Exited
<1>21. CASE CollectDiff
  BY <1>21, CallIsSilent
    DEF CollectDiff, Call, Goto, port, local, Intact, Broken, Done, Pending, Better, Asking, Stays, Exited
<1>22. CASE RecordDiff
  BY <1>22, LogIsSilent
    DEF RecordDiff, TypeInv, Intact, Broken, Done, Pending, Better, Asking, Stays, Exited
<1>23. CASE MarkReporting
  BY <1>23, MoveIsSilent
    DEF MarkReporting, TypeInv, TaskStatus, Terminal, Intact, Broken, Done, Pending, Better, Asking, Stays, Exited
<1> QED
  BY <1>1, <1>2, <1>3, <1>4, <1>5, <1>6, <1>7, <1>8, <1>9, <1>10, <1>11, <1>12, <1>13, <1>14,
      <1>15, <1>16, <1>17, <1>18, <1>19, <1>20, <1>21, <1>22, <1>23 DEF Routine

Account == Intact /\ Denials /\ Exits /\ Statuses

\* Recording an event changes what is known of that event alone.
LEMMA OthersSame ==
  ASSUME Kept, NEW e, \A x : Recorded(x)' => Recorded(x) \/ x = e
  PROVE  /\ e # Status("Denied") => (Recorded(Status("Denied"))' <=> Recorded(Status("Denied")))
         /\ e # Plain("error") => (Recorded(Plain("error"))' <=> Recorded(Plain("error")))
         /\ e.kind # "exit" => ExitSeen' = ExitSeen
<1>1. ASSUME NEW x, x # e PROVE Recorded(x)' <=> Recorded(x)
  BY <1>1 DEF Kept
<1>2. ASSUME e # Status("Denied")
      PROVE  Recorded(Status("Denied"))' <=> Recorded(Status("Denied"))
  <2>1. PICK d : d = Status("Denied")
    OBVIOUS
  <2>2. Recorded(d)' <=> Recorded(d)
    BY <1>1, <1>2, <2>1
  <2> QED BY <2>1, <2>2 DEF Recorded
<1>3. ASSUME e # Plain("error") PROVE Recorded(Plain("error"))' <=> Recorded(Plain("error"))
  <2>1. PICK d : d = Plain("error")
    OBVIOUS
  <2>2. Recorded(d)' <=> Recorded(d)
    BY <1>1, <1>3, <2>1
  <2> QED BY <2>1, <2>2 DEF Recorded
<1>4. ASSUME e.kind # "exit" PROVE ExitSeen' = ExitSeen
  <2> DEFINE seen(x) == Recorded(Event("exit", x))
  <2>1. ASSUME NEW x PROVE seen(x)' <=> seen(x)
    <3>1. PICK d : d = Event("exit", x)
      OBVIOUS
    <3>2. d # e
      BY <1>4, <3>1 DEF Event
    <3>3. Recorded(d)' <=> Recorded(d)
      BY <1>1, <3>2
    <3> QED BY <3>1, <3>3 DEF Recorded
  <2> HIDE DEF seen
  <2>2. {x \in ExitStatus : seen(x)'} = {x \in ExitStatus : seen(x)}
    BY <2>1
  <2> QED BY <2>2 DEF ExitSeen, seen
<1> QED BY <1>2, <1>3, <1>4

LEMMA SilentKeeps ==
  ASSUME Silent
  PROVE  /\ Recorded(Status("Denied"))' <=> Recorded(Status("Denied"))
         /\ Recorded(Plain("error"))' <=> Recorded(Plain("error"))
         /\ ExitSeen' = ExitSeen
<1>1. /\ Recorded(Status("Denied"))' <=> Recorded(Status("Denied"))
      /\ Recorded(Plain("error"))' <=> Recorded(Plain("error"))
  <2>1. ASSUME NEW x \in {Status("Denied"), Plain("error")} PROVE Recorded(x)' <=> Recorded(x)
    BY DEF Silent, Kept
  <2>2. PICK d : d = Status("Denied")
    OBVIOUS
  <2>3. PICK e : e = Plain("error")
    OBVIOUS
  <2>4. Recorded(d)' <=> Recorded(d)
    BY <2>1, <2>2
  <2>5. Recorded(e)' <=> Recorded(e)
    BY <2>1, <2>3
  <2> QED BY <2>2, <2>3, <2>4, <2>5 DEF Recorded
<1>2. ExitSeen' = ExitSeen
  <2> DEFINE seen(x) == Recorded(Event("exit", x))
  <2>1. ASSUME NEW x PROVE seen(x)' <=> seen(x)
    <3>1. PICK e : e = Event("exit", x)
      OBVIOUS
    <3>2. e.kind = "exit"
      BY <3>1 DEF Event
    <3>3. Recorded(e)' <=> Recorded(e)
      BY <3>2 DEF Silent, Kept
    <3> QED BY <3>1, <3>3 DEF Recorded
  <2> HIDE DEF seen
  <2>2. {x \in ExitStatus : seen(x)'} = {x \in ExitStatus : seen(x)}
    BY <2>1
  <2> QED BY <2>2 DEF ExitSeen, seen
<1> QED BY <1>1, <1>2

LEMMA RoutineAccount ==
  ASSUME TypeInv, Authority, Account, Routine
  PROVE  Account'
<1>1. /\ UNCHANGED <<run, decision, exit, failure, final, resolved>>
      /\ Silent
      /\ \/ Stays(Unresolved \ {"aborted"}) \/ Stays(Working) \/ Stays(Exited)
         \/ pc \in Asking /\ pc' \in Asking \cup {"preRunFailure"}
      /\ pc' \in Pending => pc \in Pending \/ Unended'
      /\ Intact'
  BY RoutineTells DEF Account
<1>2. /\ Durable(Event("decision", decision)) => Durable(Event("decision", decision))'
      /\ Refusal => Refusal'
      /\ Recorded(Status("Denied"))' <=> Recorded(Status("Denied"))
      /\ Recorded(Plain("error"))' <=> Recorded(Plain("error"))
      /\ ExitSeen' = ExitSeen
  BY <1>1, SilentKeeps, RefusalKept DEF Silent
<1>3. Denials'
  BY <1>1, <1>2 DEF Account, Denials, Stays, Unresolved, Asking, Working, Cleared, Exited
<1>4. Exits'
  BY <1>1, <1>2
    DEF Account, Exits, Stays, Unresolved, Asking, Working, Cleared, Exited, Closing, Done
<1>5. Statuses'
  <2>1. pc \in Asking => ~Recorded(Status("Denied"))
    BY DEF Authority
  <2>2. /\ pc' \notin {"preRunError", "report", "reportArtifact", "lastReport", "lastArtifact", "returned"}
        /\ pc' = "preRunFailure" => pc \in Asking
    BY <1>1 DEF Stays, Unresolved, Asking, Working, Cleared, Exited
  <2>3. pc \in Pending => Unended
    BY DEF Account, Statuses
  <2>4. pc' \in Pending \cup {"preRunFailure"} => Unended'
    BY <1>1, <2>2, <2>3 DEF Silent, Pending
  <2> QED BY <1>2, <2>1, <2>2, <2>4, Zenon DEF Statuses
<1> QED BY <1>1, <1>3, <1>4, <1>5 DEF Account

\* What is agreed stays so while nothing is said about the status.
LEMMA AgreedKept ==
  ASSUME Unsaid, UNCHANGED <<status, final>>
  PROVE  Agreed => Agreed'
<1>1. PICK f : f = final
  OBVIOUS
<1>2. (Settled(f) => Settled(f)') /\ (Unended => Unended')
  BY DEF Unsaid
<1> QED BY <1>1, <1>2 DEF Agreed, Settled

\* The status that a successful record ends the run with.
LEMMA AgreedReached ==
  ASSUME NEW s \in TaskStatus, Success(Status(s)), status' = s, final' = s,
         Whole \/ (s = "Failed" /\ Unended')
  PROVE  Agreed' /\ Shown' = final'
<1>1. Shown' = s /\ (Whole => Settled(s)')
  BY EventLines DEF Success
<1>2. s = "Failed" /\ Settled(s)' => Unended'
  BY DEF Settled, Unended, Better
<1> QED BY <1>1, <1>2 DEF Agreed, Settled

LEMMA VerdictAccount ==
  ASSUME TypeInv, Authority, Account,
         WriteResolvedTask \/ EvaluatePolicy \/ RecordDecision \/ RecordResolved \/ Deny
  PROVE  Account'
<1> USE DEF TypeInv
<1>1. CASE WriteResolvedTask
  <2>1. /\ Silent /\ Whole'
        /\ UNCHANGED <<run, decision, exit, failure, final>>
        /\ pc = "resolvedTask" /\ Unended'
        /\ (pc' = "evaluate" /\ resolved' = run) \/ pc' = "aborted"
    BY <1>1, CallIsSilent
      DEF WriteResolvedTask, Goto, Account, Statuses, Pending, Silent, local, Broken, Done
  <2>2. /\ Refusal => Refusal'
        /\ Recorded(Status("Denied"))' <=> Recorded(Status("Denied"))
        /\ Recorded(Plain("error"))' <=> Recorded(Plain("error"))
        /\ ExitSeen' = ExitSeen
    BY <2>1, SilentKeeps, RefusalKept DEF Silent
  <2>3. Intact' /\ Statuses'
    BY <2>1 DEF Intact, Statuses
  <2>4. Denials'
    BY <2>1, <2>2 DEF Account, Denials, Unresolved, Asking
  <2>5. Exits'
    BY <2>1, <2>2 DEF Account, Exits, Exited, Closing, Done
  <2> QED BY <2>3, <2>4, <2>5 DEF Account
<1>2. CASE EvaluatePolicy
  <2>1. /\ Silent /\ Whole'
        /\ UNCHANGED <<run, resolved, exit, failure, final>>
        /\ pc = "evaluate" /\ pc' \in {"decided", "preRunFailure"} /\ Unended'
    BY <1>2, CallIsSilent
      DEF EvaluatePolicy, Goto, Account, Statuses, Pending, Silent, port, local, Broken, Done
  <2>2. /\ Recorded(Status("Denied"))' <=> Recorded(Status("Denied"))
        /\ Recorded(Plain("error"))' <=> Recorded(Plain("error"))
        /\ ExitSeen' = ExitSeen
    BY <2>1, SilentKeeps
  <2>3. ~Recorded(Status("Denied"))
    BY <2>1 DEF Authority, Unasked
  <2>4. Intact' /\ Statuses'
    BY <2>1, <2>2, <2>3 DEF Intact, Statuses
  <2>5. Denials'
    BY <2>1, <2>2, <2>3 DEF Account, Denials, Unresolved, Asking
  <2>6. Exits'
    BY <2>1, <2>2 DEF Account, Exits, Exited, Closing, Done
  <2> QED BY <2>4, <2>5, <2>6 DEF Account
<1>3. CASE RecordDecision
  <2>0. PICK d, e : d = decision /\ e = Event("decision", d)
    OBVIOUS
  <2>1. PICK next : /\ Log("decided", e, next, "preRunFailure")
                    /\ next \in {"baseline", "waiting"} \/ (next = "deny" /\ d = "Deny")
    <3>1. PICK next : /\ Log("decided", e, next, "preRunFailure")
                      /\ d = "Allow" => next = "baseline"
                      /\ d = "Deny" => next = "deny"
                      /\ d = "RequireApproval" => next = "waiting"
      BY <1>3, <2>0 DEF RecordDecision
    <3>2. d \in Decisions
      BY <2>0, <3>1 DEF Log, Located
    <3> QED BY <3>1, <3>2 DEF Decisions
  <2>2. d \in Decisions /\ Whole
    <3>1. pc = "decided"
      BY <2>1 DEF Log
    <3> QED BY <2>0, <3>1 DEF Located, Account, Intact, Broken, Done
  <2>3. /\ e \in Line /\ e \notin {OpenLine, BadLine} /\ e.kind = "decision"
        /\ e # Status("Denied") /\ e # Plain("error")
    <3>1. e.kind = "decision"
      BY <2>0 DEF Event
    <3> QED BY <2>0, <2>2, <3>1, EventLines
  <2>4. /\ pc = "decided" /\ UNCHANGED <<run, status, port, local>>
        /\ Kept
        /\ \A x : Recorded(x)' => Recorded(x) \/ x = e
        /\ (pc' = next /\ Success(e)) \/ pc' = "preRunFailure"
        /\ Unended => Unended'
    BY <2>1, <2>2, <2>3, LogTells DEF Unsaid
  <2>5. /\ Recorded(Status("Denied"))' <=> Recorded(Status("Denied"))
        /\ Recorded(Plain("error"))' <=> Recorded(Plain("error"))
        /\ ExitSeen' = ExitSeen
        /\ ~Recorded(Status("Denied"))
    BY <2>3, <2>4, OthersSame DEF Authority, Unasked
  <2>6. UNCHANGED <<run, status, decision, resolved, exit, failure, final>>
    BY <2>4 DEF port, local
  <2>7. pc' # "preRunFailure" => Durable(Event("decision", decision))'
    <3>1. pc' # "preRunFailure" => Durable(e)'
      BY <2>2, <2>4 DEF Success
    <3>2. e = Event("decision", decision')
      BY <2>0, <2>6
    <3> QED BY <3>1, <3>2 DEF Durable
  <2>8. pc' = "deny" => Refusal'
    <3>1. pc' = "deny" => Recorded(e)' /\ e = Event("decision", "Deny")
      BY <2>0, <2>1, <2>4 DEF Success
    <3> QED BY <2>7, <3>1 DEF Refusal
  <2>9. Intact' /\ Statuses'
    <3>1. Unended'
      BY <2>4 DEF Account, Statuses, Pending, Asking
    <3> QED BY <2>1, <2>4, <2>5, <3>1 DEF Success, Intact, Broken, Statuses
  <2>10. Denials'
    BY <2>1, <2>4, <2>5, <2>6, <2>7, <2>8 DEF Account, Denials, Unresolved, Asking
  <2>11. Exits'
    BY <2>1, <2>4, <2>5, <2>6 DEF Account, Exits, Exited, Closing, Done
  <2> QED BY <2>9, <2>10, <2>11 DEF Account
<1>4. CASE RecordResolved
  <2>0. PICK a, e : a = answer /\ e = Event("resolved", a)
    OBVIOUS
  <2>1. PICK next : /\ Log("answered", e, next, "preRunFailure")
                    /\ next = "baseline" \/ (next = "deny" /\ a # "Approved")
    BY <1>4, <2>0 DEF RecordResolved
  <2>2. a \in Answers /\ Whole
    <3>1. pc = "answered"
      BY <2>1 DEF Log
    <3> QED BY <2>0, <3>1 DEF Located, Account, Intact, Broken, Done
  <2>3. /\ e \in Line /\ e \notin {OpenLine, BadLine} /\ e.kind = "resolved"
        /\ e # Status("Denied") /\ e # Plain("error")
    <3>1. e.kind = "resolved"
      BY <2>0 DEF Event
    <3> QED BY <2>0, <2>2, <3>1, EventLines
  <2>4. /\ pc = "answered" /\ UNCHANGED <<run, status, port, local>>
        /\ Kept
        /\ \A x : Recorded(x)' => Recorded(x) \/ x = e
        /\ (pc' = next /\ Success(e)) \/ pc' = "preRunFailure"
        /\ Unended => Unended'
    BY <2>1, <2>2, <2>3, LogTells DEF Unsaid
  <2>5. /\ Recorded(Status("Denied"))' <=> Recorded(Status("Denied"))
        /\ Recorded(Plain("error"))' <=> Recorded(Plain("error"))
        /\ ExitSeen' = ExitSeen
        /\ ~Recorded(Status("Denied"))
    BY <2>3, <2>4, OthersSame DEF Authority, Asking
  <2>6. UNCHANGED <<run, status, decision, resolved, exit, failure, final>>
    BY <2>4 DEF port, local
  <2>7. Durable(Event("decision", decision))'
    BY <2>4, <2>6, RefusalKept DEF Account, Denials, Asking
  <2>8. pc' = "deny" => Refusal'
    <3>1. pc' = "deny" => Recorded(e)' /\ e = Event("resolved", a) /\ a \in Answers \ {"Approved"}
      BY <2>0, <2>1, <2>2, <2>4 DEF Success
    <3> QED BY <2>7, <3>1 DEF Refusal
  <2>9. Intact' /\ Statuses'
    <3>1. Unended'
      BY <2>4 DEF Account, Statuses, Pending, Asking
    <3> QED BY <2>1, <2>4, <2>5, <3>1 DEF Success, Intact, Broken, Statuses
  <2>10. Denials'
    BY <2>1, <2>4, <2>5, <2>6, <2>7, <2>8 DEF Account, Denials, Unresolved, Asking
  <2>11. Exits'
    BY <2>1, <2>4, <2>5, <2>6 DEF Account, Exits, Exited, Closing, Done
  <2> QED BY <2>9, <2>10, <2>11 DEF Account
<1>5. CASE Deny
  <2>1. /\ pc = "deny" /\ Whole /\ Unended /\ Refusal /\ ~Recorded(Status("Denied"))
        /\ UNCHANGED <<run, decision, resolved, exit, failure, final>>
    BY <1>5
      DEF Deny, Move, port, local, Account, Intact, Broken, Done, Denials, Statuses, Pending,
      Authority
  <2>2. /\ Kept
        /\ \A x : Recorded(x)' => Recorded(x) \/ x = Status("Denied")
        /\ pc' = "preRunFailure"
        /\ \/ status' = "Denied" /\ Success(Status("Denied"))
           \/ (Whole' \/ Unended') /\ \A x : Recorded(x)' => Recorded(x)
    BY <1>5, <2>1, TransitionTells DEF Deny, Move, TaskStatus, Terminal
  <2>3. /\ Status("Denied") # Plain("error") /\ Status("Denied").kind = "status"
        /\ Status("Denied").val = "Denied"
    BY DEF Status, Plain, Event
  <2>4. /\ Recorded(Plain("error"))' <=> Recorded(Plain("error"))
        /\ ExitSeen' = ExitSeen
    BY <2>2, <2>3, OthersSame
  <2>5. Refusal'
    BY <2>1, <2>2, RefusalKept
  <2>6. Denials'
    BY <2>1, <2>2, <2>5 DEF Account, Denials, Unresolved, Asking, Kept
  <2>7. Exits'
    BY <2>1, <2>2, <2>4 DEF Account, Exits, Exited, Closing, Done
  <2>8. Intact'
    BY <2>2 DEF Intact, Broken
  <2>9. Statuses'
    <3>1. Whole' \/ Unended'
      BY <2>2 DEF Success
    <3>0. pc' \notin Pending
      BY <2>2 DEF Pending, Asking
    <3>2. CASE status' = "Denied" /\ Success(Status("Denied"))
      BY <2>1, <2>2, <2>3, <3>0, <3>1, <3>2 DEF Success, Statuses
    <3>3. CASE \A x : Recorded(x)' => Recorded(x)
      <4>1. ~Recorded(Status("Denied"))'
        <5>1. PICK e : e = Status("Denied")
          OBVIOUS
        <5>2. ~Recorded(e)'
          BY <2>1, <3>3, <5>1
        <5> QED BY <5>1, <5>2 DEF Recorded
      <4> QED BY <2>2, <3>0, <3>1, <4>1 DEF Statuses
    <3> QED BY <2>2, <3>2, <3>3
  <2> QED BY <2>6, <2>7, <2>8, <2>9 DEF Account
<1> QED BY <1>1, <1>2, <1>3, <1>4, <1>5

LEMMA PreRunEndAccount ==
  ASSUME TypeInv, Authority, Account, FinishPreRunFailure \/ RecordPreRunError
  PROVE  Account'
<1> USE DEF TypeInv
<1>1. CASE FinishPreRunFailure /\ Recorded(Status("Denied"))
  <2>1. /\ pc = "preRunFailure" /\ pc' = "preRunError" /\ final' = "Denied"
        /\ UNCHANGED <<status, ledger, run, decision, resolved, exit, failure>>
    BY <1>1 DEF FinishPreRunFailure, port
  <2>2. Silent /\ (Whole' <=> Whole) /\ Unsaid
    BY <2>1, SameLedgerTells DEF Silent, Unsaid
  <2>3. /\ Refusal => Refusal'
        /\ Recorded(Status("Denied"))' <=> Recorded(Status("Denied"))
        /\ Recorded(Plain("error"))' <=> Recorded(Plain("error"))
        /\ ExitSeen' = ExitSeen
    BY <2>1, <2>2, SilentKeeps, RefusalKept DEF Silent
  <2>4. status = "Denied" /\ Whole /\ Shown = "Denied" /\ Settled("Denied")
    BY <1>1, <2>1 DEF Account, Statuses
  <2>5. Intact' /\ Statuses'
    BY <2>1, <2>2, <2>4 DEF Unsaid, Intact, Statuses, Pending, Asking, Agreed, Settled
  <2>6. Denials'
    BY <1>1, <2>1, <2>3 DEF Account, Denials, Unresolved, Asking
  <2>7. Exits'
    BY <2>1, <2>3 DEF Account, Exits, Exited, Closing, Clean, Done
  <2> QED BY <2>5, <2>6, <2>7 DEF Account
<1>2. CASE FinishPreRunFailure /\ ~Recorded(Status("Denied"))
  <2>1. /\ pc = "preRunFailure" /\ final' = "Failed"
        /\ UNCHANGED <<run, decision, resolved, exit, failure>>
        /\ Transition("Failed", "preRunError", "aborted")
    BY <1>2 DEF FinishPreRunFailure, port
  <2>2. /\ Kept
        /\ \A x : Recorded(x)' => Recorded(x) \/ x = Status("Failed")
        /\ Unended => Unended'
        /\ \/ pc' = "preRunError" /\ status' = "Failed" /\ Success(Status("Failed"))
           \/ pc' = "aborted"
    BY <2>1, TransitionTells DEF TaskStatus, Terminal, Better
  <2>3. /\ Recorded(Status("Denied"))' <=> Recorded(Status("Denied"))
        /\ Recorded(Plain("error"))' <=> Recorded(Plain("error"))
        /\ ExitSeen' = ExitSeen
    <3>1. /\ Status("Failed") # Status("Denied") /\ Status("Failed") # Plain("error")
          /\ Status("Failed").kind = "status"
      BY DEF Status, Plain, Event
    <3> QED BY <2>2, <3>1, OthersSame
  <2>4. Intact'
    BY <2>2 DEF Success, Intact, Broken, Done
  <2>5. Statuses'
    <3>1. CASE pc' = "aborted"
      BY <3>1 DEF Statuses, Pending, Asking
    <3>2. CASE pc' = "preRunError" /\ status' = "Failed" /\ Success(Status("Failed"))
      <4>1. Whole \/ Unended'
        BY <1>2, <2>1, <2>2 DEF Account, Statuses
      <4>2. Agreed' /\ Shown' = final'
        BY <2>1, <3>2, <4>1, AgreedReached DEF TaskStatus, Terminal
      <4> QED BY <3>2, <4>2 DEF Statuses, Pending, Asking
    <3> QED BY <2>2, <3>1, <3>2
  <2>6. Denials'
    BY <1>2, <2>1, <2>2, <2>3 DEF Account, Denials, Unresolved, Asking
  <2>7. Exits'
    BY <2>1, <2>2, <2>3 DEF Account, Exits, Exited, Closing, Clean, Done
  <2> QED BY <2>4, <2>5, <2>6, <2>7 DEF Account
<1>3. CASE RecordPreRunError
  <2>1. /\ pc = "preRunError" /\ UNCHANGED <<run, status, port, local>>
        /\ Kept /\ Unsaid
        /\ \A x : Recorded(x)' => Recorded(x) \/ x = Plain("error")
        /\ (pc' = "report" /\ Success(Plain("error"))) \/ pc' = "aborted"
    BY <1>3, LogTells, EventLines DEF RecordPreRunError
  <2>2. /\ UNCHANGED <<run, status, decision, resolved, exit, failure, final>>
        /\ Refusal => Refusal'
        /\ Recorded(Status("Denied"))' <=> Recorded(Status("Denied"))
        /\ ExitSeen' = ExitSeen
    <3>1. Status("Denied") # Plain("error") /\ Plain("error").kind = "error"
      BY DEF Status, Plain, Event
    <3>2. UNCHANGED <<run, status, decision, resolved, exit, failure, final>>
      BY <2>1 DEF port, local
    <3> QED BY <2>1, <3>1, <3>2, OthersSame, RefusalKept
  <2>3. Intact'
    BY <2>1 DEF Success, Intact, Broken, Done
  <2>4. Statuses'
    <3>1. Agreed' /\ Shown' = Shown /\ Shown = final
      BY <2>1, <2>2, AgreedKept DEF Account, Statuses, Unsaid
    <3> QED BY <2>1, <2>2, <3>1 DEF Statuses, Pending, Asking
  <2>5. Denials'
    BY <2>1, <2>2 DEF Account, Denials, Unresolved, Asking, Success
  <2>6. Exits'
    BY <2>1, <2>2 DEF Account, Exits, Exited, Closing, Done
  <2> QED BY <2>3, <2>4, <2>5, <2>6 DEF Account
<1> QED BY <1>1, <1>2, <1>3

LEMMA RunErrorAccount ==
  ASSUME TypeInv, Authority, Account,
         CollectExit \/ RecordRunError \/ FailRun \/ RecordLogError \/ RecordDiffError
  PROVE  Account'
<1> USE DEF TypeInv
<1>1. CASE CollectExit
  <2>1. /\ Silent /\ Whole'
        /\ UNCHANGED <<run, resolved, decision, failure, final>>
        /\ pc = "collect" /\ pc' \in {"logs", "stop"}
    BY <1>1, CallIsSilent DEF CollectExit, Goto, Account, local, Broken, Done
  <2>2. /\ Refusal => Refusal'
        /\ Recorded(Status("Denied"))' <=> Recorded(Status("Denied"))
        /\ Recorded(Plain("error"))' <=> Recorded(Plain("error"))
        /\ ExitSeen' = ExitSeen
    BY <2>1, SilentKeeps, RefusalKept DEF Silent
  <2>3. Intact' /\ Statuses'
    BY <2>1 DEF Intact, Statuses, Pending, Asking
  <2>4. Denials'
    BY <2>1, <2>2 DEF Account, Denials, Unresolved, Asking
  <2>5. Exits'
    BY <2>1, <2>2 DEF Account, Exits, Exited, Closing, Done
  <2> QED BY <2>3, <2>4, <2>5 DEF Account
<1>2. CASE RecordRunError \/ RecordLogError \/ RecordDiffError
  <2>1. PICK next :
        /\ RecordEvent(Plain("error"), next, "aborted")
        /\ UNCHANGED <<run, status, port, decision, final>>
        /\ \/ pc = "runError" /\ next = "runFailed" /\ UNCHANGED failure
           \/ pc = "logError" /\ next = "exit" /\ failure' = TRUE
           \/ pc = "diffError" /\ next = "reporting" /\ failure' = TRUE
    BY <1>2 DEF RecordRunError, Log, local, RecordLogError, RecordDiffError, RememberFailure
  <2>2. /\ Kept
        /\ \A x : Recorded(x)' => Recorded(x) \/ x = Plain("error")
        /\ (pc' = next /\ Success(Plain("error"))) \/ pc' = "aborted"
    BY <2>1, RecordEventTells, EventLines
  <2>3. /\ UNCHANGED <<run, resolved, exit, decision, final>>
        /\ Refusal => Refusal'
        /\ Recorded(Status("Denied"))' <=> Recorded(Status("Denied"))
        /\ ExitSeen' = ExitSeen
    <3>1. Status("Denied") # Plain("error") /\ Plain("error").kind = "error"
      BY DEF Status, Plain, Event
    <3>2. UNCHANGED <<run, resolved, exit, decision, final>>
      BY <2>1 DEF port
    <3> QED BY <2>2, <3>1, <3>2, OthersSame, RefusalKept
  <2>4. Intact' /\ Statuses'
    BY <2>1, <2>2 DEF Success, Intact, Broken, Done, Statuses, Pending, Asking
  <2>5. Denials'
    BY <2>1, <2>2, <2>3 DEF Account, Denials, Unresolved, Asking
  <2>6. Exits'
    BY <2>1, <2>2, <2>3 DEF Account, Exits, Exited, Closing, Done
  <2> QED BY <2>4, <2>5, <2>6 DEF Account
<1>3. CASE FailRun
  <2>1. /\ pc = "runFailed" /\ final' = "Failed" /\ Whole
        /\ UNCHANGED <<run, decision, resolved, exit, failure>>
        /\ Transition("Failed", "lastReport", "aborted")
    BY <1>3 DEF FailRun, port, Account, Intact, Broken, Done
  <2>2. /\ Kept
        /\ \A x : Recorded(x)' => Recorded(x) \/ x = Status("Failed")
        /\ \/ pc' = "lastReport" /\ status' = "Failed" /\ Success(Status("Failed"))
           \/ pc' = "aborted"
    BY <2>1, TransitionTells DEF TaskStatus, Terminal
  <2>3. /\ Refusal => Refusal'
        /\ Recorded(Status("Denied"))' <=> Recorded(Status("Denied"))
        /\ ExitSeen' = ExitSeen
    <3>1. Status("Failed") # Status("Denied") /\ Status("Failed").kind = "status"
      BY DEF Status, Event
    <3> QED BY <2>1, <2>2, <3>1, OthersSame, RefusalKept
  <2>4. Intact'
    BY <2>2 DEF Success, Intact, Broken, Done
  <2>5. Statuses'
    <3>1. CASE pc' = "aborted"
      BY <3>1 DEF Statuses, Pending, Asking
    <3>2. CASE pc' = "lastReport" /\ status' = "Failed" /\ Success(Status("Failed"))
      <4>1. Agreed'
        BY <2>1, <3>2, AgreedReached DEF TaskStatus, Terminal
      <4> QED BY <2>1, <3>2, <4>1 DEF Statuses, Pending, Asking
    <3> QED BY <2>2, <3>1, <3>2
  <2>6. Denials'
    BY <2>1, <2>2, <2>3 DEF Account, Denials, Unresolved, Asking
  <2>7. Exits'
    BY <2>1, <2>2, <2>3 DEF Account, Exits, Exited, Closing, Clean, Done
  <2> QED BY <2>4, <2>5, <2>6, <2>7 DEF Account
<1> QED BY <1>1, <1>2, <1>3

LEMMA ExitAccount ==
  ASSUME TypeInv, Authority, Account, RecordExit \/ Finalise
  PROVE  Account'
<1> USE DEF TypeInv
<1>1. CASE RecordExit
  <2>0. PICK x, e : x = exit /\ e = Event("exit", x)
    OBVIOUS
  <2>1. Log("exit", e, "collecting", "aborted") /\ pc = "exit" /\ x \in ExitStatus
    BY <1>1, <2>0 DEF RecordExit, Log, Located
  <2>2. /\ e \in Line /\ e \notin {OpenLine, BadLine} /\ e.kind = "exit"
        /\ e # Status("Denied") /\ e # Plain("error")
    <3>1. e.kind = "exit"
      BY <2>0 DEF Event
    <3> QED BY <2>0, <2>1, <3>1, EventLines
  <2>3. /\ UNCHANGED <<run, status, port, local>>
        /\ Kept
        /\ \A y : Recorded(y)' => Recorded(y) \/ y = e
        /\ (pc' = "collecting" /\ Success(e)) \/ pc' = "aborted"
    BY <2>1, <2>2, LogTells
  <2>4. /\ UNCHANGED <<run, resolved, exit, decision, failure, final>>
        /\ Refusal => Refusal'
        /\ Recorded(Status("Denied"))' <=> Recorded(Status("Denied"))
        /\ Recorded(Plain("error"))' <=> Recorded(Plain("error"))
    <3>1. UNCHANGED <<run, resolved, exit, decision, failure, final>>
      BY <2>3 DEF port, local
    <3> QED BY <2>2, <2>3, <3>1, OthersSame, RefusalKept
  <2>5. ExitSeen' \subseteq {exit'} /\ (pc' = "collecting" => ExitSeen' # {})
    <3>1. ExitSeen = {}
      BY <2>1 DEF Account, Exits, Exited, Closing, Done
    <3>2. ASSUME NEW y \in ExitStatus, Recorded(Event("exit", y))' PROVE y = exit'
      <4>1. PICK f : f = Event("exit", y)
        OBVIOUS
      <4>2. ~Recorded(f)
        BY <3>1, <4>1 DEF ExitSeen
      <4>3. Recorded(f)'
        BY <3>2, <4>1 DEF Recorded
      <4>4. f = e
        BY <2>3, <4>2, <4>3
      <4> QED BY <2>0, <2>4, <4>1, <4>4 DEF Event
    <3>3. ASSUME pc' = "collecting" PROVE x \in ExitSeen'
      <4>1. Recorded(e)'
        BY <2>3, <3>3 DEF Success
      <4> QED BY <2>0, <2>1, <4>1 DEF ExitSeen, Recorded
    <3> QED BY <3>2, <3>3 DEF ExitSeen
  <2>6. Intact' /\ Statuses'
    BY <2>3 DEF Success, Intact, Broken, Done, Statuses, Pending, Asking
  <2>7. Denials'
    BY <2>1, <2>3, <2>4 DEF Account, Denials, Unresolved, Asking
  <2>8. Exits'
    BY <2>1, <2>3, <2>4, <2>5 DEF Account, Exits, Exited, Closing, Done
  <2> QED BY <2>6, <2>7, <2>8 DEF Account
<1>2. CASE Finalise
  <2>0. PICK s : s = FinalStatus
    OBVIOUS
  <2>1. /\ pc = "finalise" /\ final' = s /\ Whole
        /\ UNCHANGED <<run, decision, resolved, exit, failure>>
        /\ Transition(s, "report", "aborted")
    BY <1>2, <2>0 DEF Finalise, port, Account, Intact, Broken, Done
  <2>2. /\ s \in {"Succeeded", "TimedOut", "Failed"}
        /\ s \in Clean => ~failure /\ exit = (IF s = "TimedOut" THEN "timeout" ELSE "zero")
    BY <2>0 DEF FinalStatus, Clean
  <2>3. /\ Kept
        /\ \A x : Recorded(x)' => Recorded(x) \/ x = Status(s)
        /\ \/ pc' = "report" /\ status' = s /\ Success(Status(s))
           \/ pc' = "aborted"
    <3>1. s \in TaskStatus
      BY <2>2 DEF TaskStatus, Terminal
    <3> QED BY <2>1, <3>1, TransitionTells
  <2>4. /\ Refusal => Refusal'
        /\ Recorded(Status("Denied"))' <=> Recorded(Status("Denied"))
        /\ Recorded(Plain("error"))' <=> Recorded(Plain("error"))
        /\ ExitSeen' = ExitSeen
    <3>1. /\ Status(s) # Status("Denied") /\ Status(s) # Plain("error")
          /\ Status(s).kind = "status"
      BY <2>2 DEF Status, Plain, Event
    <3> QED BY <2>1, <2>3, <3>1, OthersSame, RefusalKept
  <2>5. Intact'
    BY <2>3 DEF Success, Intact, Broken, Done
  <2>6. Statuses'
    <3>1. CASE pc' = "aborted"
      BY <3>1 DEF Statuses, Pending, Asking
    <3>2. CASE pc' = "report" /\ status' = s /\ Success(Status(s))
      <4>1. s \in TaskStatus
        BY <2>2 DEF TaskStatus, Terminal
      <4>2. Agreed' /\ Shown' = final'
        BY <2>1, <3>2, <4>1, AgreedReached
      <4> QED BY <3>2, <4>2 DEF Statuses, Pending, Asking
    <3> QED BY <2>3, <3>1, <3>2
  <2>7. Denials'
    BY <2>1, <2>2, <2>3, <2>4 DEF Account, Denials, Unresolved, Asking
  <2>8. Exits'
    BY <2>1, <2>2, <2>3, <2>4 DEF Account, Exits, Exited, Closing, Done
  <2> QED BY <2>5, <2>6, <2>7, <2>8 DEF Account
<1> QED BY <1>1, <1>2

\* What the report shows is what the run recorded.
LEMMA ReportTells ==
  ASSUME TypeOK
  PROVE  LET shows == ReportData(events) IN
         /\ shows.status = Shown
         /\ shows.errors <=> Recorded(Plain("error"))
         /\ Recorded(Event("decision", "Deny")) => "Deny" \in shows.decisions
         /\ \A a \in Answers : Recorded(Event("resolved", a)) => a \in shows.approvals
         /\ \A x \in ExitStatus : ExitSeen = {x} => shows.exit = x
<1> DEFINE shows == ReportData(events)
<1>0. events \in Seq(Line) /\ \A i \in DOMAIN events : events[i] \in Line
  BY DEF TypeOK
<1>1. /\ shows.status = LastStatus(events) /\ shows.exit = Last(events, "exit")
      /\ shows.decisions = {events[i].val : i \in At(events, "decision")}
      /\ shows.approvals = {events[i].val : i \in At(events, "resolved")}
  BY DEF ReportData
<1>2. shows.errors <=> Recorded(Plain("error"))
  <2>1. \A i \in DOMAIN events : events[i].kind = "error" => events[i] = Plain("error")
    BY <1>0 DEF Line, Plain, Event
  <2>2. At(events, "error") # {} <=> Recorded(Plain("error"))
    BY <2>1 DEF At, Recorded, Plain, Event
  <2>3. shows.errors = (At(events, "error") # {})
    BY Zenon DEF ReportData
  <2> QED BY <2>2, <2>3, Zenon
<1>3. Recorded(Event("decision", "Deny")) => "Deny" \in shows.decisions
  BY <1>1 DEF Recorded, At, Event
<1>4. \A a \in Answers : Recorded(Event("resolved", a)) => a \in shows.approvals
  BY <1>1 DEF Recorded, At, Event
<1>5. ASSUME NEW x \in ExitStatus, ExitSeen = {x} PROVE shows.exit = x
  <2>1. \A i \in At(events, "exit") : events[i].val = x
    <3> SUFFICES ASSUME NEW i \in At(events, "exit") PROVE events[i].val = x
      OBVIOUS
    <3>1. i \in DOMAIN events /\ events[i].kind = "exit"
      BY DEF At
    <3>2. PICK y : y = events[i].val
      OBVIOUS
    <3>3. y \in ExitStatus /\ events[i] = Event("exit", y)
      BY <1>0, <3>1, <3>2 DEF Line, Event
    <3>4. y \in ExitSeen
      BY <3>1, <3>3 DEF ExitSeen, Recorded
    <3> QED BY <1>5, <3>2, <3>4
  <2>2. At(events, "exit") # {}
    <3>1. Recorded(Event("exit", x))
      BY <1>5 DEF ExitSeen
    <3> QED BY <3>1 DEF Recorded, At, Event
  <2>3. At(events, "exit") \in SUBSET (1..Len(events)) /\ Len(events) \in Nat
    BY <1>0 DEF At
  <2>4. PICK i \in At(events, "exit") : \A j \in At(events, "exit") : j <= i
    BY <2>2, <2>3, LastIndex
  <2>5. Last(events, "exit") = events[i].val
    BY <1>0, <2>4, LastIs
  <2> QED BY <1>1, <2>1, <2>4, <2>5
<1> HIDE DEF shows
<1>6. /\ shows.status = Shown
      /\ shows.errors <=> Recorded(Plain("error"))
      /\ Recorded(Event("decision", "Deny")) => "Deny" \in shows.decisions
      /\ \A a \in Answers : Recorded(Event("resolved", a)) => a \in shows.approvals
      /\ \A x \in ExitStatus : ExitSeen = {x} => shows.exit = x
  BY <1>1, <1>2, <1>3, <1>4, <1>5 DEF Shown
<1> QED BY <1>6 DEF shows

LEMMA ReportingAccount ==
  ASSUME TypeInv, Account, Reporting
  PROVE  Account'
<1> USE DEF TypeInv
<1>1. CASE GenerateReport
  <2>1. /\ pc = "report" /\ UNCHANGED <<run, status, ledger, local, resolved, exit>>
        /\ \/ pc' = "reportArtifact" /\ report' = [run |-> run, shows |-> ReportData(events)]
           \/ pc' = "reportError"
    BY <1>1 DEF GenerateReport, Generate, Goto
  <2>2. Silent /\ Whole' /\ Unsaid /\ UNCHANGED <<decision, failure, final>>
    BY <2>1, CallIsSilent, SameLedgerTells DEF Account, Broken, Done, local
  <2>3. /\ Refusal => Refusal'
        /\ Recorded(Status("Denied"))' <=> Recorded(Status("Denied"))
        /\ Recorded(Plain("error"))' <=> Recorded(Plain("error"))
        /\ ExitSeen' = ExitSeen
    BY <2>2, SilentKeeps, RefusalKept DEF Silent
  <2>4. Denials'
    BY <2>1, <2>2, <2>3 DEF Account, Denials, Unresolved, Asking
  <2>5. Exits'
    BY <2>1, <2>2, <2>3 DEF Account, Exits, Exited, Closing, Done
  <2>6. Agreed' /\ Shown = final
    BY <2>1, <2>2, AgreedKept DEF Account, Statuses
  <2>7. ASSUME pc' = "reportArtifact" PROVE Reported'
    <3>1. PICK shows : /\ shows = ReportData(events)
                       /\ shows.status = Shown
                       /\ shows.errors <=> Recorded(Plain("error"))
                       /\ Recorded(Event("decision", "Deny")) => "Deny" \in shows.decisions
                       /\ \A a \in Answers : Recorded(Event("resolved", a)) => a \in shows.approvals
                       /\ \A x \in ExitStatus : ExitSeen = {x} => shows.exit = x
      BY ReportTells
    <3>2. report' = [run |-> run, shows |-> shows]
      BY <2>1, <2>7, <3>1
    <3>3. final = "Denied" =>
            /\ shows.errors
            /\ "Deny" \in shows.decisions \/ shows.approvals \ {"Approved"} # {}
      BY <2>1, <3>1 DEF Account, Denials, Refusal
    <3>4. final \in Clean => shows.exit = exit /\ ~shows.errors
      <4>1. final \in Clean => ExitSeen = {exit} /\ exit \in ExitStatus /\ ~Recorded(Plain("error"))
        BY <2>1 DEF Account, Exits, ExitStatus
      <4> QED BY <3>1, <4>1
    <3> QED BY <2>1, <2>2, <2>6, <3>1, <3>2, <3>3, <3>4 DEF Reported
  <2>8. Intact' /\ Statuses'
    BY <2>1, <2>2, <2>6, <2>7 DEF Intact, Statuses, Pending, Asking
  <2> QED BY <2>4, <2>5, <2>8 DEF Account
<1>2. CASE RecordReport \/ RecordReportError \/ RecordLastReport
  <2>1. PICK kind, next, failed :
          /\ kind \in {"artifact", "error"}
          /\ Log(pc, Plain(kind), next, failed)
          /\ \/ pc = "reportArtifact" /\ kind = "artifact" /\ next = "returned" /\ failed = "reportError"
             \/ pc = "reportError" /\ kind = "error" /\ next = "reportFailed" /\ failed = "aborted"
             \/ pc = "lastArtifact" /\ kind = "artifact" /\ next = "returned" /\ failed = "returned"
    BY <1>2 DEF RecordReport, RecordReportError, RecordLastReport, Log
  <2>2. PICK e : e = Plain(kind)
    OBVIOUS
  <2>3. /\ e \in Line /\ e \notin {OpenLine, BadLine} /\ e.kind \notin {"status", "exit"}
        /\ e # Status("Denied") /\ (kind = "artifact" => e # Plain("error"))
    BY <2>1, <2>2 DEF Plain, Event, OpenLine, BadLine, Line, Status
  <2>4. /\ UNCHANGED <<run, status, port, local>>
        /\ Kept /\ Unsaid
        /\ \A x : Recorded(x)' => Recorded(x) \/ x = e
        /\ (pc' = next /\ Success(e)) \/ pc' = failed
    BY <2>1, <2>2, <2>3, LogTells
  <2>5. UNCHANGED <<run, status, resolved, report, decision, exit, failure, final>>
    BY <2>4 DEF port, local
  <2>6. /\ Refusal => Refusal'
        /\ Recorded(Status("Denied"))' <=> Recorded(Status("Denied"))
        /\ ExitSeen' = ExitSeen
        /\ kind = "artifact" => (Recorded(Plain("error"))' <=> Recorded(Plain("error")))
    BY <2>3, <2>4, <2>5, OthersSame, RefusalKept
  <2>7. Agreed => Agreed'
    BY <2>4, <2>5, AgreedKept
  <2>8. Reported => Reported'
    BY <2>5 DEF Reported
  <2>9. Intact'
    BY <2>1, <2>4 DEF Success, Intact, Broken, Done
  <2>10. Statuses'
    BY <2>1, <2>4, <2>5, <2>7, <2>8 DEF Account, Statuses, Pending, Asking
  <2>11. Denials'
    BY <2>1, <2>4, <2>5, <2>6 DEF Account, Denials, Unresolved, Asking, Statuses
  <2>12. Exits'
    BY <2>1, <2>4, <2>5, <2>6 DEF Account, Exits, Exited, Closing, Done
  <2> QED BY <2>9, <2>10, <2>11, <2>12 DEF Account
<1>3. CASE FailReport
  <2>1. /\ pc = "reportFailed" /\ final' = "Failed" /\ Whole
        /\ UNCHANGED <<run, decision, resolved, exit, failure>>
        /\ Transition("Failed", "returned", "aborted")
    BY <1>3 DEF FailReport, port, Account, Intact, Broken, Done
  <2>2. /\ Kept
        /\ \A x : Recorded(x)' => Recorded(x) \/ x = Status("Failed")
        /\ \/ pc' = "returned" /\ status' = "Failed" /\ Success(Status("Failed"))
           \/ pc' = "aborted"
    BY <2>1, TransitionTells DEF TaskStatus, Terminal
  <2>3. /\ Refusal => Refusal'
        /\ Recorded(Status("Denied"))' <=> Recorded(Status("Denied"))
        /\ ExitSeen' = ExitSeen
    <3>1. Status("Failed") # Status("Denied") /\ Status("Failed").kind = "status"
      BY DEF Status, Event
    <3> QED BY <2>1, <2>2, <3>1, OthersSame, RefusalKept
  <2>4. Intact'
    BY <2>2 DEF Success, Intact, Broken, Done
  <2>5. Statuses'
    <3>1. CASE pc' = "aborted"
      BY <3>1 DEF Statuses, Pending, Asking
    <3>2. CASE pc' = "returned" /\ status' = "Failed" /\ Success(Status("Failed"))
      <4>1. Agreed'
        BY <2>1, <3>2, AgreedReached DEF TaskStatus, Terminal
      <4> QED BY <2>1, <3>2, <4>1 DEF Statuses, Pending, Asking
    <3> QED BY <2>2, <3>1, <3>2
  <2>6. Denials'
    BY <2>1, <2>2, <2>3 DEF Account, Denials, Unresolved, Asking
  <2>7. Exits'
    BY <2>1, <2>2, <2>3 DEF Account, Exits, Exited, Closing, Clean, Done
  <2> QED BY <2>4, <2>5, <2>6, <2>7 DEF Account
<1>4. CASE GenerateLastReport
  <2>1. /\ pc = "lastReport" /\ pc' \in {"lastArtifact", "returned"}
        /\ UNCHANGED <<run, status, ledger, local, resolved, exit>>
    BY <1>4 DEF GenerateLastReport, Generate, Goto
  <2>2. Silent /\ Whole' /\ Unsaid /\ UNCHANGED <<decision, failure, final>>
    BY <2>1, CallIsSilent, SameLedgerTells DEF Account, Broken, Done, local
  <2>3. /\ Refusal => Refusal'
        /\ Recorded(Status("Denied"))' <=> Recorded(Status("Denied"))
        /\ Recorded(Plain("error"))' <=> Recorded(Plain("error"))
        /\ ExitSeen' = ExitSeen
    BY <2>2, SilentKeeps, RefusalKept DEF Silent
  <2>4. Denials'
    BY <2>1, <2>2, <2>3 DEF Account, Denials, Unresolved, Asking, Statuses
  <2>5. Exits'
    BY <2>1, <2>2, <2>3 DEF Account, Exits, Exited, Closing, Done
  <2>6. Agreed' /\ final' = "Failed"
    BY <2>1, <2>2, AgreedKept DEF Account, Statuses
  <2>7. Intact' /\ Statuses'
    BY <2>1, <2>2, <2>6 DEF Intact, Statuses, Pending, Asking
  <2> QED BY <2>4, <2>5, <2>7 DEF Account
<1> QED BY <1>1, <1>2, <1>3, <1>4 DEF Reporting

LEMMA AccountStep ==
  ASSUME TypeInv, Authority, Account, [Next]_vars
  PROVE  Account'
<1>1. CASE Step
  BY <1>1, RoutineAccount, VerdictAccount, PreRunEndAccount, RunErrorAccount, ExitAccount,
     ReportingAccount DEF Step, PreRun, Agent, Evidence, Routine
<1>2. CASE StartRun \/ UNCHANGED vars
  <2>1. /\ UNCHANGED <<status, ledger, port, local>>
        /\ (pc = "idle" /\ pc' = "created") \/ UNCHANGED <<pc, run>>
    BY <1>2 DEF StartRun, Goto, vars
  <2>2. /\ Silent /\ Unsaid /\ (Whole' <=> Whole)
        /\ UNCHANGED <<resolved, report, exit, decision, failure, final>>
    BY <2>1, SameLedgerTells DEF Silent, Unsaid, port, local
  <2>3. /\ Durable(Event("decision", decision)) => Durable(Event("decision", decision))'
        /\ Refusal => Refusal'
        /\ Recorded(Status("Denied"))' <=> Recorded(Status("Denied"))
        /\ Recorded(Plain("error"))' <=> Recorded(Plain("error"))
        /\ ExitSeen' = ExitSeen
    BY <2>2, SilentKeeps, RefusalKept DEF Silent
  <2>4. Intact'
    BY <2>1, <2>2 DEF Account, Intact, Broken
  <2>5. Denials'
    BY <2>1, <2>2, <2>3 DEF Account, Denials, Unresolved, Asking
  <2>6. Exits'
    BY <2>1, <2>2, <2>3 DEF Account, Exits, Exited, Closing, Done
  <2>7. Statuses'
    <3>1. CASE pc' = "created"
      BY <3>1 DEF Statuses, Pending, Asking
    <3>2. CASE UNCHANGED <<pc, run>>
      <4>1. /\ Agreed => Agreed'
            /\ Reported => Reported'
            /\ Shown' = Shown
            /\ Settled("Denied") => Settled("Denied")'
            /\ Unended => Unended'
        BY <2>1, <2>2, <3>2, AgreedKept DEF Reported, Unsaid
      <4>2. UNCHANGED status
        BY <2>1
      <4> QED BY <2>2, <2>3, <3>2, <4>1, <4>2 DEF Account, Statuses
    <3> QED BY <2>1, <3>1, <3>2
  <2> QED BY <2>4, <2>5, <2>6, <2>7 DEF Account
<1>3. CASE Exit \/ Crash
  <2>1. /\ pc' = "idle" /\ final' = "none" /\ events' = <<>> /\ ExitSeen' = {}
        /\ ~Recorded(Status("Denied"))' /\ ~Recorded(Plain("error"))'
    BY <1>3 DEF Exit, Crash, EndProcess, Recorded, ExitSeen
  <2> QED BY <2>1
    DEF Account, Intact, Broken, Denials, Unresolved, Asking, Exits, Exited, Closing,
        Clean, Done, Statuses, Pending
<1> QED BY <1>1, <1>2, <1>3 DEF Next, Finished

LEMMA InitAccount == Init => Account
<1> SUFFICES ASSUME Init PROVE Account
  OBVIOUS
<1>1. ExitSeen = {} /\ ~Recorded(Status("Denied")) /\ ~Recorded(Plain("error"))
  BY DEF Init, Recorded, ExitSeen
<1> QED BY <1>1 DEF Init, Account, Intact, Broken, Denials, Unresolved, Asking, Exits, Exited,
      Closing, Clean, Done, Statuses, Pending

\* The invariant that the theorems of this section rest on.
LEMMA RunAccounts == Spec => [](TypeInv /\ Authority /\ Account)
<1>1. Init => TypeInv /\ Authority /\ Account
  <2> SUFFICES ASSUME Init PROVE TypeInv /\ Authority
    BY InitAccount
  <2>1. ~Recorded(Status("Denied"))
    BY DEF Init, Recorded
  <2> QED BY <2>1, InitType DEF Init, Authority, Asking, Cleared
<1>2. TypeInv /\ Authority /\ Account /\ [Next]_vars => (TypeInv /\ Authority /\ Account)'
  BY TypeStep, AuthorityStep, AccountStep
<1> QED BY <1>1, <1>2, PTL DEF Spec

\* A run that returns Denied started no sandbox, and its refusal is in the
\* resolved task of this run, in the durable log and in the report of this run.
THEOREM DenialsLeaveEvidence == Spec => []DeniedLeavesEvidence
<1>1. TypeInv /\ Authority /\ Account => DeniedLeavesEvidence
  <2> SUFFICES ASSUME TypeInv, Authority, Account, pc = "returned", final = "Denied"
               PROVE  /\ sandbox = "none" /\ resolved = run
                      /\ \E i \in 1..flushed : lines[i] = Event("decision", decision)
                      /\ report.run = run /\ report.shows.errors
                      /\ "Deny" \in report.shows.decisions \/ report.shows.approvals \ {"Approved"} # {}
    BY DEF DeniedLeavesEvidence
  <2>1. Recorded(Status("Denied")) /\ Refusal /\ resolved = run
    BY DEF Account, Denials, Unresolved
  <2>2. sandbox = "none"
    BY <2>1 DEF Authority, Authorised
  <2>3. Reported
    BY DEF Account, Statuses
  <2> QED BY <2>1, <2>2, <2>3 DEF Refusal, Durable, Reported
<1> QED BY <1>1, RunAccounts, PTL

\* A run that returns Succeeded or TimedOut recorded that exit and no error, and
\* its report shows the exit and no error.
THEOREM CleanRunsAreWhole == Spec => []CleanOutcome
<1>1. TypeInv /\ Authority /\ Account => CleanOutcome
  <2> SUFFICES ASSUME Account, pc = "returned", final \in Clean
               PROVE  /\ exit = (IF final = "TimedOut" THEN "timeout" ELSE "zero")
                      /\ Recorded(Event("exit", exit))
                      /\ ~Recorded(Plain("error"))
                      /\ report.shows.exit = exit /\ ~report.shows.errors
    BY DEF CleanOutcome, Clean
  <2>1. /\ exit = (IF final = "TimedOut" THEN "timeout" ELSE "zero")
        /\ exit \in ExitSeen /\ ~Recorded(Plain("error"))
    BY DEF Account, Exits
  <2>2. Reported
    BY DEF Account, Statuses, Clean
  <2> QED BY <2>1, <2>2 DEF ExitSeen, Reported
<1> QED BY <1>1, RunAccounts, PTL

\* The status that run() returns is the one in the state store.  Any other than
\* Failed is in the durable log and in the report of this run; where a Failed line
\* was lost to a line cut short, the durable log has no other end of the task.
THEOREM OutcomesAgree == Spec => []StatusesAgree
<1>1. TypeInv /\ Authority /\ Account => StatusesAgree
  BY DEF Account, Statuses, Agreed, Settled, Unended, Better, Reported, StatusesAgree
<1> QED BY <1>1, RunAccounts, PTL

-----------------------------------------------------------------------------
(* The log alone shows the permission: what a run, a failed write or a crash *)
(* does to the file never brings a Running line without one.                 *)

Ends == {Status(s) : s \in {"Created", "Running"} \cup Terminal}

Proper(s) ==
  \A i \in DOMAIN s : s[i] = Status("Running") =>
    \E j \in 1..(i - 1) :
      s[j] \in Permit /\ \A k \in (j + 1)..(i - 1) : s[k] \notin Ends

Permitted == pc \in {"baseline", "prepare", "running"} => lines # <<>> /\ lines[Len(lines)] \in Permit

LEMMA LineKinds ==
  /\ OpenLine # BadLine
  /\ OpenLine \notin Permit /\ BadLine \notin Permit /\ OpenLine \notin Ends /\ BadLine \notin Ends
  /\ OpenLine # Status("Running") /\ BadLine # Status("Running")
  /\ OpenLine \in Line /\ BadLine \in Line /\ Status("Running") \in Line
BY DEF OpenLine, BadLine, Plain, Event, Permit, Ends, Status, Line, TaskStatus

\* A line that is not Running needs no permission, and hides none.
LEMMA JoinProper ==
  ASSUME NEW s \in Seq(Line), NEW e \in Line, e # Status("Running"), Proper(s)
  PROVE  Proper(Join(s, e))
<1>1. CASE s # <<>> /\ s[Len(s)] = OpenLine /\ e # OpenLine
  <2> DEFINE t == [s EXCEPT ![Len(s)] = BadLine]
  <2>1. /\ DOMAIN t = 1..Len(s) /\ DOMAIN s = 1..Len(s) /\ Len(s) \in Nat
        /\ t[Len(s)] = BadLine
        /\ \A i \in 1..Len(s) : t[i] = s[i] \/ (t[i] = BadLine /\ s[i] = OpenLine)
    BY <1>1
  <2> HIDE DEF t
  <2>2. Proper(t)
    <3> SUFFICES ASSUME NEW i \in 1..Len(s), t[i] = Status("Running")
                 PROVE  \E j \in 1..(i - 1) :
                          t[j] \in Permit /\ \A k \in (j + 1)..(i - 1) : t[k] \notin Ends
      BY <2>1 DEF Proper
    <3>1. s[i] = Status("Running")
      BY <2>1, LineKinds
    <3>2. PICK j \in 1..(i - 1) :
            s[j] \in Permit /\ \A k \in (j + 1)..(i - 1) : s[k] \notin Ends
      BY <2>1, <3>1 DEF Proper
    <3>3. j \in 1..Len(s) /\ \A k \in (j + 1)..(i - 1) : k \in 1..Len(s)
      BY <2>1, <3>2
    <3>4. t[j] \in Permit
      BY <2>1, <3>2, <3>3, LineKinds
    <3>5. \A k \in (j + 1)..(i - 1) : t[k] \notin Ends
      BY <2>1, <3>2, <3>3, LineKinds
    <3> QED BY <3>4, <3>5
  <2> QED BY <1>1, <2>2 DEF Join, t
<1>2. CASE s # <<>> /\ s[Len(s)] = OpenLine /\ e = OpenLine
  BY <1>2 DEF Join
<1>3. CASE ~(s # <<>> /\ s[Len(s)] = OpenLine)
  <2> DEFINE t == Append(s, e)
  <2>1. /\ DOMAIN t = 1..(Len(s) + 1) /\ DOMAIN s = 1..Len(s) /\ Len(s) \in Nat
        /\ t[Len(s) + 1] = e
        /\ \A i \in 1..Len(s) : t[i] = s[i]
    OBVIOUS
  <2> HIDE DEF t
  <2>2. Proper(t)
    <3> SUFFICES ASSUME NEW i \in 1..(Len(s) + 1), t[i] = Status("Running")
                 PROVE  \E j \in 1..(i - 1) :
                          t[j] \in Permit /\ \A k \in (j + 1)..(i - 1) : t[k] \notin Ends
      BY <2>1 DEF Proper
    <3>1. i \in 1..Len(s) /\ s[i] = Status("Running")
      BY <2>1
    <3>2. PICK j \in 1..(i - 1) :
            s[j] \in Permit /\ \A k \in (j + 1)..(i - 1) : s[k] \notin Ends
      BY <2>1, <3>1 DEF Proper
    <3>3. t[j] = s[j] /\ \A k \in (j + 1)..(i - 1) : t[k] = s[k]
      BY <2>1, <3>1, <3>2
    <3> QED BY <3>2, <3>3
  <2> QED BY <1>3, <2>2 DEF Join, t
<1> QED BY <1>1, <1>2, <1>3

\* Running right after a permission is as it should be.
LEMMA RunningProper ==
  ASSUME NEW s \in Seq(Line), s # <<>>, s[Len(s)] \in Permit, Proper(s)
  PROVE  Proper(Join(s, Status("Running")))
<1> DEFINE t == Append(s, Status("Running"))
<1>1. /\ DOMAIN t = 1..(Len(s) + 1) /\ DOMAIN s = 1..Len(s) /\ Len(s) \in Nat /\ Len(s) > 0
      /\ \A i \in 1..Len(s) : t[i] = s[i]
  OBVIOUS
<1>2. Join(s, Status("Running")) = t
  BY LineKinds DEF Join
<1> HIDE DEF t
<1>3. Proper(t)
  <2> SUFFICES ASSUME NEW i \in 1..(Len(s) + 1), t[i] = Status("Running")
               PROVE  \E j \in 1..(i - 1) :
                        t[j] \in Permit /\ \A k \in (j + 1)..(i - 1) : t[k] \notin Ends
    BY <1>1 DEF Proper
  <2>1. CASE i = Len(s) + 1
    <3>1. Len(s) \in 1..(i - 1) /\ t[Len(s)] \in Permit
      BY <1>1, <2>1
    <3>2. \A k \in (Len(s) + 1)..(i - 1) : t[k] \notin Ends
      BY <1>1, <2>1
    <3> QED BY <3>1, <3>2
  <2>2. CASE i \in 1..Len(s)
    <3>1. PICK j \in 1..(i - 1) :
            s[j] \in Permit /\ \A k \in (j + 1)..(i - 1) : s[k] \notin Ends
      BY <1>1, <2>2 DEF Proper
    <3>2. t[j] = s[j] /\ \A k \in (j + 1)..(i - 1) : t[k] = s[k]
      BY <1>1, <2>2, <3>1
    <3> QED BY <3>1, <3>2
  <2> QED BY <1>1, <2>1, <2>2
<1> QED BY <1>2, <1>3

\* Losing the end of the log loses no permission of what is left.
LEMMA PrefixProper ==
  ASSUME NEW s \in Seq(Line), NEW n \in 0..Len(s), Proper(s)
  PROVE  SubSeq(s, 1, n) \in Seq(Line) /\ Proper(SubSeq(s, 1, n))
<1> DEFINE t == SubSeq(s, 1, n)
<1>1. /\ t \in Seq(Line) /\ DOMAIN t = 1..n /\ DOMAIN s = 1..Len(s) /\ Len(s) \in Nat
      /\ \A i \in 1..n : t[i] = s[i]
  <2>1. \A i \in 1..n : s[i] \in Line
    OBVIOUS
  <2> QED BY <2>1, SubSeqProperties
<1> HIDE DEF t
<1>2. Proper(t)
  <2> SUFFICES ASSUME NEW i \in 1..n, t[i] = Status("Running")
               PROVE  \E j \in 1..(i - 1) :
                        t[j] \in Permit /\ \A k \in (j + 1)..(i - 1) : t[k] \notin Ends
    BY <1>1 DEF Proper
  <2>1. PICK j \in 1..(i - 1) :
          s[j] \in Permit /\ \A k \in (j + 1)..(i - 1) : s[k] \notin Ends
    <3>1. i \in DOMAIN s /\ s[i] = Status("Running")
      BY <1>1
    <3> QED BY <3>1 DEF Proper
  <2>2. t[j] = s[j] /\ \A k \in (j + 1)..(i - 1) : t[k] = s[k]
    BY <1>1, <2>1
  <2> QED BY <2>1, <2>2
<1> QED BY <1>1, <1>2 DEF t

LEMMA SurvivingProper ==
  ASSUME TypeOK, Proper(lines), NEW s \in Surviving
  PROVE  Proper(s)
<1>0. lines \in Seq(Line) /\ flushed \in 0..Len(lines) /\ Len(lines) \in Nat
  BY DEF TypeOK
<1>1. CASE s = lines
  BY <1>1
<1>2. CASE s # lines
  <2>1. PICK n \in flushed..(Len(lines) - 1) :
          s \in {Join(SubSeq(lines, 1, n), OpenLine), SubSeq(lines, 1, n)}
    BY <1>2 DEF Surviving
  <2>2. SubSeq(lines, 1, n) \in Seq(Line) /\ Proper(SubSeq(lines, 1, n))
    BY <1>0, <2>1, PrefixProper
  <2>3. Proper(Join(SubSeq(lines, 1, n), OpenLine))
    BY <2>2, LineKinds, JoinProper
  <2> QED BY <2>1, <2>2, <2>3
<1> QED BY <1>1, <1>2

\* A step that writes at most a line, and not Running.
Writes == \E e \in Line : e # Status("Running") /\ lines' \in {lines, Join(lines, e)}

LEMMA RecordWrites ==
  ASSUME TypeOK, NEW e \in Line, e # Status("Running"), NEW next, NEW failed,
         RecordEvent(e, next, failed)
  PROVE  Writes /\ pc' \in {next, failed}
BY LineKinds DEF RecordEvent, Unflushed, Writes

LEMMA LogWrites ==
  ASSUME TypeOK, NEW e \in Line, e # Status("Running"), NEW from, NEW next, NEW failed,
         Log(from, e, next, failed)
  PROVE  Writes /\ pc = from /\ pc' \in {next, failed}
BY RecordWrites DEF Log

LEMMA SameWrites == ASSUME UNCHANGED lines PROVE Writes
BY LineKinds DEF Writes

LEMMA TransitionWrites ==
  ASSUME TypeOK, NEW s \in TaskStatus \ {"Running"}, NEW next, NEW failed,
         Transition(s, next, failed)
  PROVE  Writes /\ pc' \in {next, failed}
<1>1. Status(s) \in Line /\ Status(s) # Status("Running")
  BY DEF Status, Event, Line
<1> QED BY <1>1, RecordWrites, SameWrites DEF Transition, ledger

LEMMA MoveWrites ==
  ASSUME TypeOK, NEW s \in TaskStatus \ {"Running"}, NEW from, NEW next, NEW failed,
         Move(from, s, next, failed)
  PROVE  Writes /\ pc = from /\ pc' \in {next, failed}
BY TransitionWrites DEF Move

LEMMA CallWrites ==
  ASSUME NEW from, NEW next, NEW failed, Call(from, next, failed)
  PROVE  UNCHANGED lines /\ pc = from /\ pc' \in {next, failed}
BY DEF Call, Goto, ledger

LEMMA PlainWrites ==
  \A k \in {"created", "requested", "error", "artifact", "log"} :
    Plain(k) \in Line /\ Plain(k) # Status("Running")
BY DEF Plain, Event, Line, Status

Trace == Proper(lines) /\ Permitted

\* A step that writes no Running, and does not claim a permission.
LEMMA WritesKeeps ==
  ASSUME TypeOK, Trace, Writes,
         pc' \in {"baseline", "prepare", "running"} =>
           UNCHANGED lines /\ pc \in {"baseline", "prepare", "running"}
  PROVE  Trace'
<1>1. Proper(lines')
  <2>1. lines \in Seq(Line)
    BY DEF TypeOK
  <2> QED BY <2>1, JoinProper DEF Writes, Trace
<1>2. Permitted'
  BY DEF Trace, Permitted
<1> QED BY <1>1, <1>2 DEF Trace, Proper

\* A permission is written in full: the log was whole before it.
LEMMA PermissionKeeps ==
  ASSUME TypeOK, Trace, Whole, NEW e \in Line, e # Status("Running"), NEW next, NEW failed,
         RecordEvent(e, next, failed),
         next \in {"baseline", "prepare", "running"} => e \in Permit,
         failed \notin {"baseline", "prepare", "running"}
  PROVE  Trace'
<1>0. lines \in Seq(Line) /\ Len(lines) \in Nat
  BY DEF TypeOK
<1>1. Writes /\ pc' \in {next, failed}
  BY RecordWrites
<1>2. CASE pc' \notin {"baseline", "prepare", "running"}
  BY <1>1, <1>2, WritesKeeps
<1>3. CASE pc' \in {"baseline", "prepare", "running"}
  <2>1. lines' = Join(lines, e) /\ e \in Permit
    BY <1>1, <1>3 DEF RecordEvent
  <2>2. lines' = Append(lines, e)
    BY <2>1 DEF Whole, Join
  <2>3. lines' # <<>> /\ lines'[Len(lines')] = e
    BY <1>0, <2>2
  <2>4. Proper(lines')
    BY <1>0, <2>1, JoinProper DEF Trace
  <2>5. Permitted'
    BY <2>1, <2>3 DEF Permitted, Permit
  <2> QED BY <2>4, <2>5 DEF Trace, Proper
<1> QED BY <1>2, <1>3

LEMMA PreRunTrace ==
  ASSUME TypeInv, Account, Trace, PreRun
  PROVE  Trace'
<1> USE DEF TypeInv
<1>1. CASE Create
  BY <1>1, MoveWrites, WritesKeeps DEF Create, TaskStatus, Terminal
<1>2. CASE RecordTaskCreated
  BY <1>2, LogWrites, PlainWrites, WritesKeeps DEF RecordTaskCreated
<1>3. CASE Validate
  BY <1>3, MoveWrites, WritesKeeps DEF Validate, TaskStatus, Terminal
<1>4. CASE BuildInvocation
  BY <1>4, CallWrites, SameWrites, WritesKeeps DEF BuildInvocation
<1>5. CASE Prepare
  BY <1>5, MoveWrites, WritesKeeps DEF Prepare, TaskStatus, Terminal
<1>6. CASE CreateTaskDir
  BY <1>6, CallWrites, SameWrites, WritesKeeps DEF CreateTaskDir
<1>7. CASE WriteResolvedTask
  BY <1>7, SameWrites, WritesKeeps DEF WriteResolvedTask, Goto, ledger
<1>8. CASE EvaluatePolicy
  BY <1>8, SameWrites, WritesKeeps DEF EvaluatePolicy, Goto, ledger
<1>9. CASE RecordDecision
  <2>0. PICK d, e : d = decision /\ e = Event("decision", d)
    OBVIOUS
  <2>1. pc = "decided"
    BY <1>9 DEF RecordDecision, Log
  <2>2. d \in Decisions /\ Whole
    BY <2>0, <2>1 DEF Located, Account, Intact, Broken, Done
  <2>3. PICK next : /\ RecordEvent(e, next, "preRunFailure")
                    /\ next = "baseline" => d = "Allow"
                    /\ next \in {"baseline", "waiting", "deny"}
    <3>1. PICK next : /\ RecordEvent(e, next, "preRunFailure")
                      /\ d = "Allow" => next = "baseline"
                      /\ d = "Deny" => next = "deny"
                      /\ d = "RequireApproval" => next = "waiting"
      BY <1>9, <2>0 DEF RecordDecision, Log
    <3> QED BY <2>2, <3>1 DEF Decisions
  <2>4. e \in Line /\ e # Status("Running") /\ (next = "baseline" => e \in Permit)
    <3>1. e.kind = "decision" /\ Status("Running").kind = "status"
      BY <2>0 DEF Event, Status
    <3> QED BY <2>0, <2>2, <2>3, <3>1, EventLines DEF Permit
  <2> QED BY <2>2, <2>3, <2>4, PermissionKeeps
<1>10. CASE Deny
  BY <1>10, MoveWrites, WritesKeeps DEF Deny, TaskStatus, Terminal
<1>11. CASE WaitForApproval
  BY <1>11, MoveWrites, WritesKeeps DEF WaitForApproval, TaskStatus, Terminal
<1>12. CASE RequestApproval
  BY <1>12, CallWrites, SameWrites, WritesKeeps DEF RequestApproval
<1>13. CASE RecordRequested
  BY <1>13, LogWrites, PlainWrites, WritesKeeps DEF RecordRequested
<1>14. CASE Wait
  BY <1>14, SameWrites, WritesKeeps DEF Wait, Goto, ledger
<1>15. CASE RecordResolved
  <2>0. PICK a, e : a = answer /\ e = Event("resolved", a)
    OBVIOUS
  <2>1. pc = "answered"
    BY <1>15 DEF RecordResolved, Log
  <2>2. a \in Answers /\ Whole
    BY <2>0, <2>1 DEF Located, Account, Intact, Broken, Done
  <2>3. PICK next : /\ RecordEvent(e, next, "preRunFailure")
                    /\ next = "baseline" => a = "Approved"
                    /\ next \in {"baseline", "deny"}
    BY <1>15, <2>0 DEF RecordResolved, Log
  <2>4. e \in Line /\ e # Status("Running") /\ (next = "baseline" => e \in Permit)
    <3>1. e.kind = "resolved" /\ Status("Running").kind = "status"
      BY <2>0 DEF Event, Status
    <3> QED BY <2>0, <2>2, <2>3, <3>1, EventLines DEF Permit
  <2> QED BY <2>2, <2>3, <2>4, PermissionKeeps
<1>16. CASE FinishPreRunFailure
  BY <1>16, TransitionWrites, SameWrites, WritesKeeps
    DEF FinishPreRunFailure, ledger, TaskStatus, Terminal
<1>17. CASE RecordPreRunError
  BY <1>17, LogWrites, PlainWrites, WritesKeeps DEF RecordPreRunError
<1> QED
  BY <1>1, <1>2, <1>3, <1>4, <1>5, <1>6, <1>7, <1>8, <1>9, <1>10, <1>11, <1>12, <1>13, <1>14,
      <1>15, <1>16, <1>17 DEF PreRun

LEMMA AgentTrace ==
  ASSUME TypeInv, Account, Trace, Agent
  PROVE  Trace'
<1> USE DEF TypeInv
<1>1. CASE CaptureBaseline
  BY <1>1, CallWrites, SameWrites, WritesKeeps DEF CaptureBaseline
<1>2. CASE PrepareSandbox
  BY <1>2, CallWrites, SameWrites, WritesKeeps DEF PrepareSandbox
<1>3. CASE MarkRunning
  <2>0. /\ pc = "running" /\ Transition("Running", "start", "aborted")
        /\ lines \in Seq(Line) /\ Proper(lines) /\ lines # <<>> /\ lines[Len(lines)] \in Permit
    BY <1>3 DEF MarkRunning, Move, TypeOK, Trace, Permitted
  <2>1. pc' \in {"start", "aborted"}
    BY <2>0 DEF Transition, RecordEvent
  <2>2. lines' \in {lines, Join(lines, Status("Running")), Join(lines, OpenLine)}
    BY <2>0 DEF Transition, RecordEvent, Unflushed, ledger
  <2>3. Proper(lines')
    BY <2>0, <2>2, RunningProper, JoinProper, LineKinds
  <2> QED BY <2>1, <2>3 DEF Trace, Proper, Permitted
<1>4. CASE StartRunner
  BY <1>4, SameWrites, WritesKeeps DEF StartRunner, Goto, ledger
<1>5. CASE CollectExit
  BY <1>5, SameWrites, WritesKeeps DEF CollectExit, Goto, ledger
<1>6. CASE StopRunner
  BY <1>6, SameWrites, WritesKeeps DEF StopRunner, Goto, ledger
<1>7. CASE RecordRunError
  BY <1>7, LogWrites, PlainWrites, WritesKeeps DEF RecordRunError
<1>8. CASE FailRun
  BY <1>8, TransitionWrites, WritesKeeps DEF FailRun, TaskStatus, Terminal
<1> QED
  BY <1>1, <1>2, <1>3, <1>4, <1>5, <1>6, <1>7, <1>8 DEF Agent

LEMMA EvidenceTrace ==
  ASSUME TypeInv, Account, Trace, Evidence
  PROVE  Trace'
<1> USE DEF TypeInv
<1>1. CASE WriteLog
  BY <1>1, CallWrites, SameWrites, WritesKeeps DEF WriteLog
<1>2. CASE RecordLogArtifact
  BY <1>2, LogWrites, PlainWrites, WritesKeeps DEF RecordLogArtifact
<1>3. CASE RecordLogChunk
  BY <1>3, RecordWrites, PlainWrites, WritesKeeps DEF RecordLogChunk
<1>4. CASE LogsDone
  BY <1>4, SameWrites, WritesKeeps DEF LogsDone, Goto, ledger
<1>5. CASE RecordLogError
  BY <1>5, RecordWrites, PlainWrites, WritesKeeps DEF RecordLogError, RememberFailure
<1>6. CASE RecordExit
  <2>0. PICK x, e : x = exit /\ e = Event("exit", x)
    OBVIOUS
  <2>1. Log("exit", e, "collecting", "aborted") /\ x \in ExitStatus
    BY <1>6, <2>0 DEF RecordExit, Log, Located
  <2>2. e \in Line /\ e # Status("Running")
    <3>1. e.kind = "exit" /\ Status("Running").kind = "status"
      BY <2>0 DEF Event, Status
    <3> QED BY <2>0, <2>1, <3>1, EventLines
  <2> QED BY <2>1, <2>2, LogWrites, WritesKeeps
<1>7. CASE MarkCollecting
  BY <1>7, MoveWrites, WritesKeeps DEF MarkCollecting, TaskStatus
<1>8. CASE CollectDiff
  BY <1>8, CallWrites, SameWrites, WritesKeeps DEF CollectDiff
<1>9. CASE RecordDiff
  BY <1>9, LogWrites, PlainWrites, WritesKeeps DEF RecordDiff
<1>10. CASE RecordDiffError
  BY <1>10, RecordWrites, PlainWrites, WritesKeeps DEF RecordDiffError, RememberFailure
<1>11. CASE MarkReporting
  BY <1>11, MoveWrites, WritesKeeps DEF MarkReporting, TaskStatus, Terminal
<1>12. CASE Finalise
  <2>0. PICK s : s = FinalStatus
    OBVIOUS
  <2>1. Transition(s, "report", "aborted") /\ s \in TaskStatus \ {"Running"}
    BY <1>12, <2>0 DEF Finalise, FinalStatus, TaskStatus, Terminal
  <2> QED BY <2>1, TransitionWrites, WritesKeeps
<1> QED
  BY <1>1, <1>2, <1>3, <1>4, <1>5, <1>6, <1>7, <1>8, <1>9, <1>10, <1>11, <1>12 DEF Evidence

LEMMA ReportingTrace ==
  ASSUME TypeInv, Account, Trace, Reporting
  PROVE  Trace'
<1> USE DEF TypeInv
<1>1. CASE GenerateReport
  BY <1>1, SameWrites, WritesKeeps DEF GenerateReport, Generate, Goto, ledger
<1>2. CASE RecordReport
  BY <1>2, LogWrites, PlainWrites, WritesKeeps DEF RecordReport
<1>3. CASE RecordReportError
  BY <1>3, LogWrites, PlainWrites, WritesKeeps DEF RecordReportError
<1>4. CASE FailReport
  BY <1>4, TransitionWrites, WritesKeeps DEF FailReport, TaskStatus, Terminal
<1>5. CASE GenerateLastReport
  BY <1>5, SameWrites, WritesKeeps DEF GenerateLastReport, Generate, Goto, ledger
<1>6. CASE RecordLastReport
  BY <1>6, LogWrites, PlainWrites, WritesKeeps DEF RecordLastReport
<1> QED
  BY <1>1, <1>2, <1>3, <1>4, <1>5, <1>6 DEF Reporting

LEMMA TraceStep ==
  ASSUME TypeInv, Account, Trace, [Next]_vars
  PROVE  Trace'
<1>1. CASE Step
  BY <1>1, PreRunTrace, AgentTrace, EvidenceTrace, ReportingTrace DEF Step
<1>2. CASE StartRun
  BY <1>2, SameWrites, WritesKeeps DEF StartRun, Goto, ledger, TypeInv
<1>3. CASE UNCHANGED vars
  BY <1>3, SameWrites, WritesKeeps DEF vars, ledger, TypeInv
<1>4. CASE Exit \/ Crash
  <2>1. pc' = "idle" /\ lines' \in Surviving
    BY <1>4 DEF Exit, Crash, EndProcess
  <2>2. Proper(lines')
    BY <2>1, SurvivingProper DEF TypeInv, Trace
  <2> QED BY <2>1, <2>2 DEF Trace, Proper, Permitted
<1> QED BY <1>1, <1>2, <1>3, <1>4 DEF Next, Finished

LEMMA RunTraces == Spec => [](TypeInv /\ Trace)
<1>1. Init => Trace
  BY DEF Init, Trace, Proper, Permitted
<1>2. TypeInv /\ Account /\ Trace /\ [Next]_vars => Trace'
  BY TraceStep
<1> QED BY <1>1, <1>2, RunAccounts, PTL DEF Spec

\* In the log of any number of runs of a task, whatever crashes and failed
\* writes left of it, every Running line follows the permission of its own run.
THEOREM PermissionPrecedesRunning == Spec => []EvidencePrecedesRunning
<1>1. Trace => EvidencePrecedesRunning
  BY DEF Trace, Proper, Ends, EvidencePrecedesRunning
<1> QED BY <1>1, RunTraces, PTL

-----------------------------------------------------------------------------
(* What a caller of this module may rely on while its runner works: the      *)
(* Running line is durable, no later run is begun in the log, and only the   *)
(* calls of the runner touch what the run knows of its sandbox.              *)

Fresh == Status("Created")

\* Running stands in the file, and no run began after it.
OnRecord ==
  \E i \in 1..flushed :
    lines[i] = Status("Running") /\ \A k \in (i + 1)..Len(lines) : lines[k] # Fresh

Onward == OnRecord => OnRecord'

\* Longer by a line that begins no run, and as much of it in the file.
Longer(s, t, n, m) ==
  /\ \A i \in 1..n : s[i] = Status("Running") => t[i] = Status("Running")
  /\ \A k \in 1..Len(t) : t[k] = Fresh => k \in 1..Len(s) /\ s[k] = Fresh
  /\ n <= m

LEMMA LongerOnward ==
  ASSUME TypeOK, lines' \in Seq(Line), flushed' \in Nat, Longer(lines, lines', flushed, flushed')
  PROVE  Onward
<1>1. Len(lines) \in Nat /\ flushed \in 0..Len(lines) /\ Len(lines') \in Nat
  BY DEF TypeOK
<1>2. SUFFICES ASSUME NEW i \in 1..flushed, lines[i] = Status("Running"),
                      \A k \in (i + 1)..Len(lines) : lines[k] # Fresh
               PROVE  OnRecord'
  BY DEF Onward, OnRecord
<1>3. i \in 1..flushed' /\ lines'[i] = Status("Running")
  BY <1>1, <1>2 DEF Longer
<1>4. \A k \in (i + 1)..Len(lines') : lines'[k] # Fresh
  <2> SUFFICES ASSUME NEW k \in (i + 1)..Len(lines'), lines'[k] = Fresh PROVE FALSE
    OBVIOUS
  <2>1. k \in 1..Len(lines') /\ k \in Nat /\ i < k
    BY <1>1
  <2>2. k \in 1..Len(lines) /\ lines[k] = Fresh
    BY <2>1 DEF Longer
  <2>3. k \in (i + 1)..Len(lines)
    BY <1>1, <2>1, <2>2
  <2> QED BY <1>2, <2>2, <2>3
<1> QED BY <1>3, <1>4 DEF OnRecord

LEMMA FreshLine ==
  /\ OpenLine # Fresh /\ BadLine # Fresh /\ Status("Running") # Fresh /\ Fresh \in Line
  /\ OpenLine # Status("Running")
BY DEF OpenLine, BadLine, Plain, Event, Status, Fresh, Line, TaskStatus

\* Writing a line that begins no run keeps the Running line where it was.
LEMMA JoinLonger ==
  ASSUME NEW s \in Seq(Line), NEW e \in Line, e # Fresh, NEW n \in 0..Len(s), NEW m \in Nat, n <= m
  PROVE  Longer(s, Join(s, e), n, m)
<1>1. CASE s # <<>> /\ s[Len(s)] = OpenLine /\ e # OpenLine
  <2> DEFINE t == [s EXCEPT ![Len(s)] = BadLine]
  <2>1. /\ t \in Seq(Line) /\ DOMAIN t = 1..Len(s) /\ Len(s) \in Nat /\ Len(t) = Len(s)
        /\ \A i \in 1..Len(s) : t[i] = s[i] \/ (t[i] = BadLine /\ s[i] = OpenLine)
    <3>1. Len(s) \in 1..Len(s)
      BY <1>1
    <3> QED BY <1>1, <3>1, LineKinds, ExceptSeq
  <2>2. Join(s, e) = t
    BY <1>1 DEF Join
  <2> HIDE DEF t
  <2>3. n \in Nat /\ \A i \in 1..n : i \in 1..Len(s)
    BY <2>1
  <2> QED BY <2>1, <2>2, <2>3, FreshLine DEF Longer
<1>2. CASE s # <<>> /\ s[Len(s)] = OpenLine /\ e = OpenLine
  BY <1>2 DEF Join, Longer
<1>3. CASE ~(s # <<>> /\ s[Len(s)] = OpenLine)
  <2> DEFINE t == Append(s, e)
  <2>1. /\ Len(s) \in Nat /\ Len(t) = Len(s) + 1 /\ t[Len(s) + 1] = e
        /\ \A i \in 1..Len(s) : t[i] = s[i]
    OBVIOUS
  <2>2. Join(s, e) = t
    BY <1>3 DEF Join
  <2> HIDE DEF t
  <2>3. n \in Nat /\ \A i \in 1..n : i \in 1..Len(s)
    BY <2>1
  <2>4. \A k \in 1..Len(t) : k = Len(s) + 1 \/ k \in 1..Len(s)
    BY <2>1
  <2> QED BY <2>1, <2>2, <2>3, <2>4 DEF Longer
<1> QED BY <1>1, <1>2, <1>3

LEMMA RecordOnward ==
  ASSUME TypeOK, NEW e \in Line, e # Fresh, NEW next, NEW failed, RecordEvent(e, next, failed)
  PROVE  Onward /\ pc' \in {next, failed}
<1>1. lines \in Seq(Line) /\ Len(lines) \in Nat /\ flushed \in 0..Len(lines) /\ flushed \in Nat
  BY DEF TypeOK
<1>2. \A x \in {e, OpenLine} :
        /\ Join(lines, x) \in Seq(Line) /\ Len(Join(lines, x)) \in Nat
        /\ flushed <= Len(Join(lines, x))
        /\ Longer(lines, Join(lines, x), flushed, flushed)
        /\ Longer(lines, Join(lines, x), flushed, Len(Join(lines, x)))
  <2> SUFFICES ASSUME NEW x \in {e, OpenLine}
               PROVE  /\ Join(lines, x) \in Seq(Line) /\ Len(Join(lines, x)) \in Nat
                      /\ flushed <= Len(Join(lines, x))
                      /\ Longer(lines, Join(lines, x), flushed, flushed)
                      /\ Longer(lines, Join(lines, x), flushed, Len(Join(lines, x)))
    OBVIOUS
  <2>1. x \in Line /\ x # Fresh
    BY FreshLine, LineKinds
  <2>2. Join(lines, x) \in Seq(Line) /\ Len(lines) <= Len(Join(lines, x))
    BY <1>1, <2>1, JoinType
  <2>3. Len(Join(lines, x)) \in Nat /\ flushed <= Len(Join(lines, x))
    BY <1>1, <2>2
  <2>4. Longer(lines, Join(lines, x), flushed, flushed)
    BY <1>1, <2>1, JoinLonger
  <2>5. Longer(lines, Join(lines, x), flushed, Len(Join(lines, x)))
    BY <1>1, <2>1, <2>3, JoinLonger
  <2> QED BY <2>2, <2>3, <2>4, <2>5
<1>3. PICK x \in {e, OpenLine} :
        /\ lines' = Join(lines, x) /\ flushed' \in {flushed, Len(Join(lines, x))}
        /\ pc' \in {next, failed}
  BY DEF RecordEvent, Unflushed
<1>4. lines' \in Seq(Line) /\ flushed' \in Nat /\ Longer(lines, lines', flushed, flushed')
  BY <1>1, <1>2, <1>3
<1> QED BY <1>3, <1>4, LongerOnward

LEMMA SameOnward == ASSUME UNCHANGED <<lines, flushed>> PROVE Onward
BY DEF Onward, OnRecord

LEMMA LogOnward ==
  ASSUME TypeOK, NEW e \in Line, e # Fresh, NEW from, NEW next, NEW failed,
         Log(from, e, next, failed)
  PROVE  Onward /\ pc = from /\ pc' \in {next, failed}
BY RecordOnward DEF Log

LEMMA TransitionOnward ==
  ASSUME TypeOK, NEW s \in TaskStatus \ {"Created"}, NEW next, NEW failed,
         Transition(s, next, failed)
  PROVE  Onward /\ pc' \in {next, failed}
<1>1. Status(s) \in Line /\ Status(s) # Fresh
  BY DEF Status, Event, Line, Fresh
<1> QED BY <1>1, RecordOnward, SameOnward DEF Transition, ledger

LEMMA MoveOnward ==
  ASSUME TypeOK, NEW s \in TaskStatus \ {"Created"}, NEW from, NEW next, NEW failed,
         Move(from, s, next, failed)
  PROVE  Onward /\ pc = from /\ pc' \in {next, failed}
BY TransitionOnward DEF Move

LEMMA CallOnward ==
  ASSUME NEW from, NEW next, NEW failed, Call(from, next, failed)
  PROVE  Onward /\ pc = from /\ pc' \in {next, failed}
BY SameOnward DEF Call, Goto, ledger

LEMMA OtherLines ==
  /\ \A k \in {"created", "requested", "error", "artifact", "log"} :
       Plain(k) \in Line /\ Plain(k) # Fresh
  /\ \A kind, val : kind # "status" => Event(kind, val) # Fresh
BY DEF Plain, Event, Line, Status, Fresh

\* A step of the run itself begins no run, in the process or in the log.
Advances == Onward /\ pc' \notin {"idle", "created", "start"}

LEMMA PreRunAdvances ==
  ASSUME TypeInv, PreRun
  PROVE  pc' \notin {"idle", "created", "start"} /\ (pc = "created" \/ Onward)
<1> USE DEF TypeInv
<1>1. CASE Create
  <2>1. pc = "created" /\ pc' \in {"taskCreated", "aborted"}
    BY <1>1 DEF Create, Move, Transition, RecordEvent
  <2> QED BY <2>1
<1>2. CASE RecordTaskCreated
  BY <1>2, LogOnward, OtherLines DEF RecordTaskCreated
<1>3. CASE Validate
  <2>1. "Validating" \in TaskStatus \ {"Created"}
    BY DEF TaskStatus
  <2> QED BY <1>3, <2>1, MoveOnward DEF Validate
<1>4. CASE BuildInvocation
  BY <1>4, CallOnward DEF BuildInvocation
<1>5. CASE Prepare
  <2>1. "Preparing" \in TaskStatus \ {"Created"}
    BY DEF TaskStatus
  <2> QED BY <1>5, <2>1, MoveOnward DEF Prepare
<1>6. CASE CreateTaskDir
  BY <1>6, CallOnward DEF CreateTaskDir
<1>7. CASE WriteResolvedTask
  BY <1>7, SameOnward DEF WriteResolvedTask, Goto, ledger
<1>8. CASE EvaluatePolicy
  BY <1>8, SameOnward DEF EvaluatePolicy, Goto, ledger
<1>9. CASE RecordDecision
  <2>0. PICK d, e : d = decision /\ e = Event("decision", d)
    OBVIOUS
  <2>1. PICK next : Log("decided", e, next, "preRunFailure") /\ next \in {"baseline", "deny", "waiting"}
    BY <1>9, <2>0 DEF RecordDecision, Log
  <2>2. e \in Line /\ e # Fresh
    <3>1. d \in Decisions
      BY <2>0, <2>1 DEF Located, Log
    <3> QED BY <2>0, <3>1, EventLines, OtherLines
  <2> QED BY <2>1, <2>2, LogOnward
<1>10. CASE Deny
  <2>1. "Denied" \in TaskStatus \ {"Created"}
    BY DEF TaskStatus, Terminal
  <2> QED BY <1>10, <2>1, MoveOnward DEF Deny
<1>11. CASE WaitForApproval
  <2>1. "WaitingForApproval" \in TaskStatus \ {"Created"}
    BY DEF TaskStatus
  <2> QED BY <1>11, <2>1, MoveOnward DEF WaitForApproval
<1>12. CASE RequestApproval
  BY <1>12, CallOnward DEF RequestApproval
<1>13. CASE RecordRequested
  BY <1>13, LogOnward, OtherLines DEF RecordRequested
<1>14. CASE Wait
  BY <1>14, SameOnward DEF Wait, Goto, ledger
<1>15. CASE RecordResolved
  <2>0. PICK a, e : a = answer /\ e = Event("resolved", a)
    OBVIOUS
  <2>1. PICK next : Log("answered", e, next, "preRunFailure") /\ next \in {"baseline", "deny"}
    BY <1>15, <2>0 DEF RecordResolved, Log
  <2>2. e \in Line /\ e # Fresh
    <3>1. a \in Answers
      BY <2>0, <2>1 DEF Located, Log
    <3> QED BY <2>0, <3>1, EventLines, OtherLines
  <2> QED BY <2>1, <2>2, LogOnward
<1>16. CASE FinishPreRunFailure
  <2>1. "Failed" \in TaskStatus \ {"Created"}
    BY DEF TaskStatus, Terminal
  <2> QED BY <1>16, <2>1, TransitionOnward, SameOnward DEF FinishPreRunFailure, ledger
<1>17. CASE RecordPreRunError
  BY <1>17, LogOnward, OtherLines DEF RecordPreRunError
<1> QED
  BY <1>1, <1>2, <1>3, <1>4, <1>5, <1>6, <1>7, <1>8, <1>9, <1>10, <1>11, <1>12, <1>13, <1>14,
     <1>15, <1>16, <1>17 DEF PreRun

\* The agent is started only after its Running line has reached the file.
LEMMA AgentAdvances ==
  ASSUME TypeInv, Trace, Agent
  PROVE  Onward /\ pc' \notin {"idle", "created"} /\ (pc' = "start" => OnRecord')
<1> USE DEF TypeInv
<1>1. CASE CaptureBaseline
  BY <1>1, CallOnward DEF CaptureBaseline
<1>2. CASE PrepareSandbox
  BY <1>2, CallOnward DEF PrepareSandbox
<1>3. CASE MarkRunning
  <2>1. Onward /\ pc = "running" /\ pc' \in {"start", "aborted"}
    BY <1>3, MoveOnward DEF MarkRunning, TaskStatus
  <2>2. ASSUME pc' = "start" PROVE OnRecord'
    <3>1. lines' = Join(lines, Status("Running")) /\ flushed' = Len(lines')
      BY <1>3, <2>2 DEF MarkRunning, Move, Transition, RecordEvent
    <3>2. lines \in Seq(Line) /\ lines[Len(lines)] \in Permit
      BY <2>1 DEF TypeOK, Trace, Permitted
    <3>3. lines' = Append(lines, Status("Running"))
      BY <3>1, <3>2, LineKinds DEF Join
    <3>4. lines'[Len(lines')] = Status("Running") /\ Len(lines') \in Nat /\ Len(lines') > 0
      BY <3>2, <3>3
    <3>5. Len(lines') \in 1..flushed' /\ \A k \in (Len(lines') + 1)..Len(lines') : FALSE
      BY <3>1, <3>4
    <3> QED BY <3>4, <3>5 DEF OnRecord
  <2> QED BY <2>1, <2>2
<1>4. CASE StartRunner
  BY <1>4, SameOnward DEF StartRunner, Goto, ledger
<1>5. CASE CollectExit
  BY <1>5, SameOnward DEF CollectExit, Goto, ledger
<1>6. CASE StopRunner
  BY <1>6, SameOnward DEF StopRunner, Goto, ledger
<1>7. CASE RecordRunError
  BY <1>7, LogOnward, OtherLines DEF RecordRunError
<1>8. CASE FailRun
  <2>1. "Failed" \in TaskStatus \ {"Created"}
    BY DEF TaskStatus, Terminal
  <2> QED BY <1>8, <2>1, TransitionOnward DEF FailRun
<1> QED BY <1>1, <1>2, <1>3, <1>4, <1>5, <1>6, <1>7, <1>8 DEF Agent

LEMMA EvidenceAdvances ==
  ASSUME TypeInv, Evidence
  PROVE  Advances
<1> USE DEF TypeInv, Advances
<1>1. CASE WriteLog
  BY <1>1, CallOnward DEF WriteLog
<1>2. CASE RecordLogArtifact
  BY <1>2, LogOnward, OtherLines DEF RecordLogArtifact
<1>3. CASE RecordLogChunk
  BY <1>3, RecordOnward, OtherLines DEF RecordLogChunk
<1>4. CASE LogsDone
  BY <1>4, SameOnward DEF LogsDone, Goto, ledger
<1>5. CASE RecordLogError
  BY <1>5, RecordOnward, OtherLines DEF RecordLogError, RememberFailure
<1>6. CASE RecordExit
  <2>0. PICK x, e : x = exit /\ e = Event("exit", x)
    OBVIOUS
  <2>1. Log("exit", e, "collecting", "aborted") /\ x \in ExitStatus
    BY <1>6, <2>0 DEF RecordExit, Log, Located
  <2>2. e \in Line /\ e # Fresh
    BY <2>0, <2>1, EventLines, OtherLines
  <2> QED BY <2>1, <2>2, LogOnward
<1>7. CASE MarkCollecting
  <2>1. PICK next : /\ Move("collecting", "CollectingArtifacts", next, "aborted")
                    /\ next \in {"diff", "reporting"}
    BY <1>7 DEF MarkCollecting
  <2>2. "CollectingArtifacts" \in TaskStatus \ {"Created"}
    BY DEF TaskStatus
  <2> QED BY <2>1, <2>2, MoveOnward
<1>8. CASE CollectDiff
  BY <1>8, CallOnward DEF CollectDiff
<1>9. CASE RecordDiff
  BY <1>9, LogOnward, OtherLines DEF RecordDiff
<1>10. CASE RecordDiffError
  BY <1>10, RecordOnward, OtherLines DEF RecordDiffError, RememberFailure
<1>11. CASE MarkReporting
  <2>1. "Reporting" \in TaskStatus \ {"Created"}
    BY DEF TaskStatus
  <2> QED BY <1>11, <2>1, MoveOnward DEF MarkReporting
<1>12. CASE Finalise
  <2>0. PICK s : s = FinalStatus
    OBVIOUS
  <2>1. Transition(s, "report", "aborted") /\ s \in TaskStatus \ {"Created"}
    BY <1>12, <2>0 DEF Finalise, FinalStatus, TaskStatus, Terminal
  <2> QED BY <2>1, TransitionOnward
<1> QED
  BY <1>1, <1>2, <1>3, <1>4, <1>5, <1>6, <1>7, <1>8, <1>9, <1>10, <1>11, <1>12 DEF Evidence

LEMMA ReportingAdvances ==
  ASSUME TypeInv, Reporting
  PROVE  Advances
<1> USE DEF TypeInv, Advances, Done
<1>1. CASE GenerateReport
  BY <1>1, SameOnward DEF GenerateReport, Generate, Goto, ledger
<1>2. CASE RecordReport
  BY <1>2, LogOnward, OtherLines DEF RecordReport
<1>3. CASE RecordReportError
  BY <1>3, LogOnward, OtherLines DEF RecordReportError
<1>4. CASE FailReport
  <2>1. "Failed" \in TaskStatus \ {"Created"}
    BY DEF TaskStatus, Terminal
  <2> QED BY <1>4, <2>1, TransitionOnward DEF FailReport
<1>5. CASE GenerateLastReport
  BY <1>5, SameOnward DEF GenerateLastReport, Generate, Goto, ledger
<1>6. CASE RecordLastReport
  BY <1>6, LogOnward, OtherLines DEF RecordLastReport
<1> QED BY <1>1, <1>2, <1>3, <1>4, <1>5, <1>6 DEF Reporting

\* What reached the file survives the process, and what follows it began no run.
LEMMA SurvivingOnward ==
  ASSUME TypeOK, EndProcess
  PROVE  Onward
<1>1. lines \in Seq(Line) /\ Len(lines) \in Nat /\ flushed \in 0..Len(lines) /\ flushed \in Nat
  BY DEF TypeOK
<1>2. lines' \in Surviving /\ flushed' = Len(lines')
  BY DEF EndProcess
<1>3. lines' \in Seq(Line) /\ flushed' \in Nat
  BY <1>2, SurvivingType
<1>4. CASE lines' = lines
  BY <1>1, <1>2, <1>3, <1>4, LongerOnward DEF Longer
<1>5. CASE lines' # lines
  <2>1. PICK k \in flushed..(Len(lines) - 1) :
          lines' \in {Join(SubSeq(lines, 1, k), OpenLine), SubSeq(lines, 1, k)}
    BY <1>2, <1>5 DEF Surviving
  <2> DEFINE s == SubSeq(lines, 1, k)
  <2>2. k \in Nat /\ flushed <= k /\ k <= Len(lines)
    BY <1>1, <2>1
  <2>3. s \in Seq(Line) /\ Len(s) = k /\ \A i \in 1..k : s[i] = lines[i]
    <3>1. \A i \in 1..k : lines[i] \in Line
      BY <1>1, <2>2
    <3> QED BY <1>1, <2>2, <3>1, SubSeqProperties
  <2> HIDE DEF s
  <2>4. /\ Longer(s, Join(s, OpenLine), flushed, Len(Join(s, OpenLine)))
        /\ Len(Join(s, OpenLine)) \in Nat
    <3>1. OpenLine \in Line /\ OpenLine # Fresh
      BY FreshLine, LineKinds
    <3>2. Len(s) <= Len(Join(s, OpenLine)) /\ Join(s, OpenLine) \in Seq(Line)
      BY <2>3, <3>1, JoinType
    <3>3. flushed \in 0..Len(s) /\ Len(Join(s, OpenLine)) \in Nat /\ flushed <= Len(Join(s, OpenLine))
      BY <1>1, <2>2, <2>3, <3>2
    <3> QED BY <2>3, <3>1, <3>3, JoinLonger
  <2>5. Longer(s, s, flushed, Len(s))
    BY <2>2, <2>3 DEF Longer
  <2>6. Longer(s, lines', flushed, flushed')
    BY <1>2, <2>1, <2>4, <2>5 DEF s
  <2>7. Longer(lines, lines', flushed, flushed')
    <3>1. \A i \in 1..flushed : s[i] = lines[i]
      BY <1>1, <2>2, <2>3
    <3>2. \A i \in 1..Len(s) : i \in 1..Len(lines) /\ s[i] = lines[i]
      BY <1>1, <2>2, <2>3
    <3> QED BY <2>6, <3>1, <3>2 DEF Longer
  <2> QED BY <1>3, <2>7, LongerOnward
<1> QED BY <1>4, <1>5

\* Every step, by what it does to the log and to the place of the run.
LEMMA NextAdvances ==
  ASSUME TypeInv, Trace, [Next]_vars
  PROVE  /\ pc = "created" \/ Onward
         /\ pc' = "start" => OnRecord' \/ (pc = "start" /\ Onward)
         /\ pc' = "created" => UNCHANGED vars \/ StartRun
         /\ pc' = "idle" => UNCHANGED vars \/ EndProcess
<1>1. CASE StartRun
  <2>1. Onward
    BY <1>1, SameOnward DEF StartRun, ledger
  <2> QED BY <1>1, <2>1 DEF StartRun, Goto
<1>2. CASE PreRun
  BY <1>2, PreRunAdvances
<1>3. CASE Agent
  BY <1>3, AgentAdvances
<1>4. CASE Evidence
  BY <1>4, EvidenceAdvances DEF Advances
<1>5. CASE Reporting
  BY <1>5, ReportingAdvances DEF Advances
<1>6. CASE Exit \/ Crash
  <2>1. EndProcess /\ pc' = "idle"
    BY <1>6 DEF Exit, Crash, EndProcess
  <2> QED BY <2>1, SurvivingOnward DEF TypeInv
<1>7. CASE UNCHANGED vars
  <2>1. Onward /\ pc' = pc
    BY <1>7, SameOnward DEF vars, ledger
  <2> QED BY <1>7, <2>1
<1> QED BY <1>1, <1>2, <1>3, <1>4, <1>5, <1>6, <1>7 DEF Next, Step, Finished

\* Only the calls of the runner change what the run knows of its sandbox.
LEMMA SandboxSame ==
  ASSUME Next, pc \notin {"start", "collect", "stop"}
  PROVE  UNCHANGED <<sandbox, exit>> \/ EndProcess
<1>1. CASE StartRun
  BY <1>1 DEF StartRun, port
<1>2. CASE PreRun
  BY <1>2 DEF PreRun, Create, RecordTaskCreated, Validate, BuildInvocation, Prepare,
     CreateTaskDir, WriteResolvedTask, EvaluatePolicy, RecordDecision, Deny, WaitForApproval,
     RequestApproval, RecordRequested, Wait, RecordResolved, FinishPreRunFailure,
     RecordPreRunError, Log, Move, Call, port
<1>3. CASE Agent
  BY <1>3 DEF Agent, CaptureBaseline, PrepareSandbox, MarkRunning, StartRunner, CollectExit,
     StopRunner, RecordRunError, FailRun, Log, Move, Call, Goto, port
<1>4. CASE Evidence
  BY <1>4 DEF Evidence, WriteLog, RecordLogArtifact, RecordLogChunk, LogsDone,
     RecordLogError, RecordExit, MarkCollecting, CollectDiff, RecordDiff, RecordDiffError,
     MarkReporting, Finalise, RememberFailure, Log, Move, Call, port
<1>5. CASE Reporting
  BY <1>5 DEF Reporting, GenerateReport, RecordReport, RecordReportError, FailReport,
     GenerateLastReport, RecordLastReport, Generate, Log, port
<1>6. CASE Exit \/ Crash
  BY <1>6 DEF Exit, Crash
<1>7. CASE Finished
  BY <1>7 DEF Finished, vars, port
<1> QED BY <1>1, <1>2, <1>3, <1>4, <1>5, <1>6, <1>7 DEF Next, Step

\* The run changes only when one begins.
LEMMA RunSame ==
  ASSUME Next
  PROVE  run' = run \/ StartRun
<1>1. CASE PreRun
  BY <1>1 DEF PreRun, Create, RecordTaskCreated, Validate, BuildInvocation, Prepare,
     CreateTaskDir, WriteResolvedTask, EvaluatePolicy, RecordDecision, Deny, WaitForApproval,
     RequestApproval, RecordRequested, Wait, RecordResolved, FinishPreRunFailure,
     RecordPreRunError, Log, Move, Call
<1>2. CASE Agent
  BY <1>2 DEF Agent, CaptureBaseline, PrepareSandbox, MarkRunning, StartRunner, CollectExit,
     StopRunner, RecordRunError, FailRun, Log, Move, Call
<1>3. CASE Evidence
  BY <1>3 DEF Evidence, WriteLog, RecordLogArtifact, RecordLogChunk, LogsDone,
     RecordLogError, RecordExit, MarkCollecting, CollectDiff, RecordDiff, RecordDiffError,
     MarkReporting, Finalise, RememberFailure, Log, Move, Call
<1>4. CASE Reporting
  BY <1>4 DEF Reporting, GenerateReport, RecordReport, RecordReportError, FailReport,
     GenerateLastReport, RecordLastReport, Generate, Log
<1>5. CASE Exit \/ Crash \/ Finished
  BY <1>5 DEF Exit, Crash, EndProcess, Finished, vars
<1> QED BY <1>1, <1>2, <1>3, <1>4, <1>5 DEF Next, Step

\* Between its runs a task only waits for the next one.
LEMMA IdleWaits ==
  ASSUME Step
  PROVE  pc # "idle"
<1>1. CASE PreRun
  BY <1>1 DEF PreRun, Create, RecordTaskCreated, Validate, BuildInvocation, Prepare,
     CreateTaskDir, WriteResolvedTask, EvaluatePolicy, RecordDecision, Deny, WaitForApproval,
     RequestApproval, RecordRequested, Wait, RecordResolved, FinishPreRunFailure,
     RecordPreRunError, Log, Move, Call, Goto
<1>2. CASE Agent
  BY <1>2 DEF Agent, CaptureBaseline, PrepareSandbox, MarkRunning, StartRunner, CollectExit,
     StopRunner, RecordRunError, FailRun, Log, Move, Call, Goto
<1>3. CASE Evidence
  BY <1>3 DEF Evidence, WriteLog, RecordLogArtifact, RecordLogChunk, LogsDone,
     RecordLogError, RecordExit, MarkCollecting, CollectDiff, RecordDiff, RecordDiffError,
     MarkReporting, Finalise, RememberFailure, Log, Move, Call, Goto
<1>4. CASE Reporting
  BY <1>4 DEF Reporting, GenerateReport, RecordReport, RecordReportError, FailReport,
     GenerateLastReport, RecordLastReport, Generate, Log, Goto
<1> QED BY <1>1, <1>2, <1>3, <1>4 DEF Step

\* Before its first run a task is idle.
Begun == run = 0 => pc = "idle"

LEMMA BegunStep ==
  ASSUME TypeInv, Begun, [Next]_vars
  PROVE  Begun'
<1>1. CASE StartRun
  BY <1>1 DEF StartRun, Begun, TypeInv, TypeOK
<1>2. CASE Step
  <2>1. run' = run \/ StartRun
    BY <1>2, RunSame DEF Next
  <2> QED BY <1>1, <1>2, <2>1, IdleWaits DEF Begun
<1>3. CASE Exit \/ Crash
  BY <1>3 DEF Exit, Crash, EndProcess, Begun
<1>4. CASE UNCHANGED vars
  BY <1>4 DEF vars, Begun
<1> QED BY <1>1, <1>2, <1>3, <1>4 DEF Next, Finished

LEMMA RunsBegin == Spec => []Begun
<1>1. Init => Begun
  BY DEF Init, Begun
<1>2. TypeInv /\ Begun /\ [Next]_vars => Begun'
  BY BegunStep
<1> QED BY <1>1, <1>2, RunTraces, PTL DEF Spec
=============================================================================
