-------------------------- MODULE ExternalApproval --------------------------
(***************************************************************************)
(* One approval record of `taskfence run --external-approval`: a JSON file *)
(* that the waiting engine polls and that `taskfence approve`, `taskfence  *)
(* deny` and the review server resolve from processes of their own.        *)
(* Resolving reads the file, then replaces it: nothing holds a lock in     *)
(* between.  A file is replaced by a rename, so a reader sees all of one   *)
(* version, and sees it before the resolver has said so to anybody.        *)
(***************************************************************************)
EXTENDS Integers, Sequences

CONSTANT Resolvers  \* invocations of approve, deny or the review server
ASSUME ResolversAssumption == "engine" \notin Resolvers

Decision == {"Approved", "Denied", "TimedOut"}

VARIABLES
  file,    \* "absent", "pending" or the decision stored
  engine,  \* where the process that runs the task is in request() and wait()
  expired, \* the timeout has elapsed since wait() began
  answer,  \* what wait() returned
  pc,      \* where each resolver is in resolve_with_actor()
  want,    \* the decision each resolver was called with
  reply,   \* what each resolver printed
  writes   \* history: who stored a decision in the file, in order

engineVars   == <<engine, expired, answer>>
resolverVars == <<pc, want, reply>>
vars == <<file, engineVars, resolverVars, writes>>

Init ==
  /\ file = "absent" /\ writes = <<>>
  /\ engine = "request" /\ expired = FALSE /\ answer = "none"
  /\ pc = [r \in Resolvers |-> "idle"]
  /\ want \in [Resolvers -> {"Approved", "Denied"}]
  /\ reply = [r \in Resolvers |-> "none"]

\* The decision of a resolver, or of the engine that gives up.
DecisionOf(who) == IF who = "engine" THEN "TimedOut" ELSE want[who]

\* atomic_write of a decided record.
StoreDecision(who) == file' = DecisionOf(who) /\ writes' = Append(writes, who)

-----------------------------------------------------------------------------
(* The engine.                                                              *)

Return(result) == engine' = "done" /\ answer' = result

\* request(): a failed announcement fails the request and leaves the file.
WritePending ==
  /\ engine = "request"
  /\ \/ file' = "pending" /\ engine' = "announce" /\ UNCHANGED answer
     \/ Return("error") /\ UNCHANGED file
  /\ UNCHANGED <<expired, resolverVars, writes>>
Announce ==
  /\ engine = "announce"
  /\ \/ engine' = "poll" /\ UNCHANGED answer
     \/ Return("error")
  /\ UNCHANGED <<file, expired, resolverVars, writes>>

Expire ==
  /\ engine \in {"poll", "timeout", "store", "recheck"}
  /\ ~expired /\ expired' = TRUE
  /\ UNCHANGED <<file, engine, answer, resolverVars, writes>>

\* Faulty variants of the polling loop: the clock is not looked at, an approval
\* that is late is taken for granted, and the loop has no timeout.
PollImpatient ==
  /\ engine = "poll"
  /\ \/ file \in Decision /\ Return(file)
     \/ file = "pending" /\ engine' = "timeout" /\ UNCHANGED answer
  /\ UNCHANGED <<file, expired, resolverVars, writes>>
PollFailsOpen ==
  /\ engine = "poll"
  /\ \/ file \in Decision /\ Return(file)
     \/ file = "pending" /\ expired /\ Return("Approved")
     \/ file = "pending" /\ ~expired /\ UNCHANGED <<engine, answer>>
  /\ UNCHANGED <<file, expired, resolverVars, writes>>
PollForEver ==
  /\ engine = "poll"
  /\ \/ file \in Decision /\ Return(file)
     \/ file = "pending" /\ UNCHANGED <<engine, answer>>
  /\ UNCHANGED <<file, expired, resolverVars, writes>>

\* One round of the polling loop; an undecided round sleeps and polls again.
Poll ==
  /\ engine = "poll"
  /\ \/ Return("error")
     \/ file \in Decision /\ Return(file)
     \/ file = "pending" /\ expired /\ engine' = "timeout" /\ UNCHANGED answer
     \/ file = "pending" /\ ~expired /\ UNCHANGED <<engine, answer>>
  /\ UNCHANGED <<file, expired, resolverVars, writes>>

\* resolve_with_actor(TimedOut): the read, then the write.
TimeoutRead ==
  /\ engine = "timeout"
  /\ \/ file = "pending" /\ engine' = "store"
     \/ engine' = "recheck"
  /\ UNCHANGED <<file, expired, answer, resolverVars, writes>>
TimeoutWrite ==
  /\ engine = "store"
  /\ \/ StoreDecision("engine") /\ Return("TimedOut")
     \/ engine' = "recheck" /\ UNCHANGED <<file, answer, writes>>
  /\ UNCHANGED <<expired, resolverVars>>

\* Faulty variants: the record is not read again, or its decision not awaited.
RecheckAssumesTimeout ==
  /\ engine = "recheck" /\ Return("TimedOut")
  /\ UNCHANGED <<file, expired, resolverVars, writes>>
\* The timeout could not be stored: somebody decided first, or the disk failed.
Recheck ==
  /\ engine = "recheck"
  /\ Return("error") \/ (file \in Decision /\ Return(file))
  /\ UNCHANGED <<file, expired, resolverVars, writes>>

EngineStep ==
  \/ WritePending \/ Announce \/ Expire \/ Poll
  \/ TimeoutRead \/ TimeoutWrite \/ Recheck

\* The process that waits is killed; its record stays in the queue, with the timeout
\* stored or not.
EngineCrash ==
  /\ engine \notin {"done", "crashed"} /\ engine' = "crashed"
  /\ \/ UNCHANGED <<file, writes>>
     \/ engine = "store" /\ StoreDecision("engine")
  /\ UNCHANGED <<expired, answer, resolverVars>>

-----------------------------------------------------------------------------
(* A resolver: approve, deny, or a POST to the review server.               *)

Answer(r, result) ==
  /\ reply' = [reply EXCEPT ![r] = result]
  /\ pc' = [pc EXCEPT ![r] = "done"]

\* Faulty variant: a decision on record does not turn a resolver away.
ResolveAgain(r) ==
  /\ pc[r] = "idle"
  /\ \/ Answer(r, "error")
     \/ file # "absent" /\ pc' = [pc EXCEPT ![r] = "write"] /\ UNCHANGED reply
  /\ UNCHANGED <<file, engineVars, want, writes>>

ResolverRead(r) ==
  /\ pc[r] = "idle"
  /\ \/ Answer(r, "error")
     \/ file \in Decision /\ Answer(r, "already resolved")
     \/ file = "pending" /\ pc' = [pc EXCEPT ![r] = "write"] /\ UNCHANGED reply
  /\ UNCHANGED <<file, engineVars, want, writes>>

ResolverWrite(r) ==
  /\ pc[r] = "write"
  /\ \/ StoreDecision(r) /\ pc' = [pc EXCEPT ![r] = "reply"] /\ UNCHANGED reply
     \/ Answer(r, "error") /\ UNCHANGED <<file, writes>>
  /\ UNCHANGED <<engineVars, want>>

ResolverReply(r) ==
  /\ pc[r] = "reply" /\ Answer(r, "resolved")
  /\ UNCHANGED <<file, engineVars, want, writes>>

\* Killed, with its decision stored or not; nobody is told.
ResolverCrash(r) ==
  /\ pc[r] \in {"write", "reply"} /\ pc' = [pc EXCEPT ![r] = "killed"]
  /\ UNCHANGED <<file, engineVars, want, reply, writes>>

Finished ==
  /\ engine \in {"done", "crashed"} /\ \A r \in Resolvers : pc[r] \in {"done", "killed"}
  /\ UNCHANGED vars

Next ==
  \/ EngineStep \/ EngineCrash \/ Finished
  \/ \E r \in Resolvers :
       ResolverRead(r) \/ ResolverWrite(r) \/ ResolverReply(r) \/ ResolverCrash(r)

Spec == Init /\ [][Next]_vars

\* The waiting thread runs and time passes; nobody has to resolve anything.
FairSpec == Spec /\ WF_vars(EngineStep)

-----------------------------------------------------------------------------
(* Properties.                                                              *)

TypeOK ==
  /\ file \in {"absent", "pending"} \cup Decision
  /\ engine \in {"request", "announce", "poll", "timeout", "store", "recheck",
                 "done", "crashed"}
  /\ expired \in BOOLEAN
  /\ answer \in {"none", "error"} \cup Decision
  /\ pc \in [Resolvers -> {"idle", "write", "reply", "done", "killed"}]
  /\ want \in [Resolvers -> {"Approved", "Denied"}]
  /\ reply \in [Resolvers -> {"none", "error", "already resolved", "resolved"}]
  /\ writes \in Seq(Resolvers \cup {"engine"})

\* The task proceeds only on an approval that somebody gave: wait() answers
\* Approved only if a resolver that was called to approve stored its decision,
\* whether or not it lived to say so (LocalApprovalStore::resolve_with_actor).
ApprovalHasApprover ==
  answer = "Approved" =>
    \E i \in DOMAIN writes : writes[i] \in Resolvers /\ want[writes[i]] = "Approved"

\* And TimedOut is answered only when the timeout did elapse.
TimeoutElapsed == answer = "TimedOut" => expired

\* wait() never makes an answer up: an approval was given, a timeout elapsed.
JustifiedAnswer == ApprovalHasApprover /\ TimeoutElapsed

\* While only one decision was ever stored, the file and the engine go by it, and
\* nobody but the resolver that stored it is told that it resolved the record.
UncontestedDecisionStands ==
  Len(writes) = 1 =>
    /\ file = DecisionOf(writes[1])
    /\ answer \in {"none", "error", file}
    /\ \A r \in Resolvers : reply[r] = "resolved" => r = writes[1]

\* "Approver approves before timeout: resume action", and denies alike: once a
\* decision is stored before the timeout elapses, the timeout never replaces it.
DecidedInTimeStands ==
  []((file \in Decision /\ ~expired) => [](file # "TimedOut" /\ answer # "TimedOut"))

\* A decision is replaced only by a resolution that had read the record while
\* it was still pending: one that starts later is turned away.
Contenders ==
  {r \in Resolvers : pc[r] = "write"} \cup (IF engine = "store" THEN {"engine"} ELSE {})
LateResolutionsRejected ==
  [][(file \in Decision) =>
       /\ file' \in Decision
       /\ file' # file => Contenders # {}
       /\ \A r \in Resolvers : pc'[r] = "write" => pc[r] = "write"]_vars

\* wait() returns: a pending record does not block the task for ever.
WaitReturns == engine = "poll" ~> engine \in {"done", "crashed"}

\* Test local_store_rejects_double_resolution: the second resolution of a
\* record is an error.
DoubleResolutionRejected ==
  \A r, s \in Resolvers :
    reply[r] = "resolved" /\ reply[s] = "resolved" => r = s
=============================================================================
