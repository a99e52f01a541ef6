--------------------------- MODULE ApprovalProofs ---------------------------
(***************************************************************************)
(* Proofs about the two approval engines: the file with its resolvers, for *)
(* any number of them, and the record in memory with its waiting threads.  *)
(***************************************************************************)
EXTENDS MCApprovals, SequenceTheorems, TLAPS

Author == Resolvers \cup {"engine"}

\* A longer sequence of authors is one, and has the old ones and the new.
LEMMA AppendIsSequence ==
  ASSUME NEW s \in Seq(Author), NEW d \in Author
  PROVE  /\ Append(s, d) \in Seq(Author) /\ Len(Append(s, d)) = Len(s) + 1 /\ Len(s) \in Nat
         /\ \A i \in DOMAIN s : i \in DOMAIN Append(s, d) /\ Append(s, d)[i] = s[i]
         /\ Len(s) + 1 \in DOMAIN Append(s, d) /\ Append(s, d)[Len(s) + 1] = d
OBVIOUS

LEMMA DecisionIs ==
  ASSUME TypeOK, NEW who \in Author
  PROVE  /\ DecisionOf(who) \in Decision
         /\ who = "engine" => DecisionOf(who) = "TimedOut"
         /\ who \in Resolvers => DecisionOf(who) = want[who] /\ DecisionOf(who) # "TimedOut"
BY ResolversAssumption DEF Author, DecisionOf, TypeOK, Decision

\* Somebody who was called to approve stored a decision.
Approved == \E i \in DOMAIN writes : writes[i] \in Resolvers /\ want[writes[i]] = "Approved"

\* A decision in the file has its author: an approver for Approved, the clock
\* for TimedOut.  A resolver that printed its reply does nothing more, and none
\* writes before the engine has created the file.
Origin ==
  /\ \A r \in Resolvers : reply[r] # "none" => pc[r] = "done"
  /\ file = "Approved" \/ answer = "Approved" => Approved
  /\ file = "TimedOut" \/ answer = "TimedOut" => expired
  /\ engine \in {"timeout", "store", "recheck"} => expired
  /\ engine = "request" => file = "absent"
  /\ \A r \in Resolvers : pc[r] = "write" => file # "absent"

IInv == TypeOK /\ Origin

\* Storing a decision leaves the approvals there were, and may add one.
LEMMA StoreKeeps ==
  ASSUME TypeOK, NEW who \in Author, StoreDecision(who), UNCHANGED want
  PROVE  /\ writes' \in Seq(Author) /\ file' = DecisionOf(who) /\ file' \in Decision
         /\ Approved \/ file' = "Approved" => Approved'
<1>1. writes \in Seq(Author) /\ writes' = Append(writes, who)
  BY DEF TypeOK, Author, StoreDecision
<1>2. file' = DecisionOf(who) /\ file' \in Decision
  BY DecisionIs DEF StoreDecision
<1>3. ASSUME Approved PROVE Approved'
  <2>1. PICK i \in DOMAIN writes : writes[i] \in Resolvers /\ want[writes[i]] = "Approved"
    BY <1>3 DEF Approved
  <2>2. i \in DOMAIN writes' /\ writes'[i] = writes[i]
    BY <1>1, <2>1, AppendIsSequence
  <2> QED BY <2>1, <2>2 DEF Approved
<1>4. ASSUME file' = "Approved" PROVE Approved'
  <2>1. who \in Resolvers /\ want[who] = "Approved"
    BY <1>2, <1>4, DecisionIs DEF Author
  <2>2. Len(writes) + 1 \in DOMAIN writes' /\ writes'[Len(writes) + 1] = who
    BY <1>1, AppendIsSequence
  <2> QED BY <2>1, <2>2 DEF Approved
<1> QED BY <1>1, <1>2, <1>3, <1>4, AppendIsSequence

LEMMA InitInv == Init => IInv
<1> SUFFICES ASSUME Init PROVE IInv
  OBVIOUS
<1>1. expired \in BOOLEAN
  BY Zenon DEF Init
<1>0. writes \in Seq(Resolvers \cup {"engine"})
  BY DEF Init
<1>2. pc \in [Resolvers -> {"idle", "write", "reply", "done", "killed"}]
  BY DEF Init
<1>3. reply \in [Resolvers -> {"none", "error", "already resolved", "resolved"}]
  BY DEF Init
<1>4. TypeOK
  BY <1>1, <1>2, <1>3, <1>0 DEF Init, TypeOK
<1>5. Origin
  BY DEF Init, Origin
<1> QED BY <1>4, <1>5 DEF IInv

\* The engine leaves the resolvers alone.
LEMMA EngineInv ==
  ASSUME IInv, EngineStep \/ EngineCrash
  PROVE  IInv'
<1> USE DEF IInv
<1>1. CASE WritePending
  BY <1>1 DEF WritePending, Return, resolverVars, TypeOK, Origin, Approved, Decision
<1>2. CASE Announce
  BY <1>2 DEF Announce, Return, resolverVars, TypeOK, Origin, Approved, Decision
<1>3. CASE Expire
  BY <1>3 DEF Expire, resolverVars, TypeOK, Origin, Approved, Decision
<1>4. CASE Poll
  BY <1>4 DEF Poll, Return, resolverVars, TypeOK, Origin, Approved, Decision
<1>5. CASE TimeoutRead
  BY <1>5 DEF TimeoutRead, resolverVars, TypeOK, Origin, Approved, Decision
<1>6. ASSUME engine = "store", StoreDecision("engine"), engine' \in {"done", "crashed"},
             answer' \in {answer, "TimedOut"}, UNCHANGED <<expired, resolverVars>>
      PROVE  IInv'
  <2>1. UNCHANGED <<pc, want, reply>> /\ file' = "TimedOut" /\ writes' \in Seq(Author)
        /\ (Approved => Approved')
    BY <1>6, StoreKeeps, DecisionIs DEF resolverVars, Author
  <2>2. TypeOK'
    BY <1>6, <2>1 DEF TypeOK, Decision, Author
  <2>3. Origin'
    BY <1>6, <2>1 DEF Origin
  <2> QED BY <2>2, <2>3
<1>7. CASE TimeoutWrite
  <2>1. CASE StoreDecision("engine") /\ Return("TimedOut")
    BY <1>6, <1>7, <2>1 DEF TimeoutWrite, Return
  <2>2. CASE engine' = "recheck" /\ UNCHANGED <<file, answer, writes>>
    BY <1>7, <2>2 DEF TimeoutWrite, resolverVars, TypeOK, Origin, Approved
  <2> QED BY <1>7, <2>1, <2>2 DEF TimeoutWrite
<1>8. CASE Recheck
  BY <1>8 DEF Recheck, Return, resolverVars, TypeOK, Origin, Approved, Decision
<1>9. CASE EngineCrash
  <2>1. CASE UNCHANGED <<file, writes>>
    BY <1>9, <2>1 DEF EngineCrash, resolverVars, TypeOK, Origin, Approved, Decision
  <2>2. CASE engine = "store" /\ StoreDecision("engine")
    BY <1>6, <1>9, <2>2 DEF EngineCrash
  <2> QED BY <1>9, <2>1, <2>2 DEF EngineCrash
<1> QED BY <1>1, <1>2, <1>3, <1>4, <1>5, <1>7, <1>8, <1>9 DEF EngineStep

\* A resolver that stores nothing leaves the file and the engine alone.
LEMMA ResolverIdleInv ==
  ASSUME IInv, NEW r \in Resolvers, UNCHANGED <<file, engineVars, want, writes>>,
         \/ pc' = [pc EXCEPT ![r] = "killed"] /\ pc[r] # "done" /\ UNCHANGED reply
         \/ \E a \in {"error", "already resolved", "resolved"} : Answer(r, a)
         \/ pc' = [pc EXCEPT ![r] = "write"] /\ pc[r] # "done" /\ file # "absent" /\ UNCHANGED reply
  PROVE  IInv'
<1>0. /\ pc \in [Resolvers -> {"idle", "write", "reply", "done", "killed"}]
      /\ reply \in [Resolvers -> {"none", "error", "already resolved", "resolved"}]
  BY DEF IInv, TypeOK
<1>a. pc' \in [Resolvers -> {"idle", "write", "reply", "done", "killed"}]
  BY <1>0 DEF Answer
<1>b. reply' \in [Resolvers -> {"none", "error", "already resolved", "resolved"}]
  BY <1>0 DEF Answer
<1>1. TypeOK'
  BY <1>a, <1>b DEF engineVars, IInv, TypeOK
<1>2. \A s \in Resolvers : reply'[s] # "none" => pc'[s] = "done"
  BY DEF Answer, IInv, TypeOK, Origin
<1>3. \A s \in Resolvers : pc'[s] = "write" => file # "absent"
  BY DEF Answer, IInv, TypeOK, Origin
<1>4. Origin'
  BY <1>2, <1>3 DEF IInv, Origin, Approved, engineVars
<1> QED BY <1>1, <1>4 DEF IInv

LEMMA ResolverInv ==
  ASSUME IInv, NEW r \in Resolvers,
         ResolverRead(r) \/ ResolverWrite(r) \/ ResolverReply(r) \/ ResolverCrash(r)
  PROVE  IInv'
<1>1. CASE ResolverRead(r)
  BY <1>1, ResolverIdleInv DEF ResolverRead
<1>2. CASE ResolverReply(r)
  BY <1>2, ResolverIdleInv DEF ResolverReply
<1>3. CASE ResolverCrash(r)
  BY <1>3, ResolverIdleInv DEF ResolverCrash
<1>4. CASE ResolverWrite(r) /\ Answer(r, "error") /\ UNCHANGED <<file, writes>>
  BY <1>4, ResolverIdleInv DEF ResolverWrite
<1>5. CASE /\ ResolverWrite(r) /\ StoreDecision(r)
           /\ pc' = [pc EXCEPT ![r] = "reply"] /\ UNCHANGED reply
  <2>1. TypeOK /\ Origin /\ pc[r] = "write" /\ r \in Author /\ UNCHANGED <<engine, expired, answer, want>>
    BY <1>5 DEF IInv, ResolverWrite, Author, engineVars
  <2>2. /\ writes' \in Seq(Author) /\ file' \in Decision /\ file' # "TimedOut"
        /\ Approved \/ file' = "Approved" => Approved'
    BY <1>5, <2>1, StoreKeeps, DecisionIs
  <2>3. TypeOK'
    BY <1>5, <2>1, <2>2 DEF TypeOK, Decision, Author
  <2>4. \A s \in Resolvers : reply'[s] # "none" => pc'[s] = "done"
    BY <1>5, <2>1 DEF TypeOK, Origin
  <2>5. file # "absent" /\ file' # "absent"
    BY <2>1, <2>2 DEF Origin, Decision
  <2>6. Origin'
    BY <2>1, <2>2, <2>4, <2>5 DEF Origin
  <2> QED BY <2>3, <2>6 DEF IInv
<1> QED BY <1>1, <1>2, <1>3, <1>4, <1>5 DEF ResolverWrite

LEMMA NextInv ==
  ASSUME IInv, [Next]_vars
  PROVE  IInv'
<1>1. CASE UNCHANGED vars
  BY <1>1 DEF vars, engineVars, resolverVars, IInv, TypeOK, Origin, Approved
<1> QED BY <1>1, EngineInv, ResolverInv DEF Next, Finished

\* The task goes ahead only if somebody who was called to approve it stored that
\* decision; and wait() answers TimedOut only when the time was up.
THEOREM AnswersAreJustified == Spec => []JustifiedAnswer
<1>1. IInv => ApprovalHasApprover
  BY DEF IInv, Origin, Approved, ApprovalHasApprover
<1>2. IInv => TimeoutElapsed
  BY DEF IInv, Origin, TimeoutElapsed
<1>3. IInv => JustifiedAnswer
  BY <1>1, <1>2 DEF JustifiedAnswer
<1>4. IInv /\ [Next]_vars => IInv'
  BY NextInv
<1> QED BY <1>3, <1>4, InitInv, PTL DEF Spec

\* A decision once stored is replaced only by somebody who had found the record
\* pending before: nobody who comes later gets to write.
THEOREM LateResolutionsAreRejected == Spec => LateResolutionsRejected
<1> DEFINE Late == file \in Decision =>
             /\ file' \in Decision
             /\ file' # file => Contenders # {}
             /\ \A r \in Resolvers : pc'[r] = "write" => pc[r] = "write"
<1>1. ASSUME IInv, [Next]_vars PROVE Late
  <2> SUFFICES ASSUME file \in Decision PROVE Late
    OBVIOUS
  <2> USE DEF IInv
  <2>1. CASE EngineStep \/ EngineCrash
    <3>1. UNCHANGED pc
      BY <2>1 DEF EngineStep, EngineCrash, WritePending, Announce, Expire, Poll,
                  TimeoutRead, TimeoutWrite, Recheck, resolverVars
    <3>2. CASE WritePending
      BY <1>1, <3>1, <3>2 DEF WritePending, Origin, Decision
    <3>3. CASE StoreDecision("engine") /\ engine = "store"
      <4>1. file' \in Decision /\ Contenders # {}
        BY <1>1, <3>3, DecisionIs DEF StoreDecision, Contenders, Author
      <4> QED BY <3>1, <4>1
    <3>4. CASE ~WritePending /\ ~(StoreDecision("engine") /\ engine = "store")
      <4>1. UNCHANGED file
        BY <2>1, <3>4 DEF EngineStep, EngineCrash, Announce, Expire, Poll, TimeoutRead,
                          TimeoutWrite, Recheck
      <4> QED BY <3>1, <4>1
    <3> QED BY <3>2, <3>3, <3>4
  <2>2. ASSUME NEW s \in Resolvers, ResolverRead(s) PROVE Late
    BY <1>1, <2>2 DEF ResolverRead, Answer, TypeOK, Decision
  <2>3. ASSUME NEW s \in Resolvers, ResolverWrite(s) PROVE Late
    <3>1. \A r \in Resolvers : pc'[r] = "write" => pc[r] = "write"
      BY <1>1, <2>3 DEF ResolverWrite, Answer, TypeOK
    <3>2. Contenders # {}
      BY <2>3 DEF ResolverWrite, Contenders
    <3>3. file' \in Decision
      BY <1>1, <2>3, DecisionIs DEF ResolverWrite, StoreDecision, Author
    <3> QED BY <3>1, <3>2, <3>3
  <2>5. ASSUME NEW s \in Resolvers, ResolverReply(s) \/ ResolverCrash(s) PROVE Late
    BY <1>1, <2>5 DEF ResolverReply, ResolverCrash, Answer, TypeOK
  <2>4. CASE UNCHANGED vars
    BY <2>4 DEF vars, resolverVars
  <2> QED BY <1>1, <2>1, <2>2, <2>3, <2>4, <2>5 DEF Next, Finished
<1>2. IInv /\ [Next]_vars => IInv'
  BY NextInv
<1> QED BY <1>1, <1>2, InitInv, PTL DEF Spec, LateResolutionsRejected

\* A decision that is in time is safe from the timeout: with the file decided and
\* the engine not about to store, no step leads back.
THEOREM DecisionsInTimeStand == Spec => DecidedInTimeStands
<1> DEFINE InTime == file \in Decision /\ ~expired
           Safe   == /\ file \in {"Approved", "Denied"}
                     /\ engine # "store" /\ answer # "TimedOut"
           Stands == file # "TimedOut" /\ answer # "TimedOut"
<1>1. IInv /\ InTime => Safe
  BY DEF IInv, Origin, Decision
<1>2. Safe => Stands
  OBVIOUS
<1>3. ASSUME IInv, Safe, [Next]_vars PROVE Safe'
  <2>1. CASE EngineStep \/ EngineCrash
    BY <1>3, <2>1 DEF IInv, Origin, EngineStep, EngineCrash, WritePending, Announce,
         Expire, Poll, TimeoutRead, TimeoutWrite, Recheck, Return
  <2>2. ASSUME NEW s \in Resolvers, ResolverWrite(s) PROVE Safe'
    <3>1. UNCHANGED <<engine, answer>>
      BY <2>2 DEF ResolverWrite, engineVars
    <3>2. file' \in {file, want[s]} /\ want[s] \in {"Approved", "Denied"}
      BY <1>3, <2>2, DecisionIs DEF ResolverWrite, StoreDecision, IInv, TypeOK, Author
    <3> QED BY <1>3, <3>1, <3>2
  <2>4. ASSUME NEW s \in Resolvers, ResolverRead(s) \/ ResolverReply(s) \/ ResolverCrash(s)
        PROVE  Safe'
    BY <1>3, <2>4 DEF ResolverRead, ResolverReply, ResolverCrash, engineVars
  <2>3. CASE UNCHANGED vars
    BY <1>3, <2>3 DEF vars, engineVars
  <2> QED BY <1>3, <2>1, <2>2, <2>3, <2>4 DEF Next, Finished
<1>4. IInv /\ [Next]_vars => IInv'
  BY NextInv
<1> QED
  <2>1. Spec => [](InTime => []Stands)
    <3> HIDE DEF InTime, Safe, Stands
    <3> QED BY <1>1, <1>2, <1>3, <1>4, InitInv, PTL DEF Spec
  <2> QED BY <2>1 DEF DecidedInTimeStands

-----------------------------------------------------------------------------
(* The decisions that were stored.                                          *)

\* The file shows a decision from the first one stored on, nobody heard of one before,
\* and whoever is told that he resolved the record had stored his decision.
Stored ==
  /\ file \in Decision <=> writes # <<>>
  /\ writes = <<>> => answer \in {"none", "error"}
  /\ \A r \in Resolvers : pc[r] = "reply" \/ reply[r] = "resolved" =>
       \E i \in DOMAIN writes : writes[i] = r
  /\ Len(writes) = 1 => file = DecisionOf(writes[1]) /\ answer \in {"none", "error", file}

\* Where a decision is stored, by the engine or by a resolver.
LEMMA StoreStored ==
  ASSUME TypeOK, Stored, NEW who \in Author, StoreDecision(who),
         answer' \in {answer, DecisionOf(who)}, UNCHANGED want,
         \A r \in Resolvers : pc'[r] = "reply" \/ reply'[r] = "resolved" =>
           pc[r] = "reply" \/ reply[r] = "resolved" \/ r = who
  PROVE  Stored'
<1>1. /\ writes \in Seq(Author) /\ writes' = Append(writes, who)
      /\ file' = DecisionOf(who) /\ file' \in Decision
  BY DecisionIs DEF StoreDecision, TypeOK, Author
<1>2. writes' # <<>> /\ Len(writes') = Len(writes) + 1 /\ Len(writes) \in Nat
  BY <1>1
<1>3. \A r \in Resolvers : pc'[r] = "reply" \/ reply'[r] = "resolved" =>
        \E i \in DOMAIN writes' : writes'[i] = r
  BY <1>1, AppendIsSequence DEF Stored
<1>4. (Len(writes) = 1 => file = DecisionOf(writes[1]) /\ answer \in {"none", "error", file})'
  <2> SUFFICES ASSUME Len(writes') = 1
               PROVE  (file = DecisionOf(writes[1]) /\ answer \in {"none", "error", file})'
    OBVIOUS
  <2>1. Len(writes) = 0
    BY <1>2
  <2>2. writes = <<>> /\ writes'[1] = who
    BY <1>1, <2>1
  <2>3. DecisionOf(writes[1])' = DecisionOf(who)
    BY <2>2 DEF DecisionOf
  <2> QED BY <1>1, <2>2, <2>3 DEF Stored
<1> QED BY <1>1, <1>2, <1>3, <1>4 DEF Stored

\* Where none is.
LEMMA NothingStored ==
  ASSUME Stored, UNCHANGED <<want, writes>>, (file' \in Decision <=> file \in Decision),
         file \in Decision => file' = file,
         answer' \in {answer, "none", "error"} \cup ({file} \cap Decision),
         \A r \in Resolvers : pc'[r] = "reply" \/ reply'[r] = "resolved" =>
           pc[r] = "reply" \/ reply[r] = "resolved"
  PROVE  Stored'
<1>1. DecisionOf(writes[1])' = DecisionOf(writes[1])
  BY DEF DecisionOf
<1>2. Len(writes) = 1 => writes # <<>>
  OBVIOUS
<1> QED BY <1>1, <1>2 DEF Stored

LEMMA StoredStep ==
  ASSUME IInv, Stored, [Next]_vars
  PROVE  Stored'
<1>0. TypeOK /\ Origin
  BY DEF IInv
<1>1. CASE StoreDecision("engine") /\ (TimeoutWrite \/ EngineCrash)
  <2>1. UNCHANGED <<pc, want, reply>> /\ answer' \in {answer, "TimedOut"}
    BY <1>1 DEF TimeoutWrite, EngineCrash, Return, resolverVars
  <2> QED BY <1>0, <1>1, <2>1, StoreStored, DecisionIs DEF Author
<1>2. ASSUME NEW r \in Resolvers, ResolverWrite(r) PROVE Stored'
  <2>1. UNCHANGED <<answer, want>>
    BY <1>2 DEF ResolverWrite, engineVars
  <2>2. CASE StoreDecision(r) /\ pc' = [pc EXCEPT ![r] = "reply"] /\ UNCHANGED reply
    <3>1. r \in Author /\ \A s \in Resolvers : pc'[s] = pc[s] \/ s = r
      BY <1>0, <2>2 DEF TypeOK, Author
    <3> QED BY <1>0, <2>1, <2>2, <3>1, StoreStored
  <2>3. CASE Answer(r, "error") /\ UNCHANGED <<file, writes>>
    <3>1. \A s \in Resolvers : pc'[s] = "reply" \/ reply'[s] = "resolved" =>
            pc[s] = "reply" \/ reply[s] = "resolved"
      BY <1>0, <2>3 DEF TypeOK, Answer
    <3> QED BY <2>1, <2>3, <3>1, NothingStored
  <2> QED BY <1>2, <2>2, <2>3 DEF ResolverWrite
<1>3. ASSUME NEW r \in Resolvers, ResolverRead(r) \/ ResolverReply(r) \/ ResolverCrash(r)
      PROVE  Stored'
  <2>1. /\ UNCHANGED <<file, answer, want, writes>>
        /\ \A s \in Resolvers : pc'[s] = "reply" \/ reply'[s] = "resolved" =>
             pc[s] = "reply" \/ reply[s] = "resolved"
    BY <1>0, <1>3 DEF ResolverRead, ResolverReply, ResolverCrash, Answer, engineVars, TypeOK
  <2> QED BY <2>1, NothingStored
<1>4. CASE WritePending
  <2>1. file \notin Decision /\ file' \notin Decision /\ UNCHANGED <<pc, want, reply, writes>>
        /\ answer' \in {answer, "error"}
    BY <1>0, <1>4 DEF WritePending, Return, Origin, Decision, resolverVars
  <2> QED BY <2>1, NothingStored
<1>5. CASE Poll \/ Recheck
  <2>1. /\ UNCHANGED <<file, pc, want, reply, writes>>
        /\ answer' \in {answer, "error"} \cup ({file} \cap Decision)
    BY <1>5 DEF Poll, Recheck, Return, resolverVars
  <2> QED BY <2>1, NothingStored
<1>6. CASE \/ Announce \/ Expire \/ TimeoutRead \/ UNCHANGED vars
           \/ ~StoreDecision("engine") /\ (TimeoutWrite \/ EngineCrash)
  <2>1. UNCHANGED <<file, pc, want, reply, writes>> /\ answer' \in {answer, "error"}
    BY <1>6 DEF Announce, Expire, TimeoutRead, TimeoutWrite, EngineCrash, Return, vars,
                engineVars, resolverVars
  <2> QED BY <2>1, NothingStored
<1> QED BY <1>1, <1>2, <1>3, <1>4, <1>5, <1>6 DEF Next, EngineStep, Finished

LEMMA StoredInit == Init => Stored
BY DEF Init, Stored, Decision

\* As long as one decision was stored, everybody goes by it, and only its author is told
\* that he resolved the record.
THEOREM UncontestedDecisionsStand == Spec => []UncontestedDecisionStands
<1>1. IInv /\ Stored /\ [Next]_vars => IInv' /\ Stored'
  BY NextInv, StoredStep
<1>2. IInv /\ Stored => UncontestedDecisionStands
  <2> SUFFICES ASSUME TypeOK, Stored, Len(writes) = 1
               PROVE  /\ file = DecisionOf(writes[1])
                      /\ answer \in {"none", "error", file}
                      /\ \A r \in Resolvers : reply[r] = "resolved" => r = writes[1]
    BY DEF IInv, UncontestedDecisionStands
  <2>1. DOMAIN writes = 1 .. Len(writes)
    <3>1. writes \in Seq(Author)
      BY DEF TypeOK, Author
    <3> QED BY <3>1
  <2> QED BY <2>1 DEF Stored
<1> QED BY <1>1, <1>2, InitInv, StoredInit, PTL DEF Spec

-----------------------------------------------------------------------------
(* The record in memory.  Where a waiter is tells what it knows: an answer   *)
(* that was returned is the one on record, and a decision about to be stored *)
(* has a source.                                                            *)

Answered ==
  \A w \in Waiters :
    /\ threads[w] \in {"resolve", "store"} => record # "absent"
    /\ threads[w] = "store" => chosen[w] \in InProcess!Decision
    /\ threads[w] = "start" => attempts[w] = 0
    /\ threads[w] = "resolve" => attempts[w] < InProcess!MaxAttempts
    /\ told[w] \in InProcess!Decision => record = told[w]
    /\ threads[w] # "done" => told[w] = "none"

Source ==
  /\ InProcess!ApprovedOnlyExplicitly
  /\ \A w \in Waiters :
       chosen[w] = "Approved" => mode = "Approved" \/ "Approved" \in typed

RecordInv == InProcess!TypeOK /\ Answered /\ Source

LEMMA RecordInit == InProcess!Init => RecordInv
<1> SUFFICES ASSUME InProcess!Init PROVE RecordInv
  OBVIOUS
<1>1. InProcess!TypeOK
  BY DEF InProcess!MaxAttempts, InProcess!Init, InProcess!TypeOK
<1>2. Answered
  BY DEF InProcess!MaxAttempts, InProcess!Init, Answered, InProcess!Decision
<1>3. Source
  BY DEF InProcess!Init, Source, InProcess!ApprovedOnlyExplicitly
<1> QED BY <1>1, <1>2, <1>3 DEF RecordInv

\* The answers given out.
given == {told[w] : w \in Waiters} \cap InProcess!Decision

LEMMA ToldAfter ==
  ASSUME InProcess!TypeOK, NEW w \in Waiters, told[w] = "none", NEW result, InProcess!Return(w, result)
  PROVE  given' = given \cup ({result} \cap InProcess!Decision)
BY DEF given, InProcess!Return, InProcess!TypeOK, InProcess!Decision

LEMMA LookStep ==
  ASSUME RecordInv, NEW w \in Waiters, InProcess!Look(w)
  PROVE  RecordInv' /\ [InProcess!Once!Next]_(InProcess!Once!approval)
<1> USE DEF RecordInv
<1>1. CASE record \in InProcess!Decision
  <2>1. InProcess!Return(w, record) /\ UNCHANGED <<mode, record, chosen, attempts, typed>>
    BY <1>1 DEF InProcess!Look
  <2>2. InProcess!TypeOK' /\ Answered' /\ Source'
    BY <1>1, <2>1
      DEF InProcess!Return, InProcess!TypeOK, Answered, Source,
        InProcess!ApprovedOnlyExplicitly, InProcess!Decision
  <2>3. told[w] = "none"
    BY DEF InProcess!Look, Answered
  <2>4. given' = given \cup {record}
    BY <1>1, <2>1, <2>3, ToldAfter
  <2>5. InProcess!Once!Tell
    BY <1>1, <2>1, <2>4 DEF InProcess!Once!Tell, given
  <2> QED BY <2>2, <2>5 DEF InProcess!Once!Next
<1>2. CASE record \notin InProcess!Decision
  <2>1. /\ threads' = [threads EXCEPT ![w] = "resolve"] /\ threads[w] = "start" /\ record # "absent"
        /\ UNCHANGED <<mode, record, chosen, attempts, told, typed>>
    BY <1>2 DEF InProcess!Look
  <2>2. InProcess!TypeOK' /\ Answered' /\ Source'
    BY <2>1
      DEF InProcess!MaxAttempts, InProcess!TypeOK, Answered, Source,
        InProcess!ApprovedOnlyExplicitly
  <2>3. UNCHANGED InProcess!Once!approval
    BY <2>1 DEF InProcess!Once!approval
  <2> QED BY <2>2, <2>3
<1> QED BY <1>1, <1>2

\* A waiter that resolved a decision, or failed, told nobody anything yet.
LEMMA ChooseStep ==
  ASSUME RecordInv, NEW w \in Waiters, threads[w] = "resolve", NEW d \in InProcess!Decision, InProcess!Choose(w, d),
         attempts' \in {attempts, [attempts EXCEPT ![w] = @ + 1]},
         typed' \in {typed, typed \cup {d}},
         d = "Approved" => mode = "Approved" \/ "Approved" \in typed',
         UNCHANGED <<mode, record, told>>
  PROVE  RecordInv' /\ UNCHANGED InProcess!Once!approval
<1>1. InProcess!TypeOK'
  BY DEF InProcess!MaxAttempts, RecordInv, InProcess!Choose, InProcess!TypeOK, Answered
<1>2. Answered'
  BY DEF RecordInv, InProcess!Choose, InProcess!TypeOK, Answered
<1>3. Source'
  BY DEF RecordInv, InProcess!Choose, InProcess!TypeOK, Source, InProcess!ApprovedOnlyExplicitly
<1> QED BY <1>1, <1>2, <1>3 DEF RecordInv, InProcess!Once!approval

LEMMA ResolveByModeStep ==
  ASSUME RecordInv, NEW w \in Waiters, InProcess!ResolveByMode(w)
  PROVE  RecordInv' /\ [InProcess!Once!Next]_(InProcess!Once!approval)
<1>1. PICK d : d = IF mode = "FailClosed" THEN "Denied" ELSE mode
  OBVIOUS
<1>2. d \in InProcess!Decision /\ InProcess!Choose(w, d) /\ (d = "Approved" => mode = "Approved")
  BY <1>1
    DEF InProcess!ResolveByMode, RecordInv, InProcess!TypeOK, InProcess!Mode, InProcess!Decision
<1> QED BY <1>2, ChooseStep DEF InProcess!ResolveByMode

LEMMA PromptStep ==
  ASSUME RecordInv, NEW w \in Waiters, InProcess!Prompt(w)
  PROVE  RecordInv' /\ [InProcess!Once!Next]_(InProcess!Once!approval)
<1> DEFINE more == [attempts EXCEPT ![w] = @ + 1]
<1>1. /\ threads[w] = "resolve" /\ attempts' = more /\ UNCHANGED <<mode, record>>
      /\ attempts[w] \in Nat /\ attempts[w] < InProcess!MaxAttempts /\ more[w] = attempts[w] + 1
  BY DEF InProcess!Prompt, RecordInv, InProcess!TypeOK, Answered
<1>2. ASSUME NEW d \in {"Approved", "Denied"},
             InProcess!Choose(w, d), typed' = typed \cup {d}, UNCHANGED told
      PROVE  RecordInv' /\ UNCHANGED InProcess!Once!approval
  BY <1>1, <1>2, ChooseStep DEF InProcess!Decision
<1>3. ASSUME InProcess!Choose(w, "Denied"), UNCHANGED <<typed, told>>
      PROVE  RecordInv' /\ UNCHANGED InProcess!Once!approval
  BY <1>1, <1>3, ChooseStep DEF InProcess!Decision
<1>4. ASSUME attempts[w] + 1 < InProcess!MaxAttempts, UNCHANGED <<threads, chosen, told, typed>>
      PROVE  RecordInv' /\ UNCHANGED InProcess!Once!approval
  <2>1. InProcess!TypeOK'
    BY <1>1, <1>4 DEF InProcess!MaxAttempts, RecordInv, InProcess!TypeOK
  <2>2. Answered'
    BY <1>1, <1>4 DEF RecordInv, InProcess!TypeOK, Answered
  <2>3. Source'
    BY <1>1, <1>4 DEF RecordInv, Source, InProcess!ApprovedOnlyExplicitly
  <2> QED BY <1>1, <1>4, <2>1, <2>2, <2>3 DEF RecordInv, InProcess!Once!approval
<1>5. ASSUME InProcess!Return(w, "error"), UNCHANGED <<chosen, typed>>
      PROVE  RecordInv' /\ UNCHANGED InProcess!Once!approval
  <2>1. InProcess!TypeOK'
    BY <1>1, <1>5 DEF InProcess!MaxAttempts, RecordInv, InProcess!Return, InProcess!TypeOK
  <2>2. Answered'
    BY <1>1, <1>5 DEF RecordInv, InProcess!Return, InProcess!TypeOK, Answered, InProcess!Decision
  <2>3. Source'
    BY <1>1, <1>5 DEF RecordInv, Source, InProcess!ApprovedOnlyExplicitly
  <2>4. given' = given
    BY <1>1, <1>5, ToldAfter DEF RecordInv, Answered, InProcess!Decision
  <2> QED BY <1>1, <2>1, <2>2, <2>3, <2>4 DEF RecordInv, InProcess!Once!approval, given
<1> QED BY <1>2, <1>3, <1>4, <1>5 DEF InProcess!Prompt

LEMMA StoreStep ==
  ASSUME RecordInv, NEW w \in Waiters, InProcess!Store(w)
  PROVE  RecordInv' /\ [InProcess!Once!Next]_(InProcess!Once!approval)
<1> USE DEF RecordInv
<1>1. /\ threads[w] = "store" /\ chosen[w] \in InProcess!Decision /\ told[w] = "none"
      /\ record \in {"pending"} \cup InProcess!Decision
      /\ UNCHANGED <<mode, chosen, attempts, typed>>
  BY DEF InProcess!Store, InProcess!TypeOK, Answered
<1>2. PICK d \in InProcess!Decision : record' = d /\ InProcess!Return(w, d)
                            /\ d = IF record = "pending" THEN chosen[w] ELSE record
  BY <1>1 DEF InProcess!Store, InProcess!Decision
<1>3. given' = given \cup {d}
  BY <1>1, <1>2, ToldAfter
<1>4. InProcess!TypeOK'
  BY <1>1, <1>2 DEF InProcess!Return, InProcess!TypeOK
<1>5. Answered'
  BY <1>1, <1>2 DEF InProcess!Return, InProcess!TypeOK, Answered, InProcess!Decision
<1>6. Source'
  BY <1>1, <1>2 DEF InProcess!TypeOK, Source, InProcess!ApprovedOnlyExplicitly
<1>7. ASSUME record = "pending" PROVE InProcess!Once!Decide(d)
  BY <1>2, <1>3, <1>7 DEF InProcess!Once!Decide, given
<1>8. ASSUME record # "pending" PROVE InProcess!Once!Tell
  BY <1>1, <1>2, <1>3, <1>8 DEF InProcess!Once!Tell, given
<1> QED BY <1>4, <1>5, <1>6, <1>7, <1>8 DEF InProcess!Once!Next

LEMMA RequestStep ==
  ASSUME RecordInv, InProcess!Request
  PROVE  RecordInv' /\ [InProcess!Once!Next]_(InProcess!Once!approval)
<1>1. InProcess!TypeOK' /\ Answered' /\ Source'
  BY
    DEF InProcess!Request, RecordInv, InProcess!TypeOK, Answered, Source,
      InProcess!ApprovedOnlyExplicitly, InProcess!Decision
<1>2. InProcess!Once!Ask
  BY DEF InProcess!Request, InProcess!Once!Ask
<1> QED BY <1>1, <1>2 DEF RecordInv, InProcess!Once!Next

LEMMA RecordStep ==
  ASSUME RecordInv, [InProcess!Next]_(InProcess!vars)
  PROVE  RecordInv' /\ [InProcess!Once!Next]_(InProcess!Once!approval)
<1>1. ASSUME NEW w \in Waiters, InProcess!Step(w)
      PROVE  RecordInv' /\ [InProcess!Once!Next]_(InProcess!Once!approval)
  BY <1>1, LookStep, ResolveByModeStep, PromptStep, StoreStep DEF InProcess!Step
<1>2. CASE UNCHANGED InProcess!vars
  BY <1>2
    DEF InProcess!vars, RecordInv, InProcess!TypeOK, Answered, Source,
      InProcess!ApprovedOnlyExplicitly, InProcess!Once!approval
<1> QED BY <1>1, <1>2, RequestStep DEF InProcess!Next, InProcess!Finished

\* However many threads wait for the record, and whatever was typed meanwhile,
\* it is decided once and everybody is told that decision.
THEOREM RecordIsDecidedOnce == InProcess!Spec => InProcess!DecidedOnce
<1>1. InProcess!Init => InProcess!Once!Init
  BY DEF InProcess!Init, InProcess!Once!Init, InProcess!Decision
<1>2. RecordInv /\ [InProcess!Next]_(InProcess!vars) => RecordInv' /\ [InProcess!Once!Next]_(InProcess!Once!approval)
  BY RecordStep
<1> QED BY <1>1, <1>2, RecordInit, PTL
  DEF InProcess!Spec, InProcess!DecidedOnce, InProcess!Once!Spec

\* Nobody is told anything but the decision on record: what the abstract record
\* promises, and so the engine, whoever waits.
THEOREM EverybodyIsToldTheSame == InProcess!Spec => []InProcess!Once!OneAnswer
<1> DEFINE Agreed == given \subseteq {record} \cap InProcess!Decision
<1>1. InProcess!Once!Init => Agreed
  BY DEF InProcess!Once!Init, given
<1>2. ASSUME Agreed, [InProcess!Once!Next]_(InProcess!Once!approval) PROVE Agreed'
  <2>1. CASE InProcess!Once!Ask
    BY <1>2, <2>1 DEF InProcess!Once!Ask, given, InProcess!Decision
  <2>2. ASSUME NEW d \in InProcess!Decision, InProcess!Once!Decide(d) PROVE Agreed'
    BY <1>2, <2>2 DEF InProcess!Once!Decide, given, InProcess!Decision
  <2>3. CASE InProcess!Once!Tell
    BY <1>2, <2>3 DEF InProcess!Once!Tell, given, InProcess!Decision
  <2>4. CASE UNCHANGED InProcess!Once!approval
    BY <1>2, <2>4 DEF InProcess!Once!approval, given, InProcess!Decision
  <2> QED BY <1>2, <2>1, <2>2, <2>3, <2>4 DEF InProcess!Once!Next
<1>3. Agreed => InProcess!Once!OneAnswer
  BY DEF InProcess!Once!OneAnswer, given
<1> HIDE DEF Agreed
<1> QED BY <1>1, <1>2, <1>3, RecordIsDecidedOnce, PTL
  DEF InProcess!DecidedOnce, InProcess!Once!Spec

\* A record is approved only by an explicit response, or by an engine that was
\* built to approve.
THEOREM ApprovalIsExplicit == InProcess!Spec => []InProcess!ApprovedOnlyExplicitly
<1>1. RecordInv /\ [InProcess!Next]_(InProcess!vars) => RecordInv'
  BY RecordStep
<1>2. RecordInv => InProcess!ApprovedOnlyExplicitly
  BY DEF RecordInv, Source
<1> QED BY <1>1, <1>2, RecordInit, PTL DEF InProcess!Spec

-----------------------------------------------------------------------------
(* Either engine.                                                           *)

LEMMA EnginesBehave == MCSpec => Spec /\ InProcess!Spec
<1>1. [MCNext]_<<used, vars, localVars>> => [Next]_vars /\ [InProcess!Next]_(InProcess!vars)
  BY DEF MCNext, localVars, InProcess!vars
<1>2. MCInit => Init /\ InProcess!Init
  BY DEF MCInit
<1> QED BY <1>1, <1>2, PTL DEF MCSpec, Spec, InProcess!Spec

\* Whichever engine a configuration uses, nothing is approved but by somebody: in process
\* by an explicit response or an engine built to approve, through the queue by an approver.
THEOREM ApprovalsAreGiven ==
  MCSpec => [](ApprovedOnlyExplicitly /\ JustifiedAnswer /\ UncontestedDecisionStands)
BY EnginesBehave, ApprovalIsExplicit, AnswersAreJustified, UncontestedDecisionsStand, PTL
  DEF ApprovedOnlyExplicitly

\* And a decision of the engine in the process is made once, for all who wait.
THEOREM EngineDecidesOnce == MCSpec => DecidedOnce
BY EnginesBehave, RecordIsDecidedOnce DEF DecidedOnce
=============================================================================
