---------------------------- MODULE StoresProofs ----------------------------
(***************************************************************************)
(* Proofs about the stores, for any tasks, organizations, workers and      *)
(* sessions, any number of commands and any workspace.  Each part has its  *)
(* own section; the ones that are instances of MCStores are proved of      *)
(* their instance there.                                                   *)
(***************************************************************************)
EXTENDS MCStores, TLAPS

-----------------------------------------------------------------------------
(* The row lock.  A row somebody is about to lease is pending and stays so   *)
(* until the lease is committed or aborted.                                  *)

LockInv ==
  /\ TypeOK
  /\ SoleLessor

LEMMA RowTypes ==
  /\ Q!Absent \in Q!Lease /\ Q!Pending \in Q!Lease
  /\ \A w \in Worker : Q!Leased(w) \in Q!Lease
  /\ \A w \in Worker, o \in Q!Outcome : Q!Ended(w, o) \in Q!Lease
BY DEF Q!Absent, Q!Pending, Q!Leased, Q!Ended, Q!Lease, Q!Outcome

LEMMA StatesDiffer ==
  /\ Q!Absent # Q!Pending
  /\ \A w : Q!Leased(w) # Q!Pending /\ Q!Leased(w) # Q!Absent
  /\ \A w, o : o \in Q!Outcome => Q!Ended(w, o) # Q!Pending
BY DEF Q!Absent, Q!Pending, Q!Leased, Q!Ended, Q!Outcome

LEMMA CallTypes ==
  ASSUME TypeOK, NEW s \in Session, call[s].at # "idle"
  PROVE  /\ call[s].key \in Key /\ call[s].worker \in Worker
         /\ call[s].at = "finish" => call[s].outcome \in Q!Outcome
BY DEF TypeOK, Calls

LEMMA ServeTypes ==
  ASSUME TypeOK, NEW s \in Session, Serve(s)
  PROVE  TypeOK'
<1>1. ASSUME NEW k \in Key, Enqueue(s, k)
      PROVE  TypeOK'
  BY <1>1, RowTypes DEF Enqueue, TypeOK
<1>2. ASSUME NEW org \in Organization, NEW w \in Worker, LeaseSelect(s, org, w)
      PROVE  TypeOK'
  <2>1. PICK t \in Task :
          /\ call[s] = Idle
          /\ call' = [call EXCEPT ![s] = [at |-> "update", key |-> <<org, t>>, worker |-> w]]
          /\ locked' = [locked EXCEPT ![s] = {<<org, t>>}]
          /\ UNCHANGED <<row, granted, acked>>
    BY <1>2 DEF LeaseSelect, Begin
  <2>2. <<org, t>> \in Key
    BY DEF Key
  <2>3. [at |-> "update", key |-> <<org, t>>, worker |-> w] \in Calls
    BY <2>2 DEF Calls
  <2>4. locked' \in [Session -> SUBSET Key] /\ call' \in [Session -> Calls]
    BY <2>1, <2>2, <2>3 DEF TypeOK
  <2>5. \A r \in Session :
          locked'[r] = IF call'[r].at = "update" THEN {call'[r].key} ELSE {}
    BY <2>1 DEF TypeOK
  <2> QED BY <2>1, <2>4, <2>5 DEF TypeOK
<1>3. ASSUME NEW k \in Key, NEW w \in Worker, NEW o \in Q!Outcome, FinishSelect(s, k, w, o)
      PROVE  TypeOK'
  <2> DEFINE c == [at |-> "finish", key |-> k, worker |-> w, outcome |-> o]
  <2>1. /\ call[s] = Idle /\ call' = [call EXCEPT ![s] = c]
        /\ UNCHANGED <<row, locked, granted, acked>>
    BY <1>3 DEF FinishSelect, Begin
  <2>2. c \in Calls
    BY DEF Calls
  <2>3. \A r \in Session :
          locked'[r] = IF call'[r].at = "update" THEN {call'[r].key} ELSE {}
    BY <2>1 DEF TypeOK, Idle
  <2> QED BY <2>1, <2>2, <2>3 DEF TypeOK
<1>4. Idle \in Calls
  BY DEF Idle, Calls
<1>5. CASE LeaseCommit(s)
  <2>1. call[s].key \in Key /\ call[s].worker \in Worker
    BY <1>5 DEF LeaseCommit, TypeOK, Calls
  <2>2. \A r \in Session :
          locked'[r] = IF call'[r].at = "update" THEN {call'[r].key} ELSE {}
    BY <1>5 DEF LeaseCommit, End, Release, TypeOK, Idle
  <2>3. row' \in [Key -> Q!Lease] /\ granted' \in [Key -> SUBSET Worker]
    BY <1>5, <2>1, RowTypes DEF LeaseCommit, TypeOK
  <2>4. locked' \in [Session -> SUBSET Key] /\ call' \in [Session -> Calls]
    BY <1>4, <1>5 DEF LeaseCommit, End, Release, TypeOK
  <2> QED BY <1>5, <2>2, <2>3, <2>4 DEF LeaseCommit, TypeOK
<1>6. CASE LeaseAbort(s)
  <2>1. \A r \in Session :
          locked'[r] = IF call'[r].at = "update" THEN {call'[r].key} ELSE {}
    BY <1>6 DEF LeaseAbort, End, Release, TypeOK, Idle
  <2> QED BY <1>4, <1>6, <2>1 DEF LeaseAbort, End, Release, TypeOK
<1>7. CASE FinishUpdate(s)
  <2>1. call[s].key \in Key /\ call[s].worker \in Worker /\ call[s].outcome \in Q!Outcome
    BY <1>7 DEF FinishUpdate, TypeOK, Calls
  <2>2. \A r \in Session :
          locked'[r] = IF call'[r].at = "update" THEN {call'[r].key} ELSE {}
    BY <1>7 DEF FinishUpdate, End, TypeOK, Idle
  <2>3. row' \in [Key -> Q!Lease]
    BY <1>7, <2>1, RowTypes DEF FinishUpdate, TypeOK
  <2>4. acked' \in [Key -> SUBSET (Worker \X Q!Outcome)]
    BY <1>7, <2>1 DEF FinishUpdate, TypeOK
  <2> QED BY <1>4, <1>7, <2>2, <2>3, <2>4 DEF FinishUpdate, End, TypeOK
<1>8. CASE FinishFails(s)
  <2>1. \A r \in Session :
          locked'[r] = IF call'[r].at = "update" THEN {call'[r].key} ELSE {}
    BY <1>8 DEF FinishFails, End, TypeOK, Idle
  <2> QED BY <1>4, <1>8, <2>1 DEF FinishFails, End, TypeOK
<1> QED BY <1>1, <1>2, <1>3, <1>5, <1>6, <1>7, <1>8 DEF Serve

LEMMA ServeLocks ==
  ASSUME LockInv, NEW s \in Session, Serve(s)
  PROVE  SoleLessor'
<1> USE DEF LockInv
<1>1. ASSUME NEW k \in Key, Enqueue(s, k)
      PROVE  SoleLessor'
  BY <1>1, StatesDiffer DEF Enqueue, SoleLessor, TypeOK
<1>2. ASSUME NEW org \in Organization, NEW w \in Worker, LeaseSelect(s, org, w)
      PROVE  SoleLessor'
  <2>1. PICK t \in Task :
          /\ row[<<org, t>>] = Q!Pending /\ Free(<<org, t>>)
          /\ call' = [call EXCEPT ![s] = [at |-> "update", key |-> <<org, t>>, worker |-> w]]
          /\ locked' = [locked EXCEPT ![s] = {<<org, t>>}]
          /\ row' = row
    BY <1>2 DEF LeaseSelect, Begin
  <2>2. \A r \in Session : call[r].at = "update" => call[r].key # <<org, t>>
    BY <2>1 DEF Free, TypeOK
  <2> QED BY <2>1, <2>2 DEF SoleLessor, Free, TypeOK
<1>3. ASSUME NEW k \in Key, NEW w \in Worker, NEW o \in Q!Outcome, FinishSelect(s, k, w, o)
      PROVE  SoleLessor'
  BY <1>3 DEF FinishSelect, Begin, SoleLessor, TypeOK
<1>4. CASE LeaseCommit(s)
  <2>1. \A r \in Session \ {s} : call[r].at = "update" => call[r].key # call[s].key
    BY <1>4 DEF LeaseCommit, SoleLessor, TypeOK
  <2> QED BY <1>4, <2>1 DEF LeaseCommit, End, Release, SoleLessor, TypeOK, Idle
<1>5. CASE LeaseAbort(s)
  BY <1>5 DEF LeaseAbort, End, Release, SoleLessor, TypeOK, Idle
<1>6. CASE FinishUpdate(s)
  BY <1>6, StatesDiffer DEF FinishUpdate, End, SoleLessor, TypeOK, Idle
<1>7. CASE FinishFails(s)
  BY <1>7 DEF FinishFails, End, SoleLessor, TypeOK, Idle
<1> QED BY <1>1, <1>2, <1>3, <1>4, <1>5, <1>6, <1>7 DEF Serve

LEMMA LockInit == Init => LockInv
<1> SUFFICES ASSUME Init PROVE LockInv
  OBVIOUS
<1>1. Idle \in Calls
  BY DEF Idle, Calls
<1>2. \A s \in Session : locked[s] = IF call[s].at = "update" THEN {call[s].key} ELSE {}
  BY DEF Init, Idle
<1> QED BY <1>1, <1>2, RowTypes DEF Init, Q!Init, LockInv, TypeOK, SoleLessor, Idle

LEMMA LockStep ==
  ASSUME LockInv, [Next]_vars
  PROVE  LockInv'
<1>1. CASE Next
  BY <1>1, ServeTypes, ServeLocks DEF Next, LockInv
<1>2. CASE UNCHANGED vars
  BY <1>2 DEF vars, LockInv, TypeOK, SoleLessor
<1> QED BY <1>1, <1>2

\* No two open transactions are about to lease the same task, and the row they
\* locked is still pending.
THEOREM LessorIsAlone == Spec => [](TypeOK /\ SoleLessor)
<1>1. LockInv /\ [Next]_vars => LockInv'
  BY LockStep
<1> QED BY <1>1, LockInit, PTL DEF Spec, LockInv

-----------------------------------------------------------------------------
(* The rows implement the abstract lease store.                             *)

LEMMA ServeRefines ==
  ASSUME LockInv, NEW s \in Session, Serve(s)
  PROVE  [Q!Next]_(Q!leases)
<1> USE DEF LockInv
<1>1. ASSUME NEW k \in Key, Enqueue(s, k)
      PROVE  Q!Next
  BY <1>1 DEF Enqueue, Q!Next, Q!Enqueue
<1>2. ASSUME NEW org \in Organization, NEW w \in Worker, LeaseSelect(s, org, w)
      PROVE  UNCHANGED Q!leases
  BY <1>2 DEF LeaseSelect, Q!leases
<1>3. ASSUME NEW k \in Key, NEW w \in Worker, NEW o \in Q!Outcome, FinishSelect(s, k, w, o)
      PROVE  UNCHANGED Q!leases
  BY <1>3 DEF FinishSelect, Q!leases
<1>4. CASE LeaseCommit(s)
  <2>1. PICK k, w : k = call[s].key /\ w = call[s].worker
    OBVIOUS
  <2>2. k \in Key /\ w \in Worker /\ row[k] = Q!Pending
    BY <1>4, <2>1 DEF LeaseCommit, SoleLessor, TypeOK, Calls
  <2>3. Q!GrantAndAnnounce(k, w) \/ Q!Grant(k, w)
    BY <1>4, <2>1, <2>2 DEF LeaseCommit, Q!GrantAndAnnounce, Q!Grant
  <2> QED BY <2>2, <2>3 DEF Q!Next
<1>5. CASE LeaseAbort(s)
  BY <1>5 DEF LeaseAbort, Q!leases
<1>6. CASE FinishUpdate(s)
  <2>1. PICK k, w, o : k = call[s].key /\ w = call[s].worker /\ o = call[s].outcome
    OBVIOUS
  <2>2. k \in Key /\ w \in Worker /\ o \in Q!Outcome
    BY <1>6, <2>1 DEF FinishUpdate, TypeOK, Calls
  <2>3. CASE row[k] = Q!Leased(w)
    <3>1. Q!Finish(k, w, o)
      BY <1>6, <2>1, <2>3 DEF FinishUpdate, Q!Finish
    <3> QED BY <2>2, <3>1 DEF Q!Next
  <2>4. CASE row[k] # Q!Leased(w)
    BY <1>6, <2>1, <2>4 DEF FinishUpdate, Q!leases
  <2> QED BY <2>3, <2>4
<1>7. CASE FinishFails(s)
  BY <1>7 DEF FinishFails, Q!leases
<1> QED BY <1>1, <1>2, <1>3, <1>4, <1>5, <1>6, <1>7 DEF Serve

\* The lease table keeps the promise of the abstract lease store, however many
\* sessions lease and finish at the same time: one task, one lessee, one end.
THEOREM RowsImplementLeases == Spec => LeaseContract
<1>1. Init => Q!Init
  BY DEF Init
<1>2. LockInv /\ [Next]_vars => [Q!Next]_(Q!leases)
  <2>1. ASSUME LockInv, Next PROVE [Q!Next]_(Q!leases)
    BY <2>1, ServeRefines DEF Next
  <2>2. ASSUME UNCHANGED vars PROVE UNCHANGED Q!leases
    BY <2>2 DEF vars, Q!leases
  <2> QED BY <2>1, <2>2
<1>3. LockInv /\ [Next]_vars => LockInv'
  BY LockStep
<1> QED BY <1>1, <1>2, <1>3, LockInit, PTL DEF Spec, LeaseContract, Q!Spec

-----------------------------------------------------------------------------
(* What follows from the contract alone.                                    *)

LeaseTyped == row \in [Key -> Q!Lease] /\ granted \in [Key -> SUBSET Worker]

LEMMA LeaseHolders ==
  /\ Q!Absent.by = {} /\ Q!Pending.by = {}
  /\ \A w \in Worker : Q!Leased(w).by = {w}
  /\ \A w \in Worker, o \in Q!Outcome : Q!Ended(w, o).by = {w}
BY DEF Q!Absent, Q!Pending, Q!Leased, Q!Ended

LEMMA LesseeStep ==
  ASSUME LeaseTyped, Q!OneLessee, NEW k \in Key, NEW w \in Worker, NEW o \in Q!Outcome,
         \/ Q!Enqueue(k) \/ Q!Grant(k, w) \/ Q!Announce(k, w) \/ Q!GrantAndAnnounce(k, w)
         \/ Q!Finish(k, w, o)
  PROVE  LeaseTyped' /\ Q!OneLessee'
<1> USE RowTypes, LeaseHolders DEF LeaseTyped, Q!OneLessee
<1>1. CASE Q!Enqueue(k)
  BY <1>1 DEF Q!Enqueue
<1>2. CASE Q!Grant(k, w)
  BY <1>2 DEF Q!Grant
<1>3. CASE Q!Announce(k, w)
  BY <1>3 DEF Q!Announce
<1>4. CASE Q!GrantAndAnnounce(k, w)
  BY <1>4 DEF Q!GrantAndAnnounce
<1>5. CASE Q!Finish(k, w, o)
  BY <1>5 DEF Q!Finish
<1> QED BY <1>1, <1>2, <1>3, <1>4, <1>5

\* A task in Postgres is only ever handed to the one worker that holds it, or that
\* has finished it: lease_postgres_task never answers two workers with one task.
THEOREM LeaseHasOneLessee == Spec => []Q!OneLessee
<1>1. Q!Init => LeaseTyped /\ Q!OneLessee
  BY RowTypes, LeaseHolders DEF Q!Init, LeaseTyped, Q!OneLessee
<1>2. LeaseTyped /\ Q!OneLessee /\ [Q!Next]_(Q!leases) => (LeaseTyped /\ Q!OneLessee)'
  <2> SUFFICES ASSUME LeaseTyped, Q!OneLessee, [Q!Next]_(Q!leases)
               PROVE  LeaseTyped' /\ Q!OneLessee'
    OBVIOUS
  <2>1. ASSUME NEW k \in Key, Q!Enqueue(k) PROVE LeaseTyped' /\ Q!OneLessee'
    BY <2>1, RowTypes, LeaseHolders DEF Q!Enqueue, LeaseTyped, Q!OneLessee
  <2>2. "failed" \in Q!Outcome
    BY DEF Q!Outcome
  <2>3. CASE Q!Next
    BY <2>1, <2>2, <2>3, LesseeStep DEF Q!Next
  <2>4. CASE UNCHANGED Q!leases
    BY <2>4 DEF Q!leases, LeaseTyped, Q!OneLessee
  <2> QED BY <2>3, <2>4
<1> QED BY <1>1, <1>2, RowsImplementLeases, PTL DEF Q!Spec, LeaseContract

-----------------------------------------------------------------------------
(* What finish_postgres_lease has acknowledged.                             *)

\* A worker that passed the check of finish_postgres_lease is the lessee of the
\* row from then on, or has finished it in the meantime.
FinishInv ==
  \A s \in Session : call[s].at = "finish" =>
    /\ row[call[s].key].state \in {"leased"} \cup Q!Outcome
    /\ row[call[s].key].by = {call[s].worker}
    /\ row[call[s].key].state = "leased" => row[call[s].key] = Q!Leased(call[s].worker)

AckInv == LockInv /\ FinishInv /\ AckedIsFinished

LEMMA ServeFinish ==
  ASSUME AckInv, NEW s \in Session, Serve(s)
  PROVE  FinishInv' /\ AckedIsFinished'
<1> USE DEF AckInv, LockInv
<1>1. ASSUME NEW k \in Key, Enqueue(s, k)
      PROVE  FinishInv' /\ AckedIsFinished'
  <2>1. row[k].state = "absent" /\ row' = [row EXCEPT ![k] = Q!Pending]
        /\ call' = call /\ acked' = acked
    BY <1>1 DEF Enqueue, Q!Absent
  <2>2. FinishInv'
    BY <2>1, CallTypes DEF FinishInv, TypeOK, Q!Outcome
  <2>3. AckedIsFinished'
    BY <2>1 DEF AckedIsFinished, TypeOK, Q!Outcome
  <2> QED BY <2>2, <2>3
<1>2. ASSUME NEW org \in Organization, NEW w \in Worker, LeaseSelect(s, org, w)
      PROVE  FinishInv' /\ AckedIsFinished'
  BY <1>2 DEF LeaseSelect, Begin, FinishInv, AckedIsFinished, TypeOK
<1>3. ASSUME NEW k \in Key, NEW w \in Worker, NEW o \in Q!Outcome, FinishSelect(s, k, w, o)
      PROVE  FinishInv' /\ AckedIsFinished'
  <2>1. row[k].state = "leased" /\ row[k].by = {w} /\ row[k] = Q!Leased(w)
    BY <1>3 DEF FinishSelect, Q!Leased
  <2> QED BY <1>3, <2>1 DEF FinishSelect, Begin, FinishInv, AckedIsFinished, TypeOK
<1>4. CASE LeaseCommit(s)
  <2>1. PICK k, w : k = call[s].key /\ w = call[s].worker
    OBVIOUS
  <2>2. /\ k \in Key /\ row[k].state = "pending"
        /\ row' = [row EXCEPT ![k] = Q!Leased(w)] /\ acked' = acked
        /\ call' = [call EXCEPT ![s] = Idle]
    BY <1>4, <2>1 DEF LeaseCommit, End, SoleLessor, TypeOK, Calls, Q!Pending
  <2>3. FinishInv'
    BY <2>2, CallTypes DEF FinishInv, TypeOK, Idle, Q!Outcome
  <2>4. AckedIsFinished'
    BY <2>2 DEF AckedIsFinished, TypeOK, Q!Outcome
  <2> QED BY <2>3, <2>4
<1>5. CASE LeaseAbort(s)
  BY <1>5 DEF LeaseAbort, End, FinishInv, AckedIsFinished, TypeOK, Idle
<1>6. CASE FinishUpdate(s)
  <2>1. PICK k, w, o : k = call[s].key /\ w = call[s].worker /\ o = call[s].outcome
    OBVIOUS
  <2>2. k \in Key /\ w \in Worker /\ o \in Q!Outcome
    BY <1>6, <2>1 DEF FinishUpdate, TypeOK, Calls
  <2>3. /\ call' = [call EXCEPT ![s] = Idle]
        /\ row[k].state \in {"leased"} \cup Q!Outcome /\ row[k].by = {w}
        /\ row[k].state = "leased" => row[k] = Q!Leased(w)
        /\ \A j \in Key : acked'[j] \subseteq acked[j] \cup (IF j = k THEN {<<w, o>>} ELSE {})
    BY <1>6, <2>1, <2>2 DEF FinishUpdate, End, FinishInv, TypeOK
  <2>4. CASE row[k] = Q!Leased(w)
    <3>1. row' = [row EXCEPT ![k] = Q!Ended(w, o)]
      BY <1>6, <2>1, <2>4 DEF FinishUpdate
    <3>2. Q!Ended(w, o).state \in Q!Outcome /\ Q!Ended(w, o).by = {w}
          /\ Q!Ended(w, o).state # "leased"
      BY <2>2 DEF Q!Ended, Q!Outcome
    <3>3. FinishInv'
      <4> SUFFICES ASSUME NEW u \in Session, call'[u].at = "finish"
                   PROVE  /\ row'[call'[u].key].state \in {"leased"} \cup Q!Outcome
                          /\ row'[call'[u].key].by = {call'[u].worker}
                          /\ row'[call'[u].key].state = "leased" =>
                               row'[call'[u].key] = Q!Leased(call'[u].worker)
        BY DEF FinishInv
      <4>1. u # s /\ call'[u] = call[u] /\ call[u].key \in Key
        BY <2>3, CallTypes DEF TypeOK, Idle
      <4>2. /\ row[call[u].key].state \in {"leased"} \cup Q!Outcome
            /\ row[call[u].key].by = {call[u].worker}
            /\ row[call[u].key].state = "leased" => row[call[u].key] = Q!Leased(call[u].worker)
        BY <4>1 DEF FinishInv
      <4>3. CASE call[u].key = k
        BY <2>2, <2>3, <3>1, <3>2, <4>1, <4>2, <4>3 DEF TypeOK
      <4>4. CASE call[u].key # k
        BY <3>1, <4>1, <4>2, <4>4
      <4> QED BY <4>3, <4>4
    <3>4. AckedIsFinished'
      BY <2>2, <2>3, <2>4, <3>1, <3>2 DEF AckedIsFinished, TypeOK, Q!Leased, Q!Outcome
    <3> QED BY <3>3, <3>4
  <2>5. CASE row[k] # Q!Leased(w)
    <3>1. row' = row /\ row[k].state \in Q!Outcome
      BY <1>6, <2>1, <2>3, <2>5 DEF FinishUpdate
    <3>2. FinishInv'
      BY <2>3, <3>1 DEF FinishInv, TypeOK, Idle
    <3>3. AckedIsFinished'
      BY <2>2, <2>3, <3>1 DEF AckedIsFinished, TypeOK
    <3> QED BY <3>2, <3>3
  <2> QED BY <2>4, <2>5
<1>7. CASE FinishFails(s)
  BY <1>7 DEF FinishFails, End, FinishInv, AckedIsFinished, TypeOK, Idle
<1> QED BY <1>1, <1>2, <1>3, <1>4, <1>5, <1>6, <1>7 DEF Serve

\* Whoever was told that a task is finished is the worker it was leased to, and
\* the task stays finished by that worker.
THEOREM AcknowledgedIsFinished == Spec => []AckedIsFinished
<1>1. Init => AckInv
  BY LockInit DEF Init, AckInv, FinishInv, AckedIsFinished, Idle
<1>2. AckInv /\ [Next]_vars => AckInv'
  <2> SUFFICES ASSUME AckInv, [Next]_vars PROVE AckInv'
    OBVIOUS
  <2>1. LockInv'
    BY LockStep DEF AckInv
  <2>2. CASE Next
    BY <2>1, <2>2, ServeFinish DEF Next, AckInv
  <2>3. CASE UNCHANGED vars
    BY <2>1, <2>3 DEF vars, AckInv, FinishInv, AckedIsFinished
  <2> QED BY <2>2, <2>3
<1>3. AckInv => AckedIsFinished
  BY DEF AckInv
<1> QED BY <1>1, <1>2, <1>3, PTL DEF Spec

-----------------------------------------------------------------------------
(* The stores side by side.  Each step is one of the store in use, and so    *)
(* every store behaves as its own specification says.                        *)

storeVars == <<used, vars, queueVars, fileVars, exportVars, evidenceVars, diffVars>>

LEMMA PartSteps ==
  ASSUME [MCNext]_storeVars
  PROVE  /\ used' = used
         /\ [Next]_vars
         /\ [Queue!Next]_(Queue!vars)
         /\ [File!Next]_(File!vars)
         /\ [Exports!Next]_(Exports!vars)
         /\ used = "replay" => [Replays!Next]_evidenceVars
         /\ used = "index" => [Index!Next]_evidenceVars
         /\ used = "diff" => [Diff!Next]_diffVars
<1>1. CASE UNCHANGED storeVars
  BY <1>1 DEF storeVars, queueVars, fileVars, exportVars, Queue!vars, File!vars, Exports!vars
<1>2. CASE MCNext
  <2>1. used' = used
    BY <1>2 DEF MCNext
  <2>2. [Next]_vars
    BY <1>2 DEF MCNext
  <2>3. [Queue!Next]_(Queue!vars)
    BY <1>2 DEF MCNext, queueVars, Queue!vars
  <2>4. [File!Next]_(File!vars)
    BY <1>2 DEF MCNext, fileVars, File!vars
  <2>5. [Exports!Next]_(Exports!vars)
    BY <1>2 DEF MCNext, exportVars, Exports!vars
  <2>6. /\ used = "replay" => [Replays!Next]_evidenceVars
        /\ used = "index" => [Index!Next]_evidenceVars
        /\ used = "diff" => [Diff!Next]_diffVars
    BY <1>2 DEF MCNext
  <2> QED BY <2>1, <2>2, <2>3, <2>4, <2>5, <2>6
<1> QED BY <1>1, <1>2

LEMMA PartsBehave == MCSpec => Spec /\ Queue!Spec /\ File!Spec /\ Exports!Spec
<1>1. MCInit => Init /\ Queue!Init /\ File!Init /\ Exports!Init
  BY DEF MCInit
<1>2. [MCNext]_storeVars => /\ [Next]_vars /\ [Queue!Next]_(Queue!vars)
                            /\ [File!Next]_(File!vars) /\ [Exports!Next]_(Exports!vars)
  BY PartSteps
<1> QED BY <1>1, <1>2, PTL DEF MCSpec, storeVars, Spec, Queue!Spec, File!Spec, Exports!Spec

-----------------------------------------------------------------------------
(* The queue in memory.                                                      *)

\* The mutex makes every operation of InMemoryWorkerQueue one step of the abstract
\* lease store, for any organizations that share its map.
THEOREM QueueImplementsLeases == MCSpec => QueueContract
<1>1. Queue!Init => Queue!Q!Init
  BY DEF Queue!Init
<1>2. [Queue!Next]_(Queue!vars) => [Queue!Q!Next]_(Queue!Q!leases)
  <2>1. ASSUME NEW t \in QueuedTask, NEW org \in QueueOrganization, Queue!Enqueue(org, t)
        PROVE  Queue!Q!Next
    BY <2>1 DEF Queue!Enqueue, Queue!Q!Next, Queue!Q!Enqueue
  <2>2. ASSUME NEW org \in QueueOrganization, NEW w \in Worker, Queue!LeaseNext(org, w)
        PROVE  Queue!Q!Next
    <3>1. PICK t \in QueuedTask :
            /\ leases[t] = Queue!Q!Pending
            /\ leases' = [leases EXCEPT ![t] = Queue!Q!Leased(w)]
            /\ given' = [given EXCEPT ![t] = @ \cup {w}]
      BY <2>2 DEF Queue!LeaseNext
    <3> QED BY <3>1 DEF Queue!Q!Next, Queue!Q!GrantAndAnnounce
  <2>3. ASSUME NEW t \in QueuedTask, NEW w \in Worker, NEW o \in Queue!Q!Outcome,
               Queue!FinishLeased(t, w, o)
        PROVE  Queue!Q!Next
    BY <2>3 DEF Queue!FinishLeased, Queue!Q!Next, Queue!Q!Finish
  <2>4. CASE UNCHANGED Queue!vars
    BY <2>4 DEF Queue!vars, Queue!Q!leases
  <2> QED BY <2>1, <2>2, <2>3, <2>4 DEF Queue!Next
<1> QED BY <1>1, <1>2, PartsBehave, PTL
  DEF Queue!Spec, QueueContract, Queue!LeaseContract, Queue!Q!Spec

-----------------------------------------------------------------------------
(* Damage to the JSON file.                                                  *)

\* A file that was left empty or torn by a killed or failed command stays so: no
\* later command opens it, whatever the number of commands.
THEOREM DamageStays == MCSpec => DamageIsNotForgotten
<1>1. [File!Next]_(File!vars) =>
        (File!Damaged => File!Damaged' /\ UNCHANGED <<content, told>>)
  <2> SUFFICES ASSUME [File!Next]_(File!vars), File!Damaged
               PROVE  File!Damaged' /\ UNCHANGED <<content, told>>
    OBVIOUS
  <2>1. \A c \in Command : process[c].at = "idle" /\ process[c] = File!Idle /\ ~File!Open(c)
    BY DEF File!Damaged, File!Idle, File!Open
  <2>2. ASSUME NEW c \in Command PROVE ~File!Run(c)
    BY <2>1 DEF File!Run, File!Enqueue, File!Lease, File!Finish, File!Migrate, File!Export,
                File!ExportTruncate, File!ExportPayload, File!Truncate, File!Write,
                File!WriteTorn, File!Kill
  <2>3. ASSUME NEW t \in Exportable, File!TaskRuns(t)
        PROVE  File!Damaged' /\ UNCHANGED <<content, told>>
    BY <2>3 DEF File!TaskRuns, File!Damaged
  <2>4. CASE UNCHANGED File!vars
    BY <2>4 DEF File!vars, File!Damaged
  <2> QED BY <2>2, <2>3, <2>4 DEF File!Next
<1> QED BY <1>1, PartsBehave, PTL DEF File!Spec, DamageIsNotForgotten, File!DamageIsNotForgotten

-----------------------------------------------------------------------------
(* The exports in Postgres.                                                  *)

ServerCalls ==
  [at : {"idle"}]
    \cup [at : {"put"}, task : IndexedTask, events : Nat]
    \cup [at : {"truncate", "payload", "artifact", "record"}, task : IndexedTask,
          events : Int, status : {"Completed", "Failed"}]

ExportTypes ==
  /\ tasks \in [IndexedTask -> Nat \cup {-1}] /\ artifacts \in [IndexedTask -> Int]
  /\ history \in [IndexedTask -> Int] /\ payload \in [IndexedTask -> Int]
  /\ server \in [Session -> ServerCalls]

\* What a server in the middle of an export knows, unless the export is to be
\* recorded as a failed one: that the task is registered, and what it has stored.
ServerKnows(s) ==
  LET c == server[s]
  IN  /\ c.at \in {"truncate", "payload", "artifact"} => c.status = "Completed"
      /\ c.at \in {"truncate", "payload", "artifact", "record"} /\ c.status = "Completed" =>
           /\ c.events >= 0 /\ tasks[c.task] >= 0
           /\ c.at \in {"payload", "artifact", "record"} => payload[c.task] >= -1
           /\ c.at = "record" => artifacts[c.task] >= 0

ExportInv ==
  /\ ExportTypes
  /\ \A s \in Session : ServerKnows(s)
  /\ Exports!ExportsAreBacked

\* Nothing that an export has found or stored is taken back.
NothingLost ==
  \A t \in IndexedTask :
    /\ tasks[t] >= 0 => tasks'[t] >= 0
    /\ artifacts[t] >= 0 => artifacts'[t] >= 0
    /\ payload[t] >= -1 => payload'[t] >= -1

LEMMA KnowledgeLasts ==
  ASSUME ExportInv, NothingLost, NEW s \in Session,
         \A r \in Session \ {s} : server'[r] = server[r], ServerKnows(s)'
  PROVE  \A r \in Session : ServerKnows(r)'
<1>1. ASSUME NEW r \in Session, r # s PROVE ServerKnows(r)'
  BY <1>1 DEF ExportInv, ExportTypes, ServerCalls, NothingLost, ServerKnows
<1> QED BY <1>1

LEMMA BackingLasts ==
  ASSUME ExportInv, NothingLost, exports' \subseteq exports \cup {[status |-> "Planned"]}
  PROVE  Exports!ExportsAreBacked'
<1>1. \A t : [task |-> t, status |-> "Completed"] # [status |-> "Planned"]
  OBVIOUS
<1> QED BY <1>1 DEF ExportInv, ExportTypes, NothingLost, Exports!ExportsAreBacked

\* A step that ends the call of a server: it knows nothing any more.
LEMMA IdleServer ==
  ASSUME ExportInv, NEW s \in Session, Exports!End(s)
  PROVE  /\ server' \in [Session -> ServerCalls] /\ ServerKnows(s)'
         /\ \A r \in Session \ {s} : server'[r] = server[r]
BY DEF ExportInv, ExportTypes, ServerCalls, Exports!End, Exports!Idle, ServerKnows

\* A step to the next part of an export.
LEMMA NextPart ==
  ASSUME ExportInv, NEW s \in Session,
         NEW from \in {"truncate", "payload", "artifact"},
         NEW to \in {"payload", "artifact", "record"}, Exports!Go(s, from, to)
  PROVE  /\ server' \in [Session -> ServerCalls]
         /\ \A r \in Session \ {s} : server'[r] = server[r]
         /\ server[s].task \in IndexedTask /\ server[s].events \in Nat
         /\ server[s].status = "Completed"
         /\ server'[s].at = to /\ server'[s].task = server[s].task
         /\ server'[s].events = server[s].events /\ server'[s].status = "Completed"
<1>1. /\ server[s].at = from /\ server' = [server EXCEPT ![s] = [server[s] EXCEPT !.at = to]]
      /\ server \in [Session -> ServerCalls] /\ ServerKnows(s)
  BY DEF Exports!Go, ExportInv, ExportTypes
<1>2. server[s] \in [at : {"truncate", "payload", "artifact", "record"}, task : IndexedTask,
                     events : Int, status : {"Completed", "Failed"}]
  BY <1>1 DEF ServerCalls
<1>3. server[s].status = "Completed" /\ server[s].events >= 0
  BY <1>1 DEF ServerKnows
<1>4. [server[s] EXCEPT !.at = to] \in ServerCalls
  BY <1>2 DEF ServerCalls
<1> QED BY <1>1, <1>2, <1>3, <1>4

LEMMA ServerSteps ==
  ASSUME ExportInv, NEW s \in Session, Exports!Step(s)
  PROVE  ExportInv'
<1> DEFINE Others == \A r \in Session \ {s} : server'[r] = server[r]
<1> USE DEF ExportInv
<1>0. ASSUME ExportTypes', Others, NothingLost, ServerKnows(s)',
             exports' \subseteq exports \cup {[status |-> "Planned"]}
      PROVE  ExportInv'
  BY <1>0, KnowledgeLasts, BackingLasts
<1>1. ASSUME NEW t \in IndexedTask, Exports!Summarise(s, t)
      PROVE  ExportInv'
  <2>1. [at |-> "put", task |-> t, events |-> history[t]] \in ServerCalls
    BY <1>1 DEF Exports!Summarise, ServerCalls, ExportTypes
  <2>2. ExportTypes' /\ Others /\ NothingLost /\ ServerKnows(s)' /\ exports' = exports
    BY <1>1, <2>1 DEF Exports!Summarise, ExportTypes, NothingLost, ServerKnows
  <2> QED BY <1>0, <2>2
<1>2. ASSUME NEW t \in IndexedTask, Exports!Export(s, t)
      PROVE  ExportInv'
  <2>1. PICK c \in ServerCalls :
          /\ server' = [server EXCEPT ![s] = c]
          /\ c.status = "Completed" => tasks[t] # -1 /\ history[t] >= 0
          /\ c.at \in {"truncate", "record"} /\ (c.at = "truncate") = (c.status = "Completed")
          /\ c.task = t /\ c.events = history[t]
    <3>1. CASE tasks[t] # -1 /\ history[t] >= 0
      <4>1. [at |-> "truncate", task |-> t, events |-> history[t], status |-> "Completed"]
              \in ServerCalls
        BY DEF ServerCalls, ExportTypes
      <4> QED BY <1>2, <3>1, <4>1 DEF Exports!Export
    <3>2. CASE ~(tasks[t] # -1 /\ history[t] >= 0)
      <4>1. [at |-> "record", task |-> t, events |-> history[t], status |-> "Failed"]
              \in ServerCalls
        BY DEF ServerCalls, ExportTypes
      <4> QED BY <1>2, <3>2, <4>1 DEF Exports!Export
    <3> QED BY <3>1, <3>2
  <2>2. tasks[t] # -1 => tasks[t] >= 0
    BY DEF ExportTypes
  <2>3. ExportTypes' /\ Others /\ NothingLost /\ ServerKnows(s)' /\ exports' = exports
    BY <1>2, <2>1, <2>2 DEF Exports!Export, ExportTypes, NothingLost, ServerKnows
  <2> QED BY <1>0, <2>3
<1>3. CASE Exports!PlanExport(s)
  BY <1>0, <1>3 DEF Exports!PlanExport, ExportTypes, NothingLost, ServerKnows
<1>4. CASE Exports!PutTask(s)
  <2>1. server[s].task \in IndexedTask /\ server[s].events \in Nat
    BY <1>4 DEF Exports!PutTask, ExportTypes, ServerCalls
  <2>2. ExportTypes' /\ NothingLost /\ exports' = exports
    BY <1>4, <2>1, IdleServer DEF Exports!PutTask, ExportTypes, NothingLost
  <2> QED BY <1>0, <1>4, <2>2, IdleServer DEF Exports!PutTask
<1>5. CASE Exports!Truncate(s)
  <2>1. Exports!Go(s, "truncate", "payload")
    BY <1>5 DEF Exports!Truncate
  <2>2. ExportTypes' /\ NothingLost /\ exports' = exports
    BY <1>5, <2>1, NextPart DEF Exports!Truncate, ExportTypes, NothingLost
  <2>3. /\ server'[s].at = "payload" /\ server'[s].task = server[s].task
        /\ server'[s].events = server[s].events /\ server'[s].status = "Completed"
        /\ server[s].events \in Nat
    BY <2>1, NextPart
  <2>4. /\ payload'[server'[s].task] = -1 /\ tasks' = tasks
    BY <1>5, <2>1, <2>3, NextPart DEF Exports!Truncate, ExportTypes
  <2>5. ServerKnows(s) /\ server[s].at = "truncate" /\ server[s].status = "Completed"
    BY <2>1, NextPart DEF Exports!Go
  <2>6. ServerKnows(s)'
    BY <2>3, <2>4, <2>5 DEF ServerKnows
  <2> QED BY <1>0, <2>1, <2>2, <2>6, NextPart
<1>6. CASE Exports!WritePayload(s)
  <2>1. Exports!Go(s, "payload", "artifact")
    BY <1>6 DEF Exports!WritePayload
  <2>2. ExportTypes' /\ NothingLost /\ exports' = exports
    BY <1>6, <2>1, NextPart DEF Exports!WritePayload, ExportTypes, NothingLost
  <2>3. /\ server'[s].at = "artifact" /\ server'[s].task = server[s].task
        /\ server'[s].events = server[s].events /\ server'[s].status = "Completed"
        /\ server[s].events \in Nat
    BY <2>1, NextPart
  <2>4. /\ payload'[server'[s].task] = server[s].events /\ tasks' = tasks
    BY <1>6, <2>1, <2>3, NextPart DEF Exports!WritePayload, ExportTypes
  <2>5. ServerKnows(s) /\ server[s].at = "payload" /\ server[s].status = "Completed"
    BY <2>1, NextPart DEF Exports!Go
  <2>6. ServerKnows(s)'
    BY <2>3, <2>4, <2>5 DEF ServerKnows
  <2> QED BY <1>0, <2>1, <2>2, <2>6, NextPart
<1>7. CASE Exports!RecordArtifact(s)
  <2>1. Exports!Go(s, "artifact", "record")
    BY <1>7 DEF Exports!RecordArtifact
  <2>2. ExportTypes' /\ NothingLost /\ exports' = exports
    BY <1>7, <2>1, NextPart DEF Exports!RecordArtifact, ExportTypes, NothingLost
  <2>3. /\ server'[s].at = "record" /\ server'[s].task = server[s].task
        /\ server'[s].events = server[s].events /\ server'[s].status = "Completed"
        /\ server[s].events \in Nat
    BY <2>1, NextPart
  <2>4. /\ artifacts'[server'[s].task] = server[s].events
        /\ UNCHANGED <<tasks, payload>>
    BY <1>7, <2>1, <2>3, NextPart DEF Exports!RecordArtifact, ExportTypes
  <2>5. ServerKnows(s) /\ server[s].at = "artifact" /\ server[s].status = "Completed"
    BY <2>1, NextPart DEF Exports!Go
  <2>6. ServerKnows(s)'
    BY <2>3, <2>4, <2>5 DEF ServerKnows
  <2> QED BY <1>0, <2>1, <2>2, <2>6, NextPart
<1>8. CASE Exports!RecordExport(s)
  <2>1. ExportTypes' /\ NothingLost /\ ServerKnows(s)' /\ Others
    BY <1>8, IdleServer DEF Exports!RecordExport, ExportTypes, NothingLost
  <2>2. ServerKnows(s) /\ server[s].at = "record"
        /\ exports' = exports \cup {[task |-> server[s].task, status |-> server[s].status]}
        /\ UNCHANGED <<tasks, artifacts, payload>>
    BY <1>8 DEF Exports!RecordExport
  <2>3. Exports!ExportsAreBacked'
    BY <2>2 DEF Exports!ExportsAreBacked, ServerKnows
  <2> QED BY <2>1, <2>3, KnowledgeLasts
<1>9. CASE Exports!Fail(s)
  <2>1. ExportTypes' /\ NothingLost /\ exports' = exports
    BY <1>9, IdleServer DEF Exports!Fail, ExportTypes, NothingLost
  <2> QED BY <1>0, <1>9, <2>1, IdleServer DEF Exports!Fail
<1> QED BY <1>1, <1>2, <1>3, <1>4, <1>5, <1>6, <1>7, <1>8, <1>9 DEF Exports!Step

LEMMA ExportInit == Exports!Init => ExportInv
BY DEF Exports!Init, Exports!Idle, Exports!ExportsAreBacked,
       ExportInv, ExportTypes, ServerCalls, ServerKnows

LEMMA ExportStep ==
  ASSUME MaxEvents \in Nat, ExportInv, [Exports!Next]_(Exports!vars)
  PROVE  ExportInv'
<1>1. ASSUME NEW t \in IndexedTask, Exports!TaskRuns(t)
      PROVE  ExportInv'
  BY <1>1 DEF Exports!TaskRuns, ExportInv, ExportTypes, ServerKnows, Exports!ExportsAreBacked
<1>2. CASE UNCHANGED Exports!vars
  BY <1>2 DEF Exports!vars, ExportInv, ExportTypes, ServerKnows, Exports!ExportsAreBacked
<1> QED BY <1>1, <1>2, ServerSteps DEF Exports!Next

-----------------------------------------------------------------------------
(* The diff of a workspace.                                                  *)

Differing  == Diff!Staged \cup Diff!Unstaged \cup Diff!Untracked
Collecting == {"unstaged", "staged", "untracked", "write"}

\* What a path is to git depends on these, and an edit remembers the paths for which
\* one of them changed.
SameFor(p) ==
  /\ head'[p] = head[p] /\ indexed'[p] = indexed[p] /\ tree'[p] = tree[p]
  /\ p \in ignored' <=> p \in ignored

\* Of a workspace that was clean at the baseline, whatever differs has been touched
\* since then, and so has whatever the diff has listed so far.
SinceBaseline ==
  phase # "idle" /\ ~baseline =>
    /\ Differing \ Internal \subseteq touched
    /\ phase \in Collecting => (seen.final \cup seen.listed) \ Internal \subseteq touched

\* The commands of git that are over have listed what has stood still since then.
SinceStatus ==
  /\ phase \in {"staged", "untracked", "write"} => Diff!Unstaged \ moved \subseteq seen.listed
  /\ phase \in {"untracked", "write"} => Diff!Staged \ moved \subseteq seen.listed
  /\ phase = "write" => Diff!Untracked \ (Internal \cup moved) \subseteq seen.listed

DiffInv ==
  /\ SinceBaseline /\ SinceStatus
  /\ phase = "status" => seen = Diff!Nothing
  /\ phase \in Collecting => DOMAIN seen = {"final", "listed"}

LEMMA EditsAreNoticed ==
  ASSUME Diff!Edit
  PROVE  /\ \A p \in Path \ touched' : SameFor(p)
         /\ \A p \in Path \ moved' : SameFor(p)
         /\ touched \subseteq touched' /\ moved \subseteq moved'
         /\ UNCHANGED <<phase, run, baseline, seen, diff>>
BY DEF Diff!Edit, SameFor

LEMMA Listing ==
  ASSUME DiffInv, NEW from \in Collecting, NEW to \in Collecting, NEW paths,
         Diff!List(from, to, paths), paths \subseteq Differing
  PROVE  /\ SinceBaseline' /\ DOMAIN seen' = {"final", "listed"}
         /\ seen'.listed = seen.listed \cup paths /\ phase = from /\ phase' = to
         /\ UNCHANGED <<head, indexed, tree, ignored, moved, diff>>
<1>1. /\ phase = from /\ phase' = to /\ seen' = [seen EXCEPT !.listed = seen.listed \cup paths]
      /\ UNCHANGED <<head, indexed, tree, ignored, baseline, touched, moved, diff>>
  BY DEF Diff!List, Diff!Go, Diff!workspace
<1>2. DOMAIN seen = {"final", "listed"}
  BY <1>1 DEF DiffInv
<1>3. DOMAIN seen' = {"final", "listed"} /\ seen'.listed = seen.listed \cup paths
      /\ seen'.final = seen.final
  BY <1>1, <1>2
<1>4. Differing' = Differing
  BY <1>1 DEF Differing, Diff!Staged, Diff!Unstaged, Diff!Untracked
<1> QED BY <1>1, <1>3, <1>4 DEF DiffInv, SinceBaseline, Collecting

LEMMA DiffSteps ==
  ASSUME DiffInv, Diff!Next
  PROVE  DiffInv' /\ Diff!TellsTheRun
<1> USE DEF Collecting
<1>1. CASE Diff!Edit
  <2>1. \A p \in Path : SameFor(p) =>
          /\ p \in Diff!Staged' <=> p \in Diff!Staged
          /\ p \in Diff!Unstaged' <=> p \in Diff!Unstaged
          /\ p \in Diff!Untracked' <=> p \in Diff!Untracked
    BY DEF SameFor, Diff!Staged, Diff!Unstaged, Diff!Untracked
  <2>2. Differing' \subseteq Path /\ Diff!Staged' \subseteq Path
        /\ Diff!Unstaged' \subseteq Path /\ Diff!Untracked' \subseteq Path
    BY DEF Differing, Diff!Staged, Diff!Unstaged, Diff!Untracked
  <2>3. SinceBaseline'
    BY <1>1, <2>1, <2>2, EditsAreNoticed DEF DiffInv, SinceBaseline, Differing
  <2>4. SinceStatus'
    BY <1>1, <2>1, <2>2, EditsAreNoticed DEF DiffInv, SinceStatus
  <2> QED BY <1>1, <2>3, <2>4, EditsAreNoticed DEF DiffInv, Diff!TellsTheRun
<1>2. CASE Diff!CaptureBaseline
  <2>1. PICK probe \in Diff!Probe \ {"error"} :
          Diff!BeginBaseline(probe = "inside" => Diff!Status # {})
    BY <1>2 DEF Diff!CaptureBaseline
  <2>2. /\ phase' = "agent" /\ baseline' = (probe = "inside" => Diff!Status # {})
        /\ UNCHANGED <<head, indexed, tree, ignored, diff>>
    BY <2>1 DEF Diff!BeginBaseline, Diff!Go, Diff!workspace
  <2>3. ~baseline' => Differing' \ Internal = {}
    BY <2>2 DEF Diff!Status, Diff!Filtered, Differing, Diff!Staged, Diff!Unstaged, Diff!Untracked
  <2> QED BY <2>2, <2>3 DEF DiffInv, SinceBaseline, SinceStatus, Diff!TellsTheRun
<1>3. CASE Diff!SkipDiff
  BY <1>3 DEF Diff!SkipDiff, Diff!Go, DiffInv, SinceBaseline, SinceStatus, Diff!TellsTheRun
<1>4. CASE Diff!CollectFails
  BY <1>4 DEF Diff!CollectFails, DiffInv, SinceBaseline, SinceStatus, Diff!TellsTheRun
<1>5. CASE Diff!BeginDiff
  <2>1. /\ phase = "agent" /\ phase' = "status" /\ seen' = Diff!Nothing
        /\ UNCHANGED <<head, indexed, tree, ignored, baseline, touched, diff>>
    BY <1>5 DEF Diff!BeginDiff, Diff!Go, Diff!workspace
  <2>2. Differing' = Differing
    BY <2>1 DEF Differing, Diff!Staged, Diff!Unstaged, Diff!Untracked
  <2> QED BY <2>1, <2>2 DEF DiffInv, SinceBaseline, SinceStatus, Diff!TellsTheRun
<1>6. ASSUME phase = "status", Diff!WriteDiff(FALSE)
      PROVE  DiffInv' /\ Diff!TellsTheRun
  <2>1. /\ phase' = "idle" /\ diff'.sections = FALSE
        /\ diff'.final = {} /\ diff'.listed = {}
    BY <1>6 DEF Diff!WriteDiff, DiffInv, Diff!Nothing
  <2> QED BY <2>1 DEF DiffInv, SinceBaseline, SinceStatus, Diff!TellsTheRun
<1>7. CASE Diff!FinalStatus
  <2>1. CASE Diff!Go("status", "unstaged")
    <3>1. /\ phase = "status" /\ phase' = "unstaged" /\ seen = Diff!Nothing
          /\ seen' = [seen EXCEPT !.final = Diff!Status]
          /\ UNCHANGED <<head, indexed, tree, ignored, baseline, touched, diff>>
      BY <1>7, <2>1 DEF Diff!FinalStatus, Diff!Go, Diff!workspace, DiffInv, Diff!WriteDiff
    <3>2. DOMAIN seen' = {"final", "listed"} /\ seen'.final = Diff!Status /\ seen'.listed = {}
      BY <3>1 DEF Diff!Nothing
    <3>3. Differing' = Differing /\ Diff!Status = Differing \ Internal
      BY <3>1
        DEF Differing, Diff!Status, Diff!Filtered, Diff!Staged, Diff!Unstaged, Diff!Untracked
    <3> QED BY <3>1, <3>2, <3>3 DEF DiffInv, SinceBaseline, SinceStatus, Diff!TellsTheRun
  <2>2. CASE ~Diff!Go("status", "unstaged")
    BY <1>6, <1>7, <2>2 DEF Diff!FinalStatus
  <2> QED BY <2>1, <2>2
<1>8. CASE Diff!DiffUnstaged
  <2>1. Diff!List("unstaged", "staged", Diff!Unstaged) /\ Diff!Unstaged \subseteq Differing
    BY <1>8 DEF Diff!DiffUnstaged, Differing
  <2>2. Diff!Unstaged' = Diff!Unstaged
    BY <2>1 DEF Diff!List, Diff!workspace, Diff!Unstaged
  <2> QED BY <2>1, <2>2, Listing DEF DiffInv, SinceStatus, Diff!TellsTheRun
<1>9. CASE Diff!DiffStaged
  <2>1. Diff!List("staged", "untracked", Diff!Staged) /\ Diff!Staged \subseteq Differing
    BY <1>9 DEF Diff!DiffStaged, Differing
  <2>2. Diff!Unstaged' = Diff!Unstaged /\ Diff!Staged' = Diff!Staged
    BY <2>1 DEF Diff!List, Diff!workspace, Diff!Unstaged, Diff!Staged
  <2> QED BY <2>1, <2>2, Listing DEF DiffInv, SinceStatus, Diff!TellsTheRun
<1>10. CASE Diff!ListUntracked
  <2>1. Diff!List("untracked", "write", Diff!Filtered(Diff!Untracked))
        /\ Diff!Filtered(Diff!Untracked) = Diff!Untracked \ Internal
        /\ Diff!Filtered(Diff!Untracked) \subseteq Differing
    BY <1>10 DEF Diff!ListUntracked, Diff!Filtered, Differing
  <2>2. Diff!Unstaged' = Diff!Unstaged /\ Diff!Staged' = Diff!Staged
        /\ Diff!Untracked' = Diff!Untracked
    BY <2>1 DEF Diff!List, Diff!workspace, Diff!Unstaged, Diff!Staged, Diff!Untracked
  <2> QED BY <2>1, <2>2, Listing DEF DiffInv, SinceStatus, Diff!TellsTheRun
<1>11. CASE Diff!WriteSections
  <2>1. /\ phase = "write" /\ phase' = "idle"
        /\ diff'.dirty = baseline /\ diff'.final = seen.final /\ diff'.listed = seen.listed
    BY <1>11 DEF Diff!WriteSections, Diff!WriteDiff
  <2>2. ASSUME NEW p \in Path \ (Internal \cup moved), tree[p] # head[p]
        PROVE  p \in seen.listed \/ (p \in ignored /\ indexed[p] = "absent" /\ head[p] = "absent")
    <3>1. CASE indexed[p] # head[p]
      BY <2>1, <2>2, <3>1 DEF DiffInv, SinceStatus, Diff!Staged
    <3>2. CASE indexed[p] = head[p] /\ indexed[p] # "absent"
      BY <2>1, <2>2, <3>2 DEF DiffInv, SinceStatus, Diff!Unstaged
    <3>3. CASE indexed[p] = head[p] /\ indexed[p] = "absent"
      BY <2>1, <2>2, <3>3 DEF DiffInv, SinceStatus, Diff!Untracked
    <3> QED BY <3>1, <3>2, <3>3
  <2> QED BY <2>1, <2>2 DEF DiffInv, SinceBaseline, SinceStatus, Diff!TellsTheRun
<1> QED BY <1>1, <1>2, <1>3, <1>4, <1>5, <1>7, <1>8, <1>9, <1>10, <1>11 DEF Diff!Next

\* Whoever edits the workspace meanwhile, a diff without its warning lists nothing
\* that was there before the run, and a diff lists what stood still.
THEOREM DiffsTellTheRun == MCSpec => DiffTellsTheRun
<1> DEFINE Inv == used = "diff" => DiffInv
<1>1. MCInit => Inv
  BY DEF MCInit, Diff!Init, DiffInv, SinceBaseline, SinceStatus, Collecting
<1>2. Inv /\ [MCNext]_storeVars =>
        Inv' /\ [used = "diff" => Diff!TellsTheRun]_<<used, diffVars>>
  <2> SUFFICES ASSUME Inv, [MCNext]_storeVars
               PROVE  Inv' /\ [used = "diff" => Diff!TellsTheRun]_<<used, diffVars>>
    OBVIOUS
  <2>1. used' = used /\ (used = "diff" => [Diff!Next]_diffVars)
    BY PartSteps
  <2>2. CASE used # "diff"
    BY <2>1, <2>2
  <2>3. CASE used = "diff" /\ Diff!Next
    BY <2>1, <2>3, DiffSteps
  <2>4. CASE used = "diff" /\ UNCHANGED diffVars
    <3>1. DiffInv => DiffInv'
      BY <2>4 DEF diffVars, DiffInv, SinceBaseline, SinceStatus, Differing,
                  Diff!Staged, Diff!Unstaged, Diff!Untracked
    <3> QED BY <2>1, <2>4, <3>1
  <2> QED BY <2>1, <2>2, <2>3, <2>4
<1> QED BY <1>1, <1>2, PTL DEF MCSpec, storeVars, DiffTellsTheRun

-----------------------------------------------------------------------------
(* The exports in the JSON file, and what the file becomes.                  *)

ArtifactOps == [kind : {"artifact"}, task : Exportable, events : 1..MaxEvents]
FileOps ==
  [kind : {"enqueue", "finish", "export"}]
    \cup [kind : {"lease"}, task : Task, worker : Worker]
    \cup [kind : {"migrate"}, rest : SUBSET Exportable]
    \cup ArtifactOps
Processes ==
  [at : {"idle"}]
    \cup [at : {"truncate", "write"}, op : FileOps]
    \cup [at : {"export", "payload"}, op : ArtifactOps]
Contents ==
  [tasks : SUBSET Exportable, leases : [Task -> File!Q!Lease],
   artifacts : SUBSET [task : Exportable, events : 1..MaxEvents],
   exports : SUBSET [task : Exportable, status : {"Completed", "Failed"}]]

FileTypes ==
  /\ content \in Contents
  /\ log \in [Exportable -> -1..MaxEvents] /\ export \in [Exportable -> Int]
  /\ process \in [Command -> Processes]
  /\ memory \in [Command -> Contents]
  /\ told \in [Task -> SUBSET Worker]

Artifact(t, n) == [task |-> t, events |-> n]

\* ExportsAreBacked of any content, the copies in memory included: a command that
\* overwrites the file with an old copy does not make a record untrue.
Backed(s) ==
  \A t \in Exportable : [task |-> t, status |-> "Completed"] \in s.exports =>
    /\ \E n \in 1..MaxEvents : Artifact(t, n) \in s.artifacts
    /\ export[t] >= -1

\* What a command has done of an export.
PartsDone(c) ==
  /\ process[c].at = "payload" => export[process[c].op.task] >= -1
  /\ process[c].at \in {"truncate", "write"} /\ process[c].op.kind = "artifact" =>
       /\ export[process[c].op.task] >= -1
       /\ Artifact(process[c].op.task, process[c].op.events) \in memory[c].artifacts

FileInv ==
  /\ FileTypes
  /\ Backed(content)
  /\ \A c \in Command : Backed(memory[c]) /\ PartsDone(c)

LEMMA LeaseStates ==
  /\ File!Q!Absent \in File!Q!Lease /\ File!Q!Pending \in File!Q!Lease
  /\ \A w \in Worker : File!Q!Leased(w) \in File!Q!Lease
  /\ \A w \in Worker, o \in File!Q!Outcome : File!Q!Ended(w, o) \in File!Q!Lease
BY DEF File!Q!Absent, File!Q!Pending, File!Q!Leased, File!Q!Ended, File!Q!Lease, File!Q!Outcome

\* The changes of a content, field by field.
LEMMA LeaseChanged ==
  ASSUME NEW s \in Contents, NEW t \in Task, NEW l \in File!Q!Lease,
         NEW changed, changed = [s.leases EXCEPT ![t] = l],
         NEW new, new = [s EXCEPT !.leases = changed]
  PROVE  /\ new \in Contents /\ new.leases = changed
         /\ new.tasks = s.tasks /\ new.artifacts = s.artifacts /\ new.exports = s.exports
BY DEF Contents

LEMMA TaskAdded ==
  ASSUME NEW s \in Contents, NEW t \in Exportable,
         NEW new, new = [s EXCEPT !.tasks = s.tasks \cup {t}]
  PROVE  /\ new \in Contents /\ new.leases = s.leases
         /\ new.artifacts = s.artifacts /\ new.exports = s.exports
BY DEF Contents

LEMMA ArtifactAdded ==
  ASSUME NEW s \in Contents, NEW t \in Exportable, NEW n \in 1..MaxEvents,
         NEW new, new = [s EXCEPT !.artifacts = s.artifacts \cup {Artifact(t, n)}]
  PROVE  /\ new \in Contents /\ new.leases = s.leases
         /\ new.artifacts = s.artifacts \cup {Artifact(t, n)} /\ new.exports = s.exports
BY DEF Contents, Artifact

LEMMA ExportRecorded ==
  ASSUME NEW s \in Contents, NEW t \in Exportable, NEW status \in {"Completed", "Failed"},
         NEW new, new = File!Record(s, t, status)
  PROVE  /\ new \in Contents /\ new.leases = s.leases /\ new.artifacts = s.artifacts
         /\ new.exports = s.exports \cup {[task |-> t, status |-> status]}
BY DEF Contents, File!Record

LEMMA EmptyContent ==
  File!Empty \in Contents /\ File!Empty.exports = {}
BY LeaseStates DEF File!Empty, Contents

LEMMA FileRest ==
  ASSUME FileInv, FileTypes', NEW c \in Command,
         \A d \in Command \ {c} : process'[d] = process[d] /\ memory'[d] = memory[d],
         \A t \in Exportable : export[t] >= -1 => export'[t] >= -1,
         content' = content \/ content' = memory[c],
         Backed(memory[c])', PartsDone(c)'
  PROVE  FileInv'
<1>1. Backed(content)'
  BY DEF FileInv, Backed
<1>2. ASSUME NEW d \in Command, d # c
      PROVE  (Backed(memory[d]) /\ PartsDone(d))'
  <2>1. process'[d] = process[d] /\ memory'[d] = memory[d] /\ Backed(memory[d]) /\ PartsDone(d)
    BY <1>2 DEF FileInv
  <2>2. Backed(memory[d])'
    BY <2>1 DEF Backed
  <2>3. process[d].at = "payload" => process[d].op.task \in Exportable
    BY <1>2 DEF FileInv, FileTypes, Processes, ArtifactOps
  <2>4. process[d].at \in {"truncate", "write"} /\ process[d].op.kind = "artifact" =>
          process[d].op.task \in Exportable
    BY <1>2 DEF FileInv, FileTypes, Processes, FileOps, ArtifactOps
  <2>5. PartsDone(d)'
    BY <2>1, <2>3, <2>4 DEF PartsDone
  <2> QED BY <2>2, <2>5
<1> QED BY <1>1, <1>2 DEF FileInv

\* A command has made its copy, and has to save it.
LEMMA Changed ==
  ASSUME FileInv, NEW c \in Command, NEW copy \in Contents, NEW op \in FileOps,
         op.kind # "artifact", Backed(copy), File!Change(c, copy, op)
  PROVE  FileInv'
<1>1. /\ memory' = [memory EXCEPT ![c] = copy]
      /\ process' = [process EXCEPT ![c] = [at |-> "truncate", op |-> op]]
      /\ UNCHANGED <<content, log, export, told>>
  BY DEF File!Change
<1>2. [at |-> "truncate", op |-> op] \in Processes
  BY DEF Processes
<1>3. FileTypes'
  BY <1>1, <1>2 DEF FileInv, FileTypes
<1>4. Backed(memory[c])' /\ PartsDone(c)'
  BY <1>1, <1>2 DEF FileInv, FileTypes, Backed, PartsDone
<1>5. \A d \in Command \ {c} : process'[d] = process[d] /\ memory'[d] = memory[d]
  BY <1>1 DEF FileInv, FileTypes
<1> QED BY <1>1, <1>3, <1>4, <1>5, FileRest

\* The process of a command is gone.
LEMMA Gone ==
  ASSUME FileInv, NEW c \in Command, File!End(c)
  PROVE  /\ process' \in [Command -> Processes] /\ memory' \in [Command -> Contents]
         /\ \A d \in Command \ {c} : process'[d] = process[d] /\ memory'[d] = memory[d]
         /\ process'[c].at = "idle" /\ memory'[c].exports = {}
         /\ Backed(memory[c])' /\ PartsDone(c)'
<1>1. File!Idle \in Processes /\ File!Idle.at = "idle"
  BY DEF File!Idle, Processes
<1>2. /\ process' = [process EXCEPT ![c] = File!Idle]
      /\ memory' = [memory EXCEPT ![c] = File!Empty]
      /\ process \in [Command -> Processes] /\ memory \in [Command -> Contents]
  BY DEF File!End, FileInv, FileTypes
<1> QED BY <1>1, <1>2, EmptyContent DEF Backed, PartsDone

\* A command goes on with the next part of what it does.
LEMMA PartBegun ==
  ASSUME FileInv, NEW c \in Command, NEW to \in {"payload", "truncate", "write"},
         process' = [process EXCEPT ![c].at = to],
         \/ process[c].at \in {"export", "payload"} /\ to \in {"payload", "truncate"}
         \/ process[c].at = "truncate" /\ to = "write"
  PROVE  /\ process' \in [Command -> Processes]
         /\ \A d \in Command \ {c} : process'[d] = process[d]
         /\ process'[c].at = to /\ process'[c].op = process[c].op
<1>1. process' = [process EXCEPT ![c] = [process[c] EXCEPT !.at = to]]
      /\ process \in [Command -> Processes]
  BY DEF FileInv, FileTypes
<1>2. CASE process[c].at \in {"export", "payload"}
  <2>1. process[c] \in [at : {"export", "payload"}, op : ArtifactOps]
    BY <1>1, <1>2 DEF Processes
  <2>2. ArtifactOps \subseteq FileOps
    BY DEF FileOps
  <2>3. to \in {"payload", "truncate"}
    BY <1>2
  <2>4. [process[c] EXCEPT !.at = to] \in Processes
    BY <2>1, <2>2, <2>3 DEF Processes
  <2> QED BY <1>1, <2>1, <2>4
<1>3. CASE process[c].at = "truncate"
  <2>1. process[c] \in [at : {"truncate", "write"}, op : FileOps]
    BY <1>1, <1>3 DEF Processes
  <2>2. [process[c] EXCEPT !.at = to] \in Processes
    BY <1>3, <2>1 DEF Processes
  <2> QED BY <1>1, <2>1, <2>2
<1> QED BY <1>2, <1>3

\* What a command does once its copy is saved: the alternatives of Continue.
LEMMA Continuations ==
  ASSUME NEW c \in Command, File!Continue(c)
  PROVE  \/ /\ process[c].op.kind = "migrate" /\ process[c].op.rest # {}
            /\ \E t \in process[c].op.rest :
                 /\ memory' = [memory EXCEPT ![c].tasks = @ \cup {t}]
                 /\ process' = [process EXCEPT ![c] =
                      [at |-> "truncate",
                       op |-> [kind |-> "migrate", rest |-> process[c].op.rest \ {t}]]]
         \/ /\ process[c].op.kind = "artifact"
            /\ memory' = [memory EXCEPT ![c] = File!Record(@, process[c].op.task, "Completed")]
            /\ process' = [process EXCEPT ![c] = [at |-> "truncate", op |-> [kind |-> "export"]]]
         \/ File!End(c)
<1> DEFINE A == process[c].op.kind = "migrate" /\ process[c].op.rest # {}
           B == process[c].op.kind = "artifact"
<1>1. CASE A
  <2>1. A /\ ~B
    BY <1>1
  <2> QED BY <2>1, Zenon DEF File!Continue
<1>2. CASE B
  <2>1. ~A /\ B
    BY <1>2
  <2> QED BY <2>1, Zenon DEF File!Continue
<1>3. CASE ~A /\ ~B
  BY <1>3, Zenon DEF File!Continue
<1> QED BY <1>1, <1>2, <1>3

LEMMA CopySteps ==
  ASSUME FileInv, Exportable \subseteq Task, NEW c \in Command,
         \/ \E t \in Task : File!Enqueue(c, t)
         \/ \E w \in Worker : File!Lease(c, w)
         \/ \E t \in Task, w \in Worker, o \in File!Q!Outcome : File!Finish(c, t, w, o)
         \/ File!Migrate(c) \/ (\E t \in Exportable : File!Export(c, t))
  PROVE  FileInv'
<1>0. content \in Contents /\ Backed(content)
  BY DEF FileInv, FileTypes
<1>1. ASSUME NEW t \in Task, NEW l \in File!Q!Lease, NEW op \in FileOps, op.kind # "artifact",
             File!Change(c, [content EXCEPT !.leases[t] = l], op)
      PROVE  FileInv'
  <2>0. t \in Task /\ l \in File!Q!Lease
    BY <1>1
  <2>1. PICK new : new = [content.leases EXCEPT ![t] = l]
    OBVIOUS
  <2>2. PICK copy : copy = [content EXCEPT !.leases = new]
    OBVIOUS
  <2>3. copy \in Contents /\ copy.artifacts = content.artifacts /\ copy.exports = content.exports
    BY <1>0, <2>0, <2>1, <2>2, LeaseChanged
  <2>4. Backed(copy)
    BY <1>0, <2>3 DEF Backed
  <2>5. File!Change(c, copy, op)
    BY <1>1, <2>1, <2>2
  <2> QED BY <1>1, <2>3, <2>4, <2>5, Changed
<1>2. ASSUME NEW t \in Task, File!Enqueue(c, t) PROVE FileInv'
  <2>1. [kind |-> "enqueue"] \in FileOps /\ [kind |-> "enqueue"].kind # "artifact"
    BY DEF FileOps
  <2>2. File!Change(c, [content EXCEPT !.leases[t] = File!Q!Pending], [kind |-> "enqueue"])
    BY <1>2 DEF File!Enqueue
  <2> QED BY <1>1, <2>1, <2>2, LeaseStates
<1>3. ASSUME NEW w \in Worker, File!Lease(c, w) PROVE FileInv'
  <2>1. PICK t \in Task :
          File!Change(c, [content EXCEPT !.leases[t] = File!Q!Leased(w)],
                      [kind |-> "lease", task |-> t, worker |-> w])
    BY <1>3 DEF File!Lease
  <2>2. [kind |-> "lease", task |-> t, worker |-> w] \in FileOps
    BY DEF FileOps
  <2> QED BY <1>1, <2>1, <2>2, LeaseStates
<1>4. ASSUME NEW t \in Task, NEW w \in Worker, NEW o \in File!Q!Outcome, File!Finish(c, t, w, o)
      PROVE  FileInv'
  <2>1. [kind |-> "finish"] \in FileOps /\ [kind |-> "finish"].kind # "artifact"
    BY DEF FileOps
  <2>2. File!Change(c, [content EXCEPT !.leases[t] = File!Q!Ended(w, o)], [kind |-> "finish"])
    BY <1>4 DEF File!Finish
  <2> QED BY <1>1, <2>1, <2>2, LeaseStates
<1>5. CASE File!Migrate(c)
  <2>1. PICK t \in File!MigrationPlan :
          File!Change(c, [content EXCEPT !.tasks = content.tasks \cup {t}],
                      [kind |-> "migrate", rest |-> File!MigrationPlan \ {t}])
    BY <1>5 DEF File!Migrate
  <2>2. PICK copy, op : /\ copy = [content EXCEPT !.tasks = content.tasks \cup {t}]
                        /\ op = [kind |-> "migrate", rest |-> File!MigrationPlan \ {t}]
    OBVIOUS
  <2>3. t \in Exportable /\ op \in FileOps /\ op.kind # "artifact"
    BY <2>2 DEF File!MigrationPlan, FileOps
  <2>4. copy \in Contents /\ Backed(copy)
    BY <1>0, <2>2, <2>3, TaskAdded DEF Backed
  <2>5. File!Change(c, copy, op)
    BY <2>1, <2>2
  <2> QED BY <2>3, <2>4, <2>5, Changed
<1>6. ASSUME NEW t \in Exportable, File!Export(c, t) PROVE FileInv'
  <2>1. CASE t \in content.tasks /\ log[t] > 0
    <3>1. PICK op : op = [kind |-> "artifact", task |-> t, events |-> log[t]]
      OBVIOUS
    <3>2. /\ memory' = [memory EXCEPT ![c] = content]
          /\ process' = [process EXCEPT ![c] = [at |-> "export", op |-> op]]
          /\ UNCHANGED <<file, content, log, export, told>>
      BY <1>6, <2>1, <3>1 DEF File!Export
    <3>3. [at |-> "export", op |-> op] \in Processes
      BY <2>1, <3>1 DEF Processes, ArtifactOps, FileInv, FileTypes
    <3>4. FileTypes'
      BY <1>0, <3>2, <3>3 DEF FileInv, FileTypes
    <3>5. Backed(memory[c])' /\ PartsDone(c)'
      BY <1>0, <3>2, <3>3 DEF FileInv, FileTypes, Backed, PartsDone
    <3>6. \A d \in Command \ {c} : process'[d] = process[d] /\ memory'[d] = memory[d]
      BY <3>2 DEF FileInv, FileTypes
    <3> QED BY <3>2, <3>4, <3>5, <3>6, FileRest
  <2>2. CASE ~(t \in content.tasks /\ log[t] > 0)
    <3>1. File!Change(c, File!Record(content, t, "Failed"), [kind |-> "export"])
      BY <1>6, <2>2 DEF File!Export
    <3>2. PICK copy : copy = File!Record(content, t, "Failed")
      OBVIOUS
    <3>3. /\ copy \in Contents /\ copy.artifacts = content.artifacts
          /\ copy.exports = content.exports \cup {[task |-> t, status |-> "Failed"]}
      BY <1>0, <3>2, ExportRecorded
    <3>4. \A u : [task |-> u, status |-> "Completed"] # [task |-> t, status |-> "Failed"]
      OBVIOUS
    <3>5. Backed(copy)
      BY <1>0, <3>3, <3>4 DEF Backed
    <3>6. [kind |-> "export"] \in FileOps /\ [kind |-> "export"].kind # "artifact"
      BY DEF FileOps
    <3>7. File!Change(c, copy, [kind |-> "export"])
      BY <3>1, <3>2
    <3> QED BY <3>3, <3>5, <3>6, <3>7, Changed
  <2> QED BY <2>1, <2>2
<1> QED BY <1>2, <1>3, <1>4, <1>5, <1>6

\* What the operation of a command is, by the place of the command.
LEMMA Operations ==
  ASSUME FileInv, NEW c \in Command
  PROVE  /\ process[c].at \in {"export", "payload"} =>
              /\ process[c].op \in ArtifactOps /\ process[c].op.kind = "artifact"
              /\ process[c].op.task \in Exportable /\ process[c].op.events \in 1..MaxEvents
         /\ process[c].at \in {"truncate", "write"} =>
              /\ process[c].op \in FileOps
              /\ process[c].op.kind = "artifact" =>
                   process[c].op.task \in Exportable /\ process[c].op.events \in 1..MaxEvents
              /\ process[c].op.kind = "migrate" => process[c].op.rest \subseteq Exportable
              /\ process[c].op.kind = "lease" =>
                   process[c].op.task \in Task /\ process[c].op.worker \in Worker
         /\ memory[c] \in Contents /\ Backed(memory[c]) /\ PartsDone(c)
<1>1. process[c] \in Processes /\ memory[c] \in Contents /\ Backed(memory[c]) /\ PartsDone(c)
  BY DEF FileInv, FileTypes
<1>2. process[c].at \in {"export", "payload"} => process[c].op \in ArtifactOps
  BY <1>1 DEF Processes
<1>3. process[c].at \in {"truncate", "write"} => process[c].op \in FileOps
  BY <1>1 DEF Processes
<1> QED BY <1>1, <1>2, <1>3 DEF ArtifactOps, FileOps

LEMMA SavingSteps ==
  ASSUME FileInv, NEW c \in Command,
         File!ExportTruncate(c) \/ File!ExportPayload(c) \/ File!Truncate(c)
  PROVE  FileInv'
<1>1. CASE File!ExportTruncate(c)
  <2>1. /\ process[c].at = "export" /\ process' = [process EXCEPT ![c].at = "payload"]
        /\ export' = [export EXCEPT ![process[c].op.task] = -1]
        /\ UNCHANGED <<content, log, memory, told>>
    BY <1>1 DEF File!ExportTruncate
  <2>2. process[c].op.task \in Exportable
    BY <2>1, Operations
  <2>3. /\ process' \in [Command -> Processes] /\ \A d \in Command \ {c} : process'[d] = process[d]
        /\ process'[c].at = "payload" /\ process'[c].op = process[c].op
    BY <2>1, PartBegun
  <2>4. /\ export' \in [Exportable -> Int] /\ export'[process[c].op.task] = -1
        /\ \A t \in Exportable : export[t] >= -1 => export'[t] >= -1
    BY <2>1, <2>2 DEF FileInv, FileTypes
  <2>5. FileTypes'
    BY <2>1, <2>3, <2>4 DEF FileInv, FileTypes
  <2>6. Backed(memory[c])' /\ PartsDone(c)'
    BY <2>1, <2>2, <2>3, <2>4, Operations DEF Backed, PartsDone
  <2> QED BY <2>1, <2>3, <2>4, <2>5, <2>6, FileRest
<1>2. CASE File!ExportPayload(c)
  <2>1. PICK t, n, copy :
          /\ t = process[c].op.task /\ n = process[c].op.events
          /\ copy = [memory[c] EXCEPT !.artifacts = memory[c].artifacts \cup {Artifact(t, n)}]
    OBVIOUS
  <2>2. /\ process[c].at = "payload" /\ process' = [process EXCEPT ![c].at = "truncate"]
        /\ export' = [export EXCEPT ![t] = n]
        /\ memory' = [memory EXCEPT ![c] = copy]
        /\ UNCHANGED <<content, log, told>>
    BY <1>2, <2>1 DEF File!ExportPayload, Artifact
  <2>3. t \in Exportable /\ n \in 1..MaxEvents /\ memory[c] \in Contents /\ Backed(memory[c])
        /\ process[c].op.kind = "artifact"
    BY <2>1, <2>2, Operations
  <2>4. /\ process' \in [Command -> Processes] /\ \A d \in Command \ {c} : process'[d] = process[d]
        /\ process'[c].at = "truncate" /\ process'[c].op = process[c].op
    BY <2>2, PartBegun
  <2>5. /\ copy \in Contents /\ copy.exports = memory[c].exports
        /\ copy.artifacts = memory[c].artifacts \cup {Artifact(t, n)}
    BY <2>1, <2>3, ArtifactAdded
  <2>6. /\ export' \in [Exportable -> Int] /\ export'[t] >= -1
        /\ \A u \in Exportable : export[u] >= -1 => export'[u] >= -1
    BY <2>2, <2>3 DEF FileInv, FileTypes
  <2>7. FileTypes' /\ memory'[c] = copy /\ \A d \in Command \ {c} : memory'[d] = memory[d]
    BY <2>2, <2>4, <2>5, <2>6 DEF FileInv, FileTypes
  <2>8. Backed(memory[c])'
    BY <2>3, <2>5, <2>6, <2>7 DEF Backed
  <2>9. PartsDone(c)'
    BY <2>1, <2>4, <2>5, <2>6, <2>7 DEF PartsDone
  <2> QED BY <2>2, <2>4, <2>6, <2>7, <2>8, <2>9, FileRest
<1>3. CASE File!Truncate(c)
  <2>1. /\ process[c].at = "truncate" /\ process' = [process EXCEPT ![c].at = "write"]
        /\ UNCHANGED <<content, log, export, memory, told>>
    BY <1>3 DEF File!Truncate
  <2>2. /\ process' \in [Command -> Processes] /\ \A d \in Command \ {c} : process'[d] = process[d]
        /\ process'[c].at = "write" /\ process'[c].op = process[c].op
    BY <2>1, PartBegun
  <2>3. FileTypes'
    BY <2>1, <2>2 DEF FileInv, FileTypes
  <2>4. Backed(memory[c])' /\ PartsDone(c)'
    BY <2>1, <2>2, Operations DEF Backed, PartsDone
  <2> QED BY <2>1, <2>2, <2>3, <2>4, FileRest
<1> QED BY <1>1, <1>2, <1>3

\* The step of Continue, whatever it does with the copy.
LEMMA ContinueSteps ==
  ASSUME FileInv, NEW c \in Command, process[c].at = "write", File!Continue(c), export' = export
  PROVE  /\ process' \in [Command -> Processes] /\ memory' \in [Command -> Contents]
         /\ \A d \in Command \ {c} : process'[d] = process[d] /\ memory'[d] = memory[d]
         /\ Backed(memory[c])' /\ PartsDone(c)'
<1>0. memory[c] \in Contents /\ Backed(memory[c]) /\ PartsDone(c)
      /\ memory \in [Command -> Contents] /\ process \in [Command -> Processes]
  BY Operations DEF FileInv, FileTypes
<1>1. CASE /\ process[c].op.kind = "migrate" /\ process[c].op.rest # {}
           /\ \E t \in process[c].op.rest :
                /\ memory' = [memory EXCEPT ![c].tasks = @ \cup {t}]
                /\ process' = [process EXCEPT ![c] =
                     [at |-> "truncate",
                      op |-> [kind |-> "migrate", rest |-> process[c].op.rest \ {t}]]]
  <2>1. PICK t \in process[c].op.rest :
          /\ memory' = [memory EXCEPT ![c] = [memory[c] EXCEPT !.tasks = memory[c].tasks \cup {t}]]
          /\ process' = [process EXCEPT ![c] =
               [at |-> "truncate",
                op |-> [kind |-> "migrate", rest |-> process[c].op.rest \ {t}]]]
    BY <1>1
  <2>2. PICK copy, op : /\ copy = [memory[c] EXCEPT !.tasks = memory[c].tasks \cup {t}]
                        /\ op = [kind |-> "migrate", rest |-> process[c].op.rest \ {t}]
    OBVIOUS
  <2>3. t \in Exportable /\ op \in FileOps /\ op.kind # "artifact"
    BY <1>1, <2>2, Operations DEF FileOps
  <2>4. /\ copy \in Contents /\ copy.artifacts = memory[c].artifacts
        /\ copy.exports = memory[c].exports
    BY <1>0, <2>2, <2>3, TaskAdded
  <2>5. [at |-> "truncate", op |-> op] \in Processes
    BY <2>3 DEF Processes
  <2>6. /\ process'[c] = [at |-> "truncate", op |-> op] /\ memory'[c] = copy
        /\ process' \in [Command -> Processes] /\ memory' \in [Command -> Contents]
        /\ \A d \in Command \ {c} : process'[d] = process[d] /\ memory'[d] = memory[d]
    BY <1>0, <2>1, <2>2, <2>4, <2>5
  <2>7. Backed(memory[c])' /\ PartsDone(c)'
    BY <1>0, <2>3, <2>4, <2>6 DEF Backed, PartsDone
  <2> QED BY <2>6, <2>7
<1>2. CASE /\ process[c].op.kind = "artifact"
           /\ memory' = [memory EXCEPT ![c] = File!Record(@, process[c].op.task, "Completed")]
           /\ process' = [process EXCEPT ![c] = [at |-> "truncate", op |-> [kind |-> "export"]]]
  <2>1. PICK t, copy : /\ t = process[c].op.task
                       /\ copy = File!Record(memory[c], t, "Completed")
    OBVIOUS
  <2>2. /\ t \in Exportable /\ export[t] >= -1
        /\ \E n \in 1..MaxEvents : Artifact(t, n) \in memory[c].artifacts
    BY <1>0, <1>2, <2>1, Operations DEF PartsDone
  <2>3. /\ copy \in Contents /\ copy.artifacts = memory[c].artifacts
        /\ copy.exports = memory[c].exports \cup {[task |-> t, status |-> "Completed"]}
    BY <1>0, <2>1, <2>2, ExportRecorded
  <2>4. [at |-> "truncate", op |-> [kind |-> "export"]] \in Processes
    BY DEF Processes, FileOps
  <2>5. /\ process'[c] = [at |-> "truncate", op |-> [kind |-> "export"]] /\ memory'[c] = copy
        /\ process' \in [Command -> Processes] /\ memory' \in [Command -> Contents]
        /\ \A d \in Command \ {c} : process'[d] = process[d] /\ memory'[d] = memory[d]
    BY <1>0, <1>2, <2>1, <2>3, <2>4
  <2>6. \A u : [task |-> u, status |-> "Completed"] = [task |-> t, status |-> "Completed"] => u = t
    OBVIOUS
  <2>7. Backed(memory[c])'
    BY <1>0, <2>2, <2>3, <2>5, <2>6 DEF Backed
  <2>8. PartsDone(c)'
    BY <2>5 DEF PartsDone
  <2> QED BY <2>5, <2>7, <2>8
<1>3. CASE File!End(c)
  BY <1>3, Gone
<1> QED BY <1>1, <1>2, <1>3, Continuations

LEMMA FileSteps ==
  ASSUME FileInv, Exportable \subseteq Task, MaxEvents \in Nat, [File!Next]_(File!vars)
  PROVE  FileInv'
<1>1. ASSUME NEW c \in Command, File!Write(c) PROVE FileInv'
  <2>1. /\ process[c].at = "write" /\ content' = memory[c] /\ File!Continue(c)
        /\ UNCHANGED <<log, export>>
    BY <1>1 DEF File!Write
  <2>2. told' \in [Task -> SUBSET Worker]
    BY <1>1, <2>1, Operations DEF File!Write, FileInv, FileTypes
  <2>3. FileTypes'
    BY <2>1, <2>2, ContinueSteps, Operations DEF FileInv, FileTypes
  <2> QED BY <2>1, <2>3, ContinueSteps, FileRest
<1>2. ASSUME NEW c \in Command, File!WriteTorn(c) \/ File!Kill(c) PROVE FileInv'
  <2>1. File!End(c) /\ UNCHANGED <<content, log, export, told>>
    BY <1>2 DEF File!WriteTorn, File!Kill
  <2>2. FileTypes'
    BY <2>1, Gone DEF FileInv, FileTypes
  <2> QED BY <2>1, <2>2, Gone, FileRest
<1>3. ASSUME NEW t \in Exportable, File!TaskRuns(t) PROVE FileInv'
  <2>1. FileTypes' /\ UNCHANGED <<content, export, process, memory>>
    BY <1>3 DEF File!TaskRuns, FileInv, FileTypes
  <2> QED BY <2>1 DEF FileInv, Backed, PartsDone
<1>4. CASE UNCHANGED File!vars
  BY <1>4 DEF File!vars, FileInv, FileTypes, Backed, PartsDone
<1>5. ASSUME NEW c \in Command, File!Run(c) PROVE FileInv'
  BY <1>1, <1>2, <1>5, CopySteps, SavingSteps DEF File!Run
<1> QED BY <1>3, <1>4, <1>5 DEF File!Next

LEMMA FileInit == MaxEvents \in Nat /\ File!Init => FileInv
<1> SUFFICES ASSUME MaxEvents \in Nat, File!Init PROVE FileInv
  OBVIOUS
<1>1. File!Idle \in Processes /\ File!Idle.at = "idle"
  BY DEF File!Idle, Processes
<1>2. /\ content = File!Empty /\ told = [t \in Task |-> {}]
      /\ log = [t \in Exportable |-> 0] /\ export = [t \in Exportable |-> -2]
      /\ process = [c \in Command |-> File!Idle] /\ memory = [c \in Command |-> File!Empty]
  BY DEF File!Init, File!Q!Init
<1>3. FileTypes
  BY <1>1, <1>2, EmptyContent DEF FileTypes
<1>4. \A s : s.exports = {} => Backed(s)
  BY DEF Backed
<1>5. \A c \in Command : PartsDone(c)
  BY <1>1, <1>2 DEF PartsDone
<1> QED BY <1>2, <1>3, <1>4, <1>5, EmptyContent DEF FileInv

\* What the file or the rows call a completed export has its artifact behind it,
\* for any number of commands and servers that overlap, are killed, and overwrite
\* the file with copies that are out of date.
THEOREM CompletedExportsAreBacked == MCSpec => []ExportsAreBacked
<1>1. File!Init => FileInv
  BY FileInit, StoresAssumption
<1>2. FileInv /\ [File!Next]_(File!vars) => FileInv'
  BY FileSteps, StoresAssumption
<1>3. ExportInv /\ [Exports!Next]_(Exports!vars) => ExportInv'
  BY ExportStep, StoresAssumption
<1>4. FileInv /\ ExportInv => ExportsAreBacked
  BY DEF FileInv, Backed, Artifact, File!ExportsAreBacked, ExportInv, ExportsAreBacked
<1> QED BY <1>1, <1>2, <1>3, <1>4, ExportInit, PartsBehave, PTL DEF File!Spec, Exports!Spec

-----------------------------------------------------------------------------
(* The leases in the JSON file, while commands do not overlap.               *)

OneAtATime == \A c, d \in Command : c = d

\* The copy a command is about to save differs from the file by one step of the
\* abstract lease store, which nobody else has taken meanwhile.
OneChange(c) ==
  LET op == process[c].op
      now == content.leases
      new == memory[c].leases
  IN  process[c].at # "idle" =>
        /\ op.kind = "enqueue" =>
             \E t \in Task : now[t] = File!Q!Absent /\ new = [now EXCEPT ![t] = File!Q!Pending]
        /\ op.kind = "lease" =>
             /\ now[op.task] = File!Q!Pending
             /\ new = [now EXCEPT ![op.task] = File!Q!Leased(op.worker)]
        /\ op.kind = "finish" =>
             \E t \in Task, w \in Worker, o \in File!Q!Outcome :
               now[t] = File!Q!Leased(w) /\ new = [now EXCEPT ![t] = File!Q!Ended(w, o)]
        /\ op.kind \in {"migrate", "export", "artifact"} => new = now

CopyInv == FileInv /\ \A c \in Command : OneChange(c)

\* Saving a copy is a step of the abstract lease store, or none.
LEMMA SavingRefines ==
  ASSUME CopyInv, NEW c \in Command, File!Write(c)
  PROVE  [File!Q!Next]_(File!Q!leases)
<1>1. /\ process[c].at = "write" /\ content' = memory[c]
      /\ told' = IF process[c].op.kind = "lease"
                   THEN [told EXCEPT ![process[c].op.task] = @ \cup {process[c].op.worker}]
                   ELSE told
  BY DEF File!Write
<1>2. FileInv /\ OneChange(c) /\ process[c].op \in FileOps
  BY <1>1, Operations DEF CopyInv
<1>3. CASE process[c].op.kind = "lease"
  <2>1. PICK t, w : t = process[c].op.task /\ w = process[c].op.worker
    OBVIOUS
  <2>2. t \in Task /\ w \in Worker
    BY <1>1, <1>2, <1>3, <2>1, Operations
  <2>3. /\ content.leases[t] = File!Q!Pending
        /\ content'.leases = [content.leases EXCEPT ![t] = File!Q!Leased(w)]
        /\ told' = [told EXCEPT ![t] = @ \cup {w}]
    BY <1>1, <1>2, <1>3, <2>1 DEF OneChange
  <2> QED BY <2>2, <2>3 DEF File!Q!Next, File!Q!GrantAndAnnounce
<1>4. CASE process[c].op.kind = "enqueue"
  <2>1. PICK t \in Task : /\ content.leases[t] = File!Q!Absent
                          /\ content'.leases = [content.leases EXCEPT ![t] = File!Q!Pending]
    BY <1>1, <1>2, <1>4 DEF OneChange
  <2> QED BY <1>1, <1>4, <2>1 DEF File!Q!Next, File!Q!Enqueue
<1>5. CASE process[c].op.kind = "finish"
  <2>1. PICK t \in Task, w \in Worker, o \in File!Q!Outcome :
          /\ content.leases[t] = File!Q!Leased(w)
          /\ content'.leases = [content.leases EXCEPT ![t] = File!Q!Ended(w, o)]
    BY <1>1, <1>2, <1>5 DEF OneChange
  <2> QED BY <1>1, <1>5, <2>1 DEF File!Q!Next, File!Q!Finish
<1>6. CASE process[c].op.kind \in {"migrate", "export", "artifact"}
  BY <1>1, <1>2, <1>6 DEF OneChange, File!Q!leases
<1> QED BY <1>2, <1>3, <1>4, <1>5, <1>6 DEF FileOps, ArtifactOps

LEMMA RefiningSteps ==
  ASSUME CopyInv, [File!Next]_(File!vars)
  PROVE  [File!Q!Next]_(File!Q!leases)
<1>1. ASSUME NEW c \in Command, File!Run(c), ~File!Write(c)
      PROVE  UNCHANGED <<content, told>>
  BY <1>1 DEF File!Run, File!Enqueue, File!Lease, File!Finish, File!Migrate, File!Export,
              File!Change, File!ExportTruncate, File!ExportPayload, File!Truncate,
              File!WriteTorn, File!Kill
<1>2. CASE \E c \in Command : File!Run(c)
  BY <1>1, <1>2, SavingRefines DEF File!Q!leases
<1>3. CASE (\E t \in Exportable : File!TaskRuns(t)) \/ UNCHANGED File!vars
  BY <1>3 DEF File!TaskRuns, File!vars, File!Q!leases
<1> QED BY <1>2, <1>3 DEF File!Next

LEMMA OneChangeStep ==
  ASSUME OneAtATime, Exportable \subseteq Task, CopyInv, NEW c \in Command, File!Run(c)
  PROVE  OneChange(c)'
<1> USE DEF CopyInv
<1>0. content \in Contents /\ process \in [Command -> Processes] /\ memory \in [Command -> Contents]
  BY DEF FileInv, FileTypes
<1>1. ASSUME NEW copy \in Contents, NEW op, File!Change(c, copy, op)
      PROVE  process'[c].op = op /\ memory'[c] = copy /\ content' = content
  BY <1>0, <1>1 DEF File!Change
<1>2. ASSUME NEW t \in Task, NEW l \in File!Q!Lease, NEW op,
             File!Change(c, [content EXCEPT !.leases[t] = l], op)
      PROVE  /\ process'[c].op = op /\ content' = content
             /\ memory'[c].leases = [content.leases EXCEPT ![t] = l]
  <2>0. t \in Task /\ l \in File!Q!Lease
    BY <1>2
  <2>1. PICK new : new = [content.leases EXCEPT ![t] = l]
    OBVIOUS
  <2>2. PICK copy : copy = [content EXCEPT !.leases = new]
    OBVIOUS
  <2>3. copy \in Contents /\ copy.leases = new
    BY <1>0, <2>0, <2>1, <2>2, LeaseChanged
  <2>4. File!Change(c, copy, op)
    BY <1>2, <2>1, <2>2
  <2> QED BY <1>1, <2>1, <2>3, <2>4
<1>3. ASSUME NEW t \in Task, File!Enqueue(c, t) PROVE OneChange(c)'
  <2>1. /\ content.leases[t] = File!Q!Absent
        /\ File!Change(c, [content EXCEPT !.leases[t] = File!Q!Pending], [kind |-> "enqueue"])
    BY <1>3 DEF File!Enqueue
  <2>2. /\ process'[c].op = [kind |-> "enqueue"] /\ content' = content
        /\ memory'[c].leases = [content.leases EXCEPT ![t] = File!Q!Pending]
    BY <1>2, <2>1, LeaseStates
  <2>3. process'[c].op.kind = "enqueue"
    BY <2>2
  <2> QED BY <2>1, <2>2, <2>3 DEF OneChange
<1>4. ASSUME NEW w \in Worker, File!Lease(c, w) PROVE OneChange(c)'
  <2>1. PICK t \in Task :
          /\ content.leases[t] = File!Q!Pending
          /\ File!Change(c, [content EXCEPT !.leases[t] = File!Q!Leased(w)],
                         [kind |-> "lease", task |-> t, worker |-> w])
    BY <1>4 DEF File!Lease
  <2>2. /\ process'[c].op = [kind |-> "lease", task |-> t, worker |-> w] /\ content' = content
        /\ memory'[c].leases = [content.leases EXCEPT ![t] = File!Q!Leased(w)]
    BY <1>2, <2>1, LeaseStates
  <2> QED BY <2>1, <2>2 DEF OneChange
<1>5. ASSUME NEW t \in Task, NEW w \in Worker, NEW o \in File!Q!Outcome, File!Finish(c, t, w, o)
      PROVE  OneChange(c)'
  <2>1. /\ content.leases[t] = File!Q!Leased(w)
        /\ File!Change(c, [content EXCEPT !.leases[t] = File!Q!Ended(w, o)], [kind |-> "finish"])
    BY <1>5 DEF File!Finish
  <2>2. /\ process'[c].op = [kind |-> "finish"] /\ content' = content
        /\ memory'[c].leases = [content.leases EXCEPT ![t] = File!Q!Ended(w, o)]
    BY <1>2, <2>1, LeaseStates
  <2> QED BY <2>1, <2>2 DEF OneChange
<1>6. CASE File!Migrate(c)
  <2>1. PICK t \in File!MigrationPlan :
          File!Change(c, [content EXCEPT !.tasks = content.tasks \cup {t}],
                      [kind |-> "migrate", rest |-> File!MigrationPlan \ {t}])
    BY <1>6 DEF File!Migrate
  <2>2. PICK copy, op : /\ copy = [content EXCEPT !.tasks = content.tasks \cup {t}]
                        /\ op = [kind |-> "migrate", rest |-> File!MigrationPlan \ {t}]
    OBVIOUS
  <2>3. copy \in Contents /\ copy.leases = content.leases /\ op.kind = "migrate"
    BY <1>0, <2>2, TaskAdded DEF File!MigrationPlan
  <2>4. File!Change(c, copy, op)
    BY <2>1, <2>2
  <2> QED BY <1>1, <2>3, <2>4 DEF OneChange
<1>7. ASSUME NEW t \in Exportable, File!Export(c, t) PROVE OneChange(c)'
  <2>1. CASE t \in content.tasks /\ log[t] > 0
    <3>1. /\ memory'[c] = content /\ process'[c].op.kind = "artifact" /\ content' = content
      BY <1>0, <1>7, <2>1 DEF File!Export
    <3> QED BY <3>1 DEF OneChange
  <2>2. CASE ~(t \in content.tasks /\ log[t] > 0)
    <3>1. PICK copy : copy = File!Record(content, t, "Failed")
      OBVIOUS
    <3>2. copy \in Contents /\ copy.leases = content.leases
      BY <1>0, <3>1, ExportRecorded
    <3>3. File!Change(c, copy, [kind |-> "export"])
      BY <1>7, <2>2, <3>1 DEF File!Export
    <3> QED BY <1>1, <3>2, <3>3 DEF OneChange
  <2> QED BY <2>1, <2>2
<1>8. ASSUME NEW to \in {"payload", "truncate", "write"},
             process' = [process EXCEPT ![c].at = to],
             \/ process[c].at \in {"export", "payload"} /\ to \in {"payload", "truncate"}
             \/ process[c].at = "truncate" /\ to = "write",
             content' = content, memory'[c].leases = memory[c].leases
      PROVE  OneChange(c)'
  <2>1. process'[c].op = process[c].op /\ OneChange(c) /\ process[c].at # "idle"
    BY <1>8, PartBegun
  <2> QED BY <1>8, <2>1 DEF OneChange
<1>9. CASE File!ExportTruncate(c) \/ File!Truncate(c)
  BY <1>8, <1>9 DEF File!ExportTruncate, File!Truncate
<1>10. CASE File!ExportPayload(c)
  <2>1. PICK t, n, copy :
          /\ t = process[c].op.task /\ n = process[c].op.events
          /\ copy = [memory[c] EXCEPT !.artifacts = memory[c].artifacts \cup {Artifact(t, n)}]
    OBVIOUS
  <2>2. /\ process[c].at = "payload" /\ process' = [process EXCEPT ![c].at = "truncate"]
        /\ memory' = [memory EXCEPT ![c] = copy] /\ content' = content
    BY <1>10, <2>1 DEF File!ExportPayload, Artifact
  <2>3. t \in Exportable /\ n \in 1..MaxEvents /\ memory[c] \in Contents
    BY <2>1, <2>2, Operations
  <2>4. memory'[c] = copy /\ copy.leases = memory[c].leases
    BY <1>0, <2>1, <2>2, <2>3, ArtifactAdded
  <2> QED BY <1>8, <2>2, <2>4
<1>11. CASE File!Write(c)
  <2>1. process[c].at = "write" /\ content' = memory[c] /\ File!Continue(c)
    BY <1>11 DEF File!Write
  <2>2. CASE /\ process[c].op.kind = "migrate" /\ process[c].op.rest # {}
             /\ \E t \in process[c].op.rest :
                  /\ memory' = [memory EXCEPT ![c].tasks = @ \cup {t}]
                  /\ process' = [process EXCEPT ![c] =
                       [at |-> "truncate",
                        op |-> [kind |-> "migrate", rest |-> process[c].op.rest \ {t}]]]
    <3>1. PICK t \in process[c].op.rest :
            /\ memory' = [memory EXCEPT ![c] = [memory[c] EXCEPT !.tasks = memory[c].tasks \cup {t}]]
            /\ process' = [process EXCEPT ![c] =
                 [at |-> "truncate",
                  op |-> [kind |-> "migrate", rest |-> process[c].op.rest \ {t}]]]
      BY <2>2
    <3>2. t \in Exportable /\ process'[c].op.kind = "migrate"
      BY <1>0, <2>1, <2>2, <3>1, Operations
    <3>3. memory'[c].leases = memory[c].leases
      BY <1>0, <3>1, <3>2, TaskAdded
    <3> QED BY <2>1, <3>2, <3>3 DEF OneChange
  <2>3. CASE /\ process[c].op.kind = "artifact"
             /\ memory' = [memory EXCEPT ![c] = File!Record(@, process[c].op.task, "Completed")]
             /\ process' = [process EXCEPT ![c] = [at |-> "truncate", op |-> [kind |-> "export"]]]
    <3>1. process'[c].op.kind = "export" /\ process[c].op.task \in Exportable
      BY <1>0, <2>1, <2>3, Operations
    <3>2. memory'[c].leases = memory[c].leases
      BY <1>0, <2>3, <3>1, ExportRecorded
    <3> QED BY <2>1, <3>1, <3>2 DEF OneChange
  <2>4. CASE File!End(c)
    BY <2>4, Gone DEF OneChange
  <2> QED BY <2>1, <2>2, <2>3, <2>4, Continuations
<1>12. CASE File!WriteTorn(c) \/ File!Kill(c)
  BY <1>12, Gone DEF File!WriteTorn, File!Kill, OneChange
<1> QED BY <1>3, <1>4, <1>5, <1>6, <1>7, <1>9, <1>10, <1>11, <1>12 DEF File!Run

LEMMA CopyStep ==
  ASSUME OneAtATime, Exportable \subseteq Task, MaxEvents \in Nat,
         CopyInv, [File!Next]_(File!vars)
  PROVE  CopyInv'
<1>1. FileInv'
  BY FileSteps DEF CopyInv
<1>2. ASSUME NEW c \in Command, File!Run(c) PROVE \A d \in Command : OneChange(d)'
  BY <1>2, OneChangeStep DEF OneAtATime
<1>3. CASE (\E t \in Exportable : File!TaskRuns(t)) \/ UNCHANGED File!vars
  <2>1. UNCHANGED <<content, process, memory>>
    BY <1>3 DEF File!TaskRuns, File!vars
  <2>2. \A c \in Command : OneChange(c)'
    BY <2>1 DEF CopyInv, OneChange
  <2> QED BY <1>1, <2>2 DEF CopyInv
<1> QED BY <1>1, <1>2, <1>3 DEF File!Next, CopyInv

\* While commands do not overlap, the JSON file implements the abstract lease store,
\* kills and torn writes included; local_team_overlap shows what overlapping does.
THEOREM FileImplementsLeases == ASSUME OneAtATime PROVE MCSpec => FileContract
<1>1. File!Init => CopyInv /\ File!Q!Init
  <2>1. File!Init => FileInv /\ \A c \in Command : process[c].at = "idle"
    BY FileInit, StoresAssumption DEF File!Init, File!Idle
  <2> QED BY <2>1 DEF File!Init, CopyInv, OneChange
<1>2. CopyInv /\ [File!Next]_(File!vars) => CopyInv' /\ [File!Q!Next]_(File!Q!leases)
  BY CopyStep, RefiningSteps, StoresAssumption
<1> QED BY <1>1, <1>2, PartsBehave, PTL
  DEF File!Spec, FileContract, File!LeaseContract, File!Q!Spec

-----------------------------------------------------------------------------
(* The evidence, the index and the replay records.  The two deployments are   *)
(* instances of EvidenceStore, and its proofs are instantiated likewise.      *)

ReplayProofs == INSTANCE EvidenceStoreProofs WITH Task <- RunTask, Refresher <- {}
IndexProofs  == INSTANCE EvidenceStoreProofs WITH Task <- IndexedTask, Replayer <- {}

LEMMA SameReplays ==
  /\ Replays!Init <=> ReplayProofs!Init
  /\ Replays!Next <=> ReplayProofs!Next
  /\ Replays!DerivedFilesHold <=> ReplayProofs!DerivedFilesHold
  /\ Replays!FailsClosed <=> ReplayProofs!FailsClosed
<1>1. Replays!Init <=> ReplayProofs!Init
  BY DEF Replays!Init, ReplayProofs!Init, Replays!NoEvidence, ReplayProofs!NoEvidence,
         Replays!Inputs, ReplayProofs!Inputs, Replays!Absent, ReplayProofs!Absent,
         Replays!Idle, ReplayProofs!Idle, Replays!Commands, ReplayProofs!Commands
<1>2. Replays!Next <=> ReplayProofs!Next
  BY DEF Replays!Next, ReplayProofs!Next, Replays!Running, ReplayProofs!Running,
         Replays!Replaying, ReplayProofs!Replaying, Replays!Indexing,
         ReplayProofs!Indexing, Replays!RunStep, ReplayProofs!RunStep,
         Replays!BeginRun, ReplayProofs!BeginRun, Replays!BeginReplay,
         ReplayProofs!BeginReplay, Replays!BeginRefresh, ReplayProofs!BeginRefresh,
         Replays!Begin, ReplayProofs!Begin, Replays!Plan, ReplayProofs!Plan,
         Replays!ReadInputs, ReplayProofs!ReadInputs, Replays!Look, ReplayProofs!Look,
         Replays!CheckContract, ReplayProofs!CheckContract, Replays!Open,
         ReplayProofs!Open, Replays!Created, ReplayProofs!Created,
         Replays!WriteInputs, ReplayProofs!WriteInputs, Replays!Start,
         ReplayProofs!Start, Replays!Finish, ReplayProofs!Finish, Replays!Report,
         ReplayProofs!Report, Replays!AfterRun, ReplayProofs!AfterRun,
         Replays!ReadLeft, ReplayProofs!ReadLeft, Replays!ReadRight,
         ReplayProofs!ReadRight, Replays!TruncateRecord, ReplayProofs!TruncateRecord,
         Replays!WriteRecord, ReplayProofs!WriteRecord, Replays!Written,
         ReplayProofs!Written, Replays!List, ReplayProofs!List, Replays!Summarise,
         ReplayProofs!Summarise, Replays!TruncateIndex, ReplayProofs!TruncateIndex,
         Replays!WriteIndex, ReplayProofs!WriteIndex, Replays!Stop, ReplayProofs!Stop,
         Replays!End, ReplayProofs!End, Replays!PutStatus, ReplayProofs!PutStatus,
         Replays!Put, ReplayProofs!Put, Replays!Step, ReplayProofs!Step, Replays!Go,
         ReplayProofs!Go, Replays!Active, ReplayProofs!Active, Replays!Own,
         ReplayProofs!Own, Replays!Sourced, ReplayProofs!Sourced, Replays!Known,
         ReplayProofs!Known, Replays!Commands, ReplayProofs!Commands, Replays!Idle,
         ReplayProofs!Idle, Replays!Torn, ReplayProofs!Torn, Replays!Whole,
         ReplayProofs!Whole, Replays!Inputs, ReplayProofs!Inputs
<1>3. Replays!DerivedFilesHold <=> ReplayProofs!DerivedFilesHold
  BY DEF Replays!DerivedFilesHold, ReplayProofs!DerivedFilesHold, Replays!Whole,
         ReplayProofs!Whole
<1>4. Replays!FailsClosed <=> ReplayProofs!FailsClosed
  BY DEF Replays!FailsClosed, ReplayProofs!FailsClosed
<1> QED BY <1>1, <1>2, <1>3, <1>4

LEMMA SameIndex ==
  /\ Index!Init <=> IndexProofs!Init
  /\ Index!Next <=> IndexProofs!Next
  /\ Index!DerivedFilesHold <=> IndexProofs!DerivedFilesHold
<1>1. Index!Init <=> IndexProofs!Init
  BY DEF Index!Init, IndexProofs!Init, Index!NoEvidence, IndexProofs!NoEvidence,
         Index!Inputs, IndexProofs!Inputs, Index!Absent, IndexProofs!Absent,
         Index!Idle, IndexProofs!Idle, Index!Commands, IndexProofs!Commands
<1>2. Index!Next <=> IndexProofs!Next
  BY DEF Index!Next, IndexProofs!Next, Index!Running, IndexProofs!Running,
         Index!Replaying, IndexProofs!Replaying, Index!Indexing, IndexProofs!Indexing,
         Index!RunStep, IndexProofs!RunStep, Index!BeginRun, IndexProofs!BeginRun,
         Index!BeginReplay, IndexProofs!BeginReplay, Index!BeginRefresh,
         IndexProofs!BeginRefresh, Index!Begin, IndexProofs!Begin, Index!Plan,
         IndexProofs!Plan, Index!ReadInputs, IndexProofs!ReadInputs, Index!Look,
         IndexProofs!Look, Index!CheckContract, IndexProofs!CheckContract, Index!Open,
         IndexProofs!Open, Index!Created, IndexProofs!Created, Index!WriteInputs,
         IndexProofs!WriteInputs, Index!Start, IndexProofs!Start, Index!Finish,
         IndexProofs!Finish, Index!Report, IndexProofs!Report, Index!AfterRun,
         IndexProofs!AfterRun, Index!ReadLeft, IndexProofs!ReadLeft, Index!ReadRight,
         IndexProofs!ReadRight, Index!TruncateRecord, IndexProofs!TruncateRecord,
         Index!WriteRecord, IndexProofs!WriteRecord, Index!Written,
         IndexProofs!Written, Index!List, IndexProofs!List, Index!Summarise,
         IndexProofs!Summarise, Index!TruncateIndex, IndexProofs!TruncateIndex,
         Index!WriteIndex, IndexProofs!WriteIndex, Index!Stop, IndexProofs!Stop,
         Index!End, IndexProofs!End, Index!PutStatus, IndexProofs!PutStatus,
         Index!Put, IndexProofs!Put, Index!Step, IndexProofs!Step, Index!Go,
         IndexProofs!Go, Index!Active, IndexProofs!Active, Index!Own, IndexProofs!Own,
         Index!Sourced, IndexProofs!Sourced, Index!Known, IndexProofs!Known,
         Index!Commands, IndexProofs!Commands, Index!Idle, IndexProofs!Idle,
         Index!Torn, IndexProofs!Torn, Index!Whole, IndexProofs!Whole, Index!Inputs,
         IndexProofs!Inputs
<1>3. Index!DerivedFilesHold <=> IndexProofs!DerivedFilesHold
  BY DEF Index!DerivedFilesHold, IndexProofs!DerivedFilesHold, Index!Whole,
         IndexProofs!Whole
<1> QED BY <1>1, <1>2, <1>3

\* Whichever of the two is in use behaves as its own specification says.
LEMMA EvidenceBehaves ==
  MCSpec => /\ [](~(used = "replay")) \/ ([](used = "replay") /\ ReplayProofs!Spec)
            /\ [](~(used = "index")) \/ ([](used = "index") /\ IndexProofs!Spec)
<1>1. MCInit => /\ used = "replay" => ReplayProofs!Init
                /\ used = "index" => IndexProofs!Init
  BY SameReplays, SameIndex DEF MCInit
<1>2. [MCNext]_storeVars =>
        /\ used = "replay" => (used = "replay")' /\ [ReplayProofs!Next]_(ReplayProofs!vars)
        /\ ~(used = "replay") => ~(used = "replay")'
        /\ used = "index" => (used = "index")' /\ [IndexProofs!Next]_(IndexProofs!vars)
        /\ ~(used = "index") => ~(used = "index")'
  <2> SUFFICES ASSUME [MCNext]_storeVars
               PROVE  /\ used' = used
                      /\ used = "replay" => [ReplayProofs!Next]_(ReplayProofs!vars)
                      /\ used = "index" => [IndexProofs!Next]_(IndexProofs!vars)
    OBVIOUS
  <2>1. used' = used
    BY PartSteps
  <2>2. used = "replay" => [ReplayProofs!Next]_(ReplayProofs!vars)
    <3>1. used = "replay" => [Replays!Next]_evidenceVars
      BY PartSteps
    <3> QED BY <3>1, SameReplays DEF evidenceVars, ReplayProofs!vars
  <2>3. used = "index" => [IndexProofs!Next]_(IndexProofs!vars)
    <3>1. used = "index" => [Index!Next]_evidenceVars
      BY PartSteps
    <3> QED BY <3>1, SameIndex DEF evidenceVars, IndexProofs!vars
  <2> QED BY <2>1, <2>2, <2>3
<1> QED BY <1>1, <1>2, PTL DEF MCSpec, storeVars, ReplayProofs!Spec, IndexProofs!Spec

LEMMA OneKind == ReplayProofs!Kinds /\ IndexProofs!Kinds
BY StoresAssumption DEF ReplayProofs!Kinds, IndexProofs!Kinds

\* The index and the replay records of these deployments say nothing untrue, however
\* their commands overlap and whenever they are killed.
THEOREM DerivedFilesStayTrue == MCSpec => []DerivedFilesHold
<1>1. ReplayProofs!Spec => []ReplayProofs!DerivedFilesHold
  BY OneKind, ReplayProofs!DerivedFilesAreTrue
<1>2. IndexProofs!Spec => []IndexProofs!DerivedFilesHold
  BY OneKind, IndexProofs!DerivedFilesAreTrue
<1>3. /\ ~(used = "replay") \/ ReplayProofs!DerivedFilesHold
      /\ ~(used = "index") \/ IndexProofs!DerivedFilesHold
      => DerivedFilesHold
  BY SameReplays, SameIndex DEF DerivedFilesHold
<1> QED BY <1>1, <1>2, <1>3, EvidenceBehaves, PTL

\* A replay changes no evidence that was there when it began, and runs vetted inputs
\* only, whatever the other commands rewrite between its reads.
THEOREM ReplaysStayClosed == MCSpec => ReplayFailsClosed
<1>1. ReplayProofs!Spec => [][ReplayProofs!FailsClosed]_(ReplayProofs!vars)
  BY OneKind, ReplayProofs!ReplaysFailClosed DEF ReplayProofs!ReplayFailsClosed
<1>2. /\ [MCNext]_storeVars
      /\ ~(used = "replay") \/ [ReplayProofs!FailsClosed]_(ReplayProofs!vars)
      => [used = "replay" => Replays!FailsClosed]_<<used, evidenceVars>>
  <2>1. [MCNext]_storeVars => used' = used
    BY PartSteps
  <2> QED BY <2>1, SameReplays DEF ReplayProofs!vars, evidenceVars
<1> QED BY <1>1, <1>2, EvidenceBehaves, PTL DEF MCSpec, storeVars, ReplayFailsClosed
===============================================================================
