---------------------------- MODULE PostgresLeases ----------------------------
(***************************************************************************)
(* PostgresTeamStateStore: worker leases as rows of one table that any     *)
(* number of server connections share.  Leasing is one transaction that    *)
(* locks the row it takes; finishing is a query and, in a second           *)
(* statement, an update whose row count nobody looks at.  A statement may  *)
(* fail, and one that took effect may be reported as failed.               *)
(***************************************************************************)
EXTENDS Integers

CONSTANTS
  Task,         \* task ids; their order is that of ORDER BY task_id
  Organization,
  Worker,
  Session       \* connections, each of which serves one call at a time

ASSUME TaskAssumption == Task \subseteq Nat

Key  == Organization \X Task   \* the table's primary key
Idle == [at |-> "idle"]

VARIABLES
  row,      \* the committed rows
  locked,   \* keys locked by the lease transaction of each session
  call,     \* what each session is in the middle of
  granted,  \* workers lease_next() returned the task to
  acked     \* <<worker, outcome>> pairs complete and fail returned Ok for

vars == <<row, locked, call, granted, acked>>

Q == INSTANCE TeamLease WITH lease <- row

Init ==
  /\ Q!Init
  /\ locked = [s \in Session |-> {}]
  /\ call = [s \in Session |-> Idle]
  /\ acked = [k \in Key |-> {}]

Begin(s, c)  == call[s] = Idle /\ call' = [call EXCEPT ![s] = c]
End(s)       == call' = [call EXCEPT ![s] = Idle]
Release(s)   == locked' = [locked EXCEPT ![s] = {}]
Free(k)      == \A s \in Session : k \notin locked[s]

\* One INSERT; the primary key rejects a second one.
Enqueue(s, k) ==
  /\ call[s] = Idle
  /\ row[k] = Q!Absent
  /\ row' = [row EXCEPT ![k] = Q!Pending]
  /\ UNCHANGED <<locked, call, granted, acked>>

\* Faulty variant: the SELECT locks nothing and skips nothing.
LeaseSelectUnlocked(s, org, w) ==
  \E t \in Task :
    /\ row[<<org, t>>] = Q!Pending
    /\ Begin(s, [at |-> "update", key |-> <<org, t>>, worker |-> w])
    /\ locked' = [locked EXCEPT ![s] = {<<org, t>>}]
    /\ UNCHANGED <<row, granted, acked>>

\* SELECT ... WHERE state = 'pending' ORDER BY task_id FOR UPDATE SKIP LOCKED.
LeaseSelect(s, org, w) ==
  LET ready == {t \in Task : row[<<org, t>>] = Q!Pending /\ Free(<<org, t>>)}
  IN  \E t \in ready :
        /\ \A u \in ready : t <= u
        /\ Begin(s, [at |-> "update", key |-> <<org, t>>, worker |-> w])
        /\ locked' = [locked EXCEPT ![s] = {<<org, t>>}]
        /\ UNCHANGED <<row, granted, acked>>

\* UPDATE ... WHERE state = 'pending', and COMMIT.  An error of COMMIT leaves
\* open whether the lease was stored.
LeaseCommit(s) ==
  /\ call[s].at = "update"
  /\ LET k == call[s].key
         w == call[s].worker
     IN  /\ row' = [row EXCEPT ![k] = Q!Leased(w)]
         /\ \/ granted' = [granted EXCEPT ![k] = @ \cup {w}]
            \/ UNCHANGED granted
  /\ End(s) /\ Release(s)
  /\ UNCHANGED acked

LeaseAbort(s) ==
  /\ call[s].at = "update"
  /\ End(s) /\ Release(s)
  /\ UNCHANGED <<row, granted, acked>>

\* Faulty variant: any worker may finish a leased task.
FinishForeign(s, k, w, o) ==
  /\ row[k].state = "leased"
  /\ Begin(s, [at |-> "finish", key |-> k, worker |-> w, outcome |-> o])
  /\ UNCHANGED <<row, locked, granted, acked>>

\* The first half of finish_postgres_lease: any other row is an error.
FinishSelect(s, k, w, o) ==
  /\ row[k] = Q!Leased(w)
  /\ Begin(s, [at |-> "finish", key |-> k, worker |-> w, outcome |-> o])
  /\ UNCHANGED <<row, locked, granted, acked>>

\* UPDATE ... WHERE state = 'leased' AND worker_id = ..., of one row or none.
FinishUpdate(s) ==
  /\ call[s].at = "finish"
  /\ LET k == call[s].key
         w == call[s].worker
         o == call[s].outcome
     IN  /\ row' = IF row[k] = Q!Leased(w)
                     THEN [row EXCEPT ![k] = Q!Ended(w, o)] ELSE row
         /\ \/ acked' = [acked EXCEPT ![k] = @ \cup {<<w, o>>}]
            \/ UNCHANGED acked
  /\ End(s)
  /\ UNCHANGED <<locked, granted>>

FinishFails(s) ==
  /\ call[s].at = "finish"
  /\ End(s)
  /\ UNCHANGED <<row, locked, granted, acked>>

Serve(s) ==
  \/ \E k \in Key : Enqueue(s, k)
  \/ \E org \in Organization, w \in Worker : LeaseSelect(s, org, w)
  \/ \E k \in Key, w \in Worker, o \in Q!Outcome : FinishSelect(s, k, w, o)
  \/ LeaseCommit(s) \/ LeaseAbort(s) \/ FinishUpdate(s) \/ FinishFails(s)

Next == \E s \in Session : Serve(s)

Spec == Init /\ [][Next]_vars

-----------------------------------------------------------------------------
Calls ==
  [at : {"idle"}]
    \cup [at : {"update"}, key : Key, worker : Worker]
    \cup [at : {"finish"}, key : Key, worker : Worker, outcome : Q!Outcome]

TypeOK ==
  /\ row \in [Key -> Q!Lease]
  /\ locked \in [Session -> SUBSET Key]
  /\ call \in [Session -> Calls]
  /\ \A s \in Session :
       locked[s] = IF call[s].at = "update" THEN {call[s].key} ELSE {}
  /\ granted \in [Key -> SUBSET Worker]
  /\ acked \in [Key -> SUBSET (Worker \X Q!Outcome)]

\* The rows keep the promise of the abstract lease store whatever the sessions
\* of several servers interleave: the row lock makes leasing atomic, and the
\* condition of the last UPDATE makes finishing atomic.
LeaseContract == Q!Spec

\* A worker that was told its task is finished can rely on it: the row is in a
\* terminal state, and that worker was the lessee.
AckedIsFinished ==
  \A k \in Key : \A a \in acked[k] :
    /\ row[k].state \in Q!Outcome
    /\ row[k].by = {a[1]}

\* SKIP LOCKED at work: the row a lease transaction is about to update is still
\* pending, and no other open transaction is about to lease the same task.
SoleLessor ==
  \A s \in Session : call[s].at = "update" =>
    /\ row[call[s].key] = Q!Pending
    /\ \A r \in Session \ {s} : call[s].key \notin locked[r]

\* docs/architecture.md: "duplicate, unleased, and already-terminal transitions
\* are rejected by both the local JSON state backend and the Postgres backend."
DuplicateFinishRejected ==
  \A k \in Key : \A a, b \in acked[k] : a = b
=============================================================================
