----------------------------- MODULE WorkerQueue -----------------------------
(***************************************************************************)
(* InMemoryWorkerQueue: leases in a map ordered by task id, every          *)
(* operation one critical section of its mutex.  The map is keyed by the   *)
(* task id alone: an id queued by one organization is taken for all.       *)
(***************************************************************************)
EXTENDS Integers

CONSTANTS
  Task,         \* task ids; their order is that of the map
  Organization,
  Worker

VARIABLES
  leases,   \* the map: task id to lease, Absent when the key is missing
  owner,    \* the organization of a lease, {} when the key is missing
  granted   \* workers lease_next() returned the task to

vars == <<leases, owner, granted>>

Q == INSTANCE TeamLease WITH Key <- Task, lease <- leases

Init ==
  /\ Q!Init
  /\ owner = [t \in Task |-> {}]

Enqueue(org, t) ==
  /\ leases[t] = Q!Absent
  /\ leases' = [leases EXCEPT ![t] = Q!Pending]
  /\ owner' = [owner EXCEPT ![t] = {org}]
  /\ UNCHANGED granted

\* Faulty variant: a task that is leased is leased again.
LeaseAgain(org, w) ==
  \E t \in Task :
    /\ owner[t] = {org} /\ leases[t].state \in {"pending", "leased"}
    /\ leases' = [leases EXCEPT ![t] = Q!Leased(w)]
    /\ granted' = [granted EXCEPT ![t] = @ \cup {w}]
    /\ UNCHANGED owner

\* The first pending lease of the organization, in the order of the map.
LeaseNext(org, w) ==
  LET ready == {t \in Task : leases[t] = Q!Pending /\ owner[t] = {org}}
  IN  \E t \in ready :
        /\ \A s \in ready : t <= s
        /\ leases' = [leases EXCEPT ![t] = Q!Leased(w)]
        /\ granted' = [granted EXCEPT ![t] = @ \cup {w}]
        /\ UNCHANGED owner

\* complete and fail: finish_leased does not ask for the organization.
FinishLeased(t, w, o) ==
  /\ leases[t] = Q!Leased(w)
  /\ leases' = [leases EXCEPT ![t] = Q!Ended(w, o)]
  /\ UNCHANGED <<owner, granted>>

Next ==
  \/ \E org \in Organization : (\E t \in Task : Enqueue(org, t))
                            \/ (\E w \in Worker : LeaseNext(org, w))
  \/ \E t \in Task, w \in Worker, o \in Q!Outcome : FinishLeased(t, w, o)

Spec == Init /\ [][Next]_vars

\* The queue in memory keeps the promise of the abstract lease store.
LeaseContract == Q!Spec
=============================================================================
