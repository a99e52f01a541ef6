------------------------------ MODULE TeamLease ------------------------------
(***************************************************************************)
(* What the worker queue of the team control plane promises: a task is     *)
(* queued once, leased to one worker id, and finished once, by that        *)
(* worker, which `by` remembers.  `granted` remembers to whom a lease was  *)
(* ever announced.                                                         *)
(***************************************************************************)
CONSTANTS Key, Worker

VARIABLES lease, granted

leases == <<lease, granted>>

Outcome == {"completed", "failed"}
Lease   == [state : {"absent", "pending", "leased"} \cup Outcome, by : SUBSET Worker]

Absent     == [state |-> "absent", by |-> {}]
Pending    == [state |-> "pending", by |-> {}]
Leased(w)  == [state |-> "leased", by |-> {w}]
Ended(w, o) == [state |-> o, by |-> {w}]

Init == lease = [k \in Key |-> Absent] /\ granted = [k \in Key |-> {}]

Enqueue(k) ==
  /\ lease[k] = Absent
  /\ lease' = [lease EXCEPT ![k] = Pending]
  /\ UNCHANGED granted

Grant(k, w) ==
  /\ lease[k] = Pending
  /\ lease' = [lease EXCEPT ![k] = Leased(w)]
  /\ UNCHANGED granted

Announce(k, w) ==
  /\ w \in lease[k].by
  /\ granted' = [granted EXCEPT ![k] = @ \cup {w}]
  /\ UNCHANGED lease

GrantAndAnnounce(k, w) ==
  /\ lease[k] = Pending
  /\ lease' = [lease EXCEPT ![k] = Leased(w)]
  /\ granted' = [granted EXCEPT ![k] = @ \cup {w}]

Finish(k, w, o) ==
  /\ lease[k] = Leased(w)
  /\ lease' = [lease EXCEPT ![k] = Ended(w, o)]
  /\ UNCHANGED granted

Next ==
  \E k \in Key :
    \/ Enqueue(k)
    \/ \E w \in Worker :
         \/ Grant(k, w) \/ Announce(k, w) \/ GrantAndAnnounce(k, w)
         \/ \E o \in Outcome : Finish(k, w, o)

Spec == Init /\ [][Next]_leases

\* A lease is only ever announced to the one worker that holds or held it.
OneLessee == \A k \in Key : granted[k] \subseteq lease[k].by
=============================================================================
