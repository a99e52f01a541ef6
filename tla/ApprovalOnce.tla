---------------------------- MODULE ApprovalOnce ----------------------------
(***************************************************************************)
(* What an approval record promises to everyone who looks at it: it is     *)
(* decided at most once, and every answer given out is that decision.      *)
(***************************************************************************)
CONSTANT Decision  \* Approved, Denied, TimedOut

VARIABLES
  record,  \* "absent", "pending" or the decision
  told     \* the decisions somebody was given as the answer

approval == <<record, told>>

Init == record = "absent" /\ told = {}

Ask       == record = "absent" /\ record' = "pending" /\ UNCHANGED told
Decide(d) == record = "pending" /\ record' = d /\ told' \in {told, told \cup {d}}
Tell      == record \in Decision /\ told' = told \cup {record} /\ UNCHANGED record

Next == Ask \/ (\E d \in Decision : Decide(d)) \/ Tell

Spec == Init /\ [][Next]_approval

\* Nobody was told anything but the decision on record.
OneAnswer == told \subseteq {record}
=============================================================================
