---------------------------- MODULE TaskLifecycle ----------------------------
(***************************************************************************)
(* What a run of a task promises about the status a user sees: which       *)
(* status may follow which, and that the agent is launched only while the  *)
(* task is marked Running.  A status a task has ended with is only ever    *)
(* replaced by Failed, until the same task id is run again.                *)
(***************************************************************************)
VARIABLES
  status,    \* the task's status, "none" before it is created
  launched   \* the agent may have been launched in this run

lifecycle == <<status, launched>>

Follows ==
  [none                |-> {"Created"},
   Created             |-> {"Validating"},
   Validating          |-> {"Preparing"},
   Preparing           |-> {"WaitingForApproval", "Denied", "Running", "Failed"},
   WaitingForApproval  |-> {"Denied", "Running", "Failed"},
   Running             |-> {"CollectingArtifacts", "Failed"},
   CollectingArtifacts |-> {"Reporting"},
   Reporting           |-> {"Succeeded", "Failed", "TimedOut"},
   Succeeded           |-> {"Failed"},
   TimedOut            |-> {"Failed"},
   Denied              |-> {"Failed"},
   Failed              |-> {}]

Init == status = "none" /\ launched = FALSE

Advance == status' \in Follows[status] /\ UNCHANGED launched
Launch  == status = "Running" /\ launched' = TRUE /\ UNCHANGED status
Restart == Init'

Next == Advance \/ Launch \/ Restart

Spec == Init /\ [][Next]_lifecycle
=============================================================================
