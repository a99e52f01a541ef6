----------------------------- MODULE MCApprovals -----------------------------
(***************************************************************************)
(* The two approval engines, one of which a configuration uses.            *)
(***************************************************************************)
EXTENDS ExternalApproval

CONSTANT Waiters

VARIABLES used, mode, record, threads, chosen, attempts, told, typed

localVars == <<mode, record, threads, chosen, attempts, told, typed>>

InProcess == INSTANCE InProcessApproval WITH pc <- threads, answer <- told

MCInit == Init /\ InProcess!Init /\ used \in {"in process", "external"}

MCNext ==
  \/ used = "external" /\ Next /\ UNCHANGED <<used, localVars>>
  \/ used = "in process" /\ InProcess!Next /\ UNCHANGED <<used, vars>>

MCSpec ==
  /\ MCInit /\ [][MCNext]_<<used, vars, localVars>>
  /\ WF_vars(used = "external" /\ EngineStep)

\* However many threads wait for one record, and whatever each of them was
\* answered at the terminal, all get the one decision that is stored.
DecidedOnce == InProcess!DecidedOnce

\* Nothing is approved by default: not by unclear or missing input, not by an
\* engine that fails closed or times out.
ApprovedOnlyExplicitly == InProcess!ApprovedOnlyExplicitly
=============================================================================
