-------------------------- MODULE InProcessApproval --------------------------
(***************************************************************************)
(* LocalApprovalEngine: one approval record behind a mutex in the memory   *)
(* of the process, and the threads that wait for it.  wait() reads the     *)
(* record under the lock, releases the lock while it resolves the decision *)
(* (the terminal prompt may take long), and takes the lock again.          *)
(***************************************************************************)
EXTENDS Integers

CONSTANT Waiters  \* threads that call wait() for the record

\* MAX_INTERACTIVE_ATTEMPTS
MaxAttempts == 3

Decision == {"Approved", "Denied", "TimedOut"}
\* How the engine was built: a preconfigured decision, the timed-out engine,
\* a terminal prompt, or the default that fails closed.
Mode == Decision \cup {"Interactive", "FailClosed"}

VARIABLES
  mode,
  record,    \* decision field of the record: "absent", "pending" or a decision
  pc,        \* where each waiter is in wait()
  chosen,    \* decision a waiter resolved while it held no lock
  attempts,  \* prompts a waiter has shown
  answer,    \* what wait() returned to each waiter
  typed      \* explicit responses read from the terminal

vars == <<mode, record, pc, chosen, attempts, answer, typed>>

Init ==
  /\ mode \in Mode
  /\ record = "absent"
  /\ pc = [w \in Waiters |-> "start"]
  /\ chosen = [w \in Waiters |-> "none"]
  /\ attempts = [w \in Waiters |-> 0]
  /\ answer = [w \in Waiters |-> "none"]
  /\ typed = {}

Request ==
  /\ record = "absent"
  /\ record' = "pending"
  /\ UNCHANGED <<mode, pc, chosen, attempts, answer, typed>>

Return(w, result) ==
  /\ pc' = [pc EXCEPT ![w] = "done"]
  /\ answer' = [answer EXCEPT ![w] = result]

\* First critical section of wait().
Look(w) ==
  /\ pc[w] = "start"
  /\ record # "absent"
  /\ IF record \in Decision
       THEN Return(w, record)
       ELSE pc' = [pc EXCEPT ![w] = "resolve"] /\ UNCHANGED answer
  /\ UNCHANGED <<mode, record, chosen, attempts, typed>>

Choose(w, d) ==
  /\ chosen' = [chosen EXCEPT ![w] = d]
  /\ pc' = [pc EXCEPT ![w] = "store"]

\* resolve_decision of every engine that asks nobody.
ResolveByMode(w) ==
  /\ pc[w] = "resolve" /\ mode # "Interactive"
  /\ Choose(w, IF mode = "FailClosed" THEN "Denied" ELSE mode)
  /\ UNCHANGED <<mode, record, attempts, answer, typed>>

\* Faulty variant: no response is taken for consent.
PromptConsents(w) ==
  /\ pc[w] = "resolve" /\ mode = "Interactive"
  /\ attempts' = [attempts EXCEPT ![w] = @ + 1]
  /\ \/ \E d \in {"Approved", "Denied"} : Choose(w, d) /\ typed' = typed \cup {d}
     \/ Choose(w, "Approved") /\ UNCHANGED typed
  /\ UNCHANGED <<mode, record, answer>>

\* One round of TerminalApprovalPrompt: an explicit response decides, no input
\* or the last unclear response denies, an I/O error fails wait().
Prompt(w) ==
  /\ pc[w] = "resolve" /\ mode = "Interactive"
  /\ attempts' = [attempts EXCEPT ![w] = @ + 1]
  /\ \/ \E d \in {"Approved", "Denied"} :
          Choose(w, d) /\ typed' = typed \cup {d} /\ UNCHANGED answer
     \/ Choose(w, "Denied") /\ UNCHANGED <<typed, answer>>
     \/ /\ attempts[w] + 1 < MaxAttempts
        /\ UNCHANGED <<pc, chosen, answer, typed>>
     \/ Return(w, "error") /\ UNCHANGED <<chosen, typed>>
  /\ UNCHANGED <<mode, record>>

\* Faulty variant: the record is not looked at again.
StoreAnyway(w) ==
  /\ pc[w] = "store"
  /\ record' = chosen[w]
  /\ Return(w, record')
  /\ UNCHANGED <<mode, chosen, attempts, typed>>

\* Second critical section: the decision is stored only if none is yet.
Store(w) ==
  /\ pc[w] = "store"
  /\ record' = IF record = "pending" THEN chosen[w] ELSE record
  /\ Return(w, record')
  /\ UNCHANGED <<mode, chosen, attempts, typed>>

Step(w) == Look(w) \/ ResolveByMode(w) \/ Prompt(w) \/ Store(w)
Finished == (\A w \in Waiters : pc[w] = "done") /\ UNCHANGED vars

Next == Request \/ (\E w \in Waiters : Step(w)) \/ Finished

Spec == Init /\ [][Next]_vars

-----------------------------------------------------------------------------
TypeOK ==
  /\ mode \in Mode
  /\ record \in {"absent", "pending"} \cup Decision
  /\ pc \in [Waiters -> {"start", "resolve", "store", "done"}]
  /\ chosen \in [Waiters -> {"none"} \cup Decision]
  /\ attempts \in [Waiters -> 0..MaxAttempts]
  /\ answer \in [Waiters -> {"none", "error"} \cup Decision]
  /\ typed \subseteq Decision

\* However many threads wait for one record, and whatever each of them was
\* answered at the terminal, all get the one decision that is stored.
Once == INSTANCE ApprovalOnce WITH
          told <- {answer[w] : w \in Waiters} \cap Decision
DecidedOnce == Once!Spec

\* Nothing is approved by default: not by unclear or missing input, not by an
\* engine that fails closed or times out.
ApprovedOnlyExplicitly ==
  record = "Approved" => mode = "Approved" \/ "Approved" \in typed
=============================================================================
