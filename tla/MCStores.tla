------------------------------- MODULE MCStores -------------------------------
(***************************************************************************)
(* The stores of taskfence-state: three of worker leases, one of which a   *)
(* deployment uses; the exports of a deployment on Postgres; the local     *)
(* evidence with what is derived from it, where the index and the replays  *)
(* read the evidence and never each other; and the diff of a workspace.    *)
(* Parts that share no state do not interleave.                            *)
(***************************************************************************)
EXTENDS PostgresLeases, TLC

CONSTANTS QueuedTask, QueueOrganization, Exportable, Command, MaxEvents,
          RunTask, IndexedTask, Runner, Replayer, Refresher,
          Path, Internal, MaxEdits, MaxRuns

ASSUME StoresAssumption ==
  /\ QueuedTask \subseteq Nat
  /\ Exportable \subseteq Task /\ MaxEvents \in Nat
  /\ Internal \subseteq Path /\ MaxEdits \in Nat /\ MaxRuns \in Nat
  /\ Runner \cap (Replayer \cup Refresher) = {} \* a command is of one kind

VARIABLES
  used,
  leases, owner, given,                               \* the queue in memory
  file, content, log, export, process, memory, told,  \* the JSON file
  tasks, artifacts, exports, history, payload, server, \* the exports
  evidence, replays, index, cmd, since,               \* the evidence
  repository, head, indexed, tree, ignored, edits,    \* the workspace
  phase, run, baseline, touched, moved, seen, diff    \* and its diff

queueVars    == <<leases, owner, given>>
fileVars     == <<file, content, log, export, process, memory, told>>
exportVars   == <<tasks, artifacts, exports, history, payload, server>>
evidenceVars == <<evidence, replays, index, cmd, since>>
diffVars     == <<repository, head, indexed, tree, ignored, edits,
                  phase, run, baseline, touched, moved, seen, diff>>

Queue == INSTANCE WorkerQueue WITH
           Task <- QueuedTask, Organization <- QueueOrganization, granted <- given
File  == INSTANCE LocalTeamFile WITH call <- process, granted <- told
Exports == INSTANCE PostgresExports WITH
             Task <- IndexedTask, Server <- Session, log <- history, call <- server
Replays == INSTANCE EvidenceStore WITH Task <- RunTask, Refresher <- {}
Index   == INSTANCE EvidenceStore WITH Task <- IndexedTask, Replayer <- {}
Diff    == INSTANCE WorkspaceDiff WITH index <- indexed

NoEvidence == evidence = <<>> /\ replays = <<>> /\ index = <<>> /\ cmd = <<>> /\ since = <<>>
NoDiff ==
  /\ repository = <<>> /\ head = <<>> /\ indexed = <<>> /\ tree = <<>> /\ ignored = <<>>
  /\ edits = <<>> /\ phase = <<>> /\ run = <<>> /\ baseline = <<>>
  /\ touched = <<>> /\ moved = <<>> /\ seen = <<>> /\ diff = <<>>

MCInit ==
  /\ Init /\ Queue!Init /\ File!Init /\ Exports!Init
  /\ \/ used \in {"Postgres", "queue", "file", "exports"} /\ NoEvidence /\ NoDiff
     \/ used = "replay" /\ Replays!Init /\ NoDiff
     \/ used = "index" /\ Index!Init /\ NoDiff
     \/ used = "diff" /\ Diff!Init /\ NoEvidence

MCNext ==
  \/ /\ used = "Postgres" /\ Next
     /\ UNCHANGED <<used, queueVars, fileVars, exportVars, evidenceVars, diffVars>>
  \/ /\ used = "queue" /\ Queue!Next
     /\ UNCHANGED <<used, vars, fileVars, exportVars, evidenceVars, diffVars>>
  \/ /\ used = "file" /\ File!Next
     /\ UNCHANGED <<used, vars, queueVars, exportVars, evidenceVars, diffVars>>
  \/ /\ used = "exports" /\ Exports!Next
     /\ UNCHANGED <<used, vars, queueVars, fileVars, evidenceVars, diffVars>>
  \/ /\ used = "replay" /\ Replays!Next
     /\ UNCHANGED <<used, vars, queueVars, fileVars, exportVars, diffVars>>
  \/ /\ used = "index" /\ Index!Next
     /\ UNCHANGED <<used, vars, queueVars, fileVars, exportVars, diffVars>>
  \/ /\ used = "diff" /\ Diff!Next
     /\ UNCHANGED <<used, vars, queueVars, fileVars, exportVars, evidenceVars>>

MCSpec ==
  MCInit /\ [][MCNext]_<<used, vars, queueVars, fileVars, exportVars, evidenceVars, diffVars>>

\* Refreshers are told apart by nothing.
Symmetry == Permutations(Refresher)

\* The queue in memory keeps the promise of the abstract lease store.
QueueContract == Queue!LeaseContract

\* While commands do not overlap, the file keeps that promise, too, crashes in
\* the middle of a write included.
FileContract == File!LeaseContract

\* A file that is damaged is never taken for an empty queue.
DamageIsNotForgotten == File!DamageIsNotForgotten

\* What the file or the rows call a completed export has an artifact behind it.
ExportsAreBacked == File!ExportsAreBacked /\ Exports!ExportsAreBacked

\* The index and the replay records say nothing untrue.
DerivedFilesHold == /\ used = "replay" => Replays!DerivedFilesHold
                    /\ used = "index" => Index!DerivedFilesHold

\* Replays leave existing evidence alone and run vetted inputs only.
ReplayFailsClosed == [][used = "replay" => Replays!FailsClosed]_<<used, evidenceVars>>

\* Without its warning, diff.patch lists nothing that was there before the run, and
\* it lists what stood still while it was collected.
DiffTellsTheRun == [][used = "diff" => Diff!TellsTheRun]_<<used, diffVars>>
===============================================================================
