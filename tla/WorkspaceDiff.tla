---------------------------- MODULE WorkspaceDiff ----------------------------
(***************************************************************************)
(* The baseline and the diff that LocalArtifactStore takes of a workspace  *)
(* around a run, while anybody changes the workspace: the agent, its user, *)
(* another task.  A path has three contents, as git sees it: the one of    *)
(* the last commit, of the index and of the working tree.  The commands of *)
(* git are external.                                                       *)
(***************************************************************************)
EXTENDS Naturals

CONSTANTS
  Path,
  Internal,  \* the paths of them under .taskfence/
  MaxEdits,  \* bound: changes of the workspace
  MaxRuns    \* bound: runs of the task

Content == {"absent", "old", "new"}

VARIABLES
  repository,         \* whether the workspace is one
  head, index, tree,  \* contents of each path
  ignored,            \* untracked paths that git does not list
  edits,
  phase,              \* the next step of the run, "idle" between runs
  run,
  baseline,           \* dirty_before_run
  touched,            \* paths that changed since the baseline
  moved,              \* paths that changed while the diff is collected
  seen,               \* what the commands of git have listed so far
  diff                \* diff.patch

workspace == <<repository, head, index, tree, ignored>>
vars == <<workspace, edits, phase, run, baseline, touched, moved, seen, diff>>

Nothing == [final |-> {}, listed |-> {}]

Init ==
  /\ repository \in BOOLEAN
  /\ head \in [Path -> {"absent", "old"}]
  /\ index \in {head, [p \in Path |-> "absent"]}
  /\ tree = [p \in Path |-> "old"]
  /\ ignored \in SUBSET Path
  /\ edits = 0 /\ phase = "idle" /\ run = 0 /\ baseline = FALSE
  /\ touched = {} /\ moved = {} /\ seen = Nothing
  /\ diff = [run |-> 0, dirty |-> FALSE, sections |-> FALSE, final |-> {}, listed |-> {}]

-----------------------------------------------------------------------------
(* The workspace.                                                           *)

Staged    == {p \in Path : index[p] # head[p]}
Unstaged  == {p \in Path : index[p] # "absent" /\ tree[p] # index[p]}
Untracked == {p \in Path : index[p] = "absent" /\ tree[p] # "absent"} \ ignored

\* filter_taskfence_status.
Filtered(paths) == paths \ Internal

Status == Filtered(Staged \cup Unstaged \cup Untracked)

\* git rev-parse, or a later command: git may be missing or fail as well.
Probe == {"unavailable", "error", IF repository THEN "inside" ELSE "not git"}

\* One change by anybody; what it changes has been touched from then on.
Edit ==
  /\ edits < MaxEdits /\ edits' = edits + 1
  /\ \/ /\ \E p \in Path, c \in Content : tree' = [tree EXCEPT ![p] = c]
        /\ UNCHANGED <<repository, head, index, ignored>>
     \/ /\ \E p \in Path : index' \in {[index EXCEPT ![p] = tree[p]], [index EXCEPT ![p] = head[p]]}
        /\ UNCHANGED <<repository, head, tree, ignored>>
     \/ /\ head' = index
        /\ UNCHANGED <<repository, index, tree, ignored>>
     \/ /\ \E p \in Path : ignored' \in {ignored \cup {p}, ignored \ {p}}
        /\ UNCHANGED <<repository, head, index, tree>>
     \/ /\ repository' = ~repository
        /\ head' = [p \in Path |-> "absent"] /\ index' = head'
        /\ UNCHANGED <<tree, ignored>>
  /\ LET changed == {p \in Path : \/ head'[p] # head[p] \/ index'[p] # index[p]
                                  \/ tree'[p] # tree[p] \/ (p \in ignored') # (p \in ignored)}
     IN touched' = touched \cup changed /\ moved' = moved \cup changed
  /\ UNCHANGED <<phase, run, baseline, seen, diff>>

-----------------------------------------------------------------------------
(* The run.                                                                 *)

Go(from, to) == phase = from /\ phase' = to

BeginBaseline(dirty) ==
  /\ Go("idle", "agent")
  /\ run < MaxRuns /\ run' = run + 1
  /\ baseline' = dirty /\ touched' = {}
  /\ UNCHANGED <<workspace, edits, moved, seen, diff>>

\* Faulty variant: a workspace git says nothing about counts as clean.
BaselineAssumesClean ==
  \E probe \in Probe \ {"error"} : BeginBaseline(probe = "inside" /\ Status # {})

\* capture_baseline; an error ends the run before its agent starts.
CaptureBaseline ==
  \E probe \in Probe \ {"error"} : BeginBaseline(probe = "inside" => Status # {})

\* A run that does not get to its diff, or whose task does not ask for one.
SkipDiff == Go("agent", "idle") /\ UNCHANGED <<workspace, edits, run, baseline, touched, moved, seen, diff>>

\* An error while it is collected leaves the diff of an earlier run in place.
CollectFails ==
  /\ phase \in {"status", "unstaged", "staged", "untracked", "write"} /\ phase' = "idle"
  /\ UNCHANGED <<workspace, edits, run, baseline, touched, moved, seen, diff>>

\* atomic_write of the metadata, with or without the sections of the diff.
WriteDiff(sections) ==
  /\ diff' = [run |-> run, dirty |-> baseline, sections |-> sections,
              final |-> seen.final, listed |-> seen.listed]
  /\ phase' = "idle"
  /\ UNCHANGED <<workspace, edits, run, baseline, touched, moved, seen>>

BeginDiff ==
  /\ Go("agent", "status")
  /\ seen' = Nothing /\ moved' = {}
  /\ UNCHANGED <<workspace, edits, run, baseline, touched, diff>>

\* is_git_repo and git_status: without git there are no sections.
FinalStatus ==
  \/ phase = "status" /\ (\E probe \in Probe : probe \in {"not git", "unavailable"}) /\ WriteDiff(FALSE)
  \/ /\ Go("status", "unstaged") /\ repository
     /\ seen' = [seen EXCEPT !.final = Status]
     /\ UNCHANGED <<workspace, edits, run, baseline, touched, moved, diff>>

List(from, to, paths) ==
  /\ Go(from, to) /\ repository
  /\ seen' = [seen EXCEPT !.listed = @ \cup paths]
  /\ UNCHANGED <<workspace, edits, run, baseline, touched, moved, diff>>

\* Three commands, one after the other; only the untracked files are filtered.
DiffUnstaged  == List("unstaged", "staged", Unstaged)
DiffStaged    == List("staged", "untracked", Staged)
ListUntracked == List("untracked", "write", Filtered(Untracked))
WriteSections == phase = "write" /\ WriteDiff(TRUE)

Next ==
  \/ Edit \/ CaptureBaseline \/ SkipDiff \/ BeginDiff \/ FinalStatus
  \/ DiffUnstaged \/ DiffStaged \/ ListUntracked \/ WriteSections \/ CollectFails

Spec == Init /\ [][Next]_vars

-----------------------------------------------------------------------------
\* What diff.patch tells of its run, however the workspace changes meanwhile.
\* Without the warning that the workspace was dirty before, no path of it outside
\* .taskfence/ is listed that has not changed since the baseline; and a path that
\* differs from the last commit and stood still while the diff was collected is
\* listed, unless git ignores it (capture_baseline, collect_diff, git_status).
TellsTheRun ==
  diff' # diff =>
    /\ ~diff'.dirty => (diff'.final \cup diff'.listed) \ Internal \subseteq touched
    /\ diff'.sections =>
         \A p \in Path \ (Internal \cup moved) :
           tree[p] # head[p] =>
             p \in diff'.listed \/ (p \in ignored /\ index[p] = "absent" /\ head[p] = "absent")

DiffTellsTheRun == [][TellsTheRun]_vars
=============================================================================
