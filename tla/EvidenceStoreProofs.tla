------------------------- MODULE EvidenceStoreProofs -------------------------
(***************************************************************************)
(* Proofs about the evidence and what is derived from it, for any tasks    *)
(* and any number of runs, replays and refreshes at a time.                *)
(***************************************************************************)
EXTENDS EvidenceStore, TLAPS

\* A command is of one kind.
Kinds ==
  /\ Runner \cap Replayer = {} /\ Runner \cap Refresher = {} /\ Replayer \cap Refresher = {}

-----------------------------------------------------------------------------
(* Types.                                                                   *)

Statuses    == {"none", "Created", "Running", "Denied", "Succeeded", "Failed"}
InputStates == {"absent"} \cup Inputs
Listing     == [Task -> Statuses \cup {"unlisted"}]

RunPlaces     == {"open", "created", "write", "start", "running", "report"}
PlanPlaces    == {"plan", "inputs", "look", "contract"}
RecordPlaces  == {"left", "right", "truncate record", "record"}
RefreshPlaces == {"list", "summarise", "index"}
Places        == {"idle", "over", "ended"}
                   \cup RunPlaces \cup PlanPlaces \cup RecordPlaces \cup RefreshPlaces

Directories == [exists : BOOLEAN, inputs : InputStates, status : Statuses]
States ==
  [at : Places, task : Task \cup {"none"}, source : Task \cup {"none"},
   planned : InputStates, inputs : InputStates, known : SUBSET Task,
   was : Statuses, is : Statuses, final : Statuses,
   seen : {<<>>} \cup Listing, todo : SUBSET Task]
Records == [state : {"whole"}, by : Replayer, source : Task, was : Statuses, is : Statuses]
Indexes == [state : {"whole"}, seen : Listing, could : [Task -> SUBSET Statuses]]

Types ==
  /\ evidence \in [Task -> Directories]
  /\ replays \in [Task -> {Absent, Torn} \cup Records]
  /\ index \in {Absent, Torn} \cup Indexes
  /\ cmd \in [Commands -> States]
  /\ since \in [Commands -> [Task -> SUBSET Statuses]]

-----------------------------------------------------------------------------
(* The invariant.                                                           *)

Writers == Runner \cup Replayer

\* No other command has begun to write to the directory of c's task.
Alone(c) == \A d \in Writers \ {c} : cmd[d].at = "idle" \/ cmd[d].task # cmd[c].task

\* Where each kind of command can be, and on which task it is.
Located(c) ==
  /\ c \in Runner => cmd[c].at \in {"idle", "over", "ended"} \cup RunPlaces
  /\ c \in Replayer =>
       cmd[c].at \in {"idle", "ended"} \cup RunPlaces \cup PlanPlaces \cup RecordPlaces
  /\ c \in Refresher => cmd[c].at \in {"idle", "ended"} \cup RefreshPlaces
  /\ c \in Writers /\ Active(c) => cmd[c].task \in Task
  /\ c \in Replayer /\ Active(c) => cmd[c].source \in Task

\* What a replay has checked before it may run.
Vetted(c) ==
  c \in Replayer =>
    /\ \A t \in cmd[c].known : evidence[t].exists
    /\ cmd[c].at \in {"contract"} \cup RunPlaces \cup RecordPlaces => cmd[c].task \notin cmd[c].known
    /\ cmd[c].at \in RunPlaces \cup RecordPlaces => cmd[c].inputs = "contained"

\* Each active command could have seen the statuses there are.
Watched(c) == Active(c) => \A t \in Task : evidence[t].status \in since[c][t]

\* What a writer has recorded last is there as long as it is alone, and what a
\* replay has read was there.
Recalled(c) ==
  /\ cmd[c].at \in {"write", "start", "running", "report", "over", "left", "right"} /\ Alone(c) =>
       evidence[cmd[c].task].status = cmd[c].final
  /\ cmd[c].at \in {"right", "truncate record", "record"} => cmd[c].was \in since[c][cmd[c].source]
  /\ cmd[c].at \in {"truncate record", "record"} =>
       /\ cmd[c].is \in since[c][cmd[c].task]
       /\ Alone(c) => cmd[c].is = cmd[c].final

\* What a refresh has read was there since it began.
Listed(c) ==
  cmd[c].at \in {"summarise", "index"} =>
    /\ cmd[c].seen \in Listing
    /\ \A t \in Task : cmd[c].seen[t] # "unlisted" => cmd[c].seen[t] \in since[c][t]

Command(c) ==
  /\ Located(c) /\ Vetted(c) /\ Watched(c)
  /\ c \in Writers => Recalled(c)
  /\ c \in Refresher => Listed(c)

\* A replay record is of a replay that is over.
RecordHolds(t) ==
  Whole(replays[t]) =>
    LET r == replays[t]
    IN  /\ cmd[r.by].at = "ended" /\ cmd[r.by].task = t
        /\ r.was \in since[r.by][r.source] /\ r.is \in since[r.by][t]
        /\ Alone(r.by) => r.is = cmd[r.by].final

IndexHolds ==
  Whole(index) => \A t \in Task : index.seen[t] # "unlisted" => index.seen[t] \in index.could[t]

Inv ==
  /\ Types
  /\ \A c \in Commands : Command(c)
  /\ \A t \in Task : RecordHolds(t)
  /\ IndexHolds

-----------------------------------------------------------------------------
(* Steps in general.                                                        *)

\* How a step of one command looks to the others: it changes no directory but that
\* of its own task, and whoever is active can have seen the change.
Moves(c) ==
  /\ \A d \in Commands \ {c} : cmd'[d] = cmd[d]
  /\ cmd[c].at # "ended"
  /\ c \in Writers /\ cmd[c].at # "idle" => cmd'[c].at # "idle" /\ cmd'[c].task = cmd[c].task
  /\ \A t \in Task :
       /\ evidence[t].exists => evidence'[t].exists
       /\ evidence'[t] # evidence[t] =>
            /\ c \in Writers /\ cmd[c].at # "idle" /\ t = cmd[c].task
            /\ \A d \in Commands : Active(d) => evidence'[t].status \in since'[d][t]
  /\ \A d \in Commands \ {c}, t \in Task : since[d][t] \subseteq since'[d][t]

LEMMA OthersKeep ==
  ASSUME Inv, Types', NEW c \in Commands, Moves(c), NEW d \in Commands \ {c}
  PROVE  Command(d)'
<1>1. Command(d) /\ cmd'[d] = cmd[d] /\ cmd[d] \in States
  BY DEF Inv, Moves, Types
<1>2. Located(d)' /\ Vetted(d)'
  BY <1>1 DEF Command, Located, Vetted, Active, Moves, States
<1>3. Watched(d)'
  BY <1>1 DEF Command, Watched, Active, Moves, Types
<1>4. ASSUME d \in Writers PROVE Recalled(d)'
  <2>1. Alone(d)' => Alone(d) /\ (c \in Writers => cmd'[c].at = "idle" \/ cmd'[c].task # cmd[d].task)
    BY <1>1, <1>4 DEF Alone, Moves, Writers, Commands
  <2>2. d \in Commands /\ Recalled(d) /\ Located(d)
    BY <1>1, <1>4 DEF Command
  <2>3. Active(d) => cmd[d].task \in Task
    BY <1>4, <2>2 DEF Located
  <2>4. cmd[d].at \in {"right", "truncate record", "record"} => cmd[d].source \in Task
    BY <1>4, <2>2 DEF Located, Active, Writers, RunPlaces
  <2>5. Alone(d)' /\ Active(d) => evidence'[cmd[d].task] = evidence[cmd[d].task]
    BY <2>1, <2>3 DEF Moves
  <2> QED BY <1>1, <2>1, <2>2, <2>3, <2>4, <2>5 DEF Recalled, Active, Moves
<1>5. ASSUME d \in Refresher PROVE Listed(d)'
  BY <1>1, <1>5 DEF Command, Listed, Moves
<1> QED BY <1>2, <1>3, <1>4, <1>5 DEF Command

LEMMA RecordsKept ==
  ASSUME Inv, Types', NEW c \in Commands, Moves(c), NEW t \in Task, replays'[t] = replays[t]
  PROVE  RecordHolds(t)'
<1> SUFFICES ASSUME Whole(replays[t]) PROVE RecordHolds(t)'
  BY DEF RecordHolds, Whole
<1>1. PICK r : r = replays[t] /\ r \in Records
  BY DEF Inv, Types, Whole, Absent, Torn
<1>2. /\ r.by \in Replayer /\ r.source \in Task /\ RecordHolds(t)
      /\ r.by \in Commands /\ r.by \in Writers
  BY <1>1 DEF Inv, Records, Commands, Writers
<1>3. cmd[r.by].at = "ended" /\ cmd[r.by].task = t /\ r.by # c
  BY <1>1, <1>2 DEF RecordHolds, Moves
<1>4. cmd'[r.by] = cmd[r.by] /\ \A u \in Task : since[r.by][u] \subseteq since'[r.by][u]
  BY <1>2, <1>3 DEF Moves
<1>5. Alone(r.by)' => Alone(r.by)
  BY <1>2, <1>3, <1>4 DEF Alone, Moves, Writers, Commands
<1> QED BY <1>1, <1>2, <1>3, <1>4, <1>5 DEF RecordHolds

LEMMA Rest ==
  ASSUME Inv, Types', NEW c \in Commands, Moves(c), Command(c)', replays' = replays, index' = index
  PROVE  Inv'
<1>1. \A t \in Task : RecordHolds(t)'
  BY RecordsKept
<1>2. IndexHolds'
  BY DEF Inv, IndexHolds, Whole
<1> QED BY <1>1, <1>2, OthersKeep DEF Inv

-----------------------------------------------------------------------------
(* How commands go on.                                                      *)

LEMMA IdleState ==
  /\ Idle \in States /\ Idle.at = "idle" /\ Idle.known = {} /\ Idle.seen = <<>> /\ Idle.todo = {}
  /\ DOMAIN Idle = {"at", "task", "source", "planned", "inputs", "known", "was", "is", "final",
                    "seen", "todo"}
BY DEF Idle, States, Places, InputStates, Inputs, Statuses, Listing

\* A command goes on to another place and may remember one thing more.
LEMMA PlaceChanged ==
  ASSUME NEW r \in States, NEW to \in Places, NEW new, new = [r EXCEPT !.at = to]
  PROVE  /\ new \in States /\ new.at = to /\ new.task = r.task /\ new.source = r.source
         /\ new.planned = r.planned /\ new.inputs = r.inputs /\ new.known = r.known
         /\ new.was = r.was /\ new.is = r.is /\ new.final = r.final
         /\ new.seen = r.seen /\ new.todo = r.todo
BY DEF States

-----------------------------------------------------------------------------
(* The steps, by what they leave alone.                                     *)

\* A step within a command that changes no directory.
LEMMA Quiet ==
  ASSUME Inv, NEW c \in Commands, Active(c), NEW new \in States,
         cmd' = [cmd EXCEPT ![c] = new], UNCHANGED <<evidence, since>>,
         new.at # "idle", new.task = cmd[c].task
  PROVE  /\ cmd' \in [Commands -> States] /\ cmd'[c] = new
         /\ Moves(c) /\ Watched(c)'
         /\ Alone(c)' => Alone(c)
<1>1. /\ cmd' \in [Commands -> States] /\ cmd'[c] = new
      /\ \A d \in Commands \ {c} : cmd'[d] = cmd[d]
  BY DEF Inv, Types
<1>2. Moves(c)
  BY <1>1 DEF Moves, Active
<1>3. Watched(c)'
  BY <1>1 DEF Inv, Command, Watched
<1>4. Alone(c)' => Alone(c)
  BY <1>1 DEF Alone, Commands, Writers
<1> QED BY <1>1, <1>2, <1>3, <1>4

\* A step of a run that changes the directory of its task.
LEMMA Puts ==
  ASSUME Inv, NEW c \in Writers, Active(c), NEW new \in States, NEW e \in Directories,
         cmd' = [cmd EXCEPT ![c] = new], Put(c, e),
         new.at # "idle", new.task = cmd[c].task,
         evidence[cmd[c].task].exists => e.exists
  PROVE  /\ Types' /\ cmd'[c] = new /\ cmd[c].task \in Task
         /\ evidence' = [evidence EXCEPT ![cmd[c].task] = e]
         /\ Moves(c) /\ Watched(c)'
         /\ \A t \in Task : since[c][t] \subseteq since'[c][t]
         /\ Alone(c)' => Alone(c)
<1>0. c \in Commands /\ Command(c)
  BY DEF Inv, Writers, Commands
<1>1. PICK t : t = cmd[c].task /\ t \in Task
  BY <1>0 DEF Command, Located
<1>2. /\ evidence' = [evidence EXCEPT ![t] = e] /\ UNCHANGED <<replays, index>>
      /\ since' = [d \in Commands |-> IF Active(d) THEN [since[d] EXCEPT ![t] = @ \cup {e.status}]
                                                  ELSE since[d]]
  BY <1>1 DEF Put
<1>3. /\ cmd' \in [Commands -> States] /\ cmd'[c] = new
      /\ \A d \in Commands \ {c} : cmd'[d] = cmd[d]
  BY <1>0 DEF Inv, Types
<1>4. e.status \in Statuses
  BY DEF Directories
<1>5. /\ since' \in [Commands -> [Task -> SUBSET Statuses]]
      /\ \A d \in Commands, u \in Task : since[d][u] \subseteq since'[d][u]
      /\ \A d \in Commands : Active(d) => e.status \in since'[d][t]
  BY <1>1, <1>2, <1>4 DEF Inv, Types
<1>6. Types'
  BY <1>2, <1>3, <1>5 DEF Inv, Types
<1>7. Moves(c)
  <2>1. \A u \in Task : /\ evidence[u].exists => evidence'[u].exists
                        /\ evidence'[u] # evidence[u] => u = t /\ evidence'[u] = e
    BY <1>1, <1>2 DEF Inv, Types
  <2> QED BY <1>1, <1>3, <1>5, <2>1 DEF Moves, Active
<1>8. Watched(c)'
  <2>1. \A u \in Task : evidence'[u].status \in since'[c][u]
    BY <1>0, <1>1, <1>2, <1>5 DEF Inv, Types, Command, Watched
  <2> QED BY <2>1 DEF Watched
<1>9. Alone(c)' => Alone(c)
  BY <1>0, <1>3 DEF Alone, Commands, Writers
<1> QED BY <1>0, <1>1, <1>2, <1>3, <1>5, <1>6, <1>7, <1>8, <1>9

\* The beginning of a command.
LEMMA Begun ==
  ASSUME Inv, NEW c \in Commands, NEW new \in States, Begin(c, new)
  PROVE  /\ Types' /\ cmd'[c] = new /\ cmd[c].at = "idle"
         /\ Moves(c) /\ Watched(c)'
         /\ UNCHANGED <<evidence, replays, index>>
<1>1. /\ cmd[c].at = "idle" /\ cmd' = [cmd EXCEPT ![c] = new]
      /\ since' = [since EXCEPT ![c] = [t \in Task |-> {evidence[t].status}]]
      /\ UNCHANGED <<evidence, replays, index>>
  BY DEF Begin
<1>2. \A t \in Task : evidence[t].status \in Statuses
  BY DEF Inv, Types, Directories
<1>3. Types' /\ cmd'[c] = new
  BY <1>1, <1>2 DEF Inv, Types
<1>4. Moves(c)
  BY <1>1 DEF Moves, Inv, Types
<1>5. Watched(c)'
  BY <1>1 DEF Watched, Inv, Types
<1> QED BY <1>1, <1>3, <1>4, <1>5

-----------------------------------------------------------------------------
(* The steps, one by one.                                                   *)

LEMMA BeginSteps ==
  ASSUME Inv, Kinds, NEW c \in Commands,
         \/ c \in Runner /\ BeginRun(c)
         \/ c \in Replayer /\ BeginReplay(c)
         \/ c \in Refresher /\ BeginRefresh(c)
  PROVE  Inv'
<1>1. CASE c \in Runner /\ BeginRun(c)
  <2>1. PICK t \in Task, i \in Inputs :
          Begin(c, [Idle EXCEPT !.at = "open", !.task = t, !.inputs = i])
    BY <1>1 DEF BeginRun
  <2>2. PICK new : new = [Idle EXCEPT !.at = "open", !.task = t, !.inputs = i]
    OBVIOUS
  <2>3. new \in States /\ new.at = "open" /\ new.task = t /\ new.inputs = i /\ new.known = {}
    <3>1. t \in Task /\ i \in Inputs
      BY <2>1
    <3>2. "open" \in Places /\ i \in InputStates
      BY <3>1 DEF Places, RunPlaces, InputStates
    <3> QED BY <2>2, <3>1, <3>2, IdleState DEF States
  <2>4. cmd'[c] = new /\ Types' /\ Moves(c) /\ Watched(c)' /\ UNCHANGED <<replays, index>>
    <3>1. Begin(c, new)
      BY <2>1, <2>2
    <3> QED BY <2>3, <3>1, Begun
  <2>5. Located(c)' /\ Vetted(c)' /\ Recalled(c)' /\ Listed(c)'
    BY <1>1, <2>3, <2>4 DEF Kinds, Located, Vetted, Recalled, Listed, Active, RunPlaces
  <2> QED BY <2>4, <2>5, Rest DEF Command
<1>2. CASE c \in Replayer /\ BeginReplay(c)
  <2>1. PICK t \in Task, s \in Task :
          Begin(c, [Idle EXCEPT !.at = "plan", !.task = t, !.source = s, !.known = Known])
    BY <1>2 DEF BeginReplay
  <2>2. PICK known, new :
          /\ known = Known
          /\ new = [Idle EXCEPT !.at = "plan", !.task = t, !.source = s, !.known = known]
    OBVIOUS
  <2>3. known \in SUBSET Task /\ \A u \in known : evidence[u].exists
    BY <2>2 DEF Known
  <2>4. new \in States /\ new.at = "plan" /\ new.task = t /\ new.source = s /\ new.known = known
    <3>1. t \in Task /\ s \in Task
      BY <2>1
    <3>2. "plan" \in Places
      BY DEF Places, PlanPlaces
    <3> QED BY <2>2, <2>3, <3>1, <3>2, IdleState DEF States
  <2>5. cmd'[c] = new /\ Types' /\ Moves(c) /\ Watched(c)' /\ UNCHANGED <<evidence, replays, index>>
    <3>1. Begin(c, new)
      BY <2>1, <2>2
    <3> QED BY <2>4, <3>1, Begun
  <2>6. Located(c)' /\ Vetted(c)' /\ Recalled(c)' /\ Listed(c)'
    BY <1>2, <2>3, <2>4, <2>5
       DEF Kinds, Located, Vetted, Recalled, Listed, Active, RunPlaces, PlanPlaces, RecordPlaces
  <2> QED BY <2>5, <2>6, Rest DEF Command
<1>3. CASE c \in Refresher /\ BeginRefresh(c)
  <2>1. PICK new : new = [Idle EXCEPT !.at = "list"]
    OBVIOUS
  <2>2. new \in States /\ new.at = "list" /\ Begin(c, new)
    BY <1>3, <2>1, IdleState, PlaceChanged DEF BeginRefresh, Places, RefreshPlaces
  <2>3. cmd'[c] = new /\ Types' /\ Moves(c) /\ Watched(c)' /\ UNCHANGED <<replays, index>>
    BY <2>2, Begun
  <2>4. Located(c)' /\ Vetted(c)' /\ Listed(c)' /\ c \notin Writers
    BY <1>3, <2>2, <2>3 DEF Kinds, Located, Vetted, Listed, Active, RefreshPlaces, Writers
  <2> QED BY <2>3, <2>4, Rest DEF Command
<1> QED BY <1>1, <1>2, <1>3

\* A command that ends remembers its task and its last status.
LEMMA Endings ==
  ASSUME Inv, Kinds, NEW c \in Commands, Active(c), End(c, cmd[c].at), UNCHANGED <<evidence, since>>
  PROVE  /\ cmd' \in [Commands -> States] /\ Moves(c) /\ Command(c)'
         /\ cmd'[c].at = "ended" /\ cmd'[c].task = cmd[c].task /\ cmd'[c].final = cmd[c].final
         /\ Alone(c)' => Alone(c)
<1>1. PICK r, new : /\ r = cmd[c]
                    /\ new = [Idle EXCEPT !.at = "ended", !.task = r.task, !.final = r.final]
  OBVIOUS
<1>2. cmd' = [cmd EXCEPT ![c] = new]
  BY <1>1 DEF End, Go
<1>3. /\ new \in States /\ new.at = "ended" /\ new.task = cmd[c].task
      /\ new.final = cmd[c].final /\ new.known = {}
  <2>1. "ended" \in Places /\ r \in States
    BY <1>1 DEF Places, Inv, Types
  <2> QED BY <1>1, <2>1, IdleState DEF States
<1>4. /\ cmd' \in [Commands -> States] /\ cmd'[c] = new /\ Moves(c) /\ Watched(c)'
      /\ Alone(c)' => Alone(c)
  BY <1>2, <1>3, Quiet
<1>5. Located(c)' /\ Vetted(c)' /\ Recalled(c)' /\ Listed(c)'
  BY <1>3, <1>4 DEF Located, Vetted, Recalled, Listed, Active, RunPlaces, RecordPlaces
<1> QED BY <1>3, <1>4, <1>5 DEF Command

LEMMA StopStep ==
  ASSUME Inv, Kinds, NEW c \in Commands, Stop(c)
  PROVE  Inv'
<1>1. Active(c) /\ End(c, cmd[c].at) /\ UNCHANGED <<evidence, replays, index, since>>
  BY DEF Stop
<1>2. Types'
  BY <1>1, Endings DEF Inv, Types
<1> QED BY <1>1, <1>2, Endings, Rest

\* A step within the run of a command.
LEMMA RunGoesOn ==
  ASSUME Inv, Kinds, NEW c \in Writers, cmd[c].at \in RunPlaces, Moves(c), Watched(c)', Types',
         cmd'[c].at \in RunPlaces \cup {AfterRun(c)},
         cmd'[c].task = cmd[c].task, cmd'[c].source = cmd[c].source,
         cmd'[c].inputs = cmd[c].inputs, cmd'[c].known = cmd[c].known,
         cmd'[c].at \in {"open", "created"} \/
           (Alone(c)' => evidence'[cmd[c].task].status = cmd'[c].final),
         UNCHANGED <<replays, index>>
  PROVE  Inv'
<1>1. c \in Commands /\ Command(c)
  BY DEF Inv, Writers, Commands
<1>2. Located(c)'
  BY <1>1 DEF Command, Located, AfterRun, Kinds, Active, RunPlaces, RecordPlaces, Writers
<1>3. Vetted(c)'
  <2>1. cmd[c].known \subseteq Task
    BY <1>1 DEF Inv, Types, States
  <2> QED BY <1>1, <2>1 DEF Command, Vetted, Moves, RunPlaces
<1>4. Recalled(c)'
  BY DEF Recalled, AfterRun, RunPlaces
<1>5. c \notin Refresher
  BY DEF Kinds, Writers
<1> QED BY <1>1, <1>2, <1>3, <1>4, <1>5, Rest DEF Command

LEMMA StatusPut ==
  ASSUME Inv, Kinds, NEW c \in Writers, NEW from \in RunPlaces \ {"open"}, NEW s \in Statuses,
         NEW to, to \in RunPlaces \cup {AfterRun(c)}, PutStatus(c, from, s, to)
  PROVE  Inv'
<1>1. PICK r, t, new, e :
        /\ r = cmd[c] /\ t = cmd[c].task
        /\ new = [r EXCEPT !.at = to, !.final = s]
        /\ e = [evidence[t] EXCEPT !.status = s]
  OBVIOUS
<1>2. cmd[c].at = from /\ cmd' = [cmd EXCEPT ![c] = new] /\ Put(c, e)
  BY <1>1 DEF PutStatus, Go
<1>3. c \in Commands /\ Command(c) /\ r \in States /\ Active(c) /\ t \in Task
  BY <1>1, <1>2 DEF Inv, Types, Writers, Commands, Command, Located, Active, RunPlaces
<1>4. /\ new \in States /\ new.at = to /\ new.task = r.task /\ new.source = r.source
      /\ new.inputs = r.inputs /\ new.known = r.known /\ new.final = s
  <2>1. to \in Places /\ to # "idle"
    BY DEF Places, RunPlaces, RecordPlaces, AfterRun
  <2> QED BY <1>1, <1>3, <2>1 DEF States
<1>5. e \in Directories /\ e.exists = evidence[t].exists /\ e.status = s
  BY <1>1, <1>3 DEF Inv, Types, Directories
<1>6. /\ new.at # "idle" /\ new.task = cmd[c].task
      /\ evidence[cmd[c].task].exists => e.exists
  BY <1>1, <1>4, <1>5 DEF RunPlaces, AfterRun
<1>7. /\ Types' /\ cmd'[c] = new /\ Moves(c) /\ Watched(c)'
      /\ evidence' = [evidence EXCEPT ![cmd[c].task] = e]
  <2>1. c \in Writers /\ new \in States /\ e \in Directories /\ Active(c)
    BY <1>3, <1>4, <1>5
  <2>2. cmd' = [cmd EXCEPT ![c] = new] /\ Put(c, e)
    BY <1>2
  <2>3. Types' /\ cmd'[c] = new /\ Moves(c) /\ Watched(c)'
    BY <1>6, <2>1, <2>2, Puts
  <2>4. evidence' = [evidence EXCEPT ![cmd[c].task] = e]
    BY <2>2 DEF Put
  <2> QED BY <2>3, <2>4
<1>8. evidence'[t].status = s /\ UNCHANGED <<replays, index>>
  BY <1>1, <1>2, <1>3, <1>5, <1>7 DEF Inv, Types, Put
<1> QED BY <1>1, <1>2, <1>4, <1>7, <1>8, RunGoesOn

LEMMA RunSteps ==
  ASSUME Inv, Kinds, NEW c \in Writers, RunStep(c)
  PROVE  Inv'
<1>0. c \in Commands /\ Command(c) /\ cmd[c] \in States
  BY DEF Inv, Types, Writers, Commands
<1>1. ASSUME NEW from \in {"open", "write"}, NEW to \in {"created", "start"},
             from = "open" <=> to = "created",
             NEW e \in Directories, evidence[cmd[c].task].exists => e.exists,
             e.status = evidence[cmd[c].task].status,
             Step(c, from, to), Put(c, e)
      PROVE  Inv'
  <2>1. PICK r, new : r = cmd[c] /\ new = [r EXCEPT !.at = to]
    OBVIOUS
  <2>2. cmd[c].at = from /\ cmd' = [cmd EXCEPT ![c] = new] /\ Active(c)
    BY <1>1, <2>1 DEF Step, Go, Active
  <2>3. /\ new \in States /\ new.at = to /\ new.task = r.task /\ new.source = r.source
        /\ new.inputs = r.inputs /\ new.known = r.known /\ new.final = r.final
    BY <1>0, <2>1, PlaceChanged DEF Places, RunPlaces
  <2>4. /\ Types' /\ cmd'[c] = new /\ cmd[c].task \in Task /\ Moves(c) /\ Watched(c)'
        /\ evidence' = [evidence EXCEPT ![cmd[c].task] = e]
        /\ Alone(c)' => Alone(c)
    <3>1. new.at # "idle" /\ new.task = cmd[c].task
      BY <2>1, <2>3
    <3>2. c \in Writers /\ new \in States /\ e \in Directories /\ Active(c)
      BY <1>1, <2>2, <2>3
    <3>3. cmd' = [cmd EXCEPT ![c] = new] /\ Put(c, e)
      BY <1>1, <2>2
    <3>4. evidence[cmd[c].task].exists => e.exists
      BY <1>1
    <3>5. /\ Types' /\ cmd'[c] = new /\ cmd[c].task \in Task /\ Moves(c) /\ Watched(c)'
          /\ Alone(c)' => Alone(c)
      BY <3>1, <3>2, <3>3, <3>4, Puts
    <3>6. evidence' = [evidence EXCEPT ![cmd[c].task] = e]
      BY <3>3 DEF Put
    <3> QED BY <3>5, <3>6
  <2>5. evidence'[cmd[c].task].status = evidence[cmd[c].task].status /\ UNCHANGED <<replays, index>>
    BY <1>1, <2>4 DEF Inv, Types, Put
  <2>6. to = "created" \/ (Alone(c)' => evidence'[cmd[c].task].status = cmd'[c].final)
    BY <1>0, <1>1, <2>1, <2>2, <2>3, <2>4, <2>5 DEF Command, Recalled
  <2> QED BY <1>1, <2>1, <2>2, <2>3, <2>4, <2>5, <2>6, RunGoesOn DEF RunPlaces
<1>2. ASSUME cmd[c].at \in {"open", "write"} PROVE cmd[c].task \in Task /\ evidence[cmd[c].task] \in Directories
  BY <1>0, <1>2 DEF Command, Located, Active, Inv, Types
<1>3. CASE Open(c)
  <2>1. PICK e : e = [evidence[cmd[c].task] EXCEPT !.exists = TRUE]
    OBVIOUS
  <2>2. Step(c, "open", "created") /\ Put(c, e)
    BY <1>3, <2>1 DEF Open, Own
  <2>3. e \in Directories /\ e.exists /\ e.status = evidence[cmd[c].task].status
    BY <1>2, <2>1, <2>2 DEF Step, Go, Directories
  <2> QED BY <1>1, <2>2, <2>3
<1>4. CASE WriteInputs(c)
  <2>1. PICK e, i : i = cmd[c].inputs /\ e = [evidence[cmd[c].task] EXCEPT !.inputs = i]
    OBVIOUS
  <2>2. Step(c, "write", "start") /\ Put(c, e)
    BY <1>4, <2>1 DEF WriteInputs, Own
  <2>3. i \in InputStates
    BY <1>0, <2>1 DEF States
  <2>4. /\ e \in Directories /\ e.exists = evidence[cmd[c].task].exists
        /\ e.status = evidence[cmd[c].task].status
    BY <1>2, <2>1, <2>2, <2>3 DEF Step, Go, Directories
  <2> QED BY <1>1, <2>2, <2>4
<1>5. CASE Created(c) \/ Start(c) \/ Finish(c)
  BY <1>5, StatusPut DEF Created, Start, Finish, RunPlaces, Statuses
<1>6. CASE Report(c)
  <2>1. CASE PutStatus(c, "report", "Failed", AfterRun(c))
    BY <2>1, StatusPut DEF RunPlaces, Statuses
  <2>2. CASE Step(c, "report", AfterRun(c)) /\ UNCHANGED <<evidence, replays, index, since>>
    <3>1. PICK r, new, to : r = cmd[c] /\ to = AfterRun(c) /\ new = [r EXCEPT !.at = to]
      OBVIOUS
    <3>2. cmd[c].at = "report" /\ cmd' = [cmd EXCEPT ![c] = new] /\ Active(c)
      BY <2>2, <3>1 DEF Step, Go, Active
    <3>3. to \in {"left", "over"} /\ to \in Places
      BY <3>1 DEF AfterRun, Places, RecordPlaces
    <3>4. /\ new \in States /\ new.at = to /\ new.task = r.task /\ new.source = r.source
          /\ new.inputs = r.inputs /\ new.known = r.known /\ new.final = r.final
      BY <1>0, <3>1, <3>3, PlaceChanged
    <3>5. /\ cmd' \in [Commands -> States] /\ cmd'[c] = new
          /\ Moves(c) /\ Watched(c)' /\ (Alone(c)' => Alone(c))
      <4>1. new.at # "idle" /\ new.task = cmd[c].task
        BY <3>1, <3>3, <3>4
      <4> QED BY <1>0, <2>2, <3>2, <3>4, <4>1, Quiet
    <3>6. Types'
      BY <2>2, <3>5 DEF Inv, Types
    <3>7. Alone(c)' => evidence'[cmd[c].task].status = cmd'[c].final
      BY <1>0, <2>2, <3>1, <3>2, <3>4, <3>5 DEF Command, Recalled
    <3> QED BY <2>2, <3>1, <3>2, <3>4, <3>5, <3>6, <3>7, RunGoesOn DEF RunPlaces
  <2> QED BY <1>6, <2>1, <2>2 DEF Report
<1> QED BY <1>3, <1>4, <1>5, <1>6 DEF RunStep

\* A step of a replay, before or after its run, that changes no directory.
LEMMA ReplayGoesOn ==
  ASSUME Inv, Kinds, NEW c \in Replayer, Active(c), NEW new \in States,
         cmd' = [cmd EXCEPT ![c] = new], UNCHANGED <<evidence, since>>,
         new.at \in PlanPlaces \cup RecordPlaces \cup {"open"},
         new.task = cmd[c].task, new.source = cmd[c].source, new.known = cmd[c].known,
         new.at \in {"contract", "open"} \cup RecordPlaces => new.task \notin new.known,
         new.at \in {"open"} \cup RecordPlaces => new.inputs = "contained",
         new.at \in {"left", "right"} => cmd[c].at = "left" /\ new.final = cmd[c].final,
         new.at \in {"right", "truncate record", "record"} => new.was \in since[c][new.source],
         new.at \in {"truncate record", "record"} =>
           /\ new.is \in since[c][new.task]
           /\ Alone(c) => new.is = new.final
  PROVE  /\ cmd' \in [Commands -> States] /\ cmd'[c] = new /\ Moves(c) /\ Command(c)'
<1>1. c \in Commands /\ c \in Writers /\ Command(c) /\ new.at # "idle"
      /\ c \notin Runner /\ c \notin Refresher
  BY DEF Inv, Writers, Commands, Kinds, PlanPlaces, RecordPlaces
<1>2. /\ cmd' \in [Commands -> States] /\ cmd'[c] = new
      /\ Moves(c) /\ Watched(c)' /\ (Alone(c)' => Alone(c))
  BY <1>1, Quiet
<1>3. Located(c)'
  BY <1>1, <1>2 DEF Command, Located, Active, RunPlaces
<1>4. Vetted(c)'
  BY <1>1, <1>2 DEF Command, Vetted, RunPlaces, PlanPlaces, RecordPlaces
<1>5. Recalled(c)'
  <2>1. Recalled(c) /\ new.at \notin {"write", "start", "running", "report", "over"}
    BY <1>1 DEF Command, PlanPlaces, RecordPlaces
  <2> QED BY <1>2, <2>1 DEF Recalled
<1> QED BY <1>1, <1>2, <1>3, <1>4, <1>5 DEF Command

LEMMA PlanSteps ==
  ASSUME Inv, Kinds, NEW c \in Replayer,
         Plan(c) \/ ReadInputs(c) \/ Look(c) \/ CheckContract(c)
  PROVE  Inv'
<1>0. c \in Commands /\ Command(c) /\ cmd[c] \in States /\ c \in Writers
  BY DEF Inv, Types, Writers, Commands
<1>1. PICK r : r = cmd[c]
  OBVIOUS
<1>2. ASSUME NEW new \in States, cmd' = [cmd EXCEPT ![c] = new], r.at \in PlanPlaces,
             UNCHANGED <<evidence, replays, index, since>>,
             new.at \in PlanPlaces \cup {"open"},
             new.task = r.task, new.source = r.source, new.known = r.known,
             new.at \in {"contract", "open"} => new.task \notin new.known,
             new.at = "open" => new.inputs = "contained"
      PROVE  Inv'
  <2>1. Active(c)
    BY <1>1, <1>2 DEF Active, PlanPlaces
  <2>2. new.at \notin RecordPlaces /\ new.at \in PlanPlaces \cup RecordPlaces \cup {"open"}
    BY <1>2 DEF PlanPlaces, RecordPlaces
  <2>3. /\ cmd' \in [Commands -> States] /\ Moves(c) /\ Command(c)'
    BY <1>1, <1>2, <2>1, <2>2, ReplayGoesOn DEF RecordPlaces
  <2>4. Types'
    BY <1>2, <2>3 DEF Inv, Types
  <2> QED BY <1>0, <1>2, <2>3, <2>4, Rest
<1>3. ASSUME r.at \in PlanPlaces
      PROVE  r.task \in Task /\ r.source \in Task /\ evidence[r.source].inputs \in InputStates
  BY <1>0, <1>1, <1>3 DEF Command, Located, Active, PlanPlaces, Inv, Types, Directories
<1>4. CASE Plan(c)
  <2>1. PICK i, new : i = Sourced(c).inputs /\ new = [r EXCEPT !.at = "inputs", !.planned = i]
    OBVIOUS
  <2>2. /\ r.at = "plan" /\ cmd' = [cmd EXCEPT ![c] = new]
        /\ UNCHANGED <<evidence, replays, index, since>>
    BY <1>1, <1>4, <2>1 DEF Plan, Go
  <2>3. i \in InputStates /\ "inputs" \in Places
    BY <1>1, <1>3, <2>1, <2>2 DEF Sourced, PlanPlaces, Places
  <2>4. /\ new \in States /\ new.at = "inputs" /\ new.task = r.task /\ new.source = r.source
        /\ new.known = r.known
    BY <1>0, <1>1, <2>1, <2>3 DEF States
  <2> QED BY <1>2, <2>2, <2>4 DEF PlanPlaces
<1>5. CASE ReadInputs(c)
  <2>1. PICK i, new : i = Sourced(c).inputs /\ new = [r EXCEPT !.at = "look", !.inputs = i]
    OBVIOUS
  <2>2. /\ r.at = "inputs" /\ cmd' = [cmd EXCEPT ![c] = new]
        /\ UNCHANGED <<evidence, replays, index, since>>
    BY <1>1, <1>5, <2>1 DEF ReadInputs, Go
  <2>3. i \in InputStates /\ "look" \in Places
    BY <1>1, <1>3, <2>1, <2>2 DEF Sourced, PlanPlaces, Places
  <2>4. /\ new \in States /\ new.at = "look" /\ new.task = r.task /\ new.source = r.source
        /\ new.known = r.known
    BY <1>0, <1>1, <2>1, <2>3 DEF States
  <2> QED BY <1>2, <2>2, <2>4 DEF PlanPlaces
<1>6. CASE Look(c)
  <2>1. PICK new : new = [r EXCEPT !.at = "contract"]
    OBVIOUS
  <2>2. /\ r.at = "look" /\ cmd' = [cmd EXCEPT ![c] = new] /\ ~evidence[r.task].exists
        /\ UNCHANGED <<evidence, replays, index, since>>
    BY <1>1, <1>6, <2>1 DEF Look, Step, Go, Own
  <2>3. /\ new \in States /\ new.at = "contract" /\ new.task = r.task /\ new.source = r.source
        /\ new.known = r.known
    BY <1>0, <1>1, <2>1, PlaceChanged DEF Places, PlanPlaces
  <2>4. r.task \notin r.known
    BY <1>0, <1>1, <2>2 DEF Command, Vetted
  <2> QED BY <1>2, <2>2, <2>3, <2>4 DEF PlanPlaces
<1>7. CASE CheckContract(c)
  <2>1. PICK new : new = [r EXCEPT !.at = "open"]
    OBVIOUS
  <2>2. /\ r.at = "contract" /\ cmd' = [cmd EXCEPT ![c] = new] /\ r.inputs = "contained"
        /\ UNCHANGED <<evidence, replays, index, since>>
    BY <1>1, <1>7, <2>1 DEF CheckContract, Step, Go
  <2>3. /\ new \in States /\ new.at = "open" /\ new.task = r.task /\ new.source = r.source
        /\ new.known = r.known /\ new.inputs = r.inputs
    BY <1>0, <1>1, <2>1, PlaceChanged DEF Places, RunPlaces
  <2>4. r.task \notin r.known
    BY <1>0, <1>1, <2>2 DEF Command, Vetted
  <2> QED BY <1>2, <2>2, <2>3, <2>4 DEF PlanPlaces
<1> QED BY <1>4, <1>5, <1>6, <1>7

LEMMA CompareSteps ==
  ASSUME Inv, Kinds, NEW c \in Replayer, ReadLeft(c) \/ ReadRight(c)
  PROVE  Inv'
<1>0. /\ c \in Commands /\ Command(c) /\ cmd[c] \in States
      /\ cmd[c].at \in {"left", "right"} /\ Active(c)
  BY DEF Inv, Types, Writers, Commands, ReadLeft, ReadRight, Go, Active
<1>1. PICK r : r = cmd[c]
  OBVIOUS
<1>2. /\ r.task \in Task /\ r.source \in Task
      /\ evidence[r.task].status \in Statuses /\ evidence[r.source].status \in Statuses
      /\ evidence[r.task].status \in since[c][r.task]
      /\ evidence[r.source].status \in since[c][r.source]
  BY <1>0, <1>1 DEF Command, Located, Watched, Writers, Inv, Types, Directories
<1>3. r.task \notin r.known /\ r.inputs = "contained" /\ Recalled(c)
  BY <1>0, <1>1 DEF Command, Vetted, RecordPlaces, Writers
<1>4. ASSUME NEW new \in States, cmd' = [cmd EXCEPT ![c] = new],
             UNCHANGED <<evidence, replays, index, since>>,
             \/ r.at = "left" /\ new.at = "right" /\ new.final = r.final
             \/ new.at = "truncate record" /\ new.is \in since[c][r.task]
                  /\ (Alone(c) => new.is = new.final),
             new.task = r.task, new.source = r.source, new.known = r.known, new.inputs = r.inputs,
             new.was \in since[c][r.source]
      PROVE  Inv'
  <2>1. /\ cmd' \in [Commands -> States] /\ Moves(c) /\ Command(c)'
    BY <1>0, <1>1, <1>3, <1>4, ReplayGoesOn DEF RecordPlaces
  <2>2. Types'
    BY <1>4, <2>1 DEF Inv, Types
  <2> QED BY <1>0, <1>4, <2>1, <2>2, Rest
<1>5. "right" \in Places /\ "truncate record" \in Places
  BY DEF Places, RecordPlaces
<1>6. CASE ReadLeft(c)
  <2>1. PICK s, new : s = Sourced(c).status /\ new = [r EXCEPT !.at = "right", !.was = s]
    OBVIOUS
  <2>2. /\ r.at = "left" /\ cmd' = [cmd EXCEPT ![c] = new]
        /\ UNCHANGED <<evidence, replays, index, since>>
    BY <1>1, <1>6, <2>1 DEF ReadLeft, Go
  <2>3. s \in Statuses /\ s \in since[c][r.source]
    BY <1>1, <1>2, <2>1 DEF Sourced
  <2>4. /\ new \in States /\ new.at = "right" /\ new.task = r.task /\ new.source = r.source
        /\ new.known = r.known /\ new.inputs = r.inputs /\ new.was = s /\ new.final = r.final
    BY <1>0, <1>1, <1>5, <2>1, <2>3 DEF States
  <2> QED BY <1>4, <2>2, <2>3, <2>4
<1>7. CASE ReadRight(c)
  <2>1. PICK s, new : s = Own(c).status /\ new = [r EXCEPT !.at = "truncate record", !.is = s]
    OBVIOUS
  <2>2. /\ r.at = "right" /\ cmd' = [cmd EXCEPT ![c] = new]
        /\ UNCHANGED <<evidence, replays, index, since>>
    BY <1>1, <1>7, <2>1 DEF ReadRight, Go
  <2>3. s \in Statuses /\ s \in since[c][r.task] /\ (Alone(c) => s = r.final)
        /\ r.was \in since[c][r.source]
    BY <1>1, <1>2, <1>3, <2>1, <2>2 DEF Own, Recalled
  <2>4. /\ new \in States /\ new.at = "truncate record" /\ new.task = r.task
        /\ new.source = r.source /\ new.known = r.known /\ new.inputs = r.inputs
        /\ new.was = r.was /\ new.is = s /\ new.final = r.final
    BY <1>0, <1>1, <1>5, <2>1, <2>3 DEF States
  <2> QED BY <1>4, <2>2, <2>3, <2>4
<1> QED BY <1>6, <1>7

LEMMA RecordSteps ==
  ASSUME Inv, Kinds, NEW c \in Replayer, TruncateRecord(c) \/ WriteRecord(c)
  PROVE  Inv'
<1>0. /\ c \in Commands /\ c \in Writers /\ Command(c) /\ cmd[c] \in States
      /\ cmd[c].at \in {"truncate record", "record"} /\ Active(c)
  BY DEF Inv, Types, Writers, Commands, TruncateRecord, WriteRecord, Step, End, Go, Active
<1>1. PICK r, t : r = cmd[c] /\ t = cmd[c].task
  OBVIOUS
<1>2. /\ t \in Task /\ r.source \in Task /\ r.was \in Statuses /\ r.is \in Statuses
      /\ t \notin r.known /\ r.inputs = "contained"
      /\ r.was \in since[c][r.source] /\ r.is \in since[c][t] /\ (Alone(c) => r.is = r.final)
  BY <1>0, <1>1 DEF Command, Located, Vetted, Recalled, States, RecordPlaces
<1>3. ASSUME Moves(c), Command(c)', cmd' \in [Commands -> States],
             UNCHANGED <<evidence, index, since>>, NEW f \in {Absent, Torn} \cup Records,
             replays' = [replays EXCEPT ![t] = f],
             Whole(f) => RecordHolds(t)'
      PROVE  Inv'
  <2>1. Types' /\ replays'[t] = f
    BY <1>2, <1>3 DEF Inv, Types
  <2>2. ASSUME NEW u \in Task PROVE RecordHolds(u)'
    <3>1. CASE u = t
      BY <1>3, <2>1, <3>1 DEF RecordHolds, Whole
    <3>2. CASE u # t
      BY <1>0, <1>3, <2>1, <3>2, RecordsKept DEF Inv, Types
    <3> QED BY <3>1, <3>2
  <2>3. IndexHolds'
    BY <1>3 DEF Inv, IndexHolds, Whole
  <2> QED BY <1>0, <1>3, <2>1, <2>2, <2>3, OthersKeep DEF Inv
<1>4. CASE TruncateRecord(c)
  <2>1. PICK new : new = [r EXCEPT !.at = "record"]
    OBVIOUS
  <2>2. /\ r.at = "truncate record" /\ cmd' = [cmd EXCEPT ![c] = new]
        /\ replays' = [replays EXCEPT ![t] = Torn] /\ UNCHANGED <<evidence, index, since>>
    BY <1>1, <1>4, <2>1 DEF TruncateRecord, Step, Go
  <2>3. /\ new \in States /\ new.at = "record" /\ new.task = r.task /\ new.source = r.source
        /\ new.known = r.known /\ new.inputs = r.inputs
        /\ new.was = r.was /\ new.is = r.is /\ new.final = r.final
    <3>1. "record" \in Places
      BY DEF Places, RecordPlaces
    <3> QED BY <1>0, <1>1, <2>1, <3>1 DEF States
  <2>4. cmd' \in [Commands -> States] /\ Moves(c) /\ Command(c)'
    BY <1>0, <1>1, <1>2, <2>2, <2>3, ReplayGoesOn DEF RecordPlaces
  <2>5. ~Whole(Torn)
    BY DEF Whole, Torn
  <2> QED BY <1>3, <2>2, <2>4, <2>5
<1>5. CASE WriteRecord(c)
  <2>1. PICK f, whole : /\ whole = [state |-> "whole", by |-> c, source |-> r.source,
                                    was |-> r.was, is |-> r.is]
                        /\ f \in {whole, Torn} /\ replays' = [replays EXCEPT ![t] = f]
    BY <1>1, <1>5 DEF WriteRecord, Written
  <2>2. End(c, cmd[c].at) /\ UNCHANGED <<evidence, index, since>>
    BY <1>5 DEF WriteRecord, End, Go
  <2>3. /\ cmd' \in [Commands -> States] /\ Moves(c) /\ Command(c)'
        /\ cmd'[c].at = "ended" /\ cmd'[c].task = t /\ cmd'[c].final = r.final
        /\ Alone(c)' => Alone(c)
    BY <1>0, <1>1, <2>2, Endings
  <2>4. whole \in Records
    BY <1>2, <2>1 DEF Records
  <2>5. Whole(f) => f = whole
    BY <2>1 DEF Whole, Torn
  <2>6. Whole(f) => RecordHolds(t)'
    <3>1. replays'[t] = f
      BY <1>2, <2>1 DEF Inv, Types
    <3>2. SUFFICES ASSUME f = whole PROVE RecordHolds(t)'
      BY <2>5
    <3>3. replays'[t].by = c /\ replays'[t].source = r.source /\ replays'[t].was = r.was /\ replays'[t].is = r.is
      BY <2>1, <3>1, <3>2
    <3>4. r.was \in since'[c][r.source] /\ r.is \in since'[c][t]
      BY <1>1, <1>2, <2>2
    <3>5. Alone(c)' => r.is = cmd'[c].final
      BY <1>1, <1>2, <2>2, <2>3
    <3> QED BY <2>3, <3>3, <3>4, <3>5 DEF RecordHolds
  <2> QED BY <1>3, <2>1, <2>2, <2>3, <2>4, <2>6
<1> QED BY <1>4, <1>5

\* A step of a refresh within the command.
LEMMA RefreshGoesOn ==
  ASSUME Inv, Kinds, NEW c \in Refresher, Active(c), NEW new \in States,
         cmd' = [cmd EXCEPT ![c] = new], UNCHANGED <<evidence, replays, since>>,
         new.at \in {"summarise", "index"}, new.task = cmd[c].task, new.known = cmd[c].known,
         new.seen \in Listing,
         \A t \in Task : new.seen[t] # "unlisted" => new.seen[t] \in since[c][t],
         index' \in {index, Torn}
  PROVE  Inv'
<1>1. c \in Commands /\ c \notin Writers /\ Command(c) /\ new.at # "idle"
  BY DEF Inv, Writers, Commands, Kinds
<1>2. /\ cmd' \in [Commands -> States] /\ cmd'[c] = new
      /\ Moves(c) /\ Watched(c)' /\ (Alone(c)' => Alone(c))
  BY <1>1, Quiet
<1>3. Command(c)'
  BY <1>1, <1>2 DEF Command, Located, Vetted, Listed, Active, Kinds, RefreshPlaces, Writers
<1>4. Types'
  BY <1>2 DEF Inv, Types
<1>5. \A t \in Task : RecordHolds(t)'
  BY <1>1, <1>2, <1>4, RecordsKept
<1>6. IndexHolds'
  BY DEF Inv, IndexHolds, Whole, Torn
<1> QED BY <1>1, <1>2, <1>3, <1>4, <1>5, <1>6, OthersKeep DEF Inv

LEMMA ListSteps ==
  ASSUME Inv, Kinds, NEW c \in Refresher, List(c) \/ Summarise(c) \/ TruncateIndex(c)
  PROVE  Inv'
<1>0. /\ c \in Commands /\ Command(c) /\ cmd[c] \in States
      /\ cmd[c].at \in {"list", "summarise"} /\ Active(c)
  BY DEF Inv, Types, Commands, List, Summarise, TruncateIndex, Step, Go, Active
<1>1. PICK r : r = cmd[c]
  OBVIOUS
<1>2. "summarise" \in Places /\ "index" \in Places
  BY DEF Places, RefreshPlaces
<1>3. CASE List(c)
  <2>1. PICK k, l, new : /\ k = Known /\ l = [t \in Task |-> "unlisted"]
                         /\ new = [r EXCEPT !.at = "summarise", !.todo = k, !.seen = l]
    OBVIOUS
  <2>2. cmd' = [cmd EXCEPT ![c] = new] /\ UNCHANGED <<evidence, replays, index, since>>
    BY <1>1, <1>3, <2>1 DEF List, Go
  <2>3. k \in SUBSET Task /\ l \in Listing
    BY <2>1 DEF Known, Listing
  <2>4. /\ new \in States /\ new.at = "summarise" /\ new.task = r.task /\ new.known = r.known
        /\ new.seen = l
    BY <1>0, <1>1, <1>2, <2>1, <2>3 DEF States
  <2>5. \A t \in Task : new.seen[t] = "unlisted"
    BY <2>1, <2>4
  <2>6. /\ c \in Refresher /\ Active(c) /\ new \in States /\ new.at \in {"summarise", "index"}
        /\ new.task = cmd[c].task /\ new.known = cmd[c].known /\ new.seen \in Listing
        /\ index' \in {index, Torn}
    BY <1>0, <1>1, <2>2, <2>3, <2>4
  <2> QED BY <2>2, <2>5, <2>6, RefreshGoesOn
<1>4. ASSUME cmd[c].at = "summarise"
      PROVE  r.seen \in Listing /\ \A t \in Task : r.seen[t] # "unlisted" => r.seen[t] \in since[c][t]
  BY <1>0, <1>1, <1>4 DEF Command, Listed
<1>5. CASE Summarise(c)
  <2>1. PICK t, s : /\ t \in r.todo /\ s \in {"unlisted", evidence[t].status}
                    /\ Go(c, "summarise",
                          [r EXCEPT !.todo = r.todo \ {t}, !.seen[t] = s])
    BY <1>1, <1>5, Zenon DEF Summarise
  <2>2. PICK k, l, new : /\ k = r.todo \ {t} /\ l = [r.seen EXCEPT ![t] = s]
                         /\ new = [r EXCEPT !.todo = k, !.seen = l]
    OBVIOUS
  <2>3. cmd[c].at = "summarise" /\ cmd' = [cmd EXCEPT ![c] = new]
        /\ UNCHANGED <<evidence, replays, index, since>>
    <3>1. new = [r EXCEPT !.todo = r.todo \ {t}, !.seen[t] = s]
      BY <2>2
    <3>2. Go(c, "summarise", new) /\ UNCHANGED <<evidence, replays, index, since>>
      BY <1>5, <2>1, <3>1 DEF Summarise
    <3> QED BY <3>2 DEF Go
  <2>4. /\ t \in Task /\ k \in SUBSET Task
        /\ evidence[t].status \in Statuses /\ evidence[t].status \in since[c][t]
    BY <1>0, <1>1, <2>1, <2>2 DEF States, Inv, Types, Directories, Command, Watched
  <2>5. /\ l \in Listing
        /\ \A u \in Task : l[u] # "unlisted" => l[u] \in since[c][u]
    BY <1>4, <2>1, <2>2, <2>3, <2>4 DEF Listing
  <2>6. /\ new \in States /\ new.at = "summarise" /\ new.task = r.task /\ new.known = r.known
        /\ new.seen = l
    BY <1>0, <1>1, <2>2, <2>3, <2>4, <2>5 DEF States
  <2>7. /\ c \in Refresher /\ Active(c) /\ new \in States /\ new.at \in {"summarise", "index"}
        /\ new.task = cmd[c].task /\ new.known = cmd[c].known /\ new.seen \in Listing
        /\ index' \in {index, Torn}
    BY <1>0, <1>1, <2>3, <2>5, <2>6
  <2>8. \A u \in Task : new.seen[u] # "unlisted" => new.seen[u] \in since[c][u]
    BY <2>5, <2>6
  <2> QED BY <2>3, <2>7, <2>8, RefreshGoesOn
<1>6. CASE TruncateIndex(c)
  <2>1. PICK new : new = [r EXCEPT !.at = "index"]
    OBVIOUS
  <2>2. /\ cmd[c].at = "summarise" /\ cmd' = [cmd EXCEPT ![c] = new] /\ index' = Torn
        /\ UNCHANGED <<evidence, replays, since>>
    BY <1>1, <1>6, <2>1 DEF TruncateIndex, Step, Go
  <2>3. /\ new \in States /\ new.at = "index" /\ new.task = r.task /\ new.known = r.known
        /\ new.seen = r.seen
    BY <1>0, <1>1, <1>2, <2>1 DEF States
  <2> QED BY <1>0, <1>1, <1>4, <2>2, <2>3, RefreshGoesOn
<1> QED BY <1>3, <1>5, <1>6

LEMMA WriteIndexStep ==
  ASSUME Inv, Kinds, NEW c \in Refresher, WriteIndex(c)
  PROVE  Inv'
<1>1. /\ cmd[c].at = "index" /\ cmd' = [cmd EXCEPT ![c] = Idle]
      /\ since' = [since EXCEPT ![c] = [t \in Task |-> {}]]
      /\ UNCHANGED <<evidence, replays>>
  BY DEF WriteIndex, Go
<1>2. c \in Commands /\ c \notin Writers /\ Command(c)
  BY DEF Inv, Writers, Commands, Kinds
<1>3. PICK new : /\ new = [state |-> "whole", seen |-> cmd[c].seen, could |-> since[c]]
                 /\ index' \in {new, Torn}
  BY DEF WriteIndex, Written
<1>4. /\ cmd[c].seen \in Listing /\ since[c] \in [Task -> SUBSET Statuses]
      /\ \A t \in Task : cmd[c].seen[t] # "unlisted" => cmd[c].seen[t] \in since[c][t]
  BY <1>1, <1>2 DEF Command, Listed, Inv, Types
<1>5. index' \in {Absent, Torn} \cup Indexes
  BY <1>3, <1>4 DEF Indexes
<1>6. Types'
  BY <1>1, <1>2, <1>5, IdleState DEF Inv, Types
<1>7. cmd'[c] = Idle /\ cmd'[c].at = "idle" /\ cmd'[c].known = {}
  BY <1>1, <1>2, IdleState DEF Inv, Types
<1>8. Moves(c)
  BY <1>1, <1>2 DEF Moves, Inv, Types
<1>9. Command(c)'
  BY <1>2, <1>7 DEF Command, Located, Vetted, Watched, Listed, Active, Writers
<1>10. \A t \in Task : RecordHolds(t)'
  BY <1>1, <1>2, <1>6, <1>8, RecordsKept
<1>11. IndexHolds'
  BY <1>3, <1>4 DEF IndexHolds, Whole, Torn
<1> QED BY <1>2, <1>6, <1>8, <1>9, <1>10, <1>11, OthersKeep DEF Inv

-----------------------------------------------------------------------------
(* The theorems.                                                            *)

LEMMA InvInit == Kinds /\ Init => Inv
<1> SUFFICES ASSUME Kinds, Init PROVE Inv
  OBVIOUS
<1>1. NoEvidence \in Directories
  BY DEF NoEvidence, Directories, InputStates, Statuses
<1>2. [exists : {TRUE}, inputs : Inputs, status : {"Created", "Failed"}] \subseteq Directories
  BY DEF Directories, InputStates, Statuses
<1>3. evidence \in [Task -> Directories]
  BY <1>1, <1>2 DEF Init
<1>4. /\ replays = [t \in Task |-> Absent] /\ index = Absent
      /\ cmd = [c \in Commands |-> Idle] /\ since = [c \in Commands |-> [t \in Task |-> {}]]
  BY DEF Init
<1>5. Types
  BY <1>3, <1>4, IdleState DEF Types
<1>6. ~Whole(Absent)
  BY DEF Whole, Absent
<1>7. \A c \in Commands : cmd[c].at = "idle" /\ cmd[c].known = {}
  BY <1>4, IdleState
<1>8. \A c \in Commands : Command(c)
  BY <1>7 DEF Command, Located, Vetted, Watched, Recalled, Listed, Active, RunPlaces, RecordPlaces
<1> QED BY <1>4, <1>5, <1>6, <1>8 DEF Inv, RecordHolds, IndexHolds

LEMMA InvStep ==
  ASSUME Kinds, Inv, [Next]_vars
  PROVE  Inv'
<1>1. ASSUME NEW c \in Runner, BeginRun(c) \/ RunStep(c) \/ Stop(c) PROVE Inv'
  BY <1>1, BeginSteps, RunSteps, StopStep DEF Commands, Writers
<1>2. ASSUME NEW c \in Replayer,
             \/ BeginReplay(c) \/ Plan(c) \/ ReadInputs(c) \/ Look(c) \/ CheckContract(c)
             \/ RunStep(c) \/ ReadLeft(c) \/ ReadRight(c) \/ TruncateRecord(c)
             \/ WriteRecord(c) \/ Stop(c)
      PROVE  Inv'
  BY <1>2, BeginSteps, PlanSteps, RunSteps, CompareSteps, RecordSteps, StopStep
     DEF Commands, Writers
<1>3. ASSUME NEW c \in Refresher,
             \/ BeginRefresh(c) \/ List(c) \/ Summarise(c) \/ TruncateIndex(c)
             \/ WriteIndex(c) \/ Stop(c)
      PROVE  Inv'
  BY <1>3, BeginSteps, ListSteps, WriteIndexStep, StopStep DEF Commands
<1>4. CASE UNCHANGED vars
  <2>1. UNCHANGED <<evidence, replays, index, cmd, since>>
    BY <1>4 DEF vars
  <2>2. Types'
    BY <2>1 DEF Inv, Types
  <2>3. ASSUME NEW c \in Commands PROVE Command(c)'
    <3>1. Command(c)
      BY DEF Inv
    <3>2. Located(c)' /\ Vetted(c)' /\ Watched(c)'
      BY <2>1, <3>1 DEF Command, Located, Vetted, Watched, Active
    <3>3. (c \in Writers => Recalled(c)') /\ (c \in Refresher => Listed(c)')
      BY <2>1, <3>1 DEF Command, Recalled, Listed, Alone
    <3> QED BY <3>2, <3>3 DEF Command
  <2>4. ASSUME NEW t \in Task PROVE RecordHolds(t)'
    <3>1. RecordHolds(t)
      BY DEF Inv
    <3> QED BY <2>1, <3>1 DEF RecordHolds, Whole, Alone
  <2>5. IndexHolds'
    BY <2>1 DEF Inv, IndexHolds, Whole
  <2> QED BY <2>2, <2>3, <2>4, <2>5 DEF Inv
<1> QED BY <1>1, <1>2, <1>3, <1>4 DEF Next, Running, Replaying, Indexing

\* The index and the replay records say nothing untrue, however runs, replays and
\* refreshes overlap, overwrite each other's files and are killed.
THEOREM DerivedFilesAreTrue == ASSUME Kinds PROVE Spec => []DerivedFilesHold
<1>1. Init => Inv
  BY InvInit
<1>2. Inv /\ [Next]_vars => Inv'
  BY InvStep
<1>3. Inv => DerivedFilesHold
  <2> SUFFICES ASSUME Inv PROVE DerivedFilesHold
    OBVIOUS
  <2>1. Whole(index) => \A t \in Task : index.seen[t] # "unlisted" => index.seen[t] \in index.could[t]
    BY DEF Inv, IndexHolds
  <2>2. ASSUME NEW t \in Task, Whole(replays[t]) PROVE RecordHolds(t) /\ cmd[replays[t].by].task = t
    BY <2>2 DEF Inv, RecordHolds
  <2> QED BY <2>1, <2>2 DEF DerivedFilesHold, RecordHolds, Alone, Writers
<1> QED BY <1>1, <1>2, <1>3, PTL DEF Spec

LEMMA ReplayWrites ==
  ASSUME Kinds, Inv, Next, NEW c \in Replayer, NEW t \in Task, cmd'[c] # cmd[c],
         evidence'[t] # evidence[t] \/ replays'[t] # replays[t]
  PROVE  t \notin cmd[c].known /\ cmd[c].inputs = "contained"
<1>0. c \in Commands /\ Command(c)
  BY DEF Inv, Commands
<1>1. ASSUME NEW d \in Commands, d # c, cmd' = [cmd EXCEPT ![d] = cmd'[d]] PROVE FALSE
  BY <1>0, <1>1 DEF Inv, Types
<1>2. ASSUME NEW d \in Commands,
             \/ BeginRun(d) \/ BeginReplay(d) \/ BeginRefresh(d) \/ RunStep(d) \/ Stop(d)
             \/ Plan(d) \/ ReadInputs(d) \/ Look(d) \/ CheckContract(d) \/ ReadLeft(d)
             \/ ReadRight(d) \/ TruncateRecord(d) \/ WriteRecord(d) \/ List(d) \/ Summarise(d)
             \/ TruncateIndex(d) \/ WriteIndex(d)
      PROVE  d = c
  <2>1. \E new : cmd' = [cmd EXCEPT ![d] = new]
    BY <1>2 DEF BeginRun, BeginReplay, BeginRefresh, Begin, RunStep, Open, Created, WriteInputs,
                Start, Finish, Report, PutStatus, Step, Go, Stop, End, Plan, ReadInputs, Look,
                CheckContract, ReadLeft, ReadRight, TruncateRecord, WriteRecord, List, Summarise,
                TruncateIndex, WriteIndex
  <2> QED BY <1>0, <2>1 DEF Inv, Types
<1>3. \/ RunStep(c) \/ TruncateRecord(c) \/ WriteRecord(c)
  <2>1. \/ c \in Runner /\ (BeginRun(c) \/ RunStep(c) \/ Stop(c))
        \/ /\ c \in Replayer
           /\ \/ BeginReplay(c) \/ Plan(c) \/ ReadInputs(c) \/ Look(c) \/ CheckContract(c)
              \/ RunStep(c) \/ ReadLeft(c) \/ ReadRight(c) \/ TruncateRecord(c)
              \/ WriteRecord(c) \/ Stop(c)
    BY <1>2 DEF Next, Running, Replaying, Indexing, Commands, Kinds
  <2>2. c \notin Runner
    BY DEF Kinds
  <2>3. CASE BeginReplay(c)
    BY <2>3 DEF BeginReplay, Begin
  <2>4. CASE Plan(c) \/ ReadInputs(c) \/ Look(c) \/ CheckContract(c) \/ ReadLeft(c)
             \/ ReadRight(c) \/ Stop(c)
    BY <2>4 DEF Plan, ReadInputs, Look, CheckContract, ReadLeft, ReadRight, Stop
  <2> QED BY <2>1, <2>2, <2>3, <2>4
<1>4. cmd[c].at \in RunPlaces \cup RecordPlaces
  BY <1>3 DEF RunStep, Open, Created, WriteInputs, Start, Finish, Report, PutStatus, Step, Go,
              TruncateRecord, WriteRecord, End, RunPlaces, RecordPlaces
<1>5. t = cmd[c].task
  <2>1. cmd[c].task \in Task
    BY <1>0, <1>4 DEF Command, Located, Active, RunPlaces, RecordPlaces, Writers
  <2>2. CASE RunStep(c)
    <3>1. PICK e : Put(c, e) \/ UNCHANGED <<evidence, replays>>
      BY <2>2 DEF RunStep, Open, Created, WriteInputs, Start, Finish, Report, PutStatus
    <3> QED BY <2>1, <3>1 DEF Put, Inv, Types
  <2>3. CASE TruncateRecord(c) \/ WriteRecord(c)
    BY <2>1, <2>3 DEF TruncateRecord, WriteRecord, Inv, Types
  <2> QED BY <1>3, <2>2, <2>3
<1> QED BY <1>0, <1>4, <1>5 DEF Command, Vetted

\* A replay changes no directory that was there when it began, and runs an agent
\* only with inputs it has vetted, whatever is rewritten between its reads.
THEOREM ReplaysFailClosed == ASSUME Kinds PROVE Spec => ReplayFailsClosed
<1>1. Init => Inv
  BY InvInit
<1>2. Inv /\ [Next]_vars => Inv' /\ [FailsClosed]_vars
  BY InvStep, ReplayWrites DEF FailsClosed
<1> QED BY <1>1, <1>2, PTL DEF Spec, ReplayFailsClosed

===============================================================================
