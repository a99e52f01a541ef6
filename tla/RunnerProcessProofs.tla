------------------------ MODULE RunnerProcessProofs ------------------------
(***************************************************************************)
(* Proofs about run_command_with_timeout for any number of runs, Docker or *)
(* remote, with any container names, shared or not, and about a task that  *)
(* is run over it any number of times.                                     *)
(***************************************************************************)
EXTENDS SandboxedRun, TLAPS

Place == {"idle", "poll", "deadline", "kill", "remove", "wait", "join", "done", "stopped"}

Types ==
  /\ pc \in [Run -> Place]
  /\ client \in [Run -> {"none", "alive", "ok", "failed", "killed"}]
  /\ request \in [Run -> {"none", "create", "created", "start", "attached"}]
  /\ containers \subseteq [of : Run, running : BOOLEAN]
  /\ agent \in [Run -> {"none", "ok", "failed", "cut"}]
  /\ expired \in [Run -> BOOLEAN] /\ timedOut \in [Run -> BOOLEAN]
  /\ removed \in [Run -> BOOLEAN]
  /\ result \in [Run -> {"none", "error", "timeout", "signal", "ok", "failed"}]

\* The container of a run as it is created, and as it runs.
Made(r) == [of |-> r, running |-> FALSE]
Live(r) == [of |-> r, running |-> TRUE]

\* A run has one container in its life: it is made and started once, and the
\* agent ends with it, once.
OneLifeFor(r) ==
  /\ pc[r] = "idle" => client[r] = "none"
  /\ client[r] = "none" => request[r] = "none"
  /\ Made(r) \in containers => request[r] \in {"created", "start"}
  /\ Live(r) \in containers => request[r] = "attached" /\ agent[r] = "none"
  /\ agent[r] # "none" => request[r] = "attached"

OneLife == \A r \in Run : OneLifeFor(r)

\* What is reported is what was seen.
Truthful ==
  \A r \in Run :
    /\ client[r] = "ok" => agent[r] = "ok"
    /\ timedOut[r] => expired[r]
    /\ result[r] = "ok" => agent[r] = "ok"
    /\ result[r] = "timeout" => expired[r]

\* The results that tell how the client ended.
Seen == {"timeout", "signal", "ok", "failed"}

\* A container that was removed does not come back running: the client is dead,
\* as it is once its exit is awaited, and what it asked for finds no container.
OverFor(r) ==
  /\ pc[r] = "idle" => ~removed[r] /\ result[r] \notin Seen
  /\ pc[r] \in {"remove", "join"} \/ removed[r] => client[r] # "alive"
  /\ result[r] \in Seen => client[r] # "alive"
  /\ removed[r] =>
       /\ Live(r) \notin containers
       /\ request[r] = "start" => Made(r) \notin containers

Over == \A r \in Run : OverFor(r)

Inv == Types /\ OneLife /\ Truthful /\ Over

LEMMA ContainersDiffer ==
  ASSUME NEW r, NEW o
  PROVE  /\ Made(r) = Made(o) <=> r = o
         /\ Live(r) = Live(o) <=> r = o
         /\ Made(r) # Live(o)
         /\ Made(r).of = r /\ Live(r).of = r
BY DEF Made, Live

\* What a removal by name leaves.
LEMMA RemovalLeaves ==
  ASSUME Types, NEW r \in Run, RemoveByName(r)
  PROVE  /\ containers' \subseteq containers
         /\ Live(r) \notin containers' /\ Made(r) \notin containers'
         /\ agent' \in [Run -> {"none", "ok", "failed", "cut"}]
         /\ client' \in [Run -> {"none", "alive", "ok", "failed", "killed"}]
         /\ \A o \in Run :
              \/ agent'[o] = agent[o] /\ client'[o] = client[o]
              \/ /\ Live(o) \in containers /\ Live(o) \notin containers'
                 /\ agent'[o] = "cut"
                 /\ client'[o] = client[o] \/ (client'[o] = "failed" /\ client[o] = "alive")
<1> DEFINE gone == {c \in containers : Name[c.of] = Name[r]}
           cut == {c.of : c \in {g \in gone : g.running}}
<1>1. /\ containers' = containers \ gone
      /\ agent' = [o \in Run |-> IF o \in cut THEN "cut" ELSE agent[o]]
      /\ client' = [o \in Run |-> IF o \in cut /\ client[o] = "alive" THEN "failed" ELSE client[o]]
  BY DEF RemoveByName
<1>2. \A o \in cut : Live(o) \in gone
  <2> SUFFICES ASSUME NEW c \in gone, c.running PROVE Live(c.of) \in gone
    OBVIOUS
  <2>1. c \in [of : Run, running : BOOLEAN]
    BY DEF Types
  <2>2. c = Live(c.of)
    BY <2>1 DEF Made, Live
  <2> QED BY <2>2
<1>3. \A c \in {Made(r), Live(r)} : c \in containers => c \in gone
  BY ContainersDiffer
<1>4. gone \subseteq containers
  OBVIOUS
<1> HIDE DEF gone, cut
<1> QED BY <1>1, <1>2, <1>3, <1>4 DEF Types

LEMMA Initially == Init => Inv
BY DEF Init, Inv, Types, Place, OneLife, OneLifeFor, Truthful, Over, OverFor, Seen

-----------------------------------------------------------------------------
(* The daemon and the clients.                                              *)

LEMMA ServeCreateInv ==
  ASSUME Inv, NEW r \in Run, ServeCreate(r)
  PROVE  Inv'
<1> DEFINE new == [of |-> r, running |-> FALSE]
<1>1. new = Made(r)
  BY DEF Made, Live
<1>2. /\ request[r] = "create"
      /\ UNCHANGED <<pc, agent, expired, timedOut, result, removed>>
      /\ \/ /\ containers' = containers \cup {Made(r)}
            /\ request' = [request EXCEPT ![r] = "created"] /\ UNCHANGED client
         \/ /\ client' = ClientEnds(r, "failed")
            /\ request' = [request EXCEPT ![r] = "none"] /\ UNCHANGED containers
  BY <1>1 DEF ServeCreate
<1>3. client' = ClientEnds(r, "failed") =>
        /\ client' \in [Run -> {"none", "alive", "ok", "failed", "killed"}]
        /\ \A o \in Run : \/ client'[o] = client[o]
                          \/ o = r /\ client'[o] = "failed" /\ client[o] = "alive"
  BY DEF ClientEnds, Inv, Types
<1>4. Made(r) \in [of : Run, running : BOOLEAN]
  BY DEF Made, Live
<1>5. containers' \subseteq [of : Run, running : BOOLEAN]
  BY <1>2, <1>4 DEF Inv, Types
<1>6. Types'
  BY <1>2, <1>3, <1>5 DEF Inv, Types
<1>7. Truthful'
  BY <1>2, <1>3 DEF Inv, Types, Truthful
<1>8. ASSUME NEW o \in Run PROVE OneLifeFor(o)' /\ OverFor(o)'
  <2>1. OneLifeFor(o) /\ OverFor(o)
    BY DEF Inv, OneLife, Over
  <2>2. CASE o # r
    <3>1. \A c \in {Made(o), Live(o)} : c \in containers' <=> c \in containers
      BY <1>2, <2>2, ContainersDiffer
    <3>2. request'[o] = request[o] /\ client'[o] = client[o]
      BY <1>2, <1>3, <2>2 DEF Inv, Types
    <3> QED BY <1>2, <2>1, <3>1, <3>2 DEF OneLifeFor, OverFor
  <2>3. CASE o = r
    <3>1. Live(o) \in containers' <=> Live(o) \in containers
      BY <1>2, ContainersDiffer
    <3>2. /\ request'[o] \in {"created", "none"} /\ pc[o] # "idle"
          /\ client'[o] = "alive" => client[o] = "alive"
          /\ client'[o] # "none"
          /\ Made(o) \in containers' => request'[o] = "created"
      BY <1>2, <1>3, <2>1, <2>3 DEF Inv, Types, OneLifeFor
    <3>3. agent[o] = "none" /\ Live(o) \notin containers
      BY <1>2, <2>1, <2>3 DEF OneLifeFor
    <3> QED BY <1>2, <2>1, <3>1, <3>2, <3>3 DEF OneLifeFor, OverFor
  <2> QED BY <2>2, <2>3
<1> QED BY <1>6, <1>7, <1>8 DEF Inv, OneLife, Over

LEMMA AskStartInv ==
  ASSUME Inv, NEW r \in Run, AskStart(r)
  PROVE  Inv'
<1> USE DEF AskStart
<1>1. Types'
  BY DEF Inv, Types
<1>2. OneLife'
  BY DEF Inv, Types, OneLife, OneLifeFor
<1>3. Truthful'
  BY DEF Inv, Types, Truthful
<1>4. Over'
  BY DEF Inv, Types, Over, OverFor
<1> QED BY <1>1, <1>2, <1>3, <1>4 DEF Inv

LEMMA ServeStartInv ==
  ASSUME Inv, NEW r \in Run, ServeStart(r)
  PROVE  Inv'
<1>1. /\ [of |-> r, running |-> FALSE] = Made(r)
      /\ [of |-> r, running |-> TRUE] = Live(r)
  BY DEF Made, Live
<1>2. /\ request[r] = "start" /\ request' = [request EXCEPT ![r] = "attached"]
      /\ UNCHANGED <<pc, agent, expired, timedOut, result, removed>>
      /\ \/ /\ Made(r) \in containers /\ UNCHANGED client
            /\ containers' = (containers \ {Made(r)}) \cup {Live(r)}
         \/ /\ Made(r) \notin containers
            /\ client' = ClientEnds(r, "failed") /\ UNCHANGED containers
  <2>1. CASE [of |-> r, running |-> FALSE] \in containers
    BY <1>1, <2>1 DEF ServeStart
  <2>2. CASE [of |-> r, running |-> FALSE] \notin containers
    BY <1>1, <2>2 DEF ServeStart
  <2> QED BY <2>1, <2>2
<1>3. client' = ClientEnds(r, "failed") =>
        /\ client' \in [Run -> {"none", "alive", "ok", "failed", "killed"}]
        /\ \A o \in Run : \/ client'[o] = client[o]
                          \/ o = r /\ client'[o] = "failed" /\ client[o] = "alive"
  BY DEF ClientEnds, Inv, Types
<1>4. Live(r) \in [of : Run, running : BOOLEAN]
  BY DEF Made, Live
<1>5. Types'
  BY <1>2, <1>3, <1>4 DEF Inv, Types
<1>6. Truthful'
  BY <1>2, <1>3 DEF Inv, Types, Truthful
<1>7. ASSUME NEW o \in Run PROVE OneLifeFor(o)' /\ OverFor(o)'
  <2>1. OneLifeFor(o) /\ OverFor(o)
    BY DEF Inv, OneLife, Over
  <2>2. CASE o # r
    <3>1. \A c \in {Made(o), Live(o)} : c \in containers' <=> c \in containers
      BY <1>2, <2>2, ContainersDiffer
    <3>2. request'[o] = request[o] /\ client'[o] = client[o]
      BY <1>2, <1>3, <2>2 DEF Inv, Types
    <3> QED BY <1>2, <2>1, <3>1, <3>2 DEF OneLifeFor, OverFor
  <2>3. CASE o = r
    <3>1. /\ Made(o) \notin containers'
          /\ Live(o) \in containers' =>
               Live(o) \in containers \/ Made(o) \in containers
      BY <1>2, <2>3, ContainersDiffer
    <3>2. /\ request'[o] = "attached" /\ pc[o] # "idle"
          /\ client'[o] = "alive" => client[o] = "alive"
          /\ client'[o] # "none"
      BY <1>2, <1>3, <2>1, <2>3 DEF Inv, Types, OneLifeFor
    <3>3. agent[o] = "none" /\ Live(o) \notin containers /\ request[o] = "start"
      BY <1>2, <2>1, <2>3 DEF OneLifeFor
    <3> QED BY <1>2, <2>1, <3>1, <3>2, <3>3 DEF OneLifeFor, OverFor
  <2> QED BY <2>2, <2>3
<1> QED BY <1>5, <1>6, <1>7 DEF Inv, OneLife, Over

LEMMA AgentEndsInv ==
  ASSUME Inv, NEW r \in Run, AgentEnds(r)
  PROVE  Inv'
<1>1. [of |-> r, running |-> TRUE] = Live(r)
  BY DEF Made, Live
<1>2. /\ Live(r) \in containers /\ containers' = containers \ {Live(r)}
      /\ UNCHANGED <<pc, request, expired, timedOut, result, removed>>
  BY <1>1 DEF AgentEnds
<1>3. PICK how \in Exited : agent' = [agent EXCEPT ![r] = how] /\ client' = ClientEnds(r, how)
  BY DEF AgentEnds
<1>4. /\ client' \in [Run -> {"none", "alive", "ok", "failed", "killed"}]
      /\ \A o \in Run : client'[o] = client[o] \/ (o = r /\ client'[o] = how /\ client[o] = "alive")
  BY <1>3 DEF ClientEnds, Inv, Types, Exited
<1>5. agent[r] = "none" /\ request[r] = "attached"
  BY <1>2 DEF Inv, OneLife, OneLifeFor
<1>6. Types'
  BY <1>2, <1>3, <1>4 DEF Inv, Types, Exited
<1>7. OneLife'
  <2> SUFFICES ASSUME NEW o \in Run PROVE OneLifeFor(o)'
    BY DEF OneLife
  <2>1. OneLifeFor(o)
    BY DEF Inv, OneLife
  <2>2. client'[o] = "none" => client[o] = "none"
    BY <1>4 DEF Exited
  <2>3. agent'[o] = agent[o] \/ (o = r /\ request[o] = "attached" /\ Live(o) \notin containers')
    BY <1>2, <1>3, <1>5 DEF Inv, Types
  <2>4. Made(o) \in containers' => Made(o) \in containers
    BY <1>2
  <2>5. Live(o) \in containers' => Live(o) \in containers
    BY <1>2
  <2>6. pc[o] = "idle" => client'[o] = "none"
    BY <1>4, <2>1 DEF OneLifeFor
  <2> QED BY <1>2, <2>1, <2>2, <2>3, <2>4, <2>5, <2>6 DEF OneLifeFor
<1>8. Truthful'
  BY <1>2, <1>3, <1>4, <1>5 DEF Inv, Types, Truthful
<1>9. Over'
  BY <1>2, <1>3, <1>4, ContainersDiffer DEF Inv, Types, Over, OverFor, Exited
<1> QED BY <1>6, <1>7, <1>8, <1>9 DEF Inv

LEMMA LoseConnectionInv ==
  ASSUME Inv, NEW r \in Run, LoseConnection(r)
  PROVE  Inv'
<1>1. UNCHANGED <<pc, request, containers, agent, expired, timedOut, result, removed>>
  BY DEF LoseConnection
<1>2. /\ client' \in [Run -> {"none", "alive", "ok", "failed", "killed"}]
      /\ \A o \in Run : client'[o] = client[o] \/ (client'[o] = "failed" /\ client[o] = "alive")
  BY DEF LoseConnection, ClientEnds, Inv, Types
<1>3. Types' /\ Truthful'
  BY <1>1, <1>2 DEF Inv, Types, Truthful
<1>4. ASSUME NEW o \in Run PROVE OneLifeFor(o)' /\ OverFor(o)'
  <2>1. OneLifeFor(o) /\ OverFor(o)
    BY DEF Inv, OneLife, Over
  <2> QED BY <1>1, <1>2, <2>1 DEF OneLifeFor, OverFor
<1> QED BY <1>3, <1>4 DEF Inv, OneLife, Over

LEMMA ExpireInv ==
  ASSUME Inv, NEW r \in Run, Expire(r)
  PROVE  Inv'
BY DEF Expire, Inv, Types, OneLife, OneLifeFor, Truthful, Over, OverFor

-----------------------------------------------------------------------------
(* start() and stop().                                                      *)

LEMMA SpawnInv ==
  ASSUME Inv, NEW r \in Run, Spawn(r)
  PROVE  Inv'
<1>1. /\ pc[r] = "idle" /\ UNCHANGED <<containers, agent, expired, timedOut, removed>>
      /\ \/ /\ pc' = [pc EXCEPT ![r] = "poll"] /\ client' = [client EXCEPT ![r] = "alive"]
            /\ request' = [request EXCEPT ![r] = "create"] /\ UNCHANGED result
         \/ /\ pc' = [pc EXCEPT ![r] = "done"] /\ UNCHANGED <<client, request>>
            /\ result' = [result EXCEPT ![r] = "error"]
  BY DEF Spawn, Goto, Return
<1>2. Types'
  BY <1>1 DEF Inv, Types, Place
<1>3. Truthful'
  BY <1>1 DEF Inv, Types, Truthful
<1>4. ASSUME NEW o \in Run PROVE OneLifeFor(o)' /\ OverFor(o)'
  <2>1. OneLifeFor(o) /\ OverFor(o)
    BY DEF Inv, OneLife, Over
  <2>2. CASE o # r
    <3>1. /\ pc'[o] = pc[o] /\ client'[o] = client[o] /\ request'[o] = request[o]
          /\ result'[o] = result[o]
      BY <1>1, <2>2 DEF Inv, Types
    <3> QED BY <1>1, <2>1, <3>1 DEF OneLifeFor, OverFor
  <2>3. CASE o = r
    <3>1. /\ pc'[o] \in {"poll", "done"} /\ request'[o] \in {"create", "none"}
          /\ client'[o] = "none" => request'[o] = "none"
      BY <1>1, <2>1, <2>3 DEF Inv, Types, OneLifeFor
    <3>2. /\ ~removed[o] /\ request[o] = "none" /\ result[o] \notin Seen
          /\ result'[o] \in {result[o], "error"}
      BY <1>1, <2>1, <2>3 DEF OneLifeFor, OverFor, Inv, Types
    <3> QED BY <1>1, <2>1, <3>1, <3>2 DEF OneLifeFor, OverFor, Seen
  <2> QED BY <2>2, <2>3
<1> QED BY <1>2, <1>3, <1>4 DEF Inv, OneLife, Over

LEMMA PollInv ==
  ASSUME Inv, NEW r \in Run, TryWait(r) \/ CheckDeadline(r) \/ WaitKilled(r)
  PROVE  Inv'
<1>1. /\ UNCHANGED <<client, request, containers, agent, expired, removed>>
      /\ pc[r] # "idle" /\ pc[r] # "remove"
      /\ \E to \in Place \ {"idle", "remove"} :
           pc' = [pc EXCEPT ![r] = to] /\ (to = "join" => client[r] # "alive")
      /\ UNCHANGED result \/ result' = [result EXCEPT ![r] = "error"]
      /\ UNCHANGED timedOut \/ (expired[r] /\ timedOut' = [timedOut EXCEPT ![r] = TRUE])
  BY DEF TryWait, CheckDeadline, WaitKilled, Goto, Return, Place
<1>2. /\ pc' \in [Run -> Place]
      /\ \A o \in Run : /\ pc'[o] \in {"idle", "remove"} => pc'[o] = pc[o]
                        /\ pc'[o] = "join" => pc[o] = "join" \/ client[o] # "alive"
  BY <1>1 DEF Inv, Types
<1>3. result' \in [Run -> {"none", "error", "timeout", "signal", "ok", "failed"}]
  BY <1>1 DEF Inv, Types
<1>4. timedOut' \in [Run -> BOOLEAN] /\ \A o \in Run : timedOut'[o] => timedOut[o] \/ expired[o]
  <2>1. timedOut \in [Run -> BOOLEAN]
    BY DEF Inv, Types
  <2>2. UNCHANGED timedOut \/ (expired[r] /\ timedOut' = [timedOut EXCEPT ![r] = TRUE])
    BY <1>1
  <2> QED BY <2>1, <2>2
<1>5. Types'
  BY <1>1, <1>2, <1>3, <1>4 DEF Inv, Types
<1>6. Truthful'
  BY <1>1, <1>4 DEF Inv, Types, Truthful
<1>7. ASSUME NEW o \in Run PROVE OneLifeFor(o)' /\ OverFor(o)'
  <2>1. OneLifeFor(o) /\ OverFor(o)
    BY DEF Inv, OneLife, Over
  <2>2. result'[o] \in Seen => result'[o] = result[o]
    BY <1>1 DEF Inv, Types, Seen
  <2> QED BY <1>1, <1>2, <2>1, <2>2 DEF OneLifeFor, OverFor
<1> QED BY <1>5, <1>6, <1>7 DEF Inv, OneLife, Over

LEMMA KillInv ==
  ASSUME Inv, NEW r \in Run, Kill(r)
  PROVE  Inv'
<1>1. /\ pc[r] = "kill" /\ UNCHANGED <<request, containers, agent, expired, timedOut, removed>>
      /\ \/ /\ pc' = [pc EXCEPT ![r] = "remove"] /\ client' = ClientEnds(r, "killed")
            /\ UNCHANGED result
         \/ /\ pc' = [pc EXCEPT ![r] = "done"] /\ UNCHANGED client
            /\ result' = [result EXCEPT ![r] = "error"]
  BY DEF Kill, Goto, Return
<1>2. client' = ClientEnds(r, "killed") =>
        /\ client' \in [Run -> {"none", "alive", "ok", "failed", "killed"}]
        /\ client'[r] # "alive"
        /\ \A o \in Run : client'[o] = client[o] \/ (client'[o] = "killed" /\ client[o] = "alive")
  BY DEF ClientEnds, Inv, Types
<1>3. Types'
  BY <1>1, <1>2 DEF Inv, Types, Place
<1>4. OneLife'
  BY <1>1, <1>2 DEF Inv, Types, OneLife, OneLifeFor
<1>5. Truthful'
  BY <1>1, <1>2 DEF Inv, Types, Truthful
<1>6. /\ \A o \in Run : pc'[o] \in {"idle", "join"} => pc[o] = pc'[o]
      /\ \A o \in Run : pc'[o] = "remove" => pc[o] = "remove" \/ client'[o] # "alive"
      /\ \A o \in Run : result'[o] \in Seen => result'[o] = result[o]
  BY <1>1, <1>2 DEF Inv, Types, Seen
<1>7. Over'
  <2> SUFFICES ASSUME NEW o \in Run PROVE OverFor(o)'
    BY DEF Over
  <2>1. OverFor(o)
    BY DEF Inv, Over
  <2>2. client'[o] = "alive" => client[o] = "alive"
    BY <1>1, <1>2
  <2> QED BY <1>1, <1>6, <2>1, <2>2 DEF OverFor
<1> QED BY <1>3, <1>4, <1>5, <1>7 DEF Inv

\* A removal by name takes only the ends of agents that were still running.
LEMMA RemovalInv ==
  ASSUME Inv, NEW r \in Run, RemoveByName(r), UNCHANGED <<request, expired, timedOut, result>>,
         NEW to \in Place \ {"idle", "remove", "join"}, pc' = [pc EXCEPT ![r] = to],
         \/ UNCHANGED removed
         \/ client[r] # "alive" /\ pc[r] # "idle" /\ removed' = [removed EXCEPT ![r] = TRUE]
  PROVE  Inv'
<1>1. /\ containers' \subseteq containers
      /\ Live(r) \notin containers' /\ Made(r) \notin containers'
      /\ agent' \in [Run -> {"none", "ok", "failed", "cut"}]
      /\ client' \in [Run -> {"none", "alive", "ok", "failed", "killed"}]
      /\ \A o \in Run :
           \/ agent'[o] = agent[o] /\ client'[o] = client[o]
           \/ /\ Live(o) \in containers /\ Live(o) \notin containers'
              /\ agent'[o] = "cut"
              /\ client'[o] = client[o] \/ (client'[o] = "failed" /\ client[o] = "alive")
  BY RemovalLeaves DEF Inv
<1>2. \A o \in Run : Live(o) \in containers => agent[o] = "none" /\ request[o] = "attached"
  BY DEF Inv, OneLife, OneLifeFor
<1>3. Types'
  BY <1>1 DEF Inv, Types
<1>4. OneLife'
  BY <1>1, <1>2 DEF Inv, Types, OneLife, OneLifeFor
<1>5. Truthful'
  BY <1>1, <1>2 DEF Inv, Types, Truthful
<1>6. removed' \in [Run -> BOOLEAN] /\ \A o \in Run \ {r} : removed'[o] = removed[o]
  <2>1. removed \in [Run -> BOOLEAN]
    BY DEF Inv, Types
  <2> QED BY <2>1
<1>7. ASSUME NEW o \in Run PROVE OverFor(o)'
  <2>1. OverFor(o)
    BY DEF Inv, Over
  <2>2. /\ pc'[o] \in {"idle", "remove", "join"} => pc'[o] = pc[o]
        /\ client'[o] = "alive" => client[o] = "alive"
    BY <1>1 DEF Inv, Types
  <2>3. CASE o # r
    BY <1>1, <1>6, <2>1, <2>2, <2>3 DEF OverFor
  <2>4. CASE o = r
    <3>1. pc'[o] \notin {"idle", "remove", "join"}
      BY <2>4 DEF Inv, Types
    <3>2. removed'[o] => client[o] # "alive"
      BY <2>1, <2>4 DEF OverFor
    <3> QED BY <1>1, <2>1, <2>2, <2>4, <3>1, <3>2 DEF OverFor
  <2> QED BY <2>3, <2>4
<1> QED BY <1>3, <1>4, <1>5, <1>7 DEF Inv, Over

LEMMA CleanupInv ==
  ASSUME Inv, NEW r \in Run, Cleanup(r)
  PROVE  Inv'
<1>1. /\ pc[r] = "remove" /\ pc' = [pc EXCEPT ![r] = "wait"] /\ client[r] # "alive"
      /\ UNCHANGED <<request, expired, timedOut, result>>
  BY DEF Cleanup, Goto, Inv, Over, OverFor
<1>2. CASE RemoveByName(r) /\ removed' = [removed EXCEPT ![r] = TRUE]
  BY <1>1, <1>2, RemovalInv DEF Place
<1>3. CASE UNCHANGED <<containers, agent, client, removed>>
  BY <1>1, <1>3 DEF Inv, Types, Place, OneLife, OneLifeFor, Truthful, Over, OverFor
<1> QED BY <1>2, <1>3 DEF Cleanup

LEMMA JoinReadersInv ==
  ASSUME Inv, NEW r \in Run, JoinReaders(r)
  PROVE  Inv'
<1>1. PICK value \in {Outcome(r), "error"} :
        /\ pc[r] = "join" /\ pc' = [pc EXCEPT ![r] = "done"]
        /\ result' = [result EXCEPT ![r] = value]
        /\ UNCHANGED <<client, request, containers, agent, expired, timedOut, removed>>
  BY DEF JoinReaders, Return, Goto
<1>2. client[r] # "alive"
  BY <1>1 DEF Inv, Over, OverFor
<1>6. /\ value \in {"none", "error", "timeout", "signal", "ok", "failed"}
      /\ value = "ok" => client[r] = "ok"
      /\ value = "timeout" => timedOut[r]
  BY <1>1, <1>2 DEF Outcome, Inv, Types
<1>3. Types'
  BY <1>1, <1>6 DEF Inv, Types, Place
<1>4. OneLife'
  BY <1>1 DEF Inv, Types, OneLife, OneLifeFor
<1>7. Over'
  BY <1>1, <1>2 DEF Inv, Types, Over, OverFor
<1>5. Truthful'
  BY <1>1, <1>6 DEF Inv, Types, Truthful
<1> QED BY <1>3, <1>4, <1>5, <1>7 DEF Inv

LEMMA StopInv ==
  ASSUME Inv, NEW r \in Run, Stop(r)
  PROVE  Inv'
<1>1. /\ pc[r] = "done" /\ pc' = [pc EXCEPT ![r] = "stopped"] /\ result[r] \in Seen
      /\ UNCHANGED <<request, expired, timedOut, result>>
  BY DEF Stop, Goto, Inv, Types, Seen
<1>2. client[r] # "alive"
  BY <1>1 DEF Inv, Over, OverFor
<1>3. CASE RemoveByName(r) /\ removed' = [removed EXCEPT ![r] = TRUE]
  BY <1>1, <1>2, <1>3, RemovalInv DEF Place
<1>4. CASE UNCHANGED <<containers, agent, client, removed>>
  BY <1>1, <1>4 DEF Inv, Types, Place, OneLife, OneLifeFor, Truthful, Over, OverFor
<1> QED BY <1>3, <1>4 DEF Stop

LEMMA NextInv ==
  ASSUME Inv, [Next]_vars
  PROVE  Inv'
<1>1. ASSUME NEW r \in Run, Spawn(r) \/ Caller(r) \/ Stop(r) \/ External(r)
      PROVE  Inv'
  BY <1>1, SpawnInv, PollInv, KillInv, CleanupInv, JoinReadersInv, StopInv, ServeCreateInv,
     AskStartInv, ServeStartInv, AgentEndsInv, LoseConnectionInv, ExpireInv DEF Caller, Polling, External
<1>2. CASE UNCHANGED vars
  BY <1>2 DEF vars, Inv, Types, OneLife, OneLifeFor, Truthful, Over, OverFor
<1> QED BY <1>1, <1>2 DEF Next

LEMMA Invariance == Init /\ [][Next]_vars => []Inv
BY Initially, NextInv, PTL

-----------------------------------------------------------------------------

\* start() reports a success only of an agent that ended well, and a timeout only
\* past the deadline, whichever containers share a name.
THEOREM OutcomesAreTruthful == Spec => []OutcomeIsTruthful
<1>1. Inv => OutcomeIsTruthful
  BY DEF Inv, Truthful, OutcomeIsTruthful
<1> QED BY <1>1, Invariance, PTL DEF Spec

\* A container whose removal took effect does not run, nor will it, although the
\* daemon may still serve what the killed client asked for.
THEOREM TimedOutRunsAreOver == Spec => []TimedOutIsOver
<1>1. Inv => TimedOutIsOver
  BY RunAssumption DEF Inv, Over, OverFor, TimedOutIsOver, Live
<1> QED BY <1>1, Invariance, PTL DEF Spec

-----------------------------------------------------------------------------
(* A task over this runner.  What the run and its log do is taken from the   *)
(* proofs about Orchestrator.                                                *)

TaskProofs == INSTANCE OrchestratorProofs WITH pc <- step

LEMMA SameTask ==
  /\ Task!Init <=> TaskProofs!Init
  /\ Task!Next <=> TaskProofs!Next
<1>1. Task!Init <=> TaskProofs!Init
  BY DEF Task!Init, TaskProofs!Init, Task!ReportData, TaskProofs!ReportData,
     Task!LastStatus, TaskProofs!LastStatus, Task!Last, TaskProofs!Last, Task!At,
     TaskProofs!At
<1>2. Task!PreRun <=> TaskProofs!PreRun
  BY DEF Task!port, TaskProofs!port, Task!ledger, TaskProofs!ledger, Task!local,
     TaskProofs!local, Task!Decisions, TaskProofs!Decisions, Task!Answers,
     TaskProofs!Answers, Task!Event, TaskProofs!Event, Task!Status, TaskProofs!Status,
     Task!Plain, TaskProofs!Plain, Task!OpenLine, TaskProofs!OpenLine, Task!BadLine,
     TaskProofs!BadLine, Task!Join, TaskProofs!Join, Task!Unflushed,
     TaskProofs!Unflushed, Task!Recorded, TaskProofs!Recorded, Task!Goto,
     TaskProofs!Goto, Task!RecordEvent, TaskProofs!RecordEvent, Task!Transition,
     TaskProofs!Transition, Task!Log, TaskProofs!Log, Task!Move, TaskProofs!Move,
     Task!Call, TaskProofs!Call, Task!Create, TaskProofs!Create, Task!RecordTaskCreated,
     TaskProofs!RecordTaskCreated, Task!Validate, TaskProofs!Validate,
     Task!BuildInvocation, TaskProofs!BuildInvocation, Task!Prepare, TaskProofs!Prepare,
     Task!CreateTaskDir, TaskProofs!CreateTaskDir, Task!WriteResolvedTask,
     TaskProofs!WriteResolvedTask, Task!EvaluatePolicy, TaskProofs!EvaluatePolicy,
     Task!RecordDecision, TaskProofs!RecordDecision, Task!Deny, TaskProofs!Deny,
     Task!WaitForApproval, TaskProofs!WaitForApproval, Task!RequestApproval,
     TaskProofs!RequestApproval, Task!RecordRequested, TaskProofs!RecordRequested,
     Task!Wait, TaskProofs!Wait, Task!RecordResolved, TaskProofs!RecordResolved,
     Task!FinishPreRunFailure, TaskProofs!FinishPreRunFailure, Task!RecordPreRunError,
     TaskProofs!RecordPreRunError, Task!PreRun, TaskProofs!PreRun
<1>3. Task!Agent <=> TaskProofs!Agent
  BY DEF Task!port, TaskProofs!port, Task!ledger, TaskProofs!ledger, Task!local,
     TaskProofs!local, Task!ExitStatus, TaskProofs!ExitStatus, Task!Event,
     TaskProofs!Event, Task!Status, TaskProofs!Status, Task!Plain, TaskProofs!Plain,
     Task!OpenLine, TaskProofs!OpenLine, Task!BadLine, TaskProofs!BadLine, Task!Join,
     TaskProofs!Join, Task!Unflushed, TaskProofs!Unflushed, Task!Goto, TaskProofs!Goto,
     Task!RecordEvent, TaskProofs!RecordEvent, Task!Transition, TaskProofs!Transition,
     Task!Log, TaskProofs!Log, Task!Move, TaskProofs!Move, Task!Call, TaskProofs!Call,
     Task!CaptureBaseline, TaskProofs!CaptureBaseline, Task!PrepareSandbox,
     TaskProofs!PrepareSandbox, Task!MarkRunning, TaskProofs!MarkRunning,
     Task!StartRunner, TaskProofs!StartRunner, Task!CollectExit, TaskProofs!CollectExit,
     Task!StopRunner, TaskProofs!StopRunner, Task!RecordRunError,
     TaskProofs!RecordRunError, Task!FailRun, TaskProofs!FailRun, Task!Agent,
     TaskProofs!Agent
<1>4. Task!Evidence <=> TaskProofs!Evidence
  BY DEF Task!port, TaskProofs!port, Task!ledger, TaskProofs!ledger, Task!local,
     TaskProofs!local, Task!Event, TaskProofs!Event, Task!Status, TaskProofs!Status,
     Task!Plain, TaskProofs!Plain, Task!OpenLine, TaskProofs!OpenLine, Task!BadLine,
     TaskProofs!BadLine, Task!Join, TaskProofs!Join, Task!Unflushed,
     TaskProofs!Unflushed, Task!Goto, TaskProofs!Goto, Task!RecordEvent,
     TaskProofs!RecordEvent, Task!Transition, TaskProofs!Transition, Task!Log,
     TaskProofs!Log, Task!Move, TaskProofs!Move, Task!Call, TaskProofs!Call,
     Task!WriteLog, TaskProofs!WriteLog, Task!RecordLogArtifact,
     TaskProofs!RecordLogArtifact, Task!RecordLogChunk, TaskProofs!RecordLogChunk,
     Task!LogsDone, TaskProofs!LogsDone, Task!RememberFailure,
     TaskProofs!RememberFailure, Task!RecordLogError, TaskProofs!RecordLogError,
     Task!RecordExit, TaskProofs!RecordExit, Task!MarkCollecting,
     TaskProofs!MarkCollecting, Task!CollectDiff, TaskProofs!CollectDiff,
     Task!RecordDiff, TaskProofs!RecordDiff, Task!RecordDiffError,
     TaskProofs!RecordDiffError, Task!MarkReporting, TaskProofs!MarkReporting,
     Task!FinalStatus, TaskProofs!FinalStatus, Task!Finalise, TaskProofs!Finalise,
     Task!Evidence, TaskProofs!Evidence
<1>5. Task!Reporting <=> TaskProofs!Reporting
  BY DEF Task!port, TaskProofs!port, Task!ledger, TaskProofs!ledger, Task!local,
     TaskProofs!local, Task!Event, TaskProofs!Event, Task!Status, TaskProofs!Status,
     Task!Plain, TaskProofs!Plain, Task!OpenLine, TaskProofs!OpenLine, Task!BadLine,
     TaskProofs!BadLine, Task!Join, TaskProofs!Join, Task!Unflushed,
     TaskProofs!Unflushed, Task!At, TaskProofs!At, Task!Last, TaskProofs!Last,
     Task!LastStatus, TaskProofs!LastStatus, Task!ReportData, TaskProofs!ReportData,
     Task!Goto, TaskProofs!Goto, Task!RecordEvent, TaskProofs!RecordEvent,
     Task!Transition, TaskProofs!Transition, Task!Log, TaskProofs!Log, Task!Generate,
     TaskProofs!Generate, Task!GenerateReport, TaskProofs!GenerateReport,
     Task!RecordReport, TaskProofs!RecordReport, Task!RecordReportError,
     TaskProofs!RecordReportError, Task!FailReport, TaskProofs!FailReport,
     Task!GenerateLastReport, TaskProofs!GenerateLastReport, Task!RecordLastReport,
     TaskProofs!RecordLastReport, Task!Reporting, TaskProofs!Reporting
<1>6. /\ Task!StartRun <=> TaskProofs!StartRun
      /\ Task!Exit <=> TaskProofs!Exit
      /\ Task!Crash <=> TaskProofs!Crash
      /\ Task!Finished <=> TaskProofs!Finished
  BY DEF Task!port, TaskProofs!port, Task!ledger, TaskProofs!ledger, Task!local,
     TaskProofs!local, Task!vars, TaskProofs!vars, Task!Event, TaskProofs!Event,
     Task!Plain, TaskProofs!Plain, Task!OpenLine, TaskProofs!OpenLine, Task!BadLine,
     TaskProofs!BadLine, Task!Join, TaskProofs!Join, Task!Surviving,
     TaskProofs!Surviving, Task!Goto, TaskProofs!Goto, Task!StartRun,
     TaskProofs!StartRun, Task!Done, TaskProofs!Done, Task!EndProcess,
     TaskProofs!EndProcess, Task!Exit, TaskProofs!Exit, Task!Crash, TaskProofs!Crash,
     Task!Finished, TaskProofs!Finished
<1>7. Task!Next <=> TaskProofs!Next
  BY <1>2, <1>3, <1>4, <1>5, <1>6 DEF Task!Next, TaskProofs!Next, Task!Step, TaskProofs!Step
<1> QED BY <1>1, <1>7

LEMMA SameSteps ==
  /\ Task!StartRun <=> TaskProofs!StartRun
  /\ Task!StartRunner <=> TaskProofs!StartRunner
  /\ Task!CollectExit <=> TaskProofs!CollectExit
  /\ Task!StopRunner <=> TaskProofs!StopRunner
  /\ Task!Crash <=> TaskProofs!Crash
<1>1. /\ Task!StartRun <=> TaskProofs!StartRun
      /\ Task!StartRunner <=> TaskProofs!StartRunner
      /\ Task!CollectExit <=> TaskProofs!CollectExit
      /\ Task!StopRunner <=> TaskProofs!StopRunner
  BY DEF Task!StartRun, TaskProofs!StartRun, Task!StartRunner, TaskProofs!StartRunner,
     Task!CollectExit, TaskProofs!CollectExit, Task!StopRunner, TaskProofs!StopRunner,
     Task!Goto, TaskProofs!Goto, Task!ExitStatus, TaskProofs!ExitStatus, Task!port,
     TaskProofs!port, Task!ledger, TaskProofs!ledger, Task!local, TaskProofs!local
<1>2. Task!Crash <=> TaskProofs!Crash
  BY DEF Task!Crash, TaskProofs!Crash, Task!Done, TaskProofs!Done, Task!EndProcess,
     TaskProofs!EndProcess, Task!Surviving, TaskProofs!Surviving, Task!Join,
     TaskProofs!Join, Task!OpenLine, TaskProofs!OpenLine, Task!BadLine, TaskProofs!BadLine,
     Task!Plain, TaskProofs!Plain, Task!Event, TaskProofs!Event
<1> QED BY <1>1, <1>2

LEMMA SameClaims ==
  /\ Task!NoSilentLeak <=> TaskProofs!NoSilentLeak
  /\ Task!CleanOutcome <=> TaskProofs!CleanOutcome
  /\ Task!EvidencePrecedesRunning <=> TaskProofs!EvidencePrecedesRunning
BY DEF Task!NoSilentLeak, TaskProofs!NoSilentLeak, Task!Done, TaskProofs!Done,
       Task!CleanOutcome, TaskProofs!CleanOutcome, Task!Recorded, TaskProofs!Recorded,
       Task!Plain, TaskProofs!Plain, Task!Event, TaskProofs!Event,
       Task!EvidencePrecedesRunning, TaskProofs!EvidencePrecedesRunning, Task!Permit,
       TaskProofs!Permit, Task!Status, TaskProofs!Status, Task!Terminal, TaskProofs!Terminal

LEMMA SameTaskVars == TaskProofs!vars' = TaskProofs!vars <=> UNCHANGED taskVars
BY DEF TaskProofs!vars, TaskProofs!ledger, TaskProofs!port, TaskProofs!local, taskVars

\* A call of the runner's port is a step of the task.
LEMMA PortSteps ==
  ASSUME StartReturns \/ CollectReturns \/ StopReturns
  PROVE  Task!Next /\ ~Task!StartRun
BY DEF StartReturns, CollectReturns, StopReturns, Task!Next, Task!Step, Task!Agent,
       Task!StartRun, Task!Goto

LEMMA TaskSteps ==
  ASSUME [BothNext]_allVars
  PROVE  [TaskProofs!Next]_(TaskProofs!vars)
<1>1. [Task!Next]_taskVars
  BY PortSteps
    DEF BothNext, TaskStep, Starting, StartReturns, CollectReturns, StopReturns, Around, allVars
<1> QED BY <1>1, SameTask, SameTaskVars

\* A task over this runner is a task: what was proved of any runner holds of it.
LEMMA TaskBehaves == BothSpec => TaskProofs!Spec
<1>1. BothInit => TaskProofs!Init
  BY SameTask DEF BothInit
<1>2. [BothNext]_allVars => [TaskProofs!Next]_(TaskProofs!vars)
  BY TaskSteps
<1> QED BY <1>1, <1>2, PTL DEF BothSpec, TaskProofs!Spec

\* Each run of the task has a call of start() of its own.
LEMMA MineIsARun ==
  ASSUME TaskProofs!TypeInv, TaskProofs!Begun, step # "idle" \/ run > 0
  PROVE  run \in 1..MaxRuns /\ Mine \in Run
<1>1. run \in 1..MaxRuns
  BY TaskAssumption DEF TaskProofs!TypeInv, TaskProofs!TypeOK, TaskProofs!Begun
<1> QED BY <1>1, StartOfAssumption DEF Mine

LEMMA RunnerSteps ==
  ASSUME TaskProofs!TypeInv, TaskProofs!Begun, [BothNext]_allVars
  PROVE  [Next]_vars
<1>1. CASE Starting \/ StopReturns
  <2>1. Mine \in Run
    BY <1>1, MineIsARun DEF Starting, StopReturns
  <2> QED BY <1>1, <2>1 DEF Starting, StopReturns, Next
<1>2. CASE TaskStep \/ StartReturns \/ CollectReturns
  BY <1>2 DEF TaskStep, StartReturns, CollectReturns
<1>3. CASE Around
  BY <1>3 DEF Around, Next
<1> QED BY <1>1, <1>2, <1>3 DEF BothNext, allVars

\* What is known of the runner and of the task by themselves.
Parts == Inv /\ TaskProofs!TypeInv /\ TaskProofs!Trace /\ TaskProofs!Begun

LEMMA PartsHold == BothSpec => []Parts
<1>1. BothSpec => [](TaskProofs!TypeInv /\ TaskProofs!Trace /\ TaskProofs!Begun)
  <2>1. TaskProofs!Spec => [](TaskProofs!TypeInv /\ TaskProofs!Trace)
    BY TaskAssumption, TaskProofs!RunTraces
  <2>2. TaskProofs!Spec => []TaskProofs!Begun
    BY TaskAssumption, TaskProofs!RunsBegin
  <2> QED BY <2>1, <2>2, TaskBehaves, PTL
<1>2. BothInit => Init
  BY DEF BothInit
<1>3. TaskProofs!TypeInv /\ TaskProofs!Begun /\ [BothNext]_allVars => [Next]_vars
  BY RunnerSteps
<1>4. BothSpec => Init /\ [][Next]_vars
  BY <1>1, <1>2, <1>3, PTL DEF BothSpec
<1>5. BothSpec => []Inv
  BY <1>4, Invariance, PTL
<1>6. Inv /\ (TaskProofs!TypeInv /\ TaskProofs!Trace /\ TaskProofs!Begun) => Parts
  BY DEF Parts
<1> QED BY <1>1, <1>5, <1>6, PTL

\* What no step of a runner takes back.
LEMMA RunnerKeeps ==
  ASSUME Inv, NEW r \in Run, NEW o \in Run,
         Spawn(r) \/ Caller(r) \/ Stop(r) \/ External(r)
  PROVE  /\ agent[o] = "ok" => agent'[o] = "ok"
         /\ removed[o] => removed'[o]
         /\ pc[o] # "idle" => pc'[o] # "idle"
<1>1. CASE Spawn(r)
  BY <1>1 DEF Spawn, Goto, Return, Inv, Types
<1>2. CASE TryWait(r) \/ CheckDeadline(r) \/ WaitKilled(r) \/ JoinReaders(r)
  BY <1>2 DEF TryWait, CheckDeadline, WaitKilled, JoinReaders, Goto, Return, Inv, Types
<1>3. CASE Kill(r)
  BY <1>3 DEF Kill, Goto, Return, Inv, Types
<1>4. CASE Cleanup(r) \/ Stop(r)
  <2>1. /\ pc' \in {[pc EXCEPT ![r] = "wait"], [pc EXCEPT ![r] = "stopped"]}
        /\ removed' \in {removed, [removed EXCEPT ![r] = TRUE]}
        /\ RemoveByName(r) \/ UNCHANGED agent
    BY <1>4 DEF Cleanup, Stop, Goto
  <2>2. pc[o] # "idle" => pc'[o] # "idle"
    BY <2>1 DEF Inv, Types
  <2>3. removed[o] => removed'[o]
    <3>1. removed \in [Run -> BOOLEAN]
      BY DEF Inv, Types
    <3> QED BY <2>1, <3>1
  <2>4. agent[o] = "ok" => agent'[o] = "ok"
    <3>1. CASE RemoveByName(r)
      <4>1. agent'[o] = agent[o] \/ Live(o) \in containers
        BY <3>1, RemovalLeaves DEF Inv
      <4> QED BY <4>1 DEF Inv, OneLife, OneLifeFor
    <3> QED BY <2>1, <3>1
  <2> QED BY <2>2, <2>3, <2>4
<1>5. CASE AgentEnds(r)
  <2>1. /\ Live(r) \in containers /\ UNCHANGED <<pc, removed>>
        /\ \E how \in Exited : agent' = [agent EXCEPT ![r] = how]
    BY <1>5 DEF AgentEnds, Live
  <2>2. agent[r] = "none"
    BY <2>1 DEF Inv, OneLife, OneLifeFor
  <2> QED BY <2>1, <2>2 DEF Inv, Types
<1>6. CASE ServeCreate(r) \/ AskStart(r) \/ ServeStart(r) \/ LoseConnection(r) \/ Expire(r)
  <2>1. UNCHANGED <<pc, agent, removed>>
    BY <1>6 DEF ServeCreate, AskStart, ServeStart, LoseConnection, Expire
  <2> QED BY <2>1
<1> QED BY <1>1, <1>2, <1>3, <1>4, <1>5, <1>6 DEF Caller, Polling, External

\* A run is moved, and its client spawned, by its own process only.
LEMMA OthersWait ==
  ASSUME Inv, NEW r \in Run, NEW o \in Run,
         (o # r /\ (Spawn(r) \/ Caller(r) \/ Stop(r))) \/ External(r)
  PROVE  pc'[o] = pc[o] /\ (client[o] = "none" => client'[o] = "none")
<1>1. CASE o # r /\ Spawn(r)
  BY <1>1 DEF Spawn, Goto, Return, Inv, Types
<1>2. CASE o # r /\ (TryWait(r) \/ CheckDeadline(r) \/ WaitKilled(r) \/ JoinReaders(r))
  BY <1>2 DEF TryWait, CheckDeadline, WaitKilled, JoinReaders, Goto, Return, Inv, Types
<1>3. CASE o # r /\ Kill(r)
  BY <1>3 DEF Kill, Goto, Return, ClientEnds, Inv, Types
<1>4. CASE o # r /\ (Cleanup(r) \/ Stop(r))
  <2>1. /\ pc' \in {[pc EXCEPT ![r] = "wait"], [pc EXCEPT ![r] = "stopped"]}
        /\ RemoveByName(r) \/ UNCHANGED client
    BY <1>4 DEF Cleanup, Stop, Goto
  <2>2. pc'[o] = pc[o]
    BY <1>4, <2>1 DEF Inv, Types
  <2>3. CASE RemoveByName(r)
    <3>1. client'[o] = client[o] \/ client[o] = "alive"
      BY <2>3, RemovalLeaves DEF Inv
    <3> QED BY <2>2, <3>1
  <2> QED BY <2>1, <2>2, <2>3
<1>5. CASE External(r)
  <2>1. /\ UNCHANGED pc
        /\ UNCHANGED client \/ \E how \in {"ok", "failed"} : client' = ClientEnds(r, how)
    BY <1>5 DEF External, ServeCreate, AskStart, ServeStart, AgentEnds, LoseConnection, Expire,
                Exited
  <2> QED BY <2>1 DEF ClientEnds, Inv, Types
<1> QED BY <1>1, <1>2, <1>3, <1>4, <1>5 DEF Caller, Polling

-----------------------------------------------------------------------------
(* What ties the task to its runner.                                        *)

\* The runs to come have called nothing.
Untouched == \A k \in 1..MaxRuns : k > run => pc[StartOf[k]] = "idle"

\* Nothing is known of a sandbox between two runs.
Cold == step = "idle" => sandbox = "none" /\ exit = "none"

\* What the run knows of its sandbox is so: it has none only if its client was
\* never spawned, and one that is over either ended well or was removed.
Known ==
  run > 0 =>
    /\ step \notin {"idle", "start"} /\ sandbox = "none" => client[Mine] = "none"
    /\ sandbox = "exited" => agent[Mine] = "ok" \/ removed[Mine]
    /\ exit = "zero" => agent[Mine] = "ok"

\* A run calls start() only once its Running line is in the file.
Recorded ==
  /\ step = "start" => TaskProofs!OnRecord
  /\ run > 0 /\ pc[Mine] # "idle" => step # "created" /\ TaskProofs!OnRecord

Joint == Untouched /\ Cold /\ Known /\ Recorded

LEMMA JointInit == BothInit => Joint
<1> SUFFICES ASSUME BothInit PROVE Joint
  OBVIOUS
<1>1. Init /\ run = 0 /\ step = "idle" /\ sandbox = "none" /\ exit = "none"
  BY DEF BothInit, Task!Init
<1>2. Untouched
  BY <1>1, StartOfAssumption DEF Untouched, Init
<1> QED BY <1>1, <1>2 DEF Joint, Cold, Known, Recorded

\* A step of the runners while the task waits, for its own or for anything else.
LEMMA RunnerJoint ==
  ASSUME Parts, Joint, UNCHANGED taskVars, NEW r \in Run,
         \/ step = "start" /\ r = Mine /\ (Spawn(r) \/ Caller(r))
         \/ External(r)
         \/ r \notin Own /\ (Spawn(r) \/ Caller(r) \/ Stop(r))
  PROVE  Joint'
<1> USE DEF Parts
<1>0. /\ UNCHANGED <<step, run, sandbox, exit, lines, flushed>> /\ UNCHANGED Mine
      /\ TaskProofs!OnRecord' <=> TaskProofs!OnRecord
  BY DEF taskVars, Mine, TaskProofs!OnRecord, TaskProofs!Fresh, TaskProofs!Status,
         TaskProofs!Event
<1>1. \A o \in Run : /\ agent[o] = "ok" => agent'[o] = "ok"
                     /\ removed[o] => removed'[o]
                     /\ pc[o] # "idle" => pc'[o] # "idle"
  BY RunnerKeeps
<1>2. \A k \in 1..MaxRuns :
        step # "start" \/ k # run =>
          /\ pc'[StartOf[k]] = pc[StartOf[k]]
          /\ client[StartOf[k]] = "none" => client'[StartOf[k]] = "none"
  <2> SUFFICES ASSUME NEW k \in 1..MaxRuns, step # "start" \/ k # run
               PROVE  /\ pc'[StartOf[k]] = pc[StartOf[k]]
                      /\ client[StartOf[k]] = "none" => client'[StartOf[k]] = "none"
    OBVIOUS
  <2>1. StartOf[k] \in Run /\ StartOf[k] \in Own
    BY StartOfAssumption DEF Own
  <2>2. step = "start" => Mine # StartOf[k]
    <3> SUFFICES ASSUME step = "start", Mine = StartOf[k] PROVE FALSE
      OBVIOUS
    <3>1. run \in 1..MaxRuns
      BY MineIsARun
    <3> QED BY <3>1, StartOfAssumption DEF Mine
  <2>3. External(r) \/ (StartOf[k] # r /\ (Spawn(r) \/ Caller(r) \/ Stop(r)))
    BY <2>1, <2>2
  <2> QED BY <2>1, <2>3, OthersWait
<1>3. Untouched'
  <2> SUFFICES ASSUME NEW k \in 1..MaxRuns, k > run PROVE pc'[StartOf[k]] = "idle"
    BY <1>0 DEF Untouched
  <2>1. k # run
    BY DEF TaskProofs!TypeInv, TaskProofs!TypeOK
  <2> QED BY <1>2, <2>1 DEF Joint, Untouched
<1>4. Cold'
  BY <1>0 DEF Joint, Cold
<1>5. run > 0 => run \in 1..MaxRuns /\ Mine \in Run /\ Mine = StartOf[run]
  BY MineIsARun DEF Mine
<1>6. Known'
  BY <1>0, <1>1, <1>2, <1>5 DEF Joint, Known
<1>7. Recorded'
  BY <1>0, <1>2, <1>5 DEF Joint, Recorded
<1> QED BY <1>3, <1>4, <1>6, <1>7 DEF Joint

\* A step of the task alone.
LEMMA TaskJoint ==
  ASSUME Parts, Joint, TaskStep
  PROVE  Joint'
<1> USE DEF Parts
<1>0. /\ UNCHANGED <<pc, client, agent, removed>>
      /\ TaskProofs!Next /\ (step \in Ports => TaskProofs!EndProcess)
  BY SameTask, SameSteps DEF TaskStep, vars, TaskProofs!Crash
<1>1. /\ step = "created" \/ TaskProofs!Onward
      /\ step' = "start" => TaskProofs!OnRecord' \/ (step = "start" /\ TaskProofs!Onward)
      /\ step' = "created" => UNCHANGED TaskProofs!vars \/ TaskProofs!StartRun
      /\ step' = "idle" => UNCHANGED TaskProofs!vars \/ TaskProofs!EndProcess
  BY <1>0, TaskAssumption, TaskProofs!NextAdvances
<1>2. run' = run \/ TaskProofs!StartRun
  BY <1>0, TaskAssumption, TaskProofs!RunSame
<1>3. UNCHANGED <<sandbox, exit>> \/ TaskProofs!EndProcess
  BY <1>0, TaskAssumption, TaskProofs!SandboxSame DEF Ports
<1>4. TaskProofs!EndProcess =>
        step' = "idle" /\ run' = run /\ sandbox' = "none" /\ exit' = "none"
  BY DEF TaskProofs!EndProcess
<1>5. TaskProofs!StartRun =>
        step = "idle" /\ step' = "created" /\ run' = run + 1 /\ UNCHANGED <<sandbox, exit>>
  BY DEF TaskProofs!StartRun, TaskProofs!Goto, TaskProofs!port
<1>6. run \in Nat /\ (run > 0 => run \in 1..MaxRuns /\ Mine \in Run)
  BY MineIsARun, TaskAssumption DEF TaskProofs!TypeInv, TaskProofs!TypeOK
<1>7. step = "idle" =>
        TaskProofs!StartRun \/ UNCHANGED TaskProofs!vars \/ TaskProofs!EndProcess
  BY <1>0, TaskAssumption, TaskProofs!IdleWaits
    DEF TaskProofs!Next, TaskProofs!Exit, TaskProofs!Crash, TaskProofs!Finished
<1>8. CASE TaskProofs!StartRun
  <2>1. run' \in 1..MaxRuns /\ Mine' = StartOf[run + 1] /\ run + 1 > run
    BY <1>5, <1>6, <1>8, TaskAssumption DEF TaskProofs!StartRun, Mine
  <2>2. pc[Mine'] = "idle" /\ Mine' \in Run
    BY <1>5, <1>8, <2>1, StartOfAssumption DEF Joint, Untouched
  <2>3. client[Mine'] = "none"
    BY <2>2 DEF Inv, OneLife, OneLifeFor
  <2>4. sandbox' = "none" /\ exit' = "none"
    BY <1>5, <1>8 DEF Joint, Cold
  <2>5. Untouched'
    <3> SUFFICES ASSUME NEW k \in 1..MaxRuns, k > run' PROVE pc[StartOf[k]] = "idle"
      BY <1>0, <2>1 DEF Untouched
    <3>1. k > run
      BY <1>5, <1>6, <1>8
    <3> QED BY <3>1 DEF Joint, Untouched
  <2>6. Cold' /\ Known'
    BY <1>0, <2>3, <2>4 DEF Cold, Known
  <2>7. Recorded'
    BY <1>0, <1>5, <1>8, <2>2 DEF Recorded
  <2> QED BY <2>5, <2>6, <2>7 DEF Joint
<1>9. CASE run' = run /\ ~TaskProofs!StartRun
  <2>1. Mine' = Mine
    BY <1>9 DEF Mine
  <2>2. Untouched'
    BY <1>0, <1>9 DEF Joint, Untouched
  <2>3. UNCHANGED TaskProofs!vars => UNCHANGED <<step, sandbox, exit>>
    BY DEF TaskProofs!vars, TaskProofs!port
  <2>4. Cold'
    BY <1>1, <1>4, <2>3 DEF Joint, Cold
  <2>5. Known'
    <3>1. CASE TaskProofs!EndProcess
      BY <1>4, <3>1 DEF Known
    <3>2. CASE ~TaskProofs!EndProcess
      <4>1. UNCHANGED <<sandbox, exit>> /\ step # "start"
        BY <1>0, <1>3, <3>2 DEF Ports
      <4>2. step = "idle" => step' = "idle"
        BY <1>7, <1>9, <2>3, <3>2
      <4> QED BY <1>0, <1>9, <2>1, <4>1, <4>2 DEF Joint, Known
    <3> QED BY <3>1, <3>2
  <2>6. step' = "start" => TaskProofs!OnRecord'
    BY <1>1 DEF Joint, Recorded, TaskProofs!Onward
  <2>7. ASSUME run > 0, pc[Mine] # "idle" PROVE step' # "created" /\ TaskProofs!OnRecord'
    <3>1. step # "created" /\ TaskProofs!OnRecord
      BY <2>7 DEF Joint, Recorded
    <3>2. TaskProofs!OnRecord'
      BY <1>1, <3>1 DEF TaskProofs!Onward
    <3>3. step' # "created"
      BY <1>1, <1>9, <2>3, <3>1
    <3> QED BY <3>2, <3>3
  <2>8. Recorded'
    BY <1>0, <1>9, <2>1, <2>6, <2>7 DEF Recorded
  <2> QED BY <2>2, <2>4, <2>5, <2>8 DEF Joint
<1> QED BY <1>2, <1>5, <1>6, <1>8, <1>9

\* Of the three ports, the log and the run know nothing.
LEMMA PortJoint ==
  ASSUME Parts, Joint, UNCHANGED <<run, lines, flushed>>,
         Untouched', Known', step \in Ports, step' \notin {"idle", "start", "created"},
         run > 0 /\ pc[Mine] = "idle" => pc'[Mine] = "idle"
  PROVE  Joint'
<1>1. Mine' = Mine
  BY DEF Mine
<1>2. TaskProofs!OnRecord' <=> TaskProofs!OnRecord
  BY DEF TaskProofs!OnRecord, TaskProofs!Fresh, TaskProofs!Status, TaskProofs!Event
<1>3. Cold'
  BY DEF Cold
<1>4. Recorded'
  BY <1>1, <1>2 DEF Joint, Recorded
<1> QED BY <1>3, <1>4 DEF Joint

LEMMA StartJoint ==
  ASSUME Parts, Joint, StartReturns
  PROVE  Joint'
<1>1. /\ TaskProofs!StartRunner /\ UNCHANGED vars /\ step = "start"
      /\ step' = "runError" => (sandbox' = "up" <=> client[Mine] # "none")
  BY SameSteps DEF StartReturns
<1>2. /\ UNCHANGED <<run, lines, flushed, exit>> /\ step' \in {"collect", "runError"}
      /\ sandbox' \in {sandbox, "up"} /\ (step' = "collect" => sandbox' = "up")
  BY <1>1 DEF TaskProofs!StartRunner, TaskProofs!Goto, TaskProofs!ledger
<1>3. Untouched'
  BY <1>1, <1>2 DEF Joint, Untouched, vars
<1>4. Mine' = Mine /\ UNCHANGED <<pc, client, agent, removed>>
  BY <1>1, <1>2 DEF Mine, vars
<1>5. Known'
  BY <1>1, <1>2, <1>4 DEF Joint, Known
<1> QED BY <1>1, <1>2, <1>3, <1>4, <1>5, PortJoint DEF Ports

LEMMA CollectJoint ==
  ASSUME Parts, Joint, CollectReturns
  PROVE  Joint'
<1>1. /\ TaskProofs!CollectExit /\ UNCHANGED vars /\ step = "collect"
      /\ step' = "logs" =>
           exit' = ExitOf(Mine) /\ (sandbox' = "exited" <=> result[Mine] = "ok" \/ removed[Mine])
  BY SameSteps DEF CollectReturns
<1>2. /\ UNCHANGED <<run, lines, flushed>> /\ step' \in {"logs", "stop"}
      /\ sandbox' \in {sandbox, "exited"}
      /\ step' = "stop" => UNCHANGED <<exit, sandbox>>
  BY <1>1 DEF TaskProofs!CollectExit, TaskProofs!Goto, TaskProofs!ledger
<1>3. Untouched'
  BY <1>1, <1>2 DEF Joint, Untouched, vars
<1>4. Mine' = Mine /\ UNCHANGED <<pc, client, agent, removed>>
  BY <1>1, <1>2 DEF Mine, vars
<1>5. Mine \in Run
  BY <1>1, MineIsARun DEF Parts
<1>6. result[Mine] = "ok" => agent[Mine] = "ok"
  BY <1>5 DEF Parts, Inv, Truthful
<1>7. ExitOf(Mine) = "zero" => result[Mine] = "ok"
  BY DEF ExitOf
<1>8. Known'
  BY <1>1, <1>2, <1>4, <1>6, <1>7 DEF Joint, Known
<1> QED BY <1>1, <1>2, <1>3, <1>4, <1>8, PortJoint DEF Ports

LEMMA StopJoint ==
  ASSUME Parts, Joint, StopReturns
  PROVE  Joint'
<1> USE DEF Parts
<1>1. /\ TaskProofs!StopRunner /\ Stop(Mine) /\ step = "stop"
      /\ sandbox' = "exited" <=> removed'[Mine]
  BY SameSteps DEF StopReturns
<1>2. /\ UNCHANGED <<run, lines, flushed, exit>> /\ step' = "runError"
      /\ sandbox' \in {sandbox, "exited"}
  BY <1>1 DEF TaskProofs!StopRunner, TaskProofs!Goto, TaskProofs!ledger
<1>3. Mine' = Mine /\ Mine \in Run /\ run \in 1..MaxRuns /\ Mine = StartOf[run]
  BY <1>1, <1>2, MineIsARun DEF Mine
<1>4. agent[Mine] = "ok" => agent'[Mine] = "ok"
  BY <1>1, <1>3, RunnerKeeps
<1>5. client[Mine] = "none" => client'[Mine] = "none"
  <2>1. CASE RemoveByName(Mine)
    BY <1>3, <2>1, RemovalLeaves DEF Inv
  <2> QED BY <1>1, <2>1 DEF Stop
<1>6. Untouched'
  <2> SUFFICES ASSUME NEW k \in 1..MaxRuns, k > run PROVE pc'[StartOf[k]] = "idle"
    BY <1>2 DEF Untouched
  <2>1. StartOf[k] \in Run /\ StartOf[k] # Mine
    BY <1>3, StartOfAssumption
  <2>2. pc'[StartOf[k]] = pc[StartOf[k]]
    BY <1>1, <1>3, <2>1, OthersWait
  <2> QED BY <2>2 DEF Joint, Untouched
<1>7. Known'
  BY <1>1, <1>2, <1>3, <1>4, <1>5 DEF Joint, Known
<1>8. pc[Mine] # "idle"
  BY <1>1 DEF Stop
<1> QED BY <1>1, <1>2, <1>6, <1>7, <1>8, PortJoint DEF Ports

LEMMA JointStep ==
  ASSUME Parts, Joint, [BothNext]_allVars
  PROVE  Joint'
<1>1. CASE Starting
  <2>1. Mine \in Run
    BY <1>1, MineIsARun DEF Starting, Parts
  <2> QED BY <1>1, <2>1, RunnerJoint DEF Starting
<1>2. CASE Around
  <2>1. PICK r \in Run : External(r) \/ (r \notin Own /\ (Spawn(r) \/ Caller(r) \/ Stop(r)))
    BY <1>2 DEF Around
  <2> QED BY <1>2, <2>1, RunnerJoint DEF Around
<1>3. CASE UNCHANGED allVars
  <2>1. UNCHANGED <<pc, client, agent, removed, step, run, sandbox, exit, lines, flushed>>
    BY <1>3 DEF allVars, vars, taskVars
  <2>2. Mine' = Mine /\ (TaskProofs!OnRecord' <=> TaskProofs!OnRecord)
    BY <2>1 DEF Mine, TaskProofs!OnRecord, TaskProofs!Fresh, TaskProofs!Status, TaskProofs!Event
  <2> QED BY <2>1, <2>2 DEF Joint, Untouched, Cold, Known, Recorded
<1> QED BY <1>1, <1>2, <1>3, TaskJoint, StartJoint, CollectJoint, StopJoint DEF BothNext

LEMMA BothHold == BothSpec => [](Parts /\ Joint)
<1>1. BothInit => Joint
  BY JointInit
<1>2. Parts /\ Joint /\ [BothNext]_allVars => Joint'
  BY JointStep
<1> QED BY <1>1, <1>2, PartsHold, PTL DEF BothSpec

-----------------------------------------------------------------------------

\* No agent of the latest run runs, or has run, unless the durable log says so and
\* why it was allowed, however the processes of the runs were killed.
THEOREM AgentsAreOnRecord == BothSpec => []AgentIsOnRecord
<1>1. BothSpec => []TaskProofs!EvidencePrecedesRunning
  <2>1. TaskProofs!Spec => []TaskProofs!EvidencePrecedesRunning
    BY TaskAssumption, TaskProofs!PermissionPrecedesRunning
  <2> QED BY <2>1, TaskBehaves, PTL
<1>2. Parts /\ Joint /\ TaskProofs!EvidencePrecedesRunning => AgentIsOnRecord
  <2> SUFFICES ASSUME Parts, Joint, TaskProofs!EvidencePrecedesRunning, run > 0,
                      Running(Mine) \/ agent[Mine] # "none"
               PROVE  \E j \in 1..flushed :
                        /\ lines[j] = Task!Status("Running")
                        /\ \A k \in (j + 1)..flushed : lines[k] # Task!Status("Created")
                        /\ \E i \in 1..(j - 1) :
                             /\ lines[i] \in Task!Permit
                             /\ \A k \in (i + 1)..(j - 1) : lines[k] # Task!Status("Created")
    BY DEF AgentIsOnRecord
  <2>1. Mine \in Run
    BY MineIsARun DEF Parts
  <2>2. pc[Mine] # "idle"
    BY <2>1 DEF Running, Live, Parts, Inv, OneLife, OneLifeFor
  <2>3. PICK j \in 1..flushed :
          /\ lines[j] = TaskProofs!Status("Running")
          /\ \A k \in (j + 1)..Len(lines) : lines[k] # TaskProofs!Fresh
    BY <2>2 DEF Joint, Recorded, TaskProofs!OnRecord
  <2>4. lines \in Seq(TaskProofs!Line) /\ Len(lines) \in Nat /\ flushed \in 0..Len(lines)
    BY DEF Parts, TaskProofs!TypeInv, TaskProofs!TypeOK
  <2>5. j \in DOMAIN lines /\ j \in Nat
    BY <2>3, <2>4
  <2>6. PICK i \in 1..(j - 1) :
          /\ lines[i] \in TaskProofs!Permit
          /\ \A k \in (i + 1)..(j - 1) :
               lines[k] \notin
                 {TaskProofs!Status(x) : x \in {"Created", "Running"} \cup TaskProofs!Terminal}
    BY <2>3, <2>5 DEF TaskProofs!EvidencePrecedesRunning
  <2>7. \A k \in (j + 1)..flushed : lines[k] # TaskProofs!Status("Created")
    BY <2>3, <2>4, <2>5 DEF TaskProofs!Fresh
  <2>8. \A k \in (i + 1)..(j - 1) : lines[k] # TaskProofs!Status("Created")
    BY <2>6
  <2>9. /\ \A x : Task!Status(x) = TaskProofs!Status(x)
        /\ Task!Permit = TaskProofs!Permit
    BY DEF Task!Status, TaskProofs!Status, Task!Event, TaskProofs!Event, Task!Permit,
           TaskProofs!Permit
  <2> QED BY <2>3, <2>6, <2>7, <2>8, <2>9
<1> QED BY <1>1, <1>2, BothHold, PTL

\* A run that returns Succeeded had its agent end well, and no container of it
\* runs on, whoever else uses the container's name.
THEOREM SuccessesAreTheAgents == BothSpec => []SuccessIsTheAgents
<1>1. BothSpec => []TaskProofs!CleanOutcome
  <2>1. TaskProofs!Spec => []TaskProofs!CleanOutcome
    BY TaskAssumption, TaskProofs!CleanRunsAreWhole
  <2> QED BY <2>1, TaskBehaves, PTL
<1>2. Parts /\ Joint /\ TaskProofs!CleanOutcome => SuccessIsTheAgents
  <2> SUFFICES ASSUME Parts, Joint, TaskProofs!CleanOutcome, step = "returned",
                      final = "Succeeded"
               PROVE  agent[Mine] = "ok" /\ ~Running(Mine)
    BY DEF SuccessIsTheAgents
  <2>1. exit = "zero"
    BY DEF TaskProofs!CleanOutcome
  <2>2. run > 0 /\ Mine \in Run
    BY MineIsARun DEF Parts
  <2>3. agent[Mine] = "ok"
    BY <2>1, <2>2 DEF Joint, Known
  <2> QED BY <2>2, <2>3 DEF Running, Live, Parts, Inv, OneLife, OneLifeFor
<1> QED BY <1>1, <1>2, BothHold, PTL

\* A run that returns or gives up, and was not told that its runner failed, leaves
\* no agent behind and no request that could still start one.
THEOREM NothingOutlivesTheRun == BothSpec => []NothingRunsOn
<1>1. BothSpec => []TaskProofs!NoSilentLeak
  <2>1. TaskProofs!Spec => []TaskProofs!NoSilentLeak
    BY TaskAssumption, TaskProofs!NoRunLeaksSilently
  <2> QED BY <2>1, TaskBehaves, PTL
<1>2. Parts /\ Joint /\ TaskProofs!NoSilentLeak => NothingRunsOn
  <2> SUFFICES ASSUME Parts, Joint, TaskProofs!NoSilentLeak, step \in Task!Done,
                      leak = {}, run > 0
               PROVE  ~Running(Mine)
    BY DEF NothingRunsOn
  <2>1. Mine \in Run
    BY MineIsARun DEF Parts
  <2>2. sandbox \in {"none", "exited"} /\ step \notin {"idle", "start"}
    BY DEF TaskProofs!NoSilentLeak, TaskProofs!Done, Task!Done, Parts, TaskProofs!TypeInv,
           TaskProofs!TypeOK
  <2>3. client[Mine] = "none" \/ agent[Mine] = "ok" \/ removed[Mine]
    BY <2>2 DEF Joint, Known
  <2> QED BY <2>1, <2>3
    DEF Running, Live, Parts, Inv, OneLife, OneLifeFor, Over, OverFor
<1> QED BY <1>1, <1>2, BothHold, PTL
=============================================================================
