------------------------- MODULE MapReduceJobProofs -------------------------
(***************************************************************************)
(* Theorems about MapReduce when heartbeats are punctual, so that          *)
(* CheckAliveMachine never gives up on a process that is still running:    *)
(* whatever crashes, map outputs are read once from machines that live;    *)
(* and when nothing crashes the job is the sequential program.             *)
(***************************************************************************)
EXTENDS MapReduceProofs

(* A task is recorded as finished by its AssignedWorker.                   *)
LEMMA FinishedTask ==
    ASSUME NEW s \in TaskState, s.status = "completed", NEW w
    PROVE  s = Finished(w) <=> s.AssignedWorker = w
  BY DEF TaskState, Finished

(* What is read once stays below the cap of Plus.                          *)
LEMMA BelowCap ==
    ASSUME NEW a \in {0, 1}
    PROVE  /\ (IF 0 + a > 2 THEN 2 ELSE 0 + a) = a
           /\ (IF a + 0 > 2 THEN 2 ELSE a + 0) = a
  OBVIOUS

(* No process but w does anything.                                         *)
Quiet(w) ==
    \A v \in Ids \ {w} :
       /\ pc'[v] = pc[v] /\ TaskID'[v] = TaskID[v] /\ part'[v] = part[v]
       /\ Workers'[v] = Workers[v] /\ unread'[v] = unread[v]
       /\ intermediate'[v] = intermediate[v] /\ file'[v] = file[v] /\ created'[v] = created[v]

(* The files of a machine that has no map task are what it has completed.  *)
LEMMA FilesFrame ==
    ASSUME NEW w \in Ids, Once(w), IsAlive' = IsAlive, file'[w] = file[w], tasks' = tasks,
           ~HasMap(w), ~HasMap(w)'
    PROVE  FilesOnce(w)'
  <1>1. ASSUME NEW t \in Maps, NEW r \in Reduces
        PROVE  HasSaved(w, t, r)' <=> HasSaved(w, t, r)
    BY DEF HasSaved, HasMap, IsDone
  <1>. QED
    BY Zenon, <1>1 DEF Once, FilesOnce, Times

(* A step in which process v does nothing keeps what v's files hold and    *)
(* what v has read, unless it changes a task of v or of v's list.          *)
LEMMA OnceFrame ==
    ASSUME NEW v \in Ids, Once(v),
           pc'[v] = pc[v], TaskID'[v] = TaskID[v], part'[v] = part[v],
           Workers'[v] = Workers[v], unread'[v] = unread[v],
           intermediate'[v] = intermediate[v], file'[v] = file[v], created'[v] = created[v],
           \A i \in Workers[v] : pc[i] # "start" => pc'[i] # "start",
           v \in IsAlive' => v \in IsAlive,
           Workers[v] \subseteq IsAlive' => Workers[v] \subseteq IsAlive,
           v \in IsAlive => \A t \in Maps : IsDone(t, v)' <=> IsDone(t, v),
           ListDone(v) /\ Workers[v] \subseteq IsAlive => tasks' = tasks
    PROVE  Once(v)'
  <1>1. Unborn(v)' /\ ListBorn(v)' /\ NothingRead(v)'
    BY DEF Once, Unborn, ListBorn, NothingRead
  <1>2. FilesOnce(v)'
    <2>1. ASSUME v \in IsAlive', NEW t \in Maps, NEW r \in Reduces
          PROVE  HasSaved(v, t, r)' <=> HasSaved(v, t, r)
      BY <2>1 DEF HasSaved
    <2>. QED
      BY Zenon, <2>1 DEF Once, FilesOnce, Times
  <1>3. ReadOnce(v)'
    <2>1. CASE pc[v] \in {"askReduce", "reduce"} /\ Workers[v] \subseteq IsAlive
      <3>1. ListDone(v) /\ tasks' = tasks
        BY <2>1 DEF Once, ReadOnce
      <3>. QED
        BY <2>1, <3>1 DEF Once, ReadOnce, ListDone, ReadSoFar, HasRead, Complete
    <2>2. CASE pc[v] \notin {"askReduce", "reduce"}
      BY <2>2 DEF Once, ReadOnce, HasRead, Complete
    <2>. QED
      BY <2>1, <2>2 DEF ReadOnce
  <1>. QED
    BY <1>1, <1>2, <1>3 DEF Once

(* A step of one process, when it changes neither the tasks nor who is     *)
(* alive, matters to that process only.                                    *)
LEMMA OnceQuiet ==
    ASSUME TypeOK, OnceInv, NEW w \in Ids, UNCHANGED <<tasks, IsAlive>>, Quiet(w),
           pc[w] # "start", pc'[w] # "start",
           \/ Workers'[w] = Workers[w]
           \/ \A i \in Workers'[w] : i \in Ids /\ pc[i] # "start",
           FilesOnce(w)', NothingRead(w)', ReadOnce(w)'
    PROVE  OnceInv'
  <1>. USE DEF OnceInv
  <1>1. \A i \in Ids : pc[i] # "start" => pc'[i] # "start"
    BY DEF Quiet
  <1>2. ASSUME NEW v \in Ids \ {w}
        PROVE  Once(v)'
    <2>1. \A i \in Workers[v] : pc[i] # "start" => pc'[i] # "start"
      BY Zenon, <1>1 DEF TypeOK, WTypeOK
    <2>. QED
      BY <2>1, OnceFrame DEF Quiet, IsDone
  <1>3. Unborn(w)' /\ ListBorn(w)'
    BY <1>1 DEF Once, Unborn, ListBorn, TypeOK, WTypeOK
  <1>. QED
    BY <1>2, <1>3 DEF Once

(* Register: the new machine is in nobody's list and has no file.          *)
LEMMA OnceRegister ==
    ASSUME TypeOK, CoverInv, HolderInv, OnceInv,
           NEW w \in Ids, RegisterWorker(w)
    PROVE  OnceInv'
  <1>. USE DEF OnceInv
  <1>1. /\ pc[w] = "start" /\ pc'[w] = "idle" /\ IsAlive' = IsAlive \cup {w} /\ Quiet(w)
        /\ UNCHANGED <<tasks, TaskID, part, Workers, unread, intermediate, file, created>>
    BY DEF RegisterWorker, Register, At, Goto, Quiet, TypeOK, WTypeOK
  <1>2. ASSUME NEW v \in Ids
        PROVE  w \notin Workers[v]
    BY Zenon, <1>1 DEF Once, ListBorn
  <1>3. \A v \in Ids \ {w} : Once(v)'
    <2>1. ASSUME NEW v \in Ids \ {w}
          PROVE  /\ \A i \in Workers[v] : pc[i] # "start" => pc'[i] # "start"
                 /\ Workers[v] \subseteq IsAlive' => Workers[v] \subseteq IsAlive
      BY <1>1, <1>2 DEF Quiet, TypeOK, WTypeOK
    <2>. QED
      BY <1>1, <2>1, OnceFrame DEF Quiet, IsDone
  <1>4. ASSUME NEW t \in Maps, NEW r \in Reduces
        PROVE  file'[w][r][t] = Times(w, t, r)'
    <2>1. ~IsDone(t, w)
      <3>1. IsDone(t, w) => Saved(w, t)
        BY DEF CoverInv, CompletedSaved, IsDone, Finished
      <3>2. r \notin created[w]
        BY <1>1 DEF Once, Unborn
      <3>. QED
        BY Zenon, <3>1, <3>2 DEF Saved, SavedIn
    <2>2. file[w][r][t] = 0
      BY <1>1 DEF Once, Unborn, Empty
    <2>. QED
      BY <1>1, <2>1, <2>2 DEF Times, HasSaved, IsDone
  <1>5. ListBorn(w)'
    BY <1>1, <1>2 DEF Once, ListBorn, Quiet, TypeOK, WTypeOK
  <1>6. Unborn(w)' /\ FilesOnce(w)' /\ NothingRead(w)' /\ ReadOnce(w)'
    BY Zenon, <1>1, <1>4 DEF Once, Unborn, FilesOnce, NothingRead, ReadOnce, HasRead
  <1>. QED
    BY Zenon, <1>3, <1>5, <1>6 DEF Once

(* The request for a task, and an empty reply.                             *)
LEMMA OnceAsk ==
    ASSUME TypeOK, CoverInv, HolderInv, OnceInv,
           NEW w \in Ids, AskTask(w) \/ HandleNoTask(w)
    PROVE  OnceInv'
  <1>. USE DEF OnceInv
  <1>1. /\ UNCHANGED <<tasks, IsAlive, TaskID, part, Workers, unread, intermediate, file, created>>
        /\ Quiet(w) /\ pc[w] \in {"idle", "askMap", "askReduce"} /\ pc'[w] \in {"idle", "asking"}
    BY DEF AskTask, CallAssignTask, HandleNoTask, At, Goto, Quiet, cvars, TypeOK, WTypeOK
  <1>2. FilesOnce(w)'
    BY Zenon, <1>1, FilesFrame DEF HasMap
  <1>3. NothingRead(w)' /\ ReadOnce(w)'
    BY <1>1 DEF Once, NothingRead, ReadOnce, HasRead
  <1>. QED
    BY Zenon, <1>1, <1>2, <1>3, OnceQuiet

(* MapDone lists the machines that have completed the tasks.               *)
LEMMA OnceMapDone ==
    ASSUME TypeOK, CoverInv, HolderInv, OnceInv,
           NEW w \in Ids, HandleMapDone(w)
    PROVE  OnceInv'
  <1>. USE DEF OnceInv
  <1>1. /\ UNCHANGED <<tasks, IsAlive, TaskID, part, unread, intermediate, file, created>>
        /\ Quiet(w) /\ pc[w] = "asking" /\ pc'[w] \in {"askMap", "askReduce"}
    BY Zenon DEF HandleMapDone, Goto, Quiet, cvars, TypeOK, WTypeOK
  <1>2. FilesOnce(w)'
    BY <1>1, FilesFrame DEF HasMap
  <1>3. CASE MapDone
    <2>1. pc'[w] = "askReduce" /\ Workers'[w] = {tasks[t].AssignedWorker : t \in Maps}
      BY Zenon, <1>3 DEF HandleMapDone, MapWorkers, Goto, TypeOK, WTypeOK
    <2>2. ListDone(w)'
      BY Zenon, <1>1, <1>3, <2>1 DEF ListDone, MapDone
    <2>3. ASSUME NEW i \in Workers'[w]
          PROVE  i \in Ids /\ pc[i] # "start"
      <3>1. i \in IsAlive /\ i \in Ids
        BY <1>3, <2>1 DEF MapDone, TypeOK, CTypeOK
      <3>. QED
        BY <3>1 DEF HolderInv, Holder
    <2>4. NothingRead(w)' /\ ReadOnce(w)'
      BY Zenon, <1>1, <2>1, <2>2 DEF Once, NothingRead, ReadOnce, HasRead
    <2>. QED
      BY Zenon, <1>1, <1>2, <2>3, <2>4, OnceQuiet
  <1>4. CASE ~MapDone
    <2>1. pc'[w] = "askMap" /\ Workers' = Workers
      BY Zenon, <1>4 DEF HandleMapDone, Goto, TypeOK, WTypeOK
    <2>2. NothingRead(w)' /\ ReadOnce(w)'
      BY Zenon, <1>1, <2>1 DEF Once, NothingRead, ReadOnce, HasRead
    <2>. QED
      BY Zenon, <1>1, <1>2, <2>1, <2>2, OnceQuiet
  <1>. QED
    BY Zenon, <1>3, <1>4

(* A map task is handed out only when no list that is alive relies on it.  *)
LEMMA OnceAssignMap ==
    ASSUME TypeOK, CoverInv, HolderInv, OnceInv,
           NEW w \in Ids, HandleAssignMap(w)
    PROVE  OnceInv'
  <1>. USE DEF OnceInv
  <1>1. PICK k \in Maps : /\ k \in OpenMaps
                          /\ tasks' = [tasks EXCEPT ![k] = HeldBy(w)]
                          /\ TaskID' = [TaskID EXCEPT ![w] = k]
    BY Zenon DEF HandleAssignMap, AssignMap, IsFirst, HeldBy
  <1>2. /\ UNCHANGED <<IsAlive, part, Workers, unread, intermediate, file, created>>
        /\ Quiet(w) /\ pc[w] = "askMap" /\ pc'[w] = "map" /\ part[w] = 0 /\ TaskID'[w] = k
    BY <1>1 DEF HandleAssignMap, AssignMap, Goto, Quiet, TypeOK, WTypeOK, CoverInv, WorkerCover
  <1>3. ASSUME NEW v \in IsAlive, NEW t \in Maps
        PROVE  IsDone(t, v)' <=> IsDone(t, v)
    <2>1. CASE t = k
      BY <1>1, <1>3, <2>1 DEF OpenMaps, HeldBy, IsDone, Finished, TypeOK, CTypeOK
    <2>2. CASE t # k
      BY Zenon, <1>1, <2>2 DEF IsDone, TypeOK, CTypeOK
    <2>. QED
      BY <2>1, <2>2
  <1>4. ASSUME NEW v \in Ids, ListDone(v), Workers[v] \subseteq IsAlive
        PROVE  FALSE
    BY <1>1, <1>4 DEF ListDone, OpenMaps
  <1>5. ASSUME NEW v \in Ids, NEW i \in Workers[v]
        PROVE  pc'[i] # "start"
    BY Zenon, <1>2 DEF Once, ListBorn, Quiet, TypeOK, WTypeOK
  <1>6. \A v \in Ids \ {w} : Once(v)'
    BY SMTT(30), <1>2, <1>3, <1>4, <1>5, OnceFrame DEF Quiet
  <1>7. FilesOnce(w)'
    <2>1. ASSUME w \in IsAlive, NEW t \in Maps, NEW r \in Reduces
          PROVE  HasSaved(w, t, r)' <=> HasSaved(w, t, r)
      <3>1. ~(r < part[w])
        BY <1>2 DEF Reduces
      <3>. QED
        BY Zenon, <1>2, <1>3, <2>1, <3>1 DEF HasSaved
    <2>. QED
      BY Zenon, <1>2, <2>1 DEF Once, FilesOnce, Times
  <1>8. Unborn(w)' /\ ListBorn(w)' /\ NothingRead(w)' /\ ReadOnce(w)'
    BY <1>2, <1>5 DEF Once, Unborn, ListBorn, NothingRead, ReadOnce, HasRead
  <1>. QED
    BY <1>6, <1>7, <1>8 DEF Once

(* A reduce task starts with all of its list unread.                       *)
LEMMA OnceAssignReduce ==
    ASSUME TypeOK, CoverInv, HolderInv, OnceInv,
           NEW w \in Ids, HandleAssignReduce(w)
    PROVE  OnceInv'
  <1>. USE DEF OnceInv
  <1>1. /\ UNCHANGED <<tasks, IsAlive, part, Workers, intermediate, file, created>>
        /\ Quiet(w) /\ pc[w] = "askReduce" /\ pc'[w] = "reduce" /\ unread'[w] = Workers[w]
    BY DEF HandleAssignReduce, AssignReduce, Goto, Quiet, TypeOK, WTypeOK
  <1>2. FilesOnce(w)'
    BY Zenon, <1>1, FilesFrame DEF HasMap
  <1>3. ASSUME Workers[w] \subseteq IsAlive
        PROVE  ListDone(w)' /\ \A t \in Maps : intermediate'[w][t] = ReadSoFar(w, t)'
    <2>1. ListDone(w) /\ intermediate[w] = Empty
      BY Zenon, <1>1, <1>3 DEF Once, NothingRead, ReadOnce
    <2>. QED
      BY Zenon, <1>1, <2>1 DEF ListDone, ReadSoFar, Empty
  <1>4. NothingRead(w)' /\ ReadOnce(w)'
    BY <1>1, <1>3 DEF NothingRead, ReadOnce, HasRead
  <1>. QED
    BY Zenon, <1>1, <1>2, <1>4, OnceQuiet

(* CompleteTask makes what a machine has saved what it has completed.      *)
LEMMA OnceComplete ==
    ASSUME TypeOK, CoverInv, HolderInv, OnceInv,
           NEW w \in Ids, HandleCompleteTask(w)
    PROVE  OnceInv'
  <1>. USE DEF OnceInv
  <1>. DEFINE k == TaskID[w]
  <1>1. /\ UNCHANGED <<IsAlive, part, Workers, unread, intermediate, file, created>>
        /\ Quiet(w) /\ pc[w] \in {"mapped", "reduced"} /\ pc'[w] = "idle" /\ w \in IsAlive
    BY Zenon DEF HandleCompleteTask, CompleteMap, CompleteReduce, Goto, Quiet, TypeOK, WTypeOK,
       HolderInv, Holder, Engaged, InHandler
  <1>2. ASSUME NEW v \in Ids, NEW i \in Workers[v]
        PROVE  pc'[i] # "start"
    BY <1>1 DEF Once, ListBorn, Quiet, TypeOK, WTypeOK
  <1>3. CASE pc[w] = "mapped" /\ CompleteMap(w, k)
    <2>1. tasks[k] = HeldBy(w) /\ k \in Maps /\ tasks' = [tasks EXCEPT ![k] = Finished(w)]
      BY <1>1, <1>3 DEF HolderInv, Holder, HasMap, CompleteMap, Finished, TypeOK, WTypeOK
    <2>2. ASSUME NEW v \in Ids \ {w}, NEW t \in Maps
          PROVE  IsDone(t, v)' <=> IsDone(t, v)
      <3>1. CASE t = k
        BY <2>1, <3>1 DEF IsDone, HeldBy, Finished, TypeOK, CTypeOK
      <3>2. CASE t # k
        BY Zenon, <2>1, <3>2 DEF IsDone, TypeOK, CTypeOK
      <3>. QED
        BY Zenon, <3>1, <3>2
    <2>3. ASSUME NEW v \in Ids, ListDone(v)
          PROVE  FALSE
      BY <2>1, <2>3 DEF ListDone, HeldBy
    <2>4. \A v \in Ids \ {w} : Once(v)'
      BY Zenon, <1>1, <1>2, <2>2, <2>3, OnceFrame DEF Quiet
    <2>5. ASSUME NEW t \in Maps, NEW r \in Reduces
          PROVE  HasSaved(w, t, r)' <=> HasSaved(w, t, r)
      <3>1. IsDone(t, w)' <=> (t = k \/ IsDone(t, w))
        BY <2>1 DEF IsDone, TypeOK, CTypeOK
      <3>. QED
        BY Zenon, <1>1, <1>3, <3>1 DEF HasSaved
    <2>6. FilesOnce(w)'
      BY Zenon, <1>1, <2>5 DEF Once, FilesOnce, Times
    <2>7. Unborn(w)' /\ ListBorn(w)' /\ NothingRead(w)' /\ ReadOnce(w)'
      BY Zenon, <1>1, <1>2, <1>3 DEF Once, Unborn, ListBorn, NothingRead, ReadOnce, HasRead
    <2>. QED
      BY Zenon, <2>4, <2>6, <2>7 DEF Once
  <1>4. CASE pc[w] = "reduced" /\ CompleteReduce(w, k)
    <2>1. UNCHANGED tasks
      BY <1>4 DEF CompleteReduce
    <2>2. FilesOnce(w)'
      BY Zenon, <1>1, <1>4, <2>1, FilesFrame DEF HasMap
    <2>3. NothingRead(w)' /\ ReadOnce(w)'
      BY Zenon, <1>1, <1>4 DEF Once, NothingRead, ReadOnce, HasRead
    <2>. QED
      BY Zenon, <1>1, <2>1, <2>2, <2>3, OnceQuiet
  <1>. QED
    BY Zenon, <1>3, <1>4 DEF HandleCompleteTask

(* saveIntermediate appends a task that the file does not hold yet.        *)
LEMMA OnceSave ==
    ASSUME TypeOK, CoverInv, HolderInv, OnceInv,
           NEW w \in Ids, SavePartition(w), UNCHANGED cvars
    PROVE  OnceInv'
  <1>. USE DEF OnceInv
  <1>. DEFINE q == part[w]
              k == TaskID[w]
  <1>1. /\ UNCHANGED <<tasks, IsAlive, pc, TaskID, Workers, unread, intermediate>>
        /\ Quiet(w) /\ pc[w] = "map" /\ up[w] /\ k \in Maps /\ part'[w] = q + 1
    BY Zenon DEF SavePartition, At, Quiet, cvars, TypeOK, WTypeOK
  <1>2. q \in Reduces
    BY SizeAssumption DEF SavePartition, TypeOK, WTypeOK, Reduces
  <1>3. file'[w] = [file[w] EXCEPT ![q] = Plus(file[w][q], Emitted(k, q))]
    BY SMTT(30), <1>2 DEF SavePartition, TypeOK, WTypeOK
  <1>4. tasks[k] = HeldBy(w)
    BY Zenon, <1>1 DEF HolderInv, Holder, Engaged, HasMap
  <1>5. ASSUME w \in IsAlive, NEW t \in Maps, NEW r \in Reduces
        PROVE  file'[w][r][t] = Times(w, t, r)'
    <2>1. file[w][r][t] = Times(w, t, r) /\ file[w] \in [Reduces -> Contents]
      BY Zenon, <1>5 DEF Once, FilesOnce, TypeOK, WTypeOK
    <2>2. CASE r # q
      <3>1. file'[w][r] = file[w][r]
        BY Zenon, <1>2, <1>3, <2>1, <2>2
      <3>2. HasSaved(w, t, r)' <=> HasSaved(w, t, r)
        BY SMTT(30), <1>1, <1>2, <2>2, SizeAssumption DEF HasSaved, IsDone, Reduces
      <3>. QED
        BY <2>1, <3>1, <3>2 DEF Times
    <2>3. CASE r = q
      <3>1. file'[w][r][t] = Plus(file[w][r], Emitted(k, r))[t]
        BY Zenon, <1>2, <1>3, <2>1, <2>3
      <3>2. t = k => ~HasSaved(w, t, r) /\ HasSaved(w, t, r)'
        BY <1>1, <1>2, <1>4, <2>3, SizeAssumption
           DEF HasSaved, IsDone, Finished, HeldBy, Reduces
      <3>3. t # k => (HasSaved(w, t, r)' <=> HasSaved(w, t, r))
        BY Zenon, <1>1 DEF HasSaved, IsDone
      <3>4. file'[w][r][t] = IF file[w][r][t] + Emitted(k, r)[t] > 2 THEN 2
                            ELSE file[w][r][t] + Emitted(k, r)[t]
        BY <3>1 DEF Plus, Twice
      <3>5. Emitted(k, r)[t] = IF t = k /\ <<k, r>> \in Emits THEN 1 ELSE 0
        BY Zenon DEF Emitted
      <3>6. CASE t = k
        <4>1. file[w][r][t] = 0 /\ Times(w, t, r)' = IF <<k, r>> \in Emits THEN 1 ELSE 0
          BY Zenon, <2>1, <3>2, <3>6 DEF Times
        <4>. QED
          BY <3>4, <3>5, <3>6, <4>1
      <3>7. CASE t # k
        <4>1. file[w][r][t] = Times(w, t, r)' /\ file[w][r][t] \in {0, 1}
          BY Zenon, <2>1, <3>3, <3>7 DEF Times
        <4>. QED
          BY <3>4, <3>5, <3>7, <4>1
      <3>. QED
        BY Zenon, <3>6, <3>7
    <2>. QED
      BY <2>2, <2>3
  <1>6. FilesOnce(w)'
    BY SMTT(30), <1>1, <1>5 DEF FilesOnce
  <1>7. NothingRead(w)' /\ ReadOnce(w)'
    <2>1. NothingRead(w) /\ ~HasRead(w)' /\ pc'[w] # "reduce"
      BY Zenon, <1>1 DEF Once, HasRead
    <2>. QED
      BY Zenon, <1>1, <2>1 DEF NothingRead, ReadOnce
  <1>. QED
    BY Zenon, <1>1, <1>6, <1>7, OnceQuiet

(* processRTask reads one file, which holds the tasks of its machine only. *)
LEMMA OnceRead ==
    ASSUME TypeOK, CoverInv, CoverInv', HolderInv, OnceInv,
           NEW w \in Ids, NEW i \in Ids, ReadFile(w, i), UNCHANGED cvars
    PROVE  OnceInv'
  <1>. USE DEF OnceInv
  <1>. DEFINE r == TaskID[w]
  <1>1. /\ UNCHANGED <<tasks, IsAlive, TaskID, part, Workers, file, created>>
        /\ Quiet(w) /\ pc[w] = "reduce" /\ r \in Reduces
        /\ i \in unread[w] /\ unread'[w] = unread[w] \ {i} /\ unread[w] \subseteq Workers[w]
    BY DEF ReadFile, Goto, At, Quiet, cvars, TypeOK, WTypeOK, CoverInv, WorkerCover
  <1>2. pc'[w] # "fatal"
    BY Zenon DEF CoverInv, WorkerCover
  <1>3. pc' = pc /\ intermediate'[w] = Plus(intermediate[w], file[i][r])
    BY Zenon, <1>2 DEF ReadFile, Goto, TypeOK, WTypeOK
  <1>4. FilesOnce(w)'
    BY Zenon, <1>1, <1>3, FilesFrame DEF HasMap
  <1>5. ASSUME Workers[w] \subseteq IsAlive
        PROVE  ListDone(w)' /\ \A t \in Maps : intermediate'[w][t] = ReadSoFar(w, t)'
    <2>1. ListDone(w) /\ i \in IsAlive
      BY Zenon, <1>1, <1>5 DEF Once, ReadOnce
    <2>2. ASSUME NEW t \in Maps
          PROVE  intermediate'[w][t] = ReadSoFar(w, t)'
      <3>1. intermediate[w][t] = ReadSoFar(w, t)
        BY Zenon, <1>1, <1>5 DEF Once, ReadOnce
      <3>2. file[i][r][t] = Times(i, t, r)
        BY Zenon, <1>1, <2>1 DEF Once, FilesOnce
      <3>3. HasSaved(i, t, r) <=> tasks[t].AssignedWorker = i
        <4>1. tasks[t] \in TaskState /\ tasks[t].status = "completed"
          BY Zenon, <2>1 DEF ListDone, TypeOK, CTypeOK
        <4>2. IsDone(t, i) <=> tasks[t].AssignedWorker = i
          BY Zenon, <4>1, FinishedTask DEF IsDone
        <4>3. HasMap(i) => TaskID[i] # t
          <5>1. HasMap(i) => tasks[TaskID[i]] = HeldBy(i)
            BY Zenon, <2>1 DEF HolderInv, Holder
          <5>2. tasks[t] # HeldBy(i)
            <6>1. HeldBy(i).status = "processing"
              BY Zenon DEF HeldBy
            <6>. QED
              BY Zenon, <4>1, <6>1
          <5>. QED
            BY Zenon, <5>1, <5>2
        <4>. QED
          BY Zenon, <4>2, <4>3 DEF HasSaved, HasMap
      <3>4. intermediate'[w][t] = Plus(intermediate[w], file[i][r])[t]
        BY Zenon, <1>3
      <3>5. intermediate'[w][t] = IF intermediate[w][t] + file[i][r][t] > 2 THEN 2
                                  ELSE intermediate[w][t] + file[i][r][t]
        BY <3>4 DEF Plus, Twice
      <3>6. Complete(r)[t] = IF <<t, r>> \in Emits THEN 1 ELSE 0
        BY Zenon DEF Complete
      <3>7. CASE tasks[t].AssignedWorker = i
        <4>1. file[i][r][t] = Complete(r)[t]
          BY Zenon, <3>2, <3>3, <3>6, <3>7 DEF Times
        <4>2. ReadSoFar(w, t) = 0 /\ ReadSoFar(w, t)' = Complete(r)[t]
          BY Zenon, <1>1, <3>7 DEF ReadSoFar
        <4>. QED
          <5>1. Complete(r)[t] \in {0, 1}
            BY Zenon, <3>6
          <5>2. intermediate[w][t] = 0
            BY Zenon, <3>1, <4>2
          <5>. QED
            BY Zenon, <3>5, <4>1, <4>2, <5>1, <5>2, BelowCap
      <3>8. CASE tasks[t].AssignedWorker # i
        <4>1. file[i][r][t] = 0
          BY Zenon, <3>2, <3>3, <3>8 DEF Times
        <4>2. ReadSoFar(w, t)' = ReadSoFar(w, t) /\ ReadSoFar(w, t) \in {0, Complete(r)[t]}
          BY Zenon, <1>1, <3>8 DEF ReadSoFar
        <4>. QED
          <5>1. intermediate[w][t] \in {0, 1}
            BY Zenon, <3>1, <3>6, <4>2
          <5>. QED
            BY Zenon, <3>1, <3>5, <4>1, <4>2, <5>1, BelowCap
      <3>. QED
        BY Zenon, <3>7, <3>8
    <2>. QED
      BY Zenon, <1>1, <2>1, <2>2 DEF ListDone
  <1>6. NothingRead(w)' /\ ReadOnce(w)'
    BY Zenon, <1>1, <1>3, <1>5 DEF NothingRead, ReadOnce, HasRead
  <1>. QED
    BY Zenon, <1>1, <1>3, <1>4, <1>6, OnceQuiet

(* After the last file, everything has been read.                          *)
LEMMA OnceSort ==
    ASSUME TypeOK, CoverInv, HolderInv, OnceInv,
           NEW w \in Ids, SortIntermediate(w) \/ CreateOutput(w), UNCHANGED cvars
    PROVE  OnceInv'
  <1>. USE DEF OnceInv
  <1>1. /\ UNCHANGED <<tasks, IsAlive, TaskID, part, Workers, unread, intermediate, file, created>>
        /\ Quiet(w) /\ pc[w] \in {"reduce", "create"} /\ pc'[w] \in {"create", "write"}
        /\ pc[w] = "reduce" => unread[w] = {}
    BY Zenon DEF SortIntermediate, CreateOutput, Goto, At, Quiet, cvars, TypeOK, WTypeOK
  <1>2. FilesOnce(w)'
    BY Zenon, <1>1, FilesFrame DEF HasMap
  <1>3. ASSUME Workers[w] \subseteq IsAlive
        PROVE  intermediate[w] = Complete(TaskID[w])
    <2>1. CASE pc[w] = "reduce"
      <3>1. \A t \in Maps : intermediate[w][t] = Complete(TaskID[w])[t]
        BY Zenon, <1>1, <1>3, <2>1 DEF Once, ReadOnce, ReadSoFar
      <3>2. intermediate[w] \in [Maps -> 0 .. Twice] /\ Complete(TaskID[w]) \in [Maps -> 0 .. 1]
        BY DEF TypeOK, WTypeOK, Contents, Complete
      <3>. QED
        <4>. DEFINE f == intermediate[w]
                    g == Complete(TaskID[w])
        <4>1. f \in [Maps -> 0 .. Twice] /\ g \in [Maps -> 0 .. 1] /\ \A t \in Maps : f[t] = g[t]
          BY Zenon, <3>1, <3>2
        <4>. HIDE DEF f, g
        <4>2. f = g
          BY <4>1
        <4>. QED
          BY Zenon, <4>2 DEF f, g
    <2>2. CASE pc[w] = "create"
      BY Zenon, <1>3, <2>2 DEF Once, ReadOnce, HasRead
    <2>. QED
      BY Zenon, <1>1, <2>1, <2>2
  <1>4. NothingRead(w)' /\ ReadOnce(w)'
    BY SMTT(30), <1>1, <1>3 DEF NothingRead, ReadOnce, HasRead, Complete
  <1>. QED
    BY Zenon, <1>1, <1>2, <1>4, OnceQuiet

(* The lines of mr-out-r are written.                                      *)
LEMMA OnceWrite ==
    ASSUME TypeOK, CoverInv, HolderInv, OnceInv,
           NEW w \in Ids, WriteOutput(w), UNCHANGED cvars
    PROVE  OnceInv'
  <1>. USE DEF OnceInv
  <1>1. /\ UNCHANGED <<tasks, IsAlive, TaskID, part, Workers, unread, file, created>>
        /\ Quiet(w) /\ pc[w] = "write" /\ pc'[w] = "written" /\ intermediate'[w] = Empty
    BY Zenon DEF WriteOutput, Goto, At, Quiet, cvars, TypeOK, WTypeOK
  <1>2. FilesOnce(w)'
    BY Zenon, <1>1, FilesFrame DEF HasMap
  <1>3. NothingRead(w)' /\ ReadOnce(w)'
    BY ZenonT(30), <1>1 DEF NothingRead, ReadOnce, HasRead
  <1>. QED
    BY Zenon, <1>1, <1>2, <1>3, OnceQuiet

(* CompleteTask is sent once every partition is saved.                     *)
LEMMA OnceSend ==
    ASSUME TypeOK, CoverInv, HolderInv, OnceInv,
           NEW w \in Ids, SendComplete(w)
    PROVE  OnceInv'
  <1>. USE DEF OnceInv
  <1>1. /\ UNCHANGED <<tasks, IsAlive, TaskID, Workers, unread, intermediate, file, created>>
        /\ Quiet(w)
        /\ \/ pc[w] = "map" /\ pc'[w] = "mapped" /\ part[w] = NReduce
           \/ pc[w] = "written" /\ pc'[w] = "reduced"
    BY Zenon DEF SendComplete, CallCompleteTask, Goto, At, Quiet, cvars, TypeOK, WTypeOK
  <1>2. ASSUME NEW t \in Maps, NEW r \in Reduces
        PROVE  HasSaved(w, t, r)' <=> HasSaved(w, t, r)
    <2>1. r < NReduce
      BY SizeAssumption DEF Reduces
    <2>2. (IsDone(t, w)' <=> IsDone(t, w)) /\ TaskID' = TaskID
      BY Zenon, <1>1 DEF IsDone
    <2>. QED
      BY Zenon, <1>1, <2>1, <2>2 DEF HasSaved
  <1>3. FilesOnce(w)'
    BY ZenonT(30), <1>1, <1>2 DEF Once, FilesOnce, Times
  <1>4. NothingRead(w)' /\ ReadOnce(w)'
    BY Zenon, <1>1 DEF Once, NothingRead, ReadOnce, HasRead
  <1>. QED
    BY Zenon, <1>1, <1>3, <1>4, OnceQuiet

(* The other steps take machines from those alive at most.                 *)
LEMMA OnceRest ==
    ASSUME TypeOK, CoverInv, HolderInv, OnceInv,
           \/ \E w \in Ids : Crash(w) \/ DialFails(w) \/ Heartbeat(w) \/ Late(w)
           \/ CheckAlive \/ PollDone \/ ExitMain \/ UNCHANGED vars
    PROVE  OnceInv'
  <1>. USE DEF OnceInv
  <1>1. /\ IsAlive' \subseteq IsAlive
        /\ UNCHANGED <<tasks, pc, TaskID, part, Workers, unread, intermediate, file, created>>
    BY DEF Crash, DialFails, StopProcess, Heartbeat, ReceiveHeartbeat, Late, TimeOut, CheckAlive,
       CheckAliveMachine, PollDone, Done, ExitMain, Exit, vars, cvars, wvars
  <1>. QED
    BY ZenonT(30), <1>1, OnceFrame DEF IsDone

(* Every step preserves it.                                                *)
LEMMA OnceStep ==
    ASSUME TypeOK, CoverInv, CoverInv', HolderInv, OnceInv, [Next]_vars
    PROVE  OnceInv'
  <1>1. ASSUME NEW w \in Ids, WorkerStep(w)
        PROVE  OnceInv'
    BY Zenon, <1>1, OnceAsk, OnceSave, OnceRead, OnceSort, OnceWrite, OnceSend
       DEF WorkerStep, ProcessTask
  <1>2. ASSUME NEW w \in Ids, Handler(w)
        PROVE  OnceInv'
    BY Zenon, <1>2, OnceAsk, OnceMapDone, OnceAssignMap, OnceAssignReduce, OnceComplete DEF Handler
  <1>. QED
    BY Zenon, <1>1, <1>2, OnceRegister, OnceRest DEF Next

-----------------------------------------------------------------------------
LEMMA OnceInvariant ==
    ASSUME Punctual = Ids
    PROVE  Spec => []OnceInv
  <1>1. Init => OnceInv
    BY DEF Init, MakeCoordinator, WorkerInit, OnceInv, Once, Unborn, ListBorn, FilesOnce, NothingRead,
       ReadOnce, HasRead
  <1>2. TypeOK /\ CoverInv /\ HolderInv /\ OnceInv /\ [Next]_vars => OnceInv'
    BY SMTT(30), CoverStep, OnceStep
  <1>. QED
    BY <1>1, <1>2, CoverInvariant, HolderInvariant, PTL DEF Spec

(* With punctual heartbeats and whatever crashes, a reduce task whose      *)
(* worker list is still alive when it has read its files has read every    *)
(* map output exactly once: the files that other machines left behind      *)
(* while redoing lost tasks never reach it.                                *)
THEOREM ReadsExactlyOnce ==
    ASSUME Punctual = Ids
    PROVE  Spec => []ExactlyOnceWhileAlive
  <1>1. OnceInv => ExactlyOnceWhileAlive
    BY DEF OnceInv, Once, ReadOnce, ExactlyOnceWhileAlive
  <1>. QED
    BY <1>1, OnceInvariant, PTL

(* No step takes a machine from those that are alive.                      *)
LEMMA NeverDeadStep ==
    ASSUME Punctual = Ids, MayCrash = {}, TypeOK, CoverInv', NeverDead, [Next]_vars
    PROVE  NeverDead'
  <1>1. ASSUME NEW w \in Ids, RegisterWorker(w)
        PROVE  NeverDead'
    BY Zenon, <1>1 DEF NeverDead, RegisterWorker, Register, Goto, Serving, TypeOK, WTypeOK
  <1>2. ASSUME NEW w \in Ids, pc[w] # "start",
               UNCHANGED <<up, recent, IsAlive, main>>, \A v \in Ids \ {w} : pc'[v] = pc[v]
        PROVE  NeverDead'
    BY <1>2 DEF NeverDead, Serving
  <1>3. ASSUME NEW w \in Ids, WorkerStep(w)
        PROVE  NeverDead'
    <2>1. CASE AskTask(w) \/ SendComplete(w)
      BY Zenon, <1>2, <2>1 DEF AskTask, CallAssignTask, SendComplete, CallCompleteTask, At, Goto, cvars,
         TypeOK, WTypeOK
    <2>2. ASSUME NEW i \in Ids, ReadFile(w, i), UNCHANGED cvars
          PROVE  NeverDead'
      <3>1. pc'[w] # "fatal"
        BY Zenon DEF CoverInv, WorkerCover
      <3>2. pc' = pc /\ up' = up
        BY <2>2, <3>1 DEF ReadFile, Goto, TypeOK, WTypeOK
      <3>. QED
        BY Zenon, <1>2, <2>2, <3>2 DEF ReadFile, At, cvars
    <2>3. CASE ProcessTask(w) /\ ~\E i \in Ids : ReadFile(w, i)
      BY ZenonT(30), <1>2, <2>3 DEF ProcessTask, SavePartition, SortIntermediate, CreateOutput, WriteOutput,
         At, Goto, cvars, TypeOK, WTypeOK
    <2>. QED
      BY Zenon, <1>3, <2>1, <2>2, <2>3 DEF WorkerStep, ProcessTask
  <1>4. ASSUME NEW w \in Ids, Handler(w)
        PROVE  NeverDead'
    BY ZenonT(30), <1>2, <1>4 DEF Handler, HandleMapDone, HandleAssignMap, AssignMap, HandleAssignReduce,
       AssignReduce, HandleNoTask, HandleCompleteTask, CompleteMap, CompleteReduce, Goto, cvars,
       TypeOK, WTypeOK
  <1>5. ASSUME NEW w \in Ids, Heartbeat(w) \/ DialFails(w)
        PROVE  NeverDead'
    BY ZenonT(30), <1>5 DEF NeverDead, Heartbeat, ReceiveHeartbeat, DialFails, StopProcess, Serving, cvars, wvars
  <1>6. ASSUME NEW w \in Ids, Crash(w) \/ Late(w)
        PROVE  FALSE
    BY <1>6 DEF NeverDead, Crash, Late
  <1>7. ASSUME CheckAlive \/ PollDone \/ ExitMain \/ UNCHANGED vars
        PROVE  NeverDead'
    BY Zenon, <1>7 DEF NeverDead, CheckAlive, CheckAliveMachine, PollDone, Done, ExitMain, Exit, Serving,
       vars, cvars, wvars
  <1>. QED
    BY Zenon, <1>1, <1>3, <1>4, <1>5, <1>6, <1>7 DEF Next

-----------------------------------------------------------------------------
(* A process that does nothing keeps its output file, unless somebody else *)
(* writes it.                                                              *)
LEMMA OutputFrame ==
    ASSUME NEW v \in Ids, OutputSoFar(v),
           pc'[v] = pc[v], TaskID'[v] = TaskID[v], up'[v] => up[v],
           Engaged(v) /\ HasReduce(v) => out'[TaskID[v]] = out[TaskID[v]]
    PROVE  OutputSoFar(v)'
  BY Zenon DEF OutputSoFar, Engaged, HasReduce, Sequential, Complete, Started

(* A step that leaves the output files and the reduce tasks alone.         *)
LEMMA OutputQuiet ==
    ASSUME JobInv, NEW w \in Ids, UNCHANGED <<out, rtasks, main>>,
           \A v \in Ids \ {w} : pc'[v] = pc[v] /\ TaskID'[v] = TaskID[v] /\ (up'[v] => up[v]),
           OutputSoFar(w)', NeverDead'
    PROVE  JobInv'
  <1>1. \A v \in Ids \ {w} : OutputSoFar(v)'
    BY Zenon, OutputFrame DEF JobInv
  <1>. QED
    BY <1>1 DEF JobInv, Sequential, Complete, ReduceDone

(* What a reduce task has read, when no machine dies: everything once.     *)
LEMMA ReadAll ==
    ASSUME TypeOK, OnceInv, NeverDead, NEW w \in Ids, HasRead(w)
    PROVE  intermediate[w] = Complete(TaskID[w])
  <1>1. Workers[w] \subseteq IsAlive
    BY DEF OnceInv, Once, ListBorn, NeverDead, TypeOK, WTypeOK
  <1>. QED
    BY Zenon, <1>1 DEF OnceInv, Once, ReadOnce

(* The file of a reduce task is created and written by its holder.         *)
LEMMA OutputWritten ==
    ASSUME TypeOK, HolderInv, OnceInv, JobInv, NeverDead',
           NEW w \in Ids, CreateOutput(w) \/ WriteOutput(w), UNCHANGED cvars
    PROVE  JobInv'
  <1>. DEFINE r == TaskID[w]
  <1>1. /\ r \in Reduces /\ up[w] /\ HasReduce(w) /\ Engaged(w) /\ UNCHANGED <<up, TaskID, rtasks, main>>
        /\ \A v \in Ids \ {w} : pc'[v] = pc[v]
    BY Zenon DEF CreateOutput, WriteOutput, At, Goto, HasReduce, Engaged, cvars, TypeOK, WTypeOK
  <1>2. rtasks[r] = HeldBy(w)
    BY Zenon, <1>1 DEF HolderInv, Holder
  <1>3. PICK o : out' = [out EXCEPT ![r] = o] /\ OutputSoFar(w)'
    <2>1. CASE CreateOutput(w)
      <3>1. out' = [out EXCEPT ![r] = Started] /\ pc'[w] = "write"
        BY Zenon, <2>1 DEF CreateOutput, Started, Goto, TypeOK, WTypeOK
      <3>2. out'[TaskID'[w]] = Started
        BY <1>1, <3>1 DEF TypeOK, WTypeOK
      <3>. QED
        BY Zenon, <3>1, <3>2 DEF OutputSoFar, Started
    <2>2. CASE WriteOutput(w)
      <3>1. pc[w] = "write" /\ pc'[w] = "written" /\ out[r] = Started
        BY ZenonT(30), <1>1, <2>2 DEF WriteOutput, At, Goto, JobInv, OutputSoFar, TypeOK, WTypeOK
      <3>2. intermediate[w] = Complete(r)
        BY ZenonT(30), <3>1, ReadAll DEF JobInv, HasRead
      <3>3. out' = [out EXCEPT ![r] = Sequential(r)]
        BY Zenon, <2>2, <3>1, <3>2 DEF WriteOutput, Started, Sequential
      <3>4. out'[r] = Sequential(r)
        BY <1>1, <3>3 DEF TypeOK, WTypeOK
      <3>. QED
        BY Zenon, <1>1, <3>1, <3>3, <3>4 DEF OutputSoFar, Sequential, Complete
    <2>. QED
      BY <2>1, <2>2
  <1>4. ASSUME NEW q \in Reduces, q # r
        PROVE  out'[q] = out[q]
    BY Zenon, <1>3, <1>4 DEF TypeOK, WTypeOK
  <1>5. ASSUME NEW v \in Ids \ {w}
        PROVE  OutputSoFar(v)'
    <2>1. ASSUME Engaged(v), HasReduce(v)
          PROVE  TaskID[v] \in Reduces /\ TaskID[v] # r
      <3>1. rtasks[TaskID[v]] = HeldBy(v) /\ TaskID[v] \in Reduces
        BY <2>1 DEF HolderInv, Holder, HasReduce, TypeOK, WTypeOK
      <3>. QED
        BY <1>2, <3>1 DEF HeldBy
    <2>. QED
      BY Zenon, <1>1, <1>4, <2>1, OutputFrame DEF JobInv
  <1>6. ASSUME NEW q \in Reduces, rtasks'[q].status = "completed"
        PROVE  out'[q] = Sequential(q)
    <2>1. q # r
      BY <1>1, <1>2, <1>6 DEF HeldBy
    <2>. QED
      BY Zenon, <1>1, <1>4, <1>6, <2>1 DEF JobInv
  <1>. QED
    BY ZenonT(30), <1>1, <1>3, <1>5, <1>6 DEF JobInv, ReduceDone, Sequential, Complete

-----------------------------------------------------------------------------
(* A reduce task is handed out, or completed, when it is not completed.    *)
LEMMA OutputRecorded ==
    ASSUME TypeOK, HolderInv, JobInv, NeverDead',
           NEW w \in Ids, HandleAssignReduce(w) \/ HandleCompleteTask(w)
    PROVE  JobInv'
  <1>1. /\ UNCHANGED <<out, main, up>> /\ pc'[w] \in {"reduce", "idle"}
        /\ \A v \in Ids \ {w} : pc'[v] = pc[v] /\ TaskID'[v] = TaskID[v]
    BY DEF HandleAssignReduce, AssignReduce, HandleCompleteTask, CompleteMap, CompleteReduce, Goto,
       TypeOK, WTypeOK
  <1>2. ASSUME NEW v \in Ids
        PROVE  OutputSoFar(v)'
    <2>1. CASE v = w
      BY Zenon, <1>1, <2>1 DEF OutputSoFar
    <2>2. CASE v # w
      BY <1>1, <2>2, OutputFrame DEF JobInv
    <2>. QED
      BY Zenon, <2>1, <2>2
  <1>3. ASSUME NEW q \in Reduces
        PROVE  /\ rtasks[q].status = "completed" => rtasks'[q].status = "completed"
               /\ rtasks'[q].status = "completed" => out[q] = Sequential(q)
    <2>1. CASE HandleAssignReduce(w)
      <3>1. PICK r \in Reduces : r \in OpenReduces /\ rtasks' = [rtasks EXCEPT ![r] = HeldBy(w)]
        BY Zenon, <2>1 DEF HandleAssignReduce, AssignReduce, IsFirst, HeldBy
      <3>. QED
        BY <3>1 DEF OpenReduces, HeldBy, JobInv, TypeOK, CTypeOK
    <2>2. CASE pc[w] = "mapped" /\ CompleteMap(w, TaskID[w])
      BY Zenon, <2>2 DEF CompleteMap, JobInv
    <2>3. CASE pc[w] = "reduced" /\ CompleteReduce(w, TaskID[w])
      <3>1. out[TaskID[w]] = Sequential(TaskID[w]) /\ TaskID[w] \in Reduces
        BY Zenon, <2>3 DEF JobInv, OutputSoFar, Engaged, InHandler, TypeOK, WTypeOK
      <3>. QED
        BY Zenon, <2>3, <3>1 DEF CompleteReduce, JobInv, TypeOK, CTypeOK
    <2>. QED
      BY Zenon, <2>1, <2>2, <2>3 DEF HandleCompleteTask
  <1>4. ReduceDone => ReduceDone'
    BY <1>3 DEF ReduceDone
  <1>. QED
    BY Zenon, <1>1, <1>2, <1>3, <1>4 DEF JobInv, Sequential, Complete

(* Every step preserves the invariant.                                     *)
LEMMA JobStep ==
    ASSUME Punctual = Ids, MayCrash = {}, TypeOK, CoverInv', HolderInv, OnceInv, JobInv, [Next]_vars
    PROVE  JobInv'
  <1>0. NeverDead'
    BY Zenon, NeverDeadStep DEF JobInv
  <1>1. ASSUME NEW w \in Ids,
               \/ RegisterWorker(w) \/ AskTask(w)
               \/ HandleMapDone(w) \/ HandleAssignMap(w) \/ HandleNoTask(w)
               \/ (SavePartition(w) \/ SortIntermediate(w)) /\ UNCHANGED cvars
        PROVE  JobInv'
    <2>1. /\ UNCHANGED <<out, rtasks, main, up>>
          /\ pc'[w] \in {"idle", "asking", "askMap", "askReduce", "map", "create"}
          /\ \A v \in Ids \ {w} : pc'[v] = pc[v] /\ TaskID'[v] = TaskID[v]
      BY ZenonT(30), <1>1 DEF RegisterWorker, Register, AskTask, CallAssignTask, HandleMapDone, HandleAssignMap,
         AssignMap, HandleNoTask, SavePartition, SortIntermediate, At, Goto, cvars, TypeOK, WTypeOK
    <2>2. OutputSoFar(w)'
      BY <2>1 DEF OutputSoFar
    <2>. QED
      BY Zenon, <1>0, <2>1, <2>2, OutputQuiet
  <1>2. ASSUME NEW w \in Ids, NEW i \in Ids, ReadFile(w, i), UNCHANGED cvars
        PROVE  JobInv'
    <2>1. /\ UNCHANGED <<out, rtasks, main, TaskID>> /\ pc'[w] \in {"reduce", "fatal"}
          /\ \A v \in Ids \ {w} : pc'[v] = pc[v] /\ up'[v] = up[v]
      BY <1>2 DEF ReadFile, At, Goto, cvars, TypeOK, WTypeOK
    <2>2. OutputSoFar(w)'
      BY Zenon, <2>1 DEF OutputSoFar
    <2>. QED
      BY Zenon, <1>0, <2>1, <2>2, OutputQuiet
  <1>3. ASSUME NEW w \in Ids, SendComplete(w)
        PROVE  JobInv'
    <2>1. /\ UNCHANGED <<out, rtasks, main, TaskID, up>> /\ up[w]
          /\ \/ pc'[w] = "mapped"
             \/ pc[w] = "written" /\ pc'[w] = "reduced"
          /\ \A v \in Ids \ {w} : pc'[v] = pc[v]
      BY Zenon, <1>3 DEF SendComplete, CallCompleteTask, At, Goto, cvars, TypeOK, WTypeOK
    <2>2. OutputSoFar(w)'
      BY Zenon, <2>1 DEF JobInv, OutputSoFar, Engaged, Sequential, Complete
    <2>. QED
      BY Zenon, <1>0, <2>1, <2>2, OutputQuiet
  <1>4. ASSUME \/ \E w \in Ids : Crash(w) \/ DialFails(w) \/ Heartbeat(w) \/ Late(w)
               \/ CheckAlive \/ PollDone \/ ExitMain \/ UNCHANGED vars
        PROVE  JobInv'
    <2>1. /\ UNCHANGED <<out, rtasks, TaskID, pc>>
          /\ main' # "polling" => main # "polling" \/ ReduceDone
          /\ \A v \in Ids : up'[v] => up[v]
      BY ZenonT(30), <1>4 DEF Crash, DialFails, StopProcess, Heartbeat, ReceiveHeartbeat, Late, TimeOut, CheckAlive,
         CheckAliveMachine, PollDone, Done, ExitMain, Exit, vars, cvars, wvars, TypeOK, WTypeOK
    <2>2. \A v \in Ids : OutputSoFar(v)'
      BY Zenon, <2>1, OutputFrame DEF JobInv
    <2>. QED
      BY ZenonT(30), <1>0, <2>1, <2>2 DEF JobInv, ReduceDone, Sequential, Complete
  <1>5. ASSUME NEW w \in Ids, WorkerStep(w)
        PROVE  JobInv'
    BY Zenon, <1>0, <1>1, <1>2, <1>3, <1>5, OutputWritten DEF WorkerStep, ProcessTask
  <1>6. ASSUME NEW w \in Ids, Handler(w)
        PROVE  JobInv'
    <2>1. CASE HandleAssignReduce(w) \/ HandleCompleteTask(w)
      BY Zenon, <1>0, <2>1, OutputRecorded
    <2>2. CASE HandleMapDone(w) \/ HandleAssignMap(w) \/ HandleNoTask(w)
      BY <1>1, <2>2
    <2>. QED
      BY Zenon, <1>6, <2>1, <2>2 DEF Handler
  <1>. QED
    <2>1. CASE Next
      BY Zenon, <1>1, <1>4, <1>5, <1>6, <2>1 DEF Next
    <2>2. CASE UNCHANGED vars
      BY Zenon, <1>4, <2>2
    <2>. QED
      BY <2>1, <2>2

LEMMA JobInvariant ==
    ASSUME Punctual = Ids, MayCrash = {}
    PROVE  Spec => []JobInv
  <1>1. Init => JobInv
    BY DEF Init, MakeCoordinator, WorkerInit, IdleTask, JobInv, NeverDead, OutputSoFar
  <1>2. TypeOK /\ CoverInv /\ HolderInv /\ OnceInv /\ JobInv /\ [Next]_vars => JobInv'
    BY CoverStep, JobStep
  <1>. QED
    BY <1>1, <1>2, CoverInvariant, HolderInvariant, OnceInvariant, PTL DEF Spec

(* A job without faults: when Done has returned true, every output file    *)
(* holds what the sequential program computes, for any number of map       *)
(* tasks, reduce tasks and workers.                                        *)
THEOREM SequentialOutput ==
    ASSUME Punctual = Ids, MayCrash = {}
    PROVE  Spec => []OutputMatchesSequential
  <1>1. JobInv => OutputMatchesSequential
    BY Zenon DEF JobInv, ReduceDone, Sequential, OutputMatchesSequential
  <1>. QED
    BY <1>1, JobInvariant, PTL

(* What a machine that is alive has saved of a map task makes it the one   *)
(* machine that the task is recorded under.                                *)
LEMMA SavedByHolder ==
    ASSUME TypeOK, HolderInv, OnceInv, NeverDead,
           NEW t \in Maps, NEW v \in Ids, NEW r \in Reduces, file[v][r][t] > 0
    PROVE  tasks[t].AssignedWorker = v
  <1>1. v \in IsAlive
    BY DEF OnceInv, Once, Unborn, Empty, NeverDead
  <1>2. HasSaved(v, t, r)
    <2>1. file[v][r][t] = Times(v, t, r)
      BY Zenon, <1>1 DEF OnceInv, Once, FilesOnce
    <2>. QED
      BY <2>1 DEF Times
  <1>3. CASE IsDone(t, v)
    BY <1>3 DEF IsDone, Finished
  <1>4. CASE HasMap(v) /\ TaskID[v] = t
    <2>1. tasks[t] = HeldBy(v)
      BY <1>1, <1>4 DEF HolderInv, Holder
    <2>. QED
      BY <2>1 DEF HeldBy
  <1>. QED
    BY Zenon, <1>2, <1>3, <1>4 DEF HasSaved, HasMap

(* A job without faults runs every map task in one process only: AssignTask *)
(* never hands a map task out a second time.                               *)
THEOREM MapTasksRunOnce ==
    ASSUME Punctual = Ids, MayCrash = {}
    PROVE  Spec => []MapRunsOnce
  <1>1. TypeOK /\ HolderInv /\ OnceInv /\ JobInv => MapRunsOnce
    BY Zenon, SavedByHolder DEF MapRunsOnce, JobInv
  <1>. QED
    BY <1>1, CoverInvariant, HolderInvariant, OnceInvariant, JobInvariant, PTL

IsFinal(r) == rtasks[r].status = "completed"

(* What a step can change of what the user of the job sees: nothing, one   *)
(* more completed partition, or the end of the job.                        *)
SeesNothing == /\ \A r \in Reduces : IsFinal(r)' <=> IsFinal(r)
               /\ (main # "polling")' <=> (main # "polling")
SeesPartition(k) == /\ ~IsFinal(k)
                    /\ \A r \in Reduces : IsFinal(r)' <=> r = k \/ IsFinal(r)
                    /\ UNCHANGED main
SeesEnd == /\ main = "polling" /\ main' # "polling"
           /\ ReduceDone
           /\ UNCHANGED rtasks

LEMMA VisibleStep ==
    ASSUME TypeOK, HolderInv, [Next]_vars
    PROVE  SeesNothing \/ SeesEnd \/ \E k \in Reduces : SeesPartition(k)
  <1>. USE DEF SeesNothing, IsFinal
  <1>1. ASSUME NEW w \in Ids, WorkerStep(w) \/ RegisterWorker(w) \/ Heartbeat(w)
        PROVE  SeesNothing
    BY ZenonT(30), <1>1 DEF WorkerStep, AskTask, ProcessTask, SendComplete, RegisterWorker, Register, Heartbeat,
       ReceiveHeartbeat, cvars
  <1>2. ASSUME NEW w \in Ids, HandleMapDone(w) \/ HandleAssignMap(w) \/ HandleNoTask(w)
        PROVE  SeesNothing
    BY Zenon, <1>2 DEF HandleMapDone, HandleAssignMap, AssignMap, HandleNoTask, cvars
  <1>3. ASSUME NEW w \in Ids, HandleAssignReduce(w)
        PROVE  SeesNothing
    <2>1. PICK r \in Reduces : r \in OpenReduces /\ main' = main /\ rtasks' = [rtasks EXCEPT ![r] = HeldBy(w)]
      BY Zenon, <1>3 DEF HandleAssignReduce, AssignReduce, IsFirst, HeldBy
    <2>. QED
      BY <2>1 DEF OpenReduces, HeldBy, TypeOK, CTypeOK
  <1>4. ASSUME NEW w \in Ids, HandleCompleteTask(w)
        PROVE  SeesNothing \/ \E k \in Reduces : SeesPartition(k)
    <2>1. CASE pc[w] = "mapped" /\ CompleteMap(w, TaskID[w])
      BY ZenonT(30), <2>1 DEF CompleteMap
    <2>2. CASE pc[w] = "reduced" /\ CompleteReduce(w, TaskID[w])
      <3>1. PICK k \in Reduces : k = TaskID[w] /\ rtasks[k] = HeldBy(w)
        BY Zenon, <2>2 DEF HolderInv, Holder, HasReduce, Engaged, InHandler, TypeOK, WTypeOK
      <3>2. SeesPartition(k)
        BY <2>2, <3>1 DEF CompleteReduce, SeesPartition, HeldBy, TypeOK, CTypeOK
      <3>. QED
        BY Zenon, <3>1, <3>2
    <2>. QED
      BY ZenonT(30), <1>4, <2>1, <2>2 DEF HandleCompleteTask
  <1>5. ASSUME \/ \E w \in Ids : Crash(w) \/ DialFails(w) \/ Late(w)
               \/ CheckAlive \/ UNCHANGED vars
        PROVE  SeesNothing
    BY <1>5 DEF Crash, DialFails, Late, TimeOut, CheckAlive, CheckAliveMachine, vars, cvars
  <1>6. ASSUME PollDone
        PROVE  SeesEnd
    BY <1>6 DEF PollDone, Done, SeesEnd
  <1>7. ASSUME ExitMain
        PROVE  SeesNothing
    BY <1>7 DEF ExitMain, Exit
  <1>8. CASE Next
    BY Zenon, <1>1, <1>2, <1>3, <1>4, <1>5, <1>6, <1>7, <1>8 DEF Next, Handler
  <1>. QED
    BY <1>5, <1>8

(* A job without faults implements the sequential program, seen through    *)
(* its completed output files: every step completes one partition with the *)
(* sequential output, ends the job after the last one, or is not visible.  *)
THEOREM JobRefinesSequential ==
    ASSUME Punctual = Ids, MayCrash = {}
    PROVE  Spec => ImplementsJob
  <1>. DEFINE Result == [r \in Reduces |->
                           IF rtasks[r].status = "completed" THEN <<out[r].content>> ELSE <<>>]
  <1>1. Init => Job!JobInit
    BY DEF Init, MakeCoordinator, IdleTask, Job!JobInit, Job!Unfinished, Job!Reduces, Reduces
  <1>2. ASSUME TypeOK, HolderInv, JobInv, JobInv', [Next]_vars
        PROVE  [Job!JobNext]_(Job!jvars)
    <2>1. /\ Result = [r \in Reduces |-> IF IsFinal(r) THEN <<Complete(r)>> ELSE <<>>]
          /\ Result' = [r \in Reduces |-> IF IsFinal(r)' THEN <<Complete(r)>> ELSE <<>>]
      <3>1. ASSUME NEW r \in Reduces
            PROVE  /\ IsFinal(r) => out[r].content = Complete(r)
                   /\ IsFinal(r)' => out'[r].content = Complete(r)
        <4>1. /\ IsFinal(r) => out[r] = Sequential(r)
              /\ IsFinal(r)' => out'[r] = Sequential(r)
          BY <1>2 DEF JobInv, IsFinal, Sequential, Complete
        <4>. QED
          BY <4>1 DEF Sequential
      <3>. QED
        BY Zenon, <3>1 DEF IsFinal
    <2>2. CASE SeesNothing
      <3>1. Result' = Result /\ (main # "polling")' = (main # "polling")
        BY Zenon, <2>1, <2>2 DEF SeesNothing
      <3>. QED
        BY Zenon, <3>1 DEF Job!jvars
    <2>3. ASSUME NEW k \in Reduces, SeesPartition(k)
          PROVE  Job!FinishPartition(k)
      <3>1. Result[k] = <<>> /\ Result' = [Result EXCEPT ![k] = <<Complete(k)>>]
        BY ZenonT(30), <2>1, <2>3 DEF SeesPartition
      <3>. QED
        BY <2>3, <3>1 DEF SeesPartition, Job!FinishPartition, Job!Unfinished, Job!Complete, Complete,
           Job!Maps, Maps
    <2>4. CASE SeesEnd
      <3>1. Result' = Result /\ \A r \in Reduces : Result[r] # <<>>
        BY Zenon, <2>1, <2>4 DEF SeesEnd, IsFinal, ReduceDone
      <3>. QED
        BY <2>4, <3>1 DEF SeesEnd, Job!JobNext, Job!FinishJob, Job!Unfinished, Job!Reduces, Reduces
    <2>. QED
      BY Zenon, <1>2, <2>2, <2>3, <2>4, VisibleStep DEF Job!JobNext, Job!Reduces, Reduces
  <1>. QED
    BY <1>1, <1>2, CoverInvariant, HolderInvariant, JobInvariant, PTL DEF Spec, ImplementsJob, Job!JobSpec
=============================================================================
