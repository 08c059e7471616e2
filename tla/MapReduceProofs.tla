-------------------------- MODULE MapReduceProofs ---------------------------
(***************************************************************************)
(* Theorems about MapReduce, for every number of tasks, partitions and     *)
(* processes: types and outputs that are never lost, under any faults; and *)
(* one reducer per task and final outputs, when heartbeats are punctual.   *)
(***************************************************************************)
EXTENDS MapReduceInv, TLAPS

-----------------------------------------------------------------------------
(* File contents.                                                          *)

(* Appending to a file keeps what both parts hold.                         *)
LEMMA PlusContents ==
    ASSUME NEW a \in Contents, NEW b \in Contents
    PROVE  /\ Plus(a, b) \in Contents
           /\ \A t \in Maps : a[t] <= Plus(a, b)[t] /\ b[t] <= Plus(a, b)[t]
  BY DEF Plus, Contents, Twice

(* A map task contributes at most one occurrence of its own output.        *)
LEMMA EmittedContents ==
    ASSUME NEW t, NEW r
    PROVE  /\ Empty \in Contents
           /\ Emitted(t, r) \in Contents
           /\ Complete(r) \in Contents
           /\ \A u \in Maps : Complete(r)[u] \in {0, 1}
  BY DEF Emitted, Complete, Contents, Empty, Twice

-----------------------------------------------------------------------------
(* Type correctness.                                                       *)

(* The step of one process, as the disjunction of its actions.             *)
LEMMA TypeStep ==
    ASSUME TypeOK, [Next]_vars
    PROVE  TypeOK'
  <1>. USE SizeAssumption
  <1>0. /\ 0 \in Maps /\ 0 \in Reduces /\ 0 \in Ids
        /\ \A n \in Ids : n + 1 \in 0 .. MaxWorkers
        /\ \A n \in 0 .. NReduce : n < NReduce => n \in Reduces /\ n + 1 \in 0 .. NReduce
    BY DEF Maps, Reduces, Ids
  <1>1. ASSUME NEW w \in Ids, RegisterWorker(w)
        PROVE  TypeOK'
    BY Zenon, <1>0, <1>1 DEF TypeOK, CTypeOK, WTypeOK, RegisterWorker, Register, At, Goto, PC, InHandler
  <1>2. ASSUME NEW w \in Ids, Heartbeat(w)
        PROVE  TypeOK'
    BY <1>2 DEF TypeOK, CTypeOK, WTypeOK, Heartbeat, ReceiveHeartbeat, wvars
  <1>3. ASSUME NEW w \in Ids, AskTask(w)
        PROVE  TypeOK'
    BY Zenon, <1>3 DEF TypeOK, CTypeOK, WTypeOK, AskTask, CallAssignTask, At, Goto, PC, InHandler, cvars
  <1>4. ASSUME NEW w \in Ids, SavePartition(w), UNCHANGED cvars
        PROVE  TypeOK'
    <2>. DEFINE r == part[w]
    <2>1. r \in Reduces /\ r + 1 \in 0 .. NReduce /\ file[w][r] \in Contents
      BY <1>0, <1>4 DEF TypeOK, WTypeOK, SavePartition
    <2>2. Plus(file[w][r], Emitted(TaskID[w], r)) \in Contents
      BY <2>1, PlusContents, EmittedContents
    <2>3. file' = [file EXCEPT ![w][r] = Plus(file[w][r], Emitted(TaskID[w], r))]
      BY <1>4 DEF SavePartition
    <2>4. file' \in [Ids -> [Reduces -> Contents]]
      BY <2>1, <2>2, <2>3 DEF TypeOK, WTypeOK
    <2>. HIDE DEF r
    <2>5. part' = [part EXCEPT ![w] = r + 1] /\ created' = [created EXCEPT ![w] = @ \cup {r}]
      BY Zenon, <1>4 DEF SavePartition, r
    <2>. QED
      BY <1>4, <2>1, <2>4, <2>5 DEF TypeOK, CTypeOK, WTypeOK, SavePartition, cvars
  <1>5. ASSUME NEW w \in Ids, NEW i \in Ids, ReadFile(w, i), UNCHANGED cvars
        PROVE  TypeOK'
    <2>1. TaskID[w] \in Reduces
      BY <1>5 DEF TypeOK, WTypeOK, ReadFile, At
    <2>2. Plus(intermediate[w], file[i][TaskID[w]]) \in Contents
      BY <2>1, PlusContents DEF TypeOK, WTypeOK
    <2>3. intermediate' \in [Ids -> Contents]
      BY Zenon, <1>5, <2>2 DEF TypeOK, WTypeOK, ReadFile
    <2>4. pc' \in [Ids -> PC] /\ up' \in [Ids -> BOOLEAN] /\ unread' \in [Ids -> SUBSET Ids]
      BY Zenon, <1>5 DEF TypeOK, WTypeOK, ReadFile, Goto, PC
    <2>. QED
      BY <1>5, <2>3, <2>4 DEF TypeOK, CTypeOK, WTypeOK, ReadFile, Goto, At, cvars
  <1>6. ASSUME NEW w \in Ids, SortIntermediate(w) \/ CreateOutput(w), UNCHANGED cvars
        PROVE  TypeOK'
    <2>1. [state |-> "partial", content |-> Empty] \in OutState
      BY EmittedContents DEF OutState
    <2>2. CASE SortIntermediate(w)
      BY Zenon, <1>6, <2>2 DEF TypeOK, CTypeOK, WTypeOK, SortIntermediate, At, Goto, PC, cvars
    <2>3. CASE CreateOutput(w)
      <3>1. TaskID[w] \in Reduces
        BY Zenon, <2>3 DEF TypeOK, WTypeOK, CreateOutput, At
      <3>2. out' \in [Reduces -> OutState]
        BY Zenon, <2>1, <2>3, <3>1 DEF TypeOK, WTypeOK, CreateOutput
      <3>. QED
        BY Zenon, <1>6, <2>3, <3>2 DEF TypeOK, CTypeOK, WTypeOK, CreateOutput, At, Goto, PC, cvars
    <2>. QED
      BY <1>6, <2>2, <2>3
  <1>7. ASSUME NEW w \in Ids, WriteOutput(w), UNCHANGED cvars
        PROVE  TypeOK'
    <2>1. /\ [state |-> "garbled", content |-> Empty] \in OutState
          /\ [state |-> "whole", content |-> intermediate[w]] \in OutState
          /\ Empty \in Contents
      BY Zenon, EmittedContents DEF OutState, TypeOK, WTypeOK
    <2>2. TaskID[w] \in Reduces
      BY Zenon, <1>7 DEF TypeOK, WTypeOK, WriteOutput, At
    <2>3. out' \in [Reduces -> OutState]
      BY <1>7, <2>1, <2>2 DEF TypeOK, WTypeOK, WriteOutput
    <2>. QED
      BY <1>7, <2>1, <2>3 DEF TypeOK, CTypeOK, WTypeOK, WriteOutput, At, Goto, PC, cvars
  <1>8. ASSUME NEW w \in Ids, SendComplete(w)
        PROVE  TypeOK'
    BY SMTT(60), <1>0, <1>8 DEF TypeOK, CTypeOK, WTypeOK, SendComplete, CallCompleteTask, At, Goto, PC,
       InHandler, cvars
  <1>9. ASSUME NEW w \in Ids, HandleMapDone(w)
        PROVE  TypeOK'
    <2>1. MapWorkers \subseteq Ids
      BY DEF MapWorkers, TypeOK, CTypeOK, TaskState
    <2>2. CASE MapDone
      <3>1. Workers' \in [Ids -> SUBSET Ids] /\ pc' = [pc EXCEPT ![w] = "askReduce"]
        BY <1>9, <2>1, <2>2 DEF TypeOK, WTypeOK, HandleMapDone, Goto
      <3>. QED
        BY <1>9, <3>1 DEF TypeOK, CTypeOK, WTypeOK, HandleMapDone, PC, InHandler, cvars
    <2>3. CASE ~MapDone
      <3>1. Workers' = Workers /\ pc' = [pc EXCEPT ![w] = "askMap"]
        BY Zenon, <1>9, <2>3 DEF HandleMapDone, Goto
      <3>. QED
        BY <1>9, <3>1 DEF TypeOK, CTypeOK, WTypeOK, HandleMapDone, PC, InHandler, cvars
    <2>. QED
      BY <2>2, <2>3
  <1>10. ASSUME NEW w \in Ids, HandleAssignMap(w)
         PROVE  TypeOK'
    BY <1>10 DEF TypeOK, CTypeOK, WTypeOK, HandleAssignMap, AssignMap, Goto, PC, TaskState, Status
  <1>11. ASSUME NEW w \in Ids, HandleAssignReduce(w)
         PROVE  TypeOK'
    BY <1>11 DEF TypeOK, CTypeOK, WTypeOK, HandleAssignReduce, AssignReduce, Goto, PC, TaskState,
       Status
  <1>12. ASSUME NEW w \in Ids, HandleNoTask(w)
         PROVE  TypeOK'
    BY <1>12 DEF TypeOK, CTypeOK, WTypeOK, HandleNoTask, Goto, PC, cvars
  <1>13. ASSUME NEW w \in Ids, HandleCompleteTask(w)
         PROVE  TypeOK'
    <2>1. pc' \in [Ids -> PC] /\ TaskID' \in [Ids -> Maps \cup Reduces]
      BY <1>0, <1>13 DEF TypeOK, WTypeOK, HandleCompleteTask, Goto, PC
    <2>2. [status |-> "completed", AssignedWorker |-> w] \in TaskState
      BY Zenon DEF TaskState, Status
    <2>3. CASE pc[w] = "mapped" /\ CompleteMap(w, TaskID[w])
      BY Zenon, <1>13, <2>1, <2>2, <2>3 DEF TypeOK, CTypeOK, WTypeOK, HandleCompleteTask, CompleteMap, Goto
    <2>4. CASE pc[w] = "reduced" /\ CompleteReduce(w, TaskID[w])
      BY <1>13, <2>1, <2>2, <2>4 DEF TypeOK, CTypeOK, WTypeOK, HandleCompleteTask, CompleteReduce,
         Goto
    <2>. QED
      BY Zenon, <1>13, <2>3, <2>4 DEF HandleCompleteTask
  <1>14. ASSUME NEW w \in Ids, Crash(w) \/ DialFails(w)
         PROVE  TypeOK'
    BY ZenonT(30), <1>14 DEF TypeOK, CTypeOK, WTypeOK, Crash, DialFails, StopProcess, cvars
  <1>15. ASSUME NEW w \in Ids, Late(w)
         PROVE  TypeOK'
    BY <1>15 DEF TypeOK, CTypeOK, WTypeOK, Late, TimeOut, wvars
  <1>16. ASSUME CheckAlive \/ PollDone \/ ExitMain
         PROVE  TypeOK'
    BY <1>16 DEF TypeOK, CTypeOK, WTypeOK, CheckAlive, CheckAliveMachine, PollDone, Done, ExitMain,
       Exit, wvars
  <1>17. ASSUME UNCHANGED vars
         PROVE  TypeOK'
    BY <1>17 DEF TypeOK, CTypeOK, WTypeOK, vars, cvars, wvars
  <1>. QED
    BY Zenon, <1>1, <1>2, <1>3, <1>4, <1>5, <1>6, <1>7, <1>8, <1>9, <1>10, <1>11, <1>12, <1>13, <1>14,
       <1>15, <1>16, <1>17
       DEF Next, WorkerStep, ProcessTask, Handler

(* The initial state is well typed.                                        *)
LEMMA TypeInit == Init => TypeOK
  <1>1. 0 \in Maps /\ 0 \in Ids /\ 0 \in 0 .. NReduce /\ 0 \in 0 .. MaxWorkers
    BY SizeAssumption DEF Maps, Ids
  <1>2. Empty \in Contents /\ IdleTask \in TaskState
    BY <1>1, EmittedContents DEF IdleTask, TaskState, Status
  <1>. QED
    BY <1>1, <1>2
       DEF Init, MakeCoordinator, WorkerInit, TypeOK, CTypeOK, WTypeOK, PC, OutState

(* Every reachable state of the job is well typed.                         *)
THEOREM TypeCorrect == Spec => []TypeOK
  <1>1. Init => TypeOK
    BY TypeInit
  <1>2. TypeOK /\ [Next]_vars => TypeOK'
    BY TypeStep
  <1>. QED
    BY <1>1, <1>2, PTL DEF Spec

-----------------------------------------------------------------------------
(* No map output is lost.                                                  *)

(* Whatever a process has saved stays saved.                               *)
FilesGrow ==
    \A w \in Ids, r \in Reduces :
        /\ r \in created[w] => r \in created'[w]
        /\ \A t \in Maps : SavedIn(w, t, r) => SavedIn(w, t, r)'

(* No step removes or overwrites an intermediate file: they are opened     *)
(* with O_APPEND only.                                                     *)
LEMMA NextFilesGrow ==
    ASSUME TypeOK, [Next]_vars
    PROVE  FilesGrow
  <1>1. ASSUME UNCHANGED <<file, created>>
        PROVE  FilesGrow
    BY <1>1 DEF FilesGrow, SavedIn
  <1>2. ASSUME NEW w \in Ids, SavePartition(w)
        PROVE  FilesGrow
    <2>. DEFINE k == part[w]
    <2>1. k \in Reduces
      BY <1>2, SizeAssumption DEF TypeOK, WTypeOK, SavePartition, Reduces
    <2>2. file[w][k] \in Contents /\ Emitted(TaskID[w], k) \in Contents
      BY Zenon, <2>1, EmittedContents DEF TypeOK, WTypeOK
    <2>3. \A t \in Maps : file[w][k][t] <= Plus(file[w][k], Emitted(TaskID[w], k))[t]
      BY <2>2, PlusContents
    <2>4. /\ file' = [file EXCEPT ![w][k] = Plus(file[w][k], Emitted(TaskID[w], k))]
          /\ created' = [created EXCEPT ![w] = created[w] \cup {k}]
      BY Zenon, <1>2 DEF SavePartition
    <2>. HIDE DEF k
    <2>5. ASSUME NEW v \in Ids, NEW r \in Reduces
          PROVE  /\ r \in created[v] => r \in created'[v]
                 /\ \A t \in Maps : file[v][r][t] <= file'[v][r][t]
      <3>1. CASE v = w /\ r = k
        BY <2>1, <2>3, <2>4, <3>1 DEF TypeOK, WTypeOK
      <3>2. CASE ~(v = w /\ r = k)
        <4>1. file'[v][r] = file[v][r]
          BY <2>1, <2>4, <3>2 DEF TypeOK, WTypeOK
        <4>2. \A t \in Maps : file[v][r][t] <= file[v][r][t]
          <5>1. file[v][r] \in Contents
            BY DEF TypeOK, WTypeOK
          <5>. QED
            BY <5>1 DEF Contents, Twice
        <4>3. r \in created[v] => r \in created'[v]
          BY Zenon, <2>4 DEF TypeOK, WTypeOK
        <4>. QED
          BY <4>1, <4>2, <4>3
      <3>. QED
        BY Zenon, <3>1, <3>2
    <2>6. ASSUME NEW v \in Ids, NEW r \in Reduces, NEW t \in Maps
          PROVE  Complete(r)[t] \in Nat /\ file[v][r][t] \in Nat /\ file'[v][r][t] \in Nat
      <3>1. TypeOK'
        BY TypeStep
      <3>2. file[v][r] \in Contents /\ file'[v][r] \in Contents /\ Complete(r) \in Contents
        BY Zenon, <3>1, EmittedContents DEF TypeOK, WTypeOK
      <3>. QED
        BY <3>2 DEF Contents, Twice
    <2>7. ASSUME NEW v \in Ids, NEW r \in Reduces, NEW t \in Maps, SavedIn(v, t, r)
          PROVE  SavedIn(v, t, r)'
      BY <2>5, <2>6, <2>7 DEF SavedIn
    <2>. QED
      BY <2>5, <2>7 DEF FilesGrow
  <1>. QED
    BY Zenon, <1>1, <1>2
       DEF Next, WorkerStep, ProcessTask, Handler, RegisterWorker, Heartbeat, AskTask, CallAssignTask,
           ReadFile, SortIntermediate, CreateOutput, WriteOutput, SendComplete, CallCompleteTask,
           HandleMapDone, HandleAssignMap, HandleAssignReduce, HandleNoTask, HandleCompleteTask,
           Crash, DialFails, StopProcess, Late, CheckAlive, PollDone, ExitMain, vars, wvars

(* The local state of process v is left alone.                             *)
Idles(v) ==
    /\ pc'[v] = pc[v] /\ part'[v] = part[v] /\ TaskID'[v] = TaskID[v]
    /\ Workers'[v] = Workers[v] /\ unread'[v] = unread[v]
    /\ intermediate'[v] = intermediate[v]

(* A step of one process preserves the invariant of the others.            *)
LEMMA WorkerCoverFrame ==
    ASSUME TypeOK, FilesGrow, NEW v \in Ids, WorkerCover(v), Idles(v)
    PROVE  WorkerCover(v)'
  <1>1. /\ Workers[v] \in SUBSET Ids /\ unread[v] \in SUBSET Ids
        /\ pc[v] \in {"map", "mapped"} => TaskID[v] \in Maps
    BY DEF TypeOK, WTypeOK
  <1>2. Covers(Workers[v]) => Covers(Workers[v])'
    BY Zenon, <1>1 DEF Idles, Covers, Saved, SavedIn, FilesGrow
  <1>3. pc[v] = "reduce" => Ready(unread[v], intermediate[v], TaskID[v])'
    BY Zenon, <1>1 DEF WorkerCover, Ready, Idles, Saved, SavedIn, FilesGrow
  <1>4. pc[v] = "mapped" => Saved(v, TaskID[v])'
    BY Zenon, <1>1 DEF WorkerCover, Saved, SavedIn, FilesGrow, Idles
  <1>5. pc[v] = "map" => \A r \in Reduces : r < part'[v] => SavedIn(v, TaskID[v], r)'
    BY Zenon, <1>1 DEF WorkerCover, SavedIn, FilesGrow, Idles
  <1>. QED
    BY Zenon, <1>2, <1>3, <1>4, <1>5 DEF WorkerCover, Idles, HasRead, Complete

(* Every step preserves the cover invariant.                               *)
LEMMA CoverStep ==
    ASSUME TypeOK, CoverInv, [Next]_vars
    PROVE  CoverInv'
  <1>. USE DEF CoverInv
  <1>1. FilesGrow /\ TypeOK'
    BY Zenon, NextFilesGrow, TypeStep
  <1>2. ASSUME UNCHANGED tasks
        PROVE  CompletedSaved'
    <2>1. \A t \in Maps : tasks[t].AssignedWorker \in Ids
      BY Zenon DEF TypeOK, CTypeOK, TaskState
    <2>. QED
      BY Zenon, <1>1, <1>2, <2>1 DEF CompletedSaved, Saved, FilesGrow
  <1>3. ASSUME UNCHANGED out
        PROVE  OutputCover'
    BY <1>3 DEF OutputCover
  <1>4. ASSUME NEW w \in Ids, \A v \in Ids \ {w} : Idles(v), WorkerCover(w)'
        PROVE  \A v \in Ids : WorkerCover(v)'
    BY <1>1, <1>4, WorkerCoverFrame
  <1>5. ASSUME UNCHANGED <<tasks, pc, TaskID, part, Workers, unread, intermediate, out>>
        PROVE  CoverInv'
    <2>1. \A v \in Ids : Idles(v)
      BY <1>5 DEF Idles
    <2>. QED
      BY Zenon, <1>1, <1>2, <1>3, <1>5, <2>1, WorkerCoverFrame
  <1>6. ASSUME NEW w \in Ids, RegisterWorker(w) \/ AskTask(w) \/ HandleNoTask(w)
        PROVE  CoverInv'
    <2>1. UNCHANGED <<tasks, out>> /\ \A v \in Ids \ {w} : Idles(v)
      BY <1>6 DEF RegisterWorker, Register, AskTask, CallAssignTask, HandleNoTask, Goto, cvars, Idles,
         TypeOK, WTypeOK
    <2>2. pc[w] # "map" /\ pc'[w] \in {"idle", "asking"} /\ part'[w] = part[w]
      BY Zenon, <1>6 DEF RegisterWorker, AskTask, CallAssignTask, HandleNoTask, Goto, At, TypeOK, WTypeOK
    <2>3. WorkerCover(w)'
      BY <2>2 DEF WorkerCover, HasRead
    <2>. QED
      BY Zenon, <1>2, <1>3, <1>4, <2>1, <2>3
  <1>7. ASSUME NEW w \in Ids, SavePartition(w), UNCHANGED cvars
        PROVE  CoverInv'
    <2>1. UNCHANGED <<tasks, out>> /\ \A v \in Ids \ {w} : Idles(v)
      BY Zenon, <1>7 DEF SavePartition, cvars, Idles, TypeOK, WTypeOK
    <2>0. part[w] \in Reduces
      BY <1>7, SizeAssumption DEF SavePartition, TypeOK, WTypeOK, Reduces
    <2>6. PICK k \in Reduces : k = part[w]
      BY Zenon, <2>0
    <2>2. /\ k \in Reduces /\ k + 1 \in Nat /\ TaskID[w] \in Maps
          /\ pc[w] = "map" /\ pc'[w] = "map" /\ TaskID'[w] = TaskID[w] /\ part'[w] = k + 1
      BY <1>7, <2>6 DEF SavePartition, At, TypeOK, WTypeOK, Reduces
    <2>3. SavedIn(w, TaskID[w], k)'
      <3>1. file[w][k] \in Contents /\ Emitted(TaskID[w], k) \in Contents
        BY Zenon, <2>2, EmittedContents DEF TypeOK, WTypeOK
      <3>2. Emitted(TaskID[w], k)[TaskID[w]] <= Plus(file[w][k], Emitted(TaskID[w], k))[TaskID[w]]
        BY <2>2, <3>1, PlusContents
      <3>3. Emitted(TaskID[w], k)[TaskID[w]] = Complete(k)[TaskID[w]]
        BY Zenon, <2>2 DEF Emitted, Complete
      <3>4. file'[w][k] = Plus(file[w][k], Emitted(TaskID[w], k)) /\ k \in created'[w]
        BY Zenon, <1>7, <2>6, <2>2 DEF SavePartition, TypeOK, WTypeOK
      <3>5. Complete(k)[TaskID[w]] <= file'[w][k][TaskID[w]]
        BY <3>2, <3>3, <3>4
      <3>. QED
        BY Zenon, <2>2, <3>4, <3>5 DEF SavedIn, Complete
    <2>4. ASSUME NEW r \in Reduces, r < part'[w]
          PROVE  SavedIn(w, TaskID[w], r)'
      <3>1. CASE r = k
        BY Zenon, <2>3, <3>1
      <3>2. CASE r < k
        <4>1. SavedIn(w, TaskID[w], r)
          BY Zenon, <2>6, <2>2, <3>2 DEF WorkerCover
        <4>. QED
          BY Zenon, <1>1, <2>2, <4>1 DEF FilesGrow, SavedIn
      <3>3. r = k \/ r < k
        BY SMTT(30), <2>2, <2>4 DEF Reduces
      <3>. QED
        BY <3>1, <3>2, <3>3
    <2>5. WorkerCover(w)'
      BY Zenon, <2>2, <2>4 DEF WorkerCover, HasRead
    <2>. QED
      BY <1>2, <1>3, <1>4, <2>1, <2>5
  <1>8. ASSUME NEW w \in Ids, NEW i \in Ids, ReadFile(w, i), UNCHANGED cvars
        PROVE  CoverInv'
    <2>. DEFINE r == TaskID[w]
    <2>1. UNCHANGED <<tasks, out>> /\ \A v \in Ids \ {w} : Idles(v)
      BY <1>8 DEF ReadFile, Goto, cvars, Idles, TypeOK, WTypeOK
    <2>2. /\ pc[w] = "reduce" /\ i \in unread[w] /\ r \in Reduces
          /\ unread[w] \subseteq Workers[w] /\ Workers[w] \subseteq Ids
          /\ Covers(Workers[w]) /\ Ready(unread[w], intermediate[w], r) /\ part[w] = 0
      BY Zenon, <1>8 DEF ReadFile, At, TypeOK, WTypeOK, WorkerCover
    <2>3. r \in created[i]
      BY Zenon, <2>2 DEF Covers
    <2>4. /\ intermediate' = [intermediate EXCEPT ![w] = Plus(intermediate[w], file[i][r])]
          /\ unread' = [unread EXCEPT ![w] = unread[w] \ {i}]
          /\ UNCHANGED <<pc, TaskID, Workers, part, file, created>>
      BY Zenon, <1>8, <2>3 DEF ReadFile
    <2>5. /\ intermediate'[w] = Plus(intermediate[w], file[i][r])
          /\ unread'[w] = unread[w] \ {i}
      BY <2>4 DEF TypeOK, WTypeOK
    <2>6. intermediate[w] \in Contents /\ file[i][r] \in Contents /\ Complete(r) \in Contents
      BY Zenon, <2>2, EmittedContents DEF TypeOK, WTypeOK
    <2>7. ASSUME NEW t \in Maps, ~(\E j \in unread'[w] : Saved(j, t))
          PROVE  Complete(r)[t] <= intermediate'[w][t]
      <3>1. CASE Saved(i, t)
        <4>1. Complete(r)[t] <= file[i][r][t]
          BY Zenon, <2>2, <3>1 DEF Saved, SavedIn
        <4>2. file[i][r][t] <= intermediate'[w][t]
          BY Zenon, <2>5, <2>6, PlusContents
        <4>3. Plus(intermediate[w], file[i][r]) \in Contents
          BY Zenon, <2>6, PlusContents
        <4>. QED
          BY <2>5, <2>6, <4>1, <4>2, <4>3 DEF Contents, Twice
      <3>2. CASE ~Saved(i, t)
        <4>1. Complete(r)[t] <= intermediate[w][t]
          BY Zenon, <2>2, <2>5, <2>7, <3>2 DEF Ready
        <4>2. intermediate[w][t] <= intermediate'[w][t]
          BY <2>5, <2>6, PlusContents
        <4>3. Plus(intermediate[w], file[i][r]) \in Contents
          BY Zenon, <2>6, PlusContents
        <4>. QED
          BY SMTT(30), <2>5, <2>6, <4>1, <4>2, <4>3 DEF Contents, Twice
      <3>. QED
        BY Zenon, <3>1, <3>2
    <2>8. Ready(unread[w], intermediate[w], TaskID[w])'
      BY Zenon, <2>4, <2>7 DEF Ready, Saved, SavedIn, Complete
    <2>9. Covers(Workers[w])'
      BY SMTT(30), <2>2, <2>4 DEF Covers, Saved, SavedIn
    <2>10. WorkerCover(w)'
      BY Zenon, <2>2, <2>4, <2>5, <2>8, <2>9 DEF WorkerCover, HasRead
    <2>. QED
      BY Zenon, <1>2, <1>3, <1>4, <2>1, <2>10
  <1>9. ASSUME NEW w \in Ids, SortIntermediate(w), UNCHANGED cvars
        PROVE  CoverInv'
    <2>1. UNCHANGED <<tasks, out>> /\ \A v \in Ids \ {w} : Idles(v)
      BY Zenon, <1>9 DEF SortIntermediate, Goto, cvars, Idles, TypeOK, WTypeOK
    <2>2. \A t \in Maps : Complete(TaskID[w])[t] <= intermediate[w][t]
      BY Zenon, <1>9 DEF SortIntermediate, At, WorkerCover, Ready
    <2>3. /\ pc[w] = "reduce" /\ pc'[w] = "create"
          /\ UNCHANGED <<TaskID, intermediate, part>>
      BY Zenon, <1>9 DEF SortIntermediate, At, Goto, TypeOK, WTypeOK
    <2>4. WorkerCover(w)'
      BY Zenon, <2>2, <2>3 DEF WorkerCover, HasRead, Complete
    <2>. QED
      BY Zenon, <1>2, <1>3, <1>4, <2>1, <2>4
  <1>10. ASSUME NEW w \in Ids, CreateOutput(w), UNCHANGED cvars
         PROVE  CoverInv'
    <2>1. UNCHANGED tasks /\ \A v \in Ids \ {w} : Idles(v)
      BY Zenon, <1>10 DEF CreateOutput, Goto, cvars, Idles, TypeOK, WTypeOK
    <2>2. /\ pc[w] = "create" /\ pc'[w] = "write" /\ TaskID[w] \in Reduces
          /\ UNCHANGED <<TaskID, intermediate, part>>
      BY Zenon, <1>10 DEF CreateOutput, At, Goto, TypeOK, WTypeOK
    <2>3. WorkerCover(w)'
      BY Zenon, <2>2 DEF WorkerCover, HasRead, Complete
    <2>4. \A r \in Reduces : out'[r].state = "whole" => out'[r] = out[r]
      BY Zenon, <1>10, <2>2 DEF CreateOutput, TypeOK, WTypeOK
    <2>5. OutputCover'
      BY SMTT(30), <2>4 DEF OutputCover, Complete
    <2>. QED
      BY Zenon, <1>2, <1>4, <2>1, <2>3, <2>5
  <1>11. ASSUME NEW w \in Ids, WriteOutput(w), UNCHANGED cvars
         PROVE  CoverInv'
    <2>1. UNCHANGED tasks /\ \A v \in Ids \ {w} : Idles(v)
      BY Zenon, <1>11 DEF WriteOutput, Goto, cvars, Idles, TypeOK, WTypeOK
    <2>2. /\ pc[w] = "write" /\ pc'[w] = "written" /\ TaskID[w] \in Reduces /\ UNCHANGED part
          /\ \A t \in Maps : Complete(TaskID[w])[t] <= intermediate[w][t]
      BY Zenon, <1>11 DEF WriteOutput, At, Goto, TypeOK, WTypeOK, WorkerCover, HasRead
    <2>3. WorkerCover(w)'
      BY Zenon, <2>2 DEF WorkerCover, HasRead
    <2>4. PICK o \in {[state |-> "whole", content |-> intermediate[w]],
                      [state |-> "garbled", content |-> Empty]} :
              out' = [out EXCEPT ![TaskID[w]] = o]
      BY Zenon, <1>11 DEF WriteOutput
    <2>7. o.state = "whole" => o.content = intermediate[w]
      OBVIOUS
    <2>5. ASSUME NEW r \in Reduces, out'[r].state = "whole", NEW t \in Maps
          PROVE  Complete(r)[t] <= out'[r].content[t]
      <3>1. CASE r = TaskID[w]
        BY Zenon, <2>2, <2>4, <2>5, <2>7, <3>1 DEF TypeOK, WTypeOK
      <3>2. CASE r # TaskID[w]
        BY Zenon, <2>2, <2>4, <2>5, <3>2 DEF TypeOK, WTypeOK, OutputCover
      <3>. QED
        BY Zenon, <3>1, <3>2
    <2>6. OutputCover'
      BY <2>5 DEF OutputCover, Complete
    <2>. QED
      BY Zenon, <1>2, <1>4, <2>1, <2>3, <2>6
  <1>12. ASSUME NEW w \in Ids, SendComplete(w)
         PROVE  CoverInv'
    <2>1. UNCHANGED <<tasks, out>> /\ \A v \in Ids \ {w} : Idles(v)
      BY Zenon, <1>12 DEF SendComplete, CallCompleteTask, Goto, cvars, Idles, TypeOK, WTypeOK
    <2>2. /\ UNCHANGED <<TaskID, file, created>> /\ part'[w] = 0
          /\ pc'[w] \in {"mapped", "reduced"}
          /\ pc'[w] = "mapped" => pc[w] = "map" /\ part[w] = NReduce
      BY <1>12 DEF SendComplete, CallCompleteTask, At, Goto, TypeOK, WTypeOK
    <2>3. \A r \in Reduces : r < NReduce
      BY SizeAssumption DEF Reduces
    <2>4. pc'[w] = "mapped" => Saved(w, TaskID[w])'
      BY Zenon, <2>2, <2>3 DEF WorkerCover, Saved, SavedIn
    <2>5. WorkerCover(w)'
      BY Zenon, <2>2, <2>4 DEF WorkerCover, HasRead
    <2>. QED
      BY Zenon, <1>2, <1>3, <1>4, <2>1, <2>5
  <1>13. ASSUME NEW w \in Ids, HandleMapDone(w)
         PROVE  CoverInv'
    <2>1. UNCHANGED <<tasks, out, part, file, created>> /\ \A v \in Ids \ {w} : Idles(v)
      BY Zenon, <1>13 DEF HandleMapDone, Goto, cvars, Idles, TypeOK, WTypeOK
    <2>2. pc[w] = "asking" /\ part[w] = 0 /\ pc'[w] \in {"askMap", "askReduce"}
      BY Zenon, <1>13 DEF HandleMapDone, Goto, TypeOK, WTypeOK, WorkerCover
    <2>3. pc'[w] = "askReduce" => MapDone /\ Workers'[w] = MapWorkers
      BY Zenon, <1>13 DEF HandleMapDone, Goto, TypeOK, WTypeOK
    <2>4. MapDone => Covers(MapWorkers)
      BY Zenon DEF MapDone, MapWorkers, Covers, CompletedSaved, Saved, SavedIn
    <2>5. pc'[w] = "askReduce" => Covers(Workers[w])'
      BY SMTT(30), <2>1, <2>3, <2>4 DEF Covers, Saved, SavedIn
    <2>6. WorkerCover(w)'
      BY Zenon, <2>1, <2>2, <2>5 DEF WorkerCover, HasRead
    <2>. QED
      BY Zenon, <1>2, <1>3, <1>4, <2>1, <2>6
  <1>14. ASSUME NEW w \in Ids, HandleAssignMap(w)
         PROVE  CoverInv'
    <2>1. PICK t \in Maps : /\ tasks' = [tasks EXCEPT ![t] = [status |-> "processing",
                                                            AssignedWorker |-> w]]
                            /\ TaskID' = [TaskID EXCEPT ![w] = t]
      BY Zenon, <1>14 DEF HandleAssignMap, AssignMap
    <2>2. UNCHANGED <<out, file, created, part>> /\ \A v \in Ids \ {w} : Idles(v)
      BY Zenon, <1>14, <2>1 DEF HandleAssignMap, Goto, Idles, TypeOK, WTypeOK
    <2>3. pc[w] = "askMap" /\ part[w] = 0 /\ pc'[w] = "map"
      BY <1>14 DEF HandleAssignMap, Goto, TypeOK, WTypeOK, WorkerCover
    <2>4. \A u \in Maps : tasks'[u].status = "completed" => tasks'[u] = tasks[u]
      BY Zenon, <2>1 DEF TypeOK, CTypeOK
    <2>5. CompletedSaved'
      BY Zenon, <2>2, <2>4 DEF CompletedSaved, Saved, SavedIn
    <2>6. \A r \in Reduces : ~(r < 0)
      BY SMTT(30) DEF Reduces
    <2>7. WorkerCover(w)'
      BY Zenon, <2>2, <2>3, <2>6 DEF WorkerCover, HasRead
    <2>. QED
      BY <1>3, <1>4, <2>2, <2>5, <2>7
  <1>15. ASSUME NEW w \in Ids, HandleAssignReduce(w)
         PROVE  CoverInv'
    <2>1. PICK r \in Reduces : /\ TaskID' = [TaskID EXCEPT ![w] = r]
                               /\ unread' = [unread EXCEPT ![w] = Workers[w]]
      BY ZenonT(30), <1>15 DEF HandleAssignReduce
    <2>2. UNCHANGED <<tasks, out, file, created, part, Workers>> /\ \A v \in Ids \ {w} : Idles(v)
      BY <1>15, <2>1 DEF HandleAssignReduce, AssignReduce, Goto, Idles, TypeOK, WTypeOK
    <2>3. /\ pc[w] = "askReduce" /\ pc'[w] = "reduce" /\ unread'[w] = Workers[w]
          /\ Covers(Workers[w]) /\ part[w] = 0
      BY <1>15, <2>1 DEF HandleAssignReduce, Goto, TypeOK, WTypeOK, WorkerCover
    <2>4. Covers(Workers[w])' /\ Ready(unread[w], intermediate[w], TaskID[w])'
      BY Zenon, <2>2, <2>3 DEF Covers, Ready, Saved, SavedIn
    <2>5. WorkerCover(w)'
      BY Zenon, <2>2, <2>3, <2>4 DEF WorkerCover, HasRead
    <2>. QED
      BY Zenon, <1>2, <1>3, <1>4, <2>2, <2>5
  <1>16. ASSUME NEW w \in Ids, HandleCompleteTask(w)
         PROVE  CoverInv'
    <2>1. UNCHANGED <<out, file, created, part>> /\ \A v \in Ids \ {w} : Idles(v)
      BY Zenon, <1>16 DEF HandleCompleteTask, Goto, Idles, TypeOK, WTypeOK
    <2>2. pc[w] \in {"mapped", "reduced"} /\ part[w] = 0 /\ pc'[w] = "idle"
      BY SMTT(30), <1>16 DEF HandleCompleteTask, Goto, TypeOK, WTypeOK, WorkerCover
    <2>3. WorkerCover(w)'
      BY Zenon, <2>1, <2>2 DEF WorkerCover, HasRead
    <2>4. CASE pc[w] = "mapped" /\ CompleteMap(w, TaskID[w])
      <3>1. TaskID[w] \in Maps /\ Saved(w, TaskID[w])
        BY Zenon, <2>4 DEF TypeOK, WTypeOK, WorkerCover
      <3>2. \A t \in Maps : tasks'[t] = IF t = TaskID[w]
                                        THEN [status |-> "completed", AssignedWorker |-> w]
                                        ELSE tasks[t]
        BY Zenon, <2>4, <3>1 DEF CompleteMap, TypeOK, CTypeOK
      <3>3. CompletedSaved'
        BY <2>1, <3>1, <3>2 DEF CompletedSaved, Saved, SavedIn
      <3>. QED
        BY Zenon, <1>3, <1>4, <2>1, <2>3, <3>3
    <2>5. CASE pc[w] = "reduced" /\ CompleteReduce(w, TaskID[w])
      BY Zenon, <1>2, <1>3, <1>4, <2>1, <2>3, <2>5 DEF CompleteReduce
    <2>. QED
      BY Zenon, <1>16, <2>4, <2>5 DEF HandleCompleteTask
  <1>17. ASSUME NEW w \in Ids, Heartbeat(w) \/ Crash(w) \/ DialFails(w) \/ Late(w)
         PROVE  CoverInv'
    BY Zenon, <1>5, <1>17 DEF Heartbeat, ReceiveHeartbeat, Crash, DialFails, StopProcess, Late, TimeOut,
       cvars, wvars
  <1>18. ASSUME CheckAlive \/ PollDone \/ ExitMain \/ UNCHANGED vars
         PROVE  CoverInv'
    BY <1>5, <1>18 DEF CheckAlive, CheckAliveMachine, PollDone, Done, ExitMain, Exit, vars, cvars,
       wvars
  <1>. QED
    BY Zenon, <1>6, <1>7, <1>8, <1>9, <1>10, <1>11, <1>12, <1>13, <1>14, <1>15, <1>16, <1>17, <1>18
       DEF Next, WorkerStep, ProcessTask, Handler

(* The cover invariant holds in every reachable state.                     *)
LEMMA CoverInvariant == Spec => [](TypeOK /\ CoverInv)
  <1>1. Init => TypeOK /\ CoverInv
    <2>1. ASSUME Init
          PROVE  CoverInv
      BY <2>1 DEF Init, MakeCoordinator, WorkerInit, IdleTask, CoverInv, CompletedSaved, WorkerCover,
         OutputCover, HasRead
    <2>. QED
      BY Zenon, <2>1, TypeInit
  <1>2. TypeOK /\ CoverInv /\ [Next]_vars => (TypeOK /\ CoverInv)'
    BY TypeStep, CoverStep
  <1>. QED
    BY <1>1, <1>2, PTL DEF Spec

(* No map output is lost: for any number of tasks, partitions and          *)
(* processes, any crashes and any late heartbeats, a reduce task that has  *)
(* read its input has every map output at least once.                      *)
THEOREM OutputNeverLost == Spec => []NoOutputLost
  <1>1. TypeOK /\ CoverInv => NoOutputLost
    BY Zenon DEF CoverInv, OutputCover, WorkerCover, NoOutputLost
  <1>. QED
    BY <1>1, CoverInvariant, PTL

(* No reduce task is ever sent to read a file that does not exist.         *)
THEOREM CannotOpenUnreachable == Spec => []NeverCannotOpen
  <1>1. TypeOK /\ CoverInv => NeverCannotOpen
    BY ZenonT(30) DEF CoverInv, WorkerCover, NeverCannotOpen
  <1>. QED
    BY <1>1, CoverInvariant, PTL

-----------------------------------------------------------------------------
(* A step in which process v does nothing leaves it the holder of what it  *)
(* holds, unless the coordinator gives its task away.                      *)
LEMMA HolderFrame ==
    ASSUME NEW v \in Ids, Holder(v),
           pc'[v] = pc[v], TaskID'[v] = TaskID[v], up'[v] => up[v],
           Engaged(v) /\ v \in recent => v \in recent',
           v \in IsAlive' <=> v \in IsAlive,
           Engaged(v) /\ HasReduce(v) => rtasks'[TaskID[v]] = rtasks[TaskID[v]],
           v \in IsAlive /\ HasMap(v) => tasks'[TaskID[v]] = tasks[TaskID[v]]
    PROVE  Holder(v)'
  BY Zenon DEF Holder, Engaged, HasReduce, HasMap, HeldBy

(* Every step preserves the holder invariant.                              *)
LEMMA HolderStep ==
    ASSUME Punctual = Ids, TypeOK, HolderInv, [Next]_vars
    PROVE  HolderInv'
  <1>. USE DEF HolderInv
  <1>1. TypeOK'
    BY Zenon, TypeStep
  <1>2. \A v \in Ids : up[v] \in BOOLEAN /\ up'[v] \in BOOLEAN
    BY Zenon, <1>1 DEF TypeOK, WTypeOK
  <1>3. ASSUME NEW w \in Ids, UNCHANGED <<tasks, rtasks, IsAlive, recent>>,
               \A v \in Ids \ {w} : pc'[v] = pc[v] /\ up'[v] = up[v] /\ TaskID'[v] = TaskID[v],
               Holder(w)'
        PROVE  HolderInv'
    BY <1>2, <1>3, HolderFrame
  <1>4. ASSUME NEW w \in Ids, RegisterWorker(w)
        PROVE  HolderInv'
    <2>1. /\ IsAlive' = IsAlive \cup {w} /\ recent' = recent \cup {w}
          /\ UNCHANGED <<tasks, rtasks, up, TaskID>> /\ pc'[w] = "idle"
          /\ \A v \in Ids \ {w} : pc'[v] = pc[v]
      BY Zenon, <1>4 DEF RegisterWorker, Register, Goto, TypeOK, WTypeOK
    <2>2. Holder(w)'
      BY Zenon, <2>1 DEF Holder, Engaged, HasReduce, HasMap
    <2>3. \A v \in Ids \ {w} : Holder(v)'
      BY Zenon, <1>2, <2>1, HolderFrame
    <2>. QED
      BY Zenon, <2>2, <2>3
  <1>5. ASSUME NEW w \in Ids, AskTask(w) \/ HandleMapDone(w) \/ HandleNoTask(w)
        PROVE  HolderInv'
    <2>1. /\ UNCHANGED <<tasks, rtasks, IsAlive, recent, up, TaskID>>
          /\ \A v \in Ids \ {w} : pc'[v] = pc[v]
          /\ pc'[w] \in {"idle", "asking", "askMap", "askReduce"}
          /\ Engaged(w)
      BY <1>5 DEF AskTask, CallAssignTask, HandleMapDone, HandleNoTask, Goto, At, Engaged, InHandler,
         cvars, TypeOK, WTypeOK
    <2>2. Holder(w)'
      BY Zenon, <2>1 DEF Holder, Engaged, HasReduce, HasMap
    <2>. QED
      BY Zenon, <1>3, <2>1, <2>2
  <1>6. ASSUME NEW w \in Ids, ProcessTask(w) \/ SendComplete(w)
        PROVE  HolderInv'
    <2>1. /\ UNCHANGED <<tasks, rtasks, IsAlive, recent, TaskID>>
          /\ \A v \in Ids \ {w} : pc'[v] = pc[v] /\ up'[v] = up[v]
          /\ up[w]
      <3>0. pc \in [Ids -> PC] /\ up \in [Ids -> BOOLEAN]
        BY Zenon DEF TypeOK, WTypeOK
      <3>1. CASE SavePartition(w) \/ SortIntermediate(w) \/ CreateOutput(w) \/ WriteOutput(w)
        <4>1. UNCHANGED <<TaskID, up>> /\ up[w] /\ (pc' = pc \/ \E l : pc' = [pc EXCEPT ![w] = l])
          BY Zenon, <3>0, <3>1 DEF SavePartition, SortIntermediate, CreateOutput, WriteOutput, Goto, At
        <4>. QED
          BY <1>6, <3>0, <3>1, <4>1 DEF ProcessTask, SendComplete, cvars
      <3>2. ASSUME NEW i \in Ids, ReadFile(w, i)
            PROVE  /\ UNCHANGED TaskID /\ up[w]
                   /\ \A v \in Ids \ {w} : pc'[v] = pc[v] /\ up'[v] = up[v]
        BY Zenon, <3>0, <3>2 DEF ReadFile, Goto, At
      <3>3. CASE SendComplete(w)
        BY <3>0, <3>3 DEF SendComplete, CallCompleteTask, Goto, At, cvars
      <3>4. UNCHANGED <<tasks, rtasks, IsAlive, recent>>
        BY Zenon, <1>6 DEF ProcessTask, SendComplete, cvars
      <3>. QED
        BY Zenon, <1>6, <3>1, <3>2, <3>3, <3>4 DEF ProcessTask
    <2>. DEFINE Moves == \/ pc[w] = "map" /\ pc'[w] \in {"map", "mapped"} /\ up'[w]
                        \/ /\ HasReduce(w)
                           /\ \/ pc'[w] \in {"reduce", "create", "write", "written", "reduced"}
                              \/ ~up'[w] /\ pc'[w] = "fatal"
    <2>2. Moves
      <3>1. CASE SavePartition(w)
        BY Zenon, <3>1 DEF SavePartition, At
      <3>2. CASE SortIntermediate(w) \/ CreateOutput(w) \/ WriteOutput(w)
        BY Zenon, <3>2 DEF SortIntermediate, CreateOutput, WriteOutput, Goto, At, HasReduce, TypeOK, WTypeOK
      <3>3. ASSUME NEW i \in Ids, ReadFile(w, i)
            PROVE  Moves
        <4>1. CASE TaskID[w] \in created[i]
          BY <3>3, <4>1 DEF ReadFile, At, HasReduce
        <4>2. CASE TaskID[w] \notin created[i]
          BY Zenon, <3>3, <4>2 DEF ReadFile, At, Goto, HasReduce, TypeOK, WTypeOK
        <4>. QED
          BY Zenon, <4>1, <4>2
      <3>4. CASE SendComplete(w)
        BY <3>4 DEF SendComplete, CallCompleteTask, Goto, At, HasReduce, TypeOK, WTypeOK
      <3>. QED
        BY Zenon, <1>6, <3>1, <3>2, <3>3, <3>4 DEF ProcessTask
    <2>3. Holder(w)'
      BY Zenon, <2>1, <2>2 DEF Holder, Engaged, HasReduce, HasMap, HeldBy, InHandler
    <2>. QED
      BY ZenonT(30), <1>3, <2>1, <2>3
  <1>7. ASSUME NEW w \in Ids, HandleAssignMap(w)
        PROVE  HolderInv'
    <2>1. PICK t \in Maps : /\ t \in OpenMaps
                            /\ tasks' = [tasks EXCEPT ![t] = HeldBy(w)]
                            /\ TaskID' = [TaskID EXCEPT ![w] = t]
      BY Zenon, <1>7 DEF HandleAssignMap, AssignMap, IsFirst, HeldBy
    <2>2. /\ UNCHANGED <<rtasks, IsAlive, recent, up>>
          /\ \A v \in Ids \ {w} : pc'[v] = pc[v] /\ TaskID'[v] = TaskID[v]
          /\ pc'[w] = "map" /\ TaskID'[w] = t /\ tasks'[t] = HeldBy(w) /\ Engaged(w)
      BY <1>7, <2>1 DEF HandleAssignMap, AssignMap, Goto, Engaged, InHandler, TypeOK, CTypeOK, WTypeOK
    <2>3. Holder(w)'
      BY Zenon, <2>2 DEF Holder, Engaged, HasReduce, HasMap, HeldBy
    <2>4. ASSUME NEW v \in Ids \ {w}, v \in IsAlive, HasMap(v)
          PROVE  tasks'[TaskID[v]] = tasks[TaskID[v]]
      <3>1. tasks[TaskID[v]] = HeldBy(v) /\ TaskID[v] \in Maps
        BY Zenon, <2>4 DEF Holder, HasMap, TypeOK, WTypeOK
      <3>2. TaskID[v] # t
        BY <2>1, <2>4, <3>1 DEF OpenMaps, HeldBy
      <3>. QED
        BY <2>1, <3>1, <3>2 DEF TypeOK, CTypeOK
    <2>5. \A v \in Ids \ {w} : Holder(v)'
      BY Zenon, <1>2, <2>2, <2>4, HolderFrame
    <2>. QED
      BY <2>3, <2>5
  <1>8. ASSUME NEW w \in Ids, HandleAssignReduce(w)
        PROVE  HolderInv'
    <2>1. PICK r \in Reduces : /\ r \in OpenReduces
                               /\ rtasks' = [rtasks EXCEPT ![r] = HeldBy(w)]
                               /\ TaskID' = [TaskID EXCEPT ![w] = r]
      BY Zenon, <1>8 DEF HandleAssignReduce, AssignReduce, IsFirst, HeldBy
    <2>2. /\ UNCHANGED <<tasks, IsAlive, recent, up>>
          /\ \A v \in Ids \ {w} : pc'[v] = pc[v] /\ TaskID'[v] = TaskID[v]
          /\ pc'[w] = "reduce" /\ TaskID'[w] = r /\ rtasks'[r] = HeldBy(w) /\ Engaged(w)
      BY <1>8, <2>1 DEF HandleAssignReduce, AssignReduce, Goto, Engaged, InHandler, TypeOK, CTypeOK,
         WTypeOK
    <2>3. Holder(w)'
      BY Zenon, <2>2 DEF Holder, Engaged, HasReduce, HasMap, HeldBy
    <2>4. ASSUME NEW v \in Ids \ {w}, Engaged(v), HasReduce(v)
          PROVE  rtasks'[TaskID[v]] = rtasks[TaskID[v]]
      <3>1. rtasks[TaskID[v]] = HeldBy(v) /\ TaskID[v] \in Reduces /\ v \in IsAlive
        BY Zenon, <2>4 DEF Holder, HasReduce, TypeOK, WTypeOK
      <3>2. TaskID[v] # r
        BY <2>1, <2>4, <3>1 DEF OpenReduces, HeldBy
      <3>. QED
        BY <2>1, <3>1, <3>2 DEF TypeOK, CTypeOK
    <2>5. \A v \in Ids \ {w} : Holder(v)'
      BY Zenon, <1>2, <2>2, <2>4, HolderFrame
    <2>. QED
      BY <2>3, <2>5
  <1>9. ASSUME NEW w \in Ids, HandleCompleteTask(w)
        PROVE  HolderInv'
    <2>. DEFINE k == TaskID[w]
    <2>1. /\ UNCHANGED <<IsAlive, recent, up>> /\ pc'[w] = "idle" /\ Engaged(w)
          /\ \A v \in Ids \ {w} : pc'[v] = pc[v] /\ TaskID'[v] = TaskID[v]
      BY Zenon, <1>9 DEF HandleCompleteTask, CompleteMap, CompleteReduce, Goto, Engaged, InHandler, TypeOK,
         WTypeOK
    <2>2. Holder(w)'
      BY Zenon, <2>1 DEF Holder, Engaged, HasReduce, HasMap
    <2>3. CASE pc[w] = "mapped" /\ CompleteMap(w, k)
      <3>1. tasks[k] = HeldBy(w) /\ k \in Maps
        BY Zenon, <2>1, <2>3 DEF Holder, HasMap, TypeOK, WTypeOK
      <3>2. ASSUME NEW v \in Ids \ {w}, v \in IsAlive, HasMap(v)
            PROVE  tasks'[TaskID[v]] = tasks[TaskID[v]]
        <4>1. tasks[TaskID[v]] = HeldBy(v) /\ TaskID[v] \in Maps
          BY Zenon, <3>2 DEF Holder, HasMap, TypeOK, WTypeOK
        <4>2. TaskID[v] # k
          <5>1. HeldBy(v).AssignedWorker = v /\ HeldBy(w).AssignedWorker = w
            BY Zenon DEF HeldBy
          <5>. QED
            BY Zenon, <3>1, <4>1, <5>1
        <4>. QED
          BY Zenon, <2>3, <4>1, <4>2 DEF CompleteMap, TypeOK, CTypeOK
      <3>3. \A v \in Ids \ {w} : Holder(v)'
        BY Zenon, <1>2, <2>1, <2>3, <3>2, HolderFrame DEF CompleteMap
      <3>. QED
        BY Zenon, <2>2, <3>3
    <2>4. CASE pc[w] = "reduced" /\ CompleteReduce(w, k)
      <3>1. rtasks[k] = HeldBy(w) /\ k \in Reduces
        BY ZenonT(30), <2>1, <2>4 DEF Holder, HasReduce, TypeOK, WTypeOK
      <3>2. ASSUME NEW v \in Ids \ {w}, Engaged(v), HasReduce(v)
            PROVE  rtasks'[TaskID[v]] = rtasks[TaskID[v]]
        <4>1. rtasks[TaskID[v]] = HeldBy(v) /\ TaskID[v] \in Reduces
          BY Zenon, <3>2 DEF Holder, HasReduce, TypeOK, WTypeOK
        <4>2. TaskID[v] # k
          <5>1. HeldBy(v).AssignedWorker = v /\ HeldBy(w).AssignedWorker = w
            BY Zenon DEF HeldBy
          <5>. QED
            BY Zenon, <3>1, <4>1, <5>1
        <4>. QED
          BY Zenon, <2>4, <4>1, <4>2 DEF CompleteReduce, TypeOK, CTypeOK
      <3>3. \A v \in Ids \ {w} : Holder(v)'
        BY ZenonT(30), <1>2, <2>1, <2>4, <3>2, HolderFrame DEF CompleteReduce
      <3>. QED
        BY <2>2, <3>3
    <2>. QED
      BY Zenon, <1>9, <2>3, <2>4 DEF HandleCompleteTask
  <1>10. ASSUME NEW w \in Ids, Crash(w) \/ DialFails(w)
         PROVE  HolderInv'
    <2>1. /\ UNCHANGED <<tasks, rtasks, IsAlive, recent, pc, TaskID>>
          /\ \A v \in Ids : up'[v] => up[v]
      BY <1>10 DEF Crash, DialFails, StopProcess, cvars, TypeOK, WTypeOK
    <2>. QED
      BY Zenon, <1>2, <2>1, HolderFrame
  <1>11. ASSUME NEW w \in Ids, Heartbeat(w)
         PROVE  HolderInv'
    <2>1. UNCHANGED <<tasks, rtasks, IsAlive, pc, TaskID, up>> /\ recent \subseteq recent'
      BY Zenon, <1>11 DEF Heartbeat, ReceiveHeartbeat, wvars
    <2>. QED
      BY Zenon, <1>2, <2>1, HolderFrame
  <1>12. ASSUME NEW w \in Ids, Late(w)
         PROVE  HolderInv'
    <2>1. UNCHANGED <<tasks, rtasks, IsAlive, pc, TaskID, up>> /\ recent' = recent \ {w}
      BY Zenon, <1>12 DEF Late, TimeOut, wvars
    <2>2. ~Engaged(w)
      BY <1>12 DEF Late, Engaged
    <2>. QED
      BY Zenon, <1>2, <2>1, <2>2, HolderFrame
  <1>13. ASSUME CheckAlive
         PROVE  HolderInv'
    <2>1. UNCHANGED <<tasks, rtasks, recent, pc, TaskID, up>> /\ IsAlive' = IsAlive \cap recent
      BY Zenon, <1>13 DEF CheckAlive, CheckAliveMachine, wvars
    <2>. QED
      BY Zenon, <2>1 DEF Holder, Engaged, HasReduce, HasMap, HeldBy
  <1>14. ASSUME PollDone \/ ExitMain \/ UNCHANGED vars
         PROVE  HolderInv'
    <2>1. UNCHANGED <<tasks, rtasks, recent, IsAlive, pc, TaskID, up>>
      BY <1>14 DEF PollDone, Done, ExitMain, Exit, vars, cvars, wvars
    <2>. QED
      BY Zenon, <1>2, <2>1, HolderFrame
  <1>. QED
    BY Zenon, <1>4, <1>5, <1>6, <1>7, <1>8, <1>9, <1>10, <1>11, <1>12, <1>13, <1>14
       DEF Next, WorkerStep, Handler

(* The holder invariant holds in every reachable state.                    *)
LEMMA HolderInvariant ==
    ASSUME Punctual = Ids
    PROVE  Spec => [](TypeOK /\ HolderInv)
  <1>1. Init => TypeOK /\ HolderInv
    <2>1. ASSUME Init
          PROVE  HolderInv
      BY <2>1 DEF Init, MakeCoordinator, WorkerInit, HolderInv, Holder, Engaged, HasReduce, HasMap
    <2>. QED
      BY Zenon, <2>1, TypeInit
  <1>2. TypeOK /\ HolderInv /\ [Next]_vars => (TypeOK /\ HolderInv)'
    BY TypeStep, HolderStep
  <1>. QED
    BY <1>1, <1>2, PTL DEF Spec

(* With punctual heartbeats, no two running processes work on the same     *)
(* reduce task, however processes crash.                                   *)
THEOREM SingleReducer ==
    ASSUME Punctual = Ids
    PROVE  Spec => []OneReducer
  <1>1. TypeOK /\ HolderInv => OneReducer
    <2>1. ASSUME HolderInv, NEW v \in Ids, NEW w \in Ids, NEW r \in Reduces,
                 Reducing(v, r), Reducing(w, r)
          PROVE  v = w
      <3>1. rtasks[r] = HeldBy(v)
        BY Zenon, <2>1 DEF HolderInv, Holder, Reducing, Engaged, HasReduce
      <3>2. rtasks[r] = HeldBy(w)
        BY <2>1 DEF HolderInv, Holder, Reducing, Engaged, HasReduce
      <3>3. HeldBy(v).AssignedWorker = v /\ HeldBy(w).AssignedWorker = w
        BY DEF HeldBy
      <3>. QED
        BY Zenon, <3>1, <3>2, <3>3
    <2>. QED
      BY <2>1 DEF OneReducer
  <1>. QED
    BY <1>1, HolderInvariant, PTL

(* With punctual heartbeats, mr-out-r is never touched again once reduce   *)
(* task r is recorded as completed.                                        *)
THEOREM CompletedOutputStable ==
    ASSUME Punctual = Ids
    PROVE  Spec => FinalOutputStable
  <1>1. TypeOK /\ HolderInv /\ [Next]_vars =>
            [\A r \in Reduces : rtasks[r].status = "completed" =>
                rtasks'[r].status = "completed" /\ out'[r] = out[r]]_vars
    <2>. SUFFICES ASSUME TypeOK, HolderInv, [Next]_vars, NEW r \in Reduces,
                         rtasks[r].status = "completed"
                  PROVE  rtasks'[r].status = "completed" /\ out'[r] = out[r]
      BY Zenon
    <2>1. ASSUME NEW w \in Ids, CreateOutput(w) \/ WriteOutput(w)
          PROVE  out'[r] = out[r]
      <3>1. up[w] /\ pc[w] \in {"create", "write"} /\ TaskID[w] \in Reduces
        BY ZenonT(30), <2>1 DEF CreateOutput, WriteOutput, At, TypeOK, WTypeOK
      <3>2. rtasks[TaskID[w]] = HeldBy(w)
        BY Zenon, <3>1 DEF HolderInv, Holder, Engaged, HasReduce
      <3>3. TaskID[w] # r
        BY <3>2 DEF HeldBy
      <3>4. PICK o : out' = [out EXCEPT ![TaskID[w]] = o]
        BY Zenon, <2>1 DEF CreateOutput, WriteOutput
      <3>. QED
        BY <3>3, <3>4 DEF TypeOK, WTypeOK
    <2>2. out'[r] = out[r]
      BY ZenonT(30), <2>1
         DEF Next, WorkerStep, ProcessTask, Handler, RegisterWorker, Heartbeat, AskTask,
             CallAssignTask, SavePartition, ReadFile, SortIntermediate, SendComplete,
             CallCompleteTask, HandleMapDone, HandleAssignMap, HandleAssignReduce, HandleNoTask,
             HandleCompleteTask, Crash, DialFails, StopProcess, Late, CheckAlive, PollDone, ExitMain,
             vars, wvars
    <2>3. ASSUME NEW w \in Ids, NEW q \in Reduces, AssignReduce(w, q)
          PROVE  rtasks'[r] = rtasks[r]
      <3>1. q # r
        BY Zenon, <2>3 DEF AssignReduce, IsFirst, OpenReduces
      <3>. QED
        BY <2>3, <3>1 DEF AssignReduce, TypeOK, CTypeOK
    <2>4. ASSUME NEW w \in Ids, NEW q, CompleteReduce(w, q)
          PROVE  rtasks'[r].status = "completed"
      BY <2>4 DEF CompleteReduce, TypeOK, CTypeOK
    <2>5. rtasks'[r].status = "completed"
      BY Zenon, <2>3, <2>4
         DEF Next, WorkerStep, ProcessTask, Handler, RegisterWorker, Register, Heartbeat,
             ReceiveHeartbeat, AskTask, SendComplete, HandleMapDone, HandleAssignMap, AssignMap,
             HandleAssignReduce, HandleNoTask, HandleCompleteTask, CompleteMap, Crash, DialFails,
             Late, TimeOut, CheckAlive, CheckAliveMachine, PollDone, Done, ExitMain, Exit,
             vars, cvars
    <2>. QED
      BY Zenon, <2>2, <2>5
  <1>. QED
    BY <1>1, HolderInvariant, PTL DEF Spec, FinalOutputStable
=============================================================================
