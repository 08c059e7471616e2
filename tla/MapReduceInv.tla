---------------------------- MODULE MapReduceInv ----------------------------
(***************************************************************************)
(* Inductive invariants of MapReduce, for its proofs.                      *)
(***************************************************************************)
EXTENDS MapReduce

(* Process w has saved the output of map task t in partition r: mr-w-r     *)
(* exists and holds it.                                                    *)
SavedIn(w, t, r) == r \in created[w] /\ Complete(r)[t] <= file[w][r][t]
Saved(w, t) == \A r \in Reduces : SavedIn(w, t, r)

(* The files of the workers in list L cover every map task.                *)
Covers(L) == /\ \A t \in Maps : \E i \in L : Saved(i, t)
             /\ \A i \in L : \A r \in Reduces : r \in created[i]

Ready(L, got, r) ==
    \A t \in Maps : (\E i \in L : Saved(i, t)) \/ Complete(r)[t] <= got[t]

(* Holds whatever the faults: a task is "completed" by AssignedWorker only *)
(* when that process has saved all of it, so the list MapDone computes     *)
(* covers all the tasks, and files only grow.                              *)
CompletedSaved ==
    \A t \in Maps : tasks[t].status = "completed" => Saved(tasks[t].AssignedWorker, t)

WorkerCover(w) ==
    /\ pc[w] # "map" => part[w] = 0
    /\ pc[w] = "map" => \A r \in Reduces : r < part[w] => SavedIn(w, TaskID[w], r)
    /\ pc[w] = "mapped" => Saved(w, TaskID[w])
    /\ pc[w] \in {"askReduce", "reduce"} => Covers(Workers[w])
    /\ pc[w] = "reduce" => /\ unread[w] \subseteq Workers[w]
                           /\ Ready(unread[w], intermediate[w], TaskID[w])
    /\ HasRead(w) => \A t \in Maps : Complete(TaskID[w])[t] <= intermediate[w][t]
    /\ pc[w] # "fatal"

OutputCover ==
    \A r \in Reduces : out[r].state = "whole" =>
        \A t \in Maps : Complete(r)[t] <= out[r].content[t]

CoverInv == CompletedSaved /\ (\A w \in Ids : WorkerCover(w)) /\ OutputCover

(* Process w still has a part in the job: it runs, or a request of its is  *)
(* being served.                                                           *)
Engaged(w) == pc[w] # "start" /\ (up[w] \/ pc[w] \in InHandler)

HasReduce(w) == pc[w] \in {"reduce", "create", "write", "written", "reduced"}
HasMap(w)    == pc[w] \in {"map", "mapped"}

HeldBy(w) == [status |-> "processing", AssignedWorker |-> w]

(* With punctual heartbeats: an engaged process is never declared dead, so *)
(* a task it holds is recorded as its own until it completes it.           *)
Holder(w) ==
    /\ Engaged(w) => w \in recent /\ w \in IsAlive
    /\ w \in IsAlive => pc[w] # "start"
    /\ Engaged(w) /\ HasReduce(w) => rtasks[TaskID[w]] = HeldBy(w)
    /\ w \in IsAlive /\ HasMap(w) => tasks[TaskID[w]] = HeldBy(w)

HolderInv == \A w \in Ids : Holder(w)

(* How often the file mr-w-r of a machine that is alive holds task t.      *)
Finished(w) == [status |-> "completed", AssignedWorker |-> w]
IsDone(t, w) == tasks[t] = Finished(w)
HasSaved(w, t, r) ==
    \/ IsDone(t, w)
    \/ pc[w] = "mapped" /\ TaskID[w] = t
    \/ pc[w] = "map" /\ TaskID[w] = t /\ r < part[w]

Times(w, t, r) == IF <<t, r>> \in Emits /\ HasSaved(w, t, r) THEN 1 ELSE 0

ListDone(v) ==
    \A t \in Maps : tasks[t].status = "completed" /\ tasks[t].AssignedWorker \in Workers[v]

(* What a reduce task has read of task t: the file that holds it, once.    *)
ReadSoFar(v, t) ==
    IF tasks[t].AssignedWorker \in unread[v] THEN 0 ELSE Complete(TaskID[v])[t]

(* With punctual heartbeats: a process that has not registered has left no *)
(* trace, the files of a machine that is alive hold exactly what it has    *)
(* completed or is saving, while a worker list stays alive its tasks stay  *)
(* completed, and a reduce task has read exactly the tasks of the files it *)
(* has opened.                                                             *)
Unborn(v)      == pc[v] = "start" =>
                     created[v] = {} /\ \A r \in Reduces : file[v][r] = Empty
ListBorn(v)    == \A i \in Workers[v] : pc[i] # "start"
FilesOnce(v)   == v \in IsAlive =>
                     \A t \in Maps, r \in Reduces : file[v][r][t] = Times(v, t, r)
NothingRead(v) == pc[v] \notin {"reduce", "create", "write"} => intermediate[v] = Empty
ReadOnce(v)    == Workers[v] \subseteq IsAlive =>
    /\ pc[v] \in {"askReduce", "reduce"} => ListDone(v)
    /\ pc[v] = "reduce" => \A t \in Maps : intermediate[v][t] = ReadSoFar(v, t)
    /\ HasRead(v) => intermediate[v] = Complete(TaskID[v])

Once(v) == Unborn(v) /\ ListBorn(v) /\ FilesOnce(v) /\ NothingRead(v) /\ ReadOnce(v)

OnceInv == \A v \in Ids : Once(v)

(* With punctual heartbeats and no crashes: a machine that has registered  *)
(* is alive for good, and stops only when the coordinator has exited.      *)
NeverDead ==
    /\ Serving => \A w \in Ids : up[w]
    /\ \A w \in Ids : pc[w] # "start" => w \in recent /\ w \in IsAlive

(* The output file of a reduce task, from its creation to its completion.  *)
Started       == [state |-> "partial", content |-> Empty]
Sequential(r) == [state |-> "whole", content |-> Complete(r)]
OutputSoFar(w) == Engaged(w) =>
    /\ pc[w] = "write" => out[TaskID[w]] = Started
    /\ pc[w] \in {"written", "reduced"} => out[TaskID[w]] = Sequential(TaskID[w])

JobInv ==
    /\ NeverDead
    /\ \A w \in Ids : OutputSoFar(w)
    /\ \A r \in Reduces : rtasks[r].status = "completed" => out[r] = Sequential(r)
    /\ main # "polling" => ReduceDone
=============================================================================
