---------------------------- MODULE Coordinator ----------------------------
(***************************************************************************)
(* The MapReduce coordinator (mr/coordinator.go, main/mrcoordinator.go).   *)
(*                                                                         *)
(* Every action is one section of the code that runs under c.mutex.  The   *)
(* AssignTask handler takes the mutex twice, once in MapDone and once to   *)
(* pick the task, and other handlers may run in between: it is modelled as *)
(* MapDone followed by AssignMap or AssignReduce.  ReduceDone takes the    *)
(* mutex a third time, but a reduce task never leaves "completed", so      *)
(* testing it together with the selection gives the same reply.            *)
(***************************************************************************)
EXTENDS MRCommon

VARIABLES
    tasks,      \* map tasks
    rtasks,     \* reduce tasks
    machines,   \* ids handed out so far, len(c.machines)
    IsAlive,    \* ids whose machine has IsAlive = true
    recent,     \* ids whose Lastime is at most timeoutDuration ago
    main        \* the coordinator process: "polling", "done" or "exited"

cvars == <<tasks, rtasks, machines, IsAlive, recent, main>>

IdleTask == [status |-> "idle", AssignedWorker |-> 0]

MakeCoordinator ==
    /\ tasks = [t \in Maps |-> IdleTask]
    /\ rtasks = [r \in Reduces |-> IdleTask]
    /\ machines = 0
    /\ IsAlive = {}
    /\ recent = {}
    /\ main = "polling"

Serving == main # "exited"

Register(w) ==
    /\ Serving
    /\ w = machines
    /\ machines' = machines + 1
    /\ IsAlive' = IsAlive \cup {w}
    /\ recent' = recent \cup {w}
    /\ UNCHANGED <<tasks, rtasks, main>>

(* A heartbeat refreshes Lastime and nothing else: it does not bring a     *)
(* machine back to IsAlive.  One that is not late changes nothing here.    *)
ReceiveHeartbeat(w) ==
    /\ Serving
    /\ w \notin recent
    /\ recent' = recent \cup {w}
    /\ UNCHANGED <<tasks, rtasks, machines, IsAlive, main>>

(* Faulty variants, used to show that the properties can fail, precede the *)
(* definition they vary.  This one does not wait for the last map tasks.   *)
MapDoneStarted ==
    \A t \in Maps : tasks[t].status # "idle" /\ tasks[t].AssignedWorker \in IsAlive

MapDone ==
    \A t \in Maps : tasks[t].status = "completed" /\ tasks[t].AssignedWorker \in IsAlive

(* Faulty: lists every live machine, those without a map task included.    *)
MapWorkersAlive == IsAlive

(* The workers argument that MapDone fills in when it returns true.        *)
MapWorkers == {tasks[t].AssignedWorker : t \in Maps}

(* Faulty: does not wait for the last reduce tasks.                        *)
ReduceDoneStarted == \A r \in Reduces : rtasks[r].status # "idle"

ReduceDone == \A r \in Reduces : rtasks[r].status = "completed"

(* Faulty: hands out a map task that a live machine is processing.         *)
OpenMapsBusy ==
    {t \in Maps : tasks[t].status # "completed" \/ tasks[t].AssignedWorker \notin IsAlive}

OpenMaps ==
    {t \in Maps : tasks[t].status = "idle" \/ tasks[t].AssignedWorker \notin IsAlive}

(* Faulty: hands out a reduce task that a live machine is processing;      *)
(* repeats a completed one whose machine died; never repeats one.          *)
OpenReducesBusy == {r \in Reduces : rtasks[r].status # "completed"}
OpenReducesRedo ==
    {r \in Reduces : rtasks[r].status = "idle" \/ rtasks[r].AssignedWorker \notin IsAlive}
OpenReducesOnce == {r \in Reduces : rtasks[r].status = "idle"}

OpenReduces ==
    {r \in Reduces : \/ rtasks[r].status = "idle"
                     \/ /\ rtasks[r].status = "processing"
                        /\ rtasks[r].AssignedWorker \notin IsAlive}

IsFirst(t, S) == t \in S /\ \A u \in S : t <= u

(* Faulty: records the id that the next machine will get.                  *)
AssignMapNext(w, t) ==
    /\ Serving
    /\ IsFirst(t, OpenMaps)
    /\ tasks' = [tasks EXCEPT ![t] = [status |-> "processing", AssignedWorker |-> w + 1]]
    /\ UNCHANGED <<rtasks, machines, IsAlive, recent, main>>

AssignMap(w, t) ==
    /\ Serving
    /\ IsFirst(t, OpenMaps)
    /\ tasks' = [tasks EXCEPT ![t] = [status |-> "processing", AssignedWorker |-> w]]
    /\ UNCHANGED <<rtasks, machines, IsAlive, recent, main>>

AssignReduce(w, r) ==
    /\ Serving
    /\ IsFirst(r, OpenReduces)
    /\ rtasks' = [rtasks EXCEPT ![r] = [status |-> "processing", AssignedWorker |-> w]]
    /\ UNCHANGED <<tasks, machines, IsAlive, recent, main>>

CompleteMap(w, t) ==
    /\ Serving
    /\ tasks' = [tasks EXCEPT ![t] = [status |-> "completed", AssignedWorker |-> w]]
    /\ UNCHANGED <<rtasks, machines, IsAlive, recent, main>>

CompleteReduce(w, r) ==
    /\ Serving
    /\ rtasks' = [rtasks EXCEPT ![r] = [status |-> "completed", AssignedWorker |-> w]]
    /\ UNCHANGED <<tasks, machines, IsAlive, recent, main>>

(* More than timeoutDuration has passed since w's Lastime.                 *)
TimeOut(w) ==
    /\ w \in recent
    /\ recent' = recent \ {w}
    /\ UNCHANGED <<tasks, rtasks, machines, IsAlive, main>>

CheckAliveMachine ==
    /\ Serving
    /\ IsAlive \ recent # {}
    /\ IsAlive' = IsAlive \cap recent
    /\ UNCHANGED <<tasks, rtasks, machines, recent, main>>

(* main() polls Done, sleeps one more second and returns.                  *)
Done ==
    /\ main = "polling"
    /\ ReduceDone
    /\ main' = "done"
    /\ UNCHANGED <<tasks, rtasks, machines, IsAlive, recent>>

Exit ==
    /\ main = "done"
    /\ main' = "exited"
    /\ UNCHANGED <<tasks, rtasks, machines, IsAlive, recent>>

CTypeOK ==
    /\ tasks \in [Maps -> TaskState]
    /\ rtasks \in [Reduces -> TaskState]
    /\ machines \in 0 .. MaxWorkers
    /\ IsAlive \subseteq Ids
    /\ recent \subseteq Ids
    /\ main \in {"polling", "done", "exited"}
=============================================================================
