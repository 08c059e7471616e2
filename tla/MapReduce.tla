----------------------------- MODULE MapReduce ------------------------------
(***************************************************************************)
(* The coordinator and its workers together: every remote call of a worker *)
(* joined to the handler that serves it, process crashes, and the passage  *)
(* of time that CheckAliveMachine observes.                                *)
(***************************************************************************)
EXTENDS Coordinator, Worker

CONSTANTS
    MayCrash,   \* processes that may crash
    Punctual    \* processes whose heartbeats arrive within timeoutDuration

ASSUME FaultAssumption == MayCrash \subseteq Ids /\ Punctual \subseteq Ids

vars == <<cvars, wvars>>

Init == MakeCoordinator /\ WorkerInit

-----------------------------------------------------------------------------
(* CallRegister and Register.                                              *)
RegisterWorker(w) ==
    /\ At(w, "start")
    /\ Register(w)
    /\ Goto(w, "idle")
    /\ UNCHANGED <<up, TaskID, part, Workers, unread, intermediate, file, created, out>>

(* sendHeartbeat and ReceiveHeartbeat.                                     *)
Heartbeat(w) ==
    /\ up[w]
    /\ pc[w] # "start"
    /\ ReceiveHeartbeat(w)
    /\ UNCHANGED wvars

AskTask(w) == Serving /\ CallAssignTask(w) /\ UNCHANGED cvars

(* AssignTask up to the return of MapDone.  The worker list is computed    *)
(* here and sent only when a reduce task has been chosen.                  *)
HandleMapDone(w) ==
    /\ Serving
    /\ pc[w] = "asking"
    /\ IF MapDone
       THEN Goto(w, "askReduce") /\ Workers' = [Workers EXCEPT ![w] = MapWorkers]
       ELSE Goto(w, "askMap") /\ UNCHANGED Workers
    /\ UNCHANGED <<cvars, up, TaskID, part, unread, intermediate, file, created, out>>

(* The rest of AssignTask and of CallAssignTask, for a map task ...        *)
HandleAssignMap(w) ==
    /\ pc[w] = "askMap"
    /\ \E t \in Maps :
          /\ AssignMap(w, t)
          /\ TaskID' = [TaskID EXCEPT ![w] = t]
          /\ Goto(w, "map")
    /\ UNCHANGED <<up, part, Workers, unread, intermediate, file, created, out>>

(* ... for a reduce task ...                                               *)
HandleAssignReduce(w) ==
    /\ pc[w] = "askReduce"
    /\ \E r \in Reduces :
          /\ AssignReduce(w, r)
          /\ TaskID' = [TaskID EXCEPT ![w] = r]
          /\ unread' = [unread EXCEPT ![w] = Workers[w]]
          /\ Goto(w, "reduce")
    /\ UNCHANGED <<up, part, Workers, intermediate, file, created, out>>

(* ... and for an empty reply, after which the worker sleeps a second.     *)
HandleNoTask(w) ==
    /\ Serving
    /\ \/ pc[w] = "askMap" /\ OpenMaps = {}
       \/ pc[w] = "askReduce" /\ OpenReduces = {}
    /\ Goto(w, "idle")
    /\ UNCHANGED <<cvars, up, TaskID, part, Workers, unread, intermediate, file, created, out>>

HandleCompleteTask(w) ==
    /\ \/ pc[w] = "mapped" /\ CompleteMap(w, TaskID[w])
       \/ pc[w] = "reduced" /\ CompleteReduce(w, TaskID[w])
    /\ Goto(w, "idle")
    /\ TaskID' = [TaskID EXCEPT ![w] = 0]
    /\ UNCHANGED <<up, part, Workers, unread, intermediate, file, created, out>>

ProcessTask(w) ==
    /\ \/ SavePartition(w)
       \/ \E i \in Ids : ReadFile(w, i)
       \/ SortIntermediate(w)
       \/ CreateOutput(w)
       \/ WriteOutput(w)
    /\ UNCHANGED cvars

SendComplete(w) == Serving /\ CallCompleteTask(w) /\ UNCHANGED cvars

Crash(w) == w \in MayCrash /\ Serving /\ StopProcess(w) /\ UNCHANGED cvars

(* Faulty: only the main loop dials; a machine without work never notices. *)
DialFailsBusy(w) ==
    main = "exited" /\ pc[w] # "idle" /\ StopProcess(w) /\ UNCHANGED cvars

(* call() cannot dial a coordinator that has exited: log.Fatal.  The       *)
(* heartbeat goroutine makes this happen whatever the main loop is doing.  *)
DialFails(w) == main = "exited" /\ StopProcess(w) /\ UNCHANGED cvars

(* The heartbeats of a punctual process stop only when it has crashed, and *)
(* a request it had sent by then is served within timeoutDuration.         *)
Late(w) ==
    /\ Serving
    /\ w \in Punctual => ~up[w] /\ pc[w] \notin InHandler
    /\ TimeOut(w)
    /\ UNCHANGED wvars

CheckAlive == CheckAliveMachine /\ UNCHANGED wvars
PollDone   == Done /\ UNCHANGED wvars
ExitMain   == Exit /\ UNCHANGED wvars

Handler(w) == \/ HandleMapDone(w)
              \/ HandleAssignMap(w)
              \/ HandleAssignReduce(w)
              \/ HandleNoTask(w)
              \/ HandleCompleteTask(w)

WorkerStep(w) == AskTask(w) \/ ProcessTask(w) \/ SendComplete(w)

Next ==
    \/ \E w \in Ids : \/ RegisterWorker(w)
                      \/ Heartbeat(w)
                      \/ WorkerStep(w)
                      \/ Handler(w)
                      \/ Crash(w)
                      \/ DialFails(w)
                      \/ Late(w)
    \/ CheckAlive
    \/ PollDone
    \/ ExitMain

Spec == Init /\ [][Next]_vars

(* The Go scheduler runs every goroutine that can run; a request that was  *)
(* sent is served; a crashed process's Lastime grows old.  Nothing obliges *)
(* a process to crash.                                                     *)
Fairness ==
    /\ \A w \in Ids : /\ WF_vars(RegisterWorker(w))
                      /\ WF_vars(Heartbeat(w))
                      /\ WF_vars(WorkerStep(w))
                      /\ WF_vars(Handler(w))
                      /\ WF_vars(~up[w] /\ Late(w))
                      /\ WF_vars(DialFails(w))
    /\ WF_vars(CheckAlive)
    /\ WF_vars(PollDone)
    /\ WF_vars(ExitMain)

FairSpec == Spec /\ Fairness

-----------------------------------------------------------------------------
(* Type invariant of the coordinator and of the workers.                   *)
TypeOK == CTypeOK /\ WTypeOK

HasRead(w) == pc[w] \in {"create", "write"}

(* No map output is ever lost, whatever crashes and whichever heartbeats   *)
(* are late: once processRTask has read the files it was told to read, it  *)
(* has the output of every map task for its partition at least once, and   *)
(* so has every complete mr-out-r.  MapDone computed that list from        *)
(* AssignedWorker, which late CompleteTask calls overwrite.                *)
NoOutputLost ==
    /\ \A w \in Ids : HasRead(w) =>
          \A t \in Maps : Complete(TaskID[w])[t] <= intermediate[w][t]
    /\ \A r \in Reduces : out[r].state = "whole" =>
          \A t \in Maps : Complete(r)[t] <= out[r].content[t]

(* processRTask never reaches its "cannot open" log.Fatalf: every file it  *)
(* is told to read exists, even when the machine it belongs to has crashed *)
(* or its list was computed before other handlers ran.                     *)
NeverCannotOpen == \A w \in Ids : pc[w] # "fatal"

(* A reduce task reads every map output exactly once as long as every      *)
(* machine of its list is still considered alive when the last file has    *)
(* been read: no task it covers has been run again by a listed machine.    *)
ExactlyOnceWhileAlive ==
    \A w \in Ids : HasRead(w) /\ Workers[w] \subseteq IsAlive =>
        intermediate[w] = Complete(TaskID[w])

(* A reduce task is run by at most one running process at a time: a task   *)
(* is handed out again only after CheckAliveMachine has given up on its    *)
(* previous worker.                                                        *)
Reducing(w, r) ==
    /\ up[w]
    /\ pc[w] \in {"reduce", "create", "write", "written", "reduced"}
    /\ TaskID[w] = r
OneReducer ==
    \A v, w \in Ids, r \in Reduces : Reducing(v, r) /\ Reducing(w, r) => v = w

(* Once CompleteTask has recorded reduce task r, the record stays and      *)
(* mr-out-r is not touched again: what Done reports is final.              *)
FinalOutputStable ==
    [][\A r \in Reduces : rtasks[r].status = "completed" =>
          rtasks'[r].status = "completed" /\ out'[r] = out[r]]_vars

(* When Done has returned true, the output files hold what mrsequential    *)
(* would have produced: every map output exactly once.                     *)
OutputMatchesSequential ==
    main # "polling" =>
        \A r \in Reduces : out[r] = [state |-> "whole", content |-> Complete(r)]

(* Every map task is run by one process only (the job count test).         *)
MapRunsOnce ==
    \A t \in Maps, v, w \in Ids :
        /\ \E r \in Reduces : file[v][r][t] > 0
        /\ \E r \in Reduces : file[w][r][t] > 0
        => v = w

(* The job eventually ends: Done eventually returns true.                  *)
JobCompletes == <>(main # "polling")

(* Once Done has returned true, every worker process eventually exits      *)
(* because its calls can no longer reach the coordinator.                  *)
WorkersExit == \A w \in Ids : [](main = "done" => <>(pc[w] = "start" \/ ~up[w]))

(* The output a user can rely on: mr-out-r, once its task is completed.    *)
Job == INSTANCE MRJob WITH
    result   <- [r \in Reduces |->
                   IF rtasks[r].status = "completed" THEN <<out[r].content>> ELSE <<>>],
    finished <- main # "polling"

(* Seen through its completed output files, the distributed job behaves as *)
(* the sequential program: partitions become final one by one with the     *)
(* sequential output, and the job ends after the last of them.             *)
ImplementsJob == Job!JobSpec
=============================================================================
