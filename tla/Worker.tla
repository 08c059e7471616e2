------------------------------- MODULE Worker -------------------------------
(***************************************************************************)
(* The MapReduce worker process (mr/worker.go) and the files it leaves in  *)
(* the shared directory.  The main loop of a process is its pc:            *)
(*                                                                         *)
(*   start      not registered yet                                         *)
(*   idle       about to call AssignTask, or asleep after an empty reply   *)
(*   asking     AssignTask sent; MapDone has not run                       *)
(*   askMap     AssignTask handler, MapDone returned false                 *)
(*   askReduce  AssignTask handler, MapDone returned true                  *)
(*   map        in saveIntermediate, about to write partition part         *)
(*   reduce     in processRTask, the files of unread still to be opened    *)
(*   create     all inputs read, mr-out-r about to be created              *)
(*   write      mr-out-r created, its lines not yet written                *)
(*   written    mr-out-r written                                           *)
(*   mapped     CompleteTask("map") sent                                   *)
(*   reduced    CompleteTask("reduce") sent                                *)
(*   fatal      log.Fatalf because an intermediate file is missing         *)
(*                                                                         *)
(* The map and reduce plugins are abstracted to the set of map tasks whose *)
(* output a file holds; local variables are forgotten when they die.       *)
(***************************************************************************)
EXTENDS MRCommon

VARIABLES
    pc,
    up,            \* FALSE once the process has crashed or exited
    TaskID,        \* WorkerTask.TaskID
    part,          \* loop index of saveIntermediate
    Workers,       \* WorkerTask.Workers, first held by the AssignTask handler
    unread,        \* files of Workers that processRTask has not read yet
    intermediate,  \* what processRTask has read
    file,          \* file[w][r]: contents of mr-w-r
    created,       \* created[w]: the r for which mr-w-r exists
    out            \* out[r]: mr-out-r

wvars == <<pc, up, TaskID, part, Workers, unread, intermediate, file, created, out>>

InHandler == {"asking", "askMap", "askReduce", "mapped", "reduced"}
PC == InHandler \cup
      {"start", "idle", "map", "reduce", "create", "write", "written", "fatal"}

OutState == [state : {"absent", "partial", "whole", "garbled"}, content : Contents]

WorkerInit ==
    /\ pc = [w \in Ids |-> "start"]
    /\ up = [w \in Ids |-> TRUE]
    /\ TaskID = [w \in Ids |-> 0]
    /\ part = [w \in Ids |-> 0]
    /\ Workers = [w \in Ids |-> {}]
    /\ unread = [w \in Ids |-> {}]
    /\ intermediate = [w \in Ids |-> Empty]
    /\ file = [w \in Ids |-> [r \in Reduces |-> Empty]]
    /\ created = [w \in Ids |-> {}]
    /\ out = [r \in Reduces |-> [state |-> "absent", content |-> Empty]]

At(w, l) == up[w] /\ pc[w] = l
Goto(w, l) == pc' = [pc EXCEPT ![w] = l]

(* The loop calls AssignTask while info.status is "idle".                  *)
CallAssignTask(w) ==
    /\ At(w, "idle")
    /\ Goto(w, "asking")
    /\ UNCHANGED <<up, TaskID, part, Workers, unread, intermediate, file, created, out>>

(* Faulty: opened with truncation.                                         *)
SavePartitionAnew(w) ==
    LET r == part[w] IN
    /\ At(w, "map")
    /\ r < NReduce
    /\ file' = [file EXCEPT ![w][r] = Emitted(TaskID[w], r)]
    /\ created' = [created EXCEPT ![w] = @ \cup {r}]
    /\ part' = [part EXCEPT ![w] = r + 1]
    /\ UNCHANGED <<pc, up, TaskID, Workers, unread, intermediate, out>>

(* One iteration of the partition loop of saveIntermediate: mr-w-r is      *)
(* opened for appending, and created even if the partition is empty.       *)
SavePartition(w) ==
    LET r == part[w] IN
    /\ At(w, "map")
    /\ r < NReduce
    /\ file' = [file EXCEPT ![w][r] = Plus(@, Emitted(TaskID[w], r))]
    /\ created' = [created EXCEPT ![w] = @ \cup {r}]
    /\ part' = [part EXCEPT ![w] = r + 1]
    /\ UNCHANGED <<pc, up, TaskID, Workers, unread, intermediate, out>>

(* processRTask opens and decodes one file of its list; a missing file is  *)
(* fatal.  The list comes from a Go map, so its order is arbitrary.        *)
ReadFile(w, i) ==
    LET r == TaskID[w] IN
    /\ At(w, "reduce")
    /\ i \in unread[w]
    /\ unread' = [unread EXCEPT ![w] = @ \ {i}]
    /\ IF r \in created[i]
       THEN /\ intermediate' = [intermediate EXCEPT ![w] = Plus(@, file[i][r])]
            /\ UNCHANGED <<pc, up>>
       ELSE /\ Goto(w, "fatal")
            /\ up' = [up EXCEPT ![w] = FALSE]
            /\ UNCHANGED intermediate
    /\ UNCHANGED <<TaskID, part, Workers, file, created, out>>

SortIntermediate(w) ==
    /\ At(w, "reduce")
    /\ unread[w] = {}
    /\ Goto(w, "create")
    /\ UNCHANGED <<up, TaskID, part, Workers, unread, intermediate, file, created, out>>

(* os.Create truncates mr-out-r.                                           *)
CreateOutput(w) ==
    /\ At(w, "create")
    /\ Goto(w, "write")
    /\ out' = [out EXCEPT ![TaskID[w]] = [state |-> "partial", content |-> Empty]]
    /\ UNCHANGED <<up, TaskID, part, Workers, unread, intermediate, file, created>>

(* The lines of mr-out-r.  When another process has written to the file    *)
(* since this one truncated it, its longer lines may show through.         *)
WriteOutput(w) ==
    LET r     == TaskID[w]
        whole == [state |-> "whole", content |-> intermediate[w]]
    IN
    /\ At(w, "write")
    /\ Goto(w, "written")
    /\ \E o \in {whole} \cup
                (IF out[r] \in {whole, [state |-> "partial", content |-> Empty]} THEN {}
                 ELSE {[state |-> "garbled", content |-> Empty]}) :
          out' = [out EXCEPT ![r] = o]
    /\ intermediate' = [intermediate EXCEPT ![w] = Empty]
    /\ UNCHANGED <<up, TaskID, part, Workers, unread, file, created>>

CallCompleteTask(w) ==
    /\ \/ At(w, "map") /\ part[w] = NReduce /\ Goto(w, "mapped")
       \/ At(w, "written") /\ Goto(w, "reduced")
    /\ part' = [part EXCEPT ![w] = 0]
    /\ UNCHANGED <<up, TaskID, Workers, unread, intermediate, file, created, out>>

(* The process stops: it crashes, or a call finds no coordinator to dial.  *)
(* A request it has sent stays with the coordinator.                       *)
StopProcess(w) ==
    /\ up[w]
    /\ pc[w] # "start"
    /\ up' = [up EXCEPT ![w] = FALSE]
    /\ UNCHANGED <<pc, TaskID, part, Workers, unread, intermediate, file, created, out>>

WTypeOK ==
    /\ pc \in [Ids -> PC]
    /\ up \in [Ids -> BOOLEAN]
    /\ TaskID \in [Ids -> Maps \cup Reduces]
    /\ part \in [Ids -> 0 .. NReduce]
    /\ Workers \in [Ids -> SUBSET Ids]
    /\ unread \in [Ids -> SUBSET Ids]
    /\ intermediate \in [Ids -> Contents]
    /\ file \in [Ids -> [Reduces -> Contents]]
    /\ created \in [Ids -> SUBSET Reduces]
    /\ out \in [Reduces -> OutState]
    /\ \A w \in Ids : /\ pc[w] \in {"map", "mapped"} => TaskID[w] \in Maps
                      /\ pc[w] \in {"reduce", "create", "write", "written", "reduced"}
                             => TaskID[w] \in Reduces
=============================================================================
