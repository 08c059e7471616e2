------------------------------ MODULE MRCommon ------------------------------
(***************************************************************************)
(* What the MapReduce coordinator and its workers share: the names of the  *)
(* tasks, of the partitions and of the worker processes (mr/rpc.go,        *)
(* mr/utils.go).                                                           *)
(*                                                                         *)
(* A worker process is named by the id that Register gives it.  A process  *)
(* that is restarted registers again and is a new id, so an id stands for  *)
(* one incarnation of one process.                                         *)
(***************************************************************************)
EXTENDS Naturals, FiniteSets

CONSTANTS
    NMap,        \* number of input files, one map task each
    NReduce,     \* the nReduce argument of MakeCoordinator
    MaxWorkers,  \* bound: processes that register during the job
    Emits        \* <<t, r>> when map task t emits a key of partition r

(* Reduce tasks receive the worker list as a JSON array of ints decoded    *)
(* into a []byte: the decoding is lossless only while ids fit in a byte.   *)
ASSUME SizeAssumption ==
    /\ NMap \in Nat \ {0}
    /\ NReduce \in Nat \ {0}
    /\ MaxWorkers \in 1..256
    /\ Emits \subseteq (0 .. NMap - 1) \X (0 .. NReduce - 1)

Maps    == 0 .. NMap - 1
Reduces == 0 .. NReduce - 1
Ids     == 0 .. MaxWorkers - 1

Status == {"idle", "processing", "completed"}
TaskState == [status : Status, AssignedWorker : Ids]

(* Contents of an intermediate or output file: how often the output of     *)
(* each map task occurs in it.  "Twice" stands for two or more, the most   *)
(* any property tells apart.                                               *)
Twice    == 2
Contents == [Maps -> 0 .. Twice]
Empty    == [t \in Maps |-> 0]
Plus(a, b) == [t \in Maps |-> IF a[t] + b[t] > Twice THEN Twice ELSE a[t] + b[t]]

(* saveIntermediate files a key under ihash(key) % nReduce: what task t    *)
(* contributes to partition r, and what all the tasks together do.  The    *)
(* latter is the partition's share of mrsequential's input to Reduce.      *)
Emitted(t, r) == [u \in Maps |-> IF u = t /\ <<t, r>> \in Emits THEN 1 ELSE 0]
Complete(r)   == [u \in Maps |-> IF <<u, r>> \in Emits THEN 1 ELSE 0]
=============================================================================
