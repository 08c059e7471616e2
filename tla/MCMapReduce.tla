---------------------------- MODULE MCMapReduce -----------------------------
(* Values of the constants of MapReduce for model checking.                *)
EXTENDS MapReduceInv

(* Every map task emits keys of every partition.                           *)
EmitAll == (0 .. NMap - 1) \X (0 .. NReduce - 1)

(* Task 0 emits no key of partition 0: mr-w-0 may be empty but must exist. *)
EmitSome == EmitAll \ {<<0, 0>>}

AllIds == 0 .. MaxWorkers - 1
First  == {0}
None   == {}
=============================================================================
