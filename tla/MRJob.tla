------------------------------- MODULE MRJob --------------------------------
(***************************************************************************)
(* What a MapReduce job promises its user: partition by partition, the     *)
(* output that main/mrsequential.go computes over the same input files     *)
(* becomes final, never changes afterwards, and the job ends when every    *)
(* partition is final.  How the work is split among processes is not       *)
(* visible here.                                                           *)
(***************************************************************************)
EXTENDS MRCommon

VARIABLES
    result,    \* result[r]: the final output of partition r, or Unfinished
    finished   \* the coordinator has reported the job done

jvars == <<result, finished>>

Unfinished == <<>>

JobInit ==
    /\ result = [r \in Reduces |-> Unfinished]
    /\ finished = FALSE

FinishPartition(r) ==
    /\ result[r] = Unfinished
    /\ result' = [result EXCEPT ![r] = <<Complete(r)>>]
    /\ UNCHANGED finished

FinishJob ==
    /\ ~finished
    /\ \A r \in Reduces : result[r] # Unfinished
    /\ finished' = TRUE
    /\ UNCHANGED result

JobNext == FinishJob \/ \E r \in Reduces : FinishPartition(r)

JobSpec == JobInit /\ [][JobNext]_jvars
=============================================================================
