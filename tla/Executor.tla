------------------------------ MODULE Executor ------------------------------
(***************************************************************************)
(* What a user of TaskDispatch is promised, without threads, mutexes or    *)
(* condition variables.  The user submits tasks in batches and calls       *)
(* Sync() after each batch; a task may itself submit tasks.  What is       *)
(* submitted is run at most once for each submission, and only after it;   *)
(* Sync() returns only when every task of the batch it closes has          *)
(* finished.  lexdist relies on this most: each of its batches captures by *)
(* reference a counter that dies when the loop goes on to the next batch.  *)
(***************************************************************************)
EXTENDS Naturals, Sequences, Functions

CONSTANTS Task,      \* every closure that is ever queued
          Batches    \* Batches[k] is what the caller queues before its k-th Sync

VARIABLES submitted, \* how often each task was handed over so far
          finished,  \* how often the closure of each task has returned
          returned   \* how many Sync calls have returned

abstractVars == <<submitted, finished, returned>>

Init == /\ submitted = [t \in Task |-> 0]
        /\ finished = [t \in Task |-> 0]
        /\ returned = 0

Submit(t) == /\ submitted' = [submitted EXCEPT ![t] = @ + 1]
             /\ UNCHANGED <<finished, returned>>

Finish(t) == /\ finished[t] < submitted[t]
             /\ finished' = [finished EXCEPT ![t] = @ + 1]
             /\ UNCHANGED <<submitted, returned>>

SyncReturn == /\ returned < Len(Batches)
              /\ \A t \in Range(Batches[returned + 1]) : finished[t] > 0
              /\ returned' = returned + 1
              /\ UNCHANGED <<submitted, finished>>

Next == (\E t \in Task : Submit(t) \/ Finish(t)) \/ SyncReturn

Spec == Init /\ [][Next]_abstractVars
=============================================================================
