---------------------------- MODULE TaskDispatch ----------------------------
(***************************************************************************)
(* The thread pool of src/common/TaskDispatch.cpp.  One caller, Main,      *)
(* queues batches of tasks, calls Sync() after each and then destroys the  *)
(* pool; Workers are the threads the constructor starts.  A task is a      *)
(* closure; all that is kept of its body is which tasks it queues in turn  *)
(* (google-groups queues from inside tasks, the other utilities do not).   *)
(*                                                                         *)
(* A step is one critical section of m_queueLock or one action outside of  *)
(* it.  The mutex is held from one step to the next in a single place, a   *)
(* worker between its test of the wait predicate and going to sleep, so    *)
(* its owner is read off pc.  The wait sets of the two condition variables *)
(* are the threads at "asleep" (m_cvWork) and "waitJobs" (m_cvJobs).       *)
(***************************************************************************)
EXTENDS Naturals, Sequences, FiniteSets, Functions

CONSTANTS Workers,     \* the threads in m_workers
          Main,        \* the thread that owns the pool
          Task,        \* every closure that is ever queued
          NoTask,      \* "no task", not a member of Task
          Batches,     \* Batches[k] is what Main queues before its k-th Sync
          Spawn,       \* Spawn[t] is what the body of t queues
          MaxSpurious  \* bound: spurious wake-ups in a behaviour

Thread == Workers \cup {Main}

ASSUME PoolAssumption ==
    /\ IsFiniteSet(Workers)
    /\ Main \notin Workers
    /\ NoTask \notin Task
    /\ Batches \in Seq(Seq(Task)) /\ Len(Batches) >= 1
    /\ Spawn \in [Task -> Seq(Task)]
    /\ MaxSpurious \in Nat

VARIABLES pc,       \* where each thread is
          cur,      \* the task a thread is executing
          todo,     \* what the body a thread executes has yet to queue
          queue,    \* m_queue
          jobs,     \* m_jobs
          exit,     \* m_exit
          batch,    \* the batch Main is working on
          given,    \* history: how often each task was handed to Queue()
          done,     \* history: how often the closure of each task has returned
          spurious  \* spurious wake-ups so far, at most MaxSpurious

vars == <<pc, cur, todo, queue, jobs, exit, batch, given, done, spurious>>

WorkerPC == {"ready",   \* about to lock and test the predicate of m_cvWork
             "block",   \* predicate false, m_queueLock still held
             "asleep",  \* in m_cvWork.wait
             "run", "signal", "notifyJobs", "exited"}
MainPC   == {"run",     \* queueing a batch, or executing a task from Sync
             "signal",  \* queued, m_queueLock released, notify_one not called yet
             "sync",    \* at the head of the loop in Sync
             "waitJobs",\* in m_cvJobs.wait
             "awake",   \* woken from it, about to lock and test again
             "destroy", "notifyExit", "join", "end"}

LockFree == \A w \in Workers : pc[w] # "block"

TypeOK == /\ pc \in [Thread -> WorkerPC \cup MainPC]
          /\ pc[Main] \in MainPC
          /\ \A w \in Workers : pc[w] \in WorkerPC
          /\ cur \in [Thread -> Task \cup {NoTask}]
          /\ todo \in [Thread -> Seq(Task)]
          /\ queue \in Seq(Task)
          /\ jobs \in Nat
          /\ exit \in BOOLEAN
          /\ batch \in 1..(Len(Batches) + 1)
          /\ given \in [Task -> Nat]
          /\ done \in [Task -> Nat]
          /\ spurious \in Nat

Init == /\ pc = [th \in Thread |-> IF th = Main THEN "run" ELSE "ready"]
        /\ cur = [th \in Thread |-> NoTask]
        /\ todo = [th \in Thread |-> IF th = Main THEN Batches[1] ELSE <<>>]
        /\ queue = <<>>
        /\ jobs = 0
        /\ exit = FALSE
        /\ batch = 1
        /\ given = [t \in Task |-> 0]
        /\ done = [t \in Task |-> 0]
        /\ spurious = 0
-----------------------------------------------------------------------------
(* Queue(), called by Main or from the body of a task.                     *)

Queue(th) ==
    /\ pc[th] = "run" /\ todo[th] # <<>>
    /\ LockFree
    /\ queue' = Append(queue, Head(todo[th]))
    /\ todo' = [todo EXCEPT ![th] = Tail(@)]
    /\ given' = [given EXCEPT ![Head(todo[th])] = @ + 1]
    /\ pc' = [pc EXCEPT ![th] = IF Len(queue') > 1 THEN "signal" ELSE "run"]
    /\ UNCHANGED <<cur, jobs, exit, batch, done, spurious>>

NotifyOne(th) ==
    /\ pc[th] = "signal"
    /\ \/ \E w \in Workers :
             /\ pc[w] = "asleep"
             /\ pc' = [pc EXCEPT ![th] = "run", ![w] = "ready"]
       \/ /\ \A w \in Workers : pc[w] # "asleep"
          /\ pc' = [pc EXCEPT ![th] = "run"]
    /\ UNCHANGED <<cur, todo, queue, jobs, exit, batch, given, done, spurious>>

(* Variant of Pop that looks at the front of the queue and leaves it there. *)
PopLeavesFront(th) ==
    /\ queue # <<>>
    /\ cur' = [cur EXCEPT ![th] = Head(queue)]
    /\ todo' = [todo EXCEPT ![th] = Spawn[Head(queue)]]
    /\ pc' = [pc EXCEPT ![th] = "run"]
    /\ UNCHANGED queue

(* Thread th takes the front of the queue and starts to execute it.        *)
Pop(th) ==
    /\ queue # <<>>
    /\ queue' = Tail(queue)
    /\ cur' = [cur EXCEPT ![th] = Head(queue)]
    /\ todo' = [todo EXCEPT ![th] = Spawn[Head(queue)]]
    /\ pc' = [pc EXCEPT ![th] = "run"]
-----------------------------------------------------------------------------
(* Worker(); first variants that do not count the job, look at the counter *)
(* before it is decremented, and notify the wrong condition variable.      *)

TakeJobUncounted(w) ==
    /\ pc[w] = "ready" /\ LockFree
    /\ ~exit
    /\ Pop(w)
    /\ UNCHANGED <<jobs, exit, batch, given, done, spurious>>

EndJobLooksFirst(w) ==
    /\ pc[w] = "run" /\ todo[w] = <<>>
    /\ LockFree
    /\ done' = [done EXCEPT ![cur[w]] = @ + 1]
    /\ cur' = [cur EXCEPT ![w] = NoTask]
    /\ jobs' = jobs - 1
    /\ pc' = [pc EXCEPT ![w] = IF jobs = 0 /\ queue = <<>> THEN "notifyJobs" ELSE "ready"]
    /\ UNCHANGED <<todo, queue, exit, batch, given, spurious>>

NotifyJobsNobody(w) ==
    /\ pc[w] = "notifyJobs"
    /\ pc' = [pc EXCEPT ![w] = "ready"]
    /\ UNCHANGED <<cur, todo, queue, jobs, exit, batch, given, done, spurious>>

TakeJob(w) ==
    /\ pc[w] = "ready" /\ LockFree
    /\ ~exit
    /\ Pop(w)
    /\ jobs' = jobs + 1
    /\ UNCHANGED <<exit, batch, given, done, spurious>>

Leave(w) ==
    /\ pc[w] = "ready" /\ LockFree
    /\ exit
    /\ pc' = [pc EXCEPT ![w] = "exited"]
    /\ UNCHANGED <<cur, todo, queue, jobs, exit, batch, given, done, spurious>>

FindNothing(w) ==
    /\ pc[w] = "ready" /\ LockFree
    /\ queue = <<>> /\ ~exit
    /\ pc' = [pc EXCEPT ![w] = "block"]
    /\ UNCHANGED <<cur, todo, queue, jobs, exit, batch, given, done, spurious>>

Sleep(w) ==
    /\ pc[w] = "block"
    /\ pc' = [pc EXCEPT ![w] = "asleep"]
    /\ UNCHANGED <<cur, todo, queue, jobs, exit, batch, given, done, spurious>>

EndJob(w) ==
    /\ pc[w] = "run" /\ todo[w] = <<>>
    /\ LockFree
    /\ done' = [done EXCEPT ![cur[w]] = @ + 1]
    /\ cur' = [cur EXCEPT ![w] = NoTask]
    /\ jobs' = jobs - 1
    /\ pc' = [pc EXCEPT ![w] = IF jobs' = 0 /\ queue = <<>>
                               THEN "notifyJobs" ELSE "ready"]
    /\ UNCHANGED <<todo, queue, exit, batch, given, spurious>>

NotifyJobs(w) ==
    /\ pc[w] = "notifyJobs"
    /\ pc' = [pc EXCEPT ![w] = "ready",
                        ![Main] = IF @ = "waitJobs" THEN "awake" ELSE @]
    /\ UNCHANGED <<cur, todo, queue, jobs, exit, batch, given, done, spurious>>
-----------------------------------------------------------------------------
(* Sync(), called by Main when the batch is queued.                        *)

EndBatch ==
    /\ pc[Main] = "run" /\ todo[Main] = <<>> /\ cur[Main] = NoTask
    /\ pc' = [pc EXCEPT ![Main] = "sync"]
    /\ UNCHANGED <<cur, todo, queue, jobs, exit, batch, given, done, spurious>>

SyncTake ==
    /\ pc[Main] = "sync" /\ LockFree
    /\ Pop(Main)
    /\ UNCHANGED <<jobs, exit, batch, given, done, spurious>>

SyncTaskEnds ==
    /\ pc[Main] = "run" /\ todo[Main] = <<>> /\ cur[Main] # NoTask
    /\ done' = [done EXCEPT ![cur[Main]] = @ + 1]
    /\ cur' = [cur EXCEPT ![Main] = NoTask]
    /\ pc' = [pc EXCEPT ![Main] = "sync"]
    /\ UNCHANGED <<todo, queue, jobs, exit, batch, given, spurious>>

(* Variant: nothing is left to take.                                       *)
JobsOverEmpty == queue = <<>>

(* The predicate of m_cvJobs.wait: it does not look at the queue again.    *)
JobsOver == jobs = 0

AtJobsWait == \/ pc[Main] = "sync" /\ queue = <<>>
              \/ pc[Main] = "awake"

SyncWait ==
    /\ AtJobsWait /\ LockFree
    /\ ~JobsOver
    /\ pc' = [pc EXCEPT ![Main] = "waitJobs"]
    /\ UNCHANGED <<cur, todo, queue, jobs, exit, batch, given, done, spurious>>

SyncReturn ==
    /\ AtJobsWait /\ LockFree
    /\ JobsOver
    /\ batch' = batch + 1
    /\ IF batch < Len(Batches)
       THEN /\ pc' = [pc EXCEPT ![Main] = "run"]
            /\ todo' = [todo EXCEPT ![Main] = Batches[batch + 1]]
       ELSE /\ pc' = [pc EXCEPT ![Main] = "destroy"]
            /\ UNCHANGED todo
    /\ UNCHANGED <<cur, queue, jobs, exit, given, done, spurious>>
-----------------------------------------------------------------------------
(* ~TaskDispatch().  Neither the store to m_exit nor the notification is   *)
(* made with m_queueLock held.                                             *)

SetExit ==
    /\ pc[Main] = "destroy"
    /\ exit' = TRUE
    /\ pc' = [pc EXCEPT ![Main] = "notifyExit"]
    /\ UNCHANGED <<cur, todo, queue, jobs, batch, given, done, spurious>>

NotifyExit ==
    /\ pc[Main] = "notifyExit"
    /\ pc' = [th \in Thread |->
                IF th = Main THEN "join"
                ELSE IF pc[th] = "asleep" THEN "ready" ELSE pc[th]]
    /\ UNCHANGED <<cur, todo, queue, jobs, exit, batch, given, done, spurious>>

Join ==
    /\ pc[Main] = "join"
    /\ \A w \in Workers : pc[w] = "exited"
    /\ pc' = [pc EXCEPT ![Main] = "end"]
    /\ UNCHANGED <<cur, todo, queue, jobs, exit, batch, given, done, spurious>>
-----------------------------------------------------------------------------
(* A condition variable may wake a waiter nobody notified.                 *)
SpuriousWake(th) ==
    /\ spurious < MaxSpurious
    /\ spurious' = spurious + 1
    /\ \/ /\ pc[th] = "asleep"
          /\ pc' = [pc EXCEPT ![th] = "ready"]
       \/ /\ pc[th] = "waitJobs"
          /\ pc' = [pc EXCEPT ![th] = "awake"]
    /\ UNCHANGED <<cur, todo, queue, jobs, exit, batch, given, done>>

WorkerStep(w) == \/ Queue(w) \/ NotifyOne(w)
                 \/ TakeJob(w) \/ Leave(w) \/ FindNothing(w) \/ Sleep(w)
                 \/ EndJob(w) \/ NotifyJobs(w)

MainStep == \/ Queue(Main) \/ NotifyOne(Main)
            \/ EndBatch \/ SyncTake \/ SyncTaskEnds \/ SyncWait \/ SyncReturn
            \/ SetExit \/ NotifyExit \/ Join

Next == \/ MainStep
        \/ \E w \in Workers : WorkerStep(w)
        \/ \E th \in Thread : SpuriousWake(th)

Spec == Init /\ [][Next]_vars

(* The operating system runs every thread that can run; nothing obliges a  *)
(* condition variable to wake a waiter spuriously.                         *)
FairSpec == Spec /\ WF_vars(MainStep) /\ \A w \in Workers : WF_vars(WorkerStep(w))
-----------------------------------------------------------------------------
Finished == {t \in Task : done[t] > 0}

(* Sync() returns only when every task its caller queued before the call   *)
(* has finished, whoever executed it and whatever those tasks queued.      *)
SyncComplete ==
    \A b \in 1..(batch - 1) : Range(Batches[b]) \subseteq Finished

(* While Main is blocked in Sync() the wake-up it needs is under way: a    *)
(* job is running, a worker is about to notify, or there is a queued task  *)
(* and a worker on its way to take it.  Queue() does not notify for the    *)
(* first element of the queue, and EndJob() not when the queue has grown.  *)
NoLostWakeup ==
    pc[Main] = "waitJobs" =>
        \/ jobs > 0
        \/ \E w \in Workers : pc[w] = "notifyJobs"
        \/ queue # <<>> /\ \E w \in Workers : pc[w] = "ready"

(* Every call of Sync() returns.                                           *)
SyncReturns == \A b \in 1..Len(Batches) : (batch = b) ~> (batch > b)

(* The pool does what Executor promises: it runs a task at most as often   *)
(* as it was handed one, and Sync() waits for the tasks of its batch.      *)
Promise == INSTANCE Executor WITH
    submitted <- given,
    finished  <- done,
    returned  <- batch - 1
ImplementsExecutor == Promise!Spec

(* The destructor joins its workers: once m_exit is set and announced,     *)
(* every worker leaves (Worker() returns on m_exit) and the join ends.     *)
DestructorReturns == (pc[Main] = "join") ~> (pc[Main] = "end")
=============================================================================
