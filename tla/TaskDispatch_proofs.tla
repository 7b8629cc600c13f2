------------------------- MODULE TaskDispatch_proofs -------------------------
(***************************************************************************)
(* Theorems about TaskDispatch, for any number of worker threads, any      *)
(* batches of tasks and any tasks queued from inside tasks.                *)
(***************************************************************************)
EXTENDS TaskDispatch, FiniteSetTheorems, FunctionTheorems, SequenceTheorems,
        TLAPS

(* The workers between m_jobs++ and m_jobs--.                              *)
Executing == {w \in Workers : pc[w] \in {"run", "signal"}}

(* Main is inside a body: its own loop of Queue() calls, or a task.        *)
MainInBody == pc[Main] \in {"run", "signal"}
MainDone   == pc[Main] \in {"destroy", "notifyExit", "join", "end"}
InJobsWait == pc[Main] \in {"waitJobs", "awake"}

HeldByWorker(t) == \E w \in Workers : cur[w] = t

JobsCounted == jobs = Cardinality(Executing)

CurMatchesPC == /\ \A w \in Workers : cur[w] # NoTask <=> w \in Executing
                /\ cur[Main] # NoTask => MainInBody

BatchInProgress == batch \in DOMAIN Batches <=> ~MainDone

(* No task of the current batch is lost on its way from Main to done.      *)
BatchAccounted ==
    batch \in DOMAIN Batches =>
        \A t \in Range(Batches[batch]) :
            \/ t \in Finished
            \/ t \in Range(queue)
            \/ HeldByWorker(t)
            \/ cur[Main] = t
            \/ MainInBody /\ cur[Main] = NoTask /\ t \in Range(todo[Main])

(* Once Main has seen the queue empty, only workers hold tasks of it.      *)
BatchDrained ==
    InJobsWait =>
        \A t \in Range(Batches[batch]) : t \in Finished \/ HeldByWorker(t)

ExitLate == exit => MainDone

(* Each time a task was handed over it is finished, queued, or held by a   *)
(* thread: none is lost and none is run twice.                             *)
Places(s, t) == {i \in DOMAIN s : s[i] = t}
Holders(t) == {th \in Thread : cur[th] = t}

Conserved ==
    \A t \in Task :
        given[t] = done[t] + Cardinality(Places(queue, t)) + Cardinality(Holders(t))

IInv == /\ TypeOK
        /\ JobsCounted
        /\ CurMatchesPC
        /\ BatchInProgress
        /\ BatchAccounted
        /\ BatchDrained
        /\ ExitLate
        /\ SyncComplete
        /\ NoLostWakeup
        /\ Conserved
-----------------------------------------------------------------------------
(* What appending to a sequence and taking its head do to its elements.    *)
LEMMA RangeAppend ==
    ASSUME NEW S, NEW s \in Seq(S), NEW x \in S
    PROVE  /\ Append(s, x) \in Seq(S)
           /\ Append(s, x) # <<>>
           /\ Range(Append(s, x)) = Range(s) \cup {x}
<1>1. /\ Append(s, x) \in Seq(S) /\ Append(s, x) # <<>>
      /\ Len(Append(s, x)) = Len(s) + 1
      /\ \A i \in 1..Len(s) : Append(s, x)[i] = s[i]
      /\ Append(s, x)[Len(s) + 1] = x
  BY AppendProperties
<1>2. Len(s) \in Nat /\ DOMAIN s = 1..Len(s) /\ DOMAIN Append(s, x) = 1..(Len(s) + 1)
  BY <1>1, LenProperties
<1>3. ASSUME NEW e \in Range(s) PROVE e \in Range(Append(s, x))
  <2>1. PICK i \in 1..Len(s) : s[i] = e
    BY <1>2 DEF Range
  <2>2. i \in DOMAIN Append(s, x) /\ Append(s, x)[i] = e
    BY <1>1, <1>2, <2>1
  <2> QED
    BY <2>2 DEF Range
<1>4. x \in Range(Append(s, x))
  BY <1>1, <1>2 DEF Range
<1>5. ASSUME NEW e \in Range(Append(s, x)), e # x PROVE e \in Range(s)
  <2>1. PICK i \in 1..(Len(s) + 1) : Append(s, x)[i] = e
    BY <1>2 DEF Range
  <2>2. i \in 1..Len(s) /\ s[i] = e
    BY <1>1, <1>2, <1>5, <2>1
  <2> QED
    BY <1>2, <2>2 DEF Range
<1> QED
  BY <1>1, <1>3, <1>4, <1>5

LEMMA RangeTail ==
    ASSUME NEW S, NEW s \in Seq(S), s # <<>>
    PROVE  /\ Head(s) \in S
           /\ Tail(s) \in Seq(S)
           /\ Range(s) = {Head(s)} \cup Range(Tail(s))
<1>1. /\ Head(s) \in S /\ Tail(s) \in Seq(S)
      /\ Len(Tail(s)) = Len(s) - 1
      /\ \A i \in 1..Len(Tail(s)) : Tail(s)[i] = s[i + 1]
  BY HeadTailProperties
<1>2. /\ Len(s) \in Nat \ {0} /\ DOMAIN s = 1..Len(s)
      /\ DOMAIN Tail(s) = 1..(Len(s) - 1) /\ Head(s) = s[1]
  BY <1>1, LenProperties, EmptySeq
<1>3. Head(s) \in Range(s)
  BY <1>2 DEF Range
<1>4. ASSUME NEW e \in Range(Tail(s)) PROVE e \in Range(s)
  <2>1. PICK i \in 1..(Len(s) - 1) : Tail(s)[i] = e
    BY <1>2 DEF Range
  <2>2. i + 1 \in DOMAIN s /\ s[i + 1] = e
    BY <1>1, <1>2, <2>1
  <2> QED
    BY <2>2 DEF Range
<1>5. ASSUME NEW e \in Range(s), e # Head(s) PROVE e \in Range(Tail(s))
  <2>1. PICK i \in 1..Len(s) : s[i] = e
    BY <1>2 DEF Range
  <2>2. i - 1 \in DOMAIN Tail(s) /\ i - 1 + 1 = i
    BY <1>2, <1>5, <2>1
  <2>3. Tail(s)[i - 1] = e
    BY <1>1, <1>2, <2>1, <2>2
  <2> QED
    BY <2>2, <2>3 DEF Range
<1> QED
  BY <1>1, <1>3, <1>4, <1>5

LEMMA RangeEmpty == Range(<<>>) = {}
  BY DEF Range

(* m_jobs is zero exactly when no worker executes a task.                  *)
LEMMA ExecutingFinite ==
    /\ IsFiniteSet(Executing)
    /\ Cardinality(Executing) \in Nat
    /\ Cardinality(Executing) = 0 <=> Executing = {}
<1>1. Executing \in SUBSET Workers /\ IsFiniteSet(Workers)
  BY PoolAssumption DEF Executing
<1>2. IsFiniteSet(Executing)
  BY <1>1, FS_Subset
<1>3. Cardinality(Executing) \in Nat
  BY <1>2, FS_CardinalityType
<1>4. Cardinality(Executing) = 0 <=> Executing = {}
  BY <1>2, FS_EmptySet
<1> QED
  BY <1>2, <1>3, <1>4
-----------------------------------------------------------------------------
LEMMA InitInv == Init => IInv
<1> SUFFICES ASSUME Init PROVE IInv
  OBVIOUS
<1> USE PoolAssumption
<1>1. Batches[1] \in Seq(Task) /\ Len(Batches) \in Nat
  BY LenProperties
<1>2. TypeOK
  <2>1. pc \in [Thread -> WorkerPC \cup MainPC]
    BY DEF Init, WorkerPC, MainPC
  <2>2. pc[Main] \in MainPC /\ \A w \in Workers : pc[w] \in WorkerPC
    BY DEF Init, Thread, WorkerPC, MainPC
  <2>3. cur \in [Thread -> Task \cup {NoTask}]
    BY DEF Init
  <2>4. todo \in [Thread -> Seq(Task)] /\ queue \in Seq(Task)
    BY <1>1 DEF Init
  <2>5. batch \in 1..(Len(Batches) + 1)
    BY <1>1 DEF Init
  <2> QED
    BY <2>1, <2>2, <2>3, <2>4, <2>5 DEF Init, TypeOK
<1>3. Executing = {}
  BY DEF Init, Executing, Thread
<1>4. JobsCounted
  BY <1>3, FS_EmptySet DEF JobsCounted, Init
<1>5. CurMatchesPC /\ BatchInProgress /\ BatchDrained /\ ExitLate /\ NoLostWakeup
  BY <1>3 DEF CurMatchesPC, BatchInProgress, BatchDrained, InJobsWait, MainDone,
              ExitLate, NoLostWakeup, Init, Thread
<1>6. BatchAccounted
  BY DEF BatchAccounted, MainInBody, Init, Thread
<1>7. SyncComplete
  BY DEF SyncComplete, Init
<1>8. Conserved
  <2> SUFFICES ASSUME NEW t \in Task
               PROVE  given[t] = done[t] + Cardinality(Places(queue, t)) + Cardinality(Holders(t))
    BY DEF Conserved
  <2>1. Places(queue, t) = {}
    BY DEF Init, Places
  <2>2. Holders(t) = {}
    BY DEF Init, Holders
  <2>3. given[t] = 0 /\ done[t] = 0
    BY DEF Init
  <2>4. Cardinality(Places(queue, t)) = 0 /\ Cardinality(Holders(t)) = 0
    BY <2>1, <2>2, FS_EmptySet
  <2> QED
    BY <2>3, <2>4
<1> QED
  BY <1>2, <1>4, <1>5, <1>6, <1>7, <1>8 DEF IInv

(* Every value a batch or a Spawn entry holds is a task.                   *)
LEMMA BatchTasks ==
    \A b \in DOMAIN Batches :
        /\ Batches[b] \in Seq(Task)
        /\ Range(Batches[b]) \subseteq Task
<1> TAKE b \in DOMAIN Batches
<1>1. Batches[b] \in Seq(Task)
  BY PoolAssumption, ElementOfSeq, LenProperties
<1>2. Range(Batches[b]) \subseteq Task
  BY <1>1, ElementOfSeq, LenProperties DEF Range
<1> QED
  BY <1>1, <1>2

LEMMA CountUp ==
    ASSUME NEW S, NEW f \in [S -> Nat], NEW x \in S
    PROVE  [f EXCEPT ![x] = @ + 1] \in [S -> Nat]
  OBVIOUS

LEMMA PopTypes ==
    ASSUME TypeOK, NEW th \in Thread, Pop(th)
    PROVE  /\ queue' \in Seq(Task)
           /\ cur' \in [Thread -> Task \cup {NoTask}]
           /\ todo' \in [Thread -> Seq(Task)]
           /\ pc' \in [Thread -> WorkerPC \cup MainPC]
           /\ pc'[Main] \in MainPC
           /\ \A v \in Workers : pc'[v] \in WorkerPC
<1>1. Head(queue) \in Task /\ Tail(queue) \in Seq(Task)
  <2>1. queue \in Seq(Task) /\ queue # <<>>
    BY DEF TypeOK, Pop
  <2> QED
    BY <2>1, RangeTail
<1>2. queue' \in Seq(Task)
  BY <1>1 DEF Pop
<1>3. cur' \in [Thread -> Task \cup {NoTask}]
  BY <1>1 DEF TypeOK, Pop
<1>4. todo' \in [Thread -> Seq(Task)]
  <2>1. Spawn[Head(queue)] \in Seq(Task)
    BY <1>1, PoolAssumption
  <2> QED
    BY <2>1 DEF TypeOK, Pop
<1>5. /\ pc' \in [Thread -> WorkerPC \cup MainPC]
      /\ pc'[Main] \in MainPC
      /\ \A v \in Workers : pc'[v] \in WorkerPC
  BY DEF TypeOK, Pop, Thread, WorkerPC, MainPC
<1> QED
  BY <1>2, <1>3, <1>4, <1>5

LEMMA TypeStep ==
    TypeOK /\ JobsCounted /\ CurMatchesPC /\ BatchInProgress /\ [Next]_vars => TypeOK'
<1> SUFFICES ASSUME TypeOK, JobsCounted, CurMatchesPC, BatchInProgress, [Next]_vars
             PROVE  TypeOK'
  OBVIOUS
<1> USE PoolAssumption DEF TypeOK, Thread, WorkerPC, MainPC
<1>1. ASSUME NEW th \in Thread, Queue(th) PROVE TypeOK'
  <2>1. /\ queue' \in Seq(Task)
        /\ Tail(todo[th]) \in Seq(Task)
        /\ Head(todo[th]) \in Task
    BY <1>1, RangeTail, RangeAppend DEF Queue
  <2>2. given' \in [Task -> Nat] /\ todo' \in [Thread -> Seq(Task)]
    <3>1. given' \in [Task -> Nat]
      BY <1>1, <2>1, CountUp DEF Queue
    <3>2. todo' \in [Thread -> Seq(Task)]
      BY <1>1, <2>1 DEF Queue
    <3> QED
      BY <3>1, <3>2
  <2>3. /\ pc' \in [Thread -> WorkerPC \cup MainPC]
        /\ pc'[Main] \in MainPC
        /\ \A w \in Workers : pc'[w] \in WorkerPC
    BY <1>1 DEF Queue
  <2> QED
    BY <1>1, <2>1, <2>2, <2>3 DEF Queue
<1>2. ASSUME NEW th \in Thread, NotifyOne(th) PROVE TypeOK'
  BY <1>2 DEF NotifyOne
<1>3. ASSUME NEW w \in Workers, TakeJob(w) PROVE TypeOK'
  <2>1. Pop(w) /\ w \in Thread
    BY <1>3 DEF TakeJob
  <2>2. /\ queue' \in Seq(Task) /\ cur' \in [Thread -> Task \cup {NoTask}]
        /\ todo' \in [Thread -> Seq(Task)]
        /\ pc' \in [Thread -> WorkerPC \cup MainPC]
        /\ pc'[Main] \in MainPC
        /\ \A v \in Workers : pc'[v] \in WorkerPC
    BY <2>1, PopTypes
  <2>3. /\ jobs' \in Nat
        /\ exit' = exit /\ batch' = batch /\ given' = given
        /\ done' = done /\ spurious' = spurious
    BY <1>3 DEF TakeJob
  <2> QED
    BY <2>2, <2>3
<1>4. ASSUME NEW w \in Workers, Leave(w) \/ FindNothing(w) \/ Sleep(w) \/ NotifyJobs(w)
      PROVE  TypeOK'
  BY <1>4 DEF Leave, FindNothing, Sleep, NotifyJobs
<1>5. ASSUME NEW w \in Workers, EndJob(w) PROVE TypeOK'
  <2>1. w \in Executing
    BY <1>5 DEF EndJob, Executing
  <2>2. cur[w] \in Task
    BY <2>1 DEF CurMatchesPC
  <2>3. jobs - 1 \in Nat
    BY <2>1, ExecutingFinite DEF JobsCounted
  <2>4. done' \in [Task -> Nat] /\ cur' \in [Thread -> Task \cup {NoTask}]
    <3>1. done' \in [Task -> Nat]
      BY <1>5, <2>2, CountUp DEF EndJob
    <3>2. cur' \in [Thread -> Task \cup {NoTask}]
      BY <1>5 DEF EndJob
    <3> QED
      BY <3>1, <3>2
  <2>5. /\ pc' \in [Thread -> WorkerPC \cup MainPC]
        /\ pc'[Main] \in MainPC
        /\ \A v \in Workers : pc'[v] \in WorkerPC
    BY <1>5 DEF EndJob
  <2> QED
    BY <1>5, <2>3, <2>4, <2>5 DEF EndJob
<1>6. CASE EndBatch \/ SyncWait \/ SetExit \/ NotifyExit \/ Join
  BY <1>6 DEF EndBatch, SyncWait, SetExit, NotifyExit, Join
<1>7. CASE SyncTake
  <2>1. Pop(Main) /\ Main \in Thread
    BY <1>7 DEF SyncTake
  <2>2. /\ queue' \in Seq(Task) /\ cur' \in [Thread -> Task \cup {NoTask}]
        /\ todo' \in [Thread -> Seq(Task)]
        /\ pc' \in [Thread -> WorkerPC \cup MainPC]
        /\ pc'[Main] \in MainPC
        /\ \A v \in Workers : pc'[v] \in WorkerPC
    BY <2>1, PopTypes
  <2>3. /\ jobs' \in Nat
        /\ exit' = exit /\ batch' = batch /\ given' = given
        /\ done' = done /\ spurious' = spurious
    BY <1>7 DEF SyncTake
  <2> QED
    BY <2>2, <2>3
<1>8. CASE SyncTaskEnds
  <2>1. cur[Main] \in Task
    BY <1>8 DEF SyncTaskEnds
  <2>2. done' \in [Task -> Nat]
    BY <1>8, <2>1, CountUp DEF SyncTaskEnds
  <2>3. cur' \in [Thread -> Task \cup {NoTask}]
    BY <1>8 DEF SyncTaskEnds
  <2>4. /\ pc' \in [Thread -> WorkerPC \cup MainPC]
        /\ pc'[Main] \in MainPC
        /\ \A v \in Workers : pc'[v] \in WorkerPC
    BY <1>8 DEF SyncTaskEnds
  <2> QED
    BY <1>8, <2>2, <2>3, <2>4 DEF SyncTaskEnds
<1>9. CASE SyncReturn
  <2>1. batch \in 1..Len(Batches) /\ Len(Batches) \in Nat
    BY <1>9, LenProperties DEF SyncReturn, AtJobsWait, BatchInProgress, MainDone
  <2>2. batch' \in 1..(Len(Batches) + 1)
    BY <1>9, <2>1 DEF SyncReturn
  <2>3. batch < Len(Batches) => Batches[batch + 1] \in Seq(Task)
    BY <2>1, BatchTasks, LenProperties
  <2>4. todo' \in [Thread -> Seq(Task)]
    BY <1>9, <2>3 DEF SyncReturn
  <2>5. /\ pc' \in [Thread -> WorkerPC \cup MainPC]
        /\ pc'[Main] \in MainPC
        /\ \A w \in Workers : pc'[w] \in WorkerPC
    BY <1>9 DEF SyncReturn
  <2> QED
    BY <1>9, <2>2, <2>4, <2>5 DEF SyncReturn
<1>10. ASSUME NEW th \in Thread, SpuriousWake(th) PROVE TypeOK'
  <2>1. CASE pc[th] = "asleep" /\ pc' = [pc EXCEPT ![th] = "ready"]
    <3>1. th # Main
      BY <2>1
    <3> QED
      BY <1>10, <2>1, <3>1 DEF SpuriousWake
  <2>2. CASE pc[th] = "waitJobs" /\ pc' = [pc EXCEPT ![th] = "awake"]
    <3>1. th = Main
      BY <2>2
    <3> QED
      BY <1>10, <2>2, <3>1 DEF SpuriousWake
  <2> QED
    BY <1>10, <2>1, <2>2 DEF SpuriousWake
<1>11. CASE UNCHANGED vars
  BY <1>11 DEF vars
<1> QED
  BY <1>1, <1>2, <1>3, <1>4, <1>5, <1>6, <1>7, <1>8, <1>9, <1>10, <1>11
     DEF Next, MainStep, WorkerStep

LEMMA CountStep ==
    TypeOK /\ JobsCounted /\ CurMatchesPC /\ [Next]_vars => JobsCounted' /\ CurMatchesPC'
<1> SUFFICES ASSUME TypeOK, JobsCounted, CurMatchesPC, [Next]_vars
             PROVE  JobsCounted' /\ CurMatchesPC'
  OBVIOUS
<1> USE PoolAssumption DEF TypeOK, Thread, CurMatchesPC, MainInBody
<1>1. ASSUME NEW th \in Thread, Queue(th) \/ NotifyOne(th) PROVE JobsCounted' /\ CurMatchesPC'
  <2>1. Executing' = Executing
    BY <1>1 DEF Queue, NotifyOne, Executing
  <2> QED
    BY <1>1, <2>1 DEF Queue, NotifyOne, JobsCounted, Executing
<1>2. ASSUME NEW w \in Workers, TakeJob(w) PROVE JobsCounted' /\ CurMatchesPC'
  <2>1. Executing' = Executing \cup {w} /\ w \notin Executing
    BY <1>2 DEF TakeJob, Pop, Executing
  <2>2. Cardinality(Executing') = Cardinality(Executing) + 1
    BY <2>1, ExecutingFinite, FS_AddElement
  <2>3. Head(queue) \in Task
    BY <1>2, RangeTail DEF TakeJob, Pop
  <2>4. CurMatchesPC'
    BY <1>2, <2>3 DEF TakeJob, Pop, Executing
  <2> QED
    BY <1>2, <2>2, <2>4 DEF TakeJob, JobsCounted
<1>3. ASSUME NEW w \in Workers, EndJob(w) PROVE JobsCounted' /\ CurMatchesPC'
  <2>1. Executing' = Executing \ {w} /\ w \in Executing
    BY <1>3 DEF EndJob, Executing
  <2>2. Cardinality(Executing') = Cardinality(Executing) - 1
    BY <2>1, ExecutingFinite, FS_RemoveElement
  <2>3. CurMatchesPC'
    BY <1>3 DEF EndJob, Executing
  <2> QED
    BY <1>3, <2>2, <2>3 DEF EndJob, JobsCounted
<1>4. ASSUME NEW w \in Workers, Leave(w) \/ FindNothing(w) \/ Sleep(w) \/ NotifyJobs(w)
      PROVE  JobsCounted' /\ CurMatchesPC'
  <2>1. Executing' = Executing
    BY <1>4 DEF Leave, FindNothing, Sleep, NotifyJobs, Executing
  <2> QED
    BY <1>4, <2>1 DEF Leave, FindNothing, Sleep, NotifyJobs, JobsCounted, Executing
<1>5. CASE EndBatch \/ SyncWait \/ SetExit \/ NotifyExit \/ Join \/ SyncTaskEnds
  <2>1. Executing' = Executing
    BY <1>5 DEF EndBatch, SyncWait, SetExit, NotifyExit, Join, SyncTaskEnds, Executing
  <2>2. jobs' = jobs
    BY <1>5 DEF EndBatch, SyncWait, SetExit, NotifyExit, Join, SyncTaskEnds
  <2>3. CurMatchesPC'
    BY <1>5, <2>1 DEF EndBatch, SyncWait, SetExit, NotifyExit, Join, SyncTaskEnds,
                      AtJobsWait, Executing
  <2> QED
    BY <2>1, <2>2, <2>3 DEF JobsCounted
<1>6. CASE SyncTake
  <2>1. Executing' = Executing
    BY <1>6 DEF SyncTake, Pop, Executing
  <2> QED
    BY <1>6, <2>1 DEF SyncTake, Pop, JobsCounted, Executing
<1>7. CASE SyncReturn
  <2>1. Executing' = Executing
    BY <1>7 DEF SyncReturn, Executing
  <2> QED
    BY <1>7, <2>1 DEF SyncReturn, AtJobsWait, JobsCounted, Executing
<1>8. ASSUME NEW th \in Thread, SpuriousWake(th) PROVE JobsCounted' /\ CurMatchesPC'
  <2>1. Executing' = Executing
    BY <1>8 DEF SpuriousWake, Executing
  <2> QED
    BY <1>8, <2>1 DEF SpuriousWake, JobsCounted, Executing
<1>9. CASE UNCHANGED vars
  BY <1>9 DEF vars, JobsCounted, Executing
<1> QED
  BY <1>1, <1>2, <1>3, <1>4, <1>5, <1>6, <1>7, <1>8, <1>9 DEF Next, MainStep, WorkerStep

LEMMA PhaseStep ==
    TypeOK /\ BatchInProgress /\ ExitLate /\ [Next]_vars => BatchInProgress' /\ ExitLate'
<1> SUFFICES ASSUME TypeOK, BatchInProgress, ExitLate, [Next]_vars
             PROVE  BatchInProgress' /\ ExitLate'
  OBVIOUS
<1> DEFINE Quiet == batch' = batch /\ exit' = exit /\ (MainDone' <=> MainDone)
<1>0. ASSUME Quiet PROVE BatchInProgress' /\ ExitLate'
  BY <1>0 DEF BatchInProgress, ExitLate
<1>1. ASSUME NEW th \in Thread, Queue(th) \/ NotifyOne(th) \/ SpuriousWake(th) PROVE Quiet
  <2>1. batch' = batch /\ exit' = exit
    BY <1>1 DEF Queue, NotifyOne, SpuriousWake
  <2>2. Main \in Thread /\ pc \in [Thread -> WorkerPC \cup MainPC] /\ Main \notin Workers
    BY PoolAssumption DEF TypeOK, Thread
  <2>3. CASE Queue(th)
    BY <2>2, <2>3 DEF Queue, MainDone
  <2>4. CASE NotifyOne(th)
    BY <2>2, <2>4 DEF NotifyOne, MainDone
  <2>5. CASE SpuriousWake(th)
    BY <2>2, <2>5 DEF SpuriousWake, MainDone
  <2> QED
    BY <1>1, <2>1, <2>3, <2>4, <2>5
<1>2. ASSUME NEW w \in Workers,
             TakeJob(w) \/ Leave(w) \/ FindNothing(w) \/ Sleep(w) \/ EndJob(w) \/ NotifyJobs(w)
      PROVE  Quiet
  BY <1>2, PoolAssumption
     DEF TypeOK, Thread, MainDone, TakeJob, Pop, Leave, FindNothing, Sleep, EndJob, NotifyJobs
<1>3. CASE EndBatch \/ SyncTake \/ SyncTaskEnds \/ SyncWait
  <2>1. Quiet
    BY <1>3 DEF TypeOK, Thread, MainDone, EndBatch, SyncTake, Pop, SyncTaskEnds, SyncWait,
                AtJobsWait
  <2> QED
    BY <1>0, <2>1
<1>4. CASE SyncReturn
  <2>1. DOMAIN Batches = 1..Len(Batches) /\ Len(Batches) \in Nat
    BY PoolAssumption, LenProperties
  <2>2. ~MainDone /\ batch \in 1..Len(Batches) /\ ~exit
    BY <1>4, <2>1 DEF SyncReturn, AtJobsWait, BatchInProgress, MainDone, ExitLate
  <2>3. MainDone' <=> ~(batch < Len(Batches))
    BY <1>4 DEF SyncReturn, MainDone, TypeOK, Thread
  <2>4. batch' = batch + 1 /\ exit' = exit
    BY <1>4 DEF SyncReturn
  <2>5. batch' \in DOMAIN Batches <=> batch < Len(Batches)
    BY <2>1, <2>2, <2>4
  <2> QED
    BY <2>2, <2>3, <2>4, <2>5 DEF BatchInProgress, ExitLate
<1>5. CASE SetExit \/ NotifyExit \/ Join
  <2>1. batch' = batch /\ MainDone /\ MainDone'
    BY <1>5 DEF SetExit, NotifyExit, Join, MainDone, TypeOK, Thread
  <2> QED
    BY <2>1 DEF BatchInProgress, ExitLate
<1>6. CASE UNCHANGED vars
  BY <1>6 DEF vars, BatchInProgress, ExitLate, MainDone
<1> QED
  <2>1. ASSUME NEW w \in Workers, WorkerStep(w) PROVE Quiet
    BY <1>1, <1>2, <2>1 DEF WorkerStep, Thread
  <2>2. ASSUME Queue(Main) \/ NotifyOne(Main) PROVE Quiet
    BY <1>1, <2>2 DEF Thread
  <2> HIDE DEF Quiet
  <2> QED
    BY <1>0, <1>1, <1>3, <1>4, <1>5, <1>6, <2>1, <2>2 DEF Next, MainStep

(* What finishing a task once more does to the set of those that are.      *)
LEMMA DoneStep ==
    ASSUME TypeOK, NEW x \in Task, done' = [done EXCEPT ![x] = @ + 1]
    PROVE  Finished' = Finished \cup {x}
<1>1. done \in [Task -> Nat] /\ done' \in [Task -> Nat]
  BY DEF TypeOK
<1>2. \A t \in Task : done'[t] > 0 <=> done[t] > 0 \/ t = x
  BY <1>1
<1> QED
  BY <1>2 DEF Finished

LEMMA BatchStep ==
    IInv /\ [Next]_vars => BatchAccounted' /\ BatchDrained' /\ SyncComplete'
<1> SUFFICES ASSUME IInv, [Next]_vars
             PROVE  BatchAccounted' /\ BatchDrained' /\ SyncComplete'
  OBVIOUS
<1>a. /\ pc \in [Thread -> WorkerPC \cup MainPC] /\ cur \in [Thread -> Task \cup {NoTask}]
      /\ todo \in [Thread -> Seq(Task)] /\ queue \in Seq(Task) /\ jobs \in Nat
      /\ Main \in Thread /\ Workers \subseteq Thread /\ Main \notin Workers
      /\ NoTask \notin Task /\ Spawn \in [Task -> Seq(Task)]
  BY PoolAssumption DEF IInv, TypeOK, Thread
<1>b. CurMatchesPC /\ BatchInProgress /\ BatchAccounted /\ BatchDrained /\ SyncComplete
  BY DEF IInv
<1>c. ASSUME batch' = batch, Finished \subseteq Finished' PROVE SyncComplete'
  BY <1>b, <1>c DEF SyncComplete
<1>d. ASSUME UNCHANGED <<cur, todo, queue, batch, Finished>>, MainInBody' <=> MainInBody
      PROVE  BatchAccounted'
  BY <1>b, <1>d DEF BatchAccounted, HeldByWorker
<1>e. ASSUME UNCHANGED <<cur, batch, Finished>>, InJobsWait' => InJobsWait
      PROVE  BatchDrained'
  BY <1>b, <1>e DEF BatchDrained, HeldByWorker
<1>1. ASSUME NEW th \in Thread, Queue(th)
      PROVE  BatchAccounted' /\ BatchDrained' /\ SyncComplete'
  <2>1. /\ Range(queue') = Range(queue) \cup {Head(todo[th])}
        /\ Range(todo[th]) = {Head(todo[th])} \cup Range(Tail(todo[th]))
    BY <1>1, <1>a, RangeTail, RangeAppend DEF Queue
  <2>2. UNCHANGED <<cur, batch, Finished>>
    BY <1>1 DEF Finished, Queue
  <2>3. (MainInBody' <=> MainInBody) /\ (InJobsWait' <=> InJobsWait)
    BY <1>1, <1>a DEF Queue, MainInBody, InJobsWait
  <2>4. todo'[Main] = IF th = Main THEN Tail(todo[th]) ELSE todo[Main]
    BY <1>1, <1>a DEF Queue
  <2>5. BatchAccounted'
    BY <1>b, <2>1, <2>2, <2>3, <2>4 DEF BatchAccounted, HeldByWorker
  <2> QED
    BY <1>c, <1>e, <2>2, <2>3, <2>5
<1>2. ASSUME NEW th \in Thread, NotifyOne(th)
      PROVE  BatchAccounted' /\ BatchDrained' /\ SyncComplete'
  <2>1. UNCHANGED <<cur, todo, queue, batch, Finished>>
    BY <1>2 DEF Finished, NotifyOne
  <2>2. (MainInBody' <=> MainInBody) /\ (InJobsWait' <=> InJobsWait)
    BY <1>2, <1>a DEF NotifyOne, MainInBody, InJobsWait
  <2> QED
    BY <1>c, <1>d, <1>e, <2>1, <2>2
<1>3. ASSUME NEW w \in Workers, TakeJob(w)
      PROVE  BatchAccounted' /\ BatchDrained' /\ SyncComplete'
  <2>1. Head(queue) \in Task /\ Range(queue) = {Head(queue)} \cup Range(queue')
    BY <1>3, <1>a, RangeTail DEF TakeJob, Pop
  <2>2. /\ UNCHANGED <<batch, Finished>>
        /\ cur'[w] = Head(queue) /\ \A th \in Thread \ {w} : cur'[th] = cur[th]
        /\ todo'[Main] = todo[Main] /\ pc'[Main] = pc[Main]
    BY <1>3, <1>a DEF Finished, TakeJob, Pop
  <2>3. cur[w] = NoTask
    BY <1>3, <1>b DEF TakeJob, CurMatchesPC, Executing
  <2>4. \A t \in Task : HeldByWorker(t)' <=> HeldByWorker(t) \/ t = Head(queue)
    BY <1>a, <2>2, <2>3 DEF HeldByWorker
  <2>5. BatchAccounted'
    BY <1>a, <1>b, <2>1, <2>2, <2>4, BatchTasks DEF BatchAccounted, MainInBody
  <2>6. BatchDrained'
    <3>1. ASSUME InJobsWait PROVE batch \in DOMAIN Batches
      BY <1>b, <3>1 DEF BatchInProgress, InJobsWait, MainDone
    <3> QED
      BY <1>b, <2>2, <2>4, <3>1, BatchTasks DEF BatchDrained, InJobsWait
  <2> QED
    BY <1>c, <2>2, <2>5, <2>6
<1>4. ASSUME NEW w \in Workers, EndJob(w)
      PROVE  BatchAccounted' /\ BatchDrained' /\ SyncComplete'
  <2>1. /\ UNCHANGED <<batch, todo, queue>> /\ Finished' = Finished \cup {cur[w]}
        /\ \A th \in Thread \ {w} : cur'[th] = cur[th]
        /\ pc'[Main] = pc[Main]
    <3>1. cur[w] \in Task
      BY <1>4, <1>a, <1>b DEF EndJob, CurMatchesPC, Executing
    <3>2. Finished' = Finished \cup {cur[w]}
      BY <1>4, <3>1, DoneStep DEF EndJob, IInv
    <3> QED
      BY <1>4, <1>a, <3>2 DEF EndJob
  <2>2. \A t \in Task : HeldByWorker(t) => HeldByWorker(t)' \/ t \in Finished'
    BY <1>a, <2>1 DEF HeldByWorker
  <2>3. BatchAccounted'
    BY <1>a, <1>b, <2>1, <2>2, BatchTasks DEF BatchAccounted, MainInBody
  <2>4. BatchDrained'
    <3>1. ASSUME InJobsWait PROVE batch \in DOMAIN Batches
      BY <1>b, <3>1 DEF BatchInProgress, InJobsWait, MainDone
    <3> QED
      BY <1>b, <2>1, <2>2, <3>1, BatchTasks DEF BatchDrained, InJobsWait
  <2> QED
    BY <1>c, <2>1, <2>3, <2>4
<1>5. ASSUME NEW w \in Workers, Leave(w) \/ FindNothing(w) \/ Sleep(w) \/ NotifyJobs(w)
      PROVE  BatchAccounted' /\ BatchDrained' /\ SyncComplete'
  <2>1. UNCHANGED <<cur, todo, queue, batch, Finished>>
    BY <1>5 DEF Finished, Leave, FindNothing, Sleep, NotifyJobs
  <2>2. (MainInBody' <=> MainInBody) /\ (InJobsWait' <=> InJobsWait)
    BY <1>5, <1>a DEF Leave, FindNothing, Sleep, NotifyJobs, MainInBody, InJobsWait
  <2> QED
    BY <1>c, <1>d, <1>e, <2>1, <2>2
<1>6. CASE EndBatch
  <2>1. UNCHANGED <<cur, todo, queue, batch, Finished>> /\ ~InJobsWait' /\ todo[Main] = <<>>
    BY <1>6, <1>a DEF Finished, EndBatch, InJobsWait
  <2>2. BatchAccounted'
    BY <1>b, <2>1, RangeEmpty DEF BatchAccounted, HeldByWorker
  <2> QED
    BY <1>c, <1>e, <2>1, <2>2
<1>7. CASE SyncTake
  <2>1. Head(queue) \in Task /\ Range(queue) = {Head(queue)} \cup Range(queue')
    BY <1>7, <1>a, RangeTail DEF SyncTake, Pop
  <2>2. /\ UNCHANGED <<batch, Finished>> /\ ~InJobsWait' /\ ~MainInBody
        /\ cur'[Main] = Head(queue) /\ \A w \in Workers : cur'[w] = cur[w]
    BY <1>7, <1>a DEF Finished, SyncTake, Pop, InJobsWait, MainInBody
  <2>3. cur[Main] = NoTask
    BY <1>b, <2>2 DEF CurMatchesPC
  <2>4. BatchAccounted'
    BY <1>a, <1>b, <2>1, <2>2, <2>3, BatchTasks DEF BatchAccounted, HeldByWorker
  <2> QED
    BY <1>c, <2>2, <2>4 DEF BatchDrained
<1>8. CASE SyncTaskEnds
  <2>1. /\ UNCHANGED <<batch, todo, queue>> /\ ~InJobsWait' /\ Finished' = Finished \cup {cur[Main]}
        /\ \A w \in Workers : cur'[w] = cur[w]
        /\ cur[Main] # NoTask
    <3>1. Finished' = Finished \cup {cur[Main]}
      BY <1>8, <1>a, DoneStep DEF SyncTaskEnds, IInv
    <3> QED
      BY <1>8, <1>a, <3>1 DEF SyncTaskEnds, InJobsWait
  <2>2. BatchAccounted'
    BY <1>a, <1>b, <2>1 DEF BatchAccounted, HeldByWorker
  <2> QED
    BY <1>c, <2>1, <2>2 DEF BatchDrained
<1>9. CASE SyncWait
  <2>1. UNCHANGED <<cur, todo, queue, batch, Finished>> /\ ~MainInBody /\ ~MainInBody'
    BY <1>9, <1>a DEF Finished, SyncWait, AtJobsWait, MainInBody
  <2>2. BatchDrained'
    <3>1. CASE pc[Main] = "awake"
      BY <1>e, <2>1, <3>1 DEF InJobsWait
    <3>2. CASE pc[Main] = "sync" /\ queue = <<>>
      <4>1. cur[Main] = NoTask /\ batch \in DOMAIN Batches
        BY <1>b, <2>1, <3>2 DEF CurMatchesPC, BatchInProgress, MainDone
      <4>2. \A t \in Range(Batches[batch]) : t \in Finished \/ HeldByWorker(t)
        BY <1>a, <1>b, <2>1, <3>2, <4>1, RangeEmpty, BatchTasks DEF BatchAccounted
      <4> QED
        BY <2>1, <4>2 DEF BatchDrained, HeldByWorker
    <3> QED
      BY <1>9, <3>1, <3>2 DEF SyncWait, AtJobsWait
  <2> QED
    BY <1>c, <1>d, <2>1, <2>2
<1>10. CASE SyncReturn
  <2>1. /\ batch' = batch + 1 /\ UNCHANGED <<cur, queue, Finished>>
        /\ ~InJobsWait' /\ ~MainInBody /\ jobs = 0
        /\ batch < Len(Batches) =>
              pc'[Main] = "run" /\ todo'[Main] = Batches[batch + 1]
    BY <1>10, <1>a DEF Finished, SyncReturn, AtJobsWait, JobsOver, InJobsWait, MainInBody
  <2>2. /\ DOMAIN Batches = 1..Len(Batches) /\ Len(Batches) \in Nat
        /\ batch \in 1..Len(Batches) /\ batch \in DOMAIN Batches
    BY <1>10, <1>b, PoolAssumption, LenProperties
       DEF SyncReturn, AtJobsWait, BatchInProgress, MainDone
  <2>3. cur[Main] = NoTask
    BY <1>b, <2>1 DEF CurMatchesPC
  <2>4. Executing = {}
    BY <2>1, ExecutingFinite DEF IInv, JobsCounted
  <2>5. \A t \in Task : ~HeldByWorker(t)
    BY <1>a, <1>b, <2>4 DEF HeldByWorker, CurMatchesPC
  <2>6. Range(Batches[batch]) \subseteq Finished
    <3>1. CASE pc[Main] = "awake"
      BY <1>b, <2>2, <2>5, <3>1, BatchTasks DEF BatchDrained, InJobsWait
    <3>2. CASE pc[Main] = "sync" /\ queue = <<>>
      BY <1>a, <1>b, <2>1, <2>2, <2>3, <2>5, <3>2, RangeEmpty, BatchTasks DEF BatchAccounted
    <3> QED
      BY <1>10, <3>1, <3>2 DEF SyncReturn, AtJobsWait
  <2>7. SyncComplete'
    BY <1>b, <2>1, <2>2, <2>6 DEF SyncComplete
  <2>8. BatchAccounted'
    <3>1. ASSUME batch' \in DOMAIN Batches
          PROVE  MainInBody' /\ cur'[Main] = NoTask /\ todo'[Main] = Batches[batch']
      BY <2>1, <2>2, <2>3, <3>1 DEF MainInBody
    <3> QED
      BY <3>1 DEF BatchAccounted
  <2> QED
    BY <2>1, <2>7, <2>8 DEF BatchDrained
<1>11. CASE SetExit \/ NotifyExit \/ Join
  <2>1. UNCHANGED <<cur, todo, queue, batch, Finished>>
    BY <1>11 DEF Finished, SetExit, NotifyExit, Join
  <2>2. ~MainInBody /\ ~MainInBody' /\ ~InJobsWait'
    BY <1>11, <1>a DEF SetExit, NotifyExit, Join, MainInBody, InJobsWait
  <2> QED
    BY <1>c, <1>d, <1>e, <2>1, <2>2
<1>12. ASSUME NEW th \in Thread, SpuriousWake(th)
      PROVE  BatchAccounted' /\ BatchDrained' /\ SyncComplete'
  <2>1. UNCHANGED <<cur, todo, queue, batch, Finished>>
    BY <1>12 DEF Finished, SpuriousWake
  <2>2. (MainInBody' <=> MainInBody) /\ (InJobsWait' => InJobsWait)
    <3>1. CASE th = Main
      BY <1>12, <1>a, <3>1 DEF SpuriousWake, MainInBody, InJobsWait, IInv, TypeOK, MainPC
    <3>2. CASE th # Main
      BY <1>12, <1>a, <3>2 DEF SpuriousWake, MainInBody, InJobsWait
    <3> QED
      BY <3>1, <3>2
  <2> QED
    BY <1>c, <1>d, <1>e, <2>1, <2>2
<1>13. CASE UNCHANGED vars
  <2>1. UNCHANGED <<cur, todo, queue, batch, Finished, pc>>
    BY <1>13 DEF Finished, vars
  <2> QED
    BY <1>c, <1>d, <1>e, <2>1 DEF MainInBody, InJobsWait
<1>14. ASSUME NEW w \in Workers, WorkerStep(w)
       PROVE  BatchAccounted' /\ BatchDrained' /\ SyncComplete'
  BY <1>1, <1>2, <1>3, <1>4, <1>5, <1>14, <1>a DEF WorkerStep
<1> QED
  BY <1>1, <1>2, <1>6, <1>7, <1>8, <1>9, <1>10, <1>11, <1>12, <1>13, <1>14, <1>a
     DEF Next, MainStep

LEMMA WakeupStep == IInv /\ [Next]_vars => NoLostWakeup'
<1> SUFFICES ASSUME IInv, [Next]_vars, pc'[Main] = "waitJobs"
             PROVE  \/ jobs' > 0
                    \/ \E w \in Workers : pc'[w] = "notifyJobs"
                    \/ queue' # <<>> /\ \E w \in Workers : pc'[w] = "ready"
  BY DEF NoLostWakeup
<1>a. /\ pc \in [Thread -> WorkerPC \cup MainPC] /\ todo \in [Thread -> Seq(Task)]
      /\ queue \in Seq(Task) /\ jobs \in Nat
      /\ Main \in Thread /\ Workers \subseteq Thread /\ Main \notin Workers
  BY PoolAssumption DEF IInv, TypeOK, Thread
<1>b. pc[Main] = "waitJobs" =>
          \/ jobs > 0
          \/ \E w \in Workers : pc[w] = "notifyJobs"
          \/ queue # <<>> /\ \E w \in Workers : pc[w] = "ready"
  BY DEF IInv, NoLostWakeup
<1>c. ASSUME UNCHANGED <<queue, jobs>>, pc[Main] = "waitJobs",
             \A w \in Workers : pc[w] \in {"notifyJobs", "ready"} => pc'[w] = pc[w]
      PROVE  \/ jobs' > 0
             \/ \E w \in Workers : pc'[w] = "notifyJobs"
             \/ queue' # <<>> /\ \E w \in Workers : pc'[w] = "ready"
  <2>1. CASE jobs > 0
    BY <1>c, <2>1
  <2>2. CASE \E w \in Workers : pc[w] = "notifyJobs"
    BY <1>c, <2>2
  <2>3. CASE queue # <<>> /\ \E w \in Workers : pc[w] = "ready"
    BY <1>c, <2>3
  <2> QED
    BY <1>b, <1>c, <2>1, <2>2, <2>3
<1>1. ASSUME NEW th \in Thread, Queue(th)
      PROVE  \/ jobs' > 0
             \/ \E w \in Workers : pc'[w] = "notifyJobs"
             \/ queue' # <<>> /\ \E w \in Workers : pc'[w] = "ready"
  <2>1. queue' # <<>>
    BY <1>1, <1>a, RangeTail, RangeAppend DEF Queue
  <2>2. /\ pc[Main] = "waitJobs" /\ jobs' = jobs
        /\ \A w \in Workers : pc[w] \in {"notifyJobs", "ready"} => pc'[w] = pc[w]
    <3>1. pc[th] = "run" /\ jobs' = jobs /\ pc'[th] \in {"run", "signal"}
          /\ \A u \in Thread \ {th} : pc'[u] = pc[u]
      BY <1>1, <1>a DEF Queue
    <3>2. th # Main
      BY <3>1
    <3> QED
      BY <1>a, <3>1, <3>2
  <2>3. CASE jobs > 0
    BY <2>2, <2>3
  <2>4. CASE \E w \in Workers : pc[w] = "notifyJobs"
    BY <2>2, <2>4
  <2>5. CASE \E w \in Workers : pc[w] = "ready"
    BY <2>1, <2>2, <2>5
  <2> QED
    BY <1>b, <2>2, <2>3, <2>4, <2>5
<1>2. ASSUME NEW w \in Workers, TakeJob(w) PROVE jobs' > 0
  BY <1>2, <1>a DEF TakeJob
<1>3. ASSUME NEW w \in Workers, EndJob(w)
      PROVE  \/ jobs' > 0
             \/ pc'[w] = "notifyJobs"
             \/ queue' # <<>> /\ pc'[w] = "ready"
  <2>1. w \in Executing
    BY <1>3 DEF EndJob, Executing
  <2>2. jobs - 1 \in Nat
    BY <2>1, <1>a, ExecutingFinite DEF IInv, JobsCounted
  <2> QED
    BY <1>3, <1>a, <2>2 DEF EndJob
<1>4. ASSUME NEW w \in Workers, Leave(w) PROVE FALSE
  BY <1>4, <1>a DEF Leave, IInv, ExitLate, MainDone
<1>5. ASSUME NEW w \in Workers, NotifyJobs(w) PROVE FALSE
  BY <1>5, <1>a DEF NotifyJobs
<1>6. ASSUME NEW w \in Workers, FindNothing(w)
      PROVE  \/ jobs' > 0
             \/ \E v \in Workers : pc'[v] = "notifyJobs"
  BY <1>6, <1>a, <1>b DEF FindNothing
<1>7. ASSUME NEW w \in Workers, Sleep(w)
      PROVE  \/ jobs' > 0
             \/ \E v \in Workers : pc'[v] = "notifyJobs"
             \/ queue' # <<>> /\ \E v \in Workers : pc'[v] = "ready"
  <2>1. /\ UNCHANGED <<queue, jobs>> /\ pc[Main] = "waitJobs"
        /\ \A v \in Workers : pc[v] \in {"notifyJobs", "ready"} => pc'[v] = pc[v]
    BY <1>7, <1>a DEF Sleep
  <2> QED
    BY <1>c, <2>1
<1>8. ASSUME NEW th \in Thread, NotifyOne(th) \/ SpuriousWake(th)
      PROVE  \/ jobs' > 0
             \/ \E w \in Workers : pc'[w] = "notifyJobs"
             \/ queue' # <<>> /\ \E w \in Workers : pc'[w] = "ready"
  <2>1. UNCHANGED <<queue, jobs>>
    BY <1>8 DEF NotifyOne, SpuriousWake
  <2>2. /\ pc[Main] = "waitJobs"
        /\ \A w \in Workers : pc[w] \in {"notifyJobs", "ready"} => pc'[w] = pc[w]
    <3>1. CASE NotifyOne(th)
      BY <1>a, <3>1 DEF NotifyOne
    <3>2. CASE SpuriousWake(th)
      BY <1>a, <3>2 DEF SpuriousWake
    <3> QED
      BY <1>8, <3>1, <3>2
  <2> QED
    BY <1>c, <2>1, <2>2
<1>9. CASE SyncWait
  BY <1>9, <1>a DEF SyncWait, JobsOver
<1>10. ASSUME EndBatch \/ SyncTake \/ SyncTaskEnds \/ SyncReturn
              \/ SetExit \/ NotifyExit \/ Join
       PROVE  FALSE
  BY <1>10, <1>a DEF EndBatch, SyncTake, Pop, SyncTaskEnds, SyncReturn, SetExit, NotifyExit, Join
<1>11. CASE UNCHANGED vars
  BY <1>11, <1>c DEF vars
<1>12. ASSUME NEW w \in Workers, WorkerStep(w)
       PROVE  \/ jobs' > 0
              \/ \E v \in Workers : pc'[v] = "notifyJobs"
              \/ queue' # <<>> /\ \E v \in Workers : pc'[v] = "ready"
  BY <1>1, <1>2, <1>3, <1>4, <1>5, <1>6, <1>7, <1>8, <1>12, <1>a DEF WorkerStep
<1> QED
  BY <1>1, <1>8, <1>9, <1>10, <1>11, <1>12, <1>a DEF Next, MainStep
-----------------------------------------------------------------------------
(* Where a task stands in a sequence, after an append and after the head   *)
(* is gone.                                                                *)
LEMMA PlacesFinite ==
    ASSUME NEW S, NEW s \in Seq(S), NEW t
    PROVE  IsFiniteSet(Places(s, t)) /\ Cardinality(Places(s, t)) \in Nat
<1>1. Len(s) \in Nat /\ DOMAIN s = 1..Len(s)
  BY LenProperties
<1>2. IsFiniteSet(1..Len(s)) /\ Places(s, t) \in SUBSET (1..Len(s))
  BY <1>1, FS_Interval DEF Places
<1>3. IsFiniteSet(Places(s, t))
  BY <1>2, FS_Subset
<1> QED
  BY <1>3, FS_CardinalityType

LEMMA PlacesAppend ==
    ASSUME NEW S, NEW s \in Seq(S), NEW x \in S, NEW t
    PROVE  Cardinality(Places(Append(s, x), t))
             = Cardinality(Places(s, t)) + (IF x = t THEN 1 ELSE 0)
<1>1. /\ Len(Append(s, x)) = Len(s) + 1
      /\ Append(s, x) \in Seq(S)
      /\ \A i \in 1..Len(s) : Append(s, x)[i] = s[i]
      /\ Append(s, x)[Len(s) + 1] = x
  BY AppendProperties
<1>2. Len(s) \in Nat /\ DOMAIN s = 1..Len(s) /\ DOMAIN Append(s, x) = 1..(Len(s) + 1)
  BY <1>1, LenProperties
<1>3. Places(Append(s, x), t) = IF x = t THEN Places(s, t) \cup {Len(s) + 1} ELSE Places(s, t)
  BY <1>1, <1>2 DEF Places
<1>4. Len(s) + 1 \notin Places(s, t)
  BY <1>2 DEF Places
<1>5. IsFiniteSet(Places(s, t)) /\ Cardinality(Places(s, t)) \in Nat
  BY PlacesFinite
<1>6. Cardinality(Places(s, t) \cup {Len(s) + 1}) = Cardinality(Places(s, t)) + 1
  BY <1>4, <1>5, FS_AddElement
<1> QED
  BY <1>3, <1>5, <1>6

LEMMA PlacesTail ==
    ASSUME NEW S, NEW s \in Seq(S), s # <<>>, NEW t
    PROVE  Cardinality(Places(s, t))
             = Cardinality(Places(Tail(s), t)) + (IF Head(s) = t THEN 1 ELSE 0)
<1>1. /\ Tail(s) \in Seq(S) /\ Len(Tail(s)) = Len(s) - 1
      /\ \A i \in 1..Len(Tail(s)) : Tail(s)[i] = s[i + 1]
  BY HeadTailProperties
<1>2. /\ Len(s) \in Nat \ {0} /\ DOMAIN s = 1..Len(s)
      /\ DOMAIN Tail(s) = 1..(Len(s) - 1) /\ Head(s) = s[1]
  BY <1>1, LenProperties, EmptySeq
<1> DEFINE Rest == Places(s, t) \ {1}
<1>3. \A i \in 1..(Len(s) - 1) : i \in Places(Tail(s), t) <=> i + 1 \in Rest
  BY <1>1, <1>2 DEF Places
<1>4. Places(Tail(s), t) \subseteq 1..(Len(s) - 1) /\ Rest \subseteq 2..Len(s)
  BY <1>2 DEF Places
<1>5. Cardinality(Rest) = Cardinality(Places(Tail(s), t))
  <2> DEFINE f == [i \in Places(Tail(s), t) |-> i + 1]
  <2> HIDE DEF Rest
  <2>1. f \in [Places(Tail(s), t) -> Rest]
    BY <1>3, <1>4
  <2>2. \A i, k \in Places(Tail(s), t) : f[i] = f[k] => i = k
    BY <1>2, <1>4
  <2>3. \A k \in Rest : \E i \in Places(Tail(s), t) : f[i] = k
    <3> TAKE k \in Rest
    <3>1. k - 1 \in 1..(Len(s) - 1) /\ (k - 1) + 1 = k
      BY <1>2, <1>4
    <3>2. k - 1 \in Places(Tail(s), t)
      BY <1>3, <3>1
    <3> QED
      BY <3>1, <3>2
  <2> HIDE DEF f
  <2>4. f \in Bijection(Places(Tail(s), t), Rest)
    BY <2>1, <2>2, <2>3, Fun_IsBij
  <2> QED
    BY <1>1, <2>4, PlacesFinite, FS_Bijection DEF ExistsBijection
<1>6. 1 \in Places(s, t) <=> Head(s) = t
  BY <1>2 DEF Places
<1>7. IsFiniteSet(Places(s, t)) /\ Cardinality(Places(s, t)) \in Nat
  BY PlacesFinite
<1>8. Cardinality(Rest) = IF 1 \in Places(s, t) THEN Cardinality(Places(s, t)) - 1
                                               ELSE Cardinality(Places(s, t))
  BY <1>7, FS_RemoveElement
<1> HIDE DEF Rest
<1> QED
  BY <1>5, <1>6, <1>7, <1>8

(* A thread that takes a task while it holds none, and one that gives back *)
(* the task it holds.                                                      *)
LEMMA HoldersFinite ==
    ASSUME NEW t
    PROVE  IsFiniteSet(Holders(t)) /\ Cardinality(Holders(t)) \in Nat
<1>1. IsFiniteSet(Thread)
  BY PoolAssumption, FS_AddElement DEF Thread
<1>2. IsFiniteSet(Holders(t))
  BY <1>1, FS_Subset DEF Holders
<1> QED
  BY <1>2, FS_CardinalityType

LEMMA HoldersTake ==
    ASSUME TypeOK, NEW th \in Thread, NEW x \in Task, NEW t \in Task,
           cur[th] = NoTask, cur' = [cur EXCEPT ![th] = x]
    PROVE  Cardinality(Holders(t)') = Cardinality(Holders(t)) + (IF x = t THEN 1 ELSE 0)
<1>1. th \notin Holders(t)
  BY PoolAssumption DEF Holders
<1>2. Holders(t)' = IF x = t THEN Holders(t) \cup {th} ELSE Holders(t)
  BY PoolAssumption DEF Holders, TypeOK
<1>3. IsFiniteSet(Holders(t)) /\ Cardinality(Holders(t)) \in Nat
  BY HoldersFinite
<1>4. Cardinality(Holders(t) \cup {th}) = Cardinality(Holders(t)) + 1
  BY <1>1, <1>3, FS_AddElement
<1> QED
  BY <1>2, <1>3, <1>4

LEMMA HoldersGive ==
    ASSUME TypeOK, NEW th \in Thread, NEW x \in Task, NEW t \in Task,
           cur[th] = x, cur' = [cur EXCEPT ![th] = NoTask]
    PROVE  Cardinality(Holders(t)) = Cardinality(Holders(t)') + (IF x = t THEN 1 ELSE 0)
<1>1. th \in Holders(t) <=> x = t
  BY DEF Holders
<1>2. Holders(t)' = IF x = t THEN Holders(t) \ {th} ELSE Holders(t)
  BY PoolAssumption DEF Holders, TypeOK
<1>3. IsFiniteSet(Holders(t)) /\ Cardinality(Holders(t)) \in Nat
  BY HoldersFinite
<1>4. x = t => Cardinality(Holders(t) \ {th}) = Cardinality(Holders(t)) - 1
  BY <1>1, <1>3, FS_RemoveElement
<1> QED
  BY <1>2, <1>3, <1>4

LEMMA PopConserves ==
    ASSUME TypeOK, Conserved, NEW th \in Thread, cur[th] = NoTask, Pop(th),
           UNCHANGED <<given, done>>
    PROVE  Conserved'
<1> SUFFICES ASSUME NEW t \in Task
             PROVE  given'[t] = done'[t] + Cardinality(Places(queue', t)) + Cardinality(Holders(t)')
  BY DEF Conserved, Holders, Places
<1>1. queue \in Seq(Task) /\ queue # <<>> /\ queue' = Tail(queue) /\ Head(queue) \in Task
  BY RangeTail DEF TypeOK, Pop
<1>2. Cardinality(Places(queue, t))
        = Cardinality(Places(queue', t)) + (IF Head(queue) = t THEN 1 ELSE 0)
  BY <1>1, PlacesTail
<1>3. Cardinality(Holders(t)') = Cardinality(Holders(t)) + (IF Head(queue) = t THEN 1 ELSE 0)
  BY <1>1, HoldersTake DEF Pop
<1>4. queue' \in Seq(Task)
  BY <1>1, RangeTail
<1>5. /\ Cardinality(Places(queue', t)) \in Nat /\ Cardinality(Holders(t)) \in Nat
  BY <1>4, PlacesFinite, HoldersFinite
<1>6. given[t] = done[t] + Cardinality(Places(queue, t)) + Cardinality(Holders(t))
  BY DEF Conserved
<1>7. given'[t] = given[t] /\ done'[t] = done[t] /\ done[t] \in Nat
  BY DEF TypeOK
<1> QED
  BY <1>2, <1>3, <1>5, <1>6, <1>7

LEMMA EndConserves ==
    ASSUME TypeOK, Conserved, NEW th \in Thread, cur[th] \in Task,
           cur' = [cur EXCEPT ![th] = NoTask], done' = [done EXCEPT ![cur[th]] = @ + 1],
           UNCHANGED <<given, queue>>
    PROVE  /\ Conserved'
           /\ done[cur[th]] < given[cur[th]]
<1>1. ASSUME NEW t \in Task
      PROVE  /\ given'[t] = done'[t] + Cardinality(Places(queue', t)) + Cardinality(Holders(t)')
             /\ t = cur[th] => done[t] < given[t]
  <2>1. Cardinality(Holders(t)) = Cardinality(Holders(t)') + (IF cur[th] = t THEN 1 ELSE 0)
    BY HoldersGive
  <2>2. /\ Cardinality(Places(queue, t)) \in Nat /\ Cardinality(Holders(t)) \in Nat
    BY PlacesFinite, HoldersFinite DEF TypeOK
  <2>3. Cardinality(Holders(t)') \in Nat
    <3>1. Holders(t)' \subseteq Thread /\ IsFiniteSet(Thread)
      BY PoolAssumption, FS_AddElement DEF Thread, Holders
    <3> QED
      BY <3>1, FS_Subset, FS_CardinalityType
  <2>4. given[t] = done[t] + Cardinality(Places(queue, t)) + Cardinality(Holders(t))
    BY DEF Conserved
  <2>5. /\ given'[t] = given[t] /\ done[t] \in Nat /\ Places(queue', t) = Places(queue, t)
        /\ done'[t] = done[t] + (IF cur[th] = t THEN 1 ELSE 0)
    BY DEF TypeOK
  <2> QED
    BY <2>1, <2>2, <2>3, <2>4, <2>5
<1> QED
  BY <1>1 DEF Conserved, Holders, Places

LEMMA QueueConserves ==
    ASSUME TypeOK, Conserved, NEW th \in Thread, Queue(th)
    PROVE  Conserved'
<1> SUFFICES ASSUME NEW t \in Task
             PROVE  given'[t] = done'[t] + Cardinality(Places(queue', t)) + Cardinality(Holders(t)')
  BY DEF Conserved, Holders, Places
<1>1. Head(todo[th]) \in Task
  <2>1. todo[th] \in Seq(Task) /\ todo[th] # <<>>
    BY DEF TypeOK, Queue
  <2> QED
    BY <2>1, RangeTail
<1>2. Cardinality(Places(queue', t))
        = Cardinality(Places(queue, t)) + (IF Head(todo[th]) = t THEN 1 ELSE 0)
  <2>1. queue \in Seq(Task) /\ queue' = Append(queue, Head(todo[th]))
    BY DEF TypeOK, Queue
  <2> QED
    BY <1>1, <2>1, PlacesAppend
<1>3. Cardinality(Places(queue, t)) \in Nat /\ Cardinality(Holders(t)) \in Nat
  BY PlacesFinite, HoldersFinite DEF TypeOK
<1>4. Holders(t)' = Holders(t) /\ done'[t] = done[t] /\ done[t] \in Nat
  BY DEF TypeOK, Queue, Holders
<1>5. given'[t] = given[t] + (IF Head(todo[th]) = t THEN 1 ELSE 0)
  <2>1. given' = [given EXCEPT ![Head(todo[th])] = @ + 1] /\ given \in [Task -> Nat]
    BY DEF TypeOK, Queue
  <2> QED
    BY <1>1, <2>1
<1>6. given[t] = done[t] + Cardinality(Places(queue, t)) + Cardinality(Holders(t))
  BY DEF Conserved
<1> QED
  BY <1>2, <1>3, <1>4, <1>5, <1>6

LEMMA ConservedStep == IInv /\ [Next]_vars => Conserved'
<1> SUFFICES ASSUME IInv, [Next]_vars PROVE Conserved'
  OBVIOUS
<1>a. TypeOK /\ CurMatchesPC /\ Conserved
  BY DEF IInv
<1>b. Main \in Thread /\ Workers \subseteq Thread
  BY DEF Thread
<1>c. ASSUME UNCHANGED <<cur, queue, given, done>> PROVE Conserved'
  BY <1>a, <1>c DEF Conserved, Holders
<1>1. ASSUME NEW th \in Thread, Queue(th) PROVE Conserved'
  BY <1>1, <1>a, QueueConserves
<1>2. ASSUME NEW th \in Thread, NotifyOne(th) \/ SpuriousWake(th) PROVE Conserved'
  BY <1>2, <1>c DEF NotifyOne, SpuriousWake
<1>3. ASSUME NEW w \in Workers, TakeJob(w) PROVE Conserved'
  <2>1. cur[w] = NoTask
    BY <1>3, <1>a DEF TakeJob, CurMatchesPC, Executing
  <2> QED
    BY <1>3, <1>a, <1>b, <2>1, PopConserves DEF TakeJob
<1>4. ASSUME NEW w \in Workers, EndJob(w) PROVE Conserved'
  <2>1. cur[w] \in Task
    BY <1>4, <1>a, <1>b DEF EndJob, CurMatchesPC, Executing, TypeOK
  <2> QED
    BY <1>4, <1>a, <1>b, <2>1, EndConserves DEF EndJob
<1>5. ASSUME NEW w \in Workers, Leave(w) \/ FindNothing(w) \/ Sleep(w) \/ NotifyJobs(w)
      PROVE  Conserved'
  BY <1>5, <1>c DEF Leave, FindNothing, Sleep, NotifyJobs
<1>6. CASE EndBatch \/ SyncWait \/ SyncReturn \/ SetExit \/ NotifyExit \/ Join
  BY <1>6, <1>c DEF EndBatch, SyncWait, SyncReturn, SetExit, NotifyExit, Join
<1>7. CASE SyncTake
  <2>1. cur[Main] = NoTask
    BY <1>7, <1>a DEF SyncTake, CurMatchesPC, MainInBody
  <2> QED
    BY <1>7, <1>a, <1>b, <2>1, PopConserves DEF SyncTake
<1>8. CASE SyncTaskEnds
  <2>1. cur[Main] \in Task
    BY <1>8, <1>a, <1>b DEF SyncTaskEnds, TypeOK
  <2> QED
    BY <1>8, <1>a, <1>b, <2>1, EndConserves DEF SyncTaskEnds
<1>9. CASE UNCHANGED vars
  BY <1>9, <1>c DEF vars
<1> QED
  BY <1>1, <1>2, <1>3, <1>4, <1>5, <1>6, <1>7, <1>8, <1>9, <1>b DEF Next, MainStep, WorkerStep
-----------------------------------------------------------------------------
(* The conjunction is inductive.  SyncComplete alone is not: that the      *)
(* tasks of a batch are finished when m_jobs is 0 needs BatchDrained       *)
(* (nobody but a worker still holds one) and JobsCounted (m_jobs counts    *)
(* the workers that do).                                                   *)
THEOREM Invariance == Spec => []IInv
<1>1. Init => IInv
  BY InitInv
<1>2. IInv /\ [Next]_vars => IInv'
  BY TypeStep, CountStep, PhaseStep, BatchStep, WakeupStep, ConservedStep DEF IInv
<1> QED
  BY <1>1, <1>2, PTL DEF Spec

(* TaskDispatch.cpp keeps its types: m_jobs, an unsigned counter, is never *)
(* decremented below zero.                                                 *)
THEOREM TypeCorrect == Spec => []TypeOK
  BY Invariance, PTL DEF IInv

(* Sync() never returns while a task its caller queued before the call is  *)
(* still queued or running, for any workers, batches and nested tasks.     *)
THEOREM SyncIsComplete == Spec => []SyncComplete
  BY Invariance, PTL DEF IInv

(* The thread blocked in Sync() always has a wake-up under way, although   *)
(* Queue() and Worker() both skip notifications.                           *)
THEOREM WakeupUnderWay == Spec => []NoLostWakeup
  BY Invariance, PTL DEF IInv
-----------------------------------------------------------------------------
(* The refinement of Executor.  Handing a task on, from the queue to a     *)
(* thread, changes nothing for the user; that a task which ends was handed *)
(* over more often than it has ended is what Conserved is for.             *)
LEMMA StepIsPromise ==
    IInv /\ IInv' /\ [Next]_vars => [Promise!Next]_Promise!abstractVars
<1> SUFFICES ASSUME IInv, IInv', [Next]_vars
             PROVE  [Promise!Next]_Promise!abstractVars
  OBVIOUS
<1>a. TypeOK /\ CurMatchesPC /\ BatchInProgress /\ Conserved /\ SyncComplete'
  BY DEF IInv
<1>b. /\ Main \in Thread /\ Workers \subseteq Thread /\ Main \notin Workers
      /\ todo \in [Thread -> Seq(Task)] /\ cur \in [Thread -> Task \cup {NoTask}]
  BY <1>a, PoolAssumption DEF TypeOK, Thread
<1>c. ASSUME UNCHANGED <<given, done, batch>> PROVE [Promise!Next]_Promise!abstractVars
  BY <1>c DEF Promise!abstractVars
<1>d. ASSUME NEW th \in Thread, cur[th] \in Task,
             cur' = [cur EXCEPT ![th] = NoTask], done' = [done EXCEPT ![cur[th]] = @ + 1],
             UNCHANGED <<given, queue, batch>>
      PROVE  [Promise!Next]_Promise!abstractVars
  <2>1. done[cur[th]] < given[cur[th]]
    BY <1>a, <1>d, EndConserves
  <2>2. Promise!Finish(cur[th])
    BY <1>d, <2>1 DEF Promise!Finish
  <2> QED
    BY <1>d, <2>2 DEF Promise!Next
<1>1. ASSUME NEW th \in Thread, Queue(th) PROVE [Promise!Next]_Promise!abstractVars
  <2>1. Head(todo[th]) \in Task
    BY <1>1, <1>b, RangeTail DEF Queue
  <2>2. Promise!Submit(Head(todo[th]))
    BY <1>1 DEF Queue, Promise!Submit
  <2> QED
    BY <2>1, <2>2 DEF Promise!Next
<1>2. ASSUME NEW th \in Thread, NotifyOne(th) \/ SpuriousWake(th)
      PROVE  [Promise!Next]_Promise!abstractVars
  BY <1>2, <1>c DEF NotifyOne, SpuriousWake
<1>3. ASSUME NEW w \in Workers,
             TakeJob(w) \/ Leave(w) \/ FindNothing(w) \/ Sleep(w) \/ NotifyJobs(w)
      PROVE  [Promise!Next]_Promise!abstractVars
  BY <1>3, <1>c DEF TakeJob, Leave, FindNothing, Sleep, NotifyJobs
<1>4. ASSUME NEW w \in Workers, EndJob(w) PROVE [Promise!Next]_Promise!abstractVars
  <2>1. cur[w] \in Task
    BY <1>4, <1>a, <1>b DEF EndJob, CurMatchesPC, Executing
  <2> QED
    BY <1>4, <1>b, <1>d, <2>1 DEF EndJob
<1>5. CASE EndBatch \/ SyncTake \/ SyncWait \/ SetExit \/ NotifyExit \/ Join
  BY <1>5, <1>c DEF EndBatch, SyncTake, SyncWait, SetExit, NotifyExit, Join
<1>6. CASE SyncTaskEnds
  <2>1. cur[Main] \in Task
    BY <1>6, <1>b DEF SyncTaskEnds
  <2> QED
    BY <1>6, <1>b, <1>d, <2>1 DEF SyncTaskEnds
<1>7. CASE SyncReturn
  <2>1. batch \in 1..Len(Batches) /\ Len(Batches) \in Nat
    BY <1>7, <1>a, PoolAssumption, LenProperties
    DEF SyncReturn, AtJobsWait, BatchInProgress, MainDone
  <2>2. batch' = batch + 1 /\ UNCHANGED <<given, done>>
    BY <1>7 DEF SyncReturn
  <2>3. \A t \in Range(Batches[batch]) : done[t] > 0
    <3>1. Range(Batches[batch]) \subseteq Finished'
      BY <1>a, <2>1, <2>2 DEF SyncComplete
    <3> QED
      BY <2>2, <3>1 DEF Finished
  <2>4. /\ (batch - 1) + 1 = batch /\ batch - 1 < Len(Batches)
        /\ batch' - 1 = (batch - 1) + 1
    BY <2>1, <2>2
  <2>5. \A t \in Promise!Range(Batches[(batch - 1) + 1]) : done[t] > 0
    BY <2>3, <2>4 DEF Range, Promise!Range
  <2>6. Promise!SyncReturn
    BY <2>2, <2>4, <2>5 DEF Promise!SyncReturn
  <2> QED
    BY <2>6 DEF Promise!Next
<1>8. CASE UNCHANGED vars
  BY <1>8, <1>c DEF vars
<1> QED
  BY <1>1, <1>2, <1>3, <1>4, <1>5, <1>6, <1>7, <1>8, <1>b DEF Next, MainStep, WorkerStep

(* The pool does what its users are promised, for any threads, tasks and   *)
(* batches, the same task handed over several times included: it runs a    *)
(* task at most as often as it was given one, and Sync() closes a batch    *)
(* only when each of its tasks has finished.                               *)
THEOREM PoolImplementsExecutor == Spec => ImplementsExecutor
<1>1. Init => Promise!Init
  BY DEF Init, Promise!Init
<1>2. IInv /\ IInv' /\ [Next]_vars => [Promise!Next]_Promise!abstractVars
  BY StepIsPromise
<1> QED
  BY <1>1, <1>2, Invariance, PTL DEF Spec, ImplementsExecutor, Promise!Spec
=============================================================================
