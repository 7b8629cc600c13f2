---------------------------- MODULE GoogleGroups ----------------------------
(***************************************************************************)
(* uat-google-groups: a crawler on two pools of TaskDispatch.  Tasks of    *)
(* the small pool read pages of topics, tasks of the large one topics and  *)
(* messages; tasks queue tasks, also into the other pool, and each request *)
(* takes a connection out of a common pool of handles.                     *)
(*                                                                         *)
(* A step is one critical section or one answer of the server: taking a    *)
(* task, taking a handle, and giving the handle back together with what    *)
(* the task does with the answer (it holds no other lock than that of a    *)
(* queue, and the counters').  Workers of a pool are all alike, so a pool  *)
(* is its queue, the tasks its workers execute, and how many of them are   *)
(* awake.  An idle worker may take a task at any time, whoever is notified *)
(* (module TaskDispatch has the notifications); only Main and the workers  *)
(* that have just finished a task are sure to look at the queue.           *)
(***************************************************************************)
EXTENDS Integers, Sequences, FiniteSets, Functions

CONSTANTS Workers,     \* threads that execute td, one of them Main in td.Sync()
          PageWorkers, \* threads that execute tdp, one of them Main in tdp.Sync()
          PageSize,    \* topics on a full page, 100 in the program
          Groups,      \* groups on the server: a sequence of topics, each a sequence of messages
          MaxSpurious  \* bound: spurious wake-ups of Main in a crawl

(* The messages of a group, each topic being a sequence of them.           *)
MessagesOf(g) == UNION {Range(g[t]) : t \in DOMAIN g}

ASSUME GroupsAssumption == /\ Workers \in Nat \ {0} /\ PageWorkers \in Nat \ {0}
                           /\ PageSize \in Nat \ {0}
                           /\ MaxSpurious \in Nat
                           /\ \A g \in Groups : g \in Seq(Seq(MessagesOf(g)))

(* A message is listed once, in one topic: ids are those of the topic and  *)
(* of the message in it, and a topic has a directory of its own.           *)
ASSUME ListedOnce ==
    \A g \in Groups : \A t \in DOMAIN g :
        /\ IsInjective(g[t])
        /\ \A u \in DOMAIN g : t # u => Range(g[t]) \cap Range(g[u]) = {}

TotalHandles == Workers + PageWorkers
Pool == {"td", "tdp"}
NoGroup == <<>>
NoPages == -1

Page(n)  == <<"page", n>>
Topic(t) == <<"topic", t>>
Message(m) == <<"message", m>>

VARIABLES group,      \* the group on the command line
          crawl,      \* where main() is: "no", "tdp", "td", "failed" or "over"
          queue,      \* m_queue of each pool
          busy,       \* the tasks workers of each pool execute
          looking,    \* how many workers of each pool are about to test the queue
          mainTask,   \* what Main executes in Sync(): a set of at most one task
          mainWaits,  \* Main is in m_cvJobs.wait, not notified
          holding,    \* the tasks whose request is under way
          handles,    \* size of handlepool
          numpages, pagenum,
          count,      \* threads, threadsbad, threadstotal, messages, ...
          saved,      \* the files written
          untold,     \* history: the tasks that went wrong and are counted as good
          spurious    \* spurious wake-ups of Main, at most MaxSpurious

crawlVars == <<group, crawl, queue, busy, looking, mainTask, mainWaits, holding, handles,
               numpages, pagenum, count, saved, untold, spurious>>

NoCount == [threads |-> 0, threadsbad |-> 0, threadstotal |-> 0,
            messages |-> 0, messagesbad |-> 0, messagestotal |-> 0]

(* What the server has: the topics on a page, a topic's messages.          *)
TopicsOf(n)    == {t \in DOMAIN group : (t - 1) \div PageSize = n}
AllMessages    == MessagesOf(group)

CrawlTask == UNION {{Page(n) : n \in 0..Len(g)} \cup {Topic(t) : t \in DOMAIN g}
                  \cup {Message(m) : m \in MessagesOf(g)} : g \in Groups}

Threads(p) == IF p = "td" THEN Workers - 1 ELSE PageWorkers - 1
Idle(p)    == Threads(p) - Cardinality(busy[p]) - looking[p]
Executing  == busy["td"] \cup busy["tdp"] \cup mainTask
Crawling   == crawl \in Pool

CrawlTypeOK ==
    /\ group \in Groups \cup {NoGroup}
    /\ crawl \in {"no", "failed", "over"} \cup Pool
    /\ queue \in [Pool -> Seq(CrawlTask)]
    /\ busy \in [Pool -> SUBSET CrawlTask]
    /\ looking \in [Pool -> Nat] /\ \A p \in Pool : Idle(p) >= 0
    /\ mainTask \in SUBSET CrawlTask /\ Cardinality(mainTask) <= 1
    /\ mainWaits \in BOOLEAN
    /\ holding \subseteq Executing
    /\ handles \in 0..TotalHandles
    /\ numpages \in Nat \cup {NoPages} /\ pagenum \in Nat
    /\ count \in [DOMAIN NoCount -> Nat]
    /\ saved \subseteq AllMessages
    /\ untold \subseteq CrawlTask
    /\ spurious \in 0..MaxSpurious

CrawlInit ==
    /\ group = NoGroup /\ crawl = "no"
    /\ queue = [p \in Pool |-> <<>>] /\ busy = [p \in Pool |-> {}]
    /\ looking = [p \in Pool |-> 0]
    /\ mainTask = {} /\ mainWaits = FALSE
    /\ holding = {} /\ handles = 0
    /\ numpages = NoPages /\ pagenum = 0
    /\ count = NoCount /\ saved = {} /\ untold = {} /\ spurious = 0

(* main() up to tdp.Sync(): the connections are made, the first page is    *)
(* queued.  A group whose directory exists is refused.                     *)
StartCrawl(g) ==
    /\ crawl = "no"
    /\ group' = g /\ crawl' = "tdp"
    /\ queue' = [queue EXCEPT !["tdp"] = <<Page(0)>>]
    /\ handles' = TotalHandles
    /\ UNCHANGED <<busy, looking, mainTask, mainWaits, holding, numpages, pagenum, count,
                   saved, untold, spurious>>

(* The process is gone, and all it had in memory; the files stay.          *)
Exit(how) ==
    /\ crawl' = how
    /\ queue' = [p \in Pool |-> <<>>] /\ busy' = [p \in Pool |-> {}]
    /\ looking' = [p \in Pool |-> 0]
    /\ mainTask' = {} /\ mainWaits' = FALSE
    /\ holding' = {} /\ handles' = 0
    /\ UNCHANGED <<group, numpages, pagenum, count, saved, untold>>
-----------------------------------------------------------------------------
(* Threads of a pool.                                                      *)
WorkerTakes(p) ==
    /\ Crawling /\ queue[p] # <<>>
    /\ \/ looking[p] > 0 /\ looking' = [looking EXCEPT ![p] = @ - 1]
       \/ Idle(p) > 0 /\ UNCHANGED looking
    /\ busy' = [busy EXCEPT ![p] = @ \cup {Head(queue[p])}]
    /\ queue' = [queue EXCEPT ![p] = Tail(@)]
    /\ UNCHANGED <<group, crawl, mainTask, mainWaits, holding, handles, numpages, pagenum,
                   count, saved, untold, spurious>>

WorkerSleeps(p) ==
    /\ looking[p] > 0 /\ queue[p] = <<>>
    /\ looking' = [looking EXCEPT ![p] = @ - 1]
    /\ UNCHANGED <<group, crawl, queue, busy, mainTask, mainWaits, holding, handles,
                   numpages, pagenum, count, saved, untold, spurious>>

(* Sync() of the pool named by crawl.                                      *)
MainTakes ==
    /\ Crawling /\ mainTask = {} /\ ~mainWaits
    /\ queue[crawl] # <<>>
    /\ mainTask' = {Head(queue[crawl])}
    /\ queue' = [queue EXCEPT ![crawl] = Tail(@)]
    /\ UNCHANGED <<group, crawl, busy, looking, mainWaits, holding, handles, numpages,
                   pagenum, count, saved, untold, spurious>>

MainWaits ==
    /\ Crawling /\ mainTask = {} /\ ~mainWaits
    /\ queue[crawl] = <<>> /\ busy[crawl] # {}
    /\ mainWaits' = TRUE
    /\ UNCHANGED <<group, crawl, queue, busy, looking, mainTask, holding, handles, numpages,
                   pagenum, count, saved, untold, spurious>>

(* What main() does after Sync() returned: when the pages are read it      *)
(* closes PageWorkers connections, when all is read it exits.              *)
AfterSync ==
    \/ /\ crawl = "tdp" /\ handles >= PageWorkers
       /\ crawl' = "td"
       /\ handles' = handles - PageWorkers
       /\ mainWaits' = FALSE
       /\ UNCHANGED <<group, queue, busy, looking, mainTask, holding, numpages, pagenum,
                      count, saved, untold>>
    \/ crawl = "tdp" /\ handles < PageWorkers /\ Exit("failed")
    \/ crawl = "td" /\ Exit("over")

(* Variant: Sync() does not wait for what its workers execute.             *)
SyncReturnsEarly ==
    /\ Crawling /\ mainTask = {} /\ ~mainWaits
    /\ queue[crawl] = <<>>
    /\ AfterSync /\ UNCHANGED spurious

SyncReturns ==
    /\ Crawling /\ mainTask = {} /\ ~mainWaits
    /\ queue[crawl] = <<>> /\ busy[crawl] = {}
    /\ AfterSync /\ UNCHANGED spurious

(* The predicate Main waits for looks at the running jobs only; if it is   *)
(* tested when nobody notified, the queue need not be empty.               *)
SyncReturnsSpuriously ==
    /\ mainWaits /\ busy[crawl] = {}
    /\ spurious < MaxSpurious /\ spurious' = spurious + 1
    /\ AfterSync
-----------------------------------------------------------------------------
(* Fetch: the connection is taken, and the assertion on the pool tested.   *)
TakeHandle(task) ==
    /\ Crawling /\ task \in Executing \ holding
    /\ handles > 0
    /\ handles' = handles - 1
    /\ holding' = holding \cup {task}
    /\ UNCHANGED <<group, crawl, queue, busy, looking, mainTask, mainWaits, numpages,
                   pagenum, count, saved, untold, spurious>>

NoHandleLeft ==
    /\ Crawling /\ Executing \ holding # {} /\ handles = 0
    /\ Exit("failed") /\ UNCHANGED spurious

(* The last job of a pool with nothing queued wakes Main; and a variant    *)
(* that looks before it has counted the job down.                          *)
LastJobEarly(p, left, more) == busy[p] = {} /\ queue[p] \o more[p] = <<>>
LastJob(p, left, more) == left = {} /\ queue[p] \o more[p] = <<>>

(* The end of a request, and of the task unless it goes on: the handle is  *)
(* back in the pool, more is appended to the queues.                       *)
EndTask(task, more) ==
    LET p == IF task[1] = "page" THEN "tdp" ELSE "td"
        left == busy[p] \ {task}
    IN  /\ task \in holding
        /\ holding' = holding \ {task}
        /\ handles' = handles + 1
        /\ queue' = [q \in Pool |-> queue[q] \o more[q]]
        /\ busy' = [busy EXCEPT ![p] = left]
        /\ looking' = [looking EXCEPT ![p] = IF task \in busy[p] THEN @ + 1 ELSE @]
        /\ mainTask' = mainTask \ {task}
        /\ mainWaits' = (mainWaits /\ ~(p = crawl /\ LastJob(p, left, more)))
        /\ UNCHANGED <<group, crawl, spurious>>

NoMore == [q \in Pool |-> <<>>]

(* The number of the last page, from the number of topics the first page   *)
(* gives; and a variant that is the number of full pages after the first.  *)
NumPagesFull(size) == (size - PageSize) \div PageSize
NumPages(size) == size \div PageSize

(* GetTopics: whatever goes wrong, also a page without topics, makes it    *)
(* try again with a new connection.                                        *)
PageFails(n) ==
    /\ Page(n) \in holding
    /\ holding' = holding \ {Page(n)}
    /\ handles' = handles + 1
    /\ numpages' = IF TopicsOf(n) = {} THEN NumPages(Len(group)) ELSE numpages
    /\ UNCHANGED <<group, crawl, queue, busy, looking, mainTask, mainWaits, pagenum, count,
                   saved, untold, spurious>>

(* The first page does not tell the number of topics: exit(1).             *)
FirstPageUnreadable ==
    /\ Page(0) \in holding /\ numpages = NoPages
    /\ Exit("over") /\ UNCHANGED spurious

PageRead(n) ==
    /\ TopicsOf(n) # {}
    /\ numpages' = IF numpages = NoPages THEN NumPages(Len(group)) ELSE numpages
    /\ LET next == {k \in {pagenum + 1, pagenum + 2} : k <= numpages'}
       IN  /\ pagenum' = IF pagenum + 1 > numpages' THEN pagenum + 1 ELSE pagenum + 2
           /\ EndTask(Page(n),
                 [td  |-> [i \in 1..Cardinality(TopicsOf(n)) |-> Topic(n * PageSize + i)],
                  tdp |-> [i \in 1..Cardinality(next) |-> Page(pagenum + i)]])
    /\ count' = [count EXCEPT !.threadstotal = @ + Cardinality(TopicsOf(n))]
    /\ UNCHANGED <<saved, untold>>

(* GetThread and GetMsg: a request that fails is counted, and that is all. *)
TopicFails(t) ==
    /\ EndTask(Topic(t), NoMore)
    /\ count' = [count EXCEPT !.threads = @ + 1, !.threadsbad = @ + 1]
    /\ UNCHANGED <<numpages, pagenum, saved, untold>>

(* A topic as a list of messages.  An answer that is not the topic, as an  *)
(* error page, lists none, and is a topic read like any other.             *)
TopicLists(t, list) ==
    /\ EndTask(Topic(t), [td |-> [i \in DOMAIN list |-> Message(list[i])], tdp |-> <<>>])
    /\ count' = [count EXCEPT !.threads = @ + 1, !.messagestotal = @ + Len(list)]
    /\ untold' = IF list = group[t] THEN untold ELSE untold \cup {Topic(t)}
    /\ UNCHANGED <<numpages, pagenum, saved>>

TopicRead(t) == \E list \in {group[t], <<>>} : TopicLists(t, list)

MessageFails(m) ==
    /\ EndTask(Message(m), NoMore)
    /\ count' = [count EXCEPT !.messages = @ + 1, !.messagesbad = @ + 1]
    /\ UNCHANGED <<numpages, pagenum, saved, untold>>

(* Whether the file could be opened makes no difference to the counters.   *)
MessageRead(m) ==
    /\ EndTask(Message(m), NoMore)
    /\ \/ saved' = saved \cup {m} /\ UNCHANGED untold
       \/ untold' = untold \cup {Message(m)} /\ UNCHANGED saved
    /\ count' = [count EXCEPT !.messages = @ + 1]
    /\ UNCHANGED <<numpages, pagenum>>
-----------------------------------------------------------------------------
(* Every thread goes on and every request ends (curl has a timeout).       *)
CrawlStep ==
    \/ \E p \in Pool : WorkerTakes(p) \/ WorkerSleeps(p)
    \/ MainTakes \/ MainWaits \/ SyncReturns
    \/ \E task \in CrawlTask : TakeHandle(task)
    \/ NoHandleLeft
    \/ \E n \in 0..Len(group) : PageRead(n)
    \/ \E t \in DOMAIN group : TopicFails(t) \/ TopicRead(t)
    \/ \E m \in AllMessages : MessageFails(m) \/ MessageRead(m)

CrawlNext == \/ \E g \in Groups : StartCrawl(g)
             \/ CrawlStep
             \/ SyncReturnsSpuriously
             \/ FirstPageUnreadable
             \/ \E n \in 0..Len(group) : PageFails(n)

(* Nothing obliges the server to fail for ever.                            *)
CrawlFairness == /\ WF_crawlVars(CrawlStep)
                 /\ SF_crawlVars(\E n \in 0..Len(group) : PageRead(n))
-----------------------------------------------------------------------------
(* There is a connection for every request, in both parts of the program,  *)
(* though PageWorkers of them are closed between the two: the assertion in *)
(* Fetch holds unless Main left tdp.Sync() by a spurious wake-up.          *)
HandlesSuffice == spurious = 0 => crawl # "failed"

(* The topics and the messages that went wrong without being counted.      *)
UntoldTopics   == {t \in DOMAIN group : Topic(t) \in untold}
UntoldMessages == {m \in AllMessages : Message(m) \in untold}

(* How far the status printed last tells the truth: every topic of the     *)
(* group was asked for, every message of the topics that could be read was *)
(* asked for, and what is not in the directory was counted as bad, but for *)
(* the messages whose file could not be opened; and but for the topics     *)
(* whose answer listed nothing, no message is left out if no topic is bad. *)
CrawlAccounted ==
    (crawl = "over" /\ spurious = 0 /\ numpages # NoPages) =>
        /\ count.threads = Len(group) /\ count.threadstotal = Len(group)
        /\ count.messages = count.messagestotal
        /\ Cardinality(saved) + Cardinality(UntoldMessages) = count.messages - count.messagesbad
        /\ saved \cap UntoldMessages = {}
        /\ (count.threadsbad = 0 /\ UntoldTopics = {}) => count.messages = Cardinality(AllMessages)

(* A crawl ends, unless the last page it asks for is empty: that is the    *)
(* case of a group whose topics fill their pages exactly, or without any.  *)
CrawlEnds == (Crawling /\ Len(group) % PageSize # 0) ~> ~Crawling
=============================================================================
