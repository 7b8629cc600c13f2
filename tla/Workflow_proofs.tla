-------------------------- MODULE Workflow_proofs --------------------------
(***************************************************************************)
(* Theorems about Workflow: about its two downloaders, for any news server *)
(* and any number of sessions, for any group, any sizes of the two pools   *)
(* and any number of tasks; and about the archives that come of what they  *)
(* download, for any messages of any sizes and ids, any number of archives *)
(* and of tasks that compress, and the utilities run in any order.         *)
(***************************************************************************)
EXTENDS Workflow, FiniteSetTheorems, SequenceTheorems, WellFoundedInduction, TLAPS
-----------------------------------------------------------------------------
(* uat-nntp-get.                                                           *)
Stored(n) == \E name \in DOMAIN file : file[name] = n

NumbersTyped ==
    /\ newest \in Nat /\ server \subseteq 1..newest
    /\ current \in 0..newest /\ last \in 0..newest
    /\ article \in Nat
    /\ DOMAIN file \subseteq Nat
    /\ \A name \in DOMAIN file : file[name] \in Nat

(* The name counted is behind the current number of the server.            *)
CountBehind ==
    /\ session \in {"no", "first", "next", "article"}
    /\ session = "first"   => article = last + 1
    /\ session = "next"    => article - 1 <= current /\ last < article
    /\ session = "article" => article <= current /\ last < article

(* Names are in use up to what is on record, or counted in this session.   *)
NamesBelow ==
    /\ \A name \in DOMAIN file : name < article /\ name <= file[name]
    /\ session = "no" => \A name \in DOMAIN file : name <= last

(* Articles the user no longer asks for are stored or were never there.    *)
PassedStored ==
    /\ \A n \in server : n <= last => Stored(n)
    /\ session = "next"    => \A n \in server : n <= current => Stored(n)
    /\ session = "article" => \A n \in server : n < current => Stored(n)

NewsInv == NumbersTyped /\ CountBehind /\ NamesBelow /\ PassedStored

LEMMA NewsInvInit == NewsInit => NewsInv
<1> SUFFICES ASSUME NewsInit PROVE NewsInv
  OBVIOUS
<1>1. DOMAIN file = {}
  BY DEF NewsInit
<1>2. newest \in Nat
  BY NewsAssumption DEF NewsInit
<1> QED
  BY <1>1, <1>2 DEF NewsInit, NewsInv, NumbersTyped, CountBehind, NamesBelow, PassedStored

(* A file written under the name counted replaces none.                    *)
LEMMA ReceiveStores ==
    ASSUME NewsInv, NEW n \in server, Receive(n), article' = article + 1,
           article <= n, last < article, session # "no",
           \A k \in server : k < n => Stored(k)
    PROVE  NewsInv'
<1>1. article \notin DOMAIN file
  BY DEF NewsInv, NumbersTyped, NamesBelow
<1>2. /\ DOMAIN file' = DOMAIN file \cup {article}
      /\ file'[article] = n
      /\ \A k \in DOMAIN file : file'[k] = file[k]
  BY <1>1 DEF Receive
<1>3. /\ current' = n /\ session' = "next" /\ last' = last
      /\ server' = server /\ newest' = newest
  BY DEF Receive
<1>4. \A k : Stored(k) => Stored(k)'
  BY <1>2 DEF Stored
<1>5. Stored(n)'
  BY <1>2 DEF Stored
<1>6. NumbersTyped' /\ CountBehind'
  BY <1>2, <1>3 DEF NewsInv, NumbersTyped, CountBehind
<1>7. NamesBelow'
  BY <1>2, <1>3 DEF NewsInv, NumbersTyped, NamesBelow
<1>8. PassedStored'
  BY <1>3, <1>4, <1>5 DEF NewsInv, NumbersTyped, PassedStored
<1> QED
  BY <1>6, <1>7, <1>8 DEF NewsInv

(* What is printed at the end of a session was counted in it.              *)
LEMMA EndKeepsRecord ==
    ASSUME NewsInv, NEW printed \in Nat, EndSession(printed),
           session # "no", last <= printed, article <= printed + 1, printed <= newest,
           \A n \in server : n <= printed => Stored(n)
    PROVE  NewsInv'
<1>1. /\ session' = "no" /\ last' = printed /\ article' = article /\ file' = file
      /\ server' = server /\ newest' = newest /\ current' = current
  BY DEF EndSession
<1>2. NumbersTyped' /\ CountBehind' /\ PassedStored'
  BY <1>1 DEF NewsInv, NumbersTyped, CountBehind, PassedStored, Stored
<1>3. NamesBelow'
  BY <1>1 DEF NewsInv, NumbersTyped, NamesBelow
<1> QED
  BY <1>2, <1>3 DEF NewsInv

LEMMA LeastNatural ==
    ASSUME NEW S \in SUBSET Nat, S # {}
    PROVE  Min(S) \in S /\ \A k \in S : Min(S) <= k
<1>1. IsWellFoundedOn(OpToRel(<, Nat), Nat)
  BY NatLessThanWellFounded
<1>2. \E k \in S : \A j \in S : ~(<<j, k>> \in OpToRel(<, Nat))
  BY <1>1, WFMin
<1>3. \E k \in S : \A j \in S : ~(j < k)
  BY <1>2 DEF OpToRel
<1>4. \E k \in S : \A j \in S : k <= j
  BY <1>3
<1> QED
  BY <1>4 DEF Min

LEMMA NewsInvStep == NewsInv /\ [NewsNext]_newsVars => NewsInv'
<1> SUFFICES ASSUME NewsInv, [NewsNext]_newsVars PROVE NewsInv'
  OBVIOUS
<1>1. CASE Arrive
  <2>1. UNCHANGED <<current, session, article, last, file>>
    BY <1>1 DEF Arrive
  <2>2. newest' = newest + 1 /\ server' = server \cup {newest + 1}
    BY <1>1 DEF Arrive
  <2> QED
    BY <2>1, <2>2 DEF NewsInv, NumbersTyped, CountBehind, NamesBelow, PassedStored, Stored
<1>2. CASE Expire
  <2>1. UNCHANGED <<newest, current, session, article, last, file>> /\ server' \subseteq server
    BY <1>2 DEF Expire
  <2> QED
    BY <2>1 DEF NewsInv, NumbersTyped, CountBehind, NamesBelow, PassedStored, Stored
<1>3. CASE StartSession
  BY <1>3 DEF StartSession, NewsInv, NumbersTyped, CountBehind, NamesBelow, PassedStored, Stored
<1>4. CASE FirstArticle
  <2>1. CASE article \in server
    BY <1>4, <2>1, ReceiveStores DEF FirstArticle, NewsInv, NumbersTyped, CountBehind, PassedStored
  <2>2. CASE article \notin server
    BY <1>4, <2>2, EndKeepsRecord DEF FirstArticle, NewsInv, NumbersTyped, CountBehind, PassedStored
  <2> QED
    BY <2>1, <2>2
<1>5. CASE NextArticle
  <2> DEFINE later == {n \in server : n > current}
  <2>1. later \in SUBSET Nat
    <3>1. \A n \in server : n \in Nat
      BY DEF NewsInv, NumbersTyped
    <3> QED
      BY <3>1
  <2>2. CASE later = {}
    <3>1. EndSession(article - 1) /\ session = "next"
      BY <1>5, <2>2 DEF NextArticle
    <3> QED
      BY <3>1, EndKeepsRecord DEF NewsInv, NumbersTyped, CountBehind, PassedStored
  <2>3. CASE later # {}
    <3>1. Min(later) \in later /\ \A k \in later : Min(later) <= k
      BY <2>1, <2>3, LeastNatural
    <3>2. /\ session = "next" /\ session' = "article" /\ current' = Min(later)
          /\ UNCHANGED <<server, newest, article, last, file>>
      BY <1>5, <2>3 DEF NextArticle
    <3>3. \A n \in server : n < current' => Stored(n)
      BY <2>1, <3>1, <3>2 DEF NewsInv, NumbersTyped, PassedStored
    <3>4. PassedStored'
      BY <3>2, <3>3 DEF NewsInv, PassedStored, Stored
    <3> HIDE DEF later
    <3>5. current' \in server /\ current' > current
      BY <3>1, <3>2 DEF later
    <3> QED
      BY <3>2, <3>4, <3>5 DEF NewsInv, NumbersTyped, CountBehind, NamesBelow
  <2> QED
    BY <2>2, <2>3
<1>6. CASE GetArticle
  <2>1. CASE current \in server
    BY <1>6, <2>1, ReceiveStores DEF GetArticle, NewsInv, NumbersTyped, CountBehind, PassedStored
  <2>2. CASE current \notin server
    BY <1>6, <2>2, EndKeepsRecord DEF GetArticle, NewsInv, NumbersTyped, CountBehind, PassedStored
  <2> QED
    BY <2>1, <2>2
<1>7. CASE UNCHANGED newsVars
  BY <1>7 DEF newsVars, NewsInv, NumbersTyped, CountBehind, NamesBelow, PassedStored, Stored
<1> QED
  BY <1>1, <1>2, <1>3, <1>4, <1>5, <1>6, <1>7 DEF NewsNext, SessionStep

(* The files are imported between two sessions, and start again.           *)
LEMMA NewsInvNext == NewsInv /\ [Next]_vars => NewsInv'
<1> SUFFICES ASSUME NewsInv, [Next]_vars PROVE NewsInv'
  OBVIOUS
<1>1. CASE ImportFiles
  <2>1. /\ server' = {} /\ newest' = 0 /\ current' = 0 /\ article' = 0 /\ last' = 0
        /\ DOMAIN file' = {} /\ session = "no" /\ session' = session
    BY <1>1 DEF ImportFiles, Running
  <2> QED
    BY <2>1 DEF NewsInv, NumbersTyped, CountBehind, NamesBelow, PassedStored
<1>2. CASE [NewsNext]_newsVars
  BY <1>2, NewsInvStep
<1> QED
  BY <1>1, <1>2 DEF Next, vars

(* What the user has on record as fetched was fetched, whatever arrives on *)
(* or vanishes from the news server.                                       *)
THEOREM NothingSkippedAlways == Spec => []NothingSkipped
<1>1. Init => NewsInv
  BY NewsInvInit DEF Init
<1>2. NewsInv => NothingSkipped
  BY DEF NewsInv, NumbersTyped, NamesBelow, PassedStored, NothingSkipped, Stored
<1> QED
  BY <1>1, <1>2, NewsInvNext, PTL DEF Spec
-----------------------------------------------------------------------------
(* uat-google-groups.  Everything below is about crawls in which Main was  *)
(* not woken spuriously.                                                   *)
TaskOf(p) == IF p = "tdp" THEN {"page"} \X Nat
             ELSE ({"topic"} \X Nat) \cup ({"message"} \X UNION {MessagesOf(g) : g \in Groups})

(* Each pool has tasks of its own kind, Main the ones of the pool it syncs.*)
TasksInPlace ==
    /\ queue \in [Pool -> Seq(TaskOf("td") \cup TaskOf("tdp"))]
    /\ \A p \in Pool : queue[p] \in Seq(TaskOf(p))
    /\ busy \in [Pool -> SUBSET (TaskOf("td") \cup TaskOf("tdp"))]
    /\ \A p \in Pool : busy[p] \subseteq TaskOf(p)
    /\ Crawling => mainTask \subseteq TaskOf(crawl)

(* No pool executes more than it has threads.                              *)
ThreadsSuffice ==
    /\ looking \in [Pool -> Nat]
    /\ \A p \in Pool : IsFiniteSet(busy[p]) /\ Cardinality(busy[p]) + looking[p] <= Threads(p)
    /\ IsFiniteSet(mainTask) /\ Cardinality(mainTask) <= 1

(* A connection is in the pool or used by a task that is being executed.   *)
HandlesCounted ==
    /\ handles \in Nat
    /\ IsFiniteSet(holding) /\ holding \subseteq Executing
    /\ Crawling => handles + Cardinality(holding)
                     = IF crawl = "tdp" THEN TotalHandles ELSE Workers

(* After the pages there are no more pages: topics and messages queue none.*)
PagesOver == crawl = "td" => queue["tdp"] = <<>> /\ busy["tdp"] = {}

AtRest == ~Crawling => /\ queue = [p \in Pool |-> <<>>] /\ busy = [p \in Pool |-> {}]
                       /\ looking = [p \in Pool |-> 0]
                       /\ mainTask = {} /\ holding = {} /\ handles = 0

NotFailed == /\ crawl \in {"no", "tdp", "td", "over"}
             /\ pagenum \in Nat
             /\ Crawling => group \in Groups

CrawlInv == /\ TasksInPlace
            /\ ThreadsSuffice
            /\ HandlesCounted
            /\ PagesOver
            /\ AtRest
            /\ NotFailed

(* A program without a crawl.                                              *)
LEMMA EmptyIsRight ==
    ASSUME crawl' \in {"no", "over"}, pagenum' \in Nat,
           queue' = [p \in Pool |-> <<>>], busy' = [p \in Pool |-> {}],
           looking' = [p \in Pool |-> 0], mainTask' = {}, holding' = {}, handles' = 0
    PROVE  CrawlInv'
<1>1. TasksInPlace'
  BY DEF TasksInPlace, Crawling, Pool
<1>2. ThreadsSuffice'
  BY FS_EmptySet, GroupsAssumption DEF ThreadsSuffice, Threads, Pool
<1>3. HandlesCounted'
  BY FS_EmptySet DEF HandlesCounted, Crawling, Pool
<1> QED
  BY <1>1, <1>2, <1>3 DEF CrawlInv, PagesOver, AtRest, NotFailed, Crawling, Pool

LEMMA CrawlInvInit == CrawlInit => CrawlInv /\ spurious \in Nat
<1> SUFFICES ASSUME CrawlInit PROVE CrawlInv /\ spurious \in Nat
  OBVIOUS
<1>1. TasksInPlace
  BY DEF CrawlInit, TasksInPlace, Crawling, Pool
<1>2. ThreadsSuffice
  BY FS_EmptySet, GroupsAssumption DEF CrawlInit, ThreadsSuffice, Threads, Pool
<1>3. HandlesCounted
  BY FS_EmptySet DEF CrawlInit, HandlesCounted, Executing, Crawling, Pool
<1> QED
  BY <1>1, <1>2, <1>3 DEF CrawlInv, CrawlInit, PagesOver, AtRest, NotFailed, Crawling, Pool

LEMMA UnionBound ==
    ASSUME NEW S, NEW T, IsFiniteSet(S), IsFiniteSet(T)
    PROVE  /\ IsFiniteSet(S \cup T)
           /\ Cardinality(S \cup T) \in Nat
           /\ Cardinality(S \cup T) <= Cardinality(S) + Cardinality(T)
<1>1. /\ IsFiniteSet(S \cup T)
      /\ Cardinality(S \cup T) = Cardinality(S) + Cardinality(T) - Cardinality(S \cap T)
  BY FS_Union
<1>2. IsFiniteSet(S \cap T)
  BY FS_Intersection
<1>3. /\ Cardinality(S) \in Nat /\ Cardinality(T) \in Nat /\ Cardinality(S \cap T) \in Nat
      /\ Cardinality(S \cup T) \in Nat
  BY <1>1, <1>2, FS_CardinalityType
<1> QED
  BY <1>1, <1>3

(* A pool of two kinds of tasks: what is executed is at most a task for    *)
(* each thread of the pools still in use.                                  *)
LEMMA ExecutingBounded ==
    ASSUME CrawlInv, Crawling
    PROVE  /\ IsFiniteSet(Executing)
           /\ Cardinality(Executing) <= IF crawl = "tdp" THEN TotalHandles - 1 ELSE Workers
<1>1. /\ IsFiniteSet(busy["td"]) /\ IsFiniteSet(busy["tdp"]) /\ IsFiniteSet(mainTask)
      /\ Cardinality(busy["td"]) + looking["td"] <= Workers - 1
      /\ Cardinality(busy["tdp"]) + looking["tdp"] <= PageWorkers - 1
      /\ looking["td"] \in Nat /\ looking["tdp"] \in Nat
      /\ Cardinality(mainTask) <= 1
  BY DEF CrawlInv, ThreadsSuffice, Threads, Pool
<1>2. /\ Cardinality(busy["td"]) \in Nat /\ Cardinality(busy["tdp"]) \in Nat
      /\ Cardinality(mainTask) \in Nat
  BY <1>1, FS_CardinalityType
<1>3. /\ IsFiniteSet(busy["td"] \cup busy["tdp"])
      /\ Cardinality(busy["td"] \cup busy["tdp"]) \in Nat
      /\ Cardinality(busy["td"] \cup busy["tdp"])
            <= Cardinality(busy["td"]) + Cardinality(busy["tdp"])
  BY <1>1, UnionBound
<1>4. /\ IsFiniteSet(Executing) /\ Cardinality(Executing) \in Nat
      /\ Cardinality(Executing) <= Cardinality(busy["td"] \cup busy["tdp"]) + Cardinality(mainTask)
  BY <1>1, <1>3, UnionBound DEF Executing
<1>5. crawl = "td" => Cardinality(busy["tdp"]) = 0
  BY FS_EmptySet DEF CrawlInv, PagesOver
<1>6. Workers \in Nat /\ PageWorkers \in Nat /\ crawl \in {"td", "tdp"}
  BY GroupsAssumption DEF Crawling, Pool
<1> QED
  BY <1>1, <1>2, <1>3, <1>4, <1>5, <1>6 DEF TotalHandles

(* So there is a connection for every task that asks for one, and enough   *)
(* are back to be closed when the pages have been read.                    *)
LEMMA HandleThere ==
    ASSUME CrawlInv, Crawling, Executing \ holding # {}
    PROVE  handles > 0
<1>1. PICK task \in Executing : task \notin holding
  OBVIOUS
<1>2. holding \in SUBSET (Executing \ {task})
  BY <1>1 DEF CrawlInv, HandlesCounted
<1>3. /\ IsFiniteSet(Executing \ {task})
      /\ Cardinality(Executing \ {task}) = Cardinality(Executing) - 1
  BY <1>1, ExecutingBounded, FS_RemoveElement
<1>4. Cardinality(holding) <= Cardinality(Executing) - 1
  BY <1>2, <1>3, FS_Subset
<1>5. Cardinality(holding) \in Nat /\ Cardinality(Executing) \in Nat
  BY ExecutingBounded, FS_CardinalityType DEF CrawlInv, HandlesCounted
<1>6. Workers \in Nat /\ PageWorkers \in Nat
  BY GroupsAssumption
<1> QED
  BY <1>4, <1>5, <1>6, ExecutingBounded DEF CrawlInv, HandlesCounted, TotalHandles

LEMMA HandlesToClose ==
    ASSUME CrawlInv, crawl = "tdp", busy["tdp"] = {}, mainTask = {}
    PROVE  handles >= PageWorkers
<1>1. holding \in SUBSET busy["td"]
  BY DEF CrawlInv, HandlesCounted, Executing
<1>2. /\ IsFiniteSet(busy["td"]) /\ looking["td"] \in Nat
      /\ Cardinality(busy["td"]) + looking["td"] <= Workers - 1
  BY DEF CrawlInv, ThreadsSuffice, Threads, Pool
<1>3. Cardinality(holding) <= Cardinality(busy["td"])
  BY <1>1, <1>2, FS_Subset
<1>4. Cardinality(holding) \in Nat /\ Cardinality(busy["td"]) \in Nat
  BY <1>2, FS_CardinalityType DEF CrawlInv, HandlesCounted
<1>5. Workers \in Nat /\ PageWorkers \in Nat
  BY GroupsAssumption
<1> QED
  BY <1>2, <1>3, <1>4, <1>5 DEF CrawlInv, HandlesCounted, Crawling, Pool, TotalHandles
-----------------------------------------------------------------------------
(* The steps of a crawl, one lemma for each kind.                          *)
LEMMA ExitKeeps ==
    ASSUME CrawlInv, Exit("over") PROVE CrawlInv'
  BY EmptyIsRight DEF Exit, CrawlInv, NotFailed

LEMMA StartKeeps ==
    ASSUME CrawlInv, NEW g \in Groups, StartCrawl(g) PROVE CrawlInv'
<1>1. /\ crawl = "no" /\ crawl' = "tdp" /\ group' = g
      /\ queue' = [queue EXCEPT !["tdp"] = <<Page(0)>>] /\ handles' = TotalHandles
      /\ UNCHANGED <<busy, looking, mainTask, holding, pagenum>>
  BY DEF StartCrawl
<1>2. mainTask = {} /\ holding = {}
  BY <1>1 DEF CrawlInv, AtRest, Crawling, Pool
<1>3. Page(0) \in TaskOf("tdp") /\ <<Page(0)>> \in Seq(TaskOf("tdp"))
                                /\ <<Page(0)>> \in Seq(TaskOf("td") \cup TaskOf("tdp"))
  BY DEF Page, TaskOf
<1>4. TasksInPlace'
  <2>1. queue' \in [Pool -> Seq(TaskOf("td") \cup TaskOf("tdp"))]
    BY <1>1, <1>3 DEF CrawlInv, TasksInPlace
  <2>2. \A p \in Pool : queue'[p] \in Seq(TaskOf(p))
    BY <1>1, <1>3 DEF CrawlInv, TasksInPlace, Pool
  <2> QED
    BY <1>1, <1>2, <2>1, <2>2 DEF CrawlInv, TasksInPlace
<1>5. ThreadsSuffice'
  BY <1>1 DEF CrawlInv, ThreadsSuffice, Threads
<1>6. HandlesCounted'
  BY <1>1, <1>2, FS_EmptySet, GroupsAssumption DEF HandlesCounted, TotalHandles, Executing
<1> QED
  BY <1>1, <1>4, <1>5, <1>6 DEF CrawlInv, PagesOver, AtRest, NotFailed, Crawling, Pool

(* The head of a queue goes to a worker of its pool or to Main.            *)
LEMMA HeadInPlace ==
    ASSUME TasksInPlace, NEW p \in Pool, queue[p] # <<>>,
           queue' = [queue EXCEPT ![p] = Tail(@)]
    PROVE  /\ Head(queue[p]) \in TaskOf(p)
           /\ queue' \in [Pool -> Seq(TaskOf("td") \cup TaskOf("tdp"))]
           /\ \A q \in Pool : queue'[q] \in Seq(TaskOf(q))
<1>1. queue[p] \in Seq(TaskOf(p)) /\ queue[p] \in Seq(TaskOf("td") \cup TaskOf("tdp"))
  BY DEF TasksInPlace
<1>2. /\ Head(queue[p]) \in TaskOf(p) /\ Tail(queue[p]) \in Seq(TaskOf(p))
      /\ Tail(queue[p]) \in Seq(TaskOf("td") \cup TaskOf("tdp"))
  BY <1>1, HeadTailProperties
<1> QED
  BY <1>2 DEF TasksInPlace

LEMMA WorkerTakesKeeps ==
    ASSUME CrawlInv, NEW p \in Pool, WorkerTakes(p) PROVE CrawlInv'
<1> DEFINE task == Head(queue[p])
<1>1. /\ Crawling /\ queue[p] # <<>>
      /\ busy' = [busy EXCEPT ![p] = @ \cup {task}]
      /\ queue' = [queue EXCEPT ![p] = Tail(@)]
      /\ UNCHANGED <<group, crawl, mainTask, holding, handles, pagenum>>
  BY DEF WorkerTakes
<1>2. /\ task \in TaskOf(p)
      /\ queue' \in [Pool -> Seq(TaskOf("td") \cup TaskOf("tdp"))]
      /\ \A q \in Pool : queue'[q] \in Seq(TaskOf(q))
  BY <1>1, HeadInPlace DEF CrawlInv
<1>3. p \in {"td", "tdp"}
  BY DEF Pool
<1> HIDE DEF task
<1>4. TasksInPlace'
  BY <1>1, <1>2, <1>3 DEF CrawlInv, TasksInPlace, Crawling
<1>5. ThreadsSuffice'
  <2>1. /\ IsFiniteSet(busy[p] \cup {task})
        /\ Cardinality(busy[p] \cup {task}) <= Cardinality(busy[p]) + 1
        /\ Cardinality(busy[p]) \in Nat /\ Cardinality(busy[p] \cup {task}) \in Nat
    <3>1. IsFiniteSet(busy[p])
      BY DEF CrawlInv, ThreadsSuffice
    <3>2. /\ IsFiniteSet(busy[p] \cup {task})
          /\ Cardinality(busy[p] \cup {task})
               = IF task \in busy[p] THEN Cardinality(busy[p]) ELSE Cardinality(busy[p]) + 1
      BY <3>1, FS_AddElement
    <3> QED
      BY <3>1, <3>2, FS_CardinalityType
  <2>2. busy'[p] = busy[p] \cup {task} /\ \A q \in Pool \ {p} : busy'[q] = busy[q]
    BY <1>1 DEF CrawlInv, TasksInPlace
  <2>3. Threads(p) \in Int /\ looking[p] \in Nat
    BY GroupsAssumption DEF Threads, CrawlInv, ThreadsSuffice
  <2>4. \/ looking[p] > 0 /\ looking' = [looking EXCEPT ![p] = @ - 1]
        \/ Idle(p) > 0 /\ looking' = looking
    BY DEF WorkerTakes
  <2>5. /\ looking' \in [Pool -> Nat] /\ \A q \in Pool \ {p} : looking'[q] = looking[q]
        /\ Cardinality(busy'[p]) + looking'[p] <= Threads(p)
    BY <2>1, <2>2, <2>3, <2>4 DEF CrawlInv, ThreadsSuffice, Idle
  <2>6. \A q \in Pool : IsFiniteSet(busy'[q]) /\ Cardinality(busy'[q]) + looking'[q] <= Threads(q)
    BY <2>1, <2>2, <2>5 DEF CrawlInv, ThreadsSuffice
  <2> QED
    BY <1>1, <2>5, <2>6 DEF CrawlInv, ThreadsSuffice, Threads
<1>6. HandlesCounted'
  <2>1. Executing \subseteq Executing'
    BY <1>1, <1>3 DEF Executing, CrawlInv, TasksInPlace, Pool
  <2> QED
    BY <1>1, <2>1 DEF CrawlInv, HandlesCounted, Crawling
<1>7. PagesOver'
  BY <1>1, <1>3 DEF CrawlInv, PagesOver, TasksInPlace, Pool
<1> QED
  BY <1>1, <1>4, <1>5, <1>6, <1>7 DEF CrawlInv, AtRest, NotFailed, Crawling

LEMMA WorkerSleepsKeeps ==
    ASSUME CrawlInv, NEW p \in Pool, WorkerSleeps(p) PROVE CrawlInv'
<1>1. /\ looking[p] > 0 /\ looking' = [looking EXCEPT ![p] = @ - 1]
      /\ UNCHANGED <<group, crawl, queue, busy, mainTask, holding, handles, pagenum>>
  BY DEF WorkerSleeps
<1>2. looking \in [Pool -> Nat] /\ looking' \in [Pool -> Nat]
  BY <1>1 DEF CrawlInv, ThreadsSuffice
<1>3. \A q \in Pool : looking'[q] <= looking[q]
  BY <1>1, <1>2
<1>4. ThreadsSuffice'
  <2>1. \A q \in Pool : Cardinality(busy[q]) \in Nat /\ Threads(q) \in Int
    BY FS_CardinalityType, GroupsAssumption DEF CrawlInv, ThreadsSuffice, Threads
  <2>2. \A q \in Pool : Cardinality(busy[q]) + looking'[q] <= Threads(q)
    BY <1>2, <1>3, <2>1 DEF CrawlInv, ThreadsSuffice
  <2> QED
    BY <1>1, <1>2, <2>2 DEF CrawlInv, ThreadsSuffice, Threads
<1>5. Crawling
  BY <1>1 DEF CrawlInv, AtRest
<1> QED
  BY <1>1, <1>4, <1>5 DEF CrawlInv, TasksInPlace, HandlesCounted, Executing, PagesOver, AtRest,
     NotFailed, Crawling

LEMMA MainTakesKeeps ==
    ASSUME CrawlInv, MainTakes PROVE CrawlInv'
<1> DEFINE task == Head(queue[crawl])
<1>1. /\ Crawling /\ mainTask = {} /\ queue[crawl] # <<>> /\ mainTask' = {task}
      /\ queue' = [queue EXCEPT ![crawl] = Tail(@)]
      /\ UNCHANGED <<group, crawl, busy, looking, holding, handles, pagenum>>
  BY DEF MainTakes
<1>2. /\ task \in TaskOf(crawl)
      /\ queue' \in [Pool -> Seq(TaskOf("td") \cup TaskOf("tdp"))]
      /\ \A q \in Pool : queue'[q] \in Seq(TaskOf(q))
  BY <1>1, HeadInPlace DEF CrawlInv, Crawling
<1> HIDE DEF task
<1>3. TasksInPlace'
  BY <1>1, <1>2 DEF CrawlInv, TasksInPlace, Crawling
<1>4. ThreadsSuffice'
  <2>1. IsFiniteSet({task}) /\ Cardinality({task}) = 1
    BY FS_Singleton
  <2>2. IsFiniteSet(mainTask') /\ Cardinality(mainTask') <= 1
    BY <1>1, <2>1
  <2> QED
    BY <1>1, <2>2 DEF CrawlInv, ThreadsSuffice, Threads
<1>5. HandlesCounted'
  BY <1>1 DEF CrawlInv, HandlesCounted, Executing, Crawling
<1>6. PagesOver'
  BY <1>1 DEF CrawlInv, PagesOver, TasksInPlace, Pool
<1> QED
  BY <1>1, <1>3, <1>4, <1>5, <1>6 DEF CrawlInv, AtRest, NotFailed, Crawling

LEMMA TakeHandleKeeps ==
    ASSUME CrawlInv, NEW task, TakeHandle(task) PROVE CrawlInv'
<1>1. /\ Crawling /\ task \in Executing \ holding /\ handles > 0
      /\ handles' = handles - 1 /\ holding' = holding \cup {task}
      /\ UNCHANGED <<group, crawl, queue, busy, looking, mainTask, pagenum>>
  BY DEF TakeHandle
<1>2. /\ IsFiniteSet(holding') /\ Cardinality(holding') = Cardinality(holding) + 1
      /\ Cardinality(holding) \in Nat
  BY <1>1, FS_AddElement, FS_CardinalityType DEF CrawlInv, HandlesCounted
<1>3. Workers \in Nat /\ PageWorkers \in Nat
  BY GroupsAssumption
<1>4. HandlesCounted'
  BY <1>1, <1>2, <1>3 DEF CrawlInv, HandlesCounted, Executing, Crawling, TotalHandles
<1> QED
  BY <1>1, <1>4 DEF CrawlInv, TasksInPlace, ThreadsSuffice, Threads, PagesOver, AtRest, NotFailed,
     Crawling

(* A request has ended, and what its task found is queued.                 *)
LEMMA EndTaskKeeps ==
    ASSUME CrawlInv, NEW task, NEW more, EndTask(task, more), pagenum' \in Nat,
           more["td"] \in Seq(TaskOf("td")), more["tdp"] \in Seq(TaskOf("tdp")),
           task[1] # "page" => more["tdp"] = <<>>
    PROVE  CrawlInv'
<1> DEFINE p == IF task[1] = "page" THEN "tdp" ELSE "td"
<1>1. /\ task \in holding /\ holding' = holding \ {task} /\ handles' = handles + 1
      /\ queue' = [q \in Pool |-> queue[q] \o more[q]]
      /\ busy' = [busy EXCEPT ![p] = busy[p] \ {task}]
      /\ looking' = [looking EXCEPT ![p] = IF task \in busy[p] THEN @ + 1 ELSE @]
      /\ mainTask' = mainTask \ {task}
      /\ UNCHANGED <<group, crawl>>
  BY DEF EndTask
<1>2. p \in Pool
  BY DEF Pool
<1>3. Crawling
  BY <1>1 DEF CrawlInv, AtRest
<1>4. crawl = "td" => task[1] # "page"
  <2>1. task \in busy["td"] \cup busy["tdp"] \cup mainTask
    BY <1>1 DEF CrawlInv, HandlesCounted, Executing
  <2>2. crawl = "td" => task \in TaskOf("td")
    BY <1>3, <2>1 DEF CrawlInv, TasksInPlace, PagesOver, Pool
  <2> QED
    BY <2>2 DEF TaskOf
<1> HIDE DEF p
<1>5. /\ \A q \in Pool : queue'[q] \in Seq(TaskOf(q))
      /\ \A q \in Pool : queue'[q] \in Seq(TaskOf("td") \cup TaskOf("tdp"))
  <2>1. \A q \in Pool : more[q] \in Seq(TaskOf(q))
    BY DEF Pool
  <2>2. \A q \in Pool : queue'[q] = queue[q] \o more[q]
    BY <1>1
  <2>3. \A q \in Pool : queue'[q] \in Seq(TaskOf(q))
    <3> SUFFICES ASSUME NEW q \in Pool PROVE queue[q] \o more[q] \in Seq(TaskOf(q))
      BY <2>2
    <3>1. queue[q] \in Seq(TaskOf(q)) /\ more[q] \in Seq(TaskOf(q))
      BY <2>1 DEF CrawlInv, TasksInPlace
    <3> QED
      BY ONLY <3>1, ConcatProperties
  <2>4. \A q \in Pool : Seq(TaskOf(q)) \subseteq Seq(TaskOf("td") \cup TaskOf("tdp"))
    BY DEF Pool
  <2> QED
    BY <2>3, <2>4
<1>6. TasksInPlace'
  BY <1>1, <1>2, <1>5 DEF CrawlInv, TasksInPlace, Crawling
<1>7. ThreadsSuffice'
  <2>1. /\ IsFiniteSet(busy[p]) /\ looking[p] \in Nat
        /\ Cardinality(busy[p]) + looking[p] <= Threads(p)
    BY <1>2 DEF CrawlInv, ThreadsSuffice
  <2>2. /\ IsFiniteSet(busy[p] \ {task})
        /\ Cardinality(busy[p] \ {task})
             = IF task \in busy[p] THEN Cardinality(busy[p]) - 1 ELSE Cardinality(busy[p])
    BY <2>1, FS_RemoveElement
  <2>3. Cardinality(busy[p]) \in Nat /\ Threads(p) \in Int
    BY <2>1, FS_CardinalityType, GroupsAssumption DEF Threads
  <2>4. /\ busy'[p] = busy[p] \ {task} /\ \A q \in Pool \ {p} : busy'[q] = busy[q]
        /\ looking'[p] = IF task \in busy[p] THEN looking[p] + 1 ELSE looking[p]
        /\ looking' \in [Pool -> Nat] /\ \A q \in Pool \ {p} : looking'[q] = looking[q]
    BY <1>1, <1>2 DEF CrawlInv, TasksInPlace, ThreadsSuffice
  <2>5. Cardinality(busy'[p]) + looking'[p] <= Threads(p)
    BY <2>1, <2>2, <2>3, <2>4
  <2>6. \A q \in Pool : IsFiniteSet(busy'[q]) /\ Cardinality(busy'[q]) + looking'[q] <= Threads(q)
    BY <2>2, <2>4, <2>5 DEF CrawlInv, ThreadsSuffice
  <2>7. IsFiniteSet(mainTask') /\ Cardinality(mainTask') <= 1
    <3>1. IsFiniteSet(mainTask) /\ mainTask' \in SUBSET mainTask /\ Cardinality(mainTask) <= 1
      BY <1>1 DEF CrawlInv, ThreadsSuffice
    <3>2. IsFiniteSet(mainTask') /\ Cardinality(mainTask') <= Cardinality(mainTask)
      BY <3>1, FS_Subset
    <3>3. Cardinality(mainTask) \in Nat /\ Cardinality(mainTask') \in Nat
      BY <3>1, <3>2, FS_CardinalityType
    <3> QED
      BY <3>1, <3>2, <3>3
  <2> QED
    BY <2>4, <2>6, <2>7 DEF ThreadsSuffice, Threads
<1>8. HandlesCounted'
  <2>1. /\ IsFiniteSet(holding') /\ Cardinality(holding') = Cardinality(holding) - 1
        /\ Cardinality(holding) \in Nat
    BY <1>1, FS_RemoveElement, FS_CardinalityType DEF CrawlInv, HandlesCounted
  <2>2. holding' \subseteq Executing'
    <3>1. busy["td"] \ {task} \subseteq busy'["td"] /\ busy["tdp"] \ {task} \subseteq busy'["tdp"]
      BY <1>1, <1>2 DEF CrawlInv, TasksInPlace, Pool
    <3> QED
      BY <1>1, <3>1 DEF CrawlInv, HandlesCounted, Executing
  <2>3. Workers \in Nat /\ PageWorkers \in Nat
    BY GroupsAssumption
  <2> QED
    BY <1>1, <1>3, <2>1, <2>2, <2>3 DEF CrawlInv, HandlesCounted, Crawling, TotalHandles
<1>9. PagesOver'
  BY <1>1, <1>2, <1>4 DEF CrawlInv, PagesOver, TasksInPlace, Pool
<1> QED
  BY <1>1, <1>3, <1>6, <1>7, <1>8, <1>9 DEF CrawlInv, AtRest, NotFailed, Crawling

(* A page that has to be asked for again keeps its thread.                 *)
LEMMA PageFailsKeeps ==
    ASSUME CrawlInv, NEW n, PageFails(n) PROVE CrawlInv'
<1>1. /\ Page(n) \in holding /\ holding' = holding \ {Page(n)} /\ handles' = handles + 1
      /\ UNCHANGED <<group, crawl, queue, busy, looking, mainTask, pagenum>>
  BY DEF PageFails
<1>2. /\ IsFiniteSet(holding') /\ Cardinality(holding') = Cardinality(holding) - 1
      /\ Cardinality(holding) \in Nat
  BY <1>1, FS_RemoveElement, FS_CardinalityType DEF CrawlInv, HandlesCounted
<1>3. Workers \in Nat /\ PageWorkers \in Nat
  BY GroupsAssumption
<1>4. HandlesCounted'
  BY <1>1, <1>2, <1>3 DEF CrawlInv, HandlesCounted, Executing, Crawling, TotalHandles
<1>5. Crawling
  BY <1>1 DEF CrawlInv, AtRest
<1> QED
  BY <1>1, <1>4, <1>5 DEF CrawlInv, TasksInPlace, ThreadsSuffice, Threads, PagesOver, AtRest,
     NotFailed, Crawling

LEMMA SyncKeeps ==
    ASSUME CrawlInv, SyncReturns PROVE CrawlInv'
<1>1. /\ crawl \in {"td", "tdp"} /\ mainTask = {} /\ queue[crawl] = <<>> /\ busy[crawl] = {}
      /\ AfterSync
  BY DEF SyncReturns, Crawling, Pool
<1>2. CASE crawl = "td"
  BY <1>1, <1>2, ExitKeeps DEF AfterSync
<1>3. CASE crawl = "tdp"
  <2>1. handles >= PageWorkers
    BY <1>1, <1>3, HandlesToClose
  <2>2. handles \in Nat /\ PageWorkers \in Nat
    BY GroupsAssumption DEF CrawlInv, HandlesCounted
  <2>3. /\ crawl' = "td" /\ handles' = handles - PageWorkers
        /\ UNCHANGED <<group, queue, busy, looking, mainTask, holding, pagenum>>
    BY <1>1, <1>3, <2>1, <2>2 DEF AfterSync
  <2>4. HandlesCounted'
    <3>1. Cardinality(holding) \in Nat /\ Workers \in Nat
      BY FS_CardinalityType, GroupsAssumption DEF CrawlInv, HandlesCounted
    <3> QED
      BY <1>3, <2>1, <2>2, <2>3, <3>1
      DEF CrawlInv, HandlesCounted, Executing, Crawling, Pool, TotalHandles
  <2>5. TasksInPlace' /\ ThreadsSuffice' /\ PagesOver'
    BY <1>1, <1>3, <2>3 DEF CrawlInv, TasksInPlace, ThreadsSuffice, Threads, PagesOver, Crawling, Pool
  <2> QED
    BY <1>3, <2>3, <2>4, <2>5 DEF CrawlInv, AtRest, NotFailed, Crawling, Pool
<1> QED
  BY <1>1, <1>2, <1>3

LEMMA PageReadKeeps ==
    ASSUME CrawlInv, NEW n \in 0..Len(group), PageRead(n) PROVE CrawlInv'
<1> DEFINE next == {k \in {pagenum + 1, pagenum + 2} : k <= numpages'}
           td   == [i \in 1..Cardinality(TopicsOf(n)) |-> Topic(n * PageSize + i)]
           tdp  == [i \in 1..Cardinality(next) |-> Page(pagenum + i)]
           more == [td |-> td, tdp |-> tdp]
<1>1. /\ EndTask(Page(n), more)
      /\ pagenum' = IF pagenum + 1 > numpages' THEN pagenum + 1 ELSE pagenum + 2
  BY DEF PageRead
<1>2. group \in Seq(Seq(MessagesOf(group)))
  BY <1>1, GroupsAssumption DEF EndTask, CrawlInv, AtRest, NotFailed
<1>3. Len(group) \in Nat /\ n \in Nat /\ PageSize \in Nat /\ n * PageSize \in Nat
  <2>1. Len(group) \in Nat /\ n \in Nat /\ PageSize \in Nat
    BY <1>2, GroupsAssumption
  <2> QED
    BY <2>1
<1>4. Cardinality(TopicsOf(n)) \in Nat
  <2>1. IsFiniteSet(1..Len(group))
    BY <1>3, FS_Interval
  <2>2. TopicsOf(n) \in SUBSET (1..Len(group))
    BY <1>2 DEF TopicsOf
  <2> QED
    BY <2>1, <2>2, FS_Subset, FS_CardinalityType
<1>5. Cardinality(next) \in Nat
  <2>1. IsFiniteSet({} \cup {pagenum + 1}) /\ IsFiniteSet(({} \cup {pagenum + 1}) \cup {pagenum + 2})
    BY FS_EmptySet, FS_AddElement
  <2>2. next \in SUBSET (({} \cup {pagenum + 1}) \cup {pagenum + 2})
    OBVIOUS
  <2> QED
    BY <2>1, <2>2, FS_Subset, FS_CardinalityType
<1>6. pagenum \in Nat /\ pagenum' \in Nat
  BY <1>1 DEF CrawlInv, NotFailed
<1>7. td \in Seq(TaskOf("td"))
  <2>1. \A i \in 1..Cardinality(TopicsOf(n)) : Topic(n * PageSize + i) \in TaskOf("td")
    BY <1>3, <1>4 DEF Topic, TaskOf
  <2> QED
    BY <1>4, <2>1
<1> HIDE DEF next
<1>8. tdp \in Seq(TaskOf("tdp"))
  <2>1. \A i \in 1..Cardinality(next) : Page(pagenum + i) \in TaskOf("tdp")
    BY <1>5, <1>6 DEF Page, TaskOf
  <2> QED
    BY <1>5, <2>1
<1>9. more["td"] = td /\ more["tdp"] = tdp /\ Page(n)[1] = "page"
  BY DEF Page
<1> HIDE DEF td, tdp, more
<1> QED
  BY <1>1, <1>6, <1>7, <1>8, <1>9, EndTaskKeeps

LEMMA NoMoreKeeps ==
    ASSUME CrawlInv, NEW task, EndTask(task, NoMore), UNCHANGED pagenum PROVE CrawlInv'
<1>1. NoMore["td"] = <<>> /\ NoMore["tdp"] = <<>>
  BY DEF NoMore, Pool
<1>2. pagenum' \in Nat
  BY DEF CrawlInv, NotFailed
<1>3. NoMore["td"] \in Seq(TaskOf("td")) /\ NoMore["tdp"] \in Seq(TaskOf("tdp"))
  BY <1>1
<1> QED
  BY <1>1, <1>2, <1>3, EndTaskKeeps

LEMMA TopicReadKeeps ==
    ASSUME CrawlInv, NEW t \in DOMAIN group, TopicRead(t) PROVE CrawlInv'
<1>1. PICK list \in {group[t], <<>>} : TopicLists(t, list)
  BY DEF TopicRead
<1> DEFINE td   == [i \in DOMAIN list |-> Message(list[i])]
           more == [td |-> td, tdp |-> <<>>]
<1>2. EndTask(Topic(t), more) /\ pagenum' = pagenum
  BY <1>1 DEF TopicLists
<1>3. group \in Groups
  BY <1>2 DEF EndTask, CrawlInv, AtRest, NotFailed
<1>4. list \in Seq(MessagesOf(group))
  <2>1. group[t] \in Seq(MessagesOf(group))
    BY <1>3, GroupsAssumption
  <2>2. CASE list = group[t]
    BY <2>1, <2>2
  <2>3. CASE list = <<>>
    BY <2>3
  <2> QED
    BY <1>1, <2>2, <2>3
<1>5. td \in Seq(TaskOf("td"))
  <2>1. /\ Len(list) \in Nat /\ DOMAIN list = 1..Len(list)
        /\ \A i \in 1..Len(list) : list[i] \in MessagesOf(group)
    BY <1>4
  <2>2. \A i \in 1..Len(list) : Message(list[i]) \in TaskOf("td")
    BY <1>3, <2>1 DEF Message, TaskOf
  <2> QED
    BY <2>1, <2>2
<1>6. more["td"] = td /\ more["tdp"] = <<>> /\ <<>> \in Seq(TaskOf("tdp"))
  OBVIOUS
<1>7. pagenum' \in Nat
  BY <1>2 DEF CrawlInv, NotFailed
<1> HIDE DEF td, more
<1> QED
  BY <1>2, <1>5, <1>6, <1>7, EndTaskKeeps

LEMMA CrawlInvStep ==
    ASSUME CrawlInv, [CrawlNext]_crawlVars, ~SyncReturnsSpuriously PROVE CrawlInv'
<1>1. ASSUME NEW g \in Groups, StartCrawl(g) PROVE CrawlInv'
  BY <1>1, StartKeeps
<1>2. ASSUME NEW p \in Pool, WorkerTakes(p) \/ WorkerSleeps(p) PROVE CrawlInv'
  BY <1>2, WorkerTakesKeeps, WorkerSleepsKeeps
<1>3. CASE MainTakes
  BY <1>3, MainTakesKeeps
<1>4. CASE MainWaits
  BY <1>4 DEF MainWaits, CrawlInv, TasksInPlace, ThreadsSuffice, Threads, HandlesCounted, Executing,
     PagesOver, AtRest, NotFailed, Crawling
<1>5. CASE SyncReturns
  BY <1>5, SyncKeeps
<1>6. ASSUME NEW task \in CrawlTask, TakeHandle(task) PROVE CrawlInv'
  BY <1>6, TakeHandleKeeps
<1>7. CASE NoHandleLeft
  <2>1. Crawling /\ Executing \ holding # {} /\ handles = 0
    BY <1>7 DEF NoHandleLeft
  <2> QED
    BY <2>1, HandleThere
<1>8. ASSUME NEW n \in 0..Len(group), PageRead(n) \/ PageFails(n) PROVE CrawlInv'
  BY <1>8, PageReadKeeps, PageFailsKeeps
<1>9. ASSUME NEW t \in DOMAIN group, TopicFails(t) \/ TopicRead(t) PROVE CrawlInv'
  BY <1>9, NoMoreKeeps, TopicReadKeeps DEF TopicFails
<1>10. ASSUME NEW m \in AllMessages, MessageFails(m) \/ MessageRead(m) PROVE CrawlInv'
  BY <1>10, NoMoreKeeps DEF MessageFails, MessageRead
<1>11. CASE FirstPageUnreadable
  BY <1>11, ExitKeeps DEF FirstPageUnreadable
<1>12. CASE UNCHANGED crawlVars
  BY <1>12 DEF crawlVars, CrawlInv, TasksInPlace, ThreadsSuffice, Threads, HandlesCounted, Executing,
     PagesOver, AtRest, NotFailed, Crawling
<1> QED
  BY <1>1, <1>2, <1>3, <1>4, <1>5, <1>6, <1>7, <1>8, <1>9, <1>10, <1>11, <1>12
  DEF CrawlNext, CrawlStep

(* Nothing is left of a crawl that has ended, however it ended.            *)
LEMMA RestStep ==
    ASSUME AtRest, [CrawlNext]_crawlVars PROVE AtRest'
<1>1. ASSUME NEW how, Exit(how) PROVE AtRest'
  BY <1>1 DEF Exit, AtRest
<1>2. ASSUME NEW g \in Groups, StartCrawl(g) PROVE AtRest'
  BY <1>2 DEF StartCrawl, AtRest, Crawling, Pool
<1>3. CASE Crawling /\ UNCHANGED crawl
  BY <1>3 DEF AtRest, Crawling
<1>4. ASSUME NEW p \in Pool, WorkerTakes(p) \/ WorkerSleeps(p) PROVE Crawling /\ UNCHANGED crawl
  BY <1>4 DEF WorkerTakes, WorkerSleeps, AtRest
<1>5. MainTakes \/ MainWaits => Crawling /\ UNCHANGED crawl
  BY DEF MainTakes, MainWaits
<1>6. ASSUME AfterSync PROVE AtRest'
  BY <1>1, <1>6 DEF AfterSync, AtRest, Crawling, Pool
<1>7. ASSUME NEW task, TakeHandle(task) PROVE Crawling /\ UNCHANGED crawl
  BY <1>7 DEF TakeHandle
<1>8. ASSUME NEW task, NEW more, EndTask(task, more) PROVE Crawling /\ UNCHANGED crawl
  BY <1>8 DEF EndTask, AtRest
<1>9. ASSUME NEW n, PageFails(n) PROVE Crawling /\ UNCHANGED crawl
  BY <1>9 DEF PageFails, AtRest
<1>10. ASSUME NEW n, PageRead(n) PROVE Crawling /\ UNCHANGED crawl
  BY <1>8, <1>10 DEF PageRead
<1>11. CASE UNCHANGED crawlVars
  BY <1>11 DEF crawlVars, AtRest, Crawling
<1>12. ASSUME CrawlStep PROVE AtRest'
  BY <1>1, <1>3, <1>4, <1>5, <1>6, <1>7, <1>8, <1>10, <1>12
  DEF CrawlStep, SyncReturns, NoHandleLeft, TopicFails, TopicRead, TopicLists, MessageFails, MessageRead
<1> QED
  BY <1>1, <1>2, <1>3, <1>6, <1>9, <1>11, <1>12
  DEF CrawlNext, SyncReturnsSpuriously, FirstPageUnreadable

CrawlIInv == spurious \in Nat /\ AtRest /\ (spurious = 0 => CrawlInv)

LEMMA CrawlIInvNext == CrawlIInv /\ [Next]_vars => CrawlIInv'
<1> SUFFICES ASSUME CrawlIInv, [Next]_vars PROVE CrawlIInv'
  OBVIOUS
<1>1. CASE ImportFiles
  <2>1. /\ ~Crawling /\ crawl' = "no" /\ pagenum' = 0 /\ spurious' = 0
        /\ UNCHANGED <<queue, busy, looking, mainTask, holding, handles>>
    BY <1>1 DEF ImportFiles, Running
  <2>2. CrawlInv'
    BY <2>1, EmptyIsRight DEF CrawlIInv, AtRest
  <2> QED
    BY <2>1, <2>2 DEF CrawlIInv, CrawlInv
<1>2. CASE [CrawlNext]_crawlVars
  <2>1. AtRest'
    BY <1>2, RestStep DEF CrawlIInv
  <2>2. CASE SyncReturnsSpuriously
    BY <2>1, <2>2 DEF CrawlIInv, SyncReturnsSpuriously
  <2>3. CASE ~SyncReturnsSpuriously
    <3>1. spurious' = spurious
      BY <1>2, <2>3 DEF CrawlNext, CrawlStep, StartCrawl, WorkerTakes, WorkerSleeps, MainTakes,
         MainWaits, SyncReturns, TakeHandle, NoHandleLeft, PageRead, PageFails, TopicFails, TopicRead,
         TopicLists, MessageFails, MessageRead, EndTask, FirstPageUnreadable, crawlVars
    <3> QED
      BY <1>2, <2>1, <2>3, <3>1, CrawlInvStep DEF CrawlIInv
  <2> QED
    BY <2>2, <2>3
<1> QED
  BY <1>1, <1>2 DEF Next, vars

(* Every request of a crawl finds a connection, and when the pages have    *)
(* been read as many are back as Main closes: the assertion of Fetch holds *)
(* for any sizes of the two pools, any group and any failures.             *)
THEOREM HandlesSufficeAlways == Spec => []HandlesSuffice
<1>1. Init => CrawlIInv
  BY CrawlInvInit DEF Init, CrawlIInv, CrawlInv
<1>2. CrawlIInv => HandlesSuffice
  BY DEF CrawlIInv, CrawlInv, NotFailed, HandlesSuffice
<1> QED
  BY <1>1, <1>2, CrawlIInvNext, PTL DEF Spec
-----------------------------------------------------------------------------
(* What a crawl has counted.                                               *)
Out == Range(queue["td"]) \cup Range(queue["tdp"]) \cup Executing

PagesOut    == {n \in Nat : Page(n) \in Out}
TopicsOut   == {t \in Nat : Topic(t) \in Out}
MessagesOut == {m \in AllMessages : Message(m) \in Out}

PagesAsked   == {n \in 0..pagenum : numpages # NoPages => n <= numpages}
TopicsListed == {t \in DOMAIN group : (t - 1) \div PageSize \in PagesAsked \ PagesOut}
Listed(R)    == UNION {Range(group[t]) : t \in R}

(* A task is in one queue once, or executed.                               *)
NothingTwice ==
    /\ IsInjective(queue["td"]) /\ IsInjective(queue["tdp"])
    /\ (Range(queue["td"]) \cup Range(queue["tdp"])) \cap Executing = {}

(* There is a page under way as long as not all have been asked for.       *)
PagesRight ==
    /\ numpages \in {NoPages, NumPages(Len(group))}
    /\ PagesOut \subseteq PagesAsked
    /\ numpages = NoPages => pagenum = 0
    /\ numpages = NoPages \/ pagenum < numpages => PagesOut # {}

(* The topics of the pages read are counted or under way.                  *)
TopicsRight ==
    /\ TopicsOut \subseteq TopicsListed
    /\ count.threadstotal = Cardinality(TopicsListed)
    /\ count.threads = Cardinality(TopicsListed \ TopicsOut)

(* R: the topics whose messages the answer lists.                          *)
Answered(R) == R \cup UntoldTopics
CountedGood      == saved \cup UntoldMessages

MessagesRight(R) ==
    /\ Answered(R) \subseteq TopicsListed \ TopicsOut /\ R \cap UntoldTopics = {}
    /\ IsFiniteSet(Listed(R))
    /\ count.threads = Cardinality(Answered(R)) + count.threadsbad
    /\ MessagesOut \subseteq Listed(R)
    /\ count.messagestotal = Cardinality(Listed(R))
    /\ count.messages = Cardinality(Listed(R) \ MessagesOut)
    /\ CountedGood \subseteq Listed(R) \ MessagesOut /\ saved \cap UntoldMessages = {}
    /\ count.messages = Cardinality(CountedGood) + count.messagesbad

Counts == [threads : Nat, threadsbad : Nat, threadstotal : Nat,
           messages : Nat, messagesbad : Nat, messagestotal : Nat]

Accounted == /\ count \in Counts
             /\ NothingTwice
             /\ PagesRight
             /\ TopicsRight
             /\ \E R \in SUBSET DOMAIN group : MessagesRight(R)

Fresh == numpages = NoPages /\ pagenum = 0 /\ count = NoCount /\ saved = {} /\ untold = {}

AccountInv == /\ crawl = "no" => Fresh
              /\ Crawling => Accounted
              /\ crawl = "over" => CrawlAccounted
-----------------------------------------------------------------------------
(* Sequences without repetition.                                           *)
LEMMA TailOnce ==
    ASSUME NEW S, NEW s \in Seq(S), s # <<>>, IsInjective(s)
    PROVE  /\ IsInjective(Tail(s)) /\ Head(s) \notin Range(Tail(s))
           /\ Range(s) = {Head(s)} \cup Range(Tail(s))
<1>1. /\ Len(s) \in Nat /\ Len(s) > 0 /\ DOMAIN s = 1..Len(s) /\ Head(s) = s[1]
      /\ DOMAIN Tail(s) = 1..(Len(s) - 1)
      /\ \A k \in 1..(Len(s) - 1) : Tail(s)[k] = s[k + 1]
  OBVIOUS
<1>2. \A k \in 1..(Len(s) - 1) : k + 1 \in 1..Len(s) /\ k + 1 # 1
  BY <1>1
<1>3. IsInjective(Tail(s))
  <2> SUFFICES ASSUME NEW k \in 1..(Len(s) - 1), NEW l \in 1..(Len(s) - 1), Tail(s)[k] = Tail(s)[l]
               PROVE  k = l
    BY <1>1 DEF IsInjective
  <2>1. k + 1 = l + 1
    BY <1>1, <1>2 DEF IsInjective
  <2> QED
    BY <1>1, <2>1
<1>4. Head(s) \notin Range(Tail(s))
  BY <1>1, <1>2 DEF Range, IsInjective
<1>5. \A k \in 1..Len(s) : k = 1 \/ (k - 1 \in 1..(Len(s) - 1) /\ Tail(s)[k - 1] = s[k])
  BY <1>1
<1>6. \A k \in 1..Len(s) : s[k] \in {Head(s)} \cup Range(Tail(s))
  BY <1>1, <1>5 DEF Range
<1>7. 1 \in 1..Len(s)
  BY <1>1
<1>8. Head(s) \in Range(s) /\ \A k \in 1..(Len(s) - 1) : Tail(s)[k] \in Range(s)
  BY <1>1, <1>2, <1>7 DEF Range
<1>9. Range(s) = {Head(s)} \cup Range(Tail(s))
  <2>1. Range(s) \subseteq {Head(s)} \cup Range(Tail(s))
    BY <1>1, <1>6 DEF Range
  <2>2. Range(Tail(s)) \subseteq Range(s)
    BY <1>1, <1>8 DEF Range
  <2> QED
    BY <1>8, <2>1, <2>2
<1> QED
  BY <1>3, <1>4, <1>9

LEMMA ConcatOnce ==
    ASSUME NEW S, NEW s \in Seq(S), NEW t \in Seq(S), IsInjective(s), IsInjective(t),
           Range(s) \cap Range(t) = {}
    PROVE  IsInjective(s \o t) /\ Range(s \o t) = Range(s) \cup Range(t)
<1> DEFINE r == s \o t
<1>1. /\ Len(s) \in Nat /\ Len(t) \in Nat /\ DOMAIN s = 1..Len(s) /\ DOMAIN t = 1..Len(t)
      /\ DOMAIN r = 1..(Len(s) + Len(t))
      /\ \A k \in 1..(Len(s) + Len(t)) : r[k] = IF k <= Len(s) THEN s[k] ELSE t[k - Len(s)]
  OBVIOUS
<1>2. /\ \A k \in 1..(Len(s) + Len(t)) : k <= Len(s) \/ k - Len(s) \in 1..Len(t)
      /\ \A k \in 1..(Len(s) + Len(t)) : k <= Len(s) => k \in 1..Len(s)
      /\ \A k \in 1..Len(s) : k \in 1..(Len(s) + Len(t)) /\ k <= Len(s)
      /\ \A k \in 1..Len(t) : /\ k + Len(s) \in 1..(Len(s) + Len(t)) /\ ~(k + Len(s) <= Len(s))
                              /\ (k + Len(s)) - Len(s) = k
  BY <1>1
<1> HIDE DEF r
<1>3. \A k \in 1..(Len(s) + Len(t)) : IF k <= Len(s) THEN r[k] \in Range(s) ELSE r[k] \in Range(t)
  <2> SUFFICES ASSUME NEW k \in 1..(Len(s) + Len(t))
               PROVE  IF k <= Len(s) THEN r[k] \in Range(s) ELSE r[k] \in Range(t)
    OBVIOUS
  <2>1. CASE k <= Len(s)
    <3>1. k \in DOMAIN s /\ r[k] = s[k]
      BY <1>1, <1>2, <2>1
    <3> QED
      BY <2>1, <3>1 DEF Range
  <2>2. CASE ~(k <= Len(s))
    <3>1. k - Len(s) \in DOMAIN t /\ r[k] = t[k - Len(s)]
      BY <1>1, <1>2, <2>2
    <3> QED
      BY <2>2, <3>1 DEF Range
  <2> QED
    BY <2>1, <2>2
<1>4. \A k \in 1..Len(s) : s[k] = r[k]
  BY <1>1, <1>2
<1>5. \A k \in 1..Len(t) : t[k] = r[k + Len(s)]
  BY <1>1, <1>2
<1>6. Range(r) = Range(s) \cup Range(t)
  <2>1. Range(r) \subseteq Range(s) \cup Range(t)
    BY <1>1, <1>3 DEF Range
  <2>2. Range(s) \subseteq Range(r)
    BY <1>1, <1>2, <1>4 DEF Range
  <2>3. Range(t) \subseteq Range(r)
    BY <1>1, <1>2, <1>5 DEF Range
  <2> QED
    BY <2>1, <2>2, <2>3
<1>7. ASSUME NEW k \in 1..(Len(s) + Len(t)), NEW l \in 1..(Len(s) + Len(t)), r[k] = r[l] PROVE k = l
  <2>1. CASE k <= Len(s) /\ l <= Len(s)
    BY <1>1, <1>2, <1>7, <2>1 DEF IsInjective
  <2>2. CASE ~(k <= Len(s)) /\ ~(l <= Len(s))
    <3>1. k - Len(s) = l - Len(s)
      BY <1>1, <1>2, <1>7, <2>2 DEF IsInjective
    <3> QED
      BY <1>1, <3>1
  <2>3. CASE k <= Len(s) /\ ~(l <= Len(s))
    BY <1>3, <1>7, <2>3
  <2>4. CASE ~(k <= Len(s)) /\ l <= Len(s)
    BY <1>3, <1>7, <2>4
  <2> QED
    BY <2>1, <2>2, <2>3, <2>4
<1> QED
  BY <1>1, <1>6, <1>7 DEF IsInjective, r

(* Tasks that are numbered a + 1 to a + c.                                 *)
Numbered(s, kind, a, c) == DOMAIN s = 1..c /\ \A i \in 1..c : s[i] = <<kind, a + i>>

LEMMA NumberedOnce ==
    ASSUME NEW kind, NEW a \in Nat, NEW c \in Nat, NEW s, Numbered(s, kind, a, c)
    PROVE  /\ IsInjective(s)
           /\ \A x : x \in Range(s) <=> \E t \in (a + 1)..(a + c) : x = <<kind, t>>
<1>1. IsInjective(s)
  <2> SUFFICES ASSUME NEW i \in 1..c, NEW j \in 1..c, <<kind, a + i>> = <<kind, a + j>> PROVE i = j
    BY DEF IsInjective, Numbered
  <2>1. a + i = a + j
    OBVIOUS
  <2> QED
    BY <2>1
<1>2. \A t \in (a + 1)..(a + c) : t - a \in 1..c /\ a + (t - a) = t
  OBVIOUS
<1>3. \A i \in 1..c : a + i \in (a + 1)..(a + c)
  OBVIOUS
<1>4. \A t \in (a + 1)..(a + c) : <<kind, t>> \in Range(s)
  BY <1>2 DEF Range, Numbered
<1> QED
  BY <1>1, <1>3, <1>4 DEF Range, Numbered

LEMMA TypedSeq ==
    ASSUME NEW S, NEW c \in Nat, NEW s, s = [i \in 1..c |-> s[i]], \A i \in 1..c : s[i] \in S
    PROVE  s \in Seq(S)
OBVIOUS

LEMMA Products ==
    ASSUME NEW a \in Int, NEW u \in Nat \ {0}, NEW q \in Int, q > a
    PROVE  q * u \in Int /\ a * u \in Int /\ q * u >= a * u + u
<1> DEFINE d == q - a - 1
<1>1. d \in Nat /\ q = a + 1 + d
  OBVIOUS
<1> HIDE DEF d
<1>2. d * u \in Nat /\ a * u \in Int /\ q * u \in Int
  BY <1>1
<1>3. q * u = a * u + u + d * u
  BY <1>1
<1> QED
  BY <1>2, <1>3

LEMMA Quotients ==
    ASSUME NEW x \in Nat, NEW u \in Nat \ {0}
    PROVE  /\ x \div u \in Nat /\ (x \div u) * u \in Nat
           /\ (x \div u) * u <= x /\ x < (x \div u) * u + u
           /\ \A q \in Nat : q * u <= x /\ x < q * u + u => q = x \div u
<1> DEFINE d == x \div u
<1>1. /\ d \in Nat /\ d * u \in Nat
      /\ d * u <= x /\ x < d * u + u
  OBVIOUS
<1> HIDE DEF d
<1>2. ASSUME NEW q \in Nat, q * u <= x, x < q * u + u PROVE q = d
  <2>0. q * u \in Nat
    OBVIOUS
  <2>1. ~(q > d)
    BY <1>1, <1>2, <2>0, Products
  <2>2. ~(d > q)
    BY <1>1, <1>2, <2>0, Products
  <2> QED
    BY <1>1, <2>1, <2>2
<1> QED
  BY <1>1, <1>2 DEF d

(* A page has consecutive topics; every topic is on a page up to the last.  *)
LEMMA TopicsOnPage ==
    ASSUME group \in Seq(Seq(AllMessages)), NEW n \in Nat, TopicsOf(n) # {}
    PROVE  /\ IsFiniteSet(TopicsOf(n)) /\ Cardinality(TopicsOf(n)) \in Nat
           /\ n * PageSize \in Nat
           /\ TopicsOf(n) = (n * PageSize + 1)..(n * PageSize + Cardinality(TopicsOf(n)))
<1> DEFINE p  == n * PageSize
           hi == IF Len(group) < p + PageSize THEN Len(group) ELSE p + PageSize
<1>1. PageSize \in Nat \ {0} /\ Len(group) \in Nat /\ DOMAIN group = 1..Len(group)
  BY GroupsAssumption
<1>2. p \in Nat
  BY <1>1
<1>3. \A t \in 1..Len(group) : (t - 1) \div PageSize = n <=> p <= t - 1 /\ t - 1 < p + PageSize
  <2> SUFFICES ASSUME NEW t \in 1..Len(group)
               PROVE  (t - 1) \div PageSize = n <=> p <= t - 1 /\ t - 1 < p + PageSize
    OBVIOUS
  <2>1. t - 1 \in Nat
    BY <1>1
  <2> QED
    BY <1>1, <2>1, Quotients
<1> HIDE DEF p
<1>4. p + 1 \in Int /\ hi \in Int
  BY <1>1, <1>2
<1>5. \A t \in 1..Len(group) : p <= t - 1 /\ t - 1 < p + PageSize <=> t \in (p + 1)..hi
  BY <1>1, <1>2
<1>6. (p + 1)..hi \subseteq 1..Len(group)
  BY <1>1, <1>2
<1> HIDE DEF hi
<1>7. TopicsOf(n) = (p + 1)..hi
  BY <1>1, <1>3, <1>5, <1>6 DEF TopicsOf
<1>8. p + 1 <= hi
  BY <1>4, <1>7
<1>9. IsFiniteSet((p + 1)..hi) /\ Cardinality((p + 1)..hi) = hi - (p + 1) + 1
  BY <1>4, <1>8, FS_Interval
<1>10. Cardinality(TopicsOf(n)) = hi - (p + 1) + 1
  BY <1>7, <1>9
<1>11. hi - (p + 1) + 1 \in Nat /\ p + (hi - (p + 1) + 1) = hi
  BY <1>2, <1>4, <1>8
<1> QED
  BY <1>2, <1>7, <1>9, <1>10, <1>11 DEF p

LEMMA LastPage ==
    ASSUME group \in Seq(Seq(AllMessages))
    PROVE  NumPages(Len(group)) \in Nat
<1>1. Len(group) \in Nat /\ PageSize \in Nat \ {0}
  BY GroupsAssumption
<1> QED
  BY <1>1, Quotients DEF NumPages

LEMMA PagesReach ==
    ASSUME group \in Seq(Seq(AllMessages)), NEW t \in DOMAIN group
    PROVE  (t - 1) \div PageSize \in 0..NumPages(Len(group))
<1> DEFINE d == (t - 1) \div PageSize
           q == Len(group) \div PageSize
<1>1. PageSize \in Nat \ {0} /\ Len(group) \in Nat /\ t \in 1..Len(group) /\ t - 1 \in Nat
  BY GroupsAssumption
<1>2. d \in Nat /\ d * PageSize \in Nat /\ d * PageSize <= t - 1
  BY <1>1, Quotients
<1>3. q \in Nat /\ q * PageSize \in Nat /\ Len(group) < q * PageSize + PageSize
  BY <1>1, Quotients
<1> HIDE DEF d, q
<1> DEFINE dp == d * PageSize
           qp == q * PageSize
<1>4. ~(d > q)
  <2> SUFFICES ASSUME d > q PROVE FALSE
    OBVIOUS
  <2>1. dp >= qp + PageSize
    BY <1>1, <1>2, <1>3, Products
  <2>2. dp \in Nat /\ qp \in Nat /\ dp <= t - 1 /\ Len(group) < qp + PageSize
    BY <1>2, <1>3
  <2> HIDE DEF dp, qp
  <2> QED
    BY <1>1, <2>1, <2>2
<1> QED
  BY <1>2, <1>3, <1>4 DEF d, q, NumPages

LEMMA NextPages ==
    ASSUME NEW p \in Nat, NEW final \in Nat, NEW next, next = {k \in {p + 1, p + 2} : k <= final}
    PROVE  /\ Cardinality(next) \in Nat
           /\ next = (p + 1)..(p + Cardinality(next))
<1>1. CASE final < p + 1
  <2>1. next = {} /\ Cardinality(next) = 0
    BY <1>1, FS_EmptySet
  <2>2. p + Cardinality(next) = p
    BY <2>1
  <2>3. (p + 1)..p = {}
    OBVIOUS
  <2>4. next = (p + 1)..(p + Cardinality(next))
    BY ONLY <2>1, <2>2, <2>3, Zenon
  <2> QED
    BY <2>1, <2>4
<1>2. CASE final = p + 1
  <2>1. next = {p + 1}
    BY <1>2
  <2>2. Cardinality(next) = 1
    BY <2>1, FS_Singleton
  <2>3. {p + 1} = (p + 1)..(p + 1)
    OBVIOUS
  <2> QED
    BY <2>1, <2>2, <2>3
<1>3. CASE final > p + 1
  <2>1. next = (p + 1)..(p + 2)
    BY <1>3
  <2>2. p + 1 \in Int /\ p + 2 \in Int
    OBVIOUS
  <2>3. ~(p + 1 > p + 2) /\ (p + 2) - (p + 1) + 1 = 2
    OBVIOUS
  <2>4. Cardinality(next) = 2
    BY <2>1, <2>2, <2>3, FS_Interval
  <2>5. p + Cardinality(next) = p + 2
    BY <2>4
  <2>6. next = (p + 1)..(p + Cardinality(next))
    BY ONLY <2>1, <2>5, Zenon
  <2> QED
    BY <2>4, <2>6
<1> QED
  BY <1>1, <1>2, <1>3
-----------------------------------------------------------------------------
(* What a step does to the tasks there are.                                *)
LEMMA TasksTyped ==
    ASSUME CrawlInv
    PROVE  /\ \A p \in Pool : queue[p] \in Seq(TaskOf(p)) /\ Range(queue[p]) \subseteq TaskOf(p)
           /\ \A p \in Pool : busy[p] \subseteq TaskOf(p)
           /\ TaskOf("td") \cap TaskOf("tdp") = {}
           /\ "td" \in Pool /\ "tdp" \in Pool
<1>1. \A p \in Pool : queue[p] \in Seq(TaskOf(p)) /\ busy[p] \subseteq TaskOf(p)
  BY DEF CrawlInv, TasksInPlace
<1>2. \A p \in Pool : Range(queue[p]) \subseteq TaskOf(p)
  <2> SUFFICES ASSUME NEW p \in Pool PROVE Range(queue[p]) \subseteq TaskOf(p)
    OBVIOUS
  <2>1. queue[p] \in Seq(TaskOf(p))
    BY <1>1
  <2> QED
    BY <2>1 DEF Range
<1> QED
  BY <1>1, <1>2 DEF TaskOf, Pool

LEMMA EndTaskOut ==
    ASSUME CrawlInv, NothingTwice, NEW task, NEW more, EndTask(task, more),
           more["td"] \in Seq(TaskOf("td")), more["tdp"] \in Seq(TaskOf("tdp")),
           IsInjective(more["td"]), IsInjective(more["tdp"]),
           Range(more["td"]) \cap Out = {}, Range(more["tdp"]) \cap Out = {}
    PROVE  /\ Crawling /\ Crawling' /\ crawl' = crawl /\ group' = group
           /\ task \in Out /\ NothingTwice'
           /\ Out' = (Out \ {task}) \cup Range(more["td"]) \cup Range(more["tdp"])
<1> DEFINE p == IF task[1] = "page" THEN "tdp" ELSE "td"
<1>1. /\ task \in holding
      /\ queue' = [q \in Pool |-> queue[q] \o more[q]]
      /\ busy' = [busy EXCEPT ![p] = busy[p] \ {task}]
      /\ mainTask' = mainTask \ {task}
      /\ UNCHANGED <<group, crawl>>
  BY DEF EndTask
<1>2. task \in Executing /\ Crawling
  BY <1>1 DEF CrawlInv, AtRest, HandlesCounted
<1>3. /\ queue["td"] \in Seq(TaskOf("td")) /\ queue["tdp"] \in Seq(TaskOf("tdp"))
      /\ busy["td"] \subseteq TaskOf("td") /\ busy["tdp"] \subseteq TaskOf("tdp")
      /\ "td" \in Pool /\ "tdp" \in Pool
  BY TasksTyped
<1>4. queue'["td"] = queue["td"] \o more["td"] /\ queue'["tdp"] = queue["tdp"] \o more["tdp"]
  BY <1>1, <1>3
<1>5. busy'["td"] = busy["td"] \ {task} /\ busy'["tdp"] = busy["tdp"] \ {task}
  <2>1. \A x \in TaskOf("td") : x[1] # "page"
    BY DEF TaskOf
  <2>2. \A x \in TaskOf("tdp") : x[1] = "page"
    BY DEF TaskOf
  <2> QED
    BY <1>1, <1>3, <2>1, <2>2 DEF CrawlInv, TasksInPlace
<1>6. Executing' = Executing \ {task}
  BY <1>1, <1>5 DEF Executing
<1>7. /\ IsInjective(queue["td"]) /\ IsInjective(queue["tdp"])
      /\ Range(queue["td"]) \cap Range(more["td"]) = {}
      /\ Range(queue["tdp"]) \cap Range(more["tdp"]) = {}
  BY DEF NothingTwice, Out
<1>8. IsInjective(queue'["td"]) /\ Range(queue'["td"]) = Range(queue["td"]) \cup Range(more["td"])
  BY <1>3, <1>4, <1>7, ConcatOnce
<1>9. IsInjective(queue'["tdp"]) /\ Range(queue'["tdp"]) = Range(queue["tdp"]) \cup Range(more["tdp"])
  BY <1>3, <1>4, <1>7, ConcatOnce
<1>10. NothingTwice'
  BY <1>6, <1>8, <1>9 DEF NothingTwice, Out
<1>11. Out' = (Out \ {task}) \cup Range(more["td"]) \cup Range(more["tdp"])
  BY <1>2, <1>6, <1>8, <1>9 DEF NothingTwice, Out
<1> QED
  BY <1>1, <1>2, <1>10, <1>11 DEF Crawling, Out

LEMMA EndTaskNoMore ==
    ASSUME CrawlInv, NothingTwice, NEW task, EndTask(task, NoMore)
    PROVE  /\ Crawling /\ Crawling' /\ crawl' = crawl /\ group' = group
           /\ task \in Out /\ NothingTwice' /\ Out' = Out \ {task}
<1>1. NoMore["td"] = <<>> /\ NoMore["tdp"] = <<>>
  BY DEF NoMore, Pool
<1>2. \A S : <<>> \in Seq(S) /\ IsInjective(<<>>) /\ Range(<<>>) = {}
  BY DEF IsInjective, Range
<1>3. /\ NoMore["td"] \in Seq(TaskOf("td")) /\ NoMore["tdp"] \in Seq(TaskOf("tdp"))
      /\ IsInjective(NoMore["td"]) /\ IsInjective(NoMore["tdp"])
      /\ Range(NoMore["td"]) = {} /\ Range(NoMore["tdp"]) = {}
  BY <1>1, <1>2
<1>4. Out' = (Out \ {task}) \cup Range(NoMore["td"]) \cup Range(NoMore["tdp"])
  BY <1>3, EndTaskOut
<1> QED
  BY <1>3, <1>4, EndTaskOut

(* A task that is taken is no longer queued, and executed.                 *)
LEMMA TakeOut ==
    ASSUME CrawlInv, NothingTwice, NEW p \in Pool, queue[p] # <<>>,
           queue' = [queue EXCEPT ![p] = Tail(@)],
           Executing' = Executing \cup {Head(queue[p])}
    PROVE  NothingTwice' /\ Out' = Out
<1> DEFINE task == Head(queue[p])
           rest == Tail(queue[p])
<1>1. /\ \A q \in Pool : queue[q] \in Seq(TaskOf(q)) /\ Range(queue[q]) \subseteq TaskOf(q)
      /\ TaskOf("td") \cap TaskOf("tdp") = {}
      /\ p \in {"td", "tdp"} /\ "td" \in Pool /\ "tdp" \in Pool
  BY TasksTyped DEF Pool
<1>2. IsInjective(queue[p])
  BY <1>1 DEF NothingTwice
<1>3. /\ IsInjective(rest) /\ task \notin Range(rest)
      /\ Range(queue[p]) = {task} \cup Range(rest)
  BY <1>1, <1>2, TailOnce
<1>4. \A q \in Pool : queue'[q] = IF q = p THEN rest ELSE queue[q]
  BY DEF CrawlInv, TasksInPlace
<1>5. Executing' = Executing \cup {task}
  OBVIOUS
<1> HIDE DEF task, rest
<1>6. CASE p = "td"
  <2>1. queue'["td"] = rest /\ queue'["tdp"] = queue["tdp"]
    BY <1>1, <1>4, <1>6
  <2>2. task \notin Range(queue["tdp"])
    BY <1>1, <1>3, <1>6
  <2> QED
    BY <1>3, <1>5, <1>6, <2>1, <2>2 DEF NothingTwice, Out
<1>7. CASE p = "tdp"
  <2>1. queue'["tdp"] = rest /\ queue'["td"] = queue["td"]
    BY <1>1, <1>4, <1>7
  <2>2. task \notin Range(queue["td"])
    BY <1>1, <1>3, <1>7
  <2> QED
    BY <1>3, <1>5, <1>7, <2>1, <2>2 DEF NothingTwice, Out
<1> QED
  BY <1>1, <1>6, <1>7

(* What went wrong untold.                                                 *)
LEMMA UntoldStay ==
    ASSUME group' = group, untold' = untold
    PROVE  UntoldTopics' = UntoldTopics /\ UntoldMessages' = UntoldMessages
BY DEF UntoldTopics, UntoldMessages, AllMessages

(* Nothing was queued and nothing ended; at most the number of pages has   *)
(* become known.                                                           *)
LEMMA SameTasks ==
    ASSUME Accounted, group \in Seq(Seq(AllMessages)), NothingTwice', Out' = Out,
           group' = group, pagenum' = pagenum, count' = count, saved' = saved,
           untold' = untold, numpages' \in {numpages, NumPages(Len(group))}
    PROVE  Accounted'
<1>1. PagesOut' = PagesOut /\ TopicsOut' = TopicsOut /\ MessagesOut' = MessagesOut
  BY DEF PagesOut, TopicsOut, MessagesOut, AllMessages
<1>2. NumPages(Len(group)) \in Nat
  BY LastPage
<1>3. numpages = NoPages => pagenum = 0 /\ PagesOut # {}
  BY DEF Accounted, PagesRight
<1>4. PagesAsked' = PagesAsked
  <2>1. CASE numpages' = numpages
    BY <2>1 DEF PagesAsked
  <2>2. CASE numpages' # numpages
    <3>1. numpages = NoPages /\ numpages' = NumPages(Len(group)) /\ pagenum = 0
      BY <1>3, <2>2 DEF Accounted, PagesRight
    <3>2. PagesAsked = {0} /\ PagesAsked' = {0}
      BY <1>2, <3>1 DEF PagesAsked, NoPages
    <3> QED
      BY <3>2
  <2> QED
    BY <2>1, <2>2
<1>5. PagesRight'
  <2>1. numpages' = NoPages => numpages = NoPages
    BY <1>2 DEF NoPages
  <2>2. numpages' # numpages => numpages = NoPages
    BY DEF Accounted, PagesRight
  <2> QED
    BY <1>1, <1>3, <1>4, <2>1, <2>2 DEF Accounted, PagesRight
<1>6. TopicsListed' = TopicsListed
  BY <1>1, <1>4 DEF TopicsListed
<1>7. TopicsRight'
  BY <1>1, <1>6 DEF Accounted, TopicsRight
<1>8. PICK R \in SUBSET DOMAIN group : MessagesRight(R)
  BY DEF Accounted
<1>9. Listed(R)' = Listed(R)
  BY DEF Listed
<1>10. MessagesRight(R)'
  BY <1>1, <1>6, <1>8, <1>9, UntoldStay DEF MessagesRight, Answered, CountedGood
<1> QED
  BY <1>5, <1>7, <1>8, <1>10 DEF Accounted
-----------------------------------------------------------------------------
(* The answers of the server.                                              *)
LEMMA DisjointUnion ==
    ASSUME NEW S, NEW T, IsFiniteSet(S), IsFiniteSet(T), S \cap T = {}
    PROVE  /\ IsFiniteSet(S \cup T)
           /\ Cardinality(S \cup T) = Cardinality(S) + Cardinality(T)
           /\ Cardinality(S) \in Nat /\ Cardinality(T) \in Nat
<1>1. Cardinality(S) \in Nat /\ Cardinality(T) \in Nat /\ Cardinality(S \cap T) = 0
  BY FS_CardinalityType, FS_EmptySet
<1>2. /\ IsFiniteSet(S \cup T)
      /\ Cardinality(S \cup T) = Cardinality(S) + Cardinality(T) - Cardinality(S \cap T)
  BY FS_Union
<1> QED
  BY <1>1, <1>2

LEMMA TopicsFinite ==
    ASSUME group \in Seq(Seq(AllMessages))
    PROVE  IsFiniteSet(TopicsListed) /\ IsFiniteSet(TopicsListed \ TopicsOut)
<1>1. Len(group) \in Nat /\ DOMAIN group = 1..Len(group)
  OBVIOUS
<1>2. IsFiniteSet(1..Len(group))
  BY <1>1, FS_Interval
<1>3. TopicsListed \in SUBSET (1..Len(group)) /\ TopicsListed \ TopicsOut \in SUBSET (1..Len(group))
  BY <1>1 DEF TopicsListed
<1> QED
  BY <1>2, <1>3, FS_Subset

LEMMA PageReadCounts ==
    ASSUME CrawlInv, Accounted, group \in Seq(Seq(AllMessages)),
           NEW n \in 0..Len(group), PageRead(n)
    PROVE  Accounted'
<1> DEFINE final == NumPages(Len(group))
           next == {k \in {pagenum + 1, pagenum + 2} : k <= numpages'}
           td   == [i \in 1..Cardinality(TopicsOf(n)) |-> Topic(n * PageSize + i)]
           tdp  == [i \in 1..Cardinality(next) |-> Page(pagenum + i)]
           more == [td |-> td, tdp |-> tdp]
<1>1. /\ EndTask(Page(n), more) /\ TopicsOf(n) # {} /\ saved' = saved /\ untold' = untold
      /\ numpages' = IF numpages = NoPages THEN final ELSE numpages
      /\ pagenum' = IF pagenum + 1 > numpages' THEN pagenum + 1 ELSE pagenum + 2
      /\ count' = [count EXCEPT !.threadstotal = @ + Cardinality(TopicsOf(n))]
  BY DEF PageRead
<1>2. n \in Nat /\ pagenum \in Nat /\ final \in Nat /\ numpages' = final
  <2>1. n \in Nat
    OBVIOUS
  <2>2. final \in Nat /\ numpages \in {NoPages, final}
    BY LastPage DEF Accounted, PagesRight
  <2> QED
    BY <1>1, <2>1, <2>2 DEF CrawlInv, NotFailed
<1> HIDE DEF final
<1>3. Cardinality(next) \in Nat /\ next = (pagenum + 1)..(pagenum + Cardinality(next))
  <2>1. next = {k \in {pagenum + 1, pagenum + 2} : k <= final}
    BY <1>2
  <2> HIDE DEF next
  <2> QED
    BY <1>2, <2>1, NextPages
<1>4. /\ Cardinality(TopicsOf(n)) \in Nat /\ n * PageSize \in Nat /\ IsFiniteSet(TopicsOf(n))
      /\ TopicsOf(n) = (n * PageSize + 1)..(n * PageSize + Cardinality(TopicsOf(n)))
  BY <1>1, <1>2, TopicsOnPage
<1> DEFINE ct == Cardinality(TopicsOf(n))
           at == n * PageSize
           cn == Cardinality(next)
<1>5. IsInjective(td) /\ Range(td) = {Topic(t) : t \in TopicsOf(n)} /\ td \in Seq(TaskOf("td"))
  <2>1. td = [i \in 1..ct |-> <<"topic", at + i>>]
    BY DEF Topic
  <2>2. at \in Nat /\ ct \in Nat /\ TopicsOf(n) = (at + 1)..(at + ct)
    BY <1>4
  <2>3. DOMAIN td = 1..ct /\ \A i \in 1..ct : td[i] = <<"topic", at + i>>
    BY <2>1
  <2>4. Numbered(td, "topic", at, ct)
    BY <2>3 DEF Numbered
  <2> HIDE DEF td, at, ct
  <2>5. at \in Nat /\ ct \in Nat
    BY <2>2
  <2>6. IsInjective(td)
    BY ONLY <2>4, <2>5, NumberedOnce
  <2>7. \A x : x \in Range(td) <=> \E t \in (at + 1)..(at + ct) : x = <<"topic", t>>
    BY ONLY <2>4, <2>5, NumberedOnce
  <2>8. Range(td) = {<<"topic", t>> : t \in TopicsOf(n)}
    BY <2>2, <2>7
  <2>9. \A i \in 1..ct : <<"topic", at + i>> \in TaskOf("td")
    BY <2>2 DEF TaskOf
  <2>10. td \in Seq(TaskOf("td"))
    BY <2>1, <2>2, <2>3, <2>9, TypedSeq
  <2> QED
    BY <2>6, <2>8, <2>10 DEF Topic
<1>6. IsInjective(tdp) /\ Range(tdp) = {Page(k) : k \in next} /\ tdp \in Seq(TaskOf("tdp"))
  <2>1. tdp = [i \in 1..cn |-> <<"page", pagenum + i>>]
    BY DEF Page
  <2>2. cn \in Nat /\ next = (pagenum + 1)..(pagenum + cn)
    BY <1>3
  <2>3. DOMAIN tdp = 1..cn /\ \A i \in 1..cn : tdp[i] = <<"page", pagenum + i>>
    BY <2>1
  <2>4. Numbered(tdp, "page", pagenum, cn)
    BY <2>3 DEF Numbered
  <2> HIDE DEF tdp, cn
  <2>5. cn \in Nat /\ pagenum \in Nat
    BY <1>2, <2>2
  <2>6. IsInjective(tdp)
    BY ONLY <2>4, <2>5, NumberedOnce
  <2>7. \A x : x \in Range(tdp) <=> \E k \in (pagenum + 1)..(pagenum + cn) : x = <<"page", k>>
    BY ONLY <2>4, <2>5, NumberedOnce
  <2>8. Range(tdp) = {<<"page", k>> : k \in next}
    BY <2>2, <2>7
  <2>9. \A i \in 1..cn : <<"page", pagenum + i>> \in TaskOf("tdp")
    BY <1>2, <2>2 DEF TaskOf
  <2>10. tdp \in Seq(TaskOf("tdp"))
    BY <2>1, <2>2, <2>3, <2>9, TypedSeq
  <2> QED
    BY <2>6, <2>8, <2>10 DEF Page
<1>8. more["td"] = td /\ more["tdp"] = tdp
  OBVIOUS
<1>9. next \subseteq Nat /\ \A k \in next : k > pagenum /\ k <= final
  BY <1>2
<1> HIDE DEF td, tdp, next, more, ct, at, cn
<1>10. /\ PagesOut \subseteq PagesAsked /\ NothingTwice /\ TopicsOut \subseteq TopicsListed
       /\ count \in Counts /\ count.threadstotal = Cardinality(TopicsListed)
       /\ count.threads = Cardinality(TopicsListed \ TopicsOut)
       /\ numpages = NoPages => pagenum = 0
       /\ numpages \in {NoPages, final}
  BY DEF Accounted, PagesRight, TopicsRight, final
<1>11. Page(n) \in Out
  <2>1. Page(n) \in Executing
    BY <1>1 DEF EndTask, CrawlInv, HandlesCounted
  <2> QED
    BY <2>1 DEF Out
<1>12. n \in PagesOut /\ n \in PagesAsked
  BY <1>2, <1>10, <1>11 DEF PagesOut
<1>13. DOMAIN group \subseteq Nat /\ \A t \in TopicsOf(n) : t \in DOMAIN group /\ (t - 1) \div PageSize = n
  BY DEF TopicsOf
<1>14. TopicsOf(n) \cap TopicsListed = {}
  BY <1>12, <1>13 DEF TopicsListed
<1>15. next \cap PagesAsked = {}
  BY <1>2, <1>9 DEF PagesAsked
<1>16. Range(td) \cap Out = {}
  <2>1. \A t \in TopicsOf(n) : t \notin TopicsOut /\ t \in Nat
    BY <1>10, <1>13, <1>14
  <2> QED
    BY <1>5, <2>1 DEF TopicsOut
<1>17. Range(tdp) \cap Out = {}
  BY <1>6, <1>9, <1>10, <1>15 DEF PagesOut
<1>18. /\ NothingTwice' /\ group' = group
       /\ Out' = (Out \ {Page(n)}) \cup {Topic(t) : t \in TopicsOf(n)} \cup {Page(k) : k \in next}
  BY <1>1, <1>5, <1>6, <1>8, <1>10, <1>16, <1>17, EndTaskOut
<1>19. PagesOut' = (PagesOut \ {n}) \cup next
  BY <1>2, <1>9, <1>18 DEF PagesOut, Page, Topic
<1>20. TopicsOut' = TopicsOut \cup TopicsOf(n)
  BY <1>13, <1>18 DEF TopicsOut, Page, Topic
<1>21. MessagesOut' = MessagesOut
  BY <1>18 DEF MessagesOut, Page, Topic, Message, AllMessages
<1>22. PagesAsked' = PagesAsked \cup next
  <2>1. pagenum' \in Nat /\ numpages' # NoPages
    BY <1>1, <1>2 DEF NoPages
  <2>2. \A k \in Nat : k \in PagesAsked' <=> k <= pagenum' /\ k <= final
    BY <1>2, <2>1 DEF PagesAsked
  <2>3. \A k \in Nat : k \in next <=> k \in {pagenum + 1, pagenum + 2} /\ k <= final
    BY <1>2 DEF next
  <2>4. \A k \in Nat : k \in PagesAsked <=> k <= pagenum /\ k <= final
    <3>1. CASE numpages = NoPages
      BY <1>2, <1>10, <3>1 DEF PagesAsked
    <3>2. CASE numpages # NoPages
      BY <1>2, <1>10, <3>2 DEF PagesAsked
    <3> QED
      BY <3>1, <3>2
  <2>5. \A k \in Nat : k \in PagesAsked' <=> k \in PagesAsked \cup next
    <3> SUFFICES ASSUME NEW k \in Nat PROVE k \in PagesAsked' <=> k \in PagesAsked \/ k \in next
      OBVIOUS
    <3>1. pagenum' = IF pagenum + 1 > final THEN pagenum + 1 ELSE pagenum + 2
      BY <1>1, <1>2
    <3>2. k <= pagenum' /\ k <= final <=> k <= final /\ (k <= pagenum \/ k \in {pagenum + 1, pagenum + 2})
      BY <1>2, <3>1
    <3> QED
      BY <2>2, <2>3, <2>4, <3>2
  <2>6. PagesAsked \subseteq Nat /\ PagesAsked' \subseteq Nat
    BY DEF PagesAsked
  <2> QED
    BY <1>9, <2>5, <2>6
<1>23. PagesRight'
  <2>1. PagesOut' \subseteq PagesAsked'
    BY <1>10, <1>19, <1>22
  <2>2. numpages' # NoPages
    BY <1>2 DEF NoPages
  <2>3. pagenum' < numpages' => pagenum + 1 \in next
    BY <1>1, <1>2 DEF next
  <2> QED
    BY <1>2, <1>18, <1>19, <2>1, <2>2, <2>3 DEF PagesRight, final
<1>24. TopicsListed' = TopicsListed \cup TopicsOf(n)
  <2>1. PagesAsked' \ PagesOut' = (PagesAsked \ PagesOut) \cup {n}
    BY <1>10, <1>12, <1>15, <1>19, <1>22
  <2> QED
    BY <1>18, <2>1 DEF TopicsListed, TopicsOf
<1>25. TopicsRight'
  <2>1. IsFiniteSet(TopicsListed)
    BY TopicsFinite
  <2>2. Cardinality(TopicsListed') = Cardinality(TopicsListed) + Cardinality(TopicsOf(n))
    BY <1>4, <1>14, <1>24, <2>1, DisjointUnion
  <2>3. TopicsListed' \ TopicsOut' = TopicsListed \ TopicsOut
    BY <1>14, <1>20, <1>24
  <2>4. TopicsOut' \subseteq TopicsListed'
    BY <1>10, <1>20, <1>24
  <2>5. /\ count'.threadstotal = count.threadstotal + Cardinality(TopicsOf(n))
        /\ count'.threads = count.threads
    BY <1>1, <1>10 DEF Counts
  <2> QED
    BY <1>10, <2>2, <2>3, <2>4, <2>5 DEF TopicsRight
<1>26. count' \in Counts
  <2> DEFINE v == count.threadstotal + Cardinality(TopicsOf(n))
  <2>1. v \in Nat /\ count' = [count EXCEPT !.threadstotal = v]
    BY <1>1, <1>4, <1>10 DEF Counts
  <2> HIDE DEF v
  <2> QED
    BY <1>10, <2>1 DEF Counts
<1>27. PICK R \in SUBSET DOMAIN group : MessagesRight(R)
  BY DEF Accounted
<1>28. MessagesRight(R)'
  <2>1. Listed(R)' = Listed(R)
    BY <1>18 DEF Listed
  <2>2. /\ Answered(R)' = Answered(R) /\ CountedGood' = CountedGood /\ UntoldTopics' = UntoldTopics
        /\ UntoldMessages' = UntoldMessages
    BY <1>1, <1>18, UntoldStay DEF Answered, CountedGood
  <2>4. Answered(R) \subseteq TopicsListed' \ TopicsOut'
    BY <1>14, <1>20, <1>24, <1>27 DEF MessagesRight
  <2>3. /\ count'.threads = count.threads /\ count'.threadsbad = count.threadsbad
        /\ count'.messages = count.messages /\ count'.messagesbad = count.messagesbad
        /\ count'.messagestotal = count.messagestotal
    BY <1>1, <1>10 DEF Counts
  <2> QED
    BY <1>1, <1>21, <1>27, <2>1, <2>2, <2>3, <2>4 DEF MessagesRight
<1> QED
  BY <1>18, <1>23, <1>25, <1>26, <1>27, <1>28 DEF Accounted

(* A topic or message that is done for: those of the pages stay listed.    *)
LEMMA PagesStay ==
    ASSUME Accounted, group' = group, pagenum' = pagenum, numpages' = numpages,
           PagesOut' = PagesOut
    PROVE  PagesAsked' = PagesAsked /\ TopicsListed' = TopicsListed /\ PagesRight'
<1>1. PagesAsked' = PagesAsked
  BY DEF PagesAsked
<1> QED
  BY <1>1 DEF Accounted, PagesRight, TopicsListed

LEMMA TopicFailsCounts ==
    ASSUME CrawlInv, Accounted, group \in Seq(Seq(AllMessages)),
           NEW t \in DOMAIN group, TopicFails(t)
    PROVE  Accounted'
<1>1. /\ EndTask(Topic(t), NoMore) /\ UNCHANGED <<numpages, pagenum, saved, untold>>
      /\ count' = [count EXCEPT !.threads = @ + 1, !.threadsbad = @ + 1]
  BY DEF TopicFails
<1>2. NothingTwice /\ count \in Counts /\ TopicsRight
  BY DEF Accounted
<1>3. /\ group' = group /\ Topic(t) \in Out /\ NothingTwice' /\ Out' = Out \ {Topic(t)}
  BY <1>1, <1>2, EndTaskNoMore
<1>4. t \in Nat
  OBVIOUS
<1>5. PagesOut' = PagesOut /\ MessagesOut' = MessagesOut
  BY <1>3 DEF PagesOut, MessagesOut, AllMessages, Page, Topic, Message
<1>6. TopicsOut' = TopicsOut \ {t} /\ t \in TopicsOut
  BY <1>3, <1>4 DEF TopicsOut, Topic
<1>7. TopicsListed' = TopicsListed /\ PagesRight'
  BY <1>1, <1>3, <1>5, PagesStay
<1>8. /\ count'.threads = count.threads + 1 /\ count'.threadsbad = count.threadsbad + 1
      /\ count'.threadstotal = count.threadstotal
      /\ count'.messages = count.messages /\ count'.messagesbad = count.messagesbad
      /\ count'.messagestotal = count.messagestotal
      /\ count' \in Counts
  <2> DEFINE v == count.threads + 1
             w == count.threadsbad + 1
  <2>1. v \in Nat /\ w \in Nat /\ count' = [count EXCEPT !.threads = v, !.threadsbad = w]
    BY <1>1, <1>2 DEF Counts
  <2> HIDE DEF v, w
  <2>2. /\ count'.threads = v /\ count'.threadsbad = w
        /\ count'.threadstotal = count.threadstotal
        /\ count'.messages = count.messages /\ count'.messagesbad = count.messagesbad
        /\ count'.messagestotal = count.messagestotal
    BY <1>2, <2>1 DEF Counts
  <2>3. count' \in Counts
    BY <1>2, <2>1 DEF Counts
  <2> QED
    BY <2>2, <2>3 DEF v, w
<1>9. TopicsListed' \ TopicsOut' = (TopicsListed \ TopicsOut) \cup {t} /\ t \notin TopicsListed \ TopicsOut
  BY <1>2, <1>6, <1>7 DEF TopicsRight
<1>10. Cardinality(TopicsListed' \ TopicsOut') = Cardinality(TopicsListed \ TopicsOut) + 1
  BY <1>9, TopicsFinite, FS_AddElement
<1>11. TopicsRight'
  BY <1>2, <1>6, <1>7, <1>8, <1>10 DEF TopicsRight
<1>12. PICK R \in SUBSET DOMAIN group : MessagesRight(R)
  BY DEF Accounted
<1>13. MessagesRight(R)'
  <2>1. Listed(R)' = Listed(R)
    BY <1>3 DEF Listed
  <2>2. /\ Answered(R)' = Answered(R) /\ CountedGood' = CountedGood /\ UntoldTopics' = UntoldTopics
        /\ UntoldMessages' = UntoldMessages
    BY <1>1, <1>3, UntoldStay DEF Answered, CountedGood
  <2>3. Answered(R) \subseteq TopicsListed' \ TopicsOut'
    BY <1>9, <1>12 DEF MessagesRight
  <2>4. IsFiniteSet(Answered(R))
    BY <1>12, TopicsFinite, FS_Subset DEF MessagesRight
  <2>5. Cardinality(Answered(R)) \in Nat
    BY <2>4, FS_CardinalityType
  <2>6. count'.threads = Cardinality(Answered(R)) + count'.threadsbad
    BY <1>2, <1>8, <1>12, <2>5 DEF MessagesRight, Counts
  <2> QED
    BY <1>1, <1>5, <1>8, <1>12, <2>1, <2>2, <2>3, <2>6 DEF MessagesRight
<1> QED
  BY <1>3, <1>7, <1>8, <1>11, <1>12, <1>13 DEF Accounted

LEMMA ListSize ==
    ASSUME NEW S, NEW s \in Seq(S), IsInjective(s)
    PROVE  IsFiniteSet(Range(s)) /\ Cardinality(Range(s)) = Len(s) /\ Len(s) \in Nat
<1>1. Len(s) \in Nat /\ DOMAIN s = 1..Len(s) /\ s \in [1..Len(s) -> Range(s)]
  BY DEF Range
<1>2. s \in Surjection(1..Len(s), Range(s)) /\ s \in Injection(1..Len(s), Range(s))
  BY <1>1 DEF Surjection, Injection, IsInjective, Range
<1>3. 1 \in Int /\ Len(s) \in Int
  BY <1>1
<1>4. IsFiniteSet(1..Len(s)) /\ Cardinality(1..Len(s)) = IF 1 > Len(s) THEN 0 ELSE Len(s) - 1 + 1
  BY <1>3, FS_Interval
<1>5. (IF 1 > Len(s) THEN 0 ELSE Len(s) - 1 + 1) = Len(s)
  BY <1>1
<1>6. IsFiniteSet(Range(s)) /\ Cardinality(Range(s)) = Cardinality(1..Len(s))
  BY <1>2, <1>4, FS_Surjection
<1> QED
  BY <1>1, <1>4, <1>5, <1>6

(* A topic is answered by its messages, or by none.                        *)
LEMMA TopicReadCounts ==
    ASSUME CrawlInv, Accounted, group \in Groups,
           NEW t \in DOMAIN group, TopicRead(t)
    PROVE  Accounted'
<1>0. PICK list \in {group[t], <<>>} : TopicLists(t, list)
  BY DEF TopicRead
<1> DEFINE td   == [i \in DOMAIN list |-> Message(list[i])]
           more == [td |-> td, tdp |-> <<>>]
           new  == Range(list)
<1>1. /\ EndTask(Topic(t), more) /\ UNCHANGED <<numpages, pagenum, saved>>
      /\ count' = [count EXCEPT !.threads = @ + 1, !.messagestotal = @ + Len(list)]
      /\ untold' = IF list = group[t] THEN untold ELSE untold \cup {Topic(t)}
  BY <1>0 DEF TopicLists
<1>2. NothingTwice /\ count \in Counts /\ TopicsRight
  BY DEF Accounted
<1>3. /\ group \in Seq(Seq(AllMessages)) /\ list \in Seq(AllMessages)
      /\ IsInjective(list) /\ new \subseteq AllMessages /\ t \in Nat
      /\ \A u \in DOMAIN group : t # u => new \cap Range(group[u]) = {}
  <2>1. group \in Seq(Seq(AllMessages))
    BY GroupsAssumption DEF AllMessages
  <2>2. group[t] \in Seq(AllMessages) /\ t \in Nat
    BY <2>1
  <2>3. IsInjective(group[t]) /\ \A u \in DOMAIN group : t # u => Range(group[t]) \cap Range(group[u]) = {}
    BY ListedOnce
  <2>4. CASE list = group[t]
    <3>1. new \subseteq AllMessages
      BY <2>2, <2>4 DEF Range
    <3> QED
      BY <2>1, <2>2, <2>3, <2>4, <3>1
  <2>5. CASE list = <<>>
    <3>1. new = {} /\ IsInjective(list) /\ list \in Seq(AllMessages)
      BY <2>5 DEF Range, IsInjective
    <3> QED
      BY <2>1, <2>2, <3>1
  <2> QED
    BY <1>0, <2>4, <2>5
<1>4. IsFiniteSet(new) /\ Cardinality(new) = Len(list) /\ Len(list) \in Nat
  BY <1>3, ListSize
<1>5. PICK R \in SUBSET DOMAIN group : MessagesRight(R)
  BY DEF Accounted
<1>6. Topic(t) \in Out
  <2>1. Topic(t) \in Executing
    BY <1>1 DEF EndTask, CrawlInv, HandlesCounted
  <2> QED
    BY <2>1 DEF Out
<1>7. t \in TopicsOut /\ t \in TopicsListed /\ t \notin Answered(R)
  BY <1>2, <1>3, <1>5, <1>6 DEF TopicsOut, TopicsRight, MessagesRight
<1>8. new \cap Listed(R) = {}
  BY <1>3, <1>5, <1>7 DEF Listed, Answered
<1>9. /\ DOMAIN td = DOMAIN list /\ \A i \in DOMAIN td : td[i] = Message(list[i])
      /\ td = [i \in 1..Len(list) |-> td[i]]
  BY <1>3
<1>10. more["td"] = td /\ more["tdp"] = <<>>
  OBVIOUS
<1> HIDE DEF td, more
<1>11. IsInjective(td)
  <2>1. SUFFICES ASSUME NEW i \in DOMAIN td, NEW j \in DOMAIN td, td[i] = td[j]
                 PROVE  i = j
    BY DEF IsInjective
  <2>2. i \in DOMAIN list /\ j \in DOMAIN list
    BY <1>9
  <2>3. <<"message", list[i]>> = <<"message", list[j]>>
    BY <1>9, <2>1 DEF Message
  <2>4. list[i] = list[j]
    BY <2>3
  <2> QED
    BY <1>3, <2>2, <2>4 DEF IsInjective
<1>12. Range(td) = {Message(m) : m \in new}
  <2>1. Range(td) = {td[i] : i \in DOMAIN list}
    BY <1>9 DEF Range
  <2>2. new = {list[i] : i \in DOMAIN list}
    BY DEF Range
  <2>3. {td[i] : i \in DOMAIN list} = {Message(list[i]) : i \in DOMAIN list}
    BY <1>9
  <2> HIDE DEF new
  <2> QED
    BY <2>1, <2>2, <2>3
<1>13. td \in Seq(TaskOf("td"))
  <2>1. \A m \in AllMessages : <<"message", m>> \in TaskOf("td")
    BY DEF TaskOf, AllMessages, Message
  <2>2. \A i \in 1..Len(list) : list[i] \in AllMessages /\ td[i] = <<"message", list[i]>>
    <3>1. DOMAIN list = 1..Len(list)
      BY <1>3
    <3>2. \A i \in 1..Len(list) : list[i] \in new
      BY <3>1 DEF Range
    <3> QED
      BY <1>3, <1>9, <3>1, <3>2 DEF Message
  <2> QED
    <3>1. \A i \in 1..Len(list) : td[i] \in TaskOf("td")
      BY <2>1, <2>2
    <3>2. Len(list) \in Nat /\ td = [i \in 1..Len(list) |-> td[i]]
      BY <1>4, <1>9
    <3> QED
      BY <3>1, <3>2, TypedSeq
<1>14. Range(td) \cap Out = {}
  <2>1. \A m \in new : m \notin MessagesOut
    BY <1>5, <1>8 DEF MessagesRight
  <2> QED
    BY <1>3, <1>12, <2>1 DEF MessagesOut
<1>15. <<>> \in Seq(TaskOf("tdp")) /\ IsInjective(<<>>) /\ Range(<<>>) = {}
  BY DEF IsInjective, Range
<1>16. /\ group' = group /\ NothingTwice'
       /\ Out' = (Out \ {Topic(t)}) \cup Range(more["td"]) \cup Range(more["tdp"])
  BY <1>1, <1>2, <1>10, <1>11, <1>13, <1>14, <1>15, EndTaskOut
<1>17. Out' = (Out \ {Topic(t)}) \cup {Message(m) : m \in new}
  BY <1>10, <1>12, <1>15, <1>16
<1>18. PagesOut' = PagesOut
  BY <1>17 DEF PagesOut, Page, Topic, Message
<1>19. TopicsOut' = TopicsOut \ {t}
  BY <1>3, <1>17 DEF TopicsOut, Topic, Message
<1>20. MessagesOut' = MessagesOut \cup new
  BY <1>3, <1>16, <1>17 DEF MessagesOut, AllMessages, Topic, Message
<1>21. TopicsListed' = TopicsListed /\ PagesRight'
  BY <1>1, <1>16, <1>18, PagesStay
<1>22. /\ count'.threads = count.threads + 1 /\ count'.threadsbad = count.threadsbad
       /\ count'.threadstotal = count.threadstotal
       /\ count'.messages = count.messages /\ count'.messagesbad = count.messagesbad
       /\ count'.messagestotal = count.messagestotal + Cardinality(new)
       /\ count' \in Counts
  <2> DEFINE v == count.threads + 1
             w == count.messagestotal + Cardinality(new)
  <2>1. count' = [count EXCEPT !.threads = v, !.messagestotal = w]
    BY <1>1, <1>2, <1>4 DEF Counts
  <2>2. v \in Nat /\ w \in Nat
    BY <1>2, <1>4 DEF Counts
  <2> HIDE DEF v, w
  <2>3. /\ count'.threads = v /\ count'.threadsbad = count.threadsbad
        /\ count'.threadstotal = count.threadstotal
        /\ count'.messages = count.messages /\ count'.messagesbad = count.messagesbad
        /\ count'.messagestotal = w
    BY <1>2, <2>1 DEF Counts
  <2>4. count' \in Counts
    BY <1>2, <2>1, <2>2 DEF Counts
  <2> QED
    BY <2>3, <2>4 DEF v, w
<1>23. TopicsListed' \ TopicsOut' = (TopicsListed \ TopicsOut) \cup {t} /\ t \notin TopicsListed \ TopicsOut
  BY <1>7, <1>19, <1>21
<1>24. Cardinality(TopicsListed' \ TopicsOut') = Cardinality(TopicsListed \ TopicsOut) + 1
  BY <1>3, <1>23, TopicsFinite, FS_AddElement
<1>25. TopicsRight'
  BY <1>2, <1>19, <1>21, <1>22, <1>24 DEF TopicsRight
<1>26. UntoldMessages' = UntoldMessages /\ CountedGood' = CountedGood
  BY <1>1, <1>16 DEF UntoldMessages, AllMessages, CountedGood, Topic, Message
<1>27. \A Q : Listed(Q)' = Listed(Q)
  BY <1>16 DEF Listed
<1>28. IsFiniteSet(Answered(R))
  BY <1>3, <1>5, TopicsFinite, FS_Subset DEF MessagesRight
<1>29. /\ Cardinality(Answered(R)) \in Nat
       /\ Cardinality(Answered(R) \cup {t}) = Cardinality(Answered(R)) + 1
  BY <1>7, <1>28, FS_CardinalityType, FS_AddElement
<1>30. Answered(R) \cup {t} \subseteq TopicsListed' \ TopicsOut'
  BY <1>5, <1>23 DEF MessagesRight
<1>31. count'.threads = Cardinality(Answered(R) \cup {t}) + count'.threadsbad
  BY <1>2, <1>5, <1>22, <1>29 DEF MessagesRight, Counts
<1>32. CASE list = group[t]
  <2>1. UntoldTopics' = UntoldTopics
    BY <1>1, <1>16, <1>32 DEF UntoldTopics
  <2>2. Answered(R \cup {t})' = Answered(R) \cup {t} /\ (R \cup {t}) \cap UntoldTopics = {}
    BY <1>5, <1>7, <2>1 DEF Answered, MessagesRight
  <2>3. Listed(R \cup {t}) = Listed(R) \cup new
    BY <1>32 DEF Listed
  <2>4. /\ IsFiniteSet(Listed(R) \cup new)
        /\ Cardinality(Listed(R) \cup new) = Cardinality(Listed(R)) + Cardinality(new)
    BY <1>4, <1>5, <1>8, DisjointUnion DEF MessagesRight
  <2>5. (Listed(R) \cup new) \ MessagesOut' = Listed(R) \ MessagesOut
    BY <1>8, <1>20
  <2>6. MessagesRight(R \cup {t})'
    BY <1>1, <1>5, <1>20, <1>22, <1>26, <1>27, <1>30, <1>31, <2>1, <2>2, <2>3, <2>4, <2>5
    DEF MessagesRight
  <2>7. R \cup {t} \in SUBSET DOMAIN group'
    BY <1>5, <1>16
  <2> QED
    BY <1>16, <1>21, <1>22, <1>25, <2>6, <2>7 DEF Accounted
<1>33. CASE list # group[t]
  <2>1. UntoldTopics' = UntoldTopics \cup {t}
    BY <1>1, <1>16, <1>33 DEF UntoldTopics, Topic
  <2>2. Answered(R)' = Answered(R) \cup {t} /\ R \cap (UntoldTopics \cup {t}) = {}
    BY <1>5, <1>7, <2>1 DEF Answered, MessagesRight
  <2>3. new = {} /\ Cardinality(new) = 0
    <3>1. list = <<>>
      BY <1>0, <1>33
    <3>2. new = {}
      BY <3>1 DEF Range
    <3> QED
      BY <3>2, FS_EmptySet
  <2>4. MessagesOut' = MessagesOut /\ count'.messagestotal = count.messagestotal
    BY <1>2, <1>20, <1>22, <2>3 DEF Counts
  <2>5. MessagesRight(R)'
    BY <1>1, <1>5, <1>22, <1>26, <1>27, <1>30, <1>31, <2>1, <2>2, <2>4 DEF MessagesRight
  <2> QED
    BY <1>5, <1>16, <1>21, <1>22, <1>25, <2>5 DEF Accounted
<1> QED
  BY <1>32, <1>33

(* A message that could be read is saved unless its file could not be      *)
(* opened, one that could not be read is counted.                          *)
LEMMA MessageCounts ==
    ASSUME CrawlInv, Accounted, group \in Seq(Seq(AllMessages)),
           NEW m \in AllMessages, MessageFails(m) \/ MessageRead(m)
    PROVE  Accounted'
<1>1. EndTask(Message(m), NoMore) /\ UNCHANGED <<numpages, pagenum>>
  BY DEF MessageFails, MessageRead
<1>2. NothingTwice /\ count \in Counts /\ TopicsRight
  BY DEF Accounted
<1>3. /\ group' = group /\ Message(m) \in Out /\ NothingTwice' /\ Out' = Out \ {Message(m)}
  BY <1>1, <1>2, EndTaskNoMore
<1>4. PagesOut' = PagesOut /\ TopicsOut' = TopicsOut
  BY <1>3 DEF PagesOut, TopicsOut, Page, Topic, Message
<1>5. MessagesOut' = MessagesOut \ {m} /\ m \in MessagesOut
  BY <1>3 DEF MessagesOut, AllMessages, Message
<1>6. TopicsListed' = TopicsListed /\ PagesRight'
  BY <1>1, <1>3, <1>4, PagesStay
<1>7. /\ count'.threads = count.threads /\ count'.threadsbad = count.threadsbad
      /\ count'.threadstotal = count.threadstotal
      /\ count'.messages = count.messages + 1
      /\ count'.messagestotal = count.messagestotal
      /\ count' \in Counts
      /\ \/ UNCHANGED <<saved, untold>> /\ count'.messagesbad = count.messagesbad + 1
         \/ MessageRead(m) /\ count'.messagesbad = count.messagesbad
  <2> DEFINE v == count.messages + 1
             w == count.messagesbad + 1
  <2>1. v \in Nat /\ w \in Nat
    BY <1>2 DEF Counts
  <2>2. CASE MessageFails(m)
    <3>1. count' = [count EXCEPT !.messages = v, !.messagesbad = w] /\ UNCHANGED <<saved, untold>>
      BY <2>2, <1>2 DEF Counts, MessageFails
    <3> HIDE DEF v, w
    <3>2. /\ count'.threads = count.threads /\ count'.threadsbad = count.threadsbad
          /\ count'.threadstotal = count.threadstotal
          /\ count'.messages = v /\ count'.messagesbad = w
          /\ count'.messagestotal = count.messagestotal
      BY <1>2, <3>1 DEF Counts
    <3>3. count' \in Counts
      BY <1>2, <2>1, <3>1 DEF Counts
    <3> QED
      BY <3>1, <3>2, <3>3 DEF v, w
  <2>3. CASE MessageRead(m)
    <3>1. count' = [count EXCEPT !.messages = v]
      BY <2>3, <1>2 DEF Counts, MessageRead
    <3> HIDE DEF v
    <3>2. /\ count'.threads = count.threads /\ count'.threadsbad = count.threadsbad
          /\ count'.threadstotal = count.threadstotal
          /\ count'.messages = v /\ count'.messagesbad = count.messagesbad
          /\ count'.messagestotal = count.messagestotal
      BY <1>2, <3>1 DEF Counts
    <3>3. count' \in Counts
      BY <1>2, <2>1, <3>1 DEF Counts
    <3> QED
      BY <2>3, <3>2, <3>3 DEF v
  <2> QED
    BY <2>2, <2>3
<1>8. TopicsRight'
  BY <1>2, <1>4, <1>6, <1>7 DEF TopicsRight
<1>9. PICK R \in SUBSET DOMAIN group : MessagesRight(R)
  BY DEF Accounted
<1>10. UntoldTopics' = UntoldTopics /\ Answered(R)' = Answered(R) /\ Listed(R)' = Listed(R)
  <2>1. untold' = untold \/ untold' = untold \cup {Message(m)}
    BY DEF MessageFails, MessageRead
  <2>2. UntoldTopics' = UntoldTopics
    BY <1>3, <2>1 DEF UntoldTopics, Topic, Message
  <2> QED
    BY <1>3, <2>2 DEF Answered, Listed
<1>11. /\ Listed(R) \ MessagesOut' = (Listed(R) \ MessagesOut) \cup {m}
       /\ m \notin Listed(R) \ MessagesOut /\ m \notin CountedGood
  BY <1>5, <1>9 DEF MessagesRight
<1>12. IsFiniteSet(Listed(R) \ MessagesOut) /\ IsFiniteSet(CountedGood)
  <2>1. IsFiniteSet(Listed(R)) /\ Listed(R) \ MessagesOut \in SUBSET Listed(R) /\ CountedGood \in SUBSET Listed(R)
    BY <1>9 DEF MessagesRight
  <2> QED
    BY <2>1, FS_Subset
<1>13. /\ Cardinality(Listed(R) \ MessagesOut') = Cardinality(Listed(R) \ MessagesOut) + 1
       /\ Cardinality(CountedGood \cup {m}) = Cardinality(CountedGood) + 1
       /\ Cardinality(CountedGood) \in Nat
  BY <1>11, <1>12, FS_AddElement, FS_CardinalityType
<1>14. \/ UNCHANGED <<saved, UntoldMessages>> /\ count'.messagesbad = count.messagesbad + 1
       \/ /\ saved' = saved \cup {m} /\ UntoldMessages' = UntoldMessages
          /\ count'.messagesbad = count.messagesbad
       \/ /\ saved' = saved /\ UntoldMessages' = UntoldMessages \cup {m}
          /\ count'.messagesbad = count.messagesbad
  <2>1. CASE UNCHANGED <<saved, untold>> /\ count'.messagesbad = count.messagesbad + 1
    BY <1>3, <2>1, UntoldStay
  <2>2. CASE MessageRead(m) /\ count'.messagesbad = count.messagesbad
    <3>1. CASE saved' = saved \cup {m} /\ untold' = untold
      BY <1>3, <2>2, <3>1, UntoldStay
    <3>2. CASE saved' = saved /\ untold' = untold \cup {Message(m)}
      <4>1. UntoldMessages' = UntoldMessages \cup {m}
        BY <1>3, <3>2 DEF UntoldMessages, AllMessages, Message
      <4> QED
        BY <2>2, <3>2, <4>1
    <3> QED
      BY <2>2, <3>1, <3>2 DEF MessageRead
  <2> QED
    BY <1>7, <2>1, <2>2
<1>15. saved' \cap UntoldMessages' = {}
  BY <1>9, <1>11, <1>14 DEF MessagesRight, CountedGood
<1>16. \/ CountedGood' = CountedGood /\ count'.messagesbad = count.messagesbad + 1
       \/ CountedGood' = CountedGood \cup {m} /\ count'.messagesbad = count.messagesbad
  BY <1>14 DEF CountedGood
<1>17. count'.messages = Cardinality(CountedGood') + count'.messagesbad
  <2> DEFINE bad  == count.messagesbad
             good == Cardinality(CountedGood)
  <2>1. count.messages = good + bad /\ bad \in Nat /\ good \in Nat /\ count'.messages = (good + bad) + 1
    BY <1>2, <1>7, <1>9, <1>13 DEF MessagesRight, Counts
  <2>2. \/ Cardinality(CountedGood') = good /\ count'.messagesbad = bad + 1
        \/ Cardinality(CountedGood') = good + 1 /\ count'.messagesbad = bad
    BY <1>13, <1>16
  <2> HIDE DEF bad, good
  <2>3. (good + bad) + 1 = (good + 1) + bad /\ (good + bad) + 1 = good + (bad + 1)
    BY <2>1
  <2> QED
    BY <2>1, <2>2, <2>3
<1>18. MessagesRight(R)'
  <2>1. CountedGood' \subseteq Listed(R) \ MessagesOut'
    BY <1>9, <1>11, <1>16 DEF MessagesRight
  <2>2. MessagesOut' \subseteq Listed(R)
    BY <1>5, <1>9 DEF MessagesRight
  <2>3. /\ Answered(R) \subseteq TopicsListed' \ TopicsOut' /\ R \cap UntoldTopics = {}
        /\ IsFiniteSet(Listed(R))
        /\ count'.threads = Cardinality(Answered(R)) + count'.threadsbad
        /\ count'.messagestotal = Cardinality(Listed(R))
        /\ count'.messages = Cardinality(Listed(R) \ MessagesOut')
    BY <1>4, <1>6, <1>7, <1>9, <1>13 DEF MessagesRight
  <2> QED
    BY <1>10, <1>15, <1>17, <2>1, <2>2, <2>3 DEF MessagesRight
<1> QED
  BY <1>3, <1>6, <1>7, <1>8, <1>9, <1>18 DEF Accounted
-----------------------------------------------------------------------------
(* The first page is queued, and nothing has been counted.                 *)
LEMMA StartAccounts ==
    ASSUME CrawlInv, Fresh, NEW g \in Groups, StartCrawl(g)
    PROVE  Accounted'
<1>1. /\ ~Crawling /\ group' = g /\ queue' = [queue EXCEPT !["tdp"] = <<Page(0)>>]
      /\ UNCHANGED <<busy, mainTask, numpages, pagenum, count, saved, untold>>
  BY DEF StartCrawl, Crawling, Pool
<1>2. /\ queue = [p \in Pool |-> <<>>] /\ busy = [p \in Pool |-> {}] /\ mainTask = {}
      /\ "td" \in Pool /\ "tdp" \in Pool
  BY <1>1 DEF CrawlInv, AtRest, Pool
<1>3. queue'["td"] = <<>> /\ queue'["tdp"] = <<Page(0)>>
  BY <1>1, <1>2
<1>4. Executing' = {}
  BY <1>1, <1>2 DEF Executing
<1>5. /\ IsInjective(<<>>) /\ Range(<<>>) = {}
      /\ IsInjective(<<Page(0)>>) /\ Range(<<Page(0)>>) = {Page(0)}
  BY DEF IsInjective, Range
<1>6. NothingTwice' /\ Out' = {Page(0)}
  BY <1>3, <1>4, <1>5 DEF NothingTwice, Out
<1>7. PagesOut' = {0} /\ TopicsOut' = {} /\ MessagesOut' = {}
  BY <1>6 DEF PagesOut, TopicsOut, MessagesOut, Page, Topic, Message
<1>8. numpages' = NoPages /\ pagenum' = 0 /\ count' = NoCount /\ saved' = {} /\ untold' = {}
  BY <1>1 DEF Fresh
<1>9. PagesAsked' = {0}
  BY <1>8 DEF PagesAsked
<1>10. PagesRight'
  BY <1>7, <1>8, <1>9 DEF PagesRight
<1>11. TopicsListed' = {}
  BY <1>7, <1>9 DEF TopicsListed
<1>12. IsFiniteSet({}) /\ Cardinality({}) = 0
  BY FS_EmptySet
<1>13. TopicsRight'
  BY <1>7, <1>8, <1>11, <1>12 DEF TopicsRight, NoCount
<1>14. MessagesRight({})'
  <2>1. Listed({})' = {}
    BY DEF Listed
  <2>2. UntoldTopics' = {} /\ UntoldMessages' = {} /\ Answered({})' = {} /\ CountedGood' = {}
    BY <1>8 DEF UntoldTopics, UntoldMessages, Answered, CountedGood
  <2> QED
    BY <1>7, <1>8, <1>11, <1>12, <2>1, <2>2 DEF MessagesRight, NoCount
<1>15. count' \in Counts
  BY <1>8 DEF Counts, NoCount
<1> QED
  BY <1>6, <1>10, <1>13, <1>14, <1>15 DEF Accounted

(* No task is left: every page has been asked for, so every topic is       *)
(* counted, and every message of the topics that could be read.            *)
LEMMA EndAccounts ==
    ASSUME Accounted, group \in Seq(Seq(AllMessages)), pagenum \in Nat, Out = {},
           UNCHANGED <<group, numpages, count, saved, untold>>
    PROVE  CrawlAccounted'
<1> DEFINE final == NumPages(Len(group))
<1>1. PagesOut = {} /\ TopicsOut = {} /\ MessagesOut = {}
  BY DEF PagesOut, TopicsOut, MessagesOut
<1>2. final \in Nat
  BY LastPage
<1>3. numpages = final /\ ~(pagenum < numpages)
  BY <1>1 DEF Accounted, PagesRight
<1>4. \A t \in DOMAIN group : (t - 1) \div PageSize \in 0..final
  BY PagesReach
<1> HIDE DEF final
<1>5. PagesAsked = 0..final
  <2>1. numpages = final /\ final # NoPages /\ pagenum >= final
    BY <1>2, <1>3 DEF NoPages
  <2>2. PagesAsked = {n \in 0..pagenum : n <= final}
    BY <2>1 DEF PagesAsked
  <2> QED
    BY <1>2, <2>1, <2>2
<1>6. TopicsListed = DOMAIN group
  BY <1>1, <1>4, <1>5 DEF TopicsListed
<1>7. /\ DOMAIN group = 1..Len(group) /\ Len(group) \in Nat
      /\ IsFiniteSet(DOMAIN group) /\ Cardinality(DOMAIN group) = Len(group)
  <2>1. DOMAIN group = 1..Len(group) /\ Len(group) \in Nat
    OBVIOUS
  <2>2. 1 \in Int /\ Len(group) \in Int
    BY <2>1
  <2>3. IsFiniteSet(1..Len(group)) /\ Cardinality(1..Len(group)) = IF 1 > Len(group) THEN 0 ELSE Len(group) - 1 + 1
    BY <2>2, FS_Interval
  <2> QED
    BY <2>1, <2>3
<1>8. PICK R \in SUBSET DOMAIN group : MessagesRight(R)
  BY DEF Accounted
<1>9. /\ IsFiniteSet(Answered(R)) /\ Cardinality(Answered(R)) \in Nat
      /\ Cardinality(Answered(R)) = Len(group) => Answered(R) = DOMAIN group
  <2>1. Answered(R) \in SUBSET DOMAIN group
    BY <1>6, <1>8 DEF MessagesRight
  <2> QED
    BY <1>7, <2>1, FS_Subset, FS_CardinalityType
<1>10. count \in Counts /\ count.threads = Len(group) /\ count.threadstotal = Len(group)
  <2>1. TopicsListed \ TopicsOut = DOMAIN group
    BY <1>1, <1>6
  <2> QED
    BY <1>6, <1>7, <2>1 DEF Accounted, TopicsRight
<1>11. count.messages = count.messagestotal
  <2>1. Listed(R) \ MessagesOut = Listed(R)
    BY <1>1
  <2> QED
    BY <1>8, <2>1 DEF MessagesRight
<1>12. /\ Cardinality(saved) + Cardinality(UntoldMessages) = count.messages - count.messagesbad
       /\ saved \cap UntoldMessages = {}
  <2>1. IsFiniteSet(saved) /\ IsFiniteSet(UntoldMessages)
    <3>1. /\ IsFiniteSet(Listed(R)) /\ saved \in SUBSET Listed(R)
          /\ UntoldMessages \in SUBSET Listed(R)
      BY <1>8 DEF MessagesRight, CountedGood
    <3> QED
      BY <3>1, FS_Subset
  <2>2. Cardinality(CountedGood) \in Nat /\ count.messagesbad \in Nat
    BY <1>10, <2>1, FS_Union, FS_CardinalityType DEF Counts, CountedGood
  <2>3. count.messages = Cardinality(CountedGood) + count.messagesbad /\ saved \cap UntoldMessages = {}
    BY <1>8 DEF MessagesRight
  <2>4. Cardinality(CountedGood) = Cardinality(saved) + Cardinality(UntoldMessages)
    BY <2>1, <2>3, DisjointUnion DEF CountedGood
  <2> QED
    BY <2>2, <2>3, <2>4
<1>13. ASSUME count.threadsbad = 0, UntoldTopics = {} PROVE count.messages = Cardinality(AllMessages)
  <2>1. Cardinality(Answered(R)) = Len(group)
    <3>1. count.threads = Cardinality(Answered(R)) + count.threadsbad
      BY <1>8 DEF MessagesRight
    <3> QED
      BY <1>9, <1>10, <1>13, <3>1
  <2>2. R = DOMAIN group
    BY <1>9, <1>13, <2>1 DEF Answered
  <2>3. Listed(R) = AllMessages
    BY <2>2 DEF Listed, AllMessages, MessagesOf
  <2> QED
    BY <1>8, <1>11, <2>3 DEF MessagesRight
<1>14. AllMessages' = AllMessages /\ UntoldTopics' = UntoldTopics /\ UntoldMessages' = UntoldMessages
  BY UntoldStay DEF AllMessages
<1> QED
  BY <1>10, <1>11, <1>12, <1>13, <1>14 DEF CrawlAccounted

LEMMA SyncAccounts ==
    ASSUME CrawlInv, Accounted, group \in Seq(Seq(AllMessages)), SyncReturns
    PROVE  \/ Crawling' /\ crawl' # "over" /\ Accounted'
           \/ crawl' = "over" /\ CrawlAccounted'
<1>1. /\ crawl \in {"td", "tdp"} /\ mainTask = {} /\ queue[crawl] = <<>> /\ busy[crawl] = {}
      /\ AfterSync
  BY DEF SyncReturns, Crawling, Pool
<1>2. CASE crawl = "td"
  <2>1. queue["tdp"] = <<>> /\ busy["tdp"] = {}
    BY <1>2 DEF CrawlInv, PagesOver
  <2>2. Range(<<>>) = {}
    BY DEF Range
  <2>3. Out = {}
    BY <1>1, <1>2, <2>1, <2>2 DEF Out, Executing
  <2>4. crawl' = "over" /\ UNCHANGED <<group, numpages, count, saved, untold>>
    BY <1>1, <1>2 DEF AfterSync, Exit
  <2>5. pagenum \in Nat
    BY DEF CrawlInv, NotFailed
  <2> QED
    BY <2>3, <2>4, <2>5, EndAccounts
<1>3. CASE crawl = "tdp"
  <2>1. handles >= PageWorkers
    BY <1>1, <1>3, HandlesToClose
  <2>2. handles \in Nat /\ PageWorkers \in Nat
    BY GroupsAssumption DEF CrawlInv, HandlesCounted
  <2>3. /\ crawl' = "td"
        /\ UNCHANGED <<group, queue, busy, mainTask, numpages, pagenum, count, saved, untold>>
    BY <1>1, <1>3, <2>1, <2>2 DEF AfterSync
  <2>4. NothingTwice' /\ Out' = Out
    BY <2>3 DEF Accounted, NothingTwice, Out, Executing
  <2> QED
    BY <2>3, <2>4, SameTasks DEF Crawling, Pool
<1> QED
  BY <1>1, <1>2, <1>3

(* A step of a thread that takes, or waits for, a task or a connection.    *)
LEMMA ThreadsAccount ==
    ASSUME CrawlInv, Accounted, group \in Seq(Seq(AllMessages)),
           \/ \E p \in Pool : WorkerTakes(p) \/ WorkerSleeps(p)
           \/ MainTakes \/ MainWaits \/ \E task \in CrawlTask : TakeHandle(task)
    PROVE  Crawling' /\ crawl' # "over" /\ Accounted'
<1>1. NothingTwice /\ (Crawling => crawl # "over")
  BY DEF Accounted, Crawling, Pool
<1>2. ASSUME UNCHANGED <<crawl, group, pagenum, count, saved, untold, numpages>>, Crawling,
             NothingTwice', Out' = Out
      PROVE  Crawling' /\ crawl' # "over" /\ Accounted'
  BY <1>1, <1>2, SameTasks DEF Crawling
<1>3. ASSUME UNCHANGED <<crawl, group, queue, busy, mainTask, pagenum, count, saved, untold, numpages>>, Crawling
      PROVE  Crawling' /\ crawl' # "over" /\ Accounted'
  <2>1. NothingTwice' /\ Out' = Out
    BY <1>1, <1>3 DEF NothingTwice, Out, Executing
  <2> QED
    BY <1>2, <1>3, <2>1
<1>4. ASSUME NEW p \in Pool, WorkerTakes(p) PROVE Crawling' /\ crawl' # "over" /\ Accounted'
  <2>1. /\ Crawling /\ queue[p] # <<>> /\ queue' = [queue EXCEPT ![p] = Tail(@)]
        /\ busy' = [busy EXCEPT ![p] = @ \cup {Head(queue[p])}]
        /\ UNCHANGED <<crawl, group, mainTask, pagenum, count, saved, untold, numpages>>
    BY <1>4 DEF WorkerTakes
  <2>2. Executing' = Executing \cup {Head(queue[p])}
    BY <2>1 DEF Executing, CrawlInv, TasksInPlace, Pool
  <2> QED
    BY <1>1, <1>2, <2>1, <2>2, TakeOut
<1>5. ASSUME NEW p \in Pool, WorkerSleeps(p) PROVE Crawling' /\ crawl' # "over" /\ Accounted'
  <2>1. Crawling
    BY <1>5 DEF WorkerSleeps, CrawlInv, AtRest
  <2> QED
    BY <1>3, <1>5, <2>1 DEF WorkerSleeps
<1>6. CASE MainTakes
  <2>1. /\ Crawling /\ mainTask = {} /\ queue[crawl] # <<>> /\ queue' = [queue EXCEPT ![crawl] = Tail(@)]
        /\ mainTask' = {Head(queue[crawl])}
        /\ UNCHANGED <<crawl, group, busy, pagenum, count, saved, untold, numpages>>
    BY <1>6 DEF MainTakes
  <2>2. Executing' = Executing \cup {Head(queue[crawl])}
    BY <2>1 DEF Executing
  <2>3. crawl \in Pool
    BY <2>1 DEF Crawling
  <2> QED
    BY <1>1, <1>2, <2>1, <2>2, <2>3, TakeOut
<1>7. CASE MainWaits
  BY <1>3, <1>7 DEF MainWaits
<1>8. ASSUME NEW task, TakeHandle(task) PROVE Crawling' /\ crawl' # "over" /\ Accounted'
  BY <1>3, <1>8 DEF TakeHandle
<1> QED
  BY <1>4, <1>5, <1>6, <1>7, <1>8

(* The end of a request.                                                   *)
LEMMA AnswersAccount ==
    ASSUME CrawlInv, Accounted, group \in Groups,
           \/ \E n \in 0..Len(group) : PageRead(n) \/ PageFails(n)
           \/ \E t \in DOMAIN group : TopicFails(t) \/ TopicRead(t)
           \/ \E m \in AllMessages : MessageFails(m) \/ MessageRead(m)
    PROVE  Crawling' /\ crawl' # "over" /\ Accounted'
<1>1. group \in Seq(Seq(AllMessages))
  BY GroupsAssumption DEF AllMessages
<1>2. ASSUME NEW task, NEW more, EndTask(task, more) PROVE Crawling' /\ crawl' # "over"
  BY <1>2 DEF EndTask, CrawlInv, AtRest, Crawling, Pool
<1>3. ASSUME NEW n \in 0..Len(group), PageRead(n) PROVE Crawling' /\ crawl' # "over" /\ Accounted'
  BY <1>1, <1>2, <1>3, PageReadCounts DEF PageRead
<1>4. ASSUME NEW n \in 0..Len(group), PageFails(n) PROVE Crawling' /\ crawl' # "over" /\ Accounted'
  <2>1. /\ Page(n) \in holding /\ numpages' \in {numpages, NumPages(Len(group))}
        /\ UNCHANGED <<crawl, group, queue, busy, mainTask, pagenum, count, saved, untold>>
    BY <1>4 DEF PageFails
  <2>2. Crawling /\ crawl # "over"
    BY <2>1 DEF CrawlInv, AtRest, Crawling, Pool
  <2>3. NothingTwice' /\ Out' = Out
    BY <2>1 DEF Accounted, NothingTwice, Out, Executing
  <2>4. Accounted'
    BY <1>1, <2>1, <2>3, SameTasks
  <2> QED
    BY <2>1, <2>2, <2>4 DEF Crawling
<1>5. ASSUME NEW t \in DOMAIN group, TopicFails(t) PROVE Crawling' /\ crawl' # "over" /\ Accounted'
  BY <1>1, <1>2, <1>5, TopicFailsCounts DEF TopicFails
<1>6. ASSUME NEW t \in DOMAIN group, TopicRead(t) PROVE Crawling' /\ crawl' # "over" /\ Accounted'
  BY <1>2, <1>6, TopicReadCounts DEF TopicRead, TopicLists
<1>7. ASSUME NEW m \in AllMessages, MessageFails(m) \/ MessageRead(m)
      PROVE  Crawling' /\ crawl' # "over" /\ Accounted'
  BY <1>1, <1>2, <1>7, MessageCounts DEF MessageFails, MessageRead
<1> QED
  BY <1>3, <1>4, <1>5, <1>6, <1>7

LEMMA AccountInvStep ==
    ASSUME CrawlInv, AccountInv, [CrawlNext]_crawlVars, ~SyncReturnsSpuriously
    PROVE  AccountInv'
<1>1. \A s \in Pool : s # "no" /\ s # "over"
  BY DEF Pool
<1>2. ASSUME Crawling', crawl' # "over", Accounted' PROVE AccountInv'
  BY <1>1, <1>2 DEF AccountInv, Crawling
<1>3. CASE UNCHANGED crawlVars
  <2>1. /\ UNCHANGED <<group, crawl, queue, busy, mainTask, numpages, pagenum, count, saved, untold,
                     spurious>>
    BY <1>3 DEF crawlVars
  <2>2. Fresh' = Fresh /\ CrawlAccounted' = CrawlAccounted /\ Crawling' = Crawling
    BY <2>1 DEF Fresh, CrawlAccounted, AllMessages, Crawling, UntoldTopics, UntoldMessages
  <2>3. Accounted' = Accounted
    BY <2>1 DEF Accounted, NothingTwice, PagesRight, TopicsRight, MessagesRight, Out, Executing, PagesOut,
       TopicsOut, MessagesOut, PagesAsked, TopicsListed, Listed, AllMessages, Answered, CountedGood,
       UntoldTopics, UntoldMessages
  <2> QED
    BY <2>1, <2>2, <2>3 DEF AccountInv
<1>4. CASE CrawlNext /\ ~Crawling
  <2>1. PICK g \in Groups : StartCrawl(g)
    <3>1. /\ holding = {} /\ looking = [p \in Pool |-> 0]
      BY <1>4 DEF CrawlInv, AtRest
    <3>2. \A task, more : ~EndTask(task, more)
      BY <3>1 DEF EndTask
    <3>3. \A p \in Pool : ~WorkerTakes(p) /\ ~WorkerSleeps(p)
      BY <1>4, <3>1 DEF WorkerTakes, WorkerSleeps
    <3>4. ~MainTakes /\ ~MainWaits /\ ~SyncReturns /\ ~NoHandleLeft /\ \A task : ~TakeHandle(task)
      BY <1>4 DEF MainTakes, MainWaits, SyncReturns, TakeHandle, NoHandleLeft
    <3>5. \A x : /\ ~PageRead(x) /\ ~TopicFails(x) /\ ~TopicRead(x)
                 /\ ~MessageFails(x) /\ ~MessageRead(x)
      BY <3>2 DEF PageRead, TopicFails, TopicRead, TopicLists, MessageFails, MessageRead
    <3>6. ~CrawlStep
      BY <3>3, <3>4, <3>5 DEF CrawlStep
    <3> QED
      BY <1>4, <3>1, <3>6 DEF CrawlNext, FirstPageUnreadable, PageFails
  <2>2. Fresh /\ Crawling' /\ crawl' # "over"
    BY <2>1 DEF StartCrawl, AccountInv, Crawling, Pool
  <2> QED
    BY <1>2, <2>1, <2>2, StartAccounts
<1>5. CASE CrawlNext /\ Crawling
  <2>1. Accounted /\ group \in Groups
    BY <1>5 DEF AccountInv, CrawlInv, NotFailed
  <2>2. group \in Seq(Seq(AllMessages))
    BY <2>1, GroupsAssumption DEF AllMessages
  <2>3. CASE SyncReturns
    <3>1. CASE crawl' = "over" /\ CrawlAccounted'
      BY <1>1, <3>1 DEF AccountInv, Crawling
    <3> QED
      BY <1>2, <2>1, <2>2, <2>3, <3>1, SyncAccounts
  <2>4. CASE FirstPageUnreadable
    <3>1. crawl' = "over" /\ numpages' = NoPages
      BY <2>4 DEF FirstPageUnreadable, Exit
    <3> QED
      BY <1>1, <3>1 DEF AccountInv, Crawling, CrawlAccounted
  <2>5. ~NoHandleLeft
    BY <1>5, HandleThere DEF NoHandleLeft
  <2>6. \A g \in Groups : ~StartCrawl(g)
    BY <1>1, <1>5 DEF StartCrawl, Crawling
  <2>7. CASE \/ \E p \in Pool : WorkerTakes(p) \/ WorkerSleeps(p)
             \/ MainTakes \/ MainWaits \/ \E task \in CrawlTask : TakeHandle(task)
    BY <1>2, <2>1, <2>2, <2>7, ThreadsAccount
  <2>8. CASE \/ \E n \in 0..Len(group) : PageRead(n) \/ PageFails(n)
             \/ \E t \in DOMAIN group : TopicFails(t) \/ TopicRead(t)
             \/ \E m \in AllMessages : MessageFails(m) \/ MessageRead(m)
    BY <1>2, <2>1, <2>8, AnswersAccount
  <2> QED
    BY <1>5, <2>3, <2>4, <2>5, <2>6, <2>7, <2>8 DEF CrawlNext, CrawlStep
<1> QED
  BY <1>3, <1>4, <1>5

CountedInv == CrawlIInv /\ (spurious = 0 => AccountInv)

LEMMA CountedInvNext == CountedInv /\ [Next]_vars => CountedInv'
<1> SUFFICES ASSUME CountedInv, [Next]_vars PROVE CountedInv'
  OBVIOUS
<1>1. CrawlIInv'
  BY CrawlIInvNext DEF CountedInv
<1>2. CASE ImportFiles
  <2>1. crawl' = "no" /\ Fresh'
    BY <1>2 DEF ImportFiles, Fresh
  <2> QED
    BY <1>1, <2>1 DEF CountedInv, AccountInv, Crawling, Pool
<1>3. CASE [CrawlNext]_crawlVars
  <2>1. CASE SyncReturnsSpuriously
    <3>1. spurious' # 0
      BY <2>1 DEF SyncReturnsSpuriously, CountedInv, CrawlIInv
    <3> QED
      BY <1>1, <3>1 DEF CountedInv
  <2>2. CASE ~SyncReturnsSpuriously
    <3>1. spurious' = spurious
      BY <1>3, <2>2 DEF CrawlNext, CrawlStep, StartCrawl, WorkerTakes, WorkerSleeps, MainTakes,
         MainWaits, SyncReturns, TakeHandle, NoHandleLeft, PageRead, PageFails, TopicFails, TopicRead,
         TopicLists, MessageFails, MessageRead, EndTask, FirstPageUnreadable, crawlVars
    <3> QED
      BY <1>1, <1>3, <2>2, <3>1, AccountInvStep DEF CountedInv, CrawlIInv
  <2> QED
    BY <2>1, <2>2
<1> QED
  BY <1>2, <1>3 DEF Next, vars

(* The status printed last is true for any group, any sizes of the pools   *)
(* and of a page, and whatever could not be read.                          *)
THEOREM CrawlsAreAccounted == Spec => []CrawlAccounted
<1>1. Init => CountedInv
  <2> SUFFICES ASSUME Init PROVE CountedInv
    OBVIOUS
  <2>1. CrawlInit
    BY DEF Init
  <2>2. AccountInv
    BY <2>1 DEF CrawlInit, AccountInv, Fresh, Crawling, Pool
  <2> QED
    BY <2>1, <2>2, CrawlInvInit DEF CountedInv, CrawlIInv, CrawlInv
<1>2. CountedInv => CrawlAccounted
  BY DEF CountedInv, AccountInv, CrawlAccounted
<1> QED
  BY <1>1, <1>2, CountedInvNext, PTL DEF Spec
-----------------------------------------------------------------------------
(* Loops over sequences.  Each is a recursive function; what it computes   *)
(* is shown of the first place where it would not.                         *)
LEMMA FirstPlace ==
    ASSUME NEW T \in SUBSET Nat, T # {}
    PROVE  \E n \in T : \A m \in T : ~(m < n)
<1>1. Min(T) \in T /\ \A m \in T : Min(T) <= m
  BY LeastNatural
<1> DEFINE n == Min(T)
<1> HIDE DEF n
<1>2. n \in T /\ \A m \in T : n <= m
  BY <1>1 DEF n
<1> QED
  BY <1>2

IsUpTo(g, n, kept) ==
    g = [i \in 0..n |-> IF i = 0 THEN <<>>
                        ELSE IF i \in kept THEN Append(g[i - 1], i) ELSE g[i - 1]]

(* A loop can be run as often as one likes.                                *)
LEMMA UpToExists ==
    ASSUME NEW n \in Nat, NEW kept
    PROVE  \E g : IsUpTo(g, n, kept)
<1> DEFINE T == {k \in Nat : ~ \E g : IsUpTo(g, k, kept)}
<1> SUFFICES ASSUME T # {} PROVE FALSE
  OBVIOUS
<1>1. PICK k \in T : \A m \in T : ~(m < k)
  BY FirstPlace
<1>2. k \in Nat /\ ~ \E g : IsUpTo(g, k, kept)
  BY <1>1
<1>3. CASE k = 0
  <2> DEFINE g == [i \in 0..0 |-> <<>>]
  <2>1. IsUpTo(g, 0, kept)
    BY DEF IsUpTo
  <2> QED
    BY <1>2, <1>3, <2>1
<1>4. CASE k # 0
  <2>1. k - 1 \in Nat /\ k - 1 < k
    BY <1>2, <1>4
  <2>2. PICK f : IsUpTo(f, k - 1, kept)
    BY <1>1, <2>1
  <2> DEFINE step == IF k \in kept THEN Append(f[k - 1], k) ELSE f[k - 1]
             g == [i \in 0..k |-> IF i = k THEN step ELSE f[i]]
  <2>3. \A i \in 0..k : i # k => i \in 0..(k - 1) /\ (i # 0 => i - 1 \in 0..(k - 1) /\ i - 1 \in 0..k /\ i - 1 # k)
    BY <1>2
  <2>4. \A i \in 0..(k - 1) : f[i] = IF i = 0 THEN <<>>
                                     ELSE IF i \in kept THEN Append(f[i - 1], i) ELSE f[i - 1]
    BY <2>2 DEF IsUpTo
  <2>5. k - 1 \in 0..k /\ k - 1 # k
    BY <2>1
  <2> HIDE DEF step
  <2>6. g[k - 1] = f[k - 1] /\ g[k] = step
    BY <1>2, <2>5
  <2>7. \A i \in 0..k : g[i] = IF i = 0 THEN <<>>
                               ELSE IF i \in kept THEN Append(g[i - 1], i) ELSE g[i - 1]
    <3> SUFFICES ASSUME NEW i \in 0..k
                 PROVE  g[i] = IF i = 0 THEN <<>>
                               ELSE IF i \in kept THEN Append(g[i - 1], i) ELSE g[i - 1]
      OBVIOUS
    <3>1. CASE i = k
      BY <1>4, <2>6, <3>1 DEF step
    <3>2. CASE i # k
      <4>1. g[i] = f[i] /\ (i # 0 => g[i - 1] = f[i - 1])
        BY <2>3, <3>2
      <4> HIDE DEF g
      <4> QED
        BY <2>3, <2>4, <3>2, <4>1
    <3> QED
      BY <3>1, <3>2
  <2>8. IsUpTo(g, k, kept)
    BY <2>7 DEF IsUpTo
  <2> QED
    BY <1>2, <2>8
<1> QED
  BY <1>3, <1>4

(* The numbers kept, each once and in ascending order.                     *)
Ascending(list, n, kept) ==
    /\ list \in Seq(Nat)
    /\ \A x \in 1..Len(list) : list[x] \in kept /\ list[x] \in 1..n
    /\ \A x, y \in 1..Len(list) : x < y => list[x] < list[y]
    /\ \A i \in 1..n : i \in kept => \E x \in 1..Len(list) : list[x] = i

LEMMA NumbersRight ==
    ASSUME NEW n \in Nat, NEW kept
    PROVE  Ascending(Numbers(n, kept), n, kept)
<1> DEFINE g == CHOOSE f : IsUpTo(f, n, kept)
<1>1. IsUpTo(g, n, kept)
  BY UpToExists
<1>2. Numbers(n, kept) = g[n]
  BY DEF Numbers, IsUpTo
<1> HIDE DEF g
<1>3. \A i \in 0..n : g[i] = IF i = 0 THEN <<>>
                             ELSE IF i \in kept THEN Append(g[i - 1], i) ELSE g[i - 1]
  BY <1>1 DEF IsUpTo
<1> DEFINE T == {k \in Nat : k <= n /\ ~Ascending(g[k], k, kept)}
<1>4. T = {}
  <2> SUFFICES ASSUME T # {} PROVE FALSE
    OBVIOUS
  <2>1. PICK k \in T : \A m \in T : ~(m < k)
    BY FirstPlace
  <2>2. k \in 0..n /\ ~Ascending(g[k], k, kept)
    BY <2>1
  <2>3. CASE k = 0
    <3>1. g[k] = <<>>
      BY <1>3, <2>2, <2>3
    <3>2. Ascending(<<>>, 0, kept)
      BY DEF Ascending
    <3> QED
      BY <2>2, <2>3, <3>1, <3>2
  <2>4. CASE k # 0
    <3> DEFINE old == g[k - 1]
    <3>1. k - 1 \in Nat /\ k - 1 <= n /\ k - 1 < k /\ k \in Nat
      BY <2>2, <2>4
    <3>2. Ascending(old, k - 1, kept)
      BY <2>1, <3>1
    <3>3. g[k] = IF k \in kept THEN Append(old, k) ELSE old
      BY <1>3, <2>2, <2>4
    <3> HIDE DEF old
    <3>4. old \in Seq(Nat) /\ Len(old) \in Nat
      BY <3>2 DEF Ascending
    <3>5. CASE k \notin kept
      <4>1. \A i \in 1..k : i \in kept => i \in 1..(k - 1)
        BY <3>1, <3>5
      <4>2. 1..(k - 1) \subseteq 1..k
        BY <3>1
      <4>3. Ascending(old, k, kept)
        BY <3>2, <4>1, <4>2 DEF Ascending
      <4> QED
        BY <2>2, <3>3, <3>5, <4>3
    <3>6. CASE k \in kept
      <4> DEFINE new == Append(old, k)
      <4>1. /\ new \in Seq(Nat) /\ Len(new) = Len(old) + 1 /\ new[Len(old) + 1] = k
            /\ \A x \in 1..Len(old) : new[x] = old[x]
        BY <3>1, <3>4
      <4>2. \A x \in 1..Len(new) : x = Len(old) + 1 \/ x \in 1..Len(old)
        BY <3>4, <4>1
      <4>3. Len(old) + 1 \in 1..Len(new) /\ \A x \in 1..Len(old) : x \in 1..Len(new)
        BY <3>4, <4>1
      <4> HIDE DEF new
      <4>4. \A x \in 1..Len(new) : new[x] \in kept /\ new[x] \in 1..k
        <5> SUFFICES ASSUME NEW x \in 1..Len(new) PROVE new[x] \in kept /\ new[x] \in 1..k
          OBVIOUS
        <5>1. CASE x = Len(old) + 1
          BY <3>1, <3>6, <4>1, <5>1, <2>4
        <5>2. CASE x \in 1..Len(old)
          <6>1. old[x] \in kept /\ old[x] \in 1..(k - 1) /\ new[x] = old[x]
            BY <3>2, <4>1, <5>2 DEF Ascending
          <6> QED
            BY <3>1, <6>1
        <5> QED
          BY <4>2, <5>1, <5>2
      <4>5. \A x, y \in 1..Len(new) : x < y => new[x] < new[y]
        <5> SUFFICES ASSUME NEW x \in 1..Len(new), NEW y \in 1..Len(new), x < y PROVE new[x] < new[y]
          OBVIOUS
        <5>1. x \in 1..Len(old)
          BY <3>4, <4>1
        <5>2. CASE y = Len(old) + 1
          BY <3>1, <3>2, <4>1, <5>1, <5>2 DEF Ascending
        <5>3. CASE y \in 1..Len(old)
          BY <3>2, <4>1, <5>1, <5>3 DEF Ascending
        <5> QED
          BY <4>2, <5>2, <5>3
      <4>6. \A i \in 1..k : i \in kept => \E x \in 1..Len(new) : new[x] = i
        <5> SUFFICES ASSUME NEW i \in 1..k, i \in kept PROVE \E x \in 1..Len(new) : new[x] = i
          OBVIOUS
        <5>1. CASE i = k
          BY <4>1, <4>3, <5>1
        <5>2. CASE i # k
          <6>1. i \in 1..(k - 1)
            BY <3>1, <5>2
          <6>2. PICK x \in 1..Len(old) : old[x] = i
            BY <3>2, <6>1 DEF Ascending
          <6> QED
            BY <4>1, <4>3, <6>2
        <5> QED
          BY <5>1, <5>2
      <4>7. Ascending(new, k, kept)
        BY <4>1, <4>4, <4>5, <4>6 DEF Ascending
      <4> QED
        BY <2>2, <3>3, <3>6, <4>7 DEF new
    <3> QED
      BY <3>5, <3>6
  <2> QED
    BY <2>3, <2>4
<1>5. Ascending(g[n], n, kept)
  BY <1>4
<1> QED
  BY <1>2, <1>5

IsFlat(f, b) == f = [i \in 1..Len(b) |-> IF i = 1 THEN b[i] ELSE f[i - 1] \o b[i]]

IsPlaces(g, at, b) == g = [k \in DOMAIN b |-> IF k = 1 THEN at ELSE g[k - 1] + Len(b[k - 1])]

LEMMA FlatExists ==
    ASSUME NEW S, NEW b \in Seq(S)
    PROVE  \E f : IsFlat(f, b)
<1> DEFINE Upto(f, n) == f = [i \in 1..n |-> IF i = 1 THEN b[i] ELSE f[i - 1] \o b[i]]
           T == {n \in Nat : ~ \E f : Upto(f, n)}
<1>1. ASSUME T # {} PROVE FALSE
  <2>1. PICK k \in T : \A m \in T : ~(m < k)
    BY <1>1, FirstPlace
  <2>2. k \in Nat /\ ~ \E f : Upto(f, k)
    BY <2>1
  <2>3. k # 0
    <3> SUFFICES ASSUME k = 0 PROVE FALSE
      OBVIOUS
    <3>1. 1..k = {}
      OBVIOUS
    <3> DEFINE e == [i \in {} |-> i]
    <3>2. Upto(e, k)
      BY <3>1
    <3> QED
      BY <2>2, <3>2
  <2>4. k - 1 \in Nat /\ k - 1 < k
    BY <2>2, <2>3
  <2>5. PICK f : Upto(f, k - 1)
    BY <2>1, <2>4
  <2> DEFINE step == IF k = 1 THEN b[k] ELSE f[k - 1] \o b[k]
             g == [i \in 1..k |-> IF i = k THEN step ELSE f[i]]
  <2>6. \A i \in 1..k : /\ i # k => i \in 1..(k - 1)
                        /\ i # 1 => i - 1 \in 1..k /\ i - 1 # k
    BY <2>2
  <2>7. \A i \in 1..(k - 1) : f[i] = IF i = 1 THEN b[i] ELSE f[i - 1] \o b[i]
    BY <2>5
  <2> HIDE DEF step, Upto
  <2>8. \A i \in 1..k : g[i] = IF i = 1 THEN b[i] ELSE g[i - 1] \o b[i]
    <3> SUFFICES ASSUME NEW i \in 1..k PROVE g[i] = IF i = 1 THEN b[i] ELSE g[i - 1] \o b[i]
      OBVIOUS
    <3>1. i # 1 => g[i - 1] = f[i - 1]
      BY <2>6
    <3>2. g[i] = IF i = k THEN step ELSE f[i]
      OBVIOUS
    <3> HIDE DEF g
    <3> QED
      BY <2>6, <2>7, <3>1, <3>2 DEF step
  <2>9. Upto(g, k)
    BY <2>8 DEF Upto
  <2> QED
    BY <2>2, <2>9
<1>2. Len(b) \in Nat
  OBVIOUS
<1>3. \E f : Upto(f, Len(b))
  BY <1>1, <1>2
<1> QED
  BY <1>3 DEF IsFlat

LEMMA PlacesExist ==
    ASSUME NEW S, NEW b \in Seq(S), NEW at
    PROVE  \E g : IsPlaces(g, at, b)
<1> DEFINE Upto(f, n) == f = [i \in 1..n |-> IF i = 1 THEN at ELSE f[i - 1] + Len(b[i - 1])]
           T == {n \in Nat : ~ \E f : Upto(f, n)}
<1>1. ASSUME T # {} PROVE FALSE
  <2>1. PICK k \in T : \A m \in T : ~(m < k)
    BY <1>1, FirstPlace
  <2>2. k \in Nat /\ ~ \E f : Upto(f, k)
    BY <2>1
  <2>3. k # 0
    <3> SUFFICES ASSUME k = 0 PROVE FALSE
      OBVIOUS
    <3>1. 1..k = {}
      OBVIOUS
    <3> DEFINE e == [i \in {} |-> i]
    <3>2. Upto(e, k)
      BY <3>1
    <3> QED
      BY <2>2, <3>2
  <2>4. k - 1 \in Nat /\ k - 1 < k
    BY <2>2, <2>3
  <2>5. PICK f : Upto(f, k - 1)
    BY <2>1, <2>4
  <2> DEFINE step == IF k = 1 THEN at ELSE f[k - 1] + Len(b[k - 1])
             g == [i \in 1..k |-> IF i = k THEN step ELSE f[i]]
  <2>6. \A i \in 1..k : /\ i # k => i \in 1..(k - 1)
                        /\ i # 1 => i - 1 \in 1..k /\ i - 1 # k
    BY <2>2
  <2>7. \A i \in 1..(k - 1) : f[i] = IF i = 1 THEN at ELSE f[i - 1] + Len(b[i - 1])
    BY <2>5
  <2> HIDE DEF step, Upto
  <2>8. \A i \in 1..k : g[i] = IF i = 1 THEN at ELSE g[i - 1] + Len(b[i - 1])
    <3> SUFFICES ASSUME NEW i \in 1..k PROVE g[i] = IF i = 1 THEN at ELSE g[i - 1] + Len(b[i - 1])
      OBVIOUS
    <3>1. i # 1 => g[i - 1] = f[i - 1]
      BY <2>6
    <3>2. g[i] = IF i = k THEN step ELSE f[i]
      OBVIOUS
    <3> HIDE DEF g
    <3> QED
      BY <2>6, <2>7, <3>1, <3>2 DEF step
  <2>9. Upto(g, k)
    BY <2>8 DEF Upto
  <2> QED
    BY <2>2, <2>9
<1>2. Len(b) \in Nat /\ DOMAIN b = 1..Len(b)
  OBVIOUS
<1>3. \E f : Upto(f, Len(b))
  BY <1>1, <1>2
<1> QED
  BY <1>2, <1>3 DEF IsPlaces

(* A block that can be read at an offset.                                  *)
Lies(data, at, block) ==
    /\ at \in Nat /\ at + Len(block) <= Len(data)
    /\ \A x \in 1..Len(block) : data[at + x] = block[x]

LEMMA LiesBefore ==
    ASSUME NEW S, NEW s \in Seq(S), NEW t \in Seq(S), NEW block \in Seq(S), NEW at,
           Lies(s, at, block)
    PROVE  Lies(s \o t, at, block)
<1>1. /\ Len(s) \in Nat /\ Len(t) \in Nat /\ Len(block) \in Nat /\ at \in Nat
      /\ at + Len(block) <= Len(s) /\ Len(s \o t) = Len(s) + Len(t)
  BY DEF Lies
<1>2. \A x \in 1..Len(block) : (s \o t)[at + x] = block[x]
  <2> SUFFICES ASSUME NEW x \in 1..Len(block) PROVE (s \o t)[at + x] = block[x]
    OBVIOUS
  <2>1. at + x \in 1..Len(s)
    BY <1>1
  <2>2. (s \o t)[at + x] = s[at + x]
    BY <1>1, <2>1
  <2> QED
    BY <2>2 DEF Lies
<1> QED
  BY <1>1, <1>2 DEF Lies

LEMMA LiesAfter ==
    ASSUME NEW S, NEW s \in Seq(S), NEW t \in Seq(S), NEW block \in Seq(S), NEW at,
           Lies(t, at, block)
    PROVE  Lies(s \o t, Len(s) + at, block)
<1>1. /\ Len(s) \in Nat /\ Len(t) \in Nat /\ Len(block) \in Nat /\ at \in Nat
      /\ at + Len(block) <= Len(t) /\ Len(s \o t) = Len(s) + Len(t)
  BY DEF Lies
<1>2. \A x \in 1..Len(block) : (s \o t)[(Len(s) + at) + x] = block[x]
  <2> SUFFICES ASSUME NEW x \in 1..Len(block) PROVE (s \o t)[(Len(s) + at) + x] = block[x]
    OBVIOUS
  <2> DEFINE y == (Len(s) + at) + x
  <2>1. y \in 1..(Len(s) + Len(t)) /\ ~(y <= Len(s)) /\ y - Len(s) = at + x
    BY <1>1
  <2> HIDE DEF y
  <2>2. (s \o t)[y] = t[y - Len(s)]
    BY <1>1, <2>1
  <2>3. (s \o t)[y] = t[at + x]
    BY <2>1, <2>2
  <2> QED
    BY <2>3 DEF Lies, y
<1>3. Len(s) + at \in Nat /\ (Len(s) + at) + Len(block) <= Len(s \o t)
  BY <1>1
<1> QED
  BY <1>2, <1>3 DEF Lies

(* Each block is in what they are flattened to, where the sum of the sizes *)
(* of those before it is.                                                  *)
LEMMA FlattenRight ==
    ASSUME NEW S, NEW b \in Seq(Seq(S)), NEW at \in Nat, NEW g, IsPlaces(g, at, b)
    PROVE  /\ FlattenSeq(b) \in Seq(S)
           /\ \A k \in 1..Len(b) : /\ g[k] \in Nat /\ g[k] >= at
                                   /\ Lies(FlattenSeq(b), g[k] - at, b[k])
<1> DEFINE f == CHOOSE f : IsFlat(f, b)
           n == Len(b)
<1>1. IsFlat(f, b)
  BY FlatExists
<1>2. n \in Nat /\ DOMAIN b = 1..n /\ \A k \in 1..n : b[k] \in Seq(S)
  OBVIOUS
<1>3. FlattenSeq(b) = IF n = 0 THEN b ELSE f[n]
  BY DEF FlattenSeq, IsFlat
<1> HIDE DEF f
<1>4. \A k \in 1..n : f[k] = IF k = 1 THEN b[k] ELSE f[k - 1] \o b[k]
  BY <1>1 DEF IsFlat
<1>5. \A k \in 1..n : g[k] = IF k = 1 THEN at ELSE g[k - 1] + Len(b[k - 1])
  BY <1>2 DEF IsPlaces
<1> DEFINE Right(k) == /\ f[k] \in Seq(S)
                       /\ g[k] \in Nat /\ g[k] + Len(b[k]) = at + Len(f[k])
                       /\ \A j \in 1..k : /\ g[j] \in Nat /\ g[j] >= at
                                          /\ Lies(f[k], g[j] - at, b[j])
           T == {k \in Nat : k \in 1..n /\ ~Right(k)}
<1>6. ASSUME T # {} PROVE FALSE
  <2>1. PICK k \in T : \A m \in T : ~(m < k)
    BY <1>6, FirstPlace
  <2>2. k \in 1..n /\ k \in Nat /\ ~Right(k) /\ b[k] \in Seq(S) /\ Len(b[k]) \in Nat
    BY <1>2, <2>1
  <2>3. CASE k = 1
    <3>1. f[k] = b[k] /\ g[k] = at
      BY <1>4, <1>5, <2>2, <2>3
    <3>2. at - at = 0 /\ 0 + Len(b[k]) = Len(b[k])
      BY <2>2
    <3>3. Lies(b[k], 0, b[k])
      BY <2>2 DEF Lies
    <3>4. \A j \in 1..k : j = k
      BY <2>3
    <3>5. g[k] \in Nat /\ g[k] >= at /\ g[k] + Len(b[k]) = at + Len(f[k]) /\ f[k] \in Seq(S)
      BY <2>2, <3>1
    <3>6. Lies(f[k], g[k] - at, b[k])
      BY <3>1, <3>2, <3>3
    <3>7. \A j \in 1..k : g[j] \in Nat /\ g[j] >= at /\ Lies(f[k], g[j] - at, b[j])
      BY <3>4, <3>5, <3>6
    <3>8. Right(k)
      BY <3>5, <3>7
    <3> QED
      BY <2>2, <3>8
  <2>4. CASE k # 1
    <3> DEFINE s == f[k - 1]
               t == b[k]
    <3>1. k - 1 \in 1..n /\ k - 1 \in Nat /\ k - 1 < k
      BY <1>2, <2>2, <2>4
    <3>2. Right(k - 1)
      BY <2>1, <3>1
    <3>3. f[k] = s \o t /\ g[k] = g[k - 1] + Len(b[k - 1])
      BY <1>4, <1>5, <2>2, <2>4
    <3>4. s \in Seq(S) /\ t \in Seq(S) /\ Len(s) \in Nat /\ Len(t) \in Nat
      BY <2>2, <3>2
    <3>5. g[k] = at + Len(s)
      BY <3>2, <3>3
    <3> HIDE DEF s, t
    <3>6. s \o t \in Seq(S) /\ Len(s \o t) = Len(s) + Len(t)
      BY <3>4
    <3>7. g[k] \in Nat /\ g[k] >= at /\ g[k] - at = Len(s) /\ g[k] + Len(t) = at + (Len(s) + Len(t))
      BY <3>4, <3>5
    <3>8. Lies(s \o t, Len(s), t)
      <4>1. Lies(t, 0, t)
        BY <3>4 DEF Lies
      <4>2. Len(s) + 0 = Len(s)
        BY <3>4
      <4> QED
        BY <3>4, <4>1, <4>2, LiesAfter
    <3>9. \A j \in 1..k : g[j] \in Nat /\ g[j] >= at /\ Lies(f[k], g[j] - at, b[j])
      <4> SUFFICES ASSUME NEW j \in 1..k PROVE g[j] \in Nat /\ g[j] >= at /\ Lies(f[k], g[j] - at, b[j])
        OBVIOUS
      <4>1. CASE j = k
        BY <3>3, <3>7, <3>8, <4>1 DEF t
      <4>2. CASE j # k
        <5>1. j \in 1..(k - 1) /\ j \in 1..n
          BY <2>2, <4>2
        <5>2. g[j] \in Nat /\ g[j] >= at /\ Lies(s, g[j] - at, b[j]) /\ b[j] \in Seq(S)
          BY <1>2, <3>2, <5>1 DEF s
        <5>3. Lies(s \o t, g[j] - at, b[j])
          BY <3>4, <5>2, LiesBefore
        <5> QED
          BY <3>3, <5>2, <5>3
      <4> QED
        BY <4>1, <4>2
    <3>10. Right(k)
      BY <3>3, <3>6, <3>7, <3>9 DEF t
    <3> QED
      BY <2>2, <3>10
  <2> QED
    BY <2>3, <2>4
<1>7. CASE n = 0
  <2>1. b = <<>>
    BY <1>2, <1>7
  <2> QED
    BY <1>3, <1>7, <2>1
<1>8. CASE n # 0
  <2>1. n \in 1..n
    BY <1>2, <1>8
  <2>2. Right(n)
    BY <1>6, <1>2, <2>1
  <2> QED
    BY <1>3, <1>8, <2>2
<1> QED
  BY <1>7, <1>8
-----------------------------------------------------------------------------
(* Archives as files.                                                      *)
Unit == Msg \X Nat

(* Each entry leads to the block of a message.                             *)
Reads(pair, list) ==
    /\ list \in Seq(Msg) /\ pair.data \in Seq(Unit)
    /\ pair.meta \in Seq([offset : Nat, size : Nat]) /\ Len(pair.meta) = Len(list)
    /\ \A i \in 1..Len(list) : /\ pair.meta[i].size = Size[list[i]]
                               /\ Lies(pair.data, pair.meta[i].offset, Block(list[i]))

LEMMA BlockRight ==
    ASSUME NEW m \in Msg
    PROVE  /\ Size[m] \in Nat /\ Size[m] > 0
           /\ Block(m) \in Seq(Unit) /\ Len(Block(m)) = Size[m] /\ Block(m)[1] = <<m, 1>>
<1>1. Size[m] \in Nat /\ Size[m] > 0
  BY CollectionAssumption
<1>2. \A k \in 1..Size[m] : <<m, k>> \in Unit
  BY <1>1 DEF Unit
<1> QED
  BY <1>1, <1>2 DEF Block

LEMMA BlockOfOne ==
    ASSUME NEW m \in Msg, NEW n \in Msg, Block(m) = Block(n)
    PROVE  m = n
<1>1. <<m, 1>> = <<n, 1>>
  BY BlockRight
<1> QED
  BY <1>1

LEMMA ReadsBack ==
    ASSUME NEW pair, NEW list, Reads(pair, list), NEW i \in 1..Len(list)
    PROVE  /\ Raw(pair, i) = Block(list[i]) /\ list[i] \in Msg
           /\ Readable(pair, i) /\ Text(pair, i) = list[i]
<1> DEFINE at == pair.meta[i].offset
           block == Block(list[i])
           data == pair.data
<1>1. list[i] \in Msg
  BY DEF Reads
<1>2. block \in Seq(Unit) /\ Len(block) = pair.meta[i].size /\ Len(block) \in Nat
  BY <1>1, BlockRight DEF Reads
<1>3. Lies(data, at, block) /\ data \in Seq(Unit)
  BY DEF Reads
<1>4. Raw(pair, i) = SubSeq(data, at + 1, at + Len(block))
  BY <1>2 DEF Raw
<1> HIDE DEF at, block, data
<1>5. at \in Nat /\ at + Len(block) <= Len(data) /\ Len(data) \in Nat
  BY <1>3 DEF Lies
<1>6. \A x \in (at + 1)..(at + Len(block)) : data[x] \in Unit
  <2> SUFFICES ASSUME NEW x \in (at + 1)..(at + Len(block)) PROVE data[x] \in Unit
    OBVIOUS
  <2>1. x \in 1..Len(data)
    BY <1>2, <1>5
  <2> QED
    BY <1>3, <2>1
<1> DEFINE r == SubSeq(data, at + 1, at + Len(block))
           p == at + 1
           q == at + Len(block)
<1>7. p \in Int /\ q \in Int /\ q - p + 1 = Len(block) /\ (p <= q <=> Len(block) # 0)
  <2> DEFINE n == Len(block)
  <2>1. n \in Nat /\ at \in Nat
    BY <1>2, <1>5
  <2> HIDE DEF n
  <2>2. /\ at + 1 \in Int /\ at + n \in Int /\ (at + n) - (at + 1) + 1 = n
        /\ (at + 1 <= at + n <=> n # 0)
    BY <2>1
  <2> QED
    BY <2>2 DEF n
<1>8. \A x \in p..q : data[x] \in Unit
  BY <1>6
<1>9. r = SubSeq(data, p, q)
  OBVIOUS
<1> HIDE DEF r, p, q
<1>10. /\ SubSeq(data, p, q) \in Seq(Unit)
       /\ Len(SubSeq(data, p, q)) = IF p <= q THEN q - p + 1 ELSE 0
       /\ \A x \in 1..(q - p + 1) : SubSeq(data, p, q)[x] = data[p + x - 1]
  BY <1>7, <1>8, SubSeqProperties
<1>11. r \in Seq(Unit) /\ Len(r) = Len(block) /\ \A x \in 1..Len(block) : r[x] = data[p + x - 1]
  BY <1>2, <1>7, <1>9, <1>10
<1>12. \A x \in 1..Len(block) : r[x] = block[x]
  <2> SUFFICES ASSUME NEW x \in 1..Len(block) PROVE r[x] = block[x]
    OBVIOUS
  <2>1. p + x - 1 = at + x
    BY <1>5 DEF p
  <2>2. r[x] = data[p + x - 1]
    BY <1>11
  <2>3. data[at + x] = block[x]
    BY <1>3 DEF Lies
  <2> QED
    BY <2>1, <2>2, <2>3
<1>13. r = block
  BY <1>2, <1>11, <1>12, SeqEqual
<1>14. Raw(pair, i) = Block(list[i])
  BY <1>4, <1>13 DEF r, block
<1> QED
  BY <1>1, <1>14, BlockOfOne DEF Readable, Text

(* What a utility writes after a pair that can be read can be read.        *)
LEMMA WriteReads ==
    ASSUME NEW pair, NEW list, Reads(pair, list), NEW more \in Seq(Msg),
           NEW blocks \in Seq(Seq(Unit)), Len(blocks) = Len(more),
           \A k \in 1..Len(more) : blocks[k] = Block(more[k]),
           NEW at, at = Len(pair.data)
    PROVE  Reads(WriteFrom(pair, at, blocks), list \o more)
<1> DEFINE g == CHOOSE g : IsPlaces(g, at, blocks)
           added == [k \in DOMAIN blocks |-> [offset |-> g[k], size |-> Len(blocks[k])]]
           flat == FlattenSeq(blocks)
           meta == pair.meta \o added
           data == pair.data \o flat
           new == WriteFrom(pair, at, blocks)
<1>1. IsPlaces(g, at, blocks)
  BY PlacesExist
<1>2. new = [meta |-> meta, data |-> data]
  BY DEF WriteFrom, IsPlaces
<1> HIDE DEF g, new
<1>3. at \in Nat /\ pair.data \in Seq(Unit) /\ list \in Seq(Msg)
  BY DEF Reads
<1>4. /\ flat \in Seq(Unit)
      /\ \A k \in 1..Len(blocks) : g[k] \in Nat /\ g[k] >= at /\ Lies(flat, g[k] - at, blocks[k])
  BY <1>1, <1>3, FlattenRight
<1> DEFINE n == Len(list)
           o == Len(more)
<1>5. /\ n \in Nat /\ o \in Nat /\ DOMAIN blocks = 1..o
      /\ \A k \in 1..o : blocks[k] \in Seq(Unit) /\ Len(blocks[k]) \in Nat
  BY <1>3
<1>6. added \in Seq([offset : Nat, size : Nat]) /\ Len(added) = o
  <2>1. \A k \in 1..o : [offset |-> g[k], size |-> Len(blocks[k])] \in [offset : Nat, size : Nat]
    BY <1>4, <1>5
  <2>2. added = [k \in 1..o |-> [offset |-> g[k], size |-> Len(blocks[k])]]
    BY <1>5
  <2> QED
    BY <1>5, <2>1, <2>2
<1>7. \A k \in 1..o : added[k].offset = g[k] /\ added[k].size = Len(blocks[k])
  BY <1>5
<1> HIDE DEF flat, added
<1>8. pair.meta \in Seq([offset : Nat, size : Nat]) /\ Len(pair.meta) = n
  BY DEF Reads
<1>9. /\ meta \in Seq([offset : Nat, size : Nat]) /\ Len(meta) = n + o
      /\ \A i \in 1..(n + o) : meta[i] = IF i <= n THEN pair.meta[i] ELSE added[i - n]
  <2> DEFINE S == [offset : Nat, size : Nat]
             old == pair.meta
  <2>1. old \in Seq(S) /\ added \in Seq(S) /\ Len(old) = n /\ Len(added) = o
    BY <1>6, <1>8
  <2> HIDE DEF S, old, n, o, g
  <2>2. /\ old \o added \in Seq(S) /\ Len(old \o added) = n + o
        /\ \A i \in 1..(n + o) : (old \o added)[i] = IF i <= n THEN old[i] ELSE added[i - n]
    BY <2>1, ConcatProperties
  <2> QED
    BY <2>2 DEF S, old
<1>10. /\ list \o more \in Seq(Msg) /\ Len(list \o more) = n + o
       /\ \A i \in 1..(n + o) : (list \o more)[i] = IF i <= n THEN list[i] ELSE more[i - n]
  BY <1>3
<1>11. data \in Seq(Unit)
  BY <1>3, <1>4
<1> HIDE DEF meta, data
<1> DEFINE l == list \o more
<1>12. ASSUME NEW i \in 1..(n + o)
       PROVE  meta[i].size = Size[l[i]] /\ Lies(data, meta[i].offset, Block(l[i]))
  <2>1. CASE i <= n
    <3>1. i \in 1..n /\ meta[i] = pair.meta[i] /\ l[i] = list[i]
      BY <1>5, <1>9, <1>10, <2>1
    <3>2. list[i] \in Msg
      BY <1>3, <3>1
    <3>3. Block(list[i]) \in Seq(Unit)
      BY <3>2, BlockRight
    <3>4. pair.meta[i].size = Size[list[i]] /\ Lies(pair.data, pair.meta[i].offset, Block(list[i]))
      BY <3>1 DEF Reads
    <3>5. Lies(pair.data \o flat, pair.meta[i].offset, Block(list[i]))
      BY <1>3, <1>4, <3>3, <3>4, LiesBefore
    <3> QED
      BY <3>1, <3>4, <3>5 DEF data
  <2>2. CASE ~(i <= n)
    <3> DEFINE k == i - n
    <3>1. k \in 1..o
      BY <1>5, <2>2
    <3>11. meta[i] = added[k] /\ l[i] = more[k]
      BY <1>9, <1>10, <2>2
    <3> HIDE DEF k
    <3>2. more[k] \in Msg /\ blocks[k] = Block(more[k])
      BY <3>1
    <3>3. Block(more[k]) \in Seq(Unit) /\ Len(Block(more[k])) = Size[more[k]]
      BY <3>2, BlockRight
    <3>4. Lies(flat, g[k] - at, blocks[k]) /\ g[k] \in Nat /\ g[k] >= at
      BY <1>4, <3>1
    <3>5. Lies(pair.data \o flat, at + (g[k] - at), blocks[k])
      BY <1>3, <1>4, <3>2, <3>3, <3>4, LiesAfter
    <3>6. at + (g[k] - at) = g[k]
      BY <1>3, <3>4
    <3> QED
      BY <1>7, <3>1, <3>11, <3>2, <3>3, <3>5, <3>6 DEF data
  <2> QED
    BY <2>1, <2>2
<1>13. new.meta = meta /\ new.data = data
  BY <1>2
<1> HIDE DEF l
<1>14. l \in Seq(Msg) /\ Len(l) = n + o
  BY <1>10 DEF l
<1>15. Reads(new, l)
  BY <1>9, <1>11, <1>12, <1>13, <1>14 DEF Reads
<1> QED
  BY <1>15 DEF new, l

LEMMA WrittenReads ==
    ASSUME NEW more \in Seq(Msg), NEW blocks, DOMAIN blocks = 1..Len(more),
           blocks \in Seq(Seq(Unit)),
           \A k \in 1..Len(more) : blocks[k] = Block(more[k])
    PROVE  Reads(Written(blocks), more)
<1>1. Len(blocks) = Len(more)
  OBVIOUS
<1>2. Reads(NoPair, <<>>) /\ Len(NoPair.data) = 0
  BY DEF Reads, NoPair
<1>3. Reads(WriteFrom(NoPair, 0, blocks), <<>> \o more)
  BY <1>1, <1>2, WriteReads
<1>4. <<>> \o more = more
  BY ConcatEmptySeq
<1> QED
  BY <1>3, <1>4 DEF Written

LEMMA TextsAre ==
    ASSUME NEW pair, NEW list, Reads(pair, list)
    PROVE  Texts(pair) = list /\ list \in Seq(Msg) /\ Len(pair.meta) = Len(list)
           /\ DOMAIN pair.meta = 1..Len(list)
<1>1. /\ list \in Seq(Msg) /\ DOMAIN pair.meta = 1..Len(list) /\ DOMAIN list = 1..Len(list)
      /\ Len(pair.meta) = Len(list)
  BY DEF Reads
<1>2. \A i \in 1..Len(list) : Text(pair, i) = list[i]
  BY ReadsBack
<1>3. Texts(pair) = [i \in 1..Len(list) |-> list[i]]
  BY <1>1, <1>2 DEF Texts
<1> QED
  BY <1>1, <1>3

(* The blocks of a list of messages, and the messages of it that are kept. *)
BlocksOf(list) == [k \in 1..Len(list) |-> Block(list[k])]

Picked(list, kept) ==
    [k \in 1..Len(Numbers(Len(list), kept)) |-> list[Numbers(Len(list), kept)[k]]]

LEMMA BlocksTyped ==
    ASSUME NEW list \in Seq(Msg)
    PROVE  /\ BlocksOf(list) \in Seq(Seq(Unit)) /\ Len(BlocksOf(list)) = Len(list)
           /\ DOMAIN BlocksOf(list) = 1..Len(list)
           /\ \A k \in 1..Len(list) : BlocksOf(list)[k] = Block(list[k])
<1>1. \A k \in 1..Len(list) : list[k] \in Msg
  OBVIOUS
<1>2. \A k \in 1..Len(list) : Block(list[k]) \in Seq(Unit)
  BY <1>1, BlockRight
<1> QED
  BY <1>2 DEF BlocksOf

LEMMA BlocksConcat ==
    ASSUME NEW list \in Seq(Msg), NEW more \in Seq(Msg)
    PROVE  BlocksOf(list) \o BlocksOf(more) = BlocksOf(list \o more)
<1> DEFINE n == Len(list)
           o == Len(more)
           a == BlocksOf(list)
           b == BlocksOf(more)
           l == list \o more
           c == BlocksOf(l)
<1>1. n \in Nat /\ o \in Nat
  OBVIOUS
<1>2. /\ l \in Seq(Msg) /\ Len(l) = n + o
      /\ \A i \in 1..(n + o) : l[i] = IF i <= n THEN list[i] ELSE more[i - n]
  BY ConcatProperties
<1>3. /\ a \in Seq(Seq(Unit)) /\ Len(a) = n /\ \A k \in 1..n : a[k] = Block(list[k])
      /\ b \in Seq(Seq(Unit)) /\ Len(b) = o /\ \A k \in 1..o : b[k] = Block(more[k])
  BY BlocksTyped
<1>4. c \in Seq(Seq(Unit)) /\ Len(c) = Len(l) /\ \A k \in 1..Len(l) : c[k] = Block(l[k])
  BY <1>2, BlocksTyped
<1> HIDE DEF a, b, c, l, n, o
<1>5. /\ a \o b \in Seq(Seq(Unit)) /\ Len(a \o b) = n + o
      /\ \A i \in 1..(n + o) : (a \o b)[i] = IF i <= n THEN a[i] ELSE b[i - n]
  BY <1>3, ConcatProperties
<1>6. \A i \in 1..(n + o) : (a \o b)[i] = c[i]
  <2> SUFFICES ASSUME NEW i \in 1..(n + o) PROVE (a \o b)[i] = c[i]
    OBVIOUS
  <2>1. CASE i <= n
    <3>1. i \in 1..n
      BY <1>1, <2>1
    <3> QED
      BY <1>2, <1>3, <1>4, <1>5, <2>1, <3>1
  <2>2. CASE ~(i <= n)
    <3>1. i - n \in 1..o
      BY <1>1, <2>2
    <3> QED
      BY <1>2, <1>3, <1>4, <1>5, <2>2, <3>1
  <2> QED
    BY <2>1, <2>2
<1>7. a \o b = c
  BY <1>2, <1>4, <1>5, <1>6, SeqEqual
<1> QED
  BY <1>7 DEF a, b, c, l

LEMMA WrittenBlocks ==
    ASSUME NEW list \in Seq(Msg)
    PROVE  Reads(Written(BlocksOf(list)), list)
BY BlocksTyped, WrittenReads

(* What is kept of a list is kept in its order, and it is all there.       *)
PicksRight(list, kept, some) ==
    /\ some \in Seq(Msg)
    /\ \A x \in 1..Len(some) : \E i \in 1..Len(list) : i \in kept /\ some[x] = list[i]
    /\ \A x, y \in 1..Len(some) : x < y =>
          \E i, j \in 1..Len(list) : /\ i < j /\ i \in kept /\ j \in kept
                                     /\ some[x] = list[i] /\ some[y] = list[j]
    /\ \A i \in 1..Len(list) : i \in kept => \E x \in 1..Len(some) : some[x] = list[i]

LEMMA PickedRight ==
    ASSUME NEW list \in Seq(Msg), NEW kept
    PROVE  PicksRight(list, kept, Picked(list, kept))
<1> DEFINE n == Len(list)
           ns == Numbers(n, kept)
           some == Picked(list, kept)
<1>1. n \in Nat /\ \A i \in 1..n : list[i] \in Msg
  OBVIOUS
<1>2. Ascending(ns, n, kept)
  BY <1>1, NumbersRight
<1>3. some = [k \in 1..Len(ns) |-> list[ns[k]]]
  BY DEF Picked
<1> HIDE DEF ns, some, n
<1>4. /\ ns \in Seq(Nat) /\ Len(ns) \in Nat
      /\ \A x \in 1..Len(ns) : ns[x] \in kept /\ ns[x] \in 1..n
      /\ \A x, y \in 1..Len(ns) : x < y => ns[x] < ns[y]
      /\ \A i \in 1..n : i \in kept => \E x \in 1..Len(ns) : ns[x] = i
  BY <1>2 DEF Ascending
<1>5. some \in Seq(Msg) /\ Len(some) = Len(ns) /\ \A x \in 1..Len(ns) : some[x] = list[ns[x]]
  BY <1>1, <1>3, <1>4
<1>6. \A x \in 1..Len(some) : \E i \in 1..n : i \in kept /\ some[x] = list[i]
  BY <1>4, <1>5
<1>7. \A x, y \in 1..Len(some) : x < y =>
          \E i, j \in 1..n : i < j /\ i \in kept /\ j \in kept /\ some[x] = list[i] /\ some[y] = list[j]
  <2> SUFFICES ASSUME NEW x \in 1..Len(some), NEW y \in 1..Len(some), x < y
               PROVE  \E i, j \in 1..n : /\ i < j /\ i \in kept /\ j \in kept
                                         /\ some[x] = list[i] /\ some[y] = list[j]
    OBVIOUS
  <2> DEFINE i == ns[x]
             j == ns[y]
  <2>1. x \in 1..Len(ns) /\ y \in 1..Len(ns)
    BY <1>5
  <2>2. i \in 1..n /\ j \in 1..n /\ i < j /\ i \in kept /\ j \in kept
    BY <1>4, <2>1
  <2>3. some[x] = list[i] /\ some[y] = list[j]
    BY <1>5, <2>1
  <2> HIDE DEF i, j
  <2> QED
    BY <2>2, <2>3
<1>8. \A i \in 1..n : i \in kept => \E x \in 1..Len(some) : some[x] = list[i]
  <2> SUFFICES ASSUME NEW i \in 1..n, i \in kept PROVE \E x \in 1..Len(some) : some[x] = list[i]
    OBVIOUS
  <2>1. PICK x \in 1..Len(ns) : ns[x] = i
    BY <1>4
  <2> QED
    BY <1>5, <2>1
<1> QED
  BY <1>5, <1>6, <1>7, <1>8 DEF PicksRight, n, some

LEMMA ChosenIs ==
    ASSUME NEW pair, NEW list, Reads(pair, list), NEW kept
    PROVE  Chosen(pair, kept) = BlocksOf(Picked(list, kept)) /\ Picked(list, kept) \in Seq(Msg)
<1> DEFINE n == Len(list)
           ns == Numbers(n, kept)
           some == Picked(list, kept)
<1>1. n \in Nat /\ list \in Seq(Msg) /\ Len(pair.meta) = n
  BY TextsAre
<1>2. PicksRight(list, kept, some)
  BY <1>1, PickedRight
<1>3. Ascending(ns, n, kept)
  BY <1>1, NumbersRight
<1>4. some = [k \in 1..Len(ns) |-> list[ns[k]]]
  BY DEF Picked
<1>5. Chosen(pair, kept) = [k \in DOMAIN ns |-> Raw(pair, ns[k])]
  BY <1>1 DEF Chosen
<1> HIDE DEF ns, some
<1>6. ns \in Seq(Nat) /\ DOMAIN ns = 1..Len(ns) /\ Len(ns) \in Nat /\ \A k \in 1..Len(ns) : ns[k] \in 1..n
  BY <1>3 DEF Ascending
<1>7. some \in Seq(Msg) /\ Len(some) = Len(ns) /\ \A k \in 1..Len(ns) : some[k] = list[ns[k]]
  BY <1>2, <1>4, <1>6 DEF PicksRight
<1>8. \A k \in 1..Len(ns) : Raw(pair, ns[k]) = Block(some[k])
  BY <1>6, <1>7, ReadsBack
<1>9. Chosen(pair, kept) = BlocksOf(some)
  BY <1>5, <1>6, <1>7, <1>8 DEF BlocksOf
<1> QED
  BY <1>7, <1>9 DEF some

(* One list, or two, flattened.                                            *)
LEMMA FlattenOne ==
    ASSUME NEW S, NEW s \in Seq(S)
    PROVE  FlattenSeq(<<s>>) = s
<1> DEFINE b == <<s>>
           f == CHOOSE f : IsFlat(f, b)
<1>1. b \in Seq(Seq(S)) /\ Len(b) = 1 /\ b[1] = s
  OBVIOUS
<1>2. IsFlat(f, b)
  BY <1>1, FlatExists
<1>3. FlattenSeq(b) = IF Len(b) = 0 THEN b ELSE f[Len(b)]
  BY DEF FlattenSeq, IsFlat
<1> HIDE DEF f, b
<1>4. f[1] = b[1]
  BY <1>1, <1>2 DEF IsFlat
<1>5. FlattenSeq(b) = s
  BY <1>1, <1>3, <1>4
<1> QED
  BY <1>5 DEF b

LEMMA FlattenTwo ==
    ASSUME NEW S, NEW s \in Seq(S), NEW t \in Seq(S)
    PROVE  FlattenSeq(<<s, t>>) = s \o t
<1> DEFINE b == <<s, t>>
           f == CHOOSE f : IsFlat(f, b)
<1>1. b \in Seq(Seq(S)) /\ Len(b) = 2 /\ b[1] = s /\ b[2] = t
  OBVIOUS
<1>2. IsFlat(f, b)
  BY <1>1, FlatExists
<1>3. FlattenSeq(b) = IF Len(b) = 0 THEN b ELSE f[Len(b)]
  BY DEF FlattenSeq, IsFlat
<1> HIDE DEF f, b
<1>4. f[1] = b[1] /\ f[2] = f[1] \o b[2]
  <2>1. 1 \in 1..Len(b) /\ 2 \in 1..Len(b) /\ 2 - 1 = 1 /\ 2 # 1
    BY <1>1
  <2>2. \A i \in 1..Len(b) : f[i] = IF i = 1 THEN b[i] ELSE f[i - 1] \o b[i]
    BY <1>2 DEF IsFlat
  <2>3. f[2] = f[2 - 1] \o b[2]
    BY <2>1, <2>2
  <2> QED
    BY <2>1, <2>2, <2>3
<1>5. FlattenSeq(b) = s \o t
  BY <1>1, <1>3, <1>4
<1> QED
  BY <1>5 DEF b

(* The ids that archive a has of a list of messages.                       *)
IdsFor(a, list) == [i \in 1..Len(list) |-> IF IdOf[list[i]] = NoId THEN <<a, i>> ELSE IdOf[list[i]]]

LEMMA IdsAre ==
    ASSUME NEW pair, NEW list, Reads(pair, list), NEW a
    PROVE  IdsOf(pair, a) = IdsFor(a, list)
<1>1. DOMAIN pair.meta = 1..Len(list)
  BY TextsAre
<1>2. \A i \in 1..Len(list) : Text(pair, i) = list[i]
  BY ReadsBack
<1> QED
  BY <1>1, <1>2 DEF IdsOf, IdsFor

(* The messages of a list whose ids another one lacks.                     *)
New(other, list) ==
    {i \in 1..Len(list) : \/ IdOf[list[i]] = NoId
                          \/ \A j \in 1..Len(other) : IdOf[other[j]] # IdOf[list[i]]}

LEMMA LackingIs ==
    ASSUME NEW a \in 1..MaxArchives, NEW b \in 1..MaxArchives, a # b,
           NEW other \in Seq(Msg), NEW list \in Seq(Msg)
    PROVE  Lacking(IdsFor(a, other), IdsFor(b, list)) = New(other, list)
<1> DEFINE here == IdsFor(a, other)
           ids == IdsFor(b, list)
<1>1. /\ DOMAIN here = 1..Len(other) /\ DOMAIN ids = 1..Len(list)
      /\ \A j \in 1..Len(other) : here[j] = IF IdOf[other[j]] = NoId THEN <<a, j>> ELSE IdOf[other[j]]
      /\ \A i \in 1..Len(list) : ids[i] = IF IdOf[list[i]] = NoId THEN <<b, i>> ELSE IdOf[list[i]]
  BY DEF IdsFor
<1> HIDE DEF here, ids
<1>2. \A j \in 1..Len(other) : other[j] \in Msg
  OBVIOUS
<1>3. \A i \in 1..Len(list) : list[i] \in Msg
  OBVIOUS
<1>4. \A m \in Msg : IdOf[m] \in MsgId \cup {NoId}
  BY CollectionAssumption
<1>5. \A c \in 1..MaxArchives, k \in Nat : <<c, k>> \notin MsgId
  <2>1. MsgId \cap ((1..MaxArchives) \X Nat) = {}
    BY CollectionAssumption
  <2>2. \A c \in 1..MaxArchives, k \in Nat : <<c, k>> \in (1..MaxArchives) \X Nat
    OBVIOUS
  <2> QED
    BY <2>1, <2>2, Zenon
<1>6. ASSUME NEW i \in 1..Len(list)
      PROVE  ids[i] \notin Range(here)
                <=> \/ IdOf[list[i]] = NoId
                    \/ \A j \in 1..Len(other) : IdOf[other[j]] # IdOf[list[i]]
  <2>1. Range(here) = {here[j] : j \in 1..Len(other)}
    BY <1>1 DEF Range
  <2>2. CASE IdOf[list[i]] = NoId
    <3>1. ids[i] = <<b, i>> /\ i \in Nat
      BY <1>1, <2>2
    <3>2. ASSUME NEW j \in 1..Len(other) PROVE here[j] # ids[i]
      <4>1. CASE IdOf[other[j]] = NoId
        BY <1>1, <3>1, <4>1
      <4>2. CASE IdOf[other[j]] # NoId
        <5>1. here[j] \in MsgId
          BY <1>1, <1>2, <1>4, <4>2
        <5> QED
          BY <1>5, <3>1, <5>1
      <4> QED
        BY <4>1, <4>2
    <3> QED
      BY <2>1, <2>2, <3>2
  <2>3. CASE IdOf[list[i]] # NoId
    <3>1. ids[i] = IdOf[list[i]] /\ ids[i] \in MsgId
      BY <1>1, <1>3, <1>4, <2>3
    <3>2. ASSUME NEW j \in 1..Len(other)
          PROVE  here[j] = ids[i] <=> IdOf[other[j]] = IdOf[list[i]]
      <4>1. CASE IdOf[other[j]] = NoId
        <5>1. here[j] = <<a, j>> /\ j \in Nat
          BY <1>1, <4>1
        <5> QED
          BY <1>5, <2>3, <3>1, <4>1, <5>1
      <4>2. CASE IdOf[other[j]] # NoId
        BY <1>1, <3>1, <4>2
      <4> QED
        BY <4>1, <4>2
    <3> QED
      BY <2>1, <2>3, <3>2
  <2> QED
    BY <2>2, <2>3
<1>7. Lacking(here, ids) = {i \in 1..Len(list) : ids[i] \notin Range(here)}
  BY <1>1 DEF Lacking, Found
<1> QED
  BY <1>6, <1>7 DEF New, here, ids

LEMMA PickedAll ==
    ASSUME NEW list \in Seq(Msg)
    PROVE  Picked(list, 1..Len(list)) = list
<1> DEFINE n == Len(list)
           ns == Numbers(n, 1..n)
<1>1. n \in Nat
  OBVIOUS
<1>2. Ascending(ns, n, 1..n)
  BY <1>1, NumbersRight
<1> HIDE DEF ns
<1>3. /\ ns \in Seq(Nat) /\ Len(ns) \in Nat
      /\ \A x \in 1..Len(ns) : ns[x] \in 1..n
      /\ \A x, y \in 1..Len(ns) : x < y => ns[x] < ns[y]
      /\ \A i \in 1..n : \E x \in 1..Len(ns) : ns[x] = i
  BY <1>2 DEF Ascending
<1> HIDE DEF n
<1> DEFINE T == {x \in Nat : x \in 1..Len(ns) /\ ns[x] # x}
<1>4. ASSUME T # {} PROVE FALSE
  <2>1. PICK x \in T : \A m \in T : ~(m < x)
    BY <1>4, FirstPlace
  <2>2. x \in 1..Len(ns) /\ ns[x] # x /\ ns[x] \in 1..n
    BY <1>3, <2>1
  <2>3. \A y \in 1..Len(ns) : y < x => ns[y] = y
    BY <2>1
  <2>4. CASE ns[x] < x
    <3>1. ns[x] \in 1..Len(ns)
      BY <1>3, <2>2, <2>4
    <3>2. ns[ns[x]] = ns[x]
      BY <2>3, <2>4, <3>1
    <3>3. ns[ns[x]] < ns[x]
      BY <1>3, <2>2, <2>4, <3>1
    <3> QED
      BY <1>3, <3>1, <3>2, <3>3
  <2>5. CASE x < ns[x]
    <3>1. x \in 1..n
      BY <1>1, <2>2, <2>5
    <3>2. PICK y \in 1..Len(ns) : ns[y] = x
      BY <1>3, <3>1
    <3>3. ~(y < x) /\ y # x
      BY <2>2, <2>3, <3>2
    <3>4. x < y
      BY <1>3, <2>2, <3>2, <3>3
    <3>5. ns[x] < ns[y]
      BY <1>3, <2>2, <3>2, <3>4
    <3> QED
      BY <1>1, <2>2, <2>5, <3>2, <3>5
  <2> QED
    BY <1>1, <2>2, <2>4, <2>5
<1>5. \A x \in 1..Len(ns) : ns[x] = x
  BY <1>3, <1>4
<1>6. Len(ns) = n
  <2>1. CASE n = 0
    BY <1>3, <1>5, <2>1
  <2>2. CASE n # 0
    <3>1. n \in 1..n
      BY <1>1, <2>2
    <3>2. PICK x \in 1..Len(ns) : ns[x] = n
      BY <1>3, <3>1
    <3>3. n <= Len(ns)
      BY <1>5, <3>2
    <3>4. Len(ns) \in 1..Len(ns)
      BY <1>1, <1>3, <2>2, <3>3
    <3>5. Len(ns) <= n
      BY <1>3, <1>5, <3>4
    <3> QED
      BY <1>1, <1>3, <3>3, <3>5
  <2> QED
    BY <2>1, <2>2
<1>7. Picked(list, 1..n) = [k \in 1..n |-> list[k]]
  BY <1>5, <1>6 DEF Picked, n, ns
<1>8. list = [k \in 1..n |-> list[k]]
  BY DEF n
<1> QED
  BY <1>7, <1>8 DEF n

(* An archive in good order: its forms hold the same list of messages, and *)
(* its ids are those of that list.                                         *)
PairForm == [meta : Seq([offset : Nat, size : Nat]), data : Seq(Unit)]

Maker == {"old", "import", "kill-duplicates", "filter-newsgroups", "merge-raw", "relative-complement",
          "update-zstd", "update-zstd -o"}

ArchiveForm == [raw : PairForm, z : PairForm, mid : Seq(MsgId \cup (Nat \X Nat)), conn : BOOLEAN,
                made : Maker, from : Seq(Nat)]

Sound(r, a, list) ==
    /\ list \in Seq(Msg)
    /\ r.raw = NoPair \/ Reads(r.raw, list)
    /\ r.z = NoPair \/ Reads(r.z, list)
    /\ r.mid = <<>> \/ r.mid = IdsFor(a, list)
    /\ r.raw = NoPair /\ r.z = NoPair => list = <<>>

(* One in which 32 bits were too few.                                      *)
Broken(r) == r.made = "relative-complement" /\ Len(r.raw.data) > Wrap

RecordRight(r, a) ==
    /\ Range(r.from) \subseteq 1..(a - 1)
    /\ r.made = "relative-complement" => (r.z # NoPair => r.raw # NoPair)
    /\ Broken(r) => r.z = NoPair /\ r.mid = <<>>
    /\ ~Broken(r) => \E list : Sound(r, a, list)

ArchivesInv == /\ archive \in Seq(ArchiveForm) /\ Len(archive) \in 0..MaxArchives
               /\ \A a \in 1..Len(archive) : RecordRight(archive[a], a)

(* What no program changes in an archive there is.                         *)
SameArchive(r, s) ==
    /\ s.made = r.made /\ s.from = r.from /\ (Broken(s) <=> Broken(r))
    /\ Texts(IF s.raw # NoPair THEN s.raw ELSE s.z) = Texts(IF r.raw # NoPair THEN r.raw ELSE r.z)
    /\ r.mid # <<>> => s.mid = r.mid

ArchivesKept == /\ 1..Len(archive) \subseteq 1..Len(archive')
                /\ \A a \in 1..Len(archive) : SameArchive(archive[a], archive'[a])

LEMMA FormOf ==
    ASSUME NEW pair, NEW list, Reads(pair, list), pair = [meta |-> pair.meta, data |-> pair.data]
    PROVE  pair \in PairForm
BY DEF Reads, PairForm

LEMMA WrittenForm ==
    ASSUME NEW list \in Seq(Msg)
    PROVE  Written(BlocksOf(list)) \in PairForm /\ Reads(Written(BlocksOf(list)), list)
<1> DEFINE p == Written(BlocksOf(list))
<1>1. Reads(p, list)
  BY WrittenBlocks
<1>2. p = [meta |-> p.meta, data |-> p.data]
  BY DEF Written, WriteFrom
<1> HIDE DEF p
<1>3. p \in PairForm
  BY <1>1, <1>2, FormOf
<1> QED
  BY <1>1, <1>3 DEF p

LEMMA NoPairForm == NoPair \in PairForm /\ NoPair.meta = <<>> /\ NoPair.data = <<>> /\ Texts(NoPair) = <<>>
<1>1. Reads(NoPair, <<>>)
  BY DEF Reads, NoPair
<1>2. NoPair \in PairForm
  BY DEF NoPair, PairForm
<1> QED
  BY <1>1, <1>2, TextsAre DEF NoPair

LEMMA SoundTexts ==
    ASSUME NEW r, NEW a, NEW list, Sound(r, a, list)
    PROVE  /\ Texts(IF r.raw # NoPair THEN r.raw ELSE r.z) = list
           /\ r.raw # NoPair => Reads(r.raw, list) /\ Texts(r.raw) = list
           /\ r.z # NoPair => Reads(r.z, list) /\ Texts(r.z) = list
<1>1. /\ r.raw # NoPair => Reads(r.raw, list) /\ Texts(r.raw) = list
      /\ r.z # NoPair => Reads(r.z, list) /\ Texts(r.z) = list
  BY TextsAre DEF Sound
<1>2. CASE r.raw # NoPair
  BY <1>1, <1>2
<1>3. CASE r.raw = NoPair /\ r.z # NoPair
  BY <1>1, <1>3
<1>4. CASE r.raw = NoPair /\ r.z = NoPair
  BY <1>1, <1>4, NoPairForm DEF Sound
<1> QED
  BY <1>1, <1>2, <1>3, <1>4

LEMMA Itself ==
    ASSUME NEW r
    PROVE  SameArchive(r, r)
BY DEF SameArchive

LEMMA AppendRight ==
    ASSUME ArchivesInv, Len(archive) < MaxArchives, NEW r \in ArchiveForm,
           RecordRight(r, Len(archive) + 1), archive' = Append(archive, r)
    PROVE  ArchivesInv' /\ ArchivesKept /\ Len(archive') = Len(archive) + 1
           /\ archive'[Len(archive) + 1] = r
<1> DEFINE n == Len(archive)
<1>1. n \in Nat /\ archive \in Seq(ArchiveForm) /\ n + 1 \in 1..MaxArchives
  BY CollectionAssumption DEF ArchivesInv
<1>2. /\ archive' \in Seq(ArchiveForm) /\ Len(archive') = n + 1 /\ archive'[n + 1] = r
      /\ \A a \in 1..n : archive'[a] = archive[a]
  BY <1>1
<1> HIDE DEF n
<1>3. \A a \in 1..(n + 1) : a = n + 1 \/ a \in 1..n
  BY <1>1
<1>4. \A a \in 1..n : RecordRight(archive[a], a)
  BY DEF ArchivesInv, n
<1>5. \A a \in 1..(n + 1) : RecordRight(archive'[a], a)
  BY <1>2, <1>3, <1>4 DEF n
<1>6. ArchivesInv'
  BY <1>1, <1>2, <1>5 DEF ArchivesInv
<1>7. 1..n \subseteq 1..(n + 1)
  BY <1>1
<1>8. \A a \in 1..n : SameArchive(archive[a], archive'[a])
  BY <1>2, Itself
<1>9. ArchivesKept
  BY <1>2, <1>7, <1>8 DEF ArchivesKept, n
<1> QED
  BY <1>2, <1>6, <1>9 DEF n

LEMMA ReplaceRight ==
    ASSUME ArchivesInv, NEW s \in 1..Len(archive), NEW r \in ArchiveForm,
           RecordRight(r, s), SameArchive(archive[s], r), archive' = [archive EXCEPT ![s] = r]
    PROVE  ArchivesInv' /\ ArchivesKept /\ Len(archive') = Len(archive)
<1> DEFINE n == Len(archive)
<1>1. n \in Nat /\ archive \in Seq(ArchiveForm) /\ n \in 0..MaxArchives
  BY CollectionAssumption DEF ArchivesInv
<1>2. /\ archive' \in Seq(ArchiveForm) /\ Len(archive') = n /\ archive'[s] = r
      /\ \A a \in 1..n : a # s => archive'[a] = archive[a]
  BY <1>1
<1>3. \A a \in 1..n : RecordRight(archive'[a], a)
  BY <1>2 DEF ArchivesInv
<1>4. \A a \in 1..n : SameArchive(archive[a], archive'[a])
  BY <1>2, Itself
<1> QED
  BY <1>1, <1>2, <1>3, <1>4 DEF ArchivesInv, ArchivesKept

(* The runs of messages the tasks get are in the archive, and cover it.    *)
LEMMA SharesCover ==
    ASSUME NEW n \in Nat
    PROVE  /\ \A w \in Cpu : /\ FirstOf(n, w) \in Nat /\ FirstOf(n, w) >= 1
                             /\ LastOf(n, w) \in Nat /\ LastOf(n, w) <= n
           /\ \A i \in 1..n : \E w \in Cpu : FirstOf(n, w) <= i /\ i <= LastOf(n, w)
<1> DEFINE u == InPass(n)
           x == n + Cpus - 1
<1>1. Cpus \in Nat /\ Cpus > 0
  BY CollectionAssumption
<1>2. x \in Nat
  BY <1>1
<1>3. u = x \div Cpus
  BY DEF InPass
<1> HIDE DEF x
<1>4. u \in Nat /\ u * Cpus \in Nat /\ x < u * Cpus + Cpus
  BY <1>1, <1>2, <1>3, Quotients
<1> HIDE DEF u
<1>5. n <= u * Cpus
  <2> DEFINE p == u * Cpus
  <2>1. p \in Nat /\ x < p + Cpus
    BY <1>4
  <2> HIDE DEF p
  <2>2. n <= p
    BY <1>1, <2>1 DEF x
  <2> QED
    BY <2>2 DEF p
<1>6. ASSUME NEW w \in Cpu
      PROVE  /\ FirstOf(n, w) \in Nat /\ FirstOf(n, w) >= 1
             /\ LastOf(n, w) \in Nat /\ LastOf(n, w) <= n
  <2> DEFINE before == (w - 1) * u
             upTo == w * u
  <2>1. w \in Nat /\ w - 1 \in Nat
    BY <1>1 DEF Cpu
  <2>2. before \in Nat /\ upTo \in Nat
    BY <1>4, <2>1
  <2>3. /\ FirstOf(n, w) = (IF before < n THEN before ELSE n) + 1
        /\ LastOf(n, w) = IF upTo < n THEN upTo ELSE n
    BY DEF FirstOf, LastOf, u
  <2> HIDE DEF before, upTo
  <2> QED
    BY <2>2, <2>3
<1>7. ASSUME NEW i \in 1..n
      PROVE  \E w \in Cpu : FirstOf(n, w) <= i /\ i <= LastOf(n, w)
  <2>1. u # 0
    <3> SUFFICES ASSUME u = 0 PROVE FALSE
      OBVIOUS
    <3>1. u * Cpus = 0
      BY <1>1
    <3> QED
      BY <1>5, <3>1
  <2>2. u \in Nat \ {0} /\ i - 1 \in Nat
    BY <1>4, <2>1
  <2> DEFINE q == (i - 1) \div u
  <2>3. q \in Nat /\ q * u \in Nat /\ q * u <= i - 1 /\ i - 1 < q * u + u
    BY <2>2, Quotients
  <2> HIDE DEF q
  <2>4. q < Cpus
    <3>1. CASE q = Cpus
      <4>1. q * u = u * Cpus
        BY <1>1, <1>4, <3>1
      <4> QED
        BY <1>4, <1>5, <2>3, <4>1
    <3>2. CASE q > Cpus
      <4>1. q * u >= Cpus * u + u /\ Cpus * u \in Int
        BY <1>1, <2>2, <2>3, <3>2, Products
      <4>2. Cpus * u = u * Cpus
        BY <1>1, <1>4
      <4> DEFINE a == q * u
                 b == u * Cpus
      <4>3. a >= b + u /\ a \in Nat /\ b \in Nat /\ n <= b /\ a <= i - 1
        BY <1>4, <1>5, <2>3, <4>1, <4>2
      <4> HIDE DEF a, b
      <4>4. FALSE
        BY <1>4, <4>3
      <4> QED
        BY <4>4
    <3> QED
      BY <1>1, <2>3, <3>1, <3>2
  <2> DEFINE w == q + 1
             p == q * u
  <2>5. w \in Cpu /\ w - 1 = q
    BY <1>1, <2>3, <2>4 DEF Cpu
  <2>6. w * u = p + u
    BY <1>4, <2>3
  <2>7. /\ FirstOf(n, w) = (IF p < n THEN p ELSE n) + 1
        /\ LastOf(n, w) = IF p + u < n THEN p + u ELSE n
    BY <2>5, <2>6 DEF FirstOf, LastOf, u
  <2>8. p \in Nat /\ p <= i - 1 /\ i - 1 < p + u
    BY <2>3
  <2> HIDE DEF w, p
  <2>9. FirstOf(n, w) <= i /\ i <= LastOf(n, w)
    BY <1>4, <2>7, <2>8
  <2> QED
    BY <2>5, <2>9
<1> QED
  BY <1>6, <1>7

JobForm == [tool : {"repack-zstd", "repack-lz4", "update-zstd"}, src : Nat, old : Nat,
            overwrite : BOOLEAN, at : [Cpu -> Nat], busy : SUBSET Cpu, view : Nat, cnt : Nat,
            out : Seq(Nat)]

(* Of a job on n messages: a message that is done was kept under its own   *)
(* number.  Tasks that share a view have it to themselves while they use   *)
(* it; each has done its run up to where it is.  Numbers that were drawn   *)
(* are done or in hand.                                                    *)
Progress(j, n) ==
    /\ j \in JobForm /\ Len(j.out) = n
    /\ \A i \in 1..n : j.out[i] \in {NoIndex, i}
    /\ j.view \in 0..n /\ j.cnt \in 1..(n + 1)
    /\ Shared(j.tool) =>
          /\ \A w \in j.busy : j.view = j.at[w] /\ j.at[w] <= LastOf(n, w)
          /\ \A v, w \in j.busy : v = w
          /\ \A w \in Cpu : /\ FirstOf(n, w) <= j.at[w]
                            /\ \A i \in 1..n : FirstOf(n, w) <= i /\ i < j.at[w] => j.out[i] = i
    /\ j.tool = "repack-lz4" =>
          /\ \A w \in j.busy : j.at[w] \in 1..n
          /\ \A i \in 1..n : i < j.cnt => j.out[i] = i \/ \E w \in j.busy : j.at[w] = i

LEMMA DecompressGoesOn ==
    ASSUME NEW n \in Nat, Progress(job, n), NEW w \in Cpu, Decompress(w), JobSize = n
    PROVE  Progress(job', n) /\ UNCHANGED archive
           /\ job'.tool = job.tool /\ job'.src = job.src /\ job'.old = job.old
           /\ job'.overwrite = job.overwrite
<1>1. /\ Shared(job.tool) /\ job.busy = {} /\ job.at[w] <= LastOf(n, w) /\ UNCHANGED archive
      /\ job' = [job EXCEPT !.busy = @ \cup {w}, !.view = job.at[w]]
  BY DEF Decompress, MutexFree
<1>2. job \in JobForm
  BY DEF Progress
<1>3. LastOf(n, w) \in Nat /\ LastOf(n, w) <= n
  BY SharesCover
<1>4. job.at[w] \in Nat /\ job.at[w] \in 0..n
  BY <1>1, <1>2, <1>3 DEF JobForm
<1>5. /\ job' \in JobForm /\ job'.busy = {w} /\ job'.view = job.at[w]
      /\ job'.tool = job.tool /\ job'.src = job.src /\ job'.old = job.old
      /\ job'.overwrite = job.overwrite /\ job'.at = job.at /\ job'.cnt = job.cnt /\ job'.out = job.out
  BY <1>1, <1>2, <1>4 DEF JobForm
<1>6. job.tool # "repack-lz4"
  BY <1>1 DEF Shared
<1>7. Progress(job', n)
  BY <1>1, <1>4, <1>5, <1>6 DEF Progress
<1> QED
  BY <1>1, <1>5, <1>7

LEMMA CopyGoesOn ==
    ASSUME NEW n \in Nat, Progress(job, n), NEW w \in Cpu, CopyAndCompress(w)
    PROVE  Progress(job', n) /\ UNCHANGED archive
           /\ job'.tool = job.tool /\ job'.src = job.src /\ job'.old = job.old
           /\ job'.overwrite = job.overwrite
<1> DEFINE k == job.at[w]
           out == [job.out EXCEPT ![k] = job.view]
           at == [job.at EXCEPT ![w] = @ + 1]
           rest == job.busy \ {w}
<1>1. /\ Shared(job.tool) /\ w \in job.busy /\ UNCHANGED archive
      /\ job' = [job EXCEPT !.busy = @ \ {w}, !.out[job.at[w]] = job.view, !.at[w] = @ + 1]
  BY DEF CopyAndCompress
<1>2. job \in JobForm /\ Len(job.out) = n
  BY DEF Progress
<1>3. /\ LastOf(n, w) \in Nat /\ LastOf(n, w) <= n /\ FirstOf(n, w) \in Nat /\ FirstOf(n, w) >= 1
  BY SharesCover
<1>4. /\ job.view = k /\ k <= LastOf(n, w) /\ FirstOf(n, w) <= k /\ k \in Nat
      /\ \A v \in job.busy : v = w
  BY <1>1, <1>2 DEF Progress, JobForm
<1>5. k \in 1..n
  BY <1>3, <1>4
<1>6. /\ out \in Seq(Nat) /\ Len(out) = n /\ out[k] = k /\ \A i \in 1..n : i # k => out[i] = job.out[i]
  BY <1>2, <1>4, <1>5 DEF JobForm
<1>7. at \in [Cpu -> Nat] /\ at[w] = k + 1 /\ \A v \in Cpu : v # w => at[v] = job.at[v]
  BY <1>2, <1>4 DEF JobForm
<1>8. job' = [job EXCEPT !.busy = rest, !.out = out, !.at = at]
  BY <1>1
<1>9. rest = {} /\ rest \in SUBSET Cpu
  BY <1>1, <1>4
<1> HIDE DEF out, at, rest
<1>10. /\ job' \in JobForm /\ job'.busy = {} /\ job'.view = job.view
       /\ job'.tool = job.tool /\ job'.src = job.src /\ job'.old = job.old
       /\ job'.overwrite = job.overwrite /\ job'.at = at /\ job'.cnt = job.cnt /\ job'.out = out
  BY <1>2, <1>6, <1>7, <1>8, <1>9 DEF JobForm
<1>11. job.tool # "repack-lz4"
  BY <1>1 DEF Shared
<1> HIDE DEF k
<1>12. \A i \in 1..n : out[i] \in {NoIndex, i}
  BY <1>6 DEF Progress
<1>13. ASSUME NEW v \in Cpu
       PROVE  /\ FirstOf(n, v) <= at[v]
              /\ \A i \in 1..n : FirstOf(n, v) <= i /\ i < at[v] => out[i] = i
  <2>1. /\ FirstOf(n, v) <= job.at[v]
        /\ \A i \in 1..n : FirstOf(n, v) <= i /\ i < job.at[v] => job.out[i] = i
    BY <1>1 DEF Progress
  <2>2. FirstOf(n, v) \in Nat
    BY SharesCover
  <2>3. CASE v # w
    BY <1>5, <1>6, <1>7, <2>1, <2>3
  <2>4. CASE v = w
    <3>1. at[v] = k + 1 /\ job.at[v] = k
      BY <1>7, <2>4 DEF k
    <3>2. \A i \in 1..n : i < k + 1 => i = k \/ i < k
      BY <1>5
    <3> QED
      BY <1>5, <1>6, <2>1, <2>2, <3>1, <3>2
  <2> QED
    BY <2>3, <2>4
<1>14. Progress(job', n)
  <2>1. job'.view \in 0..n /\ job'.cnt \in 1..(n + 1)
    BY <1>10 DEF Progress
  <2>2. Shared(job'.tool) => /\ \A v \in job'.busy : job'.view = job'.at[v] /\ job'.at[v] <= LastOf(n, v)
                             /\ \A v, x \in job'.busy : v = x
    BY <1>10
  <2>3. job'.tool # "repack-lz4"
    BY <1>10, <1>11
  <2> QED
    BY <1>6, <1>10, <1>12, <1>13, <2>1, <2>2, <2>3 DEF Progress
<1> QED
  BY <1>1, <1>10, <1>14

LEMMA DrawGoesOn ==
    ASSUME NEW n \in Nat, Progress(job, n), NEW w \in Cpu, Draw(w), JobSize = n
    PROVE  Progress(job', n) /\ UNCHANGED archive
           /\ job'.tool = job.tool /\ job'.src = job.src /\ job'.old = job.old
           /\ job'.overwrite = job.overwrite
<1> DEFINE k == job.cnt
           at == [job.at EXCEPT ![w] = k]
           more == job.busy \cup {w}
<1>1. /\ job.tool = "repack-lz4" /\ w \notin job.busy /\ k <= n /\ UNCHANGED archive
      /\ job' = [job EXCEPT !.busy = @ \cup {w}, !.at[w] = job.cnt, !.cnt = @ + 1]
  BY DEF Draw
<1>2. job \in JobForm /\ k \in Nat /\ k \in 1..n
  BY <1>1 DEF Progress, JobForm
<1>3. at \in [Cpu -> Nat] /\ at[w] = k /\ \A v \in Cpu : v # w => at[v] = job.at[v]
  BY <1>2 DEF JobForm
<1>4. job' = [job EXCEPT !.busy = more, !.at = at, !.cnt = k + 1]
  BY <1>1
<1>5. more \in SUBSET Cpu /\ k + 1 \in Nat /\ k + 1 \in 1..(n + 1)
  BY <1>2 DEF JobForm
<1> HIDE DEF at, k
<1>6. /\ job' \in JobForm /\ job'.busy = more /\ job'.view = job.view
      /\ job'.tool = job.tool /\ job'.src = job.src /\ job'.old = job.old
      /\ job'.overwrite = job.overwrite /\ job'.at = at /\ job'.cnt = k + 1 /\ job'.out = job.out
  BY <1>2, <1>3, <1>4, <1>5 DEF JobForm
<1>7. ~Shared(job'.tool)
  BY <1>1, <1>6 DEF Shared
<1>8. job.busy \subseteq Cpu
  BY <1>2 DEF JobForm
<1>9. \A v \in more : at[v] \in 1..n
  <2>1. \A v \in job.busy : job.at[v] \in 1..n
    BY <1>1 DEF Progress
  <2> QED
    BY <1>2, <1>3, <1>8, <2>1
<1>10. \A i \in 1..n : i < k + 1 => job.out[i] = i \/ \E v \in more : at[v] = i
  <2> SUFFICES ASSUME NEW i \in 1..n, i < k + 1
               PROVE  job.out[i] = i \/ \E v \in more : at[v] = i
    OBVIOUS
  <2>1. CASE i = k
    BY <1>3, <2>1
  <2>2. CASE i # k
    <3>1. i < k
      BY <1>2, <2>2
    <3>2. job.out[i] = i \/ \E v \in job.busy : job.at[v] = i
      BY <1>1, <3>1 DEF Progress, k
    <3> QED
      BY <1>1, <1>3, <1>8, <3>2
  <2> QED
    BY <2>1, <2>2
<1> HIDE DEF more
<1>11. Progress(job', n)
  BY <1>5, <1>6, <1>7, <1>9, <1>10 DEF Progress
<1> QED
  BY <1>1, <1>6, <1>11

LEMMA DrawnGoesOn ==
    ASSUME NEW n \in Nat, Progress(job, n), NEW w \in Cpu, CompressDrawn(w)
    PROVE  Progress(job', n) /\ UNCHANGED archive
           /\ job'.tool = job.tool /\ job'.src = job.src /\ job'.old = job.old
           /\ job'.overwrite = job.overwrite
<1> DEFINE k == job.at[w]
           out == [job.out EXCEPT ![k] = k]
           rest == job.busy \ {w}
<1>1. /\ job.tool = "repack-lz4" /\ w \in job.busy /\ UNCHANGED archive
      /\ job' = [job EXCEPT !.busy = @ \ {w}, !.out[job.at[w]] = job.at[w]]
  BY DEF CompressDrawn
<1>2. job \in JobForm /\ Len(job.out) = n
  BY DEF Progress
<1>3. k \in 1..n
  BY <1>1 DEF Progress
<1>4. out \in Seq(Nat) /\ Len(out) = n /\ out[k] = k /\ \A i \in 1..n : i # k => out[i] = job.out[i]
  BY <1>2, <1>3 DEF JobForm
<1>5. job' = [job EXCEPT !.busy = rest, !.out = out]
  BY <1>1
<1>6. rest \in SUBSET Cpu
  BY <1>2 DEF JobForm
<1> HIDE DEF out
<1>7. /\ job' \in JobForm /\ job'.busy = rest /\ job'.view = job.view
      /\ job'.tool = job.tool /\ job'.src = job.src /\ job'.old = job.old
      /\ job'.overwrite = job.overwrite /\ job'.at = job.at /\ job'.cnt = job.cnt /\ job'.out = out
  BY <1>2, <1>4, <1>5, <1>6 DEF JobForm
<1>8. ~Shared(job'.tool)
  BY <1>1, <1>7 DEF Shared
<1>9. \A i \in 1..n : out[i] \in {NoIndex, i}
  BY <1>4 DEF Progress
<1>10. \A i \in 1..n : i < job.cnt => out[i] = i \/ \E v \in rest : job.at[v] = i
  <2> SUFFICES ASSUME NEW i \in 1..n, i < job.cnt, i # k
               PROVE  out[i] = i \/ \E v \in rest : job.at[v] = i
    BY <1>4
  <2>1. job.out[i] = i \/ \E v \in job.busy : job.at[v] = i
    BY <1>1 DEF Progress
  <2> QED
    BY <1>4, <2>1
<1>11. \A v \in rest : job.at[v] \in 1..n
  BY <1>1 DEF Progress
<1>12. job'.view \in 0..n /\ job'.cnt \in 1..(n + 1)
  BY <1>7 DEF Progress
<1> HIDE DEF rest, k
<1>13. Progress(job', n)
  BY <1>4, <1>7, <1>8, <1>9, <1>10, <1>11, <1>12 DEF Progress
<1> QED
  BY <1>1, <1>7, <1>13

(* When all tasks have ended, every message is done.                       *)
LEMMA OverIsDone ==
    ASSUME NEW n \in Nat, Progress(job, n), JobOver, JobSize = n
    PROVE  \A i \in 1..n : job.out[i] = i
<1> SUFFICES ASSUME NEW i \in 1..n PROVE job.out[i] = i
  OBVIOUS
<1>1. job \in JobForm /\ job.busy = {}
  BY DEF Progress, JobOver
<1>2. CASE Shared(job.tool)
  <2>1. PICK w \in Cpu : FirstOf(n, w) <= i /\ i <= LastOf(n, w)
    BY SharesCover
  <2>2. job.at[w] > LastOf(n, w) /\ job.at[w] \in Nat /\ LastOf(n, w) \in Nat
    BY <1>1, <1>2, SharesCover DEF JobOver, JobForm
  <2>3. i < job.at[w]
    BY <2>1, <2>2
  <2> QED
    BY <1>2, <2>1, <2>3 DEF Progress
<1>3. CASE ~Shared(job.tool)
  <2>1. job.tool = "repack-lz4"
    BY <1>1, <1>3 DEF JobForm, Shared
  <2>2. job.cnt > n /\ job.cnt \in Nat
    BY <1>1, <1>3 DEF JobOver, JobForm
  <2>3. i < job.cnt
    BY <2>2
  <2> QED
    BY <1>1, <2>1, <2>3 DEF Progress
<1> QED
  BY <1>2, <1>3

(* Archives of which all can be read.                                      *)
Good == {a \in 1..Len(archive) : ~Broken(archive[a])}

LEMMA GoodContents ==
    ASSUME ArchivesInv, NEW a \in Good
    PROVE  /\ a \in 1..MaxArchives /\ a \in 1..Len(archive)
           /\ archive[a] \in ArchiveForm
           /\ Sound(archive[a], a, Contents(a)) /\ Contents(a) \in Seq(Msg)
           /\ HasRaw(a) => Reads(archive[a].raw, Contents(a))
           /\ HasZ(a) => Reads(archive[a].z, Contents(a))
           /\ HasMid(a) => archive[a].mid = IdsFor(a, Contents(a))
<1>1. /\ a \in 1..Len(archive) /\ Len(archive) \in 0..MaxArchives /\ RecordRight(archive[a], a)
      /\ archive[a] \in ArchiveForm
  BY DEF ArchivesInv, Good
<1>2. a \in 1..MaxArchives
  BY <1>1, CollectionAssumption
<1>3. PICK list : Sound(archive[a], a, list)
  BY <1>1 DEF RecordRight, Good
<1>4. Contents(a) = list
  BY <1>3, SoundTexts DEF Contents, HasRaw
<1>5. Sound(archive[a], a, Contents(a))
  BY <1>3, <1>4
<1>6. /\ HasRaw(a) => Reads(archive[a].raw, Contents(a))
      /\ HasZ(a) => Reads(archive[a].z, Contents(a))
      /\ HasMid(a) => archive[a].mid = IdsFor(a, Contents(a))
      /\ Contents(a) \in Seq(Msg)
  BY <1>5 DEF Sound, HasRaw, HasZ, HasMid
<1> QED
  BY <1>1, <1>2, <1>5, <1>6

(* What the utilities keep.                                                *)
Firsts(list) == {i \in 1..Len(list) : \/ IdOf[list[i]] = NoId
                                      \/ \A j \in 1..(i - 1) : IdOf[list[j]] # IdOf[list[i]]}

OfGroup(list) == {i \in 1..Len(list) : list[i] \in Dated \cap InGroup}

(* How the list of a new archive comes from the lists there are.           *)
MadeOf(made, from, list) ==
    \/ made = "import" /\ from = <<>>
    \/ \E a \in Good : /\ from = <<a>>
                       /\ \/ /\ made = "kill-duplicates"
                             /\ list = Picked(Contents(a), Firsts(Contents(a)))
                          \/ /\ made = "filter-newsgroups"
                             /\ list = Picked(Contents(a), OfGroup(Contents(a)))
    \/ \E a, b \in Good :
          LET old == Contents(a)
              new == Contents(b)
          IN  /\ from = <<a, b>>
              /\ \/ made = "merge-raw" /\ list = old \o Picked(new, New(old, new))
                 \/ made = "relative-complement" /\ list = Picked(old, New(new, old))
                 \/ made = "update-zstd" /\ list = Picked(new, New(old, new)) \o old
                 \/ made = "update-zstd -o" /\ list = Picked(old, New(new, old)) \o new
    \/ \E a, b, c \in Good :
          /\ from = <<a, b, c>> /\ made = "merge-raw"
          /\ list = Contents(a) \o (Picked(Contents(b), New(Contents(a), Contents(b)))
                                    \o Picked(Contents(c), New(Contents(a), Contents(c))))

(* A step adds one archive, made of those there are, or none.              *)
Added(r) == \/ /\ Broken(r) /\ r.made = "relative-complement"
               /\ \E a, b \in Good : r.from = <<a, b>>
            \/ ~Broken(r) /\ MadeOf(r.made, r.from, Texts(IF r.raw # NoPair THEN r.raw ELSE r.z))

ArchivesStep ==
    /\ ArchivesInv' /\ ArchivesKept
    /\ \/ Len(archive') = Len(archive)
       \/ Len(archive') = Len(archive) + 1 /\ Added(archive'[Len(archive) + 1])

LEMMA NewRecord ==
    ASSUME ArchivesInv, NEW list \in Seq(Msg), NEW made \in Maker, NEW from \in Seq(1..Len(archive)),
           NEW raw \in PairForm, NEW z \in PairForm,
           \/ Reads(raw, list) /\ z = NoPair
           \/ Reads(z, list) /\ raw = NoPair /\ made # "relative-complement",
           made = "relative-complement" => Len(raw.data) <= Wrap,
           MadeOf(made, from, list), Len(archive) < MaxArchives,
           archive' = Append(archive, Archive(made, from, raw, z))
    PROVE  ArchivesStep
<1> DEFINE r == Archive(made, from, raw, z)
           n == Len(archive)
<1>1. /\ r = [raw |-> raw, z |-> z, mid |-> <<>>, conn |-> FALSE, made |-> made, from |-> from]
      /\ r.raw = raw /\ r.z = z /\ r.mid = <<>> /\ r.made = made /\ r.from = from
  BY DEF Archive
<1> HIDE DEF r
<1>2. n \in Nat
  BY DEF ArchivesInv
<1>3. from \in Seq(Nat) /\ Range(from) \subseteq 1..n
  BY DEF Range
<1>4. r \in ArchiveForm
  BY <1>1, <1>3 DEF ArchiveForm
<1>5. ~Broken(r)
  <2>1. CASE made # "relative-complement"
    BY <1>1, <2>1 DEF Broken
  <2>2. CASE made = "relative-complement"
    <3>1. raw.data \in Seq(Unit) /\ Wrap \in Nat
      BY CollectionAssumption DEF PairForm
    <3>2. ~(Len(raw.data) > Wrap)
      BY <2>2, <3>1
    <3> QED
      BY <1>1, <3>2 DEF Broken
  <2> QED
    BY <2>1, <2>2
<1>6. Sound(r, n + 1, list)
  <2>1. raw = NoPair /\ z = NoPair => list = <<>>
    <3> SUFFICES ASSUME raw = NoPair, z = NoPair PROVE list = <<>>
      OBVIOUS
    <3>1. Reads(NoPair, list)
      OBVIOUS
    <3>2. Texts(NoPair) = list
      BY <3>1, TextsAre
    <3> QED
      BY <3>2, NoPairForm
  <2> QED
    BY <1>1, <2>1 DEF Sound
<1>7. RecordRight(r, n + 1)
  <2>1. (n + 1) - 1 = n
    BY <1>2
  <2>2. made = "relative-complement" => z = NoPair
    OBVIOUS
  <2>3. \E l : Sound(r, n + 1, l)
    BY <1>6
  <2> HIDE DEF n
  <2> QED
    BY <1>1, <1>3, <1>5, <2>1, <2>2, <2>3 DEF RecordRight
<1>8. archive' = Append(archive, r)
  BY DEF r
<1>9. ArchivesInv' /\ ArchivesKept /\ Len(archive') = n + 1 /\ archive'[n + 1] = r
  BY <1>4, <1>7, <1>8, AppendRight
<1>10. Texts(IF r.raw # NoPair THEN r.raw ELSE r.z) = list
  BY <1>6, SoundTexts
<1>11. Added(r)
  BY <1>1, <1>5, <1>10 DEF Added
<1> QED
  BY <1>9, <1>11 DEF ArchivesStep

LEMMA GoodRaws ==
    ASSUME ArchivesInv, NEW a \in Raws
    PROVE  a \in Good /\ HasRaw(a) /\ Reads(archive[a].raw, Contents(a))
           /\ DOMAIN archive = 1..Len(archive)
<1>1. DOMAIN archive = 1..Len(archive)
  BY DEF ArchivesInv
<1>2. a \in Good /\ HasRaw(a)
  BY <1>1 DEF Raws, Good, Wrapped, Broken
<1> QED
  BY <1>1, <1>2, GoodContents

(* The directory that is imported, as it is listed.                        *)
LEMMA ListHasAll ==
    ASSUME NEW names, IsFiniteSet(names), NEW list \in SetToSeqs(names)
    PROVE  /\ list \in Seq(names) /\ DOMAIN list = 1..Len(list)
           /\ Range(list) = names
<1> DEFINE n == Cardinality(names)
<1>1. list \in [1..n -> names] /\ \A i, j \in 1..n : i # j => list[i] # list[j]
  BY DEF SetToSeqs
<1>2. n \in Nat
  BY FS_CardinalityType
<1>3. IsFiniteSet(1..n) /\ Cardinality(1..n) = n
  <2> HIDE DEF n
  <2>1. IsFiniteSet(1..n) /\ Cardinality(1..n) = IF 1 > n THEN 0 ELSE n - 1 + 1
    BY <1>2, FS_Interval
  <2> QED
    BY <1>2, <2>1
<1>4. list \in Injection(1..n, names)
  <2>1. \A a, b \in 1..n : list[a] = list[b] => a = b
    BY <1>1
  <2> HIDE DEF n
  <2> QED
    BY <1>1, <2>1 DEF Injection, IsInjective
<1>5. list \in Surjection(1..n, names)
  BY <1>3, <1>4, FS_Injection
<1> HIDE DEF n
<1>6. list \in Seq(names) /\ Len(list) = n /\ DOMAIN list = 1..n
  BY <1>1, <1>2
<1>7. \A m \in names : \E i \in 1..n : list[i] = m
  BY <1>5 DEF Surjection
<1> QED
  BY <1>1, <1>6, <1>7 DEF Range

LEMMA FilesListed ==
    ASSUME NEW files, IsFiniteSet(DOMAIN files), Range(files) \subseteq Msg,
           NEW names \in SetToSeqs(DOMAIN files),
           NEW list, list = [i \in DOMAIN names |-> files[names[i]]]
    PROVE  /\ list \in Seq(Msg) /\ DOMAIN list = 1..Len(list) /\ Range(list) = Range(files)
           /\ [i \in DOMAIN names |-> Block(files[names[i]])] = BlocksOf(list)
<1>1. names \in Seq(DOMAIN files) /\ DOMAIN names = 1..Len(names) /\ Range(names) = DOMAIN files
  BY ListHasAll
<1>2. Len(names) \in Nat /\ \A i \in 1..Len(names) : names[i] \in DOMAIN files
  BY <1>1
<1>3. \A i \in 1..Len(names) : list[i] = files[names[i]] /\ list[i] \in Msg
  BY <1>1, <1>2 DEF Range
<1>4. list = [i \in 1..Len(names) |-> files[names[i]]]
  BY <1>1
<1>5. list \in Seq(Msg) /\ DOMAIN list = 1..Len(list) /\ DOMAIN list = 1..Len(names)
  BY <1>2, <1>3, <1>4
<1>6. Range(list) = Range(files)
  <2>1. ASSUME NEW m \in Range(list) PROVE m \in Range(files)
    <3>1. PICK i \in 1..Len(names) : m = list[i]
      BY <1>5 DEF Range
    <3> QED
      BY <1>2, <1>3, <3>1 DEF Range
  <2>2. ASSUME NEW m \in Range(files) PROVE m \in Range(list)
    <3>1. PICK name \in DOMAIN files : m = files[name]
      BY DEF Range
    <3>2. PICK i \in 1..Len(names) : name = names[i]
      BY <1>1 DEF Range
    <3> QED
      BY <1>3, <1>5, <3>1, <3>2 DEF Range
  <2> QED
    BY <2>1, <2>2
<1>7. [i \in DOMAIN names |-> Block(files[names[i]])] = [i \in DOMAIN list |-> Block(list[i])]
  BY <1>1, <1>3, <1>5
<1> QED
  BY <1>5, <1>6, <1>7 DEF BlocksOf

LEMMA ImportAdds ==
    ASSUME ArchivesInv, NEW files, IsFiniteSet(DOMAIN files), Range(files) \subseteq Msg, Import(files)
    PROVE  ArchivesStep
<1>1. PICK names \in SetToSeqs(DOMAIN files) :
          Add(Archive("import", <<>>, Written([i \in DOMAIN names |-> Block(files[names[i]])]), NoPair))
  BY DEF Import
<1>2. PICK list : list = [i \in DOMAIN names |-> files[names[i]]]
  OBVIOUS
<1>3. /\ list \in Seq(Msg) /\ DOMAIN list = 1..Len(list)
      /\ [i \in DOMAIN names |-> Block(files[names[i]])] = BlocksOf(list)
  BY <1>2, FilesListed
<1>4. /\ Len(archive) < MaxArchives
      /\ archive' = Append(archive, Archive("import", <<>>, Written(BlocksOf(list)), NoPair))
  BY <1>1, <1>3 DEF Add
<1>5. MadeOf("import", <<>>, list)
  BY DEF MadeOf
<1>6. <<>> \in Seq(1..Len(archive))
  OBVIOUS
<1>7. "import" \in Maker
  BY DEF Maker
<1> QED
  BY <1>3, <1>4, <1>5, <1>6, <1>7, WrittenForm, NoPairForm, NewRecord

LEMMA KillAdds ==
    ASSUME ArchivesInv, NEW a, KillDuplicates(a)
    PROVE  ArchivesStep
<1> DEFINE raw == archive[a].raw
           list == Contents(a)
           kept == {i \in DOMAIN raw.meta :
                       \/ IdOf[Text(raw, i)] = NoId
                       \/ \A j \in 1..(i - 1) : IdOf[Text(raw, j)] # IdOf[Text(raw, i)]}
           some == Picked(list, kept)
<1>1. a \in Raws /\ Add(Archive("kill-duplicates", <<a>>, Written(Chosen(raw, kept)), NoPair))
  BY DEF KillDuplicates
<1>2. a \in Good /\ Reads(raw, list) /\ list \in Seq(Msg) /\ a \in 1..Len(archive)
  BY <1>1, GoodRaws, GoodContents
<1>3. \A i \in 1..Len(list) : Text(raw, i) = list[i]
  BY <1>2, ReadsBack
<1>4. DOMAIN raw.meta = 1..Len(list) /\ Len(list) \in Nat
  BY <1>2, TextsAre
<1>5. kept = Firsts(list)
  <2>1. \A i \in 1..Len(list) : \A j \in 1..(i - 1) : j \in 1..Len(list)
    BY <1>4
  <2>2. \A i \in 1..Len(list) : (\A j \in 1..(i - 1) : IdOf[Text(raw, j)] # IdOf[Text(raw, i)])
                              <=> \A j \in 1..(i - 1) : IdOf[list[j]] # IdOf[list[i]]
    BY <1>3, <2>1
  <2> QED
    BY <1>3, <1>4, <2>2 DEF Firsts
<1> HIDE DEF kept
<1>6. Chosen(raw, kept) = BlocksOf(some) /\ some \in Seq(Msg)
  BY <1>2, ChosenIs
<1>7. /\ Len(archive) < MaxArchives
      /\ archive' = Append(archive, Archive("kill-duplicates", <<a>>, Written(BlocksOf(some)), NoPair))
  BY <1>1, <1>6 DEF Add
<1>8. MadeOf("kill-duplicates", <<a>>, some)
  BY <1>2, <1>5 DEF MadeOf
<1>9. <<a>> \in Seq(1..Len(archive))
  BY <1>2
<1>10. "kill-duplicates" \in Maker
  BY DEF Maker
<1> HIDE DEF some
<1> QED
  BY <1>6, <1>7, <1>8, <1>9, <1>10, WrittenForm, NoPairForm, NewRecord

LEMMA FilterAdds ==
    ASSUME ArchivesInv, NEW a, FilterNewsgroups(a)
    PROVE  ArchivesStep
<1> DEFINE raw == archive[a].raw
           list == Contents(a)
           kept == {i \in DOMAIN raw.meta : Text(raw, i) \in Dated \cap InGroup}
           some == Picked(list, kept)
<1>1. a \in Raws /\ Add(Archive("filter-newsgroups", <<a>>, Written(Chosen(raw, kept)), NoPair))
  BY DEF FilterNewsgroups
<1>2. a \in Good /\ Reads(raw, list) /\ list \in Seq(Msg) /\ a \in 1..Len(archive)
  BY <1>1, GoodRaws, GoodContents
<1>3. \A i \in 1..Len(list) : Text(raw, i) = list[i]
  BY <1>2, ReadsBack
<1>4. DOMAIN raw.meta = 1..Len(list) /\ Len(list) \in Nat
  BY <1>2, TextsAre
<1>5. kept = OfGroup(list)
  BY <1>3, <1>4 DEF OfGroup
<1> HIDE DEF kept
<1>6. Chosen(raw, kept) = BlocksOf(some) /\ some \in Seq(Msg)
  BY <1>2, ChosenIs
<1>7. /\ Len(archive) < MaxArchives
      /\ archive' = Append(archive, Archive("filter-newsgroups", <<a>>, Written(BlocksOf(some)), NoPair))
  BY <1>1, <1>6 DEF Add
<1>8. MadeOf("filter-newsgroups", <<a>>, some)
  BY <1>2, <1>5 DEF MadeOf
<1>9. <<a>> \in Seq(1..Len(archive))
  BY <1>2
<1>10. "filter-newsgroups" \in Maker
  BY DEF Maker
<1> HIDE DEF some
<1> QED
  BY <1>6, <1>7, <1>8, <1>9, <1>10, WrittenForm, NoPairForm, NewRecord

LEMMA IdsTyped ==
    ASSUME NEW a \in Nat, NEW list \in Seq(Msg)
    PROVE  IdsFor(a, list) \in Seq(MsgId \cup (Nat \X Nat)) /\ Len(IdsFor(a, list)) = Len(list)
<1>1. \A i \in 1..Len(list) : list[i] \in Msg
  OBVIOUS
<1>2. \A m \in Msg : IdOf[m] \in MsgId \cup {NoId}
  BY CollectionAssumption
<1> DEFINE S == MsgId \cup (Nat \X Nat)
<1>3. \A i \in 1..Len(list) : (IF IdOf[list[i]] = NoId THEN <<a, i>> ELSE IdOf[list[i]]) \in S
  BY <1>1, <1>2
<1> HIDE DEF S
<1>4. IdsFor(a, list) \in Seq(S) /\ Len(IdsFor(a, list)) = Len(list)
  BY <1>3 DEF IdsFor
<1> QED
  BY <1>4 DEF S

(* The messages of one archive that another one lacks.                     *)
LEMMA ChosenLacking ==
    ASSUME ArchivesInv, NEW a \in Good, NEW b \in Good, a # b, HasMid(a), HasMid(b),
           NEW pair, Reads(pair, Contents(b))
    PROVE  /\ Lacking(archive[a].mid, archive[b].mid) = New(Contents(a), Contents(b))
           /\ Chosen(pair, Lacking(archive[a].mid, archive[b].mid))
                = BlocksOf(Picked(Contents(b), New(Contents(a), Contents(b))))
           /\ Picked(Contents(b), New(Contents(a), Contents(b))) \in Seq(Msg)
<1>1. /\ archive[a].mid = IdsFor(a, Contents(a)) /\ archive[b].mid = IdsFor(b, Contents(b))
      /\ Contents(a) \in Seq(Msg) /\ Contents(b) \in Seq(Msg)
      /\ a \in 1..MaxArchives /\ b \in 1..MaxArchives
  BY GoodContents
<1>2. Lacking(archive[a].mid, archive[b].mid) = New(Contents(a), Contents(b))
  BY <1>1, LackingIs
<1> QED
  BY <1>2, ChosenIs

LEMMA SingleList ==
    ASSUME NEW f, NEW x, f = [k \in 1..1 |-> x]
    PROVE  f = <<x>>
OBVIOUS

LEMMA MergedAdds ==
    ASSUME ArchivesInv, NEW a \in Good, HasRaw(a), NEW more \in Seq(Msg),
           NEW from \in Seq(1..Len(archive)),
           MadeOf("merge-raw", from, Contents(a) \o more),
           Add(Archive("merge-raw", from,
               WriteFrom(archive[a].raw, Len(archive[a].raw.data), BlocksOf(more)), NoPair))
    PROVE  ArchivesStep
<1> DEFINE raw == archive[a].raw
           pair == WriteFrom(raw, Len(raw.data), BlocksOf(more))
           list == Contents(a) \o more
<1>1. Reads(raw, Contents(a)) /\ Contents(a) \in Seq(Msg)
  BY GoodContents
<1>2. Reads(pair, list)
  BY <1>1, BlocksTyped, WriteReads
<1>3. pair = [meta |-> pair.meta, data |-> pair.data]
  BY DEF WriteFrom
<1>4. /\ Len(archive) < MaxArchives
      /\ archive' = Append(archive, Archive("merge-raw", from, pair, NoPair))
  BY DEF Add
<1> HIDE DEF pair
<1>5. pair \in PairForm
  BY <1>2, <1>3, FormOf
<1>6. list \in Seq(Msg)
  BY <1>1
<1>7. "merge-raw" \in Maker
  BY DEF Maker
<1> HIDE DEF list
<1>8. MadeOf("merge-raw", from, list)
  BY DEF list
<1> QED
  BY <1>2, <1>4, <1>5, <1>6, <1>7, <1>8, NoPairForm, NewRecord

LEMMA MergeTwoAdds ==
    ASSUME ArchivesInv, NEW a, NEW b, a # b, MergeRaw(<<a, b>>)
    PROVE  ArchivesStep
<1> DEFINE s == <<a, b>>
           raw == archive[a].raw
           mid == archive[a].mid
           f == [k \in 1..(Len(s) - 1) |->
                    Chosen(archive[s[k + 1]].raw, Lacking(mid, archive[s[k + 1]].mid))]
           more == Picked(Contents(b), New(Contents(a), Contents(b)))
<1>1. /\ Range(s) \subseteq Raws /\ \A c \in Range(s) : HasMid(c)
      /\ Add(Archive("merge-raw", s, WriteFrom(raw, Len(raw.data), FlattenSeq(f)), NoPair))
  BY DEF MergeRaw, Merged
<1>2. a \in Raws /\ b \in Raws /\ HasMid(a) /\ HasMid(b)
  <2>1. a \in Range(s) /\ b \in Range(s)
    BY DEF Range
  <2> QED
    BY <1>1, <2>1
<1>3. /\ a \in Good /\ b \in Good /\ HasRaw(a) /\ Reads(archive[b].raw, Contents(b))
      /\ a \in 1..Len(archive) /\ b \in 1..Len(archive)
  BY <1>2, GoodRaws, GoodContents
<1>4. Chosen(archive[b].raw, Lacking(mid, archive[b].mid)) = BlocksOf(more) /\ more \in Seq(Msg)
  BY <1>2, <1>3, ChosenLacking
<1> HIDE DEF more
<1>5. f = <<BlocksOf(more)>>
  <2>1. f = [k \in 1..1 |-> BlocksOf(more)]
    BY <1>4
  <2> QED
    BY <2>1, SingleList
<1>6. FlattenSeq(f) = BlocksOf(more)
  BY <1>4, <1>5, BlocksTyped, FlattenOne
<1> HIDE DEF f
<1>7. MadeOf("merge-raw", <<a, b>>, Contents(a) \o more)
  BY <1>3 DEF MadeOf, more
<1>8. <<a, b>> \in Seq(1..Len(archive))
  BY <1>3
<1> QED
  BY <1>1, <1>3, <1>4, <1>6, <1>7, <1>8, MergedAdds

LEMMA MergeThreeAdds ==
    ASSUME ArchivesInv, NEW a, NEW b, NEW c, a # b, a # c, MergeRaw(<<a, b, c>>)
    PROVE  ArchivesStep
<1> DEFINE s == <<a, b, c>>
           raw == archive[a].raw
           mid == archive[a].mid
           f == [k \in 1..(Len(s) - 1) |->
                    Chosen(archive[s[k + 1]].raw, Lacking(mid, archive[s[k + 1]].mid))]
           one == Picked(Contents(b), New(Contents(a), Contents(b)))
           two == Picked(Contents(c), New(Contents(a), Contents(c)))
<1>1. /\ Range(s) \subseteq Raws /\ \A d \in Range(s) : HasMid(d)
      /\ Add(Archive("merge-raw", s, WriteFrom(raw, Len(raw.data), FlattenSeq(f)), NoPair))
  BY DEF MergeRaw, Merged
<1>2. a \in Raws /\ b \in Raws /\ c \in Raws /\ HasMid(a) /\ HasMid(b) /\ HasMid(c)
  <2>1. a \in Range(s) /\ b \in Range(s) /\ c \in Range(s)
    BY DEF Range
  <2> QED
    BY <1>1, <2>1
<1>3. /\ a \in Good /\ b \in Good /\ c \in Good /\ HasRaw(a)
      /\ Reads(archive[b].raw, Contents(b)) /\ Reads(archive[c].raw, Contents(c))
      /\ a \in 1..Len(archive) /\ b \in 1..Len(archive) /\ c \in 1..Len(archive)
  BY <1>2, GoodRaws, GoodContents
<1>4. /\ Chosen(archive[b].raw, Lacking(mid, archive[b].mid)) = BlocksOf(one) /\ one \in Seq(Msg)
      /\ Chosen(archive[c].raw, Lacking(mid, archive[c].mid)) = BlocksOf(two) /\ two \in Seq(Msg)
  BY <1>2, <1>3, ChosenLacking
<1> HIDE DEF one, two
<1>5. f = <<BlocksOf(one), BlocksOf(two)>>
  <2>1. f = [k \in 1..2 |-> IF k = 1 THEN BlocksOf(one) ELSE BlocksOf(two)]
    BY <1>4
  <2> HIDE DEF f
  <2> QED
    BY <2>1
<1>6. FlattenSeq(f) = BlocksOf(one \o two)
  <2>1. BlocksOf(one) \in Seq(Seq(Unit)) /\ BlocksOf(two) \in Seq(Seq(Unit))
    BY <1>4, BlocksTyped
  <2>2. FlattenSeq(f) = BlocksOf(one) \o BlocksOf(two)
    BY <1>5, <2>1, FlattenTwo
  <2> QED
    BY <1>4, <2>2, BlocksConcat
<1> HIDE DEF f
<1>7. MadeOf("merge-raw", <<a, b, c>>, Contents(a) \o (one \o two))
  BY <1>3 DEF MadeOf, one, two
<1>8. <<a, b, c>> \in Seq(1..Len(archive))
  BY <1>3
<1>9. one \o two \in Seq(Msg)
  BY <1>4
<1> QED
  BY <1>1, <1>3, <1>6, <1>7, <1>8, <1>9, MergedAdds

LEMMA EntryOf ==
    ASSUME NEW S, NEW s \in Seq(S)
    PROVE  /\ s = [i \in 1..Len(s) |-> s[i]] /\ Len(s) \in Nat /\ DOMAIN s = 1..Len(s)
           /\ \A i \in 1..Len(s) : s[i] \in S
OBVIOUS

(* Offsets that fit are not changed by 32 bits.                            *)
LEMMA NarrowFits ==
    ASSUME NEW pair \in PairForm, NEW list, Reads(pair, list), Len(pair.data) <= Wrap
    PROVE  [pair EXCEPT !.meta = [i \in DOMAIN pair.meta |->
                                     [pair.meta[i] EXCEPT !.offset = @ % Wrap]]] = pair
<1>1. /\ pair.meta \in Seq([offset : Nat, size : Nat]) /\ DOMAIN pair.meta = 1..Len(list)
      /\ list \in Seq(Msg)
  BY TextsAre DEF Reads
<1>2. ASSUME NEW i \in 1..Len(list)
      PROVE  [pair.meta[i] EXCEPT !.offset = @ % Wrap] = pair.meta[i]
  <2> DEFINE x == pair.meta[i].offset
             w == Len(pair.data)
  <2>1. /\ Lies(pair.data, x, Block(list[i])) /\ list[i] \in Msg /\ pair.data \in Seq(Unit)
    BY <1>1 DEF Reads
  <2>2. /\ x \in Nat /\ x + Len(Block(list[i])) <= w /\ w \in Nat
    BY <2>1 DEF Lies
  <2>3. Len(Block(list[i])) \in Nat /\ Len(Block(list[i])) > 0
    BY <2>1, BlockRight
  <2>4. Wrap \in Nat \ {0}
    BY CollectionAssumption
  <2>5. x < Wrap
    BY <2>2, <2>3, <2>4
  <2>6. pair.meta[i] \in [offset : Nat, size : Nat]
    BY <1>1, EntryOf
  <2> HIDE DEF x, w
  <2>7. x % Wrap = x
    BY <2>2, <2>4, <2>5
  <2>8. [pair.meta[i] EXCEPT !.offset = x % Wrap] = pair.meta[i]
    BY <2>6, <2>7 DEF x
  <2> QED
    BY <2>8 DEF x
<1> DEFINE meta == [i \in DOMAIN pair.meta |-> [pair.meta[i] EXCEPT !.offset = @ % Wrap]]
<1>3. meta = pair.meta
  <2>1. pair.meta = [i \in 1..Len(list) |-> pair.meta[i]]
    BY <1>1, EntryOf
  <2>2. meta = [i \in 1..Len(list) |-> pair.meta[i]]
    BY <1>1, <1>2
  <2> QED
    BY <2>1, <2>2
<1> HIDE DEF meta
<1>4. [pair EXCEPT !.meta = meta] = pair
  BY <1>3 DEF PairForm
<1> QED
  BY <1>4 DEF meta

LEMMA NarrowForm ==
    ASSUME NEW pair \in PairForm
    PROVE  [pair EXCEPT !.meta = [i \in DOMAIN pair.meta |->
                                     [pair.meta[i] EXCEPT !.offset = @ % Wrap]]] \in PairForm
<1> DEFINE meta == [i \in DOMAIN pair.meta |-> [pair.meta[i] EXCEPT !.offset = @ % Wrap]]
<1>1. /\ pair.meta \in Seq([offset : Nat, size : Nat]) /\ Wrap \in Nat \ {0}
      /\ DOMAIN pair.meta = 1..Len(pair.meta) /\ Len(pair.meta) \in Nat
  BY CollectionAssumption DEF PairForm
<1>2. ASSUME NEW i \in 1..Len(pair.meta)
      PROVE  [pair.meta[i] EXCEPT !.offset = @ % Wrap] \in [offset : Nat, size : Nat]
  <2>1. pair.meta[i] \in [offset : Nat, size : Nat]
    BY <1>1, EntryOf
  <2> DEFINE e == pair.meta[i]
  <2>2. e.offset % Wrap \in Nat
    BY <1>1, <2>1
  <2> HIDE DEF e
  <2>3. [e EXCEPT !.offset = e.offset % Wrap] \in [offset : Nat, size : Nat]
    BY <2>1, <2>2 DEF e
  <2> QED
    BY <2>3 DEF e
<1>3. meta \in Seq([offset : Nat, size : Nat])
  BY <1>1, <1>2
<1> HIDE DEF meta
<1>4. [pair EXCEPT !.meta = meta] \in PairForm
  BY <1>3 DEF PairForm
<1> QED
  BY <1>4 DEF meta

LEMMA ComplementAdds ==
    ASSUME ArchivesInv, NEW a, NEW b, a # b, RelativeComplement(a, b)
    PROVE  ArchivesStep
<1> DEFINE pair == Written(Chosen(archive[a].raw, Lacking(archive[b].mid, archive[a].mid)))
           narrow == [pair EXCEPT !.meta = [i \in DOMAIN pair.meta |->
                                               [pair.meta[i] EXCEPT !.offset = @ % Wrap]]]
           some == Picked(Contents(a), New(Contents(b), Contents(a)))
           r == Archive("relative-complement", <<a, b>>, narrow, NoPair)
<1>1. a \in Raws /\ b \in Raws /\ HasMid(a) /\ HasMid(b) /\ Add(r)
  BY DEF RelativeComplement
<1>2. /\ a \in Good /\ b \in Good /\ Reads(archive[a].raw, Contents(a))
      /\ a \in 1..Len(archive) /\ b \in 1..Len(archive)
  BY <1>1, GoodRaws, GoodContents
<1>3. pair = Written(BlocksOf(some)) /\ some \in Seq(Msg)
  BY <1>1, <1>2, ChosenLacking
<1> HIDE DEF some, pair
<1>4. pair \in PairForm /\ Reads(pair, some)
  BY <1>3, WrittenForm
<1>5. narrow \in PairForm
  BY <1>4, NarrowForm
<1>6. Len(archive) < MaxArchives /\ archive' = Append(archive, r)
  BY <1>1 DEF Add
<1>7. <<a, b>> \in Seq(1..Len(archive))
  BY <1>2
<1>8. "relative-complement" \in Maker
  BY DEF Maker
<1>9. CASE Len(pair.data) <= Wrap
  <2>1. narrow = pair
    BY <1>4, <1>9, NarrowFits
  <2> HIDE DEF narrow
  <2>2. archive' = Append(archive, Archive("relative-complement", <<a, b>>, pair, NoPair))
    BY <1>6, <2>1
  <2>3. MadeOf("relative-complement", <<a, b>>, some)
    BY <1>2 DEF MadeOf, some
  <2> QED
    BY <1>3, <1>4, <1>6, <1>7, <1>8, <1>9, <2>2, <2>3, NoPairForm, NewRecord
<1>10. CASE ~(Len(pair.data) <= Wrap)
  <2>1. narrow.data = pair.data
    BY <1>4 DEF PairForm
  <2> HIDE DEF narrow
  <2>2. Len(pair.data) \in Nat /\ Wrap \in Nat
    BY <1>4, CollectionAssumption DEF PairForm
  <2>3. Len(narrow.data) > Wrap
    BY <1>10, <2>1, <2>2
  <2>4. /\ r = [raw |-> narrow, z |-> NoPair, mid |-> <<>>, conn |-> FALSE,
                made |-> "relative-complement", from |-> <<a, b>>]
        /\ r.raw = narrow /\ r.z = NoPair /\ r.mid = <<>> /\ r.made = "relative-complement"
        /\ r.from = <<a, b>>
    BY DEF Archive
  <2> HIDE DEF r
  <2>5. Broken(r)
    BY <2>3, <2>4 DEF Broken
  <2>6. Range(<<a, b>>) \subseteq 1..Len(archive) /\ <<a, b>> \in Seq(Nat)
    BY <1>2 DEF Range
  <2>7. r \in ArchiveForm
    BY <1>5, <1>8, <2>4, <2>6, NoPairForm DEF ArchiveForm
  <2>8. (Len(archive) + 1) - 1 = Len(archive)
    BY DEF ArchivesInv
  <2>9. RecordRight(r, Len(archive) + 1)
    BY <2>4, <2>5, <2>6, <2>8 DEF RecordRight
  <2>10. ArchivesInv' /\ ArchivesKept /\ Len(archive') = Len(archive) + 1 /\ archive'[Len(archive) + 1] = r
    BY <1>6, <2>7, <2>9, AppendRight
  <2>11. Added(r)
    BY <1>2, <2>4, <2>5 DEF Added
  <2> QED
    BY <2>10, <2>11 DEF ArchivesStep
<1> QED
  BY <1>9, <1>10

(* An archive there is gets another form, or its ids.                      *)
LEMMA ReplaceSound ==
    ASSUME ArchivesInv, NEW s \in Good, NEW r \in ArchiveForm,
           r.made = archive[s].made, r.from = archive[s].from,
           Sound(r, s, Contents(s)),
           r.made = "relative-complement" =>
              r.raw = archive[s].raw /\ (r.z # NoPair => r.raw # NoPair),
           archive[s].mid # <<>> => r.mid = archive[s].mid,
           archive' = [archive EXCEPT ![s] = r]
    PROVE  ArchivesStep /\ Len(archive') = Len(archive)
<1>1. s \in 1..Len(archive) /\ RecordRight(archive[s], s) /\ ~Broken(archive[s])
  BY DEF Good, ArchivesInv
<1>2. ~Broken(r)
  BY <1>1 DEF Broken
<1>3. RecordRight(r, s)
  BY <1>1, <1>2 DEF RecordRight
<1>4. Texts(IF r.raw # NoPair THEN r.raw ELSE r.z) = Contents(s)
  BY SoundTexts
<1>5. SameArchive(archive[s], r)
  BY <1>1, <1>2, <1>4 DEF SameArchive, Contents, HasRaw
<1> QED
  BY <1>1, <1>3, <1>5, ReplaceRight DEF ArchivesStep

LEMMA ExtractReplaces ==
    ASSUME ArchivesInv, NEW a, ExtractMsgid(a)
    PROVE  ArchivesStep
<1> DEFINE mid == IdsOf(archive[a].raw, a)
           r == [archive[a] EXCEPT !.mid = mid]
<1>1. a \in Raws /\ ~HasMid(a) /\ archive' = [archive EXCEPT ![a] = r]
  BY DEF ExtractMsgid
<1>2. /\ a \in Good /\ HasRaw(a) /\ Reads(archive[a].raw, Contents(a)) /\ a \in 1..Len(archive)
      /\ Sound(archive[a], a, Contents(a)) /\ archive[a] \in ArchiveForm /\ Contents(a) \in Seq(Msg)
  BY <1>1, GoodRaws, GoodContents
<1>3. mid = IdsFor(a, Contents(a))
  BY <1>2, IdsAre
<1>4. a \in Nat
  BY <1>2
<1>5. mid \in Seq(MsgId \cup (Nat \X Nat))
  BY <1>2, <1>3, <1>4, IdsTyped
<1> HIDE DEF mid
<1>6. /\ r \in ArchiveForm /\ r.mid = mid /\ r.raw = archive[a].raw /\ r.z = archive[a].z
      /\ r.made = archive[a].made /\ r.from = archive[a].from
  BY <1>2, <1>5 DEF ArchiveForm
<1> HIDE DEF r
<1>7. Sound(r, a, Contents(a))
  BY <1>2, <1>3, <1>6 DEF Sound
<1>8. r.raw # NoPair /\ archive[a].mid = <<>>
  BY <1>1, <1>2, <1>6 DEF HasRaw, HasMid
<1> QED
  BY <1>1, <1>2, <1>6, <1>7, <1>8, ReplaceSound

LEMMA ConnectReplaces ==
    ASSUME ArchivesInv, NEW a, Connect(a)
    PROVE  ArchivesStep
<1> DEFINE r == [archive[a] EXCEPT !.conn = TRUE]
<1>1. a \in Raws /\ archive' = [archive EXCEPT ![a] = r]
  BY DEF Connect
<1>2. /\ a \in Good /\ HasRaw(a) /\ a \in 1..Len(archive)
      /\ Sound(archive[a], a, Contents(a)) /\ archive[a] \in ArchiveForm
  BY <1>1, GoodRaws, GoodContents
<1>6. /\ r \in ArchiveForm /\ r.mid = archive[a].mid /\ r.raw = archive[a].raw /\ r.z = archive[a].z
      /\ r.made = archive[a].made /\ r.from = archive[a].from
  BY <1>2 DEF ArchiveForm
<1> HIDE DEF r
<1>7. Sound(r, a, Contents(a))
  BY <1>2, <1>6 DEF Sound
<1>8. r.raw # NoPair
  BY <1>2, <1>6 DEF HasRaw
<1> QED
  BY <1>1, <1>2, <1>6, <1>7, <1>8, ReplaceSound
-----------------------------------------------------------------------------
(* A job and what it works on.                                             *)
JobRight ==
    job # NoJob =>
        /\ Progress(job, JobSize)
        /\ job.src \in Good /\ job.old \in Good
        /\ job.tool = "repack-zstd" => HasRaw(job.src)
        /\ job.tool = "repack-lz4"  => HasZ(job.src) /\ ~HasRaw(job.src)
        /\ job.tool = "update-zstd" => /\ HasZ(job.old) /\ HasMid(job.old)
                                       /\ HasRaw(job.src) /\ HasMid(job.src)
                                       /\ Len(archive) < MaxArchives /\ job.old # job.src

CollectionInv == ArchivesInv /\ JobRight

LEMMA GoodZ ==
    ASSUME ArchivesInv, NEW a \in 1..Len(archive), HasZ(a)
    PROVE  a \in Good
BY DEF ArchivesInv, RecordRight, Good, HasZ

LEMMA StartRight ==
    ASSUME ArchivesInv, NEW tool \in {"repack-zstd", "repack-lz4", "update-zstd"},
           NEW src \in Good, NEW old \in Good, NEW overwrite \in BOOLEAN,
           StartJob(tool, src, old, overwrite),
           tool = "repack-zstd" => HasRaw(src),
           tool = "repack-lz4"  => HasZ(src) /\ ~HasRaw(src),
           tool = "update-zstd" => /\ HasZ(old) /\ HasMid(old) /\ HasRaw(src) /\ HasMid(src)
                                   /\ Len(archive) < MaxArchives /\ old # src
    PROVE  JobRight' /\ UNCHANGED archive
<1> DEFINE n == IF tool = "repack-lz4" THEN Len(archive[src].z.meta) ELSE NumMessages(src)
           at == [w \in Cpu |-> IF Shared(tool) THEN FirstOf(n, w) ELSE NoIndex]
           out == [i \in 1..n |-> NoIndex]
           j == [tool |-> tool, src |-> src, old |-> old, overwrite |-> overwrite,
                 at |-> at, busy |-> {}, view |-> NoIndex, cnt |-> 1, out |-> out]
<1>1. job' = j /\ UNCHANGED archive
  BY DEF StartJob
<1>2. src \in 1..Len(archive) /\ old \in 1..Len(archive) /\ src \in Nat /\ old \in Nat
  BY DEF Good
<1>3. archive[src] \in ArchiveForm
  BY <1>2 DEF ArchivesInv
<1>4. n \in Nat
  BY <1>3 DEF ArchiveForm, PairForm, NumMessages
<1>5. JobSize' = n
  BY <1>1 DEF JobSize, JobPair, NumMessages
<1> HIDE DEF n
<1>6. at \in [Cpu -> Nat] /\ \A w \in Cpu : Shared(tool) => at[w] = FirstOf(n, w)
  BY <1>4, SharesCover DEF NoIndex
<1>7. out \in Seq(Nat) /\ Len(out) = n /\ \A i \in 1..n : out[i] = NoIndex
  BY <1>4 DEF NoIndex
<1> HIDE DEF at, out
<1>8. j \in JobForm
  BY <1>2, <1>6, <1>7 DEF JobForm, NoIndex
<1>9. j.view \in 0..n /\ j.cnt \in 1..(n + 1)
  BY <1>4 DEF NoIndex
<1>10. \A w \in Cpu : FirstOf(n, w) \in Nat
  BY <1>4, SharesCover
<1>11. Shared(tool) => \A w \in Cpu : /\ FirstOf(n, w) <= at[w]
                          /\ \A i \in 1..n : FirstOf(n, w) <= i /\ i < at[w] => out[i] = i
  BY <1>6, <1>10
<1>12. \A i \in 1..n : i < 1 => out[i] = i
  BY <1>4
<1>13. Progress(j, n)
  BY <1>7, <1>8, <1>9, <1>11, <1>12 DEF Progress
<1>14. j.src = src /\ j.old = old /\ j.tool = tool
  OBVIOUS
<1> HIDE DEF j
<1>15. /\ Good' = Good /\ HasRaw(src)' = HasRaw(src) /\ HasZ(src)' = HasZ(src) /\ HasMid(src)' = HasMid(src)
       /\ HasZ(old)' = HasZ(old) /\ HasMid(old)' = HasMid(old)
  BY <1>1 DEF Good, HasRaw, HasZ, HasMid
<1>16. Progress(job, JobSize)'
  BY <1>1, <1>5, <1>13 DEF Progress
<1>17. JobRight'
  BY <1>1, <1>14, <1>15, <1>16 DEF JobRight, HasRaw, HasZ, HasMid
<1> QED
  BY <1>1, <1>17

LEMMA StillRight ==
    ASSUME ArchivesInv, UNCHANGED archive
    PROVE  ArchivesStep
<1>1. ArchivesInv'
  BY DEF ArchivesInv
<1>2. ArchivesKept
  BY Itself DEF ArchivesKept
<1> QED
  BY <1>1, <1>2 DEF ArchivesStep

(* The tasks of a job go on.                                               *)
LEMMA TasksKeep ==
    ASSUME CollectionInv, NEW w \in Cpu,
           Decompress(w) \/ CopyAndCompress(w) \/ Draw(w) \/ CompressDrawn(w)
    PROVE  CollectionInv' /\ UNCHANGED archive
<1>1. job # NoJob
  BY DEF Decompress, CopyAndCompress, Draw, CompressDrawn, Shared, NoJob
<1> DEFINE n == JobSize
<1>2. ArchivesInv /\ Progress(job, n) /\ job.src \in Good
  BY <1>1 DEF CollectionInv, JobRight
<1>3. n \in Nat
  <2>1. archive[job.src] \in ArchiveForm
    BY <1>2, GoodContents
  <2>2. archive[job.src].z \in PairForm /\ archive[job.src].raw \in PairForm
    BY <2>1 DEF ArchiveForm
  <2>3. JobPair \in PairForm
    BY <2>2 DEF JobPair
  <2> QED
    BY <2>3 DEF JobSize, PairForm
<1>4. JobSize = n
  OBVIOUS
<1> HIDE DEF n
<1>5. /\ Progress(job', n) /\ UNCHANGED archive
      /\ job'.tool = job.tool /\ job'.src = job.src /\ job'.old = job.old
  <2>1. CASE Decompress(w)
    BY <1>2, <1>3, <1>4, <2>1, DecompressGoesOn
  <2>2. CASE CopyAndCompress(w)
    BY <1>2, <1>3, <2>2, CopyGoesOn
  <2>3. CASE Draw(w)
    BY <1>2, <1>3, <1>4, <2>3, DrawGoesOn
  <2>4. CASE CompressDrawn(w)
    BY <1>2, <1>3, <2>4, DrawnGoesOn
  <2> QED
    BY <2>1, <2>2, <2>3, <2>4
<1>6. JobSize' = n
  BY <1>4, <1>5 DEF JobSize, JobPair
<1>7. Progress(job, JobSize)'
  BY <1>5, <1>6 DEF Progress
<1>8. JobRight'
  <2>1. /\ job.src \in Good /\ job.old \in Good
        /\ job.tool = "repack-zstd" => HasRaw(job.src)
        /\ job.tool = "repack-lz4"  => HasZ(job.src) /\ ~HasRaw(job.src)
        /\ job.tool = "update-zstd" => /\ HasZ(job.old) /\ HasMid(job.old)
                                       /\ HasRaw(job.src) /\ HasMid(job.src)
                                       /\ Len(archive) < MaxArchives /\ job.old # job.src
    BY <1>1 DEF CollectionInv, JobRight
  <2>2. Good' = Good
    BY <1>5 DEF Good
  <2> QED
    BY <1>5, <1>7, <2>1, <2>2 DEF JobRight, HasRaw, HasZ, HasMid
<1>9. ArchivesInv'
  BY <1>2, <1>5, StillRight DEF ArchivesStep
<1> QED
  BY <1>5, <1>8, <1>9 DEF CollectionInv

(* When a job is over it has the blocks of all messages, in their order.   *)
LEMMA JobDone ==
    ASSUME CollectionInv, JobOver
    PROVE  /\ Compressed = BlocksOf(Contents(job.src)) /\ Contents(job.src) \in Seq(Msg)
           /\ job.src \in Good /\ job.old \in Good /\ job \in JobForm /\ job # NoJob
<1>1. job # NoJob
  BY DEF JobOver, NoJob
<1> DEFINE n == JobSize
           list == Contents(job.src)
<1>2. /\ ArchivesInv /\ Progress(job, n) /\ job.src \in Good /\ job.old \in Good
      /\ job.tool = "repack-zstd" => HasRaw(job.src)
      /\ job.tool = "repack-lz4"  => HasZ(job.src)
      /\ job.tool = "update-zstd" => HasRaw(job.src)
  BY <1>1 DEF CollectionInv, JobRight
<1>3. job \in JobForm /\ DOMAIN job.out = 1..n
  <2>1. job \in JobForm /\ Len(job.out) = n
    BY <1>2 DEF Progress
  <2> QED
    BY <2>1 DEF JobForm
<1>4. Reads(JobPair, list) /\ list \in Seq(Msg)
  <2>1. CASE job.tool = "repack-lz4"
    BY <1>2, <2>1, GoodContents DEF JobPair
  <2>2. CASE job.tool # "repack-lz4"
    <3>1. HasRaw(job.src)
      BY <1>2, <1>3, <2>2 DEF JobForm
    <3> QED
      BY <1>2, <2>2, <3>1, GoodContents DEF JobPair
  <2> QED
    BY <2>1, <2>2
<1>5. n = Len(list) /\ n \in Nat
  BY <1>4, TextsAre DEF JobSize
<1>6. JobSize = n
  OBVIOUS
<1> HIDE DEF n
<1>7. \A i \in 1..n : job.out[i] = i
  BY <1>2, <1>5, <1>6, OverIsDone
<1>8. \A i \in 1..n : Raw(JobPair, i) = Block(list[i])
  BY <1>4, <1>5, ReadsBack
<1>9. \A i \in 1..n : i # NoIndex
  BY <1>5 DEF NoIndex
<1>10. Compressed = BlocksOf(list)
  BY <1>3, <1>5, <1>7, <1>8, <1>9 DEF Compressed, BlocksOf
<1> QED
  BY <1>1, <1>2, <1>3, <1>4, <1>10

LEMMA RepackedReplaces ==
    ASSUME CollectionInv, WriteRepacked
    PROVE  ArchivesStep
<1> DEFINE s == job.src
           list == Contents(s)
           w == Written(Compressed)
<1>1. JobOver
  BY DEF WriteRepacked
<1>2. /\ ArchivesInv /\ Compressed = BlocksOf(list) /\ list \in Seq(Msg) /\ s \in Good
      /\ job # NoJob
  BY <1>1, JobDone DEF CollectionInv
<1>3. w \in PairForm /\ Reads(w, list)
  BY <1>2, WrittenForm
<1>4. /\ s \in 1..Len(archive) /\ Sound(archive[s], s, list) /\ archive[s] \in ArchiveForm
      /\ RecordRight(archive[s], s)
  BY <1>2, GoodContents DEF ArchivesInv
<1>5. CASE job.tool = "repack-zstd"
  <2> DEFINE r == [archive[s] EXCEPT !.z = w]
  <2>1. archive' = [archive EXCEPT ![s] = r]
    BY <1>5 DEF WriteRepacked
  <2>2. archive[s].raw # NoPair
    BY <1>2, <1>5 DEF CollectionInv, JobRight, HasRaw
  <2> HIDE DEF w
  <2>3. /\ r \in ArchiveForm /\ r.mid = archive[s].mid /\ r.raw = archive[s].raw /\ r.z = w
        /\ r.made = archive[s].made /\ r.from = archive[s].from
    BY <1>3, <1>4 DEF ArchiveForm
  <2> HIDE DEF r
  <2>4. Sound(r, s, list)
    BY <1>3, <1>4, <2>2, <2>3 DEF Sound
  <2> QED
    BY <1>2, <2>1, <2>2, <2>3, <2>4, ReplaceSound
<1>6. CASE job.tool = "repack-lz4"
  <2> DEFINE r == [archive[s] EXCEPT !.raw = w]
  <2>1. archive' = [archive EXCEPT ![s] = r]
    BY <1>6 DEF WriteRepacked
  <2>2. archive[s].z # NoPair /\ archive[s].raw = NoPair
    BY <1>2, <1>6 DEF CollectionInv, JobRight, HasRaw, HasZ
  <2> HIDE DEF w
  <2>3. /\ r \in ArchiveForm /\ r.mid = archive[s].mid /\ r.raw = w /\ r.z = archive[s].z
        /\ r.made = archive[s].made /\ r.from = archive[s].from
    BY <1>3, <1>4 DEF ArchiveForm
  <2> HIDE DEF r
  <2>4. Sound(r, s, list)
    BY <1>3, <1>4, <2>2, <2>3 DEF Sound
  <2>5. r.made # "relative-complement"
    BY <1>4, <2>2, <2>3 DEF RecordRight
  <2> QED
    BY <1>2, <2>1, <2>3, <2>4, <2>5, ReplaceSound
<1> QED
  BY <1>5, <1>6 DEF WriteRepacked

LEMMA UpdatedAdds ==
    ASSUME CollectionInv, WriteUpdated
    PROVE  ArchivesStep
<1> DEFINE a == job.old
           b == job.src
           old == Contents(a)
           new == Contents(b)
           made == IF job.overwrite THEN "update-zstd -o" ELSE "update-zstd"
           blocks == Updated(archive[a], archive[b].mid, job.overwrite)
           list == IF job.overwrite THEN Picked(old, New(new, old)) \o new
                   ELSE Picked(new, New(old, new)) \o old
<1>1. /\ JobOver /\ job.tool = "update-zstd"
      /\ archive' = Append(archive, Archive(made, <<a, b>>, NoPair, Written(blocks)))
  BY DEF WriteUpdated
<1>2. /\ ArchivesInv /\ Compressed = BlocksOf(new) /\ new \in Seq(Msg) /\ a \in Good /\ b \in Good
      /\ job \in JobForm /\ job # NoJob
  BY <1>1, JobDone DEF CollectionInv
<1>3. HasZ(a) /\ HasMid(a) /\ HasRaw(b) /\ HasMid(b) /\ Len(archive) < MaxArchives /\ a # b
  BY <1>1, <1>2 DEF CollectionInv, JobRight
<1>4. /\ Reads(archive[a].z, old) /\ old \in Seq(Msg) /\ Reads(archive[b].raw, new)
      /\ a \in 1..Len(archive) /\ b \in 1..Len(archive)
  BY <1>2, <1>3, GoodContents
<1>5. blocks = BlocksOf(list) /\ list \in Seq(Msg)
  <2>1. CASE job.overwrite
    <3>1. Chosen(archive[a].z, Lacking(archive[b].mid, archive[a].mid)) = BlocksOf(Picked(old, New(new, old)))
      BY <1>2, <1>3, <1>4, ChosenLacking
    <3>2. Picked(old, New(new, old)) \in Seq(Msg)
      BY <1>2, <1>3, <1>4, ChosenLacking
    <3>3. blocks = BlocksOf(Picked(old, New(new, old))) \o BlocksOf(new)
      BY <1>2, <2>1, <3>1 DEF Updated
    <3>4. blocks = BlocksOf(Picked(old, New(new, old)) \o new)
      BY <1>2, <3>2, <3>3, BlocksConcat
    <3>5. Picked(old, New(new, old)) \o new \in Seq(Msg)
      BY <1>2, <3>2
    <3> QED
      BY <2>1, <3>4, <3>5
  <2>2. CASE ~job.overwrite
    <3> DEFINE some == Picked(new, New(old, new))
               ns == Numbers(Len(new), New(old, new))
    <3>1. some \in Seq(Msg) /\ Lacking(archive[a].mid, archive[b].mid) = New(old, new)
      BY <1>2, <1>3, <1>4, ChosenLacking
    <3>2. Chosen(archive[a].z, DOMAIN archive[a].z.meta) = BlocksOf(old)
      <4>1. DOMAIN archive[a].z.meta = 1..Len(old)
        BY <1>4, TextsAre
      <4> QED
        BY <1>4, <4>1, ChosenIs, PickedAll
    <3>3. Len(Compressed) = Len(new) /\ DOMAIN Compressed = 1..Len(new)
      BY <1>2, BlocksTyped
    <3>4. blocks = [k \in DOMAIN ns |-> Compressed[ns[k]]] \o BlocksOf(old)
      BY <2>2, <3>1, <3>2, <3>3 DEF Updated
    <3>5. [k \in DOMAIN ns |-> Compressed[ns[k]]] = BlocksOf(some)
      <4>1. Ascending(ns, Len(new), New(old, new))
        BY <1>2, NumbersRight
      <4>2. some = [k \in 1..Len(ns) |-> new[ns[k]]]
        BY DEF Picked
      <4> HIDE DEF ns, some
      <4>3. ns \in Seq(Nat) /\ DOMAIN ns = 1..Len(ns) /\ Len(ns) \in Nat /\ \A k \in 1..Len(ns) : ns[k] \in 1..Len(new)
        BY <4>1 DEF Ascending
      <4>4. Len(some) = Len(ns) /\ \A k \in 1..Len(ns) : some[k] = new[ns[k]]
        BY <3>1, <4>2, <4>3
      <4>5. \A k \in 1..Len(ns) : Compressed[ns[k]] = Block(some[k])
        BY <1>2, <4>3, <4>4 DEF BlocksOf
      <4> QED
        BY <4>3, <4>4, <4>5 DEF BlocksOf
    <3> HIDE DEF some, ns
    <3>6. blocks = BlocksOf(some \o old)
      BY <1>4, <3>1, <3>4, <3>5, BlocksConcat
    <3>7. some \o old \in Seq(Msg)
      BY <1>4, <3>1
    <3> QED
      BY <2>2, <3>6, <3>7 DEF some
  <2> QED
    BY <2>1, <2>2
<1>6. MadeOf(made, <<a, b>>, list)
  <2>1. CASE job.overwrite
    <3>1. made = "update-zstd -o" /\ list = Picked(old, New(new, old)) \o new
      BY <2>1
    <3> HIDE DEF made, list
    <3> QED
      BY <1>2, <3>1 DEF MadeOf
  <2>2. CASE ~job.overwrite
    <3>1. made = "update-zstd" /\ list = Picked(new, New(old, new)) \o old
      BY <2>2
    <3> HIDE DEF made, list
    <3> QED
      BY <1>2, <3>1 DEF MadeOf
  <2> QED
    BY <2>1, <2>2
<1>7. made \in Maker /\ made # "relative-complement"
  BY DEF Maker
<1>8. <<a, b>> \in Seq(1..Len(archive))
  BY <1>4
<1> HIDE DEF made, list, blocks
<1>9. Written(blocks) \in PairForm /\ Reads(Written(blocks), list)
  BY <1>5, WrittenForm
<1> QED
  BY <1>1, <1>2, <1>3, <1>5, <1>6, <1>7, <1>8, <1>9, NoPairForm, NewRecord

LEMMA CollectionInvStep ==
    ASSUME CollectionInv, [CollectionNext]_collectionVars
    PROVE  CollectionInv' /\ ArchivesStep
<1> USE DEF CollectionInv
<1>1. CASE UNCHANGED collectionVars
  <2>1. UNCHANGED archive /\ UNCHANGED job
    BY <1>1 DEF collectionVars
  <2>2. JobRight'
    BY <2>1 DEF JobRight, Progress, JobSize, JobPair, Good, HasRaw, HasZ, HasMid
  <2> QED
    BY <2>1, <2>2, StillRight DEF ArchivesStep
<1>2. ASSUME ArchivesStep, job' = NoJob PROVE CollectionInv' /\ ArchivesStep
  BY <1>2 DEF ArchivesStep, JobRight
<1>3. ASSUME JobRight', UNCHANGED archive PROVE CollectionInv' /\ ArchivesStep
  BY <1>3, StillRight DEF ArchivesStep
<1>4. CASE JobStep
  <2>1. CASE \E w \in Cpu : Decompress(w) \/ CopyAndCompress(w) \/ Draw(w) \/ CompressDrawn(w)
    BY <1>3, <2>1, TasksKeep
  <2>2. CASE WriteRepacked
    BY <1>2, <2>2, RepackedReplaces DEF WriteRepacked
  <2>3. CASE WriteUpdated
    BY <1>2, <2>3, UpdatedAdds DEF WriteUpdated
  <2> QED
    BY <1>4, <2>1, <2>2, <2>3 DEF JobStep
<1>5. CASE Utility
  <2>1. DOMAIN archive = 1..Len(archive)
    BY DEF ArchivesInv
  <2>2. ASSUME NEW a \in DOMAIN archive, KillDuplicates(a) PROVE CollectionInv' /\ ArchivesStep
    BY <1>2, <2>2, KillAdds DEF KillDuplicates, Add
  <2>3. ASSUME NEW a \in DOMAIN archive, ExtractMsgid(a) PROVE CollectionInv' /\ ArchivesStep
    BY <1>2, <2>3, ExtractReplaces DEF ExtractMsgid
  <2>4. ASSUME NEW a \in DOMAIN archive, Connect(a) PROVE CollectionInv' /\ ArchivesStep
    BY <1>2, <2>4, ConnectReplaces DEF Connect
  <2>5. ASSUME NEW a \in DOMAIN archive, FilterNewsgroups(a) PROVE CollectionInv' /\ ArchivesStep
    BY <1>2, <2>5, FilterAdds DEF FilterNewsgroups, Add
  <2>6. ASSUME NEW a \in DOMAIN archive, RepackZstd(a) PROVE CollectionInv' /\ ArchivesStep
    <3>1. a \in Good /\ HasRaw(a) /\ StartJob("repack-zstd", a, a, FALSE)
      BY <2>6, GoodRaws DEF RepackZstd
    <3>2. JobRight' /\ UNCHANGED archive
      BY <3>1, StartRight
    <3> QED
      BY <1>3, <3>2
  <2>7. ASSUME NEW a \in DOMAIN archive, RepackLz4(a) PROVE CollectionInv' /\ ArchivesStep
    <3>1. a \in Good /\ HasZ(a) /\ ~HasRaw(a) /\ StartJob("repack-lz4", a, a, FALSE)
      BY <2>1, <2>7, GoodZ DEF RepackLz4
    <3>2. JobRight' /\ UNCHANGED archive
      BY <3>1, StartRight
    <3> QED
      BY <1>3, <3>2
  <2>8. ASSUME NEW a \in DOMAIN archive, NEW b \in DOMAIN archive, a # b, MergeRaw(<<a, b>>)
        PROVE  CollectionInv' /\ ArchivesStep
    BY <1>2, <2>8, MergeTwoAdds DEF MergeRaw, Add
  <2>9. ASSUME NEW a \in DOMAIN archive, NEW b \in DOMAIN archive, a # b, RelativeComplement(a, b)
        PROVE  CollectionInv' /\ ArchivesStep
    BY <1>2, <2>9, ComplementAdds DEF RelativeComplement, Add
  <2>10. ASSUME NEW a \in DOMAIN archive, NEW b \in DOMAIN archive, a # b,
                NEW overwrite \in BOOLEAN, UpdateZstd(a, b, overwrite)
         PROVE  CollectionInv' /\ ArchivesStep
    <3>1. /\ a \in Good /\ HasZ(a) /\ HasMid(a) /\ b \in Good /\ HasRaw(b) /\ HasMid(b)
          /\ Len(archive) < MaxArchives /\ StartJob("update-zstd", b, a, overwrite)
      BY <2>1, <2>10, GoodZ, GoodRaws DEF UpdateZstd
    <3>2. JobRight' /\ UNCHANGED archive
      BY <2>10, <3>1, StartRight
    <3> QED
      BY <1>3, <3>2
  <2>11. ASSUME NEW a \in DOMAIN archive, NEW b \in DOMAIN archive, NEW c \in DOMAIN archive,
                Cardinality({a, b, c}) = 3, MergeRaw(<<a, b, c>>)
         PROVE  CollectionInv' /\ ArchivesStep
    <3>1. a # b /\ a # c
      <4>1. a = b \/ a = c => {a, b, c} = {b, c}
        OBVIOUS
      <4>2. Cardinality({b, c}) <= 2
        <5>1. b = c => {b, c} = {c}
          OBVIOUS
        <5>2. Cardinality({c}) = 1
          BY FS_Singleton
        <5>3. b # c => Cardinality({b, c}) = 2
          <6>1. {b, c} = {c} \cup {b} /\ (b # c => b \notin {c})
            OBVIOUS
          <6>2. IsFiniteSet({c})
            BY FS_Singleton
          <6>3. Cardinality({c} \cup {b}) = IF b \in {c} THEN Cardinality({c}) ELSE Cardinality({c}) + 1
            BY <6>2, FS_AddElement
          <6> QED
            BY <5>2, <6>1, <6>3
        <5> QED
          BY <5>1, <5>2, <5>3
      <4> QED
        BY <2>11, <4>1, <4>2
    <3> QED
      BY <1>2, <2>11, <3>1, MergeThreeAdds DEF MergeRaw, Add
  <2> QED
    BY <1>5, <2>2, <2>3, <2>4, <2>5, <2>6, <2>7, <2>8, <2>9, <2>10, <2>11 DEF Utility
<1> QED
  BY <1>1, <1>4, <1>5 DEF CollectionNext

(* Types of a crawl, of one with spurious wake-ups, too.                   *)
PoolsTyped ==
    /\ queue \in [Pool -> Seq(CrawlTask)]
    /\ busy \in [Pool -> SUBSET CrawlTask]
    /\ looking \in [Pool -> Nat]
    /\ \A p \in Pool : IsFiniteSet(busy[p]) /\ Cardinality(busy[p]) + looking[p] <= Threads(p)
    /\ mainTask \in SUBSET CrawlTask /\ IsFiniteSet(mainTask) /\ Cardinality(mainTask) <= 1

HandlesTyped ==
    /\ holding \subseteq Executing /\ IsFiniteSet(holding)
    /\ handles \in Nat /\ handles + Cardinality(holding) <= TotalHandles

AnswersTyped ==
    /\ group \in Groups \cup {NoGroup} /\ (Crawling => group \in Groups)
    /\ crawl \in {"no", "failed", "over"} \cup Pool
    /\ mainWaits \in BOOLEAN
    /\ numpages \in {NoPages, NumPages(Len(group))} /\ pagenum \in Nat
    /\ count \in Counts
    /\ saved \subseteq AllMessages /\ IsFiniteSet(saved)
    /\ untold \subseteq CrawlTask
    /\ crawl = "no" => numpages = NoPages /\ saved = {}
    /\ spurious \in 0..MaxSpurious

CrawlTyped == PoolsTyped /\ HandlesTyped /\ AnswersTyped

LEMMA PoolNames == "td" \in Pool /\ "tdp" \in Pool /\ \A p \in Pool : p = "td" \/ p = "tdp"
BY DEF Pool

LEMMA ThreadsTyped == \A p \in Pool : Threads(p) \in Nat
BY GroupsAssumption DEF Threads, Pool

LEMMA GroupTyped ==
    ASSUME group \in Groups \cup {NoGroup}
    PROVE  /\ Len(group) \in Nat /\ DOMAIN group = 1..Len(group)
           /\ NumPages(Len(group)) \in Nat /\ NumPages(Len(group)) <= Len(group)
           /\ group \in Groups => \A t \in 1..Len(group) :
                 group[t] \in Seq(AllMessages) /\ Range(group[t]) \subseteq AllMessages
<1>1. CASE group \in Groups
  <2>1. group \in Seq(Seq(AllMessages))
    BY <1>1, GroupsAssumption DEF AllMessages
  <2>2. Len(group) \in Nat /\ DOMAIN group = 1..Len(group) /\ \A t \in 1..Len(group) : group[t] \in Seq(AllMessages)
    BY <2>1
  <2>3. \A t \in 1..Len(group) : Range(group[t]) \subseteq AllMessages
    BY <2>2 DEF Range
  <2>4. NumPages(Len(group)) \in Nat
    BY <2>1, LastPage
  <2>5. PageSize \in Nat \ {0}
    BY GroupsAssumption
  <2> DEFINE n == Len(group)
  <2>6. n \div PageSize <= n
    <3>1. n \in Nat
      BY <2>2
    <3> HIDE DEF n
    <3> DEFINE d == n \div PageSize
    <3>2. d \in Nat /\ d * PageSize \in Nat /\ d * PageSize <= n
      BY <2>5, <3>1, Quotients
    <3> HIDE DEF d
    <3>3. d <= d * PageSize
      <4>1. CASE d = 0
        BY <2>5, <4>1
      <4>2. CASE d # 0
        <5>1. PageSize = 1 \/ PageSize > 1
          BY <2>5
        <5>2. CASE PageSize = 1
          BY <3>2, <5>2
        <5>3. CASE PageSize > 1
          <6>1. PageSize * d >= 1 * d + d
            BY <2>5, <3>2, <4>2, <5>3, Products
          <6>2. PageSize * d = d * PageSize /\ 1 * d = d
            BY <2>5, <3>2
          <6> QED
            BY <3>2, <6>1, <6>2
        <5> QED
          BY <5>1, <5>2, <5>3
      <4> QED
        BY <4>1, <4>2
    <3>4. d <= n
      BY <3>1, <3>2, <3>3
    <3> QED
      BY <3>4 DEF d
  <2> QED
    BY <2>2, <2>3, <2>4, <2>6 DEF NumPages
<1>2. CASE group = NoGroup /\ group \notin Groups
  <2>1. Len(group) = 0 /\ DOMAIN group = 1..0
    BY <1>2 DEF NoGroup
  <2>2. 0 \div PageSize = 0
    <3>1. PageSize \in Nat \ {0} /\ 0 * PageSize = 0 /\ 0 < 0 * PageSize + PageSize
      BY GroupsAssumption
    <3> QED
      BY <3>1, Quotients
  <2> QED
    BY <1>2, <2>1, <2>2 DEF NumPages
<1> QED
  BY <1>1, <1>2

(* Steps of the threads of a pool.                                         *)
LEMMA WorkerTakesTyped ==
    ASSUME CrawlTyped, NEW p \in Pool, WorkerTakes(p) PROVE CrawlTyped'
<1> DEFINE task == Head(queue[p])
<1>1. /\ Crawling /\ queue[p] # <<>>
      /\ \/ looking[p] > 0 /\ looking' = [looking EXCEPT ![p] = @ - 1]
         \/ Idle(p) > 0 /\ UNCHANGED looking
      /\ busy' = [busy EXCEPT ![p] = @ \cup {task}]
      /\ queue' = [queue EXCEPT ![p] = Tail(@)]
      /\ UNCHANGED <<group, crawl, mainTask, mainWaits, holding, handles, numpages, pagenum,
                   count, saved, untold, spurious>>
  BY DEF WorkerTakes
<1>2. PoolsTyped
  BY DEF CrawlTyped
<1>3. queue[p] \in Seq(CrawlTask)
  BY <1>2 DEF PoolsTyped
<1>4. task \in CrawlTask /\ Tail(queue[p]) \in Seq(CrawlTask)
  BY <1>1, <1>3
<1> HIDE DEF task
<1>5. queue' \in [Pool -> Seq(CrawlTask)] /\ busy' \in [Pool -> SUBSET CrawlTask]
  BY <1>1, <1>2, <1>4 DEF PoolsTyped
<1>6. /\ IsFiniteSet(busy[p]) /\ Cardinality(busy[p]) \in Nat /\ looking[p] \in Nat
      /\ Cardinality(busy[p]) + looking[p] <= Threads(p) /\ Threads(p) \in Nat
  BY <1>2, FS_CardinalityType, ThreadsTyped DEF PoolsTyped
<1>7. /\ IsFiniteSet(busy'[p]) /\ Cardinality(busy'[p]) \in Nat
      /\ Cardinality(busy'[p]) <= Cardinality(busy[p]) + 1
  <2>1. busy'[p] = busy[p] \cup {task}
    BY <1>1, <1>2 DEF PoolsTyped
  <2>2. IsFiniteSet(busy[p] \cup {task})
        /\ Cardinality(busy[p] \cup {task}) = IF task \in busy[p] THEN Cardinality(busy[p]) ELSE Cardinality(busy[p]) + 1
    BY <1>6, FS_AddElement
  <2> QED
    BY <1>6, <2>1, <2>2
<1>8. \A q \in Pool : q # p => busy'[q] = busy[q] /\ looking'[q] = looking[q]
  BY <1>1, <1>2 DEF PoolsTyped
<1>9. looking' \in [Pool -> Nat] /\ Cardinality(busy'[p]) + looking'[p] <= Threads(p)
  <2> DEFINE b == Cardinality(busy[p])
             c == Cardinality(busy'[p])
  <2>1. b \in Nat /\ c \in Nat /\ c <= b + 1 /\ b + looking[p] <= Threads(p)
    BY <1>6, <1>7
  <2>2. CASE looking[p] > 0 /\ looking' = [looking EXCEPT ![p] = @ - 1]
    <3>1. looking'[p] = looking[p] - 1 /\ looking[p] - 1 \in Nat
      BY <1>2, <1>6, <2>2 DEF PoolsTyped
    <3>2. looking' \in [Pool -> Nat]
      BY <1>2, <2>2, <3>1 DEF PoolsTyped
    <3> HIDE DEF b, c
    <3> QED
      BY <1>6, <2>1, <3>1, <3>2 DEF c
  <2>3. CASE Idle(p) > 0 /\ UNCHANGED looking
    <3>1. Threads(p) - b - looking[p] > 0
      BY <2>3 DEF Idle
    <3>2. looking'[p] = looking[p] /\ looking' \in [Pool -> Nat]
      BY <1>2, <2>3 DEF PoolsTyped
    <3> HIDE DEF b, c
    <3> QED
      BY <1>6, <2>1, <3>1, <3>2 DEF c
  <2> QED
    BY <1>1, <2>2, <2>3
<1>10. PoolsTyped'
  <2>1. \A q \in Pool : IsFiniteSet(busy'[q]) /\ Cardinality(busy'[q]) + looking'[q] <= Threads(q)
    BY <1>2, <1>7, <1>8, <1>9 DEF PoolsTyped
  <2>2. \A q : Threads(q)' = Threads(q)
    BY DEF Threads
  <2> QED
    BY <1>1, <1>2, <1>5, <1>9, <2>1, <2>2 DEF PoolsTyped
<1>11. Executing \subseteq Executing'
  <2>1. \A q \in Pool : busy[q] \subseteq busy'[q]
    BY <1>1, <1>2 DEF PoolsTyped
  <2> QED
    BY <1>1, <2>1, PoolNames DEF Executing
<1>12. HandlesTyped'
  BY <1>1, <1>11 DEF CrawlTyped, HandlesTyped, TotalHandles
<1>13. AnswersTyped'
  BY <1>1 DEF CrawlTyped, AnswersTyped, Crawling, AllMessages
<1> QED
  BY <1>10, <1>12, <1>13 DEF CrawlTyped

LEMMA WorkerSleepsTyped ==
    ASSUME CrawlTyped, NEW p \in Pool, WorkerSleeps(p) PROVE CrawlTyped'
<1>1. /\ looking[p] > 0 /\ looking' = [looking EXCEPT ![p] = @ - 1]
      /\ UNCHANGED <<group, crawl, queue, busy, mainTask, mainWaits, holding, handles,
                   numpages, pagenum, count, saved, untold, spurious>>
  BY DEF WorkerSleeps
<1>2. PoolsTyped
  BY DEF CrawlTyped
<1>3. looking[p] \in Nat /\ looking[p] - 1 \in Nat
  BY <1>1, <1>2 DEF PoolsTyped
<1>4. looking' \in [Pool -> Nat] /\ looking'[p] = looking[p] - 1 /\ \A q \in Pool : q # p => looking'[q] = looking[q]
  BY <1>1, <1>2, <1>3 DEF PoolsTyped
<1>5. ASSUME NEW q \in Pool PROVE Cardinality(busy[q]) + looking'[q] <= Threads(q)
  <2> DEFINE b == Cardinality(busy[q])
  <2>1. b \in Nat /\ b + looking[q] <= Threads(q)
    BY <1>2, FS_CardinalityType DEF PoolsTyped
  <2>2. looking[q] \in Nat /\ looking'[q] \in Nat /\ looking'[q] <= looking[q]
    BY <1>2, <1>3, <1>4 DEF PoolsTyped
  <2>3. Threads(q) \in Nat
    BY ThreadsTyped
  <2> HIDE DEF b
  <2>4. b + looking'[q] <= Threads(q)
    BY <2>1, <2>2, <2>3
  <2> QED
    BY <2>4 DEF b
<1>6. PoolsTyped'
  BY <1>1, <1>2, <1>4, <1>5 DEF PoolsTyped, Threads
<1>7. HandlesTyped' /\ AnswersTyped'
  BY <1>1 DEF CrawlTyped, HandlesTyped, AnswersTyped, Crawling, AllMessages, TotalHandles, Executing
<1> QED
  BY <1>6, <1>7 DEF CrawlTyped

LEMMA MainTakesTyped ==
    ASSUME CrawlTyped, MainTakes PROVE CrawlTyped'
<1> DEFINE task == Head(queue[crawl])
<1>1. /\ Crawling /\ mainTask = {} /\ queue[crawl] # <<>>
      /\ mainTask' = {task} /\ queue' = [queue EXCEPT ![crawl] = Tail(@)]
      /\ UNCHANGED <<group, crawl, busy, looking, mainWaits, holding, handles, numpages,
                   pagenum, count, saved, untold, spurious>>
  BY DEF MainTakes
<1>2. PoolsTyped /\ crawl \in Pool
  BY <1>1 DEF CrawlTyped, Crawling
<1>3. queue[crawl] \in Seq(CrawlTask)
  BY <1>2 DEF PoolsTyped
<1>4. task \in CrawlTask /\ Tail(queue[crawl]) \in Seq(CrawlTask)
  BY <1>1, <1>3
<1> HIDE DEF task
<1>5. queue' \in [Pool -> Seq(CrawlTask)]
  BY <1>1, <1>2, <1>4 DEF PoolsTyped
<1>6. IsFiniteSet({task}) /\ Cardinality({task}) = 1
  BY FS_Singleton
<1>7. PoolsTyped'
  BY <1>1, <1>2, <1>4, <1>5, <1>6 DEF PoolsTyped, Threads
<1>8. HandlesTyped' /\ AnswersTyped'
  BY <1>1 DEF CrawlTyped, HandlesTyped, AnswersTyped, Crawling, AllMessages, TotalHandles, Executing
<1> QED
  BY <1>7, <1>8 DEF CrawlTyped

LEMMA MainWaitsTyped ==
    ASSUME CrawlTyped, MainWaits PROVE CrawlTyped'
<1>1. mainWaits' = TRUE
      /\ UNCHANGED <<group, crawl, queue, busy, looking, mainTask, holding, handles, numpages,
                   pagenum, count, saved, untold, spurious>>
  BY DEF MainWaits
<1> QED
  BY <1>1 DEF CrawlTyped, PoolsTyped, Threads, HandlesTyped, AnswersTyped, Crawling, AllMessages,
     TotalHandles, Executing

LEMMA ExitTyped ==
    ASSUME CrawlTyped, NEW how \in {"over", "failed"}, Exit(how), spurious' \in 0..MaxSpurious
    PROVE  CrawlTyped'
<1>1. /\ crawl' = how
      /\ queue' = [p \in Pool |-> <<>>] /\ busy' = [p \in Pool |-> {}]
      /\ looking' = [p \in Pool |-> 0]
      /\ mainTask' = {} /\ mainWaits' = FALSE
      /\ holding' = {} /\ handles' = 0
      /\ UNCHANGED <<group, numpages, pagenum, count, saved, untold>>
  BY DEF Exit
<1>2. IsFiniteSet({}) /\ Cardinality({}) = 0
  BY FS_EmptySet
<1>3. PoolsTyped'
  <2>1. queue' \in [Pool -> Seq(CrawlTask)] /\ busy' \in [Pool -> SUBSET CrawlTask] /\ looking' \in [Pool -> Nat]
    BY <1>1
  <2>2. ASSUME NEW p \in Pool PROVE IsFiniteSet(busy'[p]) /\ Cardinality(busy'[p]) + looking'[p] <= Threads(p)
    BY <1>1, <1>2, ThreadsTyped
  <2>3. \A p : Threads(p)' = Threads(p)
    BY DEF Threads
  <2> QED
    BY <1>1, <1>2, <2>1, <2>2, <2>3 DEF PoolsTyped
<1>4. HandlesTyped'
  BY <1>1, <1>2, GroupsAssumption DEF HandlesTyped, TotalHandles
<1>5. how \notin Pool /\ how # "no"
  BY DEF Pool
<1>6. AnswersTyped'
  BY <1>1, <1>5 DEF CrawlTyped, AnswersTyped, Crawling, AllMessages
<1> QED
  BY <1>3, <1>4, <1>6 DEF CrawlTyped

LEMMA AfterSyncTyped ==
    ASSUME CrawlTyped, AfterSync, spurious' \in 0..MaxSpurious PROVE CrawlTyped'
<1>1. CASE crawl = "tdp" /\ handles >= PageWorkers /\ crawl' = "td"
           /\ handles' = handles - PageWorkers
           /\ mainWaits' = FALSE
           /\ UNCHANGED <<group, queue, busy, looking, mainTask, holding, numpages, pagenum,
                      count, saved, untold>>
  <2>1. PoolsTyped'
    BY <1>1 DEF CrawlTyped, PoolsTyped, Threads
  <2>2. handles' \in Nat /\ handles' <= handles /\ handles \in Nat
    BY <1>1, GroupsAssumption DEF CrawlTyped, HandlesTyped
  <2>3. Cardinality(holding) \in Nat /\ TotalHandles \in Nat /\ handles + Cardinality(holding) <= TotalHandles
    BY FS_CardinalityType, GroupsAssumption DEF CrawlTyped, HandlesTyped, TotalHandles
  <2>4. handles' + Cardinality(holding) <= TotalHandles
    BY <2>2, <2>3
  <2>5. HandlesTyped'
    BY <1>1, <2>2, <2>4 DEF CrawlTyped, HandlesTyped, Executing, TotalHandles
  <2>6. AnswersTyped'
    BY <1>1 DEF CrawlTyped, AnswersTyped, Crawling, AllMessages, Pool
  <2> QED
    BY <2>1, <2>5, <2>6 DEF CrawlTyped
<1>2. CASE Exit("failed") \/ Exit("over")
  BY <1>2, ExitTyped
<1> QED
  BY <1>1, <1>2 DEF AfterSync

LEMMA TakeHandleTyped ==
    ASSUME CrawlTyped, NEW task, TakeHandle(task) PROVE CrawlTyped'
<1>1. /\ Crawling /\ task \in Executing \ holding
      /\ handles > 0
      /\ handles' = handles - 1
      /\ holding' = holding \cup {task}
      /\ UNCHANGED <<group, crawl, queue, busy, looking, mainTask, mainWaits, numpages,
                   pagenum, count, saved, untold, spurious>>
  BY DEF TakeHandle
<1>2. IsFiniteSet(holding') /\ Cardinality(holding') = Cardinality(holding) + 1 /\ Cardinality(holding) \in Nat
  BY <1>1, FS_AddElement, FS_CardinalityType DEF CrawlTyped, HandlesTyped
<1>3. handles' \in Nat /\ handles' + Cardinality(holding') <= TotalHandles
  BY <1>1, <1>2 DEF CrawlTyped, HandlesTyped
<1>4. HandlesTyped'
  BY <1>1, <1>2, <1>3 DEF CrawlTyped, HandlesTyped, Executing, TotalHandles
<1>5. PoolsTyped' /\ AnswersTyped'
  BY <1>1 DEF CrawlTyped, PoolsTyped, Threads, AnswersTyped, Crawling, AllMessages
<1> QED
  BY <1>4, <1>5 DEF CrawlTyped

(* A request has ended.                                                    *)
LEMMA EndTaskTyped ==
    ASSUME CrawlTyped, AtRest, NEW task, NEW more, EndTask(task, more),
           more["td"] \in Seq(CrawlTask), more["tdp"] \in Seq(CrawlTask),
           numpages' \in {NoPages, NumPages(Len(group))}, pagenum' \in Nat, count' \in Counts,
           saved' \subseteq AllMessages, IsFiniteSet(saved'), untold' \subseteq CrawlTask
    PROVE  CrawlTyped'
<1> DEFINE p == IF task[1] = "page" THEN "tdp" ELSE "td"
           left == busy[p] \ {task}
<1>1. /\ task \in holding
      /\ holding' = holding \ {task}
      /\ handles' = handles + 1
      /\ queue' = [q \in Pool |-> queue[q] \o more[q]]
      /\ busy' = [busy EXCEPT ![p] = left]
      /\ looking' = [looking EXCEPT ![p] = IF task \in busy[p] THEN @ + 1 ELSE @]
      /\ mainTask' = mainTask \ {task}
      /\ UNCHANGED <<group, crawl, spurious>>
  BY DEF EndTask
<1>2. mainWaits' \in BOOLEAN
  BY DEF EndTask
<1>3. PoolsTyped /\ p \in Pool
  BY DEF CrawlTyped, Pool
<1> HIDE DEF p
<1>4. queue' \in [Pool -> Seq(CrawlTask)]
  <2>1. ASSUME NEW q \in Pool PROVE queue[q] \o more[q] \in Seq(CrawlTask)
    <3>1. queue[q] \in Seq(CrawlTask)
      BY <1>3 DEF PoolsTyped
    <3>2. more[q] \in Seq(CrawlTask)
      BY PoolNames
    <3> QED
      BY <3>1, <3>2
  <2> QED
    BY <1>1, <2>1
<1>5. /\ busy' \in [Pool -> SUBSET CrawlTask] /\ busy'[p] = left
      /\ \A q \in Pool : q # p => busy'[q] = busy[q] /\ looking'[q] = looking[q]
  BY <1>1, <1>3 DEF PoolsTyped
<1>6. /\ looking[p] \in Nat /\ looking'[p] = IF task \in busy[p] THEN looking[p] + 1 ELSE looking[p]
      /\ looking' \in [Pool -> Nat]
  BY <1>1, <1>3 DEF PoolsTyped
<1>7. /\ IsFiniteSet(left) /\ Cardinality(left) \in Nat /\ Cardinality(busy[p]) \in Nat
      /\ Cardinality(left) = IF task \in busy[p] THEN Cardinality(busy[p]) - 1 ELSE Cardinality(busy[p])
  <2>1. IsFiniteSet(busy[p])
    BY <1>3 DEF PoolsTyped
  <2> QED
    BY <2>1, FS_RemoveElement, FS_CardinalityType
<1>8. Cardinality(left) + looking'[p] <= Threads(p)
  <2> DEFINE b == Cardinality(busy[p])
             c == Cardinality(left)
  <2>1. b + looking[p] <= Threads(p)
    BY <1>3 DEF PoolsTyped
  <2>2. b \in Nat /\ c \in Nat /\ c = (IF task \in busy[p] THEN b - 1 ELSE b) /\ Threads(p) \in Nat
    BY <1>3, <1>7, ThreadsTyped
  <2> HIDE DEF b, c
  <2>3. c + looking'[p] <= Threads(p)
    BY <1>6, <2>1, <2>2
  <2> QED
    BY <2>3 DEF c
<1>9. mainTask' \in SUBSET CrawlTask /\ IsFiniteSet(mainTask') /\ Cardinality(mainTask') <= 1
  <2>1. mainTask \in SUBSET CrawlTask /\ IsFiniteSet(mainTask) /\ Cardinality(mainTask) <= 1
    BY <1>3 DEF PoolsTyped
  <2>2. IsFiniteSet(mainTask') /\ Cardinality(mainTask') <= Cardinality(mainTask)
    BY <1>1, <2>1, FS_Subset
  <2>3. Cardinality(mainTask') \in Nat /\ Cardinality(mainTask) \in Nat
    BY <2>1, <2>2, FS_CardinalityType
  <2> QED
    BY <1>1, <2>1, <2>2, <2>3
<1>10. PoolsTyped'
  <2>1. ASSUME NEW q \in Pool PROVE IsFiniteSet(busy'[q]) /\ Cardinality(busy'[q]) + looking'[q] <= Threads(q)
    BY <1>3, <1>5, <1>7, <1>8 DEF PoolsTyped
  <2>2. \A q : Threads(q)' = Threads(q)
    BY DEF Threads
  <2> QED
    BY <1>4, <1>5, <1>6, <1>9, <2>1, <2>2 DEF PoolsTyped
<1>11. HandlesTyped'
  <2>1. /\ IsFiniteSet(holding') /\ Cardinality(holding') = Cardinality(holding) - 1
        /\ Cardinality(holding) \in Nat /\ Cardinality(holding') \in Nat
    BY <1>1, FS_RemoveElement, FS_CardinalityType DEF CrawlTyped, HandlesTyped
  <2>2. handles' \in Nat /\ handles' + Cardinality(holding') <= TotalHandles
    <3> DEFINE c == Cardinality(holding)
               d == Cardinality(holding')
    <3>1. handles \in Nat /\ handles + c <= TotalHandles /\ c \in Nat /\ d = c - 1
      BY <2>1 DEF CrawlTyped, HandlesTyped
    <3>2. TotalHandles \in Nat
      BY GroupsAssumption DEF TotalHandles
    <3> HIDE DEF c, d
    <3>3. handles + 1 \in Nat /\ (handles + 1) + d <= TotalHandles
      BY <3>1, <3>2
    <3> QED
      BY <1>1, <3>3 DEF d
  <2>3. \A q \in Pool : busy[q] \ {task} \subseteq busy'[q]
    BY <1>5
  <2>4. holding' \subseteq Executing'
    <3>1. Executing' = busy'["td"] \cup busy'["tdp"] \cup mainTask'
      BY DEF Executing
    <3>2. holding \subseteq busy["td"] \cup busy["tdp"] \cup mainTask
      BY DEF CrawlTyped, HandlesTyped, Executing
    <3>3. busy["td"] \ {task} \subseteq busy'["td"] /\ busy["tdp"] \ {task} \subseteq busy'["tdp"]
      BY <2>3, PoolNames
    <3> QED
      BY <1>1, <3>1, <3>2, <3>3
  <2> QED
    BY <2>1, <2>2, <2>4 DEF HandlesTyped, TotalHandles
<1>12. Crawling
  BY <1>1 DEF AtRest
<1>13. AnswersTyped'
  BY <1>1, <1>2, <1>12 DEF CrawlTyped, AnswersTyped, Crawling, AllMessages, Pool
<1> QED
  BY <1>10, <1>11, <1>13 DEF CrawlTyped

LEMMA NoMoreTyped == NoMore["td"] \in Seq(CrawlTask) /\ NoMore["tdp"] \in Seq(CrawlTask)
BY PoolNames DEF NoMore

LEMMA CountTyped ==
    ASSUME CrawlTyped
    PROVE  /\ count \in Counts /\ count.threads \in Nat /\ count.threadsbad \in Nat
           /\ count.threadstotal \in Nat /\ count.messages \in Nat /\ count.messagesbad \in Nat
           /\ count.messagestotal \in Nat
BY DEF CrawlTyped, AnswersTyped, Counts

LEMMA TopicTyped ==
    ASSUME CrawlTyped, AtRest, NEW t \in DOMAIN group, TopicFails(t) \/ TopicRead(t)
    PROVE  CrawlTyped'
<1>1. Topic(t) \in holding
  BY DEF TopicFails, TopicRead, TopicLists, EndTask
<1>2. Crawling
  BY <1>1 DEF AtRest
<1>3. group \in Groups /\ AnswersTyped
  BY <1>2 DEF CrawlTyped, AnswersTyped
<1>4. UNCHANGED <<numpages, pagenum, saved>>
  BY DEF TopicFails, TopicRead, TopicLists
<1>5. untold' \subseteq CrawlTask
  <2>1. Topic(t) \in CrawlTask
    BY <1>1 DEF CrawlTyped, HandlesTyped, PoolsTyped, Executing, Pool
  <2> QED
    BY <1>3, <2>1 DEF AnswersTyped, TopicFails, TopicRead, TopicLists
<1>6. CASE TopicFails(t)
  <2>1. EndTask(Topic(t), NoMore)
    BY <1>6 DEF TopicFails
  <2>2. count' \in Counts
    <3> DEFINE v == count.threads + 1
               w == count.threadsbad + 1
    <3>1. v \in Nat /\ w \in Nat
      BY CountTyped
    <3>2. count' = [count EXCEPT !.threads = v, !.threadsbad = w]
      BY <1>6 DEF TopicFails
    <3> HIDE DEF v, w
    <3> QED
      BY <3>1, <3>2, CountTyped DEF Counts
  <2> QED
    BY <1>3, <1>4, <1>5, <2>1, <2>2, EndTaskTyped, NoMoreTyped DEF AnswersTyped
<1>7. CASE TopicRead(t)
  <2>1. PICK list \in {group[t], <<>>} : TopicLists(t, list)
    BY <1>7 DEF TopicRead
  <2> DEFINE td == [i \in DOMAIN list |-> Message(list[i])]
             more == [td |-> td, tdp |-> <<>>]
  <2>2. EndTask(Topic(t), more)
    BY <2>1 DEF TopicLists
  <2>3. list \in Seq(AllMessages) /\ Len(list) \in Nat
    <3>1. group[t] \in Seq(AllMessages)
      BY <1>3, GroupTyped
    <3>2. CASE list = group[t]
      BY <3>1, <3>2
    <3>3. CASE list = <<>>
      BY <3>3
    <3> QED
      BY <2>1, <3>2, <3>3
  <2>4. \A m \in AllMessages : Message(m) \in CrawlTask
    BY <1>3 DEF CrawlTask, AllMessages
  <2>5. td \in Seq(CrawlTask)
    BY <2>3, <2>4
  <2>6. more["td"] \in Seq(CrawlTask) /\ more["tdp"] \in Seq(CrawlTask)
    BY <2>5
  <2>7. count' \in Counts
    <3> DEFINE v == count.threads + 1
               x == count.messagestotal + Len(list)
    <3>1. v \in Nat /\ x \in Nat
      BY <2>3, CountTyped
    <3>2. count' = [count EXCEPT !.threads = v, !.messagestotal = x]
      BY <2>1 DEF TopicLists
    <3> HIDE DEF v, x
    <3> QED
      BY <3>1, <3>2, CountTyped DEF Counts
  <2> HIDE DEF more
  <2> QED
    BY <1>3, <1>4, <1>5, <2>2, <2>6, <2>7, EndTaskTyped DEF AnswersTyped
<1> QED
  BY <1>6, <1>7

LEMMA MessageTyped ==
    ASSUME CrawlTyped, AtRest, NEW m \in AllMessages, MessageFails(m) \/ MessageRead(m)
    PROVE  CrawlTyped'
<1>1. EndTask(Message(m), NoMore) /\ UNCHANGED <<numpages, pagenum>>
  BY DEF MessageFails, MessageRead
<1>2. AnswersTyped
  BY DEF CrawlTyped
<1>3. count' \in Counts
  <2> DEFINE v == count.messages + 1
             w == count.messagesbad + 1
  <2>1. v \in Nat /\ w \in Nat
    BY CountTyped
  <2>2. \/ count' = [count EXCEPT !.messages = v, !.messagesbad = w]
        \/ count' = [count EXCEPT !.messages = v]
    BY DEF MessageFails, MessageRead
  <2> HIDE DEF v, w
  <2> QED
    BY <2>1, <2>2, CountTyped DEF Counts
<1>4. saved' = saved \/ saved' = saved \cup {m}
  BY DEF MessageFails, MessageRead
<1>5. saved' \subseteq AllMessages /\ IsFiniteSet(saved')
  BY <1>2, <1>4, FS_AddElement DEF AnswersTyped
<1>6. untold' \subseteq CrawlTask
  <2>1. Message(m) \in CrawlTask
    BY <1>1 DEF CrawlTyped, HandlesTyped, PoolsTyped, EndTask, Executing, Pool
  <2> QED
    BY <1>2, <2>1 DEF AnswersTyped, MessageFails, MessageRead
<1> QED
  BY <1>1, <1>2, <1>3, <1>5, <1>6, EndTaskTyped, NoMoreTyped DEF AnswersTyped

LEMMA PageReadTyped ==
    ASSUME CrawlTyped, AtRest, NEW n \in 0..Len(group), PageRead(n)
    PROVE  CrawlTyped'
<1> DEFINE next == {k \in {pagenum + 1, pagenum + 2} : k <= numpages'}
           td   == [i \in 1..Cardinality(TopicsOf(n)) |-> Topic(n * PageSize + i)]
           tdp  == [i \in 1..Cardinality(next) |-> Page(pagenum + i)]
           more == [td |-> td, tdp |-> tdp]
           final == NumPages(Len(group))
<1>1. /\ TopicsOf(n) # {}
      /\ numpages' = IF numpages = NoPages THEN final ELSE numpages
      /\ pagenum' = IF pagenum + 1 > numpages' THEN pagenum + 1 ELSE pagenum + 2
      /\ EndTask(Page(n), more)
      /\ count' = [count EXCEPT !.threadstotal = @ + Cardinality(TopicsOf(n))]
      /\ UNCHANGED <<saved, untold>>
  BY DEF PageRead
<1>2. Page(n) \in holding
  BY <1>1 DEF EndTask
<1>3. Crawling
  BY <1>2 DEF AtRest
<1>4. group \in Groups /\ AnswersTyped
  BY <1>3 DEF CrawlTyped, AnswersTyped
<1>5. group \in Seq(Seq(AllMessages)) /\ n \in Nat
  BY <1>4, GroupsAssumption DEF AllMessages
<1>6. /\ IsFiniteSet(TopicsOf(n)) /\ Cardinality(TopicsOf(n)) \in Nat
      /\ n * PageSize \in Nat
      /\ TopicsOf(n) = (n * PageSize + 1)..(n * PageSize + Cardinality(TopicsOf(n)))
  BY <1>1, <1>5, TopicsOnPage
<1>7. final \in Nat /\ final <= Len(group) /\ Len(group) \in Nat
  BY <1>4, GroupTyped
<1>8. numpages' = final
  BY <1>1, <1>4 DEF AnswersTyped
<1>9. pagenum \in Nat /\ pagenum' \in Nat
  BY <1>1, <1>4 DEF AnswersTyped
<1>10. count' \in Counts
  <2> DEFINE v == count.threadstotal + Cardinality(TopicsOf(n))
  <2>1. v \in Nat
    BY <1>6, CountTyped
  <2>2. count' = [count EXCEPT !.threadstotal = v]
    BY <1>1
  <2> HIDE DEF v
  <2> QED
    BY <2>1, <2>2, CountTyped DEF Counts
<1>11. td \in Seq(CrawlTask)
  <2> DEFINE c == Cardinality(TopicsOf(n))
             a == n * PageSize
  <2>1. c \in Nat /\ a \in Nat /\ TopicsOf(n) = (a + 1)..(a + c)
    BY <1>6
  <2>2. TopicsOf(n) \subseteq DOMAIN group
    BY DEF TopicsOf
  <2>3. \A t \in DOMAIN group : Topic(t) \in CrawlTask
    BY <1>4 DEF CrawlTask
  <2> HIDE DEF c, a
  <2>4. \A i \in 1..c : a + i \in (a + 1)..(a + c)
    BY <2>1
  <2>5. \A i \in 1..c : Topic(a + i) \in CrawlTask
    BY <2>1, <2>2, <2>3, <2>4
  <2>6. [i \in 1..c |-> Topic(a + i)] \in Seq(CrawlTask)
    BY <2>1, <2>5
  <2> QED
    BY <2>6 DEF c, a
<1>12. tdp \in Seq(CrawlTask)
  <2> DEFINE c == Cardinality(next)
  <2>1. c \in Nat /\ next = (pagenum + 1)..(pagenum + c)
    <3>1. next = {k \in {pagenum + 1, pagenum + 2} : k <= final}
      BY <1>8
    <3>2. pagenum \in Nat /\ final \in Nat
      BY <1>7, <1>9
    <3> HIDE DEF next, final
    <3> QED
      BY <3>1, <3>2, NextPages, Zenon
  <2>2. next \subseteq 0..Len(group)
    BY <1>7, <1>8, <1>9
  <2>3. \A k \in 0..Len(group) : Page(k) \in CrawlTask
    BY <1>4 DEF CrawlTask
  <2> HIDE DEF c, next
  <2>4. \A i \in 1..c : pagenum + i \in (pagenum + 1)..(pagenum + c)
    BY <1>9, <2>1
  <2>5. \A i \in 1..c : Page(pagenum + i) \in CrawlTask
    BY <2>1, <2>2, <2>3, <2>4
  <2>6. [i \in 1..c |-> Page(pagenum + i)] \in Seq(CrawlTask)
    BY <2>1, <2>5
  <2> QED
    BY <2>6 DEF c
<1> HIDE DEF td, tdp
<1>13. more["td"] \in Seq(CrawlTask) /\ more["tdp"] \in Seq(CrawlTask)
  BY <1>11, <1>12
<1> HIDE DEF more
<1>14. saved' \subseteq AllMessages /\ IsFiniteSet(saved') /\ untold' \subseteq CrawlTask
  BY <1>1, <1>4 DEF AnswersTyped
<1>15. numpages' \in {NoPages, NumPages(Len(group))}
  BY <1>8
<1> QED
  BY <1>1, <1>9, <1>10, <1>13, <1>14, <1>15, EndTaskTyped

LEMMA PageFailsTyped ==
    ASSUME CrawlTyped, AtRest, NEW n, PageFails(n) PROVE CrawlTyped'
<1>1. /\ Page(n) \in holding
      /\ holding' = holding \ {Page(n)}
      /\ handles' = handles + 1
      /\ numpages' = IF TopicsOf(n) = {} THEN NumPages(Len(group)) ELSE numpages
      /\ UNCHANGED <<group, crawl, queue, busy, looking, mainTask, mainWaits, pagenum, count,
                     saved, untold, spurious>>
  BY DEF PageFails
<1>2. Crawling
  BY <1>1 DEF AtRest
<1>3. /\ IsFiniteSet(holding') /\ Cardinality(holding') = Cardinality(holding) - 1
      /\ Cardinality(holding) \in Nat /\ Cardinality(holding') \in Nat
  BY <1>1, FS_RemoveElement, FS_CardinalityType DEF CrawlTyped, HandlesTyped
<1>4. handles' \in Nat /\ handles' + Cardinality(holding') <= TotalHandles
  BY <1>1, <1>3 DEF CrawlTyped, HandlesTyped
<1>5. HandlesTyped'
  BY <1>1, <1>3, <1>4 DEF CrawlTyped, HandlesTyped, TotalHandles, Executing
<1>6. PoolsTyped'
  BY <1>1 DEF CrawlTyped, PoolsTyped, Threads
<1>7. AnswersTyped'
  BY <1>1, <1>2 DEF CrawlTyped, AnswersTyped, Crawling, AllMessages, Pool
<1> QED
  BY <1>5, <1>6, <1>7 DEF CrawlTyped

LEMMA StartTyped ==
    ASSUME CrawlTyped, AtRest, NEW g \in Groups, StartCrawl(g) PROVE CrawlTyped'
<1>1. /\ crawl = "no" /\ group' = g /\ crawl' = "tdp"
      /\ queue' = [queue EXCEPT !["tdp"] = <<Page(0)>>]
      /\ handles' = TotalHandles
      /\ UNCHANGED <<busy, looking, mainTask, mainWaits, holding, numpages, pagenum, count,
                     saved, untold, spurious>>
  BY DEF StartCrawl
<1>2. holding = {}
  BY <1>1 DEF AtRest, Crawling, Pool
<1>3. g \in Seq(Seq(MessagesOf(g)))
  BY GroupsAssumption
<1>4. Page(0) \in CrawlTask
  <2>1. 0 \in 0..Len(g)
    BY <1>3
  <2> QED
    BY <2>1 DEF CrawlTask
<1>5. queue' \in [Pool -> Seq(CrawlTask)]
  <2> DEFINE first == <<Page(0)>>
  <2>1. first \in Seq(CrawlTask)
    BY <1>4
  <2>2. queue \in [Pool -> Seq(CrawlTask)] /\ queue' = [queue EXCEPT !["tdp"] = first]
    BY <1>1 DEF CrawlTyped, PoolsTyped
  <2> HIDE DEF first
  <2> QED
    BY <2>1, <2>2
<1>6. PoolsTyped'
  BY <1>1, <1>5 DEF CrawlTyped, PoolsTyped, Threads
<1>7. HandlesTyped'
  <2>1. IsFiniteSet({}) /\ Cardinality({}) = 0 /\ TotalHandles \in Nat
    BY FS_EmptySet, GroupsAssumption DEF TotalHandles
  <2> QED
    BY <1>1, <1>2, <2>1 DEF HandlesTyped, TotalHandles
<1>8. numpages' = NoPages /\ saved' = {}
  BY <1>1 DEF CrawlTyped, AnswersTyped
<1>9. AnswersTyped'
  BY <1>1, <1>8 DEF CrawlTyped, AnswersTyped, Crawling, AllMessages, Pool
<1> QED
  BY <1>6, <1>7, <1>9 DEF CrawlTyped

LEMMA CrawlTypedInit == CrawlInit => CrawlTyped
<1> SUFFICES ASSUME CrawlInit PROVE CrawlTyped
  OBVIOUS
<1>1. /\ group = NoGroup /\ crawl = "no"
      /\ queue = [p \in Pool |-> <<>>] /\ busy = [p \in Pool |-> {}]
      /\ looking = [p \in Pool |-> 0]
      /\ mainTask = {} /\ mainWaits = FALSE
      /\ holding = {} /\ handles = 0
      /\ numpages = NoPages /\ pagenum = 0
      /\ count = NoCount /\ saved = {} /\ untold = {} /\ spurious = 0
  BY DEF CrawlInit
<1>2. IsFiniteSet({}) /\ Cardinality({}) = 0
  BY FS_EmptySet
<1>3. PoolsTyped
  <2>1. queue \in [Pool -> Seq(CrawlTask)] /\ busy \in [Pool -> SUBSET CrawlTask] /\ looking \in [Pool -> Nat]
    BY <1>1
  <2>2. ASSUME NEW p \in Pool PROVE IsFiniteSet(busy[p]) /\ Cardinality(busy[p]) + looking[p] <= Threads(p)
    BY <1>1, <1>2, ThreadsTyped
  <2> QED
    BY <1>1, <1>2, <2>1, <2>2 DEF PoolsTyped
<1>4. HandlesTyped
  BY <1>1, <1>2, GroupsAssumption DEF HandlesTyped, TotalHandles
<1>5. count \in Counts
  BY <1>1 DEF Counts, NoCount
<1>6. AnswersTyped
  <2>1. ~Crawling /\ crawl \in {"no", "failed", "over"} \cup Pool
    BY <1>1 DEF Crawling, Pool
  <2>2. spurious \in 0..MaxSpurious
    BY <1>1, GroupsAssumption
  <2>3. saved \subseteq AllMessages /\ IsFiniteSet(saved)
    BY <1>1, <1>2
  <2>4. numpages = NoPages /\ pagenum \in Nat /\ group = NoGroup /\ mainWaits \in BOOLEAN /\ saved = {}
    BY <1>1
  <2> QED
    BY <1>1, <1>5, <2>1, <2>2, <2>3, <2>4 DEF AnswersTyped
<1> QED
  BY <1>3, <1>4, <1>6 DEF CrawlTyped

LEMMA CrawlTypedStep ==
    ASSUME CrawlTyped, AtRest, [CrawlNext]_crawlVars
    PROVE  CrawlTyped'
<1>1. CASE UNCHANGED crawlVars
  BY <1>1 DEF crawlVars, CrawlTyped, PoolsTyped, Threads, HandlesTyped, AnswersTyped, Crawling,
     AllMessages, TotalHandles, Executing
<1>2. ASSUME NEW g \in Groups, StartCrawl(g) PROVE CrawlTyped'
  BY <1>2, StartTyped
<1>3. ASSUME NEW p \in Pool, WorkerTakes(p) \/ WorkerSleeps(p) PROVE CrawlTyped'
  BY <1>3, WorkerTakesTyped, WorkerSleepsTyped
<1>4. CASE MainTakes \/ MainWaits
  BY <1>4, MainTakesTyped, MainWaitsTyped
<1>5. spurious \in 0..MaxSpurious
  BY DEF CrawlTyped, AnswersTyped
<1>6. CASE SyncReturns
  BY <1>5, <1>6, AfterSyncTyped DEF SyncReturns
<1>7. CASE SyncReturnsSpuriously
  <2>1. spurious' \in 0..MaxSpurious
    BY <1>5, <1>7, GroupsAssumption DEF SyncReturnsSpuriously
  <2> QED
    BY <1>7, <2>1, AfterSyncTyped DEF SyncReturnsSpuriously
<1>8. ASSUME NEW task \in CrawlTask, TakeHandle(task) PROVE CrawlTyped'
  BY <1>8, TakeHandleTyped
<1>9. CASE NoHandleLeft
  BY <1>5, <1>9, ExitTyped DEF NoHandleLeft
<1>10. CASE FirstPageUnreadable
  BY <1>5, <1>10, ExitTyped DEF FirstPageUnreadable
<1>11. ASSUME NEW n \in 0..Len(group), PageRead(n) \/ PageFails(n) PROVE CrawlTyped'
  BY <1>11, PageReadTyped, PageFailsTyped
<1>12. ASSUME NEW t \in DOMAIN group, TopicFails(t) \/ TopicRead(t) PROVE CrawlTyped'
  BY <1>12, TopicTyped
<1>13. ASSUME NEW m \in AllMessages, MessageFails(m) \/ MessageRead(m) PROVE CrawlTyped'
  BY <1>13, MessageTyped
<1> QED
  BY <1>1, <1>2, <1>3, <1>4, <1>6, <1>7, <1>8, <1>9, <1>10, <1>11, <1>12, <1>13
     DEF CrawlNext, CrawlStep

LEMMA CrawlTypesHold ==
    ASSUME CrawlTyped
    PROVE  CrawlTypeOK
<1>1. PoolsTyped /\ HandlesTyped /\ AnswersTyped
  BY DEF CrawlTyped
<1>2. ASSUME NEW p \in Pool PROVE Idle(p) >= 0
  <2> DEFINE b == Cardinality(busy[p])
  <2>1. b \in Nat /\ looking[p] \in Nat /\ b + looking[p] <= Threads(p) /\ Threads(p) \in Nat
    BY <1>1, FS_CardinalityType, ThreadsTyped DEF PoolsTyped
  <2> HIDE DEF b
  <2>2. Threads(p) - b - looking[p] >= 0
    BY <2>1
  <2> QED
    BY <2>2 DEF Idle, b
<1>3. handles \in 0..TotalHandles
  <2>1. Cardinality(holding) \in Nat /\ handles \in Nat /\ handles + Cardinality(holding) <= TotalHandles
    BY <1>1, FS_CardinalityType DEF HandlesTyped
  <2>2. TotalHandles \in Nat
    BY GroupsAssumption DEF TotalHandles
  <2> QED
    BY <2>1, <2>2
<1>4. count \in [DOMAIN NoCount -> Nat]
  <2>1. DOMAIN NoCount = {"threads", "threadsbad", "threadstotal", "messages", "messagesbad", "messagestotal"}
    BY DEF NoCount
  <2> QED
    BY <1>1, <2>1 DEF AnswersTyped, Counts
<1>5. numpages \in Nat \cup {NoPages}
  BY <1>1, GroupTyped DEF AnswersTyped
<1> QED
  BY <1>1, <1>2, <1>3, <1>4, <1>5 DEF CrawlTypeOK, PoolsTyped, HandlesTyped, AnswersTyped

(* The archives there are at first.                                        *)
LEMMA CollectionInvInit == CollectionInit => CollectionInv
<1> SUFFICES ASSUME CollectionInit PROVE CollectionInv
  OBVIOUS
<1> DEFINE n == Len(OldArchives)
           w(k) == Written(BlocksOf(OldArchives[k]))
           r(k) == [raw |-> w(k), z |-> w(k), mid |-> IdsOf(w(k), k), conn |-> TRUE,
                    made |-> "old", from |-> <<>>]
<1>1. /\ n \in 0..MaxArchives /\ n \in Nat /\ DOMAIN OldArchives = 1..n
      /\ \A k \in 1..n : OldArchives[k] \in Seq(Msg)
  BY CollectionAssumption
<1> HIDE DEF n
<1>2. /\ archive = [k \in 1..n |-> LET old == OldArchives[k]
                                       pair == Written([i \in DOMAIN old |-> Block(old[i])])
                                   IN  [Archive("old", <<>>, pair, pair) EXCEPT !.mid = IdsOf(pair, k),
                                                                                !.conn = TRUE]]
      /\ job = NoJob
  BY <1>1 DEF CollectionInit
<1>3. ASSUME NEW k \in 1..n
      PROVE  archive[k] = r(k)
  <2> DEFINE old == OldArchives[k]
             pair == Written([i \in DOMAIN old |-> Block(old[i])])
             ids == IdsOf(pair, k)
  <2>1. archive[k] = [Archive("old", <<>>, pair, pair) EXCEPT !.mid = ids, !.conn = TRUE]
    BY <1>2
  <2>2. pair = w(k)
    <3>1. old \in Seq(Msg)
      BY <1>1
    <3> HIDE DEF old
    <3>2. DOMAIN old = 1..Len(old)
      BY <3>1
    <3> QED
      BY <3>2 DEF BlocksOf, old
  <2> HIDE DEF ids, pair
  <2>3. archive[k] = [raw |-> pair, z |-> pair, mid |-> ids, conn |-> TRUE, made |-> "old", from |-> <<>>]
    BY <2>1 DEF Archive
  <2>4. ids = IdsOf(w(k), k)
    BY <2>2 DEF ids
  <2> QED
    BY <2>2, <2>3, <2>4
<1>4. ASSUME NEW k \in 1..n
      PROVE  archive[k] \in ArchiveForm /\ RecordRight(archive[k], k)
  <2> DEFINE list == OldArchives[k]
             pair == w(k)
             ids == IdsOf(pair, k)
             s == archive[k]
  <2>1. list \in Seq(Msg) /\ k \in Nat
    BY <1>1
  <2>2. pair \in PairForm /\ Reads(pair, list)
    BY <2>1, WrittenForm
  <2>3. ids = IdsFor(k, list) /\ ids \in Seq(MsgId \cup (Nat \X Nat))
    BY <2>1, <2>2, IdsAre, IdsTyped
  <2>4. s = [raw |-> pair, z |-> pair, mid |-> ids, conn |-> TRUE, made |-> "old", from |-> <<>>]
    BY <1>3
  <2>5. "old" \in Maker
    BY DEF Maker
  <2> HIDE DEF pair, ids, s
  <2>6. /\ s.raw = pair /\ s.z = pair /\ s.mid = ids /\ s.made = "old" /\ s.from = <<>>
        /\ s.made # "relative-complement"
    BY <2>4
  <2>7. s \in ArchiveForm
    BY <2>2, <2>3, <2>4, <2>5 DEF ArchiveForm
  <2>8. pair = NoPair => list = <<>>
    <3> SUFFICES ASSUME pair = NoPair PROVE list = <<>>
      OBVIOUS
    <3>1. Reads(NoPair, list)
      BY <2>2
    <3> QED
      BY <3>1, TextsAre, NoPairForm
  <2>9. Sound(s, k, list)
    BY <2>1, <2>2, <2>3, <2>6, <2>8 DEF Sound
  <2>10. RecordRight(s, k)
    BY <2>6, <2>9 DEF RecordRight, Broken, Range
  <2> QED
    BY <2>7, <2>10 DEF s
<1> HIDE DEF r, w
<1>5. DOMAIN archive = 1..n
  BY <1>2
<1>6. archive \in Seq(ArchiveForm) /\ Len(archive) = n
  <2>1. archive = [k \in 1..n |-> archive[k]]
    BY <1>2
  <2> QED
    BY <1>1, <1>4, <2>1
<1>7. ArchivesInv
  BY <1>1, <1>4, <1>6 DEF ArchivesInv
<1> QED
  BY <1>2, <1>7 DEF CollectionInv, JobRight
-----------------------------------------------------------------------------
(* Types of uat-nntp-get.                                                  *)
NewsBounds ==
    /\ newest <= MaxArticle /\ article <= MaxArticle + 1
    /\ DOMAIN file \subseteq Article /\ \A name \in DOMAIN file : file[name] \in Article
    /\ sessions \in 0..MaxSessions

LEMMA NewsBoundsInit == NewsInit => NewsBounds
<1> SUFFICES ASSUME NewsInit PROVE NewsBounds
  OBVIOUS
<1>1. newest \in {0, MaxArticle - 1} /\ article = 0 /\ sessions = 0 /\ DOMAIN file = {}
  BY DEF NewsInit
<1> QED
  BY <1>1, NewsAssumption DEF NewsBounds

LEMMA NewsBoundsStep ==
    ASSUME NewsInv, NewsBounds, [NewsNext]_newsVars
    PROVE  NewsBounds'
<1>1. /\ newest \in Nat /\ newest <= MaxArticle /\ MaxArticle \in Nat /\ article \in Nat
      /\ server \subseteq 1..newest /\ current \in 0..newest /\ last \in 0..newest
  BY NewsAssumption DEF NewsInv, NumbersTyped, NewsBounds
<1>2. server \subseteq Article
  BY <1>1 DEF Article
<1>3. ASSUME NEW n \in server, Receive(n), article \in Article, article' = article + 1
      PROVE  NewsBounds'
  <2>1. file' = [k \in DOMAIN file \cup {article} |-> IF k = article THEN n ELSE file[k]]
        /\ UNCHANGED <<newest, sessions>>
    BY <1>3 DEF Receive
  <2>2. article \in 1..MaxArticle
    BY <1>3 DEF Article
  <2>3. article' <= MaxArticle + 1
    BY <1>1, <1>3, <2>2
  <2>4. DOMAIN file' \subseteq Article /\ \A name \in DOMAIN file' : file'[name] \in Article
    BY <1>2, <1>3, <2>1 DEF NewsBounds
  <2> QED
    BY <2>1, <2>3, <2>4 DEF NewsBounds, Article
<1>4. ASSUME NEW printed, EndSession(printed) PROVE NewsBounds'
  BY <1>4 DEF EndSession, NewsBounds, Article
<1>5. CASE UNCHANGED newsVars
  BY <1>5 DEF newsVars, NewsBounds, Article
<1>6. CASE Arrive
  <2>1. newest' <= MaxArticle /\ UNCHANGED <<article, file, sessions>>
    BY <1>1, <1>6 DEF Arrive
  <2> QED
    BY <2>1 DEF NewsBounds, Article
<1>7. CASE Expire
  BY <1>7 DEF Expire, NewsBounds, Article
<1>8. CASE StartSession
  <2>1. sessions' \in 0..MaxSessions
    BY <1>8, NewsAssumption DEF StartSession, NewsBounds
  <2>2. article' = last + 1 /\ article' <= MaxArticle + 1 /\ UNCHANGED <<newest, file>>
    BY <1>1, <1>8 DEF StartSession
  <2> QED
    BY <2>1, <2>2 DEF NewsBounds, Article
<1>9. CASE FirstArticle
  BY <1>2, <1>3, <1>4, <1>9 DEF FirstArticle
<1>10. CASE NextArticle
  BY <1>4, <1>10 DEF NextArticle, NewsBounds, Article
<1>11. CASE GetArticle
  <2>1. CASE current \in server
    <3>1. article <= current /\ last < article
      BY <1>11 DEF GetArticle, NewsInv, CountBehind
    <3>2. article \in Article
      BY <1>1, <3>1 DEF Article
    <3> QED
      BY <1>3, <1>11, <2>1, <3>2 DEF GetArticle
  <2>2. CASE current \notin server
    BY <1>4, <1>11, <2>2 DEF GetArticle
  <2> QED
    BY <2>1, <2>2
<1> QED
  BY <1>5, <1>6, <1>7, <1>8, <1>9, <1>10, <1>11 DEF NewsNext, SessionStep

LEMMA NewsTypesHold ==
    ASSUME NewsInv, NewsBounds
    PROVE  NewsTypeOK
<1>1. /\ newest \in Nat /\ newest <= MaxArticle /\ MaxArticle \in Nat /\ article \in Nat
      /\ article <= MaxArticle + 1
      /\ server \subseteq 1..newest /\ current \in 0..newest /\ last \in 0..newest
  BY NewsAssumption DEF NewsInv, NumbersTyped, NewsBounds
<1>2. /\ newest \in 0..MaxArticle /\ current \in 0..MaxArticle /\ last \in 0..MaxArticle
      /\ article \in 0..(MaxArticle + 1)
  BY <1>1
<1> QED
  BY <1>1, <1>2 DEF NewsTypeOK, NewsInv, CountBehind, NewsBounds

(* Everything there is, in good order.                                     *)
BaseInv == /\ CrawlIInv /\ CrawlTyped
           /\ NewsInv /\ NewsBounds
           /\ CollectionInv
           /\ download \in {"groups", "news", "none"}

LEMMA FilesAreMessages ==
    ASSUME BaseInv
    PROVE  IsFiniteSet(DOMAIN Files) /\ Downloaded \in SUBSET Msg
<1>1. CASE download = "groups"
  <2>1. saved \subseteq AllMessages /\ IsFiniteSet(saved) /\ group \in Groups \cup {NoGroup}
    BY DEF BaseInv, CrawlTyped, AnswersTyped
  <2>2. AllMessages \subseteq Msg
    <3>1. CASE group \in Groups
      BY <3>1, WorkflowAssumption DEF AllMessages
    <3>2. CASE group = NoGroup
      BY <3>2 DEF AllMessages, MessagesOf, NoGroup
    <3> QED
      BY <2>1, <3>1, <3>2
  <2> QED
    BY <1>1, <2>1, <2>2 DEF Files, Downloaded, Range
<1>2. CASE download = "news"
  <2>1. DOMAIN file \subseteq Article /\ \A name \in DOMAIN file : file[name] \in Article
    BY DEF BaseInv, NewsBounds
  <2>2. IsFiniteSet(Article)
    BY FS_Interval, NewsAssumption DEF Article
  <2>3. IsFiniteSet(DOMAIN file)
    BY <2>1, <2>2, FS_Subset
  <2>4. \A name \in DOMAIN file : Posted[file[name]] \in Msg
    BY <2>1, WorkflowAssumption
  <2> QED
    BY <1>2, <2>3, <2>4 DEF Files, Downloaded, Range
<1>3. CASE download = "none"
  BY <1>3, FS_EmptySet DEF Files, Downloaded, Range
<1> QED
  BY <1>1, <1>2, <1>3 DEF BaseInv

LEMMA ImportTyped ==
    ASSUME CrawlTyped, AtRest, ImportFiles
    PROVE  CrawlTyped'
<1>1. /\ ~Crawling
      /\ group' = NoGroup /\ crawl' = "no" /\ saved' = {} /\ untold' = {} /\ count' = NoCount
      /\ numpages' = NoPages /\ pagenum' = 0 /\ spurious' = 0
      /\ UNCHANGED <<queue, busy, looking, mainTask, mainWaits, holding, handles>>
  BY DEF ImportFiles, Running
<1>2. PoolsTyped' 
  BY <1>1 DEF CrawlTyped, PoolsTyped, Threads
<1>3. HandlesTyped'
  BY <1>1 DEF CrawlTyped, HandlesTyped, TotalHandles, Executing
<1>4. count' \in Counts
  BY <1>1 DEF Counts, NoCount
<1>5. ~Crawling' /\ crawl' \in {"no", "failed", "over"} \cup Pool
  BY <1>1 DEF Crawling, Pool
<1>6. spurious' \in 0..MaxSpurious
  BY <1>1, GroupsAssumption
<1>7. saved' \subseteq AllMessages' /\ IsFiniteSet(saved')
  BY <1>1, FS_EmptySet
<1>8. mainWaits' \in BOOLEAN
  BY <1>1 DEF CrawlTyped, AnswersTyped
<1>9. AnswersTyped'
  BY <1>1, <1>4, <1>5, <1>6, <1>7, <1>8 DEF AnswersTyped
<1> QED
  BY <1>2, <1>3, <1>9 DEF CrawlTyped

LEMMA BaseInvInit == Init => BaseInv
<1> SUFFICES ASSUME Init PROVE BaseInv
  OBVIOUS
<1>1. CrawlInit /\ NewsInit /\ CollectionInit /\ download \in {"groups", "news"}
  BY DEF Init
<1>2. CrawlIInv
  BY <1>1, CrawlInvInit DEF CrawlIInv, CrawlInv
<1> QED
  BY <1>1, <1>2, CrawlTypedInit, NewsInvInit, NewsBoundsInit, CollectionInvInit DEF BaseInv

LEMMA BaseInvStep ==
    ASSUME BaseInv, [Next]_vars
    PROVE  BaseInv' /\ ArchivesStep
<1>1. CrawlIInv' /\ NewsInv'
  BY CrawlIInvNext, NewsInvNext DEF BaseInv
<1>2. AtRest /\ CrawlTyped /\ NewsInv /\ NewsBounds /\ CollectionInv
  BY DEF BaseInv, CrawlIInv
<1>3. CASE ImportFiles
  <2>1. Import(Files) /\ download' = "none"
        /\ newest' = 0 /\ article' = 0 /\ file' = << >> /\ sessions' = 0
    BY <1>3 DEF ImportFiles
  <2>2. NewsBounds'
    BY <2>1, NewsAssumption DEF NewsBounds, Article
  <2>3. ArchivesStep
    BY <1>2, <2>1, FilesAreMessages, ImportAdds DEF CollectionInv, Downloaded
  <2>4. job' = NoJob
    BY <2>1 DEF Import, Add
  <2>5. CollectionInv'
    BY <2>3, <2>4 DEF CollectionInv, JobRight, ArchivesStep
  <2>6. CrawlTyped'
    BY <1>2, <1>3, ImportTyped
  <2> QED
    BY <1>1, <2>1, <2>2, <2>3, <2>5, <2>6 DEF BaseInv
<1>4. CASE /\ [CrawlNext]_crawlVars /\ [NewsNext]_newsVars /\ [CollectionNext]_collectionVars
           /\ download' = download
  <2>1. CrawlTyped'
    BY <1>2, <1>4, CrawlTypedStep
  <2>2. NewsBounds'
    BY <1>2, <1>4, NewsBoundsStep
  <2>3. CollectionInv' /\ ArchivesStep
    BY <1>2, <1>4, CollectionInvStep
  <2> QED
    BY <1>1, <1>4, <2>1, <2>2, <2>3 DEF BaseInv
<1> QED
  BY <1>3, <1>4 DEF Next, vars
-----------------------------------------------------------------------------
(* What the invariant says of each archive.                                *)
LEMMA ArchiveReadsBack ==
    ASSUME ArchivesInv, NEW a \in DOMAIN archive, ~Wrapped(a)
    PROVE  /\ \A i \in DOMAIN archive[a].raw.meta : Readable(archive[a].raw, i)
           /\ \A i \in DOMAIN archive[a].z.meta : Readable(archive[a].z, i)
           /\ HasRaw(a) /\ HasZ(a) => Texts(archive[a].raw) = Texts(archive[a].z)
           /\ HasMid(a) => \A i \in DOMAIN Contents(a) :
                 IdOf[Contents(a)[i]] \in {archive[a].mid[i], NoId}
<1> DEFINE list == Contents(a)
<1>1. a \in Good
  BY DEF ArchivesInv, Good, Wrapped, Broken
<1>2. /\ list \in Seq(Msg)
      /\ HasRaw(a) => Reads(archive[a].raw, list)
      /\ HasZ(a) => Reads(archive[a].z, list)
      /\ HasMid(a) => archive[a].mid = IdsFor(a, list)
  BY <1>1, GoodContents
<1> HIDE DEF list
<1>3. ASSUME NEW pair, pair # NoPair => Reads(pair, list)
      PROVE  \A i \in DOMAIN pair.meta : Readable(pair, i)
  <2>1. CASE pair = NoPair
    BY <2>1, NoPairForm
  <2>2. CASE pair # NoPair
    BY <1>3, <2>2, TextsAre, ReadsBack
  <2> QED
    BY <2>1, <2>2
<1>4. /\ \A i \in DOMAIN archive[a].raw.meta : Readable(archive[a].raw, i)
      /\ \A i \in DOMAIN archive[a].z.meta : Readable(archive[a].z, i)
  BY <1>2, <1>3 DEF HasRaw, HasZ
<1>5. HasRaw(a) /\ HasZ(a) => Texts(archive[a].raw) = Texts(archive[a].z)
  BY <1>2, TextsAre
<1>6. HasMid(a) => \A i \in DOMAIN list : IdOf[list[i]] \in {archive[a].mid[i], NoId}
  BY <1>2 DEF IdsFor
<1> QED
  BY <1>4, <1>5, <1>6 DEF list

LEMMA ArchiveTyped ==
    ASSUME ArchivesInv, NEW a \in DOMAIN archive
    PROVE  /\ Len(archive[a].mid) \in {0, Len(archive[a].raw.meta), Len(archive[a].z.meta)}
           /\ Range(archive[a].from) \subseteq 1..(a - 1)
<1>1. a \in 1..Len(archive) /\ RecordRight(archive[a], a) /\ a \in Nat
  BY DEF ArchivesInv
<1>2. Range(archive[a].from) \subseteq 1..(a - 1)
  BY <1>1 DEF RecordRight
<1>3. CASE Broken(archive[a])
  BY <1>1, <1>2, <1>3 DEF RecordRight
<1>4. CASE ~Broken(archive[a])
  <2> DEFINE list == Contents(a)
  <2>1. /\ Sound(archive[a], a, list) /\ list \in Seq(Msg)
        /\ HasRaw(a) => Reads(archive[a].raw, list)
        /\ HasZ(a) => Reads(archive[a].z, list)
        /\ HasMid(a) => archive[a].mid = IdsFor(a, list)
    BY <1>1, <1>4, GoodContents DEF Good
  <2> HIDE DEF list
  <2>2. Len(IdsFor(a, list)) = Len(list)
    BY <1>1, <2>1, IdsTyped
  <2>3. CASE HasRaw(a) /\ HasMid(a)
    BY <1>2, <2>1, <2>2, <2>3, TextsAre
  <2>4. CASE HasZ(a) /\ HasMid(a)
    BY <1>2, <2>1, <2>2, <2>4, TextsAre
  <2>5. CASE ~HasMid(a)
    BY <1>2, <2>5 DEF HasMid
  <2>6. CASE ~HasRaw(a) /\ ~HasZ(a)
    <3>1. list = <<>> /\ Len(list) = 0
      BY <2>1, <2>6 DEF Sound, HasRaw, HasZ
    <3> QED
      BY <1>2, <2>1, <2>2, <2>5, <3>1
  <2> QED
    BY <2>3, <2>4, <2>5, <2>6
<1> QED
  BY <1>3, <1>4

LEMMA TypesHold ==
    ASSUME BaseInv
    PROVE  TypeOK
<1>1. CrawlTypeOK /\ NewsTypeOK /\ CollectionInv /\ download \in {"groups", "news", "none"}
  BY CrawlTypesHold, NewsTypesHold DEF BaseInv
<1>2. ArchivesInv /\ Len(archive) \in 0..MaxArchives /\ DOMAIN archive = 1..Len(archive)
  BY <1>1 DEF CollectionInv, ArchivesInv
<1>3. ASSUME job # NoJob
      PROVE  /\ {job.src, job.old} \subseteq DOMAIN archive
             /\ job.view \in 0..JobSize /\ job.cnt \in 1..(JobSize + 1)
             /\ job.busy \subseteq Cpu
  <2>1. Progress(job, JobSize) /\ job.src \in Good /\ job.old \in Good
    BY <1>1, <1>3 DEF CollectionInv, JobRight
  <2>2. job.busy \subseteq Cpu
    BY <2>1 DEF Progress, JobForm
  <2>3. {job.src, job.old} \subseteq DOMAIN archive
    BY <1>2, <2>1 DEF Good
  <2> QED
    BY <2>1, <2>2, <2>3 DEF Progress
<1>4. \A a \in DOMAIN archive :
          /\ Len(archive[a].mid) \in {0, Len(archive[a].raw.meta), Len(archive[a].z.meta)}
          /\ Range(archive[a].from) \subseteq 1..(a - 1)
  BY <1>2, ArchiveTyped
<1> QED
  BY <1>1, <1>2, <1>3, <1>4 DEF TypeOK

(* Whatever is imported and whatever programs are run on archives, in any  *)
(* order and with any number of tasks that compress: each entry of each    *)
(* form of an archive is a message, and forms and ids agree, for messages  *)
(* of any sizes and with any ids.                                          *)
THEOREM ArchivesReadBack == Spec => []EntriesReadBack
<1>1. BaseInv => EntriesReadBack
  BY TypesHold, ArchiveReadsBack DEF EntriesReadBack, BaseInv, CollectionInv
<1> QED
  BY <1>1, BaseInvInit, BaseInvStep, PTL DEF Spec

(* Where each archive comes from.                                          *)
Provenance ==
    \A a \in 1..Len(archive) : \A made, from, list :
        (~Broken(archive[a]) /\ made # "old"
           /\ archive[a].made = made /\ archive[a].from = from /\ Contents(a) = list)
               => MadeOf(made, from, list)

LEMMA ContentsKept ==
    ASSUME ArchivesInv, ArchivesStep
    PROVE  /\ \A a \in 1..Len(archive) :
                 /\ a \in 1..Len(archive') /\ Contents(a)' = Contents(a) /\ archive'[a].made = archive[a].made
                 /\ archive'[a].from = archive[a].from /\ (Broken(archive'[a]) <=> Broken(archive[a]))
           /\ Good \subseteq Good'
<1>1. ASSUME NEW a \in 1..Len(archive)
      PROVE  /\ a \in 1..Len(archive') /\ Contents(a)' = Contents(a) /\ archive'[a].made = archive[a].made
             /\ archive'[a].from = archive[a].from /\ (Broken(archive'[a]) <=> Broken(archive[a]))
  BY DEF ArchivesStep, ArchivesKept, SameArchive, Contents, HasRaw
<1> QED
  BY <1>1 DEF Good

LEMMA MadeOfKept ==
    ASSUME ArchivesInv, ArchivesStep, NEW made, NEW from, NEW list, MadeOf(made, from, list)
    PROVE  MadeOf(made, from, list)'
<1>1. \A a \in Good : a \in Good' /\ Contents(a)' = Contents(a)
  BY ContentsKept DEF Good
<1>2. CASE made = "import" /\ from = <<>>
  BY <1>2 DEF MadeOf
<1>3. ASSUME NEW a \in Good, from = <<a>>,
             \/ /\ made = "kill-duplicates"
                /\ list = Picked(Contents(a), Firsts(Contents(a)))
             \/ /\ made = "filter-newsgroups"
                /\ list = Picked(Contents(a), OfGroup(Contents(a)))
      PROVE  MadeOf(made, from, list)'
  <2> DEFINE old == Contents(a)
  <2>1. a \in Good' /\ Contents(a)' = old
    BY <1>1
  <2>2. \/ made = "kill-duplicates" /\ list = Picked(old, Firsts(old))
        \/ made = "filter-newsgroups" /\ list = Picked(old, OfGroup(old))
    BY <1>3
  <2> HIDE DEF old
  <2> QED
    BY <1>3, <2>1, <2>2 DEF MadeOf
<1>4. ASSUME NEW a \in Good, NEW b \in Good, from = <<a, b>>,
             LET old == Contents(a)
                 new == Contents(b)
             IN  \/ made = "merge-raw" /\ list = old \o Picked(new, New(old, new))
                 \/ made = "relative-complement" /\ list = Picked(old, New(new, old))
                 \/ made = "update-zstd" /\ list = Picked(new, New(old, new)) \o old
                 \/ made = "update-zstd -o" /\ list = Picked(old, New(new, old)) \o new
      PROVE  MadeOf(made, from, list)'
  <2> DEFINE old == Contents(a)
             new == Contents(b)
  <2>1. a \in Good' /\ b \in Good' /\ Contents(a)' = old /\ Contents(b)' = new
    BY <1>1
  <2>2. \/ made = "merge-raw" /\ list = old \o Picked(new, New(old, new))
        \/ made = "relative-complement" /\ list = Picked(old, New(new, old))
        \/ made = "update-zstd" /\ list = Picked(new, New(old, new)) \o old
        \/ made = "update-zstd -o" /\ list = Picked(old, New(new, old)) \o new
    BY <1>4
  <2> HIDE DEF old, new
  <2> QED
    BY <1>4, <2>1, <2>2 DEF MadeOf
<1>5. ASSUME NEW a \in Good, NEW b \in Good, NEW c \in Good, from = <<a, b, c>>, made = "merge-raw",
             list = Contents(a) \o (Picked(Contents(b), New(Contents(a), Contents(b)))
                                    \o Picked(Contents(c), New(Contents(a), Contents(c))))
      PROVE  MadeOf(made, from, list)'
  <2> DEFINE first == Contents(a)
             second == Contents(b)
             third == Contents(c)
  <2>1. /\ a \in Good' /\ b \in Good' /\ c \in Good'
        /\ Contents(a)' = first /\ Contents(b)' = second /\ Contents(c)' = third
    BY <1>1
  <2>2. list = first \o (Picked(second, New(first, second)) \o Picked(third, New(first, third)))
    BY <1>5
  <2> HIDE DEF first, second, third
  <2> QED
    BY <1>5, <2>1, <2>2 DEF MadeOf
<1> QED
  BY <1>2, <1>3, <1>4, <1>5 DEF MadeOf

LEMMA ProvenanceInit == CollectionInit => Provenance
<1> SUFFICES ASSUME CollectionInit PROVE Provenance
  OBVIOUS
<1>1. ArchivesInv
  BY CollectionInvInit DEF CollectionInv
<1>2. DOMAIN archive = 1..Len(archive)
  BY <1>1 DEF ArchivesInv
<1>3. \A k \in DOMAIN archive : archive[k].made = "old"
  BY DEF CollectionInit, Archive
<1> SUFFICES ASSUME NEW a \in 1..Len(archive), NEW made, NEW from, NEW list,
                    made # "old", archive[a].made = made
             PROVE  MadeOf(made, from, list)
  BY Zenon DEF Provenance
<1> QED
  BY <1>2, <1>3

LEMMA ProvenanceStep ==
    ASSUME ArchivesInv, Provenance, ArchivesStep
    PROVE  Provenance'
<1>1. ASSUME NEW a \in 1..Len(archive'), NEW made, NEW from, NEW list,
             ~Broken(archive'[a]), made # "old",
             archive'[a].made = made, archive'[a].from = from, Contents(a)' = list
      PROVE  MadeOf(made, from, list)'
  <2>1. MadeOf(made, from, list)
    <3>1. CASE a \in 1..Len(archive)
      BY <1>1, <3>1, ContentsKept DEF Provenance
    <3>2. CASE a \notin 1..Len(archive)
      <4>1. Len(archive) \in Nat
        BY DEF ArchivesInv
      <4>2. a = Len(archive) + 1 /\ Added(archive'[Len(archive) + 1])
        BY <3>2, <4>1 DEF ArchivesStep
      <4>3. Added(archive'[a])
        BY <4>2
      <4> QED
        BY <1>1, <4>3 DEF Added, Contents, HasRaw
    <3> QED
      BY <3>1, <3>2
  <2> QED
    BY <2>1, MadeOfKept
<1> QED
  BY <1>1 DEF Provenance

(* Lists in which no valid id comes twice.                                 *)
UniqueList(list) == \A i, j \in 1..Len(list) :
                       IdOf[list[i]] = IdOf[list[j]] /\ i # j => IdOf[list[i]] = NoId

LEMMA UniqueIs ==
    ASSUME ArchivesInv, NEW a \in Good
    PROVE  Unique(a) <=> UniqueList(Contents(a))
<1>1. DOMAIN Contents(a) = 1..Len(Contents(a))
  BY GoodContents
<1> QED
  BY <1>1 DEF Unique, UniqueList

(* Of entries in order only one pair has to be looked at.                  *)
LEMMA UniqueInOrder ==
    ASSUME NEW list \in Seq(Msg),
           \A i, j \in 1..Len(list) : i < j /\ IdOf[list[i]] = IdOf[list[j]] => IdOf[list[j]] = NoId
    PROVE  UniqueList(list)
<1> SUFFICES ASSUME NEW i \in 1..Len(list), NEW j \in 1..Len(list),
                    IdOf[list[i]] = IdOf[list[j]], i # j
             PROVE  IdOf[list[i]] = NoId
  BY DEF UniqueList
<1>1. i < j \/ j < i
  OBVIOUS
<1> QED
  BY <1>1

LEMMA FirstsUnique ==
    ASSUME NEW list \in Seq(Msg)
    PROVE  UniqueList(Picked(list, Firsts(list)))
<1> DEFINE kept == Firsts(list)
           some == Picked(list, kept)
<1>1. PicksRight(list, kept, some)
  BY PickedRight
<1>2. some \in Seq(Msg)
  BY <1>1 DEF PicksRight
<1> HIDE DEF some
<1>3. ASSUME NEW x \in 1..Len(some), NEW y \in 1..Len(some), x < y, IdOf[some[x]] = IdOf[some[y]]
      PROVE  IdOf[some[y]] = NoId
  <2>1. PICK i \in 1..Len(list), j \in 1..Len(list) :
             i < j /\ j \in kept /\ some[x] = list[i] /\ some[y] = list[j]
    BY <1>1, <1>3 DEF PicksRight
  <2>2. i \in 1..(j - 1)
    BY <2>1
  <2> QED
    BY <1>3, <2>1, <2>2 DEF Firsts
<1> QED
  BY <1>2, <1>3, UniqueInOrder DEF some

LEMMA PickedUnique ==
    ASSUME NEW list \in Seq(Msg), NEW kept, UniqueList(list)
    PROVE  UniqueList(Picked(list, kept))
<1> DEFINE some == Picked(list, kept)
<1>1. PicksRight(list, kept, some)
  BY PickedRight
<1>2. some \in Seq(Msg)
  BY <1>1 DEF PicksRight
<1> HIDE DEF some
<1>3. ASSUME NEW x \in 1..Len(some), NEW y \in 1..Len(some), x < y, IdOf[some[x]] = IdOf[some[y]]
      PROVE  IdOf[some[y]] = NoId
  <2>1. PICK i \in 1..Len(list), j \in 1..Len(list) :
             i < j /\ some[x] = list[i] /\ some[y] = list[j]
    BY <1>1, <1>3 DEF PicksRight
  <2>2. i # j
    BY <2>1
  <2> QED
    BY <1>3, <2>1, <2>2 DEF UniqueList
<1> QED
  BY <1>2, <1>3, UniqueInOrder DEF some

LEMMA JoinedUnique ==
    ASSUME NEW s \in Seq(Msg), NEW t \in Seq(Msg), UniqueList(s), UniqueList(t),
           \A x \in 1..Len(s), y \in 1..Len(t) : IdOf[s[x]] = IdOf[t[y]] => IdOf[s[x]] = NoId
    PROVE  UniqueList(s \o t)
<1> DEFINE l == s \o t
           n == Len(s)
           o == Len(t)
<1>1. /\ l \in Seq(Msg) /\ Len(l) = n + o /\ n \in Nat /\ o \in Nat
      /\ \A i \in 1..Len(l) : l[i] = IF i <= n THEN s[i] ELSE t[i - n]
  OBVIOUS
<1> HIDE DEF l
<1>2. ASSUME NEW i \in 1..Len(l), NEW j \in 1..Len(l), i < j, IdOf[l[i]] = IdOf[l[j]]
      PROVE  IdOf[l[j]] = NoId
  <2> HIDE DEF n, o
  <2>1. CASE j <= n
    <3>1. i \in 1..n /\ j \in 1..n /\ l[i] = s[i] /\ l[j] = s[j] /\ i # j
      BY <1>1, <1>2, <2>1
    <3> QED
      BY <1>2, <3>1 DEF UniqueList, n
  <2>2. CASE i <= n /\ j > n
    <3> DEFINE y == j - n
    <3>1. i \in 1..n /\ y \in 1..o /\ l[i] = s[i] /\ l[j] = t[y]
      BY <1>1, <1>2, <2>2
    <3> HIDE DEF y
    <3> QED
      BY <1>2, <3>1 DEF n, o
  <2>3. CASE i > n
    <3> DEFINE x == i - n
               y == j - n
    <3>1. x \in 1..o /\ y \in 1..o /\ l[i] = t[x] /\ l[j] = t[y] /\ x # y
      BY <1>1, <1>2, <2>3
    <3> HIDE DEF x, y
    <3> QED
      BY <1>2, <3>1 DEF UniqueList, o
  <2> QED
    BY <1>1, <2>1, <2>2, <2>3
<1> QED
  BY <1>1, <1>2, UniqueInOrder DEF l

(* What is new to a list brings no id that is there.                       *)
LEMMA NewUnique ==
    ASSUME NEW other \in Seq(Msg), NEW list \in Seq(Msg), UniqueList(other), UniqueList(list)
    PROVE  /\ UniqueList(other \o Picked(list, New(other, list)))
           /\ UniqueList(Picked(list, New(other, list)) \o other)
<1> DEFINE kept == New(other, list)
           some == Picked(list, kept)
<1>1. PicksRight(list, kept, some) /\ UniqueList(some)
  BY PickedRight, PickedUnique
<1>2. some \in Seq(Msg)
  BY <1>1 DEF PicksRight
<1> HIDE DEF some
<1>3. ASSUME NEW x \in 1..Len(other), NEW y \in 1..Len(some), IdOf[other[x]] = IdOf[some[y]]
      PROVE  IdOf[other[x]] = NoId
  <2>1. PICK i \in 1..Len(list) : i \in kept /\ some[y] = list[i]
    BY <1>1 DEF PicksRight
  <2> QED
    BY <1>3, <2>1 DEF New
<1>4. UniqueList(other \o some)
  BY <1>1, <1>2, <1>3, JoinedUnique
<1>5. \A y \in 1..Len(some), x \in 1..Len(other) : IdOf[some[y]] = IdOf[other[x]] => IdOf[some[y]] = NoId
  BY <1>3
<1>6. UniqueList(some \o other)
  BY <1>1, <1>2, <1>5, JoinedUnique
<1> QED
  BY <1>4, <1>6 DEF some

LEMMA RangeJoined ==
    ASSUME NEW s \in Seq(Msg), NEW t \in Seq(Msg)
    PROVE  Range(s \o t) = Range(s) \cup Range(t)
<1> DEFINE l == s \o t
           n == Len(s)
<1>1. /\ Len(l) = n + Len(t) /\ n \in Nat /\ Len(t) \in Nat
      /\ DOMAIN l = 1..Len(l) /\ DOMAIN s = 1..n /\ DOMAIN t = 1..Len(t)
      /\ \A i \in 1..Len(l) : l[i] = IF i <= n THEN s[i] ELSE t[i - n]
  OBVIOUS
<1> HIDE DEF l, n
<1>2. ASSUME NEW m \in Range(l) PROVE m \in Range(s) \cup Range(t)
  <2>1. PICK i \in 1..Len(l) : m = l[i]
    BY <1>1 DEF Range
  <2>2. CASE i <= n
    BY <1>1, <2>1, <2>2 DEF Range
  <2>3. CASE ~(i <= n)
    <3>1. i - n \in 1..Len(t) /\ m = t[i - n]
      BY <1>1, <2>1, <2>3
    <3> QED
      BY <1>1, <3>1 DEF Range
  <2> QED
    BY <2>2, <2>3
<1>3. ASSUME NEW m \in Range(s) PROVE m \in Range(l)
  <2>1. PICK i \in 1..n : m = s[i]
    BY <1>1 DEF Range
  <2>2. i \in 1..Len(l) /\ l[i] = m
    BY <1>1, <2>1
  <2> QED
    BY <1>1, <2>2 DEF Range
<1>4. ASSUME NEW m \in Range(t) PROVE m \in Range(l)
  <2>1. PICK i \in 1..Len(t) : m = t[i]
    BY <1>1 DEF Range
  <2>2. n + i \in 1..Len(l) /\ ~(n + i <= n) /\ (n + i) - n = i
    BY <1>1
  <2>3. l[n + i] = m
    BY <1>1, <2>1, <2>2
  <2> QED
    BY <1>1, <2>2, <2>3 DEF Range
<1> QED
  BY <1>2, <1>3, <1>4 DEF l

LEMMA ListOfTwo ==
    ASSUME NEW f, Len(f) = 2
    PROVE  f # <<>> /\ (\A x : f # <<x>>) /\ \A x, y, z : f # <<x, y, z>>
<1>1. f # <<>>
  <2>1. Len(<<>>) # 2
    OBVIOUS
  <2> QED
    BY <2>1, Zenon
<1>2. ASSUME NEW x, f = <<x>> PROVE FALSE
  <2>1. Len(<<x>>) = 1
    OBVIOUS
  <2>2. Len(f) = 1
    BY <1>2, <2>1
  <2> QED
    BY <2>2
<1>3. ASSUME NEW x, NEW y, NEW z PROVE f # <<x, y, z>>
  <2>1. Len(<<x, y, z>>) # 2
    OBVIOUS
  <2> QED
    BY <2>1, Zenon
<1> QED
  BY <1>1, <1>2, <1>3

LEMMA VersionsOf ==
    ASSUME ArchivesInv, Provenance, NEW a \in DOMAIN archive
    PROVE  LET made == archive[a].made
               from == archive[a].from
               Has(m) == m \in Range(Contents(a))
           IN  /\ made = "kill-duplicates" => Unique(a)
               /\ made \in {"merge-raw", "update-zstd", "update-zstd -o"} /\ Len(from) = 2 =>
                     /\ Unique(from[1]) /\ Unique(from[2]) => Unique(a)
                     /\ \A m \in Range(Contents(from[IF made = "update-zstd -o" THEN 2 ELSE 1])) : Has(m)
<1> DEFINE made == archive[a].made
           from == archive[a].from
           list == Contents(a)
<1>1. a \in 1..Len(archive)
  BY DEF ArchivesInv
<1>2. CASE made \notin {"kill-duplicates", "merge-raw", "update-zstd", "update-zstd -o"}
  BY <1>2
<1>3. CASE made \in {"kill-duplicates", "merge-raw", "update-zstd", "update-zstd -o"}
  <2>1. a \in Good /\ made # "old"
    BY <1>1, <1>3 DEF Good, Broken
  <2>2. MadeOf(made, from, list)
    BY <1>1, <2>1 DEF Provenance, Good
  <2>3. Unique(a) <=> UniqueList(list)
    BY <2>1, UniqueIs
  <2>4. CASE made = "kill-duplicates"
    <3>1. PICK b \in Good : list = Picked(Contents(b), Firsts(Contents(b)))
      <4> HIDE DEF made, from, list
      <4> QED
        BY <2>2, <2>4 DEF MadeOf
    <3>2. Contents(b) \in Seq(Msg)
      BY GoodContents
    <3>3. UniqueList(list)
      BY <3>1, <3>2, FirstsUnique
    <3> QED
      BY <2>3, <2>4, <3>3
  <2>5. CASE made \in {"merge-raw", "update-zstd", "update-zstd -o"} /\ Len(from) = 2
    <3>1. PICK b \in Good, c \in Good :
             LET old == Contents(b)
                 new == Contents(c)
             IN  /\ from = <<b, c>>
                 /\ \/ made = "merge-raw" /\ list = old \o Picked(new, New(old, new))
                    \/ made = "update-zstd" /\ list = Picked(new, New(old, new)) \o old
                    \/ made = "update-zstd -o" /\ list = Picked(old, New(new, old)) \o new
      <4> HIDE DEF made, from, list
      <4>1. from # <<>> /\ (\A x : from # <<x>>) /\ \A x, y, z : from # <<x, y, z>>
        BY <2>5, ListOfTwo
      <4> QED
        BY <2>2, <2>5, <4>1 DEF MadeOf
    <3> DEFINE old == Contents(b)
               new == Contents(c)
    <3>2. old \in Seq(Msg) /\ new \in Seq(Msg)
      BY GoodContents
    <3>3. (Unique(b) <=> UniqueList(old)) /\ (Unique(c) <=> UniqueList(new))
      BY UniqueIs
    <3>4. from[1] = b /\ from[2] = c
      <4>1. from = <<b, c>>
        BY <3>1
      <4> HIDE DEF from
      <4> QED
        BY <4>1
    <3>5. /\ made = "merge-raw" => list = old \o Picked(new, New(old, new))
          /\ made = "update-zstd" => list = Picked(new, New(old, new)) \o old
          /\ made = "update-zstd -o" => list = Picked(old, New(new, old)) \o new
      BY <3>1
    <3>6. Picked(new, New(old, new)) \in Seq(Msg) /\ Picked(old, New(new, old)) \in Seq(Msg)
      BY <3>2, PickedRight DEF PicksRight
    <3> HIDE DEF made, from, list, old, new
    <3>7. UniqueList(old) /\ UniqueList(new) => UniqueList(list)
      BY <2>5, <3>2, <3>5, NewUnique
    <3>8. /\ made \in {"merge-raw", "update-zstd"} => Range(old) \subseteq Range(list)
          /\ made = "update-zstd -o" => Range(new) \subseteq Range(list)
      <4> DEFINE more == Picked(new, New(old, new))
                 rest == Picked(old, New(new, old))
      <4>1. /\ Range(old \o more) = Range(old) \cup Range(more)
            /\ Range(more \o old) = Range(more) \cup Range(old)
            /\ Range(rest \o new) = Range(rest) \cup Range(new)
        BY <3>2, <3>6, RangeJoined
      <4> HIDE DEF more, rest
      <4>2. /\ Range(old) \subseteq Range(old \o more) /\ Range(old) \subseteq Range(more \o old)
            /\ Range(new) \subseteq Range(rest \o new)
        BY <4>1
      <4> QED
        BY <3>5, <4>2 DEF more, rest
    <3>9. Unique(from[1]) /\ Unique(from[2]) => Unique(a)
      BY <2>3, <3>3, <3>4, <3>7
    <3>10. \A m \in Range(Contents(from[IF made = "update-zstd -o" THEN 2 ELSE 1])) : m \in Range(list)
      BY <2>5, <3>4, <3>8 DEF old, new
    <3> QED
      BY <2>5, <3>9, <3>10 DEF made, from, list
  <2>6. CASE made # "kill-duplicates" /\ Len(from) # 2
    BY <2>6
  <2> QED
    BY <1>3, <2>4, <2>5, <2>6
<1> QED
  BY <1>2, <1>3

(* Archives without duplicates give one without, and of a message two      *)
(* sources have the promised version stays, for lists of any messages.     *)
THEOREM VersionsAreChosen == Spec => []VersionsChosen
<1> DEFINE I == BaseInv /\ Provenance
<1>1. Init => I
  BY BaseInvInit, ProvenanceInit DEF Init
<1>2. I /\ [Next]_vars => I'
  BY BaseInvStep, ProvenanceStep DEF BaseInv, CollectionInv
<1>3. I => VersionsChosen
  BY VersionsOf DEF VersionsChosen, BaseInv, CollectionInv
<1> QED
  BY <1>1, <1>2, <1>3, PTL DEF Spec

(* What the utilities do to the identities of messages.                    *)
IdentityOf(m) == IF IdOf[m] = NoId THEN m ELSE IdOf[m]

LEMMA IdentityIn ==
    ASSUME NEW S, NEW m \in S
    PROVE  IdentityOf(m) \in Identities(S)
BY DEF Identities, IdentityOf

LEMMA IdentitiesFrom ==
    ASSUME NEW S, NEW x \in Identities(S)
    PROVE  \E m \in S : x = IdentityOf(m)
BY DEF Identities, IdentityOf

LEMMA IdentitiesJoin ==
    ASSUME NEW S, NEW T
    PROVE  Identities(S \cup T) = Identities(S) \cup Identities(T)
BY DEF Identities

LEMMA IdentitiesWithin ==
    ASSUME NEW S, NEW T, S \subseteq T
    PROVE  Identities(S) \subseteq Identities(T)
BY DEF Identities

LEMMA IdentityTyped ==
    ASSUME NEW m \in Msg
    PROVE  /\ IdentityOf(m) \in MsgId <=> IdOf[m] # NoId
           /\ \A o \in Msg : IdentityOf(m) \in MsgId
                                => (IdentityOf(o) = IdentityOf(m) <=> IdOf[o] = IdOf[m])
<1>1. \A o \in Msg : (IdOf[o] = NoId \/ IdOf[o] \in MsgId) /\ o \notin MsgId
  BY CollectionAssumption
<1>2. NoId \notin MsgId
  BY CollectionAssumption
<1> QED
  BY <1>1, <1>2 DEF IdentityOf

LEMMA RangeOf ==
    ASSUME NEW list \in Seq(Msg)
    PROVE  /\ Range(list) = {list[i] : i \in 1..Len(list)} /\ Range(list) \subseteq Msg
           /\ \A i \in 1..Len(list) : list[i] \in Range(list)
<1>1. DOMAIN list = 1..Len(list) /\ \A i \in 1..Len(list) : list[i] \in Msg
  OBVIOUS
<1> QED
  BY <1>1 DEF Range

LEMMA PickedRange ==
    ASSUME NEW list \in Seq(Msg), NEW kept
    PROVE  /\ Picked(list, kept) \in Seq(Msg)
           /\ \A m : m \in Range(Picked(list, kept))
                        <=> \E i \in 1..Len(list) : i \in kept /\ m = list[i]
<1> DEFINE some == Picked(list, kept)
<1>1. PicksRight(list, kept, some)
  BY PickedRight
<1>2. some \in Seq(Msg)
  BY <1>1 DEF PicksRight
<1> HIDE DEF some
<1>3. ASSUME NEW m, m \in Range(some)
      PROVE  \E i \in 1..Len(list) : i \in kept /\ m = list[i]
  <2>1. PICK x \in 1..Len(some) : m = some[x]
    BY <1>2, <1>3, RangeOf
  <2> QED
    BY <1>1, <2>1 DEF PicksRight
<1>4. ASSUME NEW i \in 1..Len(list), i \in kept
      PROVE  list[i] \in Range(some)
  <2>1. PICK x \in 1..Len(some) : some[x] = list[i]
    BY <1>1, <1>4 DEF PicksRight
  <2> QED
    BY <1>2, <2>1, RangeOf
<1> QED
  BY <1>2, <1>3, <1>4 DEF some

(* Removing duplicates loses nothing.                                      *)
LEMMA FirstsHold ==
    ASSUME NEW list \in Seq(Msg)
    PROVE  Identities(Range(Picked(list, Firsts(list)))) = Identities(Range(list))
<1> DEFINE some == Picked(list, Firsts(list))
<1>1. \A m : m \in Range(some) <=> \E i \in 1..Len(list) : i \in Firsts(list) /\ m = list[i]
  BY PickedRange
<1> HIDE DEF some
<1>2. Range(some) \subseteq Range(list)
  BY <1>1, RangeOf
<1>3. ASSUME NEW i \in 1..Len(list)
      PROVE  IdentityOf(list[i]) \in Identities(Range(some))
  <2>1. CASE IdOf[list[i]] = NoId
    <3>1. list[i] \in Range(some)
      BY <1>1, <2>1 DEF Firsts
    <3> QED
      BY <3>1, IdentityIn
  <2>2. CASE IdOf[list[i]] # NoId
    <3> DEFINE T == {k \in 1..Len(list) : IdOf[list[k]] = IdOf[list[i]]}
    <3>1. T \in SUBSET Nat /\ T # {}
      OBVIOUS
    <3>2. PICK k \in T : \A j \in T : ~(j < k)
      BY <3>1, FirstPlace
    <3>3. k \in 1..Len(list) /\ IdOf[list[k]] = IdOf[list[i]]
      BY <3>2
    <3>4. ASSUME NEW j \in 1..(k - 1) PROVE IdOf[list[j]] # IdOf[list[k]]
      <4>1. j < k /\ j \in 1..Len(list)
        BY <3>3
      <4> QED
        BY <3>2, <3>3, <4>1
    <3>5. list[k] \in Range(some)
      BY <1>1, <3>3, <3>4 DEF Firsts
    <3>6. IdentityOf(list[k]) = IdentityOf(list[i])
      BY <2>2, <3>3 DEF IdentityOf
    <3>7. IdentityOf(list[k]) \in Identities(Range(some))
      BY <3>5, IdentityIn
    <3> QED
      BY <3>6, <3>7
  <2> QED
    BY <2>1, <2>2
<1>4. ASSUME NEW x \in Identities(Range(list)) PROVE x \in Identities(Range(some))
  <2>1. PICK m \in Range(list) : x = IdentityOf(m)
    BY IdentitiesFrom
  <2>2. PICK i \in 1..Len(list) : m = list[i]
    BY RangeOf
  <2> QED
    BY <1>3, <2>1, <2>2
<1>5. Identities(Range(some)) \subseteq Identities(Range(list))
  BY <1>2, IdentitiesWithin
<1> QED
  BY <1>4, <1>5 DEF some

(* With what is new to a list its identities are those of both.            *)
LEMMA NewHolds ==
    ASSUME NEW old \in Seq(Msg), NEW new \in Seq(Msg)
    PROVE  Identities(Range(old)) \cup Identities(Range(Picked(new, New(old, new))))
             = Identities(Range(old)) \cup Identities(Range(new))
<1> DEFINE some == Picked(new, New(old, new))
<1>1. \A m : m \in Range(some) <=> \E i \in 1..Len(new) : i \in New(old, new) /\ m = new[i]
  BY PickedRange
<1> HIDE DEF some
<1>2. Range(some) \subseteq Range(new)
  BY <1>1, RangeOf
<1>3. ASSUME NEW x \in Identities(Range(new))
      PROVE  x \in Identities(Range(old)) \/ x \in Identities(Range(some))
  <2>1. PICK m \in Range(new) : x = IdentityOf(m)
    BY IdentitiesFrom
  <2>2. PICK i \in 1..Len(new) : m = new[i]
    BY RangeOf
  <2>3. CASE i \in New(old, new)
    <3>1. m \in Range(some)
      BY <1>1, <2>2, <2>3
    <3> QED
      BY <2>1, <3>1, IdentityIn
  <2>4. CASE i \notin New(old, new)
    <3>1. PICK j \in 1..Len(old) : IdOf[old[j]] = IdOf[new[i]] /\ IdOf[new[i]] # NoId
      BY <2>4 DEF New
    <3>2. IdentityOf(old[j]) = x
      BY <2>1, <2>2, <3>1 DEF IdentityOf
    <3>3. old[j] \in Range(old)
      BY RangeOf
    <3>4. IdentityOf(old[j]) \in Identities(Range(old))
      BY <3>3, IdentityIn
    <3> QED
      BY <3>2, <3>4
  <2> QED
    BY <2>3, <2>4
<1>4. Identities(Range(some)) \subseteq Identities(Range(new))
  BY <1>2, IdentitiesWithin
<1> QED
  BY <1>3, <1>4 DEF some

LEMMA JoinedHolds ==
    ASSUME NEW s \in Seq(Msg), NEW t \in Seq(Msg)
    PROVE  Identities(Range(s \o t)) = Identities(Range(s)) \cup Identities(Range(t))
BY RangeJoined, IdentitiesJoin

(* What is new to a list is what the complement promises.                  *)
LEMMA ComplementHolds ==
    ASSUME NEW old \in Seq(Msg), NEW new \in Seq(Msg)
    PROVE  Identities(Range(Picked(old, New(new, old))))
             = Identities(Range(old)) \ (Identities(Range(new)) \cap MsgId)
<1> DEFINE some == Picked(old, New(new, old))
           IdsOld == Identities(Range(old))
           IdsNew == Identities(Range(new))
<1>1. \A m : m \in Range(some) <=> \E i \in 1..Len(old) : i \in New(new, old) /\ m = old[i]
  BY PickedRange
<1> HIDE DEF some
<1>2. Range(some) \subseteq Range(old)
  BY <1>1, RangeOf
<1>3. \A m \in Range(old) : m \in Msg
  BY RangeOf
<1>4. \A m \in Range(new) : m \in Msg
  BY RangeOf
<1>5. ASSUME NEW i \in 1..Len(old)
      PROVE  i \in New(new, old) <=> ~(IdentityOf(old[i]) \in MsgId /\ IdentityOf(old[i]) \in IdsNew)
  <2>1. old[i] \in Msg
    OBVIOUS
  <2>2. CASE IdOf[old[i]] = NoId
    <3>1. IdentityOf(old[i]) \notin MsgId
      BY <2>1, <2>2, IdentityTyped
    <3>2. i \in New(new, old)
      BY <2>2 DEF New
    <3> QED
      BY <3>1, <3>2
  <2>3. CASE IdOf[old[i]] # NoId
    <3>1. IdentityOf(old[i]) \in MsgId
      BY <2>1, <2>3, IdentityTyped
    <3>2. \A m \in Msg : IdentityOf(m) = IdentityOf(old[i]) <=> IdOf[m] = IdOf[old[i]]
      BY <2>1, <3>1, IdentityTyped
    <3>3. ASSUME NEW j \in 1..Len(new), IdOf[new[j]] = IdOf[old[i]]
          PROVE  IdentityOf(old[i]) \in IdsNew
      <4>1. new[j] \in Range(new) /\ new[j] \in Msg
        BY RangeOf
      <4>2. IdentityOf(new[j]) \in IdsNew /\ IdentityOf(new[j]) = IdentityOf(old[i])
        BY <3>2, <3>3, <4>1, IdentityIn
      <4> QED
        BY <4>2
    <3>4. ASSUME IdentityOf(old[i]) \in IdsNew
          PROVE  \E j \in 1..Len(new) : IdOf[new[j]] = IdOf[old[i]]
      <4>1. PICK m \in Range(new) : IdentityOf(old[i]) = IdentityOf(m)
        BY <3>4, IdentitiesFrom
      <4>2. PICK j \in 1..Len(new) : m = new[j]
        BY RangeOf
      <4>3. IdOf[m] = IdOf[old[i]]
        BY <1>4, <3>2, <4>1
      <4> QED
        BY <4>2, <4>3
    <3> HIDE DEF IdsNew
    <3>5. i \in New(new, old) <=> \A j \in 1..Len(new) : IdOf[new[j]] # IdOf[old[i]]
      BY <2>3 DEF New
    <3> QED
      BY <3>1, <3>3, <3>4, <3>5
  <2> QED
    BY <2>2, <2>3
<1>6. ASSUME NEW x \in Identities(Range(some))
      PROVE  x \in IdsOld /\ ~(x \in IdsNew /\ x \in MsgId)
  <2>1. PICK m \in Range(some) : x = IdentityOf(m)
    BY IdentitiesFrom
  <2>2. PICK i \in 1..Len(old) : i \in New(new, old) /\ m = old[i]
    BY <1>1
  <2>3. x \in IdsOld
    BY <1>2, <2>1, IdentityIn
  <2> HIDE DEF IdsOld, IdsNew
  <2> QED
    BY <1>5, <2>1, <2>2, <2>3
<1>7. ASSUME NEW x \in IdsOld, ~(x \in IdsNew /\ x \in MsgId)
      PROVE  x \in Identities(Range(some))
  <2>1. PICK m \in Range(old) : x = IdentityOf(m)
    BY IdentitiesFrom
  <2>2. PICK i \in 1..Len(old) : m = old[i]
    BY RangeOf
  <2>3. i \in New(new, old)
    <3> HIDE DEF IdsOld, IdsNew
    <3> QED
      BY <1>5, <1>7, <2>1, <2>2
  <2>4. m \in Range(some)
    BY <1>1, <2>2, <2>3
  <2> QED
    BY <2>1, <2>4, IdentityIn
<1> QED
  BY <1>6, <1>7 DEF some

(* What a filter keeps, and what it never keeps.                           *)
Wanted   == Identities(Msg) \ Identities(Msg \ (Dated \cap InGroup))
Unwanted == Identities(Msg) \ Identities(Dated \cap InGroup)

LEMMA FilterHolds ==
    ASSUME NEW list \in Seq(Msg), NEW has, has = Identities(Range(Picked(list, OfGroup(list))))
    PROVE  /\ has \subseteq Identities(Range(list))
           /\ Identities(Range(list)) \cap Wanted \subseteq has
           /\ has \cap Unwanted = {}
<1> DEFINE some == Range(Picked(list, OfGroup(list)))
           W == Dated \cap InGroup
<1>1. \A m : m \in some <=> \E i \in 1..Len(list) : i \in OfGroup(list) /\ m = list[i]
  BY PickedRange
<1> HIDE DEF some
<1>2. \A m : m \in some <=> m \in Range(list) /\ m \in W
  BY <1>1, RangeOf DEF OfGroup
<1> HIDE DEF W
<1>3. some \subseteq Range(list) /\ some \subseteq W /\ Range(list) \subseteq Msg
  BY <1>2, RangeOf
<1>4. Identities(some) \subseteq Identities(Range(list)) /\ Identities(some) \subseteq Identities(W)
  BY <1>3, IdentitiesWithin
<1>5. ASSUME NEW x \in Identities(Range(list)), x \notin Identities(Msg \ W)
      PROVE  x \in Identities(some)
  <2>1. PICK m \in Range(list) : x = IdentityOf(m)
    BY IdentitiesFrom
  <2>2. m \in W
    <3> SUFFICES ASSUME m \notin W PROVE FALSE
      OBVIOUS
    <3>1. m \in Msg \ W
      BY <1>3
    <3> QED
      BY <1>5, <2>1, <3>1, IdentityIn
  <2>3. m \in some
    BY <1>2, <2>2
  <2> QED
    BY <2>1, <2>3, IdentityIn
<1> QED
  BY <1>4, <1>5 DEF some, W, Wanted, Unwanted

(* A sequence and the same with one more at its end.                       *)
LEMMA AppendIs ==
    ASSUME NEW S, NEW n \in Nat, NEW s \in [1..n -> S], NEW t \in [1..(n + 1) -> S],
           \A i \in 1..n : t[i] = s[i]
    PROVE  t = Append(s, t[n + 1]) /\ s \in Seq(S)
<1> DEFINE e == t[n + 1]
<1>1. s \in Seq(S) /\ Len(s) = n /\ e \in S
  OBVIOUS
<1>2. t \in Seq(S) /\ Len(t) = n + 1
  OBVIOUS
<1>3. \A i \in 1..(n + 1) : i = n + 1 \/ i \in 1..n
  OBVIOUS
<1> HIDE DEF e
<1>4. \A i \in 1..(n + 1) : t[i] = Append(s, e)[i]
  BY <1>1, <1>3 DEF e
<1>5. Append(s, e) \in Seq(S) /\ Len(Append(s, e)) = n + 1
  BY <1>1
<1> QED
  BY <1>1, <1>2, <1>4, <1>5 DEF e

(* The archives as MessageSets has them.                                   *)
BrokenFrom == \A a \in 1..Len(archive) :
                 Broken(archive[a]) => \E x, y \in Good : archive[a].from = <<x, y>>

Entry(a) == [kind |-> Kind(a), from |-> archive[a].from, has |-> Holds(a)]

Held == [a \in DOMAIN archive |-> Entry(a)]

KindName == {"old", "import", "copy", "filter", "complement", "union"}

EntryForm == [kind : KindName, from : Seq(Nat), has : SUBSET Identities(Msg)]

LEMMA BrokenFromInit == CollectionInit => BrokenFrom
<1> SUFFICES ASSUME CollectionInit PROVE BrokenFrom
  OBVIOUS
<1>1. DOMAIN archive = 1..Len(archive)
  BY CollectionInvInit DEF CollectionInv, ArchivesInv
<1>2. \A k \in DOMAIN archive : archive[k].made = "old"
  BY DEF CollectionInit, Archive
<1> QED
  BY <1>1, <1>2 DEF BrokenFrom, Broken

LEMMA BrokenFromStep ==
    ASSUME ArchivesInv, BrokenFrom, ArchivesStep
    PROVE  BrokenFrom'
<1> SUFFICES ASSUME NEW a \in 1..Len(archive'), Broken(archive'[a])
             PROVE  \E x, y \in Good' : archive'[a].from = <<x, y>>
  BY DEF BrokenFrom
<1>1. CASE a \in 1..Len(archive)
  BY <1>1, ContentsKept DEF BrokenFrom
<1>2. CASE a \notin 1..Len(archive)
  <2>1. Len(archive) \in Nat
    BY DEF ArchivesInv
  <2>2. a = Len(archive) + 1 /\ Added(archive'[Len(archive) + 1])
    BY <1>2, <2>1 DEF ArchivesStep
  <2>3. Added(archive'[a])
    BY <2>2
  <2> QED
    BY <2>3, ContentsKept DEF Added
<1> QED
  BY <1>1, <1>2

LEMMA HoldsGood ==
    ASSUME ArchivesInv, NEW a \in Good
    PROVE  Holds(a) = Identities(Range(Contents(a)))
<1>1. ~Wrapped(a)
  BY DEF Good, Wrapped, Broken
<1> QED
  BY <1>1 DEF Holds

LEMMA PairParts ==
    ASSUME NEW f, NEW x, NEW y, f = <<x, y>>
    PROVE  f[1] = x /\ f[2] = y
OBVIOUS

LEMMA HoldsBroken ==
    ASSUME NEW a, Broken(archive[a]), NEW x, NEW y, archive[a].from = <<x, y>>
    PROVE  Holds(a) = Identities(Range(Contents(x))) \ (Identities(Range(Contents(y))) \cap MsgId)
<1>1. Wrapped(a)
  BY DEF Wrapped, Broken
<1>2. archive[a].from[1] = x /\ archive[a].from[2] = y
  BY PairParts
<1> QED
  BY <1>1, <1>2 DEF Holds

LEMMA EntryTyped ==
    ASSUME ArchivesInv, BrokenFrom, NEW a \in 1..Len(archive)
    PROVE  Entry(a) \in EntryForm
<1>1. archive[a] \in ArchiveForm
  BY DEF ArchivesInv
<1>2. archive[a].made \in Maker /\ archive[a].from \in Seq(Nat)
  BY <1>1 DEF ArchiveForm
<1>3. Kind(a) \in KindName
  BY <1>2 DEF Kind, KindName, Maker
<1>4. \A x \in Good : Identities(Range(Contents(x))) \subseteq Identities(Msg)
  BY GoodContents, RangeOf, IdentitiesWithin
<1>5. Holds(a) \subseteq Identities(Msg)
  <2>1. CASE a \in Good
    BY <1>4, <2>1, HoldsGood
  <2>2. CASE Broken(archive[a])
    <3>1. PICK x \in Good, y \in Good : archive[a].from = <<x, y>>
      BY <2>2 DEF BrokenFrom
    <3> QED
      BY <1>4, <2>2, <3>1, HoldsBroken
  <2> QED
    BY <2>1, <2>2 DEF Good
<1> QED
  BY <1>2, <1>3, <1>5 DEF Entry, EntryForm

EntriesTyped == \A a \in 1..Len(archive) : Entry(a) \in EntryForm

LEMMA AllEntriesTyped == ArchivesInv /\ BrokenFrom => EntriesTyped
BY EntryTyped DEF EntriesTyped

LEMMA EntryKept ==
    ASSUME ArchivesInv, BrokenFrom, ArchivesStep, NEW a \in 1..Len(archive)
    PROVE  Entry(a)' = Entry(a)
<1>1. /\ archive'[a].made = archive[a].made /\ archive'[a].from = archive[a].from
      /\ Broken(archive'[a]) <=> Broken(archive[a])
  BY ContentsKept
<1>2. Kind(a)' = Kind(a)
  BY <1>1 DEF Kind
<1>3. ArchivesInv'
  BY DEF ArchivesStep
<1>4. Holds(a)' = Holds(a)
  <2>1. CASE a \in Good
    <3>1. a \in Good' /\ Contents(a)' = Contents(a)
      BY <2>1, ContentsKept
    <3>2. ~Wrapped(a) /\ ~Wrapped(a)'
      BY <2>1, <3>1 DEF Good, Wrapped, Broken
    <3> QED
      BY <3>1, <3>2 DEF Holds
  <2>2. CASE Broken(archive[a])
    <3>1. PICK x \in Good, y \in Good : archive[a].from = <<x, y>>
      BY <2>2 DEF BrokenFrom
    <3>2. Contents(x)' = Contents(x) /\ Contents(y)' = Contents(y)
      BY ContentsKept DEF Good
    <3>3. Wrapped(a) /\ Wrapped(a)'
      BY <1>1, <2>2 DEF Wrapped, Broken
    <3>4. archive[a].from[1] = x /\ archive[a].from[2] = y
      BY <3>1, PairParts
    <3>5. archive'[a].from[1] = x /\ archive'[a].from[2] = y
      BY <1>1, <3>4
    <3> QED
      BY <3>2, <3>3, <3>4, <3>5 DEF Holds
  <2> QED
    BY <2>1, <2>2 DEF Good
<1> QED
  BY <1>1, <1>2, <1>4 DEF Entry

LEMMA HeldTyped ==
    ASSUME ArchivesInv, BrokenFrom
    PROVE  /\ Held \in [1..Len(archive) -> EntryForm] /\ Held \in Seq(EntryForm)
           /\ Len(archive) \in Nat /\ DOMAIN Held = 1..Len(archive)
           /\ \A a \in 1..Len(archive) : Held[a] = Entry(a)
<1>1. DOMAIN archive = 1..Len(archive) /\ Len(archive) \in Nat
  BY DEF ArchivesInv
<1>2. \A a \in 1..Len(archive) : Entry(a) \in EntryForm
  BY EntryTyped
<1>3. Held \in [1..Len(archive) -> EntryForm]
  BY <1>1, <1>2 DEF Held
<1>4. Held \in Seq(EntryForm)
  BY <1>1, <1>3
<1> QED
  BY <1>1, <1>3, <1>4 DEF Held

LEMMA HeldSame ==
    ASSUME ArchivesInv, BrokenFrom, ArchivesStep, Len(archive') = Len(archive)
    PROVE  Held' = Held
<1>1. ArchivesInv'
  BY DEF ArchivesStep
<1>2. DOMAIN archive = 1..Len(archive) /\ DOMAIN archive' = 1..Len(archive)
  BY <1>1 DEF ArchivesInv
<1>3. \A a \in 1..Len(archive) : Entry(a)' = Entry(a)
  BY EntryKept
<1> QED
  BY <1>2, <1>3 DEF Held

LEMMA HeldGrows ==
    ASSUME ArchivesInv, BrokenFrom, ArchivesStep, NEW k, k = Len(archive) + 1, Len(archive') = k
    PROVE  Held' = Append(Held, Entry(k)')
<1> DEFINE n == Len(archive)
           s == Held
           t == Held'
<1>1. ArchivesInv' /\ BrokenFrom'
  BY BrokenFromStep DEF ArchivesStep
<1>2. DOMAIN archive = 1..n /\ DOMAIN archive' = 1..(n + 1) /\ n \in Nat
  BY <1>1 DEF ArchivesInv
<1>3. \A a \in 1..(n + 1) : Entry(a)' \in EntryForm'
  <2>1. 1..Len(archive') = 1..(n + 1)
    OBVIOUS
  <2>2. EntriesTyped'
    BY <1>1, AllEntriesTyped, PTL
  <2> QED
    BY <2>1, <2>2 DEF EntriesTyped
<1>4. EntryForm' = EntryForm
  BY DEF EntryForm
<1>5. s \in [1..n -> EntryForm]
  BY HeldTyped
<1>6. t \in [1..(n + 1) -> EntryForm] /\ \A a \in 1..(n + 1) : t[a] = Entry(a)'
  BY <1>2, <1>3, <1>4 DEF Held
<1>7. \A a \in 1..n : s[a] = Entry(a) /\ Entry(a)' = Entry(a)
  BY HeldTyped, EntryKept
<1>8. 1..n \subseteq 1..(n + 1) /\ k \in 1..(n + 1) /\ k = n + 1
  BY <1>2
<1>9. t[k] = Entry(k)'
  BY <1>6, <1>8
<1>10. \A a \in 1..n : t[a] = s[a]
  BY <1>6, <1>7, <1>8
<1> HIDE DEF n, s, t
<1>11. t = Append(s, t[n + 1])
  BY <1>2, <1>5, <1>6, <1>10, AppendIs
<1> QED
  BY <1>8, <1>9, <1>11 DEF s, t

(* What an entry may be that is new.                                       *)
NewEntry(e) ==
    LET A == DOMAIN Held
    IN  \/ \E a \in A : e = [kind |-> "copy", from |-> <<a>>, has |-> Held[a].has]
        \/ \E a \in A : \E kept \in SUBSET Held[a].has :
              /\ Held[a].has \cap Wanted \subseteq kept
              /\ kept \cap Unwanted = {}
              /\ e = [kind |-> "filter", from |-> <<a>>, has |-> kept]
        \/ \E from \in (A \X A) \cup (A \X A \X A) :
              e = [kind |-> "union", from |-> from, has |-> UNION {Held[from[k]].has : k \in DOMAIN from}]
        \/ \E a, b \in A :
              e = [kind |-> "complement", from |-> <<a, b>>, has |-> Held[a].has \ (Held[b].has \cap MsgId)]

LEMMA TwoParts ==
    ASSUME NEW f, NEW a, NEW b, f = <<a, b>>
    PROVE  DOMAIN f = {1, 2} /\ f[1] = a /\ f[2] = b
OBVIOUS

LEMMA ThreeParts ==
    ASSUME NEW f, NEW a, NEW b, NEW c, f = <<a, b, c>>
    PROVE  DOMAIN f = {1, 2, 3} /\ f[1] = a /\ f[2] = b /\ f[3] = c
OBVIOUS

LEMMA PairsIn ==
    ASSUME NEW A, NEW from,
           \/ \E a, b \in A : from = <<a, b>>
           \/ \E a, b, c \in A : from = <<a, b, c>>
    PROVE  from \in (A \X A) \cup (A \X A \X A)
OBVIOUS

LEMMA HeldOfGood ==
    ASSUME ArchivesInv, BrokenFrom, NEW a \in Good
    PROVE  /\ a \in DOMAIN Held /\ Held[a].has = Identities(Range(Contents(a)))
           /\ Contents(a) \in Seq(Msg)
<1>1. a \in 1..Len(archive) /\ Contents(a) \in Seq(Msg)
  BY GoodContents
<1>2. a \in DOMAIN Held /\ Held[a] = Entry(a)
  BY <1>1, HeldTyped
<1>3. Entry(a).has = Holds(a)
  BY DEF Entry
<1> QED
  BY <1>1, <1>2, <1>3, HoldsGood

LEMMA BrokenEntry ==
    ASSUME ArchivesInv, BrokenFrom, ArchivesStep, NEW k, Broken(archive'[k]), NEW made, made = archive'[k].made,
           NEW x \in Good, NEW y \in Good, archive'[k].from = <<x, y>>
    PROVE  Entry(k)' = [kind |-> "complement", from |-> <<x, y>>, has |-> Held[x].has \ (Held[y].has \cap MsgId)]
<1>1. Contents(x)' = Contents(x) /\ Contents(y)' = Contents(y)
  BY ContentsKept DEF Good
<1>2. Wrapped(k)' /\ archive'[k].made = "relative-complement"
  BY DEF Wrapped, Broken
<1>3. archive'[k].from[1] = x /\ archive'[k].from[2] = y
  BY PairParts
<1>4. Holds(k)' = Identities(Range(Contents(x))) \ (Identities(Range(Contents(y))) \cap MsgId)
  BY <1>1, <1>2, <1>3 DEF Holds
<1>5. Kind(k)' = "complement"
  BY <1>2 DEF Kind
<1> QED
  BY <1>4, <1>5, HeldOfGood DEF Entry

LEMMA MadeEntry ==
    ASSUME ArchivesInv, BrokenFrom, NEW made, made # "import", NEW from, NEW list,
           MadeOf(made, from, list), NEW kind, NEW has, has = Identities(Range(list)),
           made = "kill-duplicates" => kind = "copy",
           made = "filter-newsgroups" => kind = "filter",
           made = "relative-complement" => kind = "complement",
           made \in {"merge-raw", "update-zstd", "update-zstd -o"} => kind = "union",
           NEW e, e = [kind |-> kind, from |-> from, has |-> has]
    PROVE  NewEntry(e)
<1>1. ASSUME NEW a \in Good, from = <<a>>, made = "kill-duplicates",
             list = Picked(Contents(a), Firsts(Contents(a)))
      PROVE  NewEntry(e)
  <2>1. has = Held[a].has /\ a \in DOMAIN Held
    BY <1>1, HeldOfGood, FirstsHold
  <2>2. e = [kind |-> "copy", from |-> <<a>>, has |-> Held[a].has]
    BY <1>1, <2>1
  <2> QED
    BY <2>1, <2>2, Zenon DEF NewEntry
<1>2. ASSUME NEW a \in Good, from = <<a>>, made = "filter-newsgroups",
             list = Picked(Contents(a), OfGroup(Contents(a)))
      PROVE  NewEntry(e)
  <2>1. Held[a].has = Identities(Range(Contents(a))) /\ Contents(a) \in Seq(Msg) /\ a \in DOMAIN Held
    BY HeldOfGood
  <2>2. /\ has \in SUBSET Held[a].has
        /\ Held[a].has \cap Wanted \subseteq has
        /\ has \cap Unwanted = {}
    <3>1. PICK old : old = Contents(a)
      OBVIOUS
    <3>2. old \in Seq(Msg) /\ has = Identities(Range(Picked(old, OfGroup(old))))
      BY <1>2, <2>1, <3>1
    <3>3. /\ has \subseteq Identities(Range(old))
          /\ Identities(Range(old)) \cap Wanted \subseteq has
          /\ has \cap Unwanted = {}
      BY <3>2, FilterHolds
    <3> QED
      BY <2>1, <3>1, <3>3, Zenon
  <2>3. e = [kind |-> "filter", from |-> <<a>>, has |-> has]
    BY <1>2
  <2> QED
    BY <2>1, <2>2, <2>3, Zenon DEF NewEntry
<1>3. ASSUME NEW a \in Good, NEW b \in Good, from = <<a, b>>, made \in {"merge-raw", "update-zstd", "update-zstd -o"},
             has = Held[a].has \cup Held[b].has
      PROVE  NewEntry(e)
  <2>1. a \in DOMAIN Held /\ b \in DOMAIN Held
    BY HeldOfGood
  <2>2. has = UNION {Held[from[k]].has : k \in DOMAIN from}
    <3>1. PICK f, pair : f = Held /\ pair = <<a, b>>
      OBVIOUS
    <3>2. UNION {f[pair[k]].has : k \in DOMAIN pair} = f[a].has \cup f[b].has
      <4>1. DOMAIN pair = {1, 2} /\ pair[1] = a /\ pair[2] = b
        BY <3>1, TwoParts
      <4> QED
        BY <4>1, Zenon
    <3> QED
      BY <1>3, <3>1, <3>2
  <2>3. kind = "union"
    BY <1>3
  <2>4. e = [kind |-> "union", from |-> from, has |-> UNION {Held[from[k]].has : k \in DOMAIN from}]
    BY <2>2, <2>3, Zenon
  <2>5. from \in ((DOMAIN Held) \X (DOMAIN Held)) \cup ((DOMAIN Held) \X (DOMAIN Held) \X (DOMAIN Held))
    BY <1>3, <2>1, PairsIn
  <2> QED
    BY <2>4, <2>5, Zenon DEF NewEntry
<1>4. ASSUME NEW a \in Good, NEW b \in Good, from = <<a, b>>,
             LET old == Contents(a)
                 new == Contents(b)
             IN  \/ made = "merge-raw" /\ list = old \o Picked(new, New(old, new))
                 \/ made = "relative-complement" /\ list = Picked(old, New(new, old))
                 \/ made = "update-zstd" /\ list = Picked(new, New(old, new)) \o old
                 \/ made = "update-zstd -o" /\ list = Picked(old, New(new, old)) \o new
      PROVE  NewEntry(e)
  <2> DEFINE old == Contents(a)
             new == Contents(b)
             more == Picked(new, New(old, new))
             rest == Picked(old, New(new, old))
             IdsOld == Identities(Range(old))
             IdsNew == Identities(Range(new))
  <2>1. /\ old \in Seq(Msg) /\ new \in Seq(Msg) /\ a \in DOMAIN Held /\ b \in DOMAIN Held
        /\ Held[a].has = IdsOld /\ Held[b].has = IdsNew
    BY HeldOfGood
  <2>2. more \in Seq(Msg) /\ rest \in Seq(Msg)
    BY <2>1, PickedRange
  <2>3. \/ made = "merge-raw" /\ list = old \o more
        \/ made = "relative-complement" /\ list = rest
        \/ made = "update-zstd" /\ list = more \o old
        \/ made = "update-zstd -o" /\ list = rest \o new
    BY <1>4
  <2>4. CASE made = "relative-complement"
    <3>1. Identities(Range(rest)) = IdsOld \ (IdsNew \cap MsgId)
      BY <2>1, ComplementHolds
    <3>2. kind = "complement" /\ has = Held[a].has \ (Held[b].has \cap MsgId)
      BY <2>1, <2>3, <2>4, <3>1
    <3>3. e = [kind |-> "complement", from |-> <<a, b>>, has |-> Held[a].has \ (Held[b].has \cap MsgId)]
      BY <1>4, <3>2, Zenon
    <3> QED
      BY <2>1, <3>3, Zenon DEF NewEntry
  <2>5. CASE made # "relative-complement"
    <3>1. /\ IdsOld \cup Identities(Range(more)) = IdsOld \cup IdsNew
          /\ IdsNew \cup Identities(Range(rest)) = IdsNew \cup IdsOld
      BY <2>1, NewHolds
    <3>2. /\ Identities(Range(old \o more)) = IdsOld \cup Identities(Range(more))
          /\ Identities(Range(more \o old)) = Identities(Range(more)) \cup IdsOld
          /\ Identities(Range(rest \o new)) = Identities(Range(rest)) \cup IdsNew
      BY <2>1, <2>2, JoinedHolds
    <3> HIDE DEF old, new, more, rest, IdsOld, IdsNew
    <3>3. Identities(Range(list)) = IdsOld \cup IdsNew
      BY <2>3, <2>5, <3>1, <3>2
    <3>4. made \in {"merge-raw", "update-zstd", "update-zstd -o"}
      BY <2>3, <2>5
    <3>5. has = Held[a].has \cup Held[b].has
      BY <2>1, <3>3
    <3> QED
      BY <1>3, <1>4, <3>4, <3>5
  <2> QED
    BY <2>4, <2>5
<1>5. ASSUME NEW a \in Good, NEW b \in Good, NEW c \in Good, from = <<a, b, c>>, made = "merge-raw",
             list = Contents(a) \o (Picked(Contents(b), New(Contents(a), Contents(b)))
                                    \o Picked(Contents(c), New(Contents(a), Contents(c))))
      PROVE  NewEntry(e)
  <2> DEFINE first == Contents(a)
             second == Picked(Contents(b), New(first, Contents(b)))
             third == Picked(Contents(c), New(first, Contents(c)))
             IdsA == Identities(Range(first))
             IdsB == Identities(Range(Contents(b)))
             IdsC == Identities(Range(Contents(c)))
  <2>1. /\ first \in Seq(Msg) /\ Contents(b) \in Seq(Msg) /\ Contents(c) \in Seq(Msg)
        /\ a \in DOMAIN Held /\ b \in DOMAIN Held /\ c \in DOMAIN Held
        /\ Held[a].has = IdsA /\ Held[b].has = IdsB /\ Held[c].has = IdsC
    BY HeldOfGood
  <2>2. second \in Seq(Msg) /\ third \in Seq(Msg)
    BY <2>1, PickedRange
  <2>3. second \o third \in Seq(Msg)
    <3>1. PICK s, t : s = second /\ t = third
      OBVIOUS
    <3>2. s \in Seq(Msg) /\ t \in Seq(Msg)
      BY <2>2, <3>1, Zenon
    <3>3. s \o t \in Seq(Msg)
      BY <3>2, ConcatProperties
    <3> QED
      BY <3>1, <3>3, Zenon
  <2>4. /\ Identities(Range(second \o third)) = Identities(Range(second)) \cup Identities(Range(third))
        /\ Identities(Range(first \o (second \o third))) = IdsA \cup Identities(Range(second \o third))
    BY <2>1, <2>2, <2>3, JoinedHolds
  <2>5. /\ IdsA \cup Identities(Range(second)) = IdsA \cup IdsB
        /\ IdsA \cup Identities(Range(third)) = IdsA \cup IdsC
    BY <2>1, NewHolds
  <2>6. list = first \o (second \o third)
    BY <1>5
  <2> HIDE DEF first, second, third, IdsA, IdsB, IdsC
  <2>7. has = Held[a].has \cup Held[b].has \cup Held[c].has
    BY <2>1, <2>4, <2>5, <2>6
  <2>8. has = UNION {Held[from[k]].has : k \in DOMAIN from}
    <3>1. PICK f, list3 : f = Held /\ list3 = <<a, b, c>>
      OBVIOUS
    <3>2. UNION {f[list3[k]].has : k \in DOMAIN list3} = f[a].has \cup f[b].has \cup f[c].has
      <4>1. DOMAIN list3 = {1, 2, 3} /\ list3[1] = a /\ list3[2] = b /\ list3[3] = c
        BY <3>1, ThreeParts
      <4> QED
        BY <4>1, Zenon
    <3> QED
      BY <1>5, <2>7, <3>1, <3>2
  <2>9. kind = "union"
    BY <1>5
  <2>10. e = [kind |-> "union", from |-> from, has |-> UNION {Held[from[k]].has : k \in DOMAIN from}]
    BY <2>8, <2>9, Zenon
  <2>11. from \in ((DOMAIN Held) \X (DOMAIN Held)) \cup ((DOMAIN Held) \X (DOMAIN Held) \X (DOMAIN Held))
    BY <1>5, <2>1, PairsIn
  <2> QED
    BY <2>10, <2>11, Zenon DEF NewEntry
<1> QED
  BY <1>1, <1>2, <1>4, <1>5 DEF MadeOf

LEMMA NewIsRight ==
    ASSUME ArchivesInv, BrokenFrom, ArchivesStep, NEW k, k = Len(archive) + 1, Len(archive') = k,
           archive'[k].made # "import"
    PROVE  \E e : e = Entry(k)' /\ NewEntry(e)
<1>1. Added(archive'[k])
  <2>1. Len(archive) \in Nat
    BY DEF ArchivesInv
  <2> QED
    BY <2>1 DEF ArchivesStep
<1>2. CASE Broken(archive'[k])
  <2>1. PICK x \in Good, y \in Good : archive'[k].from = <<x, y>>
    BY <1>1, <1>2 DEF Added
  <2>2. Entry(k)' = [kind |-> "complement", from |-> <<x, y>>, has |-> Held[x].has \ (Held[y].has \cap MsgId)]
    BY <1>2, <2>1, BrokenEntry
  <2>3. x \in DOMAIN Held /\ y \in DOMAIN Held
    BY HeldOfGood
  <2> QED
    BY <2>2, <2>3, Zenon DEF NewEntry
<1>3. CASE ~Broken(archive'[k])
  <2>1. PICK made, from, list, e : /\ made = archive'[k].made /\ from = archive'[k].from
                                   /\ list = Contents(k)' /\ e = Entry(k)'
    OBVIOUS
  <2>2. MadeOf(made, from, list)
    BY <1>1, <1>3, <2>1 DEF Added, Contents, HasRaw
  <2>3. ~Wrapped(k)'
    BY <1>3 DEF Wrapped, Broken
  <2>4. e = [kind |-> Kind(k)', from |-> from, has |-> Identities(Range(list))]
    BY <2>1, <2>3 DEF Entry, Holds
  <2>5. /\ made = "kill-duplicates" => Kind(k)' = "copy"
        /\ made = "filter-newsgroups" => Kind(k)' = "filter"
        /\ made = "relative-complement" => Kind(k)' = "complement"
        /\ made \in {"merge-raw", "update-zstd", "update-zstd -o"} => Kind(k)' = "union"
    BY <2>1 DEF Kind
  <2>6. PICK kind : kind = Kind(k)'
    OBVIOUS
  <2>7. NewEntry(e)
    BY <2>1, <2>2, <2>4, <2>5, <2>6, MadeEntry
  <2> QED
    BY <2>1, <2>7
<1> QED
  BY <1>2, <1>3

LEMMA ImportHolds ==
    ASSUME ArchivesInv, NEW files, IsFiniteSet(DOMAIN files), Range(files) \subseteq Msg, Import(files),
           NEW k, k = Len(archive) + 1
    PROVE  /\ Len(archive') = k
           /\ Entry(k)' = [kind |-> "import", from |-> <<>>, has |-> Identities(Range(files))]
<1>1. PICK names \in SetToSeqs(DOMAIN files) :
          Add(Archive("import", <<>>, Written([i \in DOMAIN names |-> Block(files[names[i]])]), NoPair))
  BY DEF Import
<1>2. PICK list : list = [i \in DOMAIN names |-> files[names[i]]]
  OBVIOUS
<1>3. /\ list \in Seq(Msg) /\ DOMAIN list = 1..Len(list) /\ Range(list) = Range(files)
      /\ [i \in DOMAIN names |-> Block(files[names[i]])] = BlocksOf(list)
  BY <1>2, FilesListed
<1> DEFINE w == Written(BlocksOf(list))
           r == Archive("import", <<>>, w, NoPair)
<1>4. archive' = Append(archive, r)
  BY <1>1, <1>3 DEF Add
<1>5. Reads(w, list)
  BY <1>3, WrittenForm
<1> HIDE DEF w
<1>6. /\ r.raw = w /\ r.z = NoPair /\ r.made = "import" /\ r.from = <<>>
  BY DEF Archive
<1> HIDE DEF r
<1>7. Len(archive') = k /\ archive'[k] = r
  <2>1. archive \in Seq(ArchiveForm)
    BY DEF ArchivesInv
  <2> QED
    BY <1>4, <2>1
<1>8. Contents(k)' = list
  <2>1. CASE w # NoPair
    <3>1. Contents(k)' = Texts(w)
      BY <1>6, <1>7, <2>1 DEF Contents, HasRaw
    <3> QED
      BY <1>5, <3>1, TextsAre
  <2>2. CASE w = NoPair
    <3>1. Contents(k)' = Texts(NoPair)
      BY <1>6, <1>7, <2>2 DEF Contents, HasRaw
    <3>2. Texts(NoPair) = list
      BY <1>5, <2>2, TextsAre
    <3> QED
      BY <3>1, <3>2
  <2> QED
    BY <2>1, <2>2
<1>9. ~Wrapped(k)' /\ Kind(k)' = "import"
  BY <1>6, <1>7 DEF Wrapped, Kind
<1>10. Holds(k)' = Identities(Range(files))
  BY <1>3, <1>8, <1>9 DEF Holds
<1> QED
  BY <1>6, <1>7, <1>9, <1>10 DEF Entry

(* No utility imports.                                                     *)
LEMMA AppendedMade ==
    ASSUME ArchivesInv, NEW made, made # "import", NEW from, NEW raw, NEW z,
           archive' = Append(archive, Archive(made, from, raw, z))
    PROVE  archive'[Len(archive) + 1].made # "import"
<1> DEFINE r == Archive(made, from, raw, z)
<1>1. r.made = made
  BY DEF Archive
<1>2. archive' = Append(archive, r)
  OBVIOUS
<1> HIDE DEF r
<1>3. archive'[Len(archive) + 1] = r
  <2>1. archive \in Seq(ArchiveForm)
    BY DEF ArchivesInv
  <2> QED
    BY <1>2, <2>1
<1> QED
  BY <1>1, <1>3

LEMMA UtilitiesMake ==
    ASSUME CollectionInv, ArchivesInv', CollectionNext, Len(archive') = Len(archive) + 1
    PROVE  archive'[Len(archive) + 1].made # "import"
<1>1. ArchivesInv /\ DOMAIN archive = 1..Len(archive) /\ DOMAIN archive' = 1..Len(archive')
      /\ Len(archive) \in Nat
  BY DEF CollectionInv, ArchivesInv
<1>2. DOMAIN archive' # DOMAIN archive
  <2>1. Len(archive') \in DOMAIN archive' /\ Len(archive') \notin DOMAIN archive
    BY <1>1
  <2> QED
    BY <2>1
<1>3. \E made, from, raw, z : /\ made # "import"
                              /\ archive' = Append(archive, Archive(made, from, raw, z))
  <2>1. ASSUME NEW a, KillDuplicates(a)
        PROVE  \E from, raw, z : archive' = Append(archive, Archive("kill-duplicates", from, raw, z))
    BY <2>1, Zenon DEF KillDuplicates, Add
  <2>2. ASSUME NEW a, FilterNewsgroups(a)
        PROVE  \E from, raw, z : archive' = Append(archive, Archive("filter-newsgroups", from, raw, z))
    BY <2>2, Zenon DEF FilterNewsgroups, Add
  <2>3. ASSUME NEW sources, MergeRaw(sources)
        PROVE  \E from, raw, z : archive' = Append(archive, Archive("merge-raw", from, raw, z))
    BY <2>3, Zenon DEF MergeRaw, Add
  <2>4. ASSUME NEW a, NEW b, RelativeComplement(a, b)
        PROVE  \E from, raw, z : archive' = Append(archive, Archive("relative-complement", from, raw, z))
    BY <2>4, Zenon DEF RelativeComplement, Add
  <2>5. ASSUME WriteUpdated
        PROVE  \/ \E from, raw, z : archive' = Append(archive, Archive("update-zstd", from, raw, z))
               \/ \E from, raw, z : archive' = Append(archive, Archive("update-zstd -o", from, raw, z))
    <3>1. CASE job.overwrite
      BY <2>5, <3>1, Zenon DEF WriteUpdated
    <3>2. CASE ~job.overwrite
      BY <2>5, <3>2, Zenon DEF WriteUpdated
    <3> QED
      BY <3>1, <3>2
  <2>6. ASSUME NEW a, NEW b, ExtractMsgid(a) \/ Connect(a) \/ RepackZstd(a) \/ RepackLz4(a)
                             \/ \E overwrite \in BOOLEAN : UpdateZstd(a, b, overwrite)
        PROVE  DOMAIN archive' = DOMAIN archive
    BY <2>6 DEF ExtractMsgid, Connect, RepackZstd, RepackLz4, UpdateZstd, StartJob
  <2>7. ASSUME NEW w, Decompress(w) \/ CopyAndCompress(w) \/ Draw(w) \/ CompressDrawn(w)
        PROVE  DOMAIN archive' = DOMAIN archive
    BY <2>7 DEF Decompress, CopyAndCompress, Draw, CompressDrawn
  <2>8. CASE WriteRepacked
    BY <1>2, <2>8 DEF WriteRepacked
  <2>9. "kill-duplicates" # "import" /\ "filter-newsgroups" # "import" /\ "merge-raw" # "import"
        /\ "relative-complement" # "import"
        /\ "update-zstd" # "import" /\ "update-zstd -o" # "import"
    OBVIOUS
  <2>10. CASE JobStep
    BY <1>2, <2>5, <2>7, <2>8, <2>9, <2>10 DEF JobStep
  <2>11. CASE Utility
    BY <1>2, <2>1, <2>2, <2>3, <2>4, <2>6, <2>9, <2>11 DEF Utility
  <2> QED
    BY <2>10, <2>11 DEF CollectionNext
<1> QED
  BY <1>1, <1>3, AppendedMade
-----------------------------------------------------------------------------
(* What is downloaded stays until it is imported.                          *)
LEMMA CrawlSaves ==
    ASSUME [CrawlNext]_crawlVars
    PROVE  saved \subseteq saved'
<1>1. ASSUME NEW g, StartCrawl(g) PROVE saved' = saved
  BY <1>1 DEF StartCrawl
<1>2. ASSUME NEW p, WorkerTakes(p) \/ WorkerSleeps(p) PROVE saved' = saved
  BY <1>2 DEF WorkerTakes, WorkerSleeps
<1>3. CASE MainTakes \/ MainWaits
  BY <1>3 DEF MainTakes, MainWaits
<1>4. CASE SyncReturns \/ SyncReturnsSpuriously
  BY <1>4 DEF SyncReturns, SyncReturnsSpuriously, AfterSync, Exit
<1>5. ASSUME NEW task, TakeHandle(task) PROVE saved' = saved
  BY <1>5 DEF TakeHandle
<1>6. CASE NoHandleLeft \/ FirstPageUnreadable
  BY <1>6 DEF NoHandleLeft, FirstPageUnreadable, Exit
<1>7. ASSUME NEW n, PageRead(n) \/ PageFails(n) PROVE saved' = saved
  BY <1>7 DEF PageRead, PageFails
<1>8. ASSUME NEW t, TopicFails(t) \/ TopicRead(t) PROVE saved' = saved
  BY <1>8 DEF TopicFails, TopicRead, TopicLists
<1>9. ASSUME NEW m, MessageFails(m) \/ MessageRead(m) PROVE saved \subseteq saved'
  BY <1>9 DEF MessageFails, MessageRead
<1>10. CASE UNCHANGED crawlVars
  BY <1>10 DEF crawlVars
<1> QED
  BY <1>1, <1>2, <1>3, <1>4, <1>5, <1>6, <1>7, <1>8, <1>9, <1>10 DEF CrawlNext, CrawlStep

LEMMA NewsStores ==
    ASSUME NewsInv, [NewsNext]_newsVars
    PROVE  \A name \in DOMAIN file : name \in DOMAIN file' /\ file'[name] = file[name]
<1>1. \A name \in DOMAIN file : name < article
  BY DEF NewsInv, NamesBelow
<1>2. article \in Nat
  BY DEF NewsInv, NumbersTyped
<1>3. article \notin DOMAIN file
  BY <1>1, <1>2
<1>4. CASE file' = file
  BY <1>4
<1>5. ASSUME NEW n, file' = [k \in DOMAIN file \cup {article} |-> IF k = article THEN n ELSE file[k]]
      PROVE  \A name \in DOMAIN file : name \in DOMAIN file' /\ file'[name] = file[name]
  BY <1>3, <1>5
<1> QED
  BY <1>4, <1>5 DEF NewsNext, newsVars, Arrive, Expire, StartSession, SessionStep, FirstArticle,
     NextArticle, GetArticle, Receive, EndSession

LEMMA FilesGrow ==
    ASSUME BaseInv, [CrawlNext]_crawlVars, [NewsNext]_newsVars, download' = download
    PROVE  Downloaded \subseteq Downloaded'
<1>1. saved \subseteq saved'
  BY CrawlSaves
<1>2. \A name \in DOMAIN file : name \in DOMAIN file' /\ file'[name] = file[name]
  BY NewsStores DEF BaseInv
<1>3. CASE download = "groups"
  BY <1>1, <1>3 DEF Downloaded, Files, Range
<1>4. CASE download = "news"
  BY <1>2, <1>4 DEF Downloaded, Files, Range
<1>5. CASE download = "none"
  BY <1>5 DEF Downloaded, Files, Range
<1> QED
  BY <1>3, <1>4, <1>5 DEF BaseInv

(* What MessageSets says, step by step.                                    *)
SetsInv == BaseInv /\ BrokenFrom

LEMMA HeldAtFirst ==
    ASSUME Init
    PROVE  Held \in Seq([from : {<<>>}, kind : {"old"}, has : SUBSET Identities(Msg)])
<1> DEFINE n == Len(archive)
           Old == [from : {<<>>}, kind : {"old"}, has : SUBSET Identities(Msg)]
<1>1. CollectionInit /\ ArchivesInv /\ BrokenFrom
  BY BaseInvInit, BrokenFromInit DEF Init, BaseInv, CollectionInv
<1>2. \A a \in DOMAIN archive : archive[a].made = "old" /\ archive[a].from = <<>>
  BY <1>1 DEF CollectionInit, Archive
<1>3. DOMAIN archive = 1..n /\ n \in Nat /\ Held \in [1..n -> EntryForm]
      /\ \A a \in 1..n : Held[a] = Entry(a) /\ Entry(a) \in EntryForm
  BY <1>1, HeldTyped, EntryTyped
<1>4. ASSUME NEW a \in 1..n
      PROVE  Held[a] \in Old
  <2>1. archive[a].made = "old" /\ archive[a].from = <<>>
    BY <1>2, <1>3
  <2>2. Kind(a) = "old"
    BY <2>1 DEF Kind
  <2>3. Held[a] = [kind |-> "old", from |-> <<>>, has |-> Holds(a)]
    BY <1>3, <2>1, <2>2 DEF Entry
  <2>4. Holds(a) \in SUBSET Identities(Msg)
    BY <1>3 DEF EntryForm, Entry
  <2> QED
    BY <2>3, <2>4
<1> HIDE DEF n, Old
<1>5. Held \in [1..n -> Old]
  BY <1>3, <1>4
<1>6. Held \in Seq(Old)
  BY <1>3, <1>5
<1> QED
  BY <1>6 DEF Old

(* Every step is a step of MessageSets or leaves its state alone.          *)
LEMMA DownloadSteps ==
    ASSUME SetsInv, BaseInv', ArchivesStep, Held' = Held, Downloaded \subseteq Downloaded'
    PROVE  Sets!Next
<1>1. Downloaded' \subseteq Msg
  <2>1. (Downloaded \in SUBSET Msg)'
    BY FilesAreMessages, PTL
  <2> QED
    BY <2>1
<1>2. Identities(Downloaded)' = Identities(Downloaded')
  BY DEF Identities
<1>3. Identities(Downloaded) \subseteq Identities(Downloaded') /\ Identities(Downloaded') \subseteq Identities(Msg)
  BY <1>1, IdentitiesWithin
<1>4. Sets!Download
  BY <1>2, <1>3 DEF Sets!Download, Held, Entry
<1> QED
  BY <1>4 DEF Sets!Next

LEMMA ImportSteps ==
    ASSUME SetsInv, ArchivesStep, ImportFiles
    PROVE  Sets!Next
<1>1. BaseInv /\ BrokenFrom /\ ArchivesInv /\ Import(Files) /\ download' = "none"
  BY DEF ImportFiles, SetsInv, BaseInv, CollectionInv
<1>2. IsFiniteSet(DOMAIN Files) /\ Range(Files) \subseteq Msg
  BY <1>1, FilesAreMessages DEF Downloaded
<1>3. PICK k : k = Len(archive) + 1
  OBVIOUS
<1>4. Len(archive') = k /\ Entry(k)' = [kind |-> "import", from |-> <<>>, has |-> Identities(Downloaded)]
  BY <1>1, <1>2, <1>3, ImportHolds DEF Downloaded
<1>5. Held' = Append(Held, [kind |-> "import", from |-> <<>>, has |-> Identities(Downloaded)])
  BY <1>1, <1>3, <1>4, HeldGrows
<1>6. Identities(Downloaded)' = {}
  BY <1>1 DEF Identities, Downloaded, Files, Range
<1>7. Sets!Import
  BY <1>5, <1>6 DEF Sets!Import, Sets!Make, Held, Entry
<1> QED
  BY <1>7 DEF Sets!Next

LEMMA UtilitySteps ==
    ASSUME SetsInv, ArchivesStep, CollectionNext, download = "none", download' = "none",
           Len(archive') = Len(archive) + 1
    PROVE  Sets!Next
<1>1. BrokenFrom /\ ArchivesInv /\ CollectionInv /\ ArchivesInv'
  BY DEF SetsInv, BaseInv, CollectionInv, ArchivesStep
<1>2. PICK k : k = Len(archive) + 1
  OBVIOUS
<1>3. archive'[k].made # "import"
  BY <1>1, <1>2, UtilitiesMake
<1>4. PICK e : e = Entry(k)' /\ NewEntry(e)
  BY <1>1, <1>2, <1>3, NewIsRight
<1>5. Held' = Append(Held, e)
  BY <1>1, <1>2, <1>4, HeldGrows
<1>6. Identities(Downloaded)' = Identities(Downloaded)
  BY DEF Identities, Downloaded, Files, Range
<1>7. Sets!Copy \/ Sets!Filter \/ Sets!Union \/ Sets!Complement
  <2>1. ASSUME NEW a \in DOMAIN Held, e = [kind |-> "copy", from |-> <<a>>, has |-> Held[a].has]
        PROVE  Sets!Copy
    BY <1>5, <2>1 DEF Sets!Copy, Sets!Make, Held, Entry
  <2>2. ASSUME NEW a \in DOMAIN Held, NEW kept \in SUBSET Held[a].has,
               Held[a].has \cap Wanted \subseteq kept, kept \cap Unwanted = {},
               e = [kind |-> "filter", from |-> <<a>>, has |-> kept]
        PROVE  Sets!Filter
    BY <1>5, <2>2 DEF Sets!Filter, Sets!Make, Held, Entry, Wanted, Unwanted
  <2>3. ASSUME NEW from \in ((DOMAIN Held) \X (DOMAIN Held)) \cup ((DOMAIN Held) \X (DOMAIN Held) \X (DOMAIN Held)),
               e = [kind |-> "union", from |-> from, has |-> UNION {Held[from[i]].has : i \in DOMAIN from}]
        PROVE  Sets!Union
    BY <1>5, <2>3, Zenon DEF Sets!Union, Sets!Make, Held, Entry
  <2>4. ASSUME NEW a \in DOMAIN Held, NEW b \in DOMAIN Held,
               e = [kind |-> "complement", from |-> <<a, b>>, has |-> Held[a].has \ (Held[b].has \cap MsgId)]
        PROVE  Sets!Complement
    BY <1>5, <2>4 DEF Sets!Complement, Sets!Make, Held, Entry
  <2> QED
    BY <1>4, <2>1, <2>2, <2>3, <2>4, Zenon DEF NewEntry
<1> QED
  BY <1>6, <1>7 DEF Sets!Next

LEMMA StepIsSets ==
    ASSUME SetsInv, [Next]_vars
    PROVE  SetsInv' /\ [Sets!Next]_Sets!setVars
<1>1. BaseInv' /\ ArchivesStep
  BY BaseInvStep DEF SetsInv
<1>2. ArchivesInv /\ BrokenFrom /\ BaseInv
  BY DEF SetsInv, BaseInv, CollectionInv
<1>3. SetsInv'
  BY <1>1, <1>2, BrokenFromStep DEF SetsInv
<1> SUFFICES [Sets!Next]_Sets!setVars
  BY <1>3
<1>4. CASE ImportFiles
  BY <1>1, <1>4, ImportSteps
<1>5. CASE [CrawlNext]_crawlVars /\ [NewsNext]_newsVars /\ UNCHANGED <<collectionVars, download>>
  <2>1. Held' = Held
    <3>1. Len(archive') = Len(archive)
      BY <1>5 DEF collectionVars
    <3> QED
      BY <1>1, <1>2, <3>1, HeldSame
  <2>2. Downloaded \subseteq Downloaded'
    BY <1>2, <1>5, FilesGrow
  <2> QED
    BY <1>1, <2>1, <2>2, DownloadSteps
<1>6. CASE CollectionNext /\ download = "none" /\ download' = "none"
  <2>1. CASE Len(archive') = Len(archive)
    <3>1. Held' = Held
      BY <1>1, <1>2, <2>1, HeldSame
    <3>2. Identities(Downloaded)' = Identities(Downloaded)
      BY <1>6 DEF Identities, Downloaded, Files, Range
    <3> QED
      BY <3>1, <3>2 DEF Sets!setVars, Held, Entry
  <2>2. CASE Len(archive') = Len(archive) + 1
    BY <1>1, <1>6, <2>2, UtilitySteps
  <2> QED
    BY <1>1, <2>1, <2>2 DEF ArchivesStep
<1> QED
  BY <1>4, <1>5, <1>6 DEF Next, vars

(* To the set of messages in an archive, whatever its order, its forms and *)
(* the offsets in it, the programs do what MessageSets says and no more:   *)
(* an import takes exactly what was downloaded, removing duplicates loses  *)
(* nothing, merging and updating give unions, and so on.                   *)
THEOREM UtilitiesImplementSets == Spec => ImplementsSets
<1>1. Init => Sets!Init
  <2> SUFFICES ASSUME Init PROVE Sets!Init
    OBVIOUS
  <2>1. Held \in Seq([from : {<<>>}, kind : {"old"}, has : SUBSET Identities(Msg)])
    BY HeldAtFirst
  <2>2. Downloaded = {}
    BY DEF Init, Downloaded, Files, CrawlInit, NewsInit, Range
  <2>3. Identities(Downloaded) = {}
    BY <2>2 DEF Identities
  <2> QED
    BY <2>1, <2>3 DEF Sets!Init, Held, Entry
<1>2. Init => SetsInv
  BY BaseInvInit, BrokenFromInit DEF SetsInv, Init
<1> QED
  BY <1>1, <1>2, StepIsSets, PTL DEF Spec, ImplementsSets, Sets!Spec

(* A galaxy, as a function of the archives in it.                          *)
IdsIn(list) == UNION {Range(Mid(list[g])) : g \in DOMAIN list}

WhoHas(list, id) == {g \in DOMAIN list : Found(Mid(list[g]), id)}

GroupsOf(list) == [id \in IdsIn(list) |-> Numbers(Len(list), WhoHas(list, id))]

ParentsOf(list) == [id \in IdsIn(list) |-> IndirectParent(list, GroupsOf(list)[id], id)]

GalaxyOf(list) ==
    [list     |-> list,
     groups   |-> GroupsOf(list),
     parents  |-> ParentsOf(list),
     children |-> [id \in IdsIn(list) |-> {c \in IdsIn(list) : id \in ParentsOf(list)[c]}]]

(* The archives in it can be read.                                         *)
CanOpen(list) ==
    /\ list \in Seq(Nat)
    /\ \A g \in 1..Len(list) : list[g] \in Good /\ HasZ(list[g]) /\ HasMid(list[g])

GalaxyMade ==
    galaxy # NoGalaxy => /\ download = "none"
                         /\ CanOpen(galaxy.list) /\ galaxy = GalaxyOf(galaxy.list)

(* What the tasks that open it have done.                                  *)
LoaderForm ==
    [phase : {"opening", "open"}, gone : SUBSET Nat, cnt : Nat \ {0}, hand : SUBSET Nat,
     arch : SUBSET Nat, available : Seq(Nat)]

LoaderInv ==
    loader # NoLoader =>
        LET n == Len(galaxy.list)
            drawn == (1..(loader.cnt - 1)) \ loader.gone
        IN  /\ galaxy # NoGalaxy /\ loader \in LoaderForm
            /\ loader.cnt <= n + 1
            /\ loader.arch \subseteq drawn
            /\ Range(loader.available) \cup loader.hand = drawn
            /\ Range(loader.available) \cap loader.hand = {}
            /\ Range(loader.available) \subseteq loader.arch
            /\ IsFiniteSet(Range(loader.available))
            /\ Len(loader.available) = Cardinality(Range(loader.available))
            /\ loader.phase = "open" => loader.cnt > n /\ loader.hand = {}

GalaxyInv == GalaxyMade /\ LoaderInv

LEMMA GalaxyUtilMakes ==
    ASSUME ArchivesInv, NEW list \in Seq(1..Len(archive)), GalaxyUtil(list)
    PROVE  CanOpen(list) /\ galaxy' = GalaxyOf(list)
<1>1. \A a \in Range(list) : HasZ(a) /\ HasMid(a)
  BY DEF GalaxyUtil
<1>2. CanOpen(list)
  <2>1. DOMAIN list = 1..Len(list) /\ list \in Seq(Nat) /\ \A g \in 1..Len(list) : list[g] \in 1..Len(archive)
    OBVIOUS
  <2>2. \A g \in 1..Len(list) : list[g] \in Range(list)
    BY <2>1 DEF Range
  <2> QED
    BY <1>1, <2>1, <2>2, GoodZ DEF CanOpen
<1>3. galaxy' = GalaxyOf(list)
  BY Zenon DEF GalaxyUtil, GalaxyOf, GroupsOf, ParentsOf, IdsIn, WhoHas
<1> QED
  BY <1>2, <1>3

LEMMA GalaxySame ==
    ASSUME UNCHANGED archive, NEW list
    PROVE  GalaxyOf(list)' = GalaxyOf(list) /\ CanOpen(list)' = CanOpen(list)
BY DEF GalaxyOf, GroupsOf, ParentsOf, IdsIn, WhoHas, CanOpen, Mid, IndirectParent, ParentIn, TextOf,
       Good, HasZ, HasMid

LEMMA GalaxyMadeStep ==
    ASSUME BaseInv, GalaxyMade, [Next]_vars
    PROVE  GalaxyMade'
<1>1. CASE UNCHANGED galaxy /\ galaxy = NoGalaxy
  BY <1>1 DEF GalaxyMade
<1>2. CASE UNCHANGED <<galaxy, archive>> /\ galaxy # NoGalaxy /\ download' = "none"
  <2>1. PICK list : list = galaxy.list
    OBVIOUS
  <2>2. CanOpen(list) /\ galaxy = GalaxyOf(list)
    BY <1>2, <2>1 DEF GalaxyMade
  <2>3. CanOpen(list)' /\ galaxy' = GalaxyOf(list)'
    BY <1>2, <2>2, GalaxySame
  <2> QED
    BY <1>2, <2>1, <2>3 DEF GalaxyMade
<1>3. ASSUME NEW list \in Seq(1..Len(archive)), GalaxyUtil(list), UNCHANGED archive, download' = "none"
      PROVE  GalaxyMade'
  <2>1. CanOpen(list) /\ galaxy' = GalaxyOf(list)
    BY <1>3, GalaxyUtilMakes DEF BaseInv, CollectionInv
  <2>2. CanOpen(list)' /\ galaxy' = GalaxyOf(list)'
    BY <1>3, <2>1, GalaxySame
  <2>3. galaxy'.list = list
    BY <2>1 DEF GalaxyOf
  <2> QED
    BY <1>3, <2>2, <2>3 DEF GalaxyMade
<1>4. CASE ImportFiles
  <2>1. galaxy = NoGalaxy /\ UNCHANGED galaxy
    BY <1>4 DEF ImportFiles, GalaxyMade, galaxyVars
  <2> QED
    BY <1>1, <2>1
<1>5. CASE CollectionNext /\ galaxy = NoGalaxy /\ UNCHANGED galaxyVars
  BY <1>1, <1>5 DEF galaxyVars
<1>6. CASE UNCHANGED <<collectionVars, galaxyVars, download>>
  <2>1. UNCHANGED <<archive, galaxy, download>>
    BY <1>6 DEF collectionVars, galaxyVars
  <2> QED
    BY <1>1, <1>2, <2>1 DEF GalaxyMade
<1>7. CASE GalaxyNext /\ download = "none" /\ UNCHANGED <<collectionVars, download>>
  <2>1. UNCHANGED archive /\ download' = "none"
    BY <1>7 DEF collectionVars
  <2>2. ASSUME NEW a \in 1..(Len(archive) - 1), NEW b \in {Len(archive)}, GalaxyUtil(<<a, b>>) \/ GalaxyUtil(<<b, a>>)
        PROVE  GalaxyMade'
    <3>1. Len(archive) \in Nat
      BY DEF BaseInv, CollectionInv, ArchivesInv
    <3>2. <<a, b>> \in Seq(1..Len(archive)) /\ <<b, a>> \in Seq(1..Len(archive))
      BY <3>1
    <3> QED
      BY <1>3, <2>1, <2>2, <3>2
  <2>3. CASE UNCHANGED galaxy
    BY <1>1, <1>2, <2>1, <2>3
  <2> QED
    BY <1>7, <2>2, <2>3 DEF GalaxyNext, OpenGalaxy, DrawArchive, SetSlot, PushAvailable, Opened
<1> QED
  BY <1>4, <1>5, <1>6, <1>7 DEF Next, vars

(* The last reference that is known is at most one, and one if any is.     *)
LEMMA LastKnownIn ==
    ASSUME NEW S, NEW refs \in Seq(S), NEW known, NEW x \in LastKnown(refs, known)
    PROVE  x \in known /\ \E k \in 1..Len(refs) : x = refs[k]
BY DEF LastKnown

LEMMA LastKnownOne ==
    ASSUME NEW S, NEW refs \in Seq(S), NEW known
    PROVE  /\ IsFiniteSet(LastKnown(refs, known)) /\ Cardinality(LastKnown(refs, known)) <= 1
           /\ \A x, y \in LastKnown(refs, known) : x = y
<1> DEFINE L == LastKnown(refs, known)
<1>1. ASSUME NEW x \in L, NEW y \in L PROVE x = y
  <2>1. PICK k \in 1..Len(refs) : x = refs[k] /\ refs[k] \in known
                                  /\ \A l \in (k + 1)..Len(refs) : refs[l] \notin known
    BY DEF LastKnown
  <2>2. PICK j \in 1..Len(refs) : y = refs[j] /\ refs[j] \in known
                                  /\ \A l \in (j + 1)..Len(refs) : refs[l] \notin known
    BY DEF LastKnown
  <2>3. k \in Nat /\ j \in Nat /\ Len(refs) \in Nat
    OBVIOUS
  <2>4. ~(k < j) /\ ~(j < k)
    BY <2>1, <2>2, <2>3
  <2>5. k = j
    BY <2>3, <2>4
  <2> QED
    BY <2>1, <2>2, <2>5
<1> HIDE DEF L
<1>2. L = {} \/ \E x : L = {x}
  <2> SUFFICES ASSUME NEW x \in L PROVE L = {x}
    OBVIOUS
  <2> QED
    BY <1>1
<1>3. IsFiniteSet(L) /\ Cardinality(L) <= 1
  <2>1. CASE L = {}
    BY <2>1, FS_EmptySet
  <2>2. ASSUME NEW x, L = {x} PROVE IsFiniteSet(L) /\ Cardinality(L) <= 1
    <3>1. IsFiniteSet({x}) /\ Cardinality({x}) = 1
      BY FS_Singleton
    <3> QED
      BY <2>2, <3>1
  <2> QED
    BY <1>2, <2>1, <2>2
<1> QED
  BY <1>1, <1>3 DEF L

LEMMA LastKnownSome ==
    ASSUME NEW S, NEW refs \in Seq(S), NEW known, NEW i \in 1..Len(refs), refs[i] \in known
    PROVE  LastKnown(refs, known) # {}
<1> DEFINE n == Len(refs)
           T == {d \in Nat : \E k \in 1..n : refs[k] \in known /\ d = n - k}
<1>1. n \in Nat /\ DOMAIN refs = 1..n
  OBVIOUS
<1>2. n - i \in T
  BY <1>1
<1>3. PICK d \in T : \A m \in T : ~(m < d)
  BY <1>2, FirstPlace
<1>4. PICK k \in 1..n : refs[k] \in known /\ d = n - k
  BY <1>3
<1>5. \A l \in (k + 1)..n : refs[l] \notin known
  <2> SUFFICES ASSUME NEW l \in (k + 1)..n, refs[l] \in known PROVE FALSE
    OBVIOUS
  <2>1. l \in 1..n /\ n - l \in Nat /\ n - l < d
    BY <1>1, <1>4
  <2> QED
    BY <1>3, <2>1
<1> QED
  BY <1>1, <1>4, <1>5 DEF LastKnown

(* What an archive shows of a message it has.                              *)
LEMMA TextTyped ==
    ASSUME ArchivesInv, NEW a \in Good, HasZ(a), HasMid(a), NEW id \in Range(Mid(a))
    PROVE  TextOf(a, id) \in Msg /\ References[TextOf(a, id)] \in Seq(MsgId)
<1> DEFINE list == Contents(a)
           i == CHOOSE i \in DOMAIN Mid(a) : Mid(a)[i] = id
<1>1. Reads(archive[a].z, list) /\ list \in Seq(Msg) /\ Mid(a) = IdsFor(a, list)
  BY GoodContents DEF Mid
<1>2. i \in DOMAIN Mid(a)
  BY DEF Range
<1>3. i \in 1..Len(list)
  BY <1>1, <1>2 DEF IdsFor
<1>4. Text(archive[a].z, i) = list[i] /\ list[i] \in Msg
  <2> HIDE DEF i, list
  <2> QED
    BY <1>1, <1>3, ReadsBack
<1> QED
  BY <1>4, GalaxyAssumption DEF TextOf

(* The table of a galaxy.                                                  *)
LEMMA GroupsRight ==
    ASSUME NEW list \in Seq(Nat), NEW id \in IdsIn(list)
    PROVE  LET groups == GroupsOf(list)[id]
           IN  /\ Ascending(groups, Len(list), WhoHas(list, id))
               /\ groups \in Seq(Nat) /\ Len(groups) >= 1
               /\ DOMAIN groups = 1..Len(groups)
               /\ \A k \in 1..Len(groups) : groups[k] \in WhoHas(list, id)
               /\ Range(groups) = WhoHas(list, id)
               /\ WhoHas(list, id) \subseteq 1..Len(list)
<1> DEFINE groups == GroupsOf(list)[id]
           has == WhoHas(list, id)
<1>1. groups = Numbers(Len(list), has)
  BY DEF GroupsOf
<1>2. Len(list) \in Nat /\ DOMAIN list = 1..Len(list) /\ has \subseteq 1..Len(list)
  BY DEF WhoHas
<1>3. PICK g \in 1..Len(list) : g \in has
  BY <1>2 DEF IdsIn, WhoHas, Found
<1> HIDE DEF groups, has
<1>4. Ascending(groups, Len(list), has)
  BY <1>1, <1>2, NumbersRight
<1>5. /\ groups \in Seq(Nat) /\ DOMAIN groups = 1..Len(groups) /\ Len(groups) \in Nat
      /\ \A k \in 1..Len(groups) : groups[k] \in has
      /\ \A h \in has : \E k \in 1..Len(groups) : groups[k] = h
  BY <1>2, <1>4 DEF Ascending
<1>6. Range(groups) = has
  BY <1>5 DEF Range
<1>7. Len(groups) >= 1
  BY <1>3, <1>5
<1> QED
  BY <1>2, <1>4, <1>5, <1>6, <1>7 DEF groups, has

LEMMA LinksRight ==
    ASSUME ArchivesInv, NEW list, CanOpen(list), NEW id \in IdsIn(list)
    PROVE  LET Has == WhoHas(list, id)
               parents == ParentsOf(list)[id]
           IN  /\ Cardinality(parents) <= 1
               /\ \A p \in parents :
                     /\ p \in IdsIn(list)
                     /\ \A g \in Has : ParentIn(list[g], id) # {p}
                     /\ \E g \in Has : ~Found(Mid(list[g]), p)
               /\ (\A g \in Has : Range(References[TextOf(list[g], id)]) \cap IdsIn(list) # {})
                     => parents # {} \/ \E g \in Has : ParentIn(list[g], id) # {}
<1> DEFINE Has == WhoHas(list, id)
           parents == ParentsOf(list)[id]
           groups == GroupsOf(list)[id]
           first == list[groups[1]]
           refs == References[TextOf(first, id)]
           ids == IdsIn(list)
           known == LastKnown(refs, ids)
<1>1. /\ list \in Seq(Nat) /\ groups \in Seq(Nat) /\ Len(groups) \in Nat /\ Len(groups) >= 1
      /\ DOMAIN groups = 1..Len(groups)
      /\ \A k \in 1..Len(groups) : groups[k] \in Has
      /\ Range(groups) = Has /\ Has \subseteq 1..Len(list)
  BY GroupsRight DEF CanOpen
<1>2. \A g \in Has : list[g] \in Good /\ HasZ(list[g]) /\ HasMid(list[g]) /\ id \in Range(Mid(list[g]))
  BY <1>1 DEF CanOpen, WhoHas, Found
<1>3. groups[1] \in Has /\ 1 \in 1..Len(groups)
  BY <1>1
<1>4. refs \in Seq(MsgId)
  BY <1>2, <1>3, TextTyped
<1>5. parents = IF ParentIn(first, id) # {} THEN {}
                ELSE {p \in known : \A g \in 2..Len(groups) : ParentIn(list[groups[g]], id) # {p}}
  BY DEF ParentsOf, IndirectParent, IdsIn
<1>6. ParentIn(first, id) = LastKnown(refs, Range(Mid(first)))
  BY DEF ParentIn
<1> HIDE DEF Has, parents, groups, first, refs, ids, known
<1>7. /\ IsFiniteSet(known) /\ Cardinality(known) \in Nat /\ Cardinality(known) <= 1
      /\ \A p \in known : p \in ids /\ \E k \in 1..Len(refs) : p = refs[k]
  BY <1>4, LastKnownOne, LastKnownIn, FS_CardinalityType DEF known
<1>8. Cardinality(parents) <= 1
  <2>1. parents \in SUBSET known
    BY <1>5
  <2>2. IsFiniteSet(parents) /\ Cardinality(parents) <= Cardinality(known)
    BY <1>7, <2>1, FS_Subset
  <2>3. Cardinality(parents) \in Nat
    BY <2>2, FS_CardinalityType
  <2> QED
    BY <1>7, <2>2, <2>3
<1>9. \A g \in Has : \E k \in 1..Len(groups) : groups[k] = g
  BY <1>1 DEF Range
<1>10. ASSUME NEW p \in parents
       PROVE  /\ p \in ids
              /\ \A g \in Has : ParentIn(list[g], id) # {p}
              /\ \E g \in Has : ~Found(Mid(list[g]), p)
  <2>1. /\ ParentIn(first, id) = {} /\ p \in known
        /\ \A g \in 2..Len(groups) : ParentIn(list[groups[g]], id) # {p}
    BY <1>5
  <2>2. ASSUME NEW g \in Has PROVE ParentIn(list[g], id) # {p}
    <3>1. PICK k \in 1..Len(groups) : groups[k] = g
      BY <1>9
    <3>2. CASE k = 1
      BY <2>1, <3>1, <3>2 DEF first
    <3>3. CASE k # 1
      <4>1. k \in 2..Len(groups)
        BY <1>1, <3>3
      <4> QED
        BY <2>1, <3>1, <4>1
    <3> QED
      BY <3>2, <3>3
  <2>3. ~Found(Mid(first), p)
    <3> SUFFICES ASSUME p \in Range(Mid(first)) PROVE FALSE
      BY DEF Found
    <3>1. PICK k \in 1..Len(refs) : p = refs[k]
      BY <1>7, <2>1
    <3>2. LastKnown(refs, Range(Mid(first))) # {}
      BY <1>4, <3>1, LastKnownSome
    <3> QED
      BY <1>6, <2>1, <3>2
  <2> QED
    BY <1>3, <1>7, <2>1, <2>2, <2>3 DEF first
<1>11. ASSUME \A g \in Has : Range(References[TextOf(list[g], id)]) \cap ids # {},
              \A g \in Has : ParentIn(list[g], id) = {}
       PROVE  parents # {}
  <2>1. PICK p : p \in Range(refs) /\ p \in ids
    BY <1>3, <1>11 DEF refs, first
  <2>2. PICK k \in 1..Len(refs) : refs[k] = p
    BY <1>4, <2>1 DEF Range
  <2>3. PICK q : q \in known
    BY <1>4, <2>1, <2>2, LastKnownSome DEF known
  <2>4. ParentIn(first, id) = {}
    BY <1>3, <1>11 DEF first
  <2>5. \A g \in 2..Len(groups) : ParentIn(list[groups[g]], id) # {q}
    <3> SUFFICES ASSUME NEW g \in 2..Len(groups) PROVE ParentIn(list[groups[g]], id) # {q}
      OBVIOUS
    <3>1. g \in 1..Len(groups)
      BY <1>1
    <3> QED
      BY <1>1, <1>11, <3>1
  <2>6. q \in parents
    BY <1>5, <2>3, <2>4, <2>5
  <2> QED
    BY <2>6
<1> QED
  BY <1>8, <1>10, <1>11 DEF Has, parents, ids

LEMMA MadeLinksRight ==
    ASSUME ArchivesInv, GalaxyMade
    PROVE  IndirectLinksRight
<1> SUFFICES ASSUME galaxy # NoGalaxy PROVE IndirectLinksRight
  BY DEF IndirectLinksRight
<1>1. PICK list : list = galaxy.list
  OBVIOUS
<1>2. CanOpen(list) /\ galaxy = GalaxyOf(list)
  BY <1>1 DEF GalaxyMade
<1>3. /\ galaxy.groups = GroupsOf(list) /\ galaxy.parents = ParentsOf(list)
      /\ galaxy.children = [id \in IdsIn(list) |-> {c \in IdsIn(list) : id \in ParentsOf(list)[c]}]
      /\ DOMAIN galaxy.groups = IdsIn(list)
  BY <1>2 DEF GalaxyOf, GroupsOf
<1>4. ASSUME NEW id \in IdsIn(list)
      PROVE  /\ Range(galaxy.groups[id]) = WhoHas(list, id) /\ WhoHas(list, id) # {}
             /\ Cardinality(galaxy.parents[id]) <= 1
             /\ \A p \in galaxy.parents[id] :
                   /\ id \in galaxy.children[p]
                   /\ \A g \in WhoHas(list, id) : ParentIn(list[g], id) # {p}
                   /\ \E g \in WhoHas(list, id) : ~Found(Mid(list[g]), p)
             /\ \A c \in galaxy.children[id] : id \in galaxy.parents[c]
             /\ (\A g \in WhoHas(list, id) :
                    Range(References[TextOf(list[g], id)]) \cap IdsIn(list) # {})
                   => galaxy.parents[id] # {} \/ \E g \in WhoHas(list, id) : ParentIn(list[g], id) # {}
  <2>1. /\ Range(GroupsOf(list)[id]) = WhoHas(list, id)
        /\ Len(GroupsOf(list)[id]) >= 1 /\ 1 \in 1..Len(GroupsOf(list)[id])
        /\ \A k \in 1..Len(GroupsOf(list)[id]) : GroupsOf(list)[id][k] \in WhoHas(list, id)
    BY <1>2, GroupsRight DEF CanOpen
  <2>2. /\ Cardinality(ParentsOf(list)[id]) <= 1
        /\ \A p \in ParentsOf(list)[id] :
              /\ p \in IdsIn(list)
              /\ \A g \in WhoHas(list, id) : ParentIn(list[g], id) # {p}
              /\ \E g \in WhoHas(list, id) : ~Found(Mid(list[g]), p)
        /\ (\A g \in WhoHas(list, id) : Range(References[TextOf(list[g], id)]) \cap IdsIn(list) # {})
              => ParentsOf(list)[id] # {} \/ \E g \in WhoHas(list, id) : ParentIn(list[g], id) # {}
    BY <1>2, LinksRight
  <2>3. \A p \in ParentsOf(list)[id] : id \in galaxy.children[p]
    BY <1>3, <2>2
  <2>4. \A c \in galaxy.children[id] : id \in galaxy.parents[c]
    BY <1>3
  <2> QED
    BY <1>3, <2>1, <2>2, <2>3, <2>4
<1>5. \A id \in DOMAIN galaxy.groups :
             /\ Range(galaxy.groups[id]) = WhoHas(galaxy.list, id) /\ WhoHas(galaxy.list, id) # {}
             /\ Cardinality(galaxy.parents[id]) <= 1
             /\ \A p \in galaxy.parents[id] :
                   /\ id \in galaxy.children[p]
                   /\ \A g \in WhoHas(galaxy.list, id) : ParentIn(galaxy.list[g], id) # {p}
                   /\ \E g \in WhoHas(galaxy.list, id) : ~Found(Mid(galaxy.list[g]), p)
             /\ \A c \in galaxy.children[id] : id \in galaxy.parents[c]
             /\ (\A g \in WhoHas(galaxy.list, id) :
                    Range(References[TextOf(galaxy.list[g], id)]) \cap DOMAIN galaxy.groups # {})
                   => galaxy.parents[id] # {}
                      \/ \E g \in WhoHas(galaxy.list, id) : ParentIn(galaxy.list[g], id) # {}
  BY <1>1, <1>3, <1>4
<1> QED
  BY <1>5, Zenon DEF IndirectLinksRight, WhoHas

(* The tasks that open a galaxy.                                           *)
LEMMA RangeAppended ==
    ASSUME NEW S, NEW s \in Seq(S), NEW x \in S
    PROVE  Range(Append(s, x)) = Range(s) \cup {x}
<1> DEFINE t == Append(s, x)
           n == Len(s)
<1>1. n \in Nat /\ DOMAIN s = 1..n /\ DOMAIN t = 1..(n + 1) /\ t[n + 1] = x
      /\ \A i \in 1..n : t[i] = s[i]
  OBVIOUS
<1>2. 1..(n + 1) = (1..n) \cup {n + 1}
  BY <1>1
<1> HIDE DEF t, n
<1>3. Range(t) = Range(s) \cup {x}
  BY <1>1, <1>2 DEF Range
<1> QED
  BY <1>3 DEF t

LEMMA LoaderSteps ==
    ASSUME GalaxyInv, GalaxyNext, UNCHANGED archive
    PROVE  LoaderInv'
<1> DEFINE n == Len(galaxy.list)
           drawn == (1..(loader.cnt - 1)) \ loader.gone
           got == Range(loader.available)
<1>1. CASE \E list : GalaxyUtil(list)
  <2>1. loader = NoLoader
    BY <1>1 DEF GalaxyUtil, GalaxyInv, LoaderInv
  <2> QED
    BY <1>1, <2>1 DEF GalaxyUtil, LoaderInv
<1>2. ASSUME NEW gone, OpenGalaxy(gone) PROVE LoaderInv'
  <2>1. /\ galaxy # NoGalaxy /\ UNCHANGED galaxy /\ gone \subseteq DOMAIN galaxy.list
        /\ loader' = [phase |-> "opening", gone |-> gone, cnt |-> 1, hand |-> {}, arch |-> {}, available |-> <<>>]
    BY <1>2 DEF OpenGalaxy
  <2>2. galaxy.list \in Seq(Nat)
    BY <2>1 DEF GalaxyInv, GalaxyMade, CanOpen
  <2>3. n \in Nat /\ DOMAIN galaxy.list = 1..n /\ gone \subseteq Nat
    BY <2>1, <2>2
  <2> HIDE DEF n
  <2>4. loader' \in LoaderForm
    BY <2>1, <2>3 DEF LoaderForm
  <2>5. /\ loader'.cnt = 1 /\ loader'.gone = gone /\ loader'.hand = {} /\ loader'.arch = {}
        /\ loader'.available = <<>> /\ loader'.phase = "opening"
    BY <2>1
  <2>6. Range(<<>>) = {} /\ Len(<<>>) = 0
    BY DEF Range
  <2>7. (1..(1 - 1)) \ gone = {}
    OBVIOUS
  <2>8. 1 <= n + 1
    BY <2>3
  <2>9. n = Len(galaxy'.list)
    BY <2>1 DEF n
  <2> QED
    BY <2>1, <2>4, <2>5, <2>6, <2>7, <2>8, <2>9, FS_EmptySet DEF LoaderInv
<1>3. ASSUME loader # NoLoader
      PROVE  /\ galaxy # NoGalaxy /\ loader \in LoaderForm /\ loader.cnt \in Nat /\ n \in Nat
             /\ loader.cnt <= n + 1 /\ loader.arch \subseteq drawn
             /\ got \cup loader.hand = drawn /\ got \cap loader.hand = {} /\ got \subseteq loader.arch
             /\ IsFiniteSet(got) /\ Len(loader.available) = Cardinality(got)
             /\ loader.available \in Seq(Nat) /\ DOMAIN galaxy.list = 1..n
  BY <1>3 DEF GalaxyInv, LoaderInv, LoaderForm, GalaxyMade, CanOpen
<1>4. loader.phase = "opening" => loader # NoLoader
  BY DEF NoLoader
<1>5. CASE DrawArchive
  <2>1. /\ loader.phase = "opening" /\ loader.cnt <= n /\ UNCHANGED galaxy
        /\ loader' = [loader EXCEPT !.cnt = @ + 1, !.hand = @ \cup ({loader.cnt} \ loader.gone)]
    BY <1>5 DEF DrawArchive
  <2> DEFINE c == loader.cnt
             new == {c} \ loader.gone
  <2>2. /\ galaxy # NoGalaxy /\ loader \in LoaderForm /\ c \in Nat /\ n \in Nat
        /\ loader.arch \subseteq drawn
        /\ got \cup loader.hand = drawn /\ got \cap loader.hand = {} /\ got \subseteq loader.arch
        /\ IsFiniteSet(got) /\ Len(loader.available) = Cardinality(got)
    BY <1>3, <1>4, <2>1
  <2>3. /\ loader'.cnt = c + 1 /\ loader'.hand = loader.hand \cup new /\ loader'.gone = loader.gone
        /\ loader'.arch = loader.arch /\ loader'.available = loader.available /\ loader'.phase = "opening"
    BY <2>1, <2>2 DEF LoaderForm
  <2>4. loader' \in LoaderForm
    <3>1. c + 1 \in Nat \ {0} /\ loader.hand \cup new \in SUBSET Nat
      BY <2>2 DEF LoaderForm
    <3> HIDE DEF new
    <3> QED
      BY <2>1, <2>2, <3>1 DEF LoaderForm, new
  <2>5. (c + 1) - 1 = c /\ c + 1 <= n + 1
    BY <2>1, <2>2
  <2>6. (1..c) \ loader.gone = drawn \cup new
    <3>1. c >= 1
      BY <2>2 DEF LoaderForm
    <3>2. 1..c = (1..(c - 1)) \cup {c}
      BY <2>2, <3>1
    <3> QED
      BY <3>2
  <2>7. c \notin got
    BY <2>2
  <2>8. drawn' = drawn \cup new /\ got' = got /\ n' = n
    BY <2>1, <2>3, <2>5, <2>6
  <2>9. /\ loader'.arch \subseteq drawn' /\ got' \cup loader'.hand = drawn' /\ got' \cap loader'.hand = {}
        /\ got' \subseteq loader'.arch
    BY <2>2, <2>3, <2>7, <2>8
  <2>10. /\ galaxy' # NoGalaxy /\ loader'.cnt <= n' + 1
         /\ IsFiniteSet(got') /\ Len(loader'.available) = Cardinality(got')
    BY <2>1, <2>2, <2>3, <2>5, <2>8
  <2> QED
    BY <2>3, <2>4, <2>9, <2>10 DEF LoaderInv
<1>6. CASE SetSlot
  <2>1. PICK k \in loader.hand \ loader.arch :
           /\ loader.phase = "opening" /\ UNCHANGED galaxy
           /\ loader' = [loader EXCEPT !.arch = @ \cup {k}]
    BY <1>6 DEF SetSlot
  <2>2. /\ galaxy # NoGalaxy /\ loader \in LoaderForm /\ loader.cnt <= n + 1 /\ loader.arch \subseteq drawn
        /\ got \cup loader.hand = drawn /\ got \cap loader.hand = {} /\ got \subseteq loader.arch
        /\ IsFiniteSet(got) /\ Len(loader.available) = Cardinality(got)
    BY <1>3, <1>4, <2>1
  <2>3. /\ loader'.cnt = loader.cnt /\ loader'.hand = loader.hand /\ loader'.gone = loader.gone
        /\ loader'.arch = loader.arch \cup {k} /\ loader'.available = loader.available
        /\ loader'.phase = "opening"
    BY <2>1, <2>2 DEF LoaderForm
  <2>4. loader' \in LoaderForm
    BY <2>1, <2>2 DEF LoaderForm
  <2>5. drawn' = drawn /\ got' = got /\ n' = n
    BY <2>1, <2>3
  <2>6. /\ loader'.arch \subseteq drawn' /\ got' \subseteq loader'.arch
    BY <2>1, <2>2, <2>3, <2>5
  <2> HIDE DEF n, drawn, got
  <2>7. /\ galaxy' # NoGalaxy /\ loader'.cnt <= n' + 1 /\ got' \cup loader'.hand = drawn'
        /\ got' \cap loader'.hand = {}
        /\ IsFiniteSet(got') /\ Len(loader'.available) = Cardinality(got')
    BY <2>1, <2>2, <2>3, <2>5
  <2> QED
    BY <2>3, <2>4, <2>6, <2>7 DEF LoaderInv, n, drawn, got
<1>7. CASE PushAvailable
  <2>1. PICK k \in loader.hand \cap loader.arch :
           /\ loader.phase = "opening" /\ UNCHANGED galaxy
           /\ loader' = [loader EXCEPT !.available = Append(@, k), !.hand = @ \ {k}]
    BY <1>7 DEF PushAvailable
  <2>2. /\ galaxy # NoGalaxy /\ loader \in LoaderForm /\ loader.cnt <= n + 1 /\ loader.arch \subseteq drawn
        /\ got \cup loader.hand = drawn /\ got \cap loader.hand = {} /\ got \subseteq loader.arch
        /\ IsFiniteSet(got) /\ Len(loader.available) = Cardinality(got)
        /\ loader.available \in Seq(Nat)
    BY <1>3, <1>4, <2>1
  <2>3. k \in Nat
    BY <2>2 DEF LoaderForm
  <2>4. /\ loader'.cnt = loader.cnt /\ loader'.hand = loader.hand \ {k} /\ loader'.gone = loader.gone
        /\ loader'.arch = loader.arch /\ loader'.available = Append(loader.available, k)
        /\ loader'.phase = "opening"
    BY <2>1, <2>2 DEF LoaderForm
  <2>5. loader' \in LoaderForm
    <3>1. Append(loader.available, k) \in Seq(Nat)
      BY <2>2, <2>3
    <3> QED
      BY <2>1, <2>2, <3>1 DEF LoaderForm
  <2>6. got' = got \cup {k} /\ Len(loader'.available) = Len(loader.available) + 1
    <3>1. Range(Append(loader.available, k)) = Range(loader.available) \cup {k}
      BY <2>2, <2>3, RangeAppended
    <3> QED
      BY <2>2, <2>3, <2>4, <3>1
  <2>7. k \notin got /\ IsFiniteSet(got')
        /\ Cardinality(got') = Cardinality(got) + 1
    <3>1. k \notin got
      BY <2>2
    <3> QED
      BY <2>2, <2>6, <3>1, FS_AddElement
  <2>8. drawn' = drawn /\ n' = n
    BY <2>1, <2>4
  <2>9. /\ loader'.arch \subseteq drawn' /\ got' \cup loader'.hand = drawn' /\ got' \cap loader'.hand = {}
        /\ got' \subseteq loader'.arch
    BY <2>1, <2>2, <2>4, <2>6, <2>8
  <2>10. /\ galaxy' # NoGalaxy /\ loader'.cnt <= n' + 1
         /\ Len(loader'.available) = Cardinality(got')
    BY <2>1, <2>2, <2>4, <2>6, <2>7, <2>8
  <2> QED
    BY <2>4, <2>5, <2>7, <2>9, <2>10 DEF LoaderInv
<1>8. CASE Opened
  <2>1. /\ loader.phase = "opening" /\ UNCHANGED galaxy /\ loader.cnt > n /\ loader.hand = {}
        /\ loader' = [loader EXCEPT !.phase = "open"]
    BY <1>8 DEF Opened
  <2>2. /\ galaxy # NoGalaxy /\ loader \in LoaderForm /\ loader.cnt <= n + 1 /\ loader.arch \subseteq drawn
        /\ got \cup loader.hand = drawn /\ got \cap loader.hand = {} /\ got \subseteq loader.arch
        /\ IsFiniteSet(got) /\ Len(loader.available) = Cardinality(got)
    BY <1>3, <1>4, <2>1
  <2>3. /\ loader'.cnt = loader.cnt /\ loader'.hand = loader.hand /\ loader'.gone = loader.gone
        /\ loader'.arch = loader.arch /\ loader'.available = loader.available /\ loader'.phase = "open"
    BY <2>1, <2>2 DEF LoaderForm
  <2>4. loader' \in LoaderForm
    BY <2>1, <2>2 DEF LoaderForm
  <2>5. drawn' = drawn /\ got' = got /\ n' = n
    BY <2>1, <2>3
  <2> HIDE DEF n, drawn, got
  <2>6. /\ galaxy' # NoGalaxy /\ loader'.cnt <= n' + 1 /\ got' \cup loader'.hand = drawn'
        /\ got' \cap loader'.hand = {} /\ loader'.arch \subseteq drawn' /\ got' \subseteq loader'.arch
        /\ IsFiniteSet(got') /\ Len(loader'.available) = Cardinality(got')
        /\ loader'.cnt > n' /\ loader'.hand = {}
    BY <2>1, <2>2, <2>3, <2>5
  <2> QED
    BY <2>4, <2>6 DEF LoaderInv, n, drawn, got
<1> QED
  BY <1>1, <1>2, <1>5, <1>6, <1>7, <1>8 DEF GalaxyNext

LEMMA GalaxyInvStep ==
    ASSUME BaseInv, GalaxyInv, [Next]_vars
    PROVE  GalaxyInv'
<1>1. GalaxyMade'
  BY GalaxyMadeStep DEF GalaxyInv
<1> SUFFICES LoaderInv'
  BY <1>1 DEF GalaxyInv
<1>2. CASE UNCHANGED galaxyVars
  BY <1>2 DEF galaxyVars, GalaxyInv, LoaderInv
<1>3. CASE GalaxyNext /\ UNCHANGED collectionVars
  BY <1>3, LoaderSteps DEF collectionVars
<1> QED
  BY <1>2, <1>3 DEF Next, vars, ImportFiles

(* Elements of a list, counted.                                            *)
LEMMA CountedOnce ==
    ASSUME NEW S, NEW s \in Seq(S)
    PROVE  /\ IsFiniteSet(Range(s))
           /\ Cardinality(Range(s)) = Len(s) <=> \A i, j \in 1..Len(s) : s[i] = s[j] => i = j
<1> DEFINE n == Len(s)
           T == Range(s)
<1>1. n \in Nat /\ DOMAIN s = 1..n /\ \A i \in 1..n : s[i] \in T
  BY DEF Range
<1>2. \A x \in T : \E i \in 1..n : s[i] = x
  BY <1>1 DEF Range
<1>3. s \in [1..n -> T]
  BY <1>1
<1> HIDE DEF n, T
<1>4. s \in Surjection(1..n, T)
  BY <1>2, <1>3 DEF Surjection
<1>5. IsFiniteSet(1..n) /\ Cardinality(1..n) = n
  <2>1. IsFiniteSet(1..n) /\ Cardinality(1..n) = IF 1 > n THEN 0 ELSE n - 1 + 1
    BY <1>1, FS_Interval
  <2> QED
    BY <1>1, <2>1
<1>6. IsFiniteSet(T) /\ (Cardinality(T) = n <=> s \in Injection(1..n, T))
  BY <1>4, <1>5, FS_Surjection
<1>7. s \in Injection(1..n, T) <=> \A i, j \in 1..n : s[i] = s[j] => i = j
  BY <1>3 DEF Injection, IsInjective
<1> QED
  BY <1>6, <1>7 DEF n, T

LEMMA AllTheSame ==
    ASSUME NEW n \in Nat, NEW v, NEW S,
           \A k \in 1..n : v[k] \in S,
           \A x \in S : \E k \in 1..n : x = v[k]
    PROVE  (\A k \in 2..n : v[k] = v[1]) <=> Cardinality(S) <= 1
<1>1. IsFiniteSet(S)
  <2> DEFINE f == [k \in 1..n |-> v[k]]
  <2>1. f \in [1..n -> S] /\ \A x \in S : \E k \in 1..n : f[k] = x
    OBVIOUS
  <2> HIDE DEF f
  <2>2. f \in Surjection(1..n, S)
    BY <2>1 DEF Surjection
  <2>3. IsFiniteSet(1..n)
    BY FS_Interval
  <2> QED
    BY <2>2, <2>3, FS_Surjection
<1>2. Cardinality(S) \in Nat /\ (Cardinality(S) = 0 <=> S = {}) /\ (Cardinality(S) = 1 <=> \E x : S = {x})
  BY <1>1, FS_CardinalityType, FS_EmptySet, FS_Singleton
<1>3. Cardinality(S) <= 1 <=> S = {} \/ \E x : S = {x}
  <2> DEFINE c == Cardinality(S)
  <2>1. c \in Nat => (c <= 1 <=> c = 0 \/ c = 1)
    <3> HIDE DEF c
    <3> QED
      OBVIOUS
  <2> QED
    BY <1>2, <2>1
<1>4. ASSUME \A k \in 2..n : v[k] = v[1]
      PROVE  S = {} \/ \E x : S = {x}
  <2> SUFFICES ASSUME S # {} PROVE S = {v[1]}
    OBVIOUS
  <2>1. PICK k \in 1..n : v[k] \in S
    OBVIOUS
  <2>2. 1 \in 1..n
    BY <2>1
  <2>3. \A j \in 1..n : v[j] = v[1]
    <3>1. \A j \in 1..n : j = 1 \/ j \in 2..n
      OBVIOUS
    <3> QED
      BY <1>4, <3>1
  <2> QED
    BY <2>2, <2>3
<1>5. ASSUME S = {} \/ \E x : S = {x}
      PROVE  \A k \in 2..n : v[k] = v[1]
  <2> SUFFICES ASSUME NEW k \in 2..n PROVE v[k] = v[1]
    OBVIOUS
  <2>1. k \in 1..n /\ 1 \in 1..n
    OBVIOUS
  <2>2. v[k] \in S /\ v[1] \in S
    BY <2>1
  <2> QED
    BY <1>5, <2>2
<1> QED
  BY <1>3, <1>4, <1>5

(* In an archive without duplicates a child is shown once.                 *)
LEMMA ChildrenCounted ==
    ASSUME ArchivesInv, NEW a \in Good, NoneTwice(a), NEW id
    PROVE  LET children == ChildrenIn(a, id)
           IN  IsFiniteSet(Range(children)) /\ Cardinality(Range(children)) = Len(children)
<1> DEFINE mid == Mid(a)
           n == Len(mid)
           kept == {i \in DOMAIN mid : id \in LastKnown(References[Text(archive[a].z, i)], Range(mid))}
           ns == Numbers(n, kept)
           children == ChildrenIn(a, id)
           Ids == MsgId \cup (Nat \X Nat)
<1>1. mid \in Seq(Ids)
  BY GoodContents DEF Mid, ArchiveForm
<1>2. n \in Nat
  BY <1>1
<1>3. \A i, j \in 1..n : mid[i] = mid[j] => i = j
  <2>1. Cardinality(Range(mid)) = n
    BY DEF NoneTwice
  <2> HIDE DEF mid, Ids
  <2> QED
    BY <1>1, <2>1, CountedOnce
<1>4. children = [k \in DOMAIN ns |-> mid[ns[k]]]
  BY DEF ChildrenIn
<1> HIDE DEF mid, kept, children, Ids
<1>5. Ascending(ns, n, kept)
  BY <1>2, NumbersRight
<1>6. /\ ns \in Seq(Nat) /\ DOMAIN ns = 1..Len(ns) /\ Len(ns) \in Nat
      /\ \A k \in 1..Len(ns) : ns[k] \in 1..n
      /\ \A j, k \in 1..Len(ns) : j < k => ns[j] < ns[k]
  BY <1>5 DEF Ascending
<1>7. \A j, k \in 1..Len(ns) : ns[j] = ns[k] => j = k
  <2> SUFFICES ASSUME NEW j \in 1..Len(ns), NEW k \in 1..Len(ns), ns[j] = ns[k], j # k PROVE FALSE
    OBVIOUS
  <2>1. j < k \/ k < j
    BY <1>6
  <2>2. ns[j] \in Nat
    BY <1>6
  <2> QED
    BY <1>6, <2>1, <2>2
<1> HIDE DEF ns, n
<1>8. \A k \in 1..Len(ns) : mid[ns[k]] \in Ids
  BY <1>1, <1>6 DEF n
<1>9. children \in Seq(Ids) /\ Len(children) = Len(ns) /\ \A k \in 1..Len(ns) : children[k] = mid[ns[k]]
  BY <1>4, <1>6, <1>8
<1>10. \A j, k \in 1..Len(children) : children[j] = children[k] => j = k
  BY <1>3, <1>6, <1>7, <1>9
<1>11. IsFiniteSet(Range(children)) /\ Cardinality(Range(children)) = Len(children)
  BY <1>9, <1>10, CountedOnce
<1> QED
  BY <1>11 DEF children

(* The archives asked are those that have the message and are there.       *)
LEMMA AvailableRight ==
    ASSUME NEW list, CanOpen(list), galaxy = GalaxyOf(list), NEW id \in IdsIn(list)
    PROVE  LET arch == Available(id)
               asked == Range(galaxy.groups[id]) \cap loader.arch
           IN  /\ Len(arch) \in Nat
               /\ \A k \in 1..Len(arch) : \E g \in asked : arch[k] = list[g]
               /\ \A g \in asked : \E k \in 1..Len(arch) : arch[k] = list[g]
               /\ asked \subseteq 1..Len(list)
<1> DEFINE groups == GroupsOf(list)[id]
           n == Len(groups)
           kept == {k \in DOMAIN groups : groups[k] \in loader.arch}
           ns == Numbers(n, kept)
           arch == Available(id)
           asked == Range(groups) \cap loader.arch
<1>1. galaxy.groups[id] = groups /\ galaxy.list = list
  BY DEF GalaxyOf
<1>2. /\ list \in Seq(Nat) /\ groups \in Seq(Nat) /\ n \in Nat /\ DOMAIN groups = 1..n
      /\ \A k \in 1..n : groups[k] \in 1..Len(list)
      /\ Range(groups) \subseteq 1..Len(list)
  BY GroupsRight DEF CanOpen
<1>3. arch = [k \in DOMAIN ns |-> list[groups[ns[k]]]]
  BY <1>1, Zenon DEF Available
<1>4. Ascending(ns, n, kept)
  BY <1>2, NumbersRight
<1> HIDE DEF ns
<1>5. /\ ns \in Seq(Nat) /\ DOMAIN ns = 1..Len(ns) /\ Len(ns) \in Nat
      /\ \A k \in 1..Len(ns) : ns[k] \in 1..n /\ groups[ns[k]] \in loader.arch
      /\ \A i \in 1..n : groups[i] \in loader.arch => \E k \in 1..Len(ns) : ns[k] = i
  BY <1>2, <1>4 DEF Ascending
<1> HIDE DEF arch, groups
<1>6. Len(arch) = Len(ns) /\ \A k \in 1..Len(ns) : arch[k] = list[groups[ns[k]]]
  <2>1. \A k \in 1..Len(ns) : list[groups[ns[k]]] \in Nat
    BY <1>2, <1>5
  <2>2. arch \in Seq(Nat) /\ Len(arch) = Len(ns)
    BY <1>3, <1>5, <2>1
  <2> QED
    BY <1>3, <1>5, <2>2
<1>7. \A k \in 1..Len(arch) : \E g \in asked : arch[k] = list[g]
  BY <1>2, <1>5, <1>6 DEF Range
<1>8. ASSUME NEW g \in asked PROVE \E k \in 1..Len(arch) : arch[k] = list[g]
  <2>1. PICK i \in 1..n : groups[i] = g
    BY <1>2 DEF Range
  <2>2. PICK k \in 1..Len(ns) : ns[k] = i
    BY <1>5, <2>1
  <2> QED
    BY <1>6, <2>1, <2>2
<1>9. asked \subseteq 1..Len(list)
  BY <1>2
<1> QED
  BY <1>1, <1>5, <1>6, <1>7, <1>8, <1>9 DEF arch

LEMMA AnswersRight ==
    ASSUME ArchivesInv, NEW list, CanOpen(list), galaxy = GalaxyOf(list), NEW id \in IdsIn(list),
           \A g \in Range(galaxy.groups[id]) \cap loader.arch : NoneTwice(list[g])
    PROVE  LET asked == Range(galaxy.groups[id]) \cap loader.arch
           IN  /\ AreChildrenSame(id) <=> Cardinality({Range(ChildrenIn(list[g], id)) : g \in asked}) <= 1
               /\ AreParentsSame(id) <=> Cardinality({ParentIn(list[g], id) : g \in asked}) <= 1
<1> DEFINE asked == Range(galaxy.groups[id]) \cap loader.arch
           arch == Available(id)
           n == Len(arch)
           kids == [k \in 1..n |-> Range(ChildrenIn(arch[k], id))]
           parents == [k \in 1..n |-> ParentIn(arch[k], id)]
           Kids == {Range(ChildrenIn(list[g], id)) : g \in asked}
           Parents == {ParentIn(list[g], id) : g \in asked}
<1>1. /\ n \in Nat
      /\ \A k \in 1..n : \E g \in asked : arch[k] = list[g]
      /\ \A g \in asked : \E k \in 1..n : arch[k] = list[g]
      /\ asked \subseteq 1..Len(list)
  BY AvailableRight
<1>2. AreParentsSame(id) <=> \A k \in 2..n : ParentIn(arch[k], id) = ParentIn(arch[1], id)
  BY DEF AreParentsSame
<1>3. AreChildrenSame(id) <=>
          \A k \in 2..n : /\ Len(ChildrenIn(arch[k], id)) = Len(ChildrenIn(arch[1], id))
                          /\ Range(ChildrenIn(arch[k], id)) \subseteq Range(ChildrenIn(arch[1], id))
  BY DEF AreChildrenSame
<1> HIDE DEF arch, n, asked
<1>4. \A k \in 2..n : k \in 1..n /\ 1 \in 1..n
  BY <1>1
<1>5. AreParentsSame(id) <=> Cardinality(Parents) <= 1
  <2>1. AreParentsSame(id) <=> \A k \in 2..n : parents[k] = parents[1]
    BY <1>2, <1>4
  <2>2. /\ \A k \in 1..n : parents[k] \in Parents
        /\ \A x \in Parents : \E k \in 1..n : x = parents[k]
    BY <1>1
  <2> HIDE DEF parents, Parents
  <2> QED
    BY <1>1, <2>1, <2>2, AllTheSame
<1>6. \A k \in 1..n : arch[k] \in Good /\ NoneTwice(arch[k])
  BY <1>1 DEF CanOpen, asked
<1>7. \A k \in 1..n : /\ IsFiniteSet(Range(ChildrenIn(arch[k], id)))
                      /\ Cardinality(Range(ChildrenIn(arch[k], id))) = Len(ChildrenIn(arch[k], id))
  BY <1>6, ChildrenCounted
<1>8. ASSUME NEW k \in 2..n
      PROVE  /\ Len(ChildrenIn(arch[k], id)) = Len(ChildrenIn(arch[1], id))
             /\ Range(ChildrenIn(arch[k], id)) \subseteq Range(ChildrenIn(arch[1], id))
             <=> kids[k] = kids[1]
  <2> DEFINE R == Range(ChildrenIn(arch[k], id))
             T == Range(ChildrenIn(arch[1], id))
  <2>1. kids[k] = R /\ kids[1] = T
    BY <1>4
  <2>2. /\ IsFiniteSet(R) /\ Cardinality(R) = Len(ChildrenIn(arch[k], id))
        /\ IsFiniteSet(T) /\ Cardinality(T) = Len(ChildrenIn(arch[1], id))
    BY <1>4, <1>7
  <2>3. R \in SUBSET T /\ Cardinality(R) = Cardinality(T) => R = T
    BY <2>2, FS_Subset
  <2> QED
    BY <2>1, <2>2, <2>3
<1>9. AreChildrenSame(id) <=> Cardinality(Kids) <= 1
  <2>1. AreChildrenSame(id) <=> \A k \in 2..n : kids[k] = kids[1]
    BY <1>3, <1>8
  <2>2. /\ \A k \in 1..n : kids[k] \in Kids
        /\ \A x \in Kids : \E k \in 1..n : x = kids[k]
    BY <1>1
  <2> HIDE DEF kids, Kids
  <2> QED
    BY <1>1, <2>1, <2>2, AllTheSame
<1> QED
  BY <1>5, <1>9 DEF asked

LEMMA OpenAnswers ==
    ASSUME ArchivesInv, GalaxyInv
    PROVE  GalaxyAnswers
<1> SUFFICES ASSUME loader.phase = "open" PROVE GalaxyAnswers
  BY DEF GalaxyAnswers
<1>1. PICK list : list = galaxy.list
  OBVIOUS
<1>2. loader # NoLoader
  BY DEF NoLoader
<1>3. galaxy # NoGalaxy /\ CanOpen(list) /\ galaxy = GalaxyOf(list)
  BY <1>1, <1>2 DEF GalaxyInv, LoaderInv, GalaxyMade
<1> DEFINE n == Len(list)
           there == DOMAIN list \ loader.gone
<1>4. n \in Nat /\ DOMAIN list = 1..n
  BY <1>3 DEF CanOpen
<1>5. loader.cnt \in Nat /\ loader.cnt = n + 1
  BY <1>1, <1>2, <1>4 DEF GalaxyInv, LoaderInv, LoaderForm
<1>6. there = (1..(loader.cnt - 1)) \ loader.gone
  BY <1>4, <1>5
<1>7. /\ loader.arch = there /\ Range(loader.available) = there
      /\ Len(loader.available) = Cardinality(there)
  <2> HIDE DEF there
  <2>1. /\ loader.hand = {} /\ loader.arch \subseteq there
        /\ Range(loader.available) \cup loader.hand = there
        /\ Range(loader.available) \subseteq loader.arch
        /\ Len(loader.available) = Cardinality(Range(loader.available))
    BY <1>2, <1>6 DEF GalaxyInv, LoaderInv
  <2> QED
    BY <2>1
<1>8. DOMAIN galaxy.groups = IdsIn(list)
  BY <1>3 DEF GalaxyOf, GroupsOf
<1>9. ASSUME \A g \in there : NoneTwice(list[g]), NEW id \in DOMAIN galaxy.groups
      PROVE  /\ AreChildrenSame(id)
                  <=> Cardinality({Range(ChildrenIn(list[g], id)) : g \in Range(galaxy.groups[id]) \cap there}) <= 1
             /\ AreParentsSame(id)
                  <=> Cardinality({ParentIn(list[g], id) : g \in Range(galaxy.groups[id]) \cap there}) <= 1
  <2> HIDE DEF there
  <2>1. PICK arch : arch = loader.arch
    OBVIOUS
  <2>2. arch = there /\ id \in IdsIn(list)
    BY <1>7, <1>8, <2>1
  <2>3. \A g \in Range(galaxy.groups[id]) \cap loader.arch : NoneTwice(list[g])
    BY <1>9, <2>1, <2>2
  <2>4. /\ AreChildrenSame(id)
             <=> Cardinality({Range(ChildrenIn(list[g], id)) : g \in Range(galaxy.groups[id]) \cap loader.arch}) <= 1
        /\ AreParentsSame(id)
             <=> Cardinality({ParentIn(list[g], id) : g \in Range(galaxy.groups[id]) \cap loader.arch}) <= 1
    BY <1>3, <2>2, <2>3, AnswersRight
  <2> QED
    BY <2>1, <2>2, <2>4
<1> QED
  BY <1>1, <1>7, <1>9, Zenon DEF GalaxyAnswers

LEMMA GalaxyInvInit == Init => GalaxyInv
BY DEF Init, GalaxyInit, GalaxyInv, GalaxyMade, LoaderInv

(* The indirect links of any galaxy lead both ways, from the top of a      *)
(* thread into an archive that the first one does not know, and miss none. *)
THEOREM IndirectLinksAreRight == Spec => []IndirectLinksRight
<1>1. BaseInv /\ GalaxyInv => IndirectLinksRight
  BY MadeLinksRight DEF BaseInv, CollectionInv, GalaxyInv
<1> QED
  BY <1>1, BaseInvInit, BaseInvStep, GalaxyInvInit, GalaxyInvStep, PTL DEF Spec

(* A galaxy that is open has exactly the archives that could be opened,    *)
(* for any number of tasks, and tells rightly whether archives without     *)
(* duplicates show the same around a message.                              *)
THEOREM OpenGalaxiesAnswer == Spec => []GalaxyAnswers
<1>1. BaseInv /\ GalaxyInv => GalaxyAnswers
  BY OpenAnswers DEF BaseInv, CollectionInv
<1> QED
  BY <1>1, BaseInvInit, BaseInvStep, GalaxyInvInit, GalaxyInvStep, PTL DEF Spec
=============================================================================
