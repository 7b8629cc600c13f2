# TLA+ models of Usenet Archive

Usenet Archive (UAT) turns large collections of Usenet messages into compact, searchable
archives. A chain of small utilities does the work, each reading a directory of files and
writing another one (or adding files to it); libuat and the browsers on top of it read the
result. This directory holds TLA+ specifications of the parts with state worth checking, the
TLC configurations that check them, and machine-checked proofs about most of them.

    import -> kill-duplicates -> extract-msgid -> connectivity -> threadify
           -> filters, merge     extract-msgmeta -> lexicon -> sort, repack, lexsort -> browsers

## Inventory

Own code only; `contrib/` is third-party. "Module" is what models the part today.

| Part (source) | State | Operations | What is hard | Module |
|---|---|---|---|---|
| Thread pool (`common/TaskDispatch`) | queue, running jobs, exit flag, two condition variables | Queue, Sync, Worker, destructor | lost wake-ups, return of Sync, tasks that queue tasks, destruction | `TaskDispatch`, `Executor` |
| Id hash tables (`extract-msgid`, `HashSearch`, `MsgIdHash`) | slots with distances, four files | insertion, writing, search | displacement chains, distance in a byte, table size | `MsgIdHash`, `HashSizing` |
| Connectivity (`connectivity`, `ReferencesParent`) | parent, children, top level, dates, totals | graph, dates, loop fixing, sorting, counting | loops of references, three records of one tree, wrong clocks | `Connectivity`, `MessageDate`, `Forest` |
| Threadify (`threadify`) | threads, roots, links found | parallel matching, grouping, applying | stale roots, links in any order, reference into a flat map | `Threadify`, `LexiconTypes` |
| Sort and verify (`sort`, `verify`) | the permutation, every numbered file | expand, rewrite | a number renumbered the wrong way in one of many files | `SortArchive`, `SearchIndex` |
| Visited messages (`PersistentStorage`, `LockedFile`, `named_mutex`) | shared file, copies, time stamps, semaphore | WasVisited, MarkVisited, Preload | several processes, time stamps in seconds, deaths, signals | `VisitedStore` |
| Import, filters, merging (`import-*`, `kill-duplicates`, `merge-raw`, `relative-complement`, `update-zstd`, `filter-*`, `utf8ize`) | meta with offsets, data, ids | set operations on archives | duplicates, broken ids, offsets, which version survives | `Collection`, `MessageSets`, `Workflow` |
| Repacking (`repack-zstd`, `repack-lz4`) | a buffer per message, a shared view | parallel compression, output in order | one buffer shared by tasks, order of output | `Collection`, `Workflow` |
| Lexicon and search (`extract-msgmeta`, `lexicon`, `lexsort`, `lexdist`, `SearchEngine`) | words, hits packed in bytes | index, query | saturating and wrapping fields, words shared by terms, distances | `LexiconTypes`, `Lexicon`, `SearchEngine`, `SearchIndex` |
| Archive and galaxy (`Archive`, `Galaxy`, `galaxy-util`, `package`) | tables of messages and indirect links, open archives | build, parallel open, comparison | archives that are gone, messages of several archives in codes of their own | `Galaxy`, `Workflow` |
| Downloaders (`nntp-get`, `google-groups`) | article numbers; two pools, connections, counters | fetch, retry | gaps, retries, Sync with nested tasks, connections | `NntpGet`, `GoogleGroups`, `Workflow` |
| Text browser (`tbrowser`) | thread tree, window and cursor, message shown, history | every key of the list, history, switch of archive | the cursor on rows that vanish, a bottom from before an expansion, a history of another archive | `ThreadRows`, `Browser` |
| Front ends (`web`, `query`, `query-raw`, `export-messages`) | none | - | - | not modelled: input and output |
| Codecs and text (`StringCompress`, `UTF8`, `ICU`, `MessageLines`, `KillRe`) | - | - | bytes | not modelled |

The parts meet in two ways. Utilities communicate through files of an archive: message numbers in
`toplevel`, `conndata`, `midhash`, `lexdata` have to agree, which is what `Forest!Agree`,
`MsgIdHash!MetaConsistent` and `SortArchive!SameArchive` say of three of the writers. `Workflow`
composes the utilities that make archives out of others, from a download to a galaxy, and
`SearchIndex` the three the index of words goes through before it is searched.
Within a utility the thread pool carries out tasks that share state under locks; its promise,
`Executor`, is what `threadify`, `repack-zstd`, `lexdist` and `Galaxy` build on; `google-groups`,
whose tasks queue tasks, gets less from it and has a model of its own.

`PROJECT.json` lists the hazards at their lines and the properties that would catch them.

## Modules and how they follow the code

**TaskDispatch** has one action per critical section of `m_queueLock` and per step outside of
it. `pc` tells where each thread is, and the wait sets of `m_cvWork` and `m_cvJobs` are the
threads at `"asleep"` and `"waitJobs"`. A worker holds the mutex from its test of the predicate
(`FindNothing`) to the moment it sleeps (`Sleep`); this is the one place where the mutex is held
across steps, and it is kept because the destructor changes the predicate without the mutex.
`Main` queues `Batches[k]`, calls Sync, and finally destroys the pool. The bodies of tasks are
reduced to the tasks they queue (`Spawn`). **Executor** is the abstract promise: a task finishes at
most as often as it was submitted, and a Sync returns when its batch has finished. Both are counts,
`given` and `done` in the pool, since a closure may be handed over more than once.

**MsgIdHash** follows the insertion loop probe by probe (`HashStart`, `Place`, `Displace`,
`Pass`), then the loop that writes the files slot by slot. XXH32 is any function. Search is an
operator on the files. It is the release build, where the assertions of the loops are not compiled
in (`release.mk`): a distance that reaches the mark of a free slot, 0xFF, is stored as one, and its
message is lost (`Advance`, and `Empty` for 0xFF); `msgidoffset` is not cleared, so what such a
message has in midmeta is not known (`Unset`). **HashSizing** is `MsgIdHashBits` on numbers below
2^32 after the scaling by the load factor; the size is an `int`, so there is none from 31 bits on
(`NoSize`).

**Forest** has the vocabulary of threads the next three share. **Connectivity** goes through the
phases of the utility, a message at a time, and step by step up the parents in "Fixing loops".
`GetParentFromReferences` sees a header as a sequence of messages of the archive, ids it lacks and
malformed text. **MessageDate** is the choice among Date, Received, NNTP-Posting-Date and
Injection-Date on parsed times.

**Threadify** has the workers of match mode with `root` as they update it (down the children the
archive has, not the links found), group mode with the groups in a flat hash map, and the
application of the links. What the search engine finds and whether subjects match is any choice.
At the end it writes the new totals into the lexicon in the five bits `LexiconTypes` describes,
for the messages whose total changed (`bits`).
In `MergeGroups` the reference taken before an erase denotes its group, another one, or none
(`AfterErase`): which depends on the hash values of the groups.

**SortArchive** numbers the threads and writes each file as a step. An entry of a file stands for
the message it belongs to, so that a wrong renumbering shows as entries of different messages
under one number. `Expanded` is the walk of uat-verify.

**Lexicon**, **SearchEngine** and **SearchIndex** take the index of words from the text of
messages to the answer of a query. `Lexicon` has the loop over the lines of a message with its
contexts (headers, levels of quotation, signature), the position of each word and what is made of
it in a byte, and the entries of a word; `LexiconTypes` the packing. `SearchEngine` has the choice
of words for the terms of a query, the hits of each in the messages, the sets of required and
excluded messages by binary search, and the distance of two groups of words in a message, whose hits
are put together before they are compared. Both are operators, as
the code is: `SearchIndex` runs uat-lexicon, uat-sort (all of `SortArchive`) and uat-lexsort on
them as steps. A text is what `SplitLine` leaves; ranks are left out.

**GoogleGroups** is the crawler: two pools of workers, tasks that queue tasks into both, a pool of
connections taken and given back, retries, and the counters of the status line. A step is a critical
section or an answer of the server, which may fail; the file of a message may not open, and a topic may
be answered by markup in which no message is found (`TopicLists` with an empty list). Both count as good
in the code; the history variable `untold` remembers them. A pool is its queue, the tasks its workers
execute, and who looks at the queue; that every worker that has finished a task looks at the queue
again, and one that waits may or may not be woken, is what `TaskDispatch` shows. A spurious wake-up of
Main in `tdp.Sync()` is an action (`MaxSpurious`).

**NntpGet** is a client and a server that receives and expires articles between any two commands.
The client asks for the article after the last one, then says NEXT; it names files by counting.

**Collection** has archives as files: `meta` with offsets and sizes, `data` as a sequence of units,
and the ids. Import, removal of duplicates, extraction of ids, merging, complement and filtering
are a step each, as they are sequential; repacking in both formats and update go message by message
with the view of the archive their tasks share under a mutex or have of their own, and the output in
order of numbers. Offsets of relative-complement wrap (`Wrap`). **MessageSets** is what the
utilities promise, with an archive as a set of ids.

**Galaxy** extends it by uat-galaxy-util (message groups, the archives each message is in, indirect
links both ways) and by opening: tasks of the pool put archives in their slots and the list of
available ones in any order, archives that are gone are left out, then messages are compared.

**Workflow** composes the downloaders, the utilities and the galaxy: one directory of downloaded files,
each with a name and a message (`Files`; files may have the same text), imported once, then every
sequence of utilities up to `MaxArchives`, and at the end a galaxy.

**VisitedStore** has browsers as processes with a copy of the list each; a step is one system
call or one memory access between them. Time is a clock in half seconds, modification times are
seconds. The semaphore is the value of the POSIX semaphore: it survives its holder, and since the
result of `sem_wait` is ignored a signal lets a waiting process in (`LockInterrupted`).

**ThreadRows** has the list of the text browser as operators: `ThreadTree` (which messages are
expanded, the tree lines prepared for each, how densely a thread is drawn) and `ThreadView` (the
window from `top` to `bottom`, the cursor, and every way to move them). **Browser** is the state
machine on top: one action per key of `Browser::Entry`, the article history with its ring buffer
and position, opening another archive, and starting again. A dialog comes down to the call it ends
in, and searches and the galaxy to the message they open (`OpenMessage`, `Warp`). Which messages
are read is any set where "next unread" asks. What a resize gives the list is any of `FullRows`,
or of `SplitRows` beside a message. `above` of an archive is the chain of `GetParent`. After an
assertion of `GetNext` or `GetPrev` would fail the program is not followed further (`InRange`): it
stops there, or in the release build reads beyond its tables. A history file may be from when the
archive had more messages (`Saved`); the last entry is cut to the archive when it is opened, and the
history keys go to the others as they are.

MC modules give constants values; names ending in a difference (`TakeJobUncounted`,
`CutLoopUnlisted`, ...) are variants of an action with a mistake in it. They are part of no
specification; each shows that a property notices that mistake.

## What is checked

| Run | Instance | Shows |
|---|---|---|
| `TaskDispatch` | 3 workers, batches of 2 and 1 tasks, one task queues a task that queues another, 2 spurious wake-ups | Sync returns (`SyncReturns`), only when the batch is done (`SyncComplete`), the wake-up it waits for is always under way (`NoLostWakeup`), and the pool implements `Executor` |
| `TaskDispatchDtor` | 2 workers, no nested tasks | *violated*: the destructor may hang |
| `MsgIdHash` | 5 messages, 3 ids, every hash function, 8 slots, 3 as the mark of a free slot | every id is found and the two tables of ids agree, unless a distance overflowed, which the number of strings written tells; even then a search returns no message of another id; the sizes for 0..300 messages and around each power of two up to 2^24 leave room |
| `Connectivity` | 4 messages, 7 forms of References each, few dates; or every table of up to 4 stamps over a clock of 6 with a limit of 2 | loops lose one edge each, everything is reachable once, lists are in order, totals exact, dates close to a stamp and not to a lone outlier; loop fixing ends |
| `Threadify` | every forest of 4 messages, 2 workers, 5 tables of references | a forest with exact totals, also in the bits of the lexicon, after every link; threads only grow; match mode keeps the order of dates |
| `ThreadifyGroups` | as above | *violated*: group mode links unrelated messages |
| `SearchIndex` | every forest of 4 messages, threads in every order, two sets of texts of 4 words, about 120 queries, groups of one and two words | the sorted archive passes uat-verify and is the same in every file (`VerifySorted`, `SameArchive`); the index has what the messages say, in order (`IndexRight`); a query whose terms share no word and whose required terms bring one finds the messages that satisfy it (`SearchRight`); the distance of two groups of words is the smallest there is (`DistanceRight`) |
| `Workflow` | 4 messages, two of them versions of one and one without an id; 3 and 2 workers, 2 topics to a page, one spurious wake-up; or 3 articles of the same text and 2 sessions; two tasks to compress; 4 archives | a crawl has connections enough, ends, and its status line tells what was saved, but for the failures it does not count; no session skips an article; every entry of every archive reads back as a message (`EntriesReadBack`); the right version of a message survives (`VersionsChosen`) and archives hold the sets `MessageSets` promises; galaxies link what is linked in another archive and nothing else, and answer alike whatever the order of opening |
| `VisitedStore` | 2 browsers, 2 messages, 1.5 s in half seconds, one fault | a message can be missed only if it was written in a second its browser had already seen; otherwise a browser is behind by the grace time at most; calls return unless a browser died holding the semaphore |
| `VisitedStoreGrace` | as above, no fault | *violated*: half a second of grace is not all |
| `Browser` | archives of 4 and 3 messages, windows of 3 and 2 rows, a history of 2, history files that fit or have a message too many first or last | tree lines and density are right however threads were opened and closed, the history is what is left of its file and then messages of the open archive, and ends with the message shown, the cursor stays on the screen but for named jumps, and the list leaves the archive only from there or by a history key |
| `BrowserRows` | as above | *violated*: the list moves past the end of the archive |

Bounds. Three workers are enough for one to run, one to sleep and one to be about to notify. Four
messages give loops of length one to four, two disjoint loops, and tails into loops; five in the hash
table let a distance reach 3, the mark of a free slot, and that slot be taken again by another message.
The clock of `VisitedStore` reaches into the second second, so an append may be in the same second, in
the next one, and beyond the grace time. The browser's archives have a thread with another inside,
siblings on both levels and a second thread, in windows smaller than the archive; a history of 2 wraps
after three articles, and what was read from its file is gone after two; deep threads are condensed from
the second level on. In `SearchIndex` the fields are scaled: positions saturate at 6, 4 and 2 and wrap
at 8, totals go into one bit in units of two, a query looks at three words; a message has a word beyond
each of these limits. Groups of words have up to two places of a type, or, in one list, three, which is
where the code goes wrong. In `Workflow` a group has three topics on two pages, or two that fill their
page exactly; offsets wrap at two units, which the third message needs; three files of one message are
imported as three entries; an archive can be merged with one that was made of it. Two bounds there cut
behaviours short: what a utility adds to an archive in place (ids, a compressed form) is added once,
since a second run writes the same, and galaxies are of two archives, one of them the newest, which
comes last when it is the last there can be, and end the behaviour, since building one writes nothing a
utility reads. No property needs more of these to fail.

Deadlock is checked nowhere because every system may end: programs finish, the destructor may
hang (a run of its own), browsers may all wait for a semaphore lost with its holder, and the list of
the text browser is not followed beyond the archive; a workflow ends when the directory is empty or
the last archive is made.

Fairness. `TaskDispatch` assumes that a thread that can go on does (the scheduler of the
operating system) and nothing about spurious wake-ups. `Connectivity` is sequential and goes on.
`VisitedStore` assumes a browser finishes the call it is in and that `sem_wait` does not pass over
the same caller for ever; it assumes nothing about users, deaths or signals.
`Workflow` assumes it of a crawl: a step of a thread or of a request is taken eventually (curl has a
timeout, and gives an answer or an error), and a page that is asked for again and again is
answered at some time, since nothing obliges the server to fail for ever; topics and messages need
no such help, as they are tried a fixed number of times. Nothing is assumed of users, of the news
server or of spurious wake-ups. The other runs check safety only.

### Where the code and its words part

* `TaskDispatch.cpp:27`: the destructor can hang (`TaskDispatchDtor`).
* `threadify.cpp:272`: a reference into a flat map after an erase (`ThreadifyGroups`).
* `PersistentStorage.cpp:236`: time stamps in whole seconds (`VisitedStoreGrace`).
* `Browser.cpp:535`, `ThreadView.cpp:148`: after a jump that expanded a thread, or started the
  browser on a message near the end, the cursor may be below the window; Page Down then takes it to
  the number of messages, which the assertion of `GetNext` excludes (`BrowserRows`).

Seen in the code, and excepted by name in the property that meets it:

* `extract-msgid.cpp:172`: the assertion that a distance stays below 0xFF is not in the release build,
  nor the one that all messages were written (`cnt == size`). Once an element is carried 255 slots it
  is stored as a free slot: its message is in no string of middata, its entry of midmeta is not set, and
  others behind it may not be found. Ids that many messages share are enough. `LookupComplete` and
  `MetaConsistent` promise completeness when as many strings were written as there are messages.
* `MsgIdHash.hpp:43`: the size is an `int`, negative or undefined from 31 bits on, that is, for some
  960 million messages (`SizingLeavesRoom` is for less).
* `google-groups.cpp:195`, `213`: a message whose file cannot be opened counts as good, and a topic
  answered by an error page as read; nothing tells of them (`CrawlAccounted` names them, as `untold`).
* `google-groups.cpp:393`: a spurious wake-up in `tdp.Sync()` lets Main close connections that page
  tasks need, and the assertion at line 139 fails, or in the release build, which has none, a
  connection is taken out of an empty pool (`HandlesSuffice` is for crawls without one).
* `google-groups.cpp:329`: a group whose topics fill their pages exactly, or with no topics, is
  crawled for ever (`CrawlEnds`).
* `merge-raw.cpp:74`: ids are looked up in the first archive only, so a merge of three may hold
  duplicates (`VersionsChosen` is for two).
* `relative-complement.cpp:65`: the offset is 32 bits wide (`EntriesReadBack`).
* `SearchEngine.cpp:115`: the next position is taken from the last difference and not from the last
  position, so from the third hit of a word on distances are wrong (`DistanceRight` is for two in a
  group of words).
* `lexicon.cpp:83`: the position of a new word wraps at 256 before it is limited, and by line 88 a word
  that a message has in each of the 256 ways a byte can tell loses one (`IndexRight` excepts the words
  of both kinds, `Wrapped` and `Crowded`).
* `SearchEngine.cpp:278`: of two terms that bring one word the second is ignored, with its sign; and a
  required word that is not in the lexicon is passed over, so `+here +nowhere` finds the messages with
  `here`, though `tbrowser/Help.cpp:117` says "Prepend word with + to require this word" and
  `SearchEngine.hpp:47` "Require all words to be present". `Asked` is what these lines promise;
  `SearchRight` is stated for queries that are `Clear`, which these two kinds are not, and would fail
  for those the run has.
* `Browser.cpp:276`: the history file is compared with the archive only in its last entry, so after an
  archive became smaller the history keys go beyond its end, and the list with them. `JumpsPast` is
  such a key; `StaysOnScreen` and `LostOffScreenOnly` except it, and `HistoryRight` says that such
  messages come from the file alone.
* `PersistentStorage.cpp:354`, `named_mutex.hpp:105`: a browser that dies with the semaphore taken leaves
  the others waiting (`CallsReturn` excepts it), and an interrupted wait lets two in from then on
  (`MissedOnlySameSecond` is up to the first).

Seen while reading, without a run: `lexicon.cpp:332` asserts that the number of words is the size
of the table, which is larger; `lexicon.cpp` takes a line of dashes for a signature only if it is
four characters long with its end; `GetParentFromReferences` returns -2, "broken", for well-formed
references the archive lacks as well, and connectivity counts them as malformed; a zone offset can
take an epoch below zero, and it is unsigned (`connectivity.cpp:281`); `threadify -g` does not sort
children again, so uat-sort's order is not chronological afterwards; `nntp-get` asks for the article
after the last one and gives up if the server lacks just that one, and the names of its files drift
from the article numbers when NEXT skips some; `LoadScore` does not count the text it reads
(`PersistentStorage.cpp:339`); a visited file without its final zero is read past its end (line 250);
in a window of one row `FocusOn` scrolls past the message it was given (`ThreadView.cpp:188`).

## What is proved

`TaskDispatch_proofs` proves, for any number of workers, any tasks, batches and spawned tasks,
`TypeOK`, `SyncComplete` and `NoLostWakeup`. The last two are not inductive. The invariant they
follow from ties `pc` to the data: a thread executes a task exactly when `cur` holds one, `jobs` is
the number of workers that execute one, tasks of earlier batches are neither queued nor being
executed when Sync gets past its loop, and a queue that was filled while Main waits was filled by
a running task, whose worker comes back to look at it. The argument needs finite cardinalities
(`FiniteSetTheorems`), since `jobs` counts workers. `PoolImplementsExecutor` proves the refinement
with the same invariant, of which `Conserved` is the part for it: each task is done, in the queue or
held by a thread exactly as often as it was handed over. A thread that ends a task holds it, so it is
done less often than handed over before the step: no task is run once too often, and Sync's batch is
done when it returns.

`MsgIdHash_proofs` proves, for any number of messages, any ids, any hash function, any table size
and any width of the distance, overflowing ones included, `TypeOK`, `MetaConsistent` and
`LookupComplete`. Of the invariant some holds whatever overflows: the elements are messages reached
so far (`HeldInv`) and none is there twice (`NoneTwice`). The rest holds as long as every message
before `next` is there (`NoneLost`): an element's slot is its home plus its distance, and every slot
between is taken (`SlotInv`), and the same of the element in hand (`CarryInv`). `WrittenInv` adds what
the files hold for the slots already written, and that they have a string for each slot taken. So if
there are as many strings as messages, all are in the table, since none is there twice
(`TakenAmong`, `AllWrittenNoneLost`); and then search finds an id because the slots up to its distance
are all taken and the distance is at most `distmax`. That two messages may share an id is the reason
the search is only promised to find a message with that id.

`RoomIsLeft` proves `SizingLeavesRoom` for a table sized as the code does and numbers below 2^30, where
the size is still an `int` (`Sized`), and rests on two facts. The slots taken are no more than the
messages, since no two hold the same one (`TakenAtMost`). And `MsgIdHashBits` finds the highest bit of
any such number (`SizesFit`): each of the five masks halves the range the remaining number can be in
(`Halved`). The prover computes powers but does not reason about them, so that they double is shown for
each of the exponents up to 32 (`Powers`).

`Browser_proofs` proves every property of `Browser`, for any archives, windows, heights and size of
the ring.

- `HistoryRight`, for history files of the archive as it is or as it was. What moves the window leaves
  the history alone; the proof goes over the ways an article is opened, with `PushBack` on a full ring
  as the case to look at (`PushRead`: what was read moves forward, and what is new is the archive's).
- `TreeRight`. A thread is prepared as a whole or not at all only because
  what is expanded is the top of a thread, or a message of a prepared one; otherwise its lines would
  begin in the middle. So the invariant also says of the list that its top and its cursor, if they
  are messages, are of either kind (`Known`, in `ListInv`), and that is what every key has to keep:
  going down or up by a row leads from known messages to known ones (`KnownNext`, `KnownPrev`).
- `StaysOnScreen` and `LostOffScreenOnly`. The invariant adds that the bottom of the window is where the
  rows from its top end in the tree as it is (`DrawnInv`). Then a cursor on the screen is `OnRows`:
  top and cursor have rows, and the cursor is before the end. `GetNext` and `GetPrev` are the next
  row and the one before (`NextLeast`, `PrevRow`); windows of neighbouring rows end at neighbouring rows
  (`EndShifts`); and expanding or collapsing at the cursor or below leaves the cursor in the window
  (`EndAgrees`). That covers the keys one by one. `LosesCursor` lists what the theorem cannot promise: a
  jump that expands a thread first, or to a message below a collapsed one, another archive's
  message, a restart. For those, and for windows of one row, only the range is proved; for a history
  key that leads to a message the archive does not have (`JumpsPast`), nothing.

The loops of `ThreadView` are recursive functions over the rounds; a lemma shows once that such a
function exists (`Rounds`, from the least round without one) and keeps what a round keeps
(`LoopStays`).

`Browser_proofs` also proves what running browsers share (`VisitedStore`): `MissedOnlySameSecond`
and `StaleAtMostGrace` for any browsers, messages and grace time. The invariant holds up to the
first interrupted wait, and says: one browser at most is inside the semaphore (`OneInside`, which
also counts the dead); times of looking and of writing are ordered (`TimesInOrder`); whatever a
browser lacks is newer in the file than its time stamp, or was appended in the second the stamp is
of (`FileNewer`); and the time of the last look is behind by what the steps inside a call took
(`LookedSince`, `JustRead`).

`Forest_proofs` has what the proofs about threads and lists need. `Above` is the least set closed
under parents, so facts about walks are proved without induction; what cutting a parent and what
putting a thread below a message outside it do to `Above` and to sizes; loops, which lie within the
links they are made of (`Subgraph`); and lists without repetition under appending, removing and
sorting. Where a proof on paper would be by induction, over the length of a list or over the size of
a set, these take the least counterexample instead (`LeastNumber`): so that a set of
messages has a greatest one (`HasGreatest`) and a list a sorted order (`CanBeSorted`), that without
loops everybody has a top (`AcyclicIsTopped`), and what a fold over a list adds up to (`SumOf`,
`FoldSizes`). A recursive function `f[n \in 0..N]` is shown to exist in the same way, from the least
`n` up to which there is none.

`Connectivity_proofs` proves every safety property of `Connectivity`, for any number of messages,
any References and any dates. For `RecordsAgree` and `EveryMessageReachable`: during the first pass
only messages before `i` take part in the records (`TopAgrees`, `BuiltInOrder`); messages before the
one whose loop is looked for have a top (`ToppedBefore`); the walk from `i` is at a message above `i`
(`WalksAbove`). A cut therefore gives `i` a top, and takes none from another message, since a message
above which `i` is has a top exactly when `i` has. `LoopsAreCutOnce` adds what was cut so far
(`CutsInv`): the messages whose parent is not the one asked for are one of each loop of the original
graph, because a loop found later is a loop of that graph, and is met whole. `ThreadsAreSaved` adds that
totals of the messages counted so far are sizes of threads (`TotalsInv`; the children's threads are
apart and add up, `ChildrenSum`), that lists once sorted stay so (`OrderInv`), and the bounds of the
types. `DatesFollowServers` is about a header alone: the groups of close stamps start at the last stamp
too far from the one before (`GroupStarts`), the stamps of a group sort before all of the next, and a
stamp that a larger group contradicts is not of the largest group (`OutlierNotLargest`). Like the
property it is about messages whose stamps are not changed by their words (0 to `Word` - 1).

`Threadify_proofs` proves `ForestKept`, `TotalsKept`, `OnlyTopsMove` and `MatchKeepsOrder` for any
archive, any number of workers, and whatever the search finds or the headers refer to. The heart of it
is `LinksFit` and
`ChildOnce`: a link that waits has a top as its child, which no other link has, and unless the child
is in `bad` it is not above the new parent; so `bad` is enough to keep loops out when links are
applied one after the other, in any order. That every link fits when it is found comes from the
tasks in `match` (`OneRoot`: the stale roots still separate threads, `TakenOnce`: a top is taken by
one worker) and from the groups being disjoint sets of tops (`GroupsApart`). `MatchAlwaysKeepsOrder`
needs in addition that the lists are sorted before (`InOrder`) and that removing one message keeps a
list so (`RemoveKeepsOrder`); with the forest, distinct children bound the number of links
(`LengthsFit`). It starts from an archive whose records agree and whose lists are in order, equal
dates in any, which is what `Connectivity_proofs` shows of the utility before it.

`SearchIndex_proofs` proves every property of `SearchIndex`. First what uat-sort promises, `SameArchive`
and `VerifySorted`, for any forest of threads with their tops in any order, and children in every
order of `ChildOrders`.

* The numbers a thread gets are those from the number of its top on, each once (`FollowingFills`): in
  a list of children the threads share nothing (`ChildrenApart`), so the totals of earlier siblings add
  up to the messages of their threads (`SkipCounts`), and the ranges of two children neither overlap
  nor leave a gap (`Tiles`). It is shown from the smallest threads up, as `Position` is shown to
  exist from the top down (`PositionIs`, by depth).
* `Ordered` says the same of the threads numbered so far, and is inductive; with all of them numbered
  `order` is a bijection (`AllOrdered`), so that `rev` is its inverse and each file is the source under
  it (`FilesInv`). That makes `SameArchive` a matter of applying `order` after `rev`.
* uat-verify goes down the threads of what was written. Below message *k* it meets the numbers from
  *k* on (`WalksInOrder`, from the last number to the first), since what it joins are runs of numbers
  that follow each other (`RunsJoin`, `RunsFold`).

Then the index of words, `IndexRight`, for any texts and any way to put a hit into a byte.

* `LexInv` follows the index through its four forms. While uat-lexicon reads, each word has for every
  message read a list of hits that follows the message (`Indexed`). `HitsInv` is what follows means:
  no hit twice, each hit of an occurrence at its position or the last one there is, and a hit of every
  occurrence, unless a position wrapped or the list is full; and a hit of each context in any case. It
  is kept from one place to the next (`HitsGrow`), through a line (`LineStep`), a message
  (`MessageStep`) and the archive (`IndexedGrows`). `LexRight` is about what is saved: words of two
  messages or more, each message once among the entries of a word (`ListRight`).
* uat-sort changes the number of each entry and nothing else (`RelinkedRight`, by the bijection above),
  and uat-lexsort sorts: `LexsortRight` shows that nothing is lost or doubled, entries climb by number
  and hits fall by rank (`Tidy`). `IndexFollows` puts these together.
* A full list is no exception to `IndexRight` unless the word is `Crowded`: a list of 255 different hits
  that lacks one is a message's with all 256, since a byte has no more (`HitsAll`).

`SearchRight` is proved for any sorted index, any similar words and any query that is `Clear`.

* The words of a query are those its terms bring (`TakeIs`, `TermWordsIs`, `WithSimilarIs`, together
  `ExtractedIs`); as no two terms bring one word, each keeps the sign and the field of its own term
  (`Alone`).
* Halving finds a post where posts climb (`LowerBoundIs`, `HoldsIs`): what is before the interval is
  below, what is after it is not, and the interval shrinks. The lists climb because uat-lexsort sorted
  them, and taking the posts of a context or a field from them keeps that (`PostsMet`).
* Each way to the result is then a matter of sets: `AllWordsIs`, `IncludeIs`, `FullResultIs`. `SearchIs`
  joins them, `AskedIs` says the same of what was asked for, when every required term brings a word
  (`AllKnown`), and `SearchFollows` compares.

`DistanceRight` is proved for any two groups of lists of hits, sorted or not. The hits of a group are
those of its lists, put together (`Flattened`, `NearHitsAre`). `ClosestIs`: the walk over two rising
lists of any length gives the least gap between them, because the place that is left behind is nearest
to the one it was compared with, or to one before. `PlacesReached`: with two places at most, what is
summed up from the differences is the places (`TwoReached`); a third would not be, as listed above.
`DistanceIs` takes the least over the contexts.

A loop of the program is a recursive function over its rounds here too (`LoopRuns`): it
exists, and what a round keeps holds after the last.

`Workflow_proofs` proves every safety property of `Workflow`, and the refinement, through all of its
steps.

* `NothingSkippedAlways`: files are counted behind the server's number (`CountBehind`), names in use
  are below the one to write (`NamesBelow`), and every article passed was stored or had expired
  (`PassedStored`).
* `HandlesSufficeAlways`: a connection is either in the pool, held by a worker that executes a task,
  or closed, so a worker never finds the pool empty; this needs the number of executing workers
  bounded by the threads of a pool in each part of the program (`ThreadsSuffice`, `HandlesCounted`),
  that page tasks are over when the connections are closed (`PagesOver`), and that nothing is left
  running when a crawl ends (`AtRest`).
* `CrawlsAreAccounted`: no task is in two places (`NothingTwice`), a page is under way as long as not
  all were asked for (`PagesRight`), the topics of the pages read are out or counted (`TopicsRight`),
  and of the messages of the topics read each is out, saved, counted as bad or untold (`MessagesRight`);
  what is untold stays so and is not out (`UntoldStay`). At the end nothing is out. This uses that a
  group lists a message in one topic (`ListedOnce`, assumed), and is for crawls without a spurious
  wake-up.
* `ArchivesReadBack`: behind every archive is a list of messages, which each of its forms reads as
  (`Reads`) and which its ids are the ids of (`Sound`). That what is written reads back is
  about places: a block lies where its entry says (`Lies`), whatever is written before or after it
  (`WriteReads`). Of a compression in parallel, `Progress` says that what a task has put out is the
  message of that number, that the one task inside the mutex is the one whose message is in the view, and
  that a task's share up to its position is done; the shares cover all numbers (`SharesCover`).
* `VersionsAreChosen`: the list behind a new archive is made of those behind its sources in the way
  of its utility (`MadeOf`), and archives do not change after (`Provenance`). The rest is about lists.
* `UtilitiesImplementSets` refines `MessageSets`: `Held` is the abstract state, and every step of a
  utility appends an entry of the abstract kind (`NewEntry`) or leaves `Held` as it was (`HeldGrows`,
  `HeldSame`); a download only adds (`FilesGrow`). What relative-complement loses beyond its offsets is
  mapped to what should have been there, from sources that are not lost themselves (`BrokenFrom`).
* `IndirectLinksAreRight`: a galaxy is what `GalaxyOf` says of its list of archives, from when it is
  written, since archives stay as they are from then on (`GalaxyMade`); the links follow from the last
  known reference being one at most.
* `OpenGalaxiesAnswer`: the archives drawn are those in hand and those available, never both
  (`LoaderInv`); so when nothing is in hand all are available, whatever the order. Comparing each
  archive with the first is enough because a list without duplicates that is within another one, and
  as long, has the same elements (`ChildrenCounted`).

The entries kept by a utility are a recursive function here (`Numbers`), not `SelectSeq`, whose
definition is a recursive operator and out of the provers' reach.

All rest on the named assumptions on constants in their modules and, for `SizingLeavesRoom`, on
`Sized`. What these assume beyond types: a history file has no message twice in a row, as the browser
writes them; a group does not list a message twice; an id in a header is none of the
random ones extract-msgid makes, and a hit fits a byte (`LexiconAssumption`: there are 256 hits at most,
a last position is within 1..127, as in `LexiconHitPosMask`, and below the 256 that positions wrap at).

Only model-checked: liveness (`SyncReturns`, `Terminates`, `CallsReturn`, `CrawlEnds`), which needs
`ENABLED`. Every invariant and every action property of the passing runs is proved.

## Not modelled

The web server, `query`, `query-raw` and `export-messages` keep no state: they read an archive and
print. mbox and 7z import differ from the import of a directory in parsing. `filter-spam` is a
trained classifier, `utf8ize`, `ICU`, `UTF8`, `MessageLines` and `KillRe` are about bytes of text,
`lexdist` computes edit distances, `StringCompress` and the package format encode. `contrib` is
third-party. In the modelled parts, wording and layout, the ranks of search results, and what is
copied unchanged are left out; `PROJECT.json` says so part by part.

## Plan

Done: thread pool, hash tables, connectivity, threadify, sort, visited messages, text browser,
collection of archives with its abstract specification, downloaders, galaxy, lexicon and search; and
the proofs of all their safety properties. Left, most useful first:

1. The ranks of search results, against a reference definition.
2. Browser: the cached answers of `WasAllVisited`; the score list of `PersistentStorage`.
3. The recoding of ids in `galaxy-util` and `repack-zstd` at the grain of codes.
