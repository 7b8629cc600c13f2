----------------------------- MODULE Collection -----------------------------
(***************************************************************************)
(* Archives as files: meta, with an offset and a size per message, and     *)
(* data; and the utilities that make archives from directories and other   *)
(* archives: import-source-maildir, kill-duplicates, extract-msgid,        *)
(* merge-raw, relative-complement, filter-newsgroups, repack-zstd,         *)
(* repack-lz4 and update-zstd.                                             *)
(*                                                                         *)
(* A message compresses to a block of units, and data is a sequence of     *)
(* units, so an offset that is off shows as an entry that is no message.   *)
(* Sequential utilities are one step; the three that compress in parallel  *)
(* go message by message, through the view of the archive their tasks      *)
(* share.  Ids are looked up as module MsgIdHash proves it of HashSearch;  *)
(* Repack, which writes an id in the code of another archive, keeps the    *)
(* id.  An id that is missing or broken gets a random new one              *)
(* (extract-msgid), so it is found nowhere else.  What a utility adds to   *)
(* an archive is added once (a bound: a second run changes nothing).       *)
(***************************************************************************)
EXTENDS Integers, SequencesExt, FiniteSets

CONSTANTS Msg,         \* the messages there are
          Size,        \* Size[m]: units m compresses to
          MsgId,       \* valid message ids
          IdOf,        \* IdOf[m]: the id in its header, NoId when broken or missing
          NoId,
          Dated,       \* the messages whose date connectivity can make out
          InGroup,     \* the messages posted to the newsgroup that is filtered for
          OldArchives, \* the archives there are at first, each the messages in it
          Cpus,        \* tasks of a utility that compresses
          Wrap,        \* one above the largest offset of 32 bits
          MaxArchives  \* bound: archives

ASSUME CollectionAssumption ==
    /\ Size \in [Msg -> Nat \ {0}]
    /\ NoId \notin MsgId /\ IdOf \in [Msg -> MsgId \cup {NoId}]
    /\ MsgId \cap (Msg \cup ((1..MaxArchives) \X Nat)) = {}   \* a random new id is a pair
    /\ Dated \subseteq Msg /\ InGroup \subseteq Msg
    /\ OldArchives \in Seq(Seq(Msg)) /\ Len(OldArchives) \in 0..MaxArchives
    /\ Cpus \in Nat \ {0} /\ Wrap \in Nat \ {0} /\ MaxArchives \in Nat

VARIABLES archive, \* the archives, in the order they were made
          job      \* the utility that is compressing

collectionVars == <<archive, job>>

NoIndex == 0
-----------------------------------------------------------------------------
(* Files.                                                                  *)
Block(m) == [k \in 1..Size[m] |-> <<m, k>>]

NoPair == [meta |-> <<>>, data |-> <<>>]

(* What an entry of meta leads to, and the message that is.                *)
Raw(pair, i) == SubSeq(pair.data, pair.meta[i].offset + 1,
                       pair.meta[i].offset + pair.meta[i].size)
Readable(pair, i) == \E m \in Msg : Raw(pair, i) = Block(m)
Text(pair, i)     == CHOOSE m \in Msg : Raw(pair, i) = Block(m)
Texts(pair)       == [i \in DOMAIN pair.meta |-> Text(pair, i)]

(* Blocks written after what pair has, by a utility whose offset is at at. *)
WriteFrom(pair, at, blocks) ==
    LET before[k \in DOMAIN blocks] ==
            IF k = 1 THEN at ELSE before[k - 1] + Len(blocks[k - 1])
    IN  [meta |-> pair.meta \o [k \in DOMAIN blocks |-> [offset |-> before[k],
                                                         size   |-> Len(blocks[k])]],
         data |-> pair.data \o FlattenSeq(blocks)]

(* A loop over 1..n that keeps the numbers in kept.                        *)
Numbers(n, kept) ==
    LET upTo[i \in 0..n] == IF i = 0 THEN <<>>
                            ELSE IF i \in kept THEN Append(upTo[i - 1], i) ELSE upTo[i - 1]
    IN  upTo[n]

(* The entries kept, in order.                                             *)
Chosen(pair, kept) ==
    LET list == Numbers(Len(pair.meta), kept)
    IN  [k \in DOMAIN list |-> Raw(pair, list[k])]
Written(blocks) == WriteFrom(NoPair, 0, blocks)

(* HashSearch in the ids of an archive, and the entries another one lacks. *)
Found(mid, id) == id \in Range(mid)
Lacking(other, mid) == {i \in DOMAIN mid : ~Found(other, mid[i])}

(* Everything in an archive: the raw and the zstd form of its messages,    *)
(* the ids of the message id table, and whether connectivity has run.      *)
(* made and from are history: the utility that made it and its sources.    *)
Archive(made, from, raw, z) ==
    [raw |-> raw, z |-> z, mid |-> <<>>, conn |-> FALSE, made |-> made, from |-> from]

NumMessages(a) == Len(archive[a].raw.meta)
HasRaw(a)  == archive[a].raw # NoPair
HasZ(a)    == archive[a].z # NoPair
HasMid(a)  == archive[a].mid # <<>>

(* Where 32 bits were too few for relative-complement, messages are lost;  *)
(* nothing more is done with such an archive.                              *)
Wrapped(a) == archive[a].made = "relative-complement" /\ Len(archive[a].raw.data) > Wrap
Raws == {a \in DOMAIN archive : HasRaw(a) /\ ~Wrapped(a)}

IdsOf(pair, a) == [i \in DOMAIN pair.meta |->
                      IF IdOf[Text(pair, i)] = NoId THEN <<a, i>> ELSE IdOf[Text(pair, i)]]

NoJob == [tool |-> "none"]

CollectionInit ==
    /\ archive = [k \in DOMAIN OldArchives |->
                     LET old == OldArchives[k]
                         pair == Written([i \in DOMAIN old |-> Block(old[i])])
                     IN  [Archive("old", <<>>, pair, pair) EXCEPT !.mid = IdsOf(pair, k),
                                                                  !.conn = TRUE]]
    /\ job = NoJob

Add(new) == /\ job = NoJob /\ Len(archive) < MaxArchives
            /\ archive' = Append(archive, new)
            /\ UNCHANGED job
-----------------------------------------------------------------------------
(* import-source-maildir: files[name] is the message in the file of that   *)
(* name; the files are written in the order in which the directory lists   *)
(* them.                                                                   *)
Import(files) ==
    \E list \in SetToSeqs(DOMAIN files) :
        Add(Archive("import", <<>>, Written([i \in DOMAIN list |-> Block(files[list[i]])]), NoPair))

(* kill-duplicates: of each valid id the first message, and all others.    *)
KillDuplicates(a) ==
    LET raw == archive[a].raw
        kept == {i \in DOMAIN raw.meta :
                    \/ IdOf[Text(raw, i)] = NoId
                    \/ \A j \in 1..(i - 1) : IdOf[Text(raw, j)] # IdOf[Text(raw, i)]}
    IN  /\ a \in Raws
        /\ Add(Archive("kill-duplicates", <<a>>, Written(Chosen(raw, kept)), NoPair))

ExtractMsgid(a) ==
    /\ job = NoJob
    /\ a \in Raws /\ ~HasMid(a)
    /\ archive' = [archive EXCEPT ![a].mid = IdsOf(archive[a].raw, a)]
    /\ UNCHANGED job

Connect(a) ==
    /\ job = NoJob
    /\ a \in Raws /\ HasMid(a) /\ ~archive[a].conn
    /\ archive' = [archive EXCEPT ![a].conn = TRUE]
    /\ UNCHANGED job

(* filter-newsgroups: dated messages of the newsgroup.                     *)
FilterNewsgroups(a) ==
    LET raw == archive[a].raw
        kept == {i \in DOMAIN raw.meta : Text(raw, i) \in Dated \cap InGroup}
    IN  /\ a \in Raws /\ archive[a].conn
        /\ Add(Archive("filter-newsgroups", <<a>>, Written(Chosen(raw, kept)), NoPair))

(* Variant: ids are looked up in the archive they come from.               *)
MergedOwnIds(sources) ==
    LET first == archive[sources[1]]
        More(k) == Chosen(archive[sources[k]].raw,
                          Lacking(archive[sources[k]].mid, archive[sources[k]].mid))
    IN  WriteFrom(first.raw, Len(first.raw.data),
                  FlattenSeq([k \in 1..(Len(sources) - 1) |-> More(k + 1)]))

(* merge-raw: the first source as it is; of each other one the messages    *)
(* whose ids the first one lacks.                                          *)
Merged(sources) ==
    LET first == archive[sources[1]]
        More(k) == Chosen(archive[sources[k]].raw,
                          Lacking(first.mid, archive[sources[k]].mid))
    IN  WriteFrom(first.raw, Len(first.raw.data),
                  FlattenSeq([k \in 1..(Len(sources) - 1) |-> More(k + 1)]))

MergeRaw(sources) ==
    /\ Range(sources) \subseteq Raws /\ \A a \in Range(sources) : HasMid(a)
    /\ Add(Archive("merge-raw", sources, Merged(sources), NoPair))

(* relative-complement: the messages of a whose ids b lacks; its offset    *)
(* has 32 bits.                                                            *)
RelativeComplement(a, b) ==
    LET pair   == Written(Chosen(archive[a].raw, Lacking(archive[b].mid, archive[a].mid)))
        narrow == [pair EXCEPT !.meta = [i \in DOMAIN pair.meta |->
                                            [pair.meta[i] EXCEPT !.offset = @ % Wrap]]]
    IN  /\ {a, b} \subseteq Raws /\ HasMid(a) /\ HasMid(b)
        /\ Add(Archive("relative-complement", <<a, b>>, narrow, NoPair))
-----------------------------------------------------------------------------
(* Compressing in parallel: repack-zstd and update-zstd give each task a   *)
(* run of consecutive messages, repack-lz4 lets tasks draw numbers.        *)

Cpu == 1..Cpus

InPass(n) == (n + Cpus - 1) \div Cpus
FirstOf(n, w) == LET before == (w - 1) * InPass(n) IN (IF before < n THEN before ELSE n) + 1
LastOf(n, w)  == LET upTo == w * InPass(n) IN IF upTo < n THEN upTo ELSE n

Shared(tool) == tool \in {"repack-zstd", "update-zstd"}

(* What the tasks read: the raw form of src, the zstd form in repack-lz4.  *)
JobPair == IF job.tool = "repack-lz4" THEN archive[job.src].z ELSE archive[job.src].raw
JobSize == Len(JobPair.meta)

(* The tasks are queued: src is compressed again; update-zstd puts it into *)
(* a copy of old, over or under what is there.                             *)
StartJob(tool, src, old, overwrite) ==
    LET n == IF tool = "repack-lz4" THEN Len(archive[src].z.meta) ELSE NumMessages(src)
    IN  /\ job = NoJob
        /\ job' = [tool |-> tool, src |-> src, old |-> old, overwrite |-> overwrite,
                   at   |-> [w \in Cpu |-> IF Shared(tool) THEN FirstOf(n, w) ELSE NoIndex],
                   busy |-> {},          \* tasks with a message in hand
                   view |-> NoIndex,     \* the message in the buffer of the shared view
                   cnt  |-> 1,           \* the number drawn next
                   out  |-> [i \in 1..n |-> NoIndex]]
        /\ UNCHANGED archive

RepackZstd(a) == a \in Raws /\ ~HasZ(a) /\ StartJob("repack-zstd", a, a, FALSE)

RepackLz4(a) == HasZ(a) /\ ~HasRaw(a) /\ StartJob("repack-lz4", a, a, FALSE)

UpdateZstd(old, src, overwrite) ==
    /\ HasZ(old) /\ HasMid(old) /\ src \in Raws /\ HasMid(src)
    /\ Len(archive) < MaxArchives
    /\ StartJob("update-zstd", src, old, overwrite)

(* mtx; and a variant without it.                                          *)
NoMutex == TRUE
MutexFree == job.busy = {}

(* uview[i]: the message is decompressed into the buffer of the view.      *)
Decompress(w) ==
    /\ Shared(job.tool) /\ w \notin job.busy
    /\ job.at[w] <= LastOf(JobSize, w)
    /\ MutexFree
    /\ job' = [job EXCEPT !.busy = @ \cup {w}, !.view = job.at[w]]
    /\ UNCHANGED archive

(* It is copied from there and, the mutex released, compressed and kept    *)
(* under its own number.                                                   *)
CopyAndCompress(w) ==
    /\ Shared(job.tool) /\ w \in job.busy
    /\ job' = [job EXCEPT !.busy = @ \ {w}, !.out[job.at[w]] = job.view, !.at[w] = @ + 1]
    /\ UNCHANGED archive

(* repack-lz4: the tasks have views of their own.                          *)
Draw(w) ==
    /\ job.tool = "repack-lz4" /\ w \notin job.busy
    /\ job.cnt <= JobSize
    /\ job' = [job EXCEPT !.busy = @ \cup {w}, !.at[w] = job.cnt, !.cnt = @ + 1]
    /\ UNCHANGED archive

CompressDrawn(w) ==
    /\ job.tool = "repack-lz4" /\ w \in job.busy
    /\ job' = [job EXCEPT !.busy = @ \ {w}, !.out[job.at[w]] = job.at[w]]
    /\ UNCHANGED archive

(* Sync() returns when all tasks have ended (Executor); then the buffers   *)
(* are written in order.  No buffer holds a message nobody stored.         *)
JobOver ==
    /\ job.tool # "none" /\ job.busy = {}
    /\ IF Shared(job.tool) THEN \A w \in Cpu : job.at[w] > LastOf(JobSize, w)
                           ELSE job.cnt > JobSize

Compressed == [i \in DOMAIN job.out |-> IF job.out[i] = NoIndex THEN <<>>
                                        ELSE Raw(JobPair, job.out[i])]

WriteRepacked ==
    /\ JobOver
    /\ \/ /\ job.tool = "repack-zstd"
          /\ archive' = [archive EXCEPT ![job.src].z = Written(Compressed)]
       \/ /\ job.tool = "repack-lz4"
          /\ archive' = [archive EXCEPT ![job.src].raw = Written(Compressed)]
    /\ job' = NoJob

(* Variant: with -o the old messages stay, too.                            *)
UpdatedAddsAll(old, mid, overwrite) ==
    LET new == Numbers(Len(Compressed),
                       IF overwrite THEN DOMAIN mid ELSE Lacking(old.mid, mid))
    IN  [k \in DOMAIN new |-> Compressed[new[k]]] \o Chosen(old.z, DOMAIN old.z.meta)

(* update-zstd: with -o the old messages that are not in the update and    *)
(* then the update, without it the new ones and then all old ones.         *)
Updated(old, mid, overwrite) ==
    LET new == Numbers(Len(Compressed), Lacking(old.mid, mid))
    IN  IF overwrite
        THEN Chosen(old.z, Lacking(mid, old.mid)) \o Compressed
        ELSE [k \in DOMAIN new |-> Compressed[new[k]]] \o Chosen(old.z, DOMAIN old.z.meta)

WriteUpdated ==
    /\ JobOver /\ job.tool = "update-zstd"
    /\ archive' = Append(archive,
          Archive(IF job.overwrite THEN "update-zstd -o" ELSE "update-zstd", <<job.old, job.src>>,
                  NoPair, Written(Updated(archive[job.old], archive[job.src].mid,
                                          job.overwrite))))
    /\ job' = NoJob

JobStep == \/ \E w \in Cpu : Decompress(w) \/ CopyAndCompress(w)
                              \/ Draw(w) \/ CompressDrawn(w)
           \/ WriteRepacked \/ WriteUpdated

(* A program of the user's choice on archives of the user's choice.        *)
Utility ==
    LET A == DOMAIN archive
    IN  \/ \E a \in A : \/ KillDuplicates(a) \/ ExtractMsgid(a) \/ Connect(a)
                        \/ FilterNewsgroups(a) \/ RepackZstd(a) \/ RepackLz4(a)
        \/ \E a, b \in A : a # b /\ \/ MergeRaw(<<a, b>>)
                                    \/ RelativeComplement(a, b)
                                    \/ \E overwrite \in BOOLEAN : UpdateZstd(a, b, overwrite)
        \/ \E a, b, c \in A : Cardinality({a, b, c}) = 3 /\ MergeRaw(<<a, b, c>>)

CollectionNext == Utility \/ JobStep
=============================================================================
