------------------------------ MODULE Workflow ------------------------------
(***************************************************************************)
(* From a download to finished archives: the user runs one program after   *)
(* the other, as README.md describes under "Workflow".  A behaviour has    *)
(* one directory of downloaded files, from uat-google-groups or from       *)
(* sessions of uat-nntp-get; it is imported, and then the utilities of     *)
(* module Collection are run on what there is, in any order.               *)
(***************************************************************************)
EXTENDS GoogleGroups, NntpGet, Galaxy

CONSTANT Posted \* Posted[n]: the message that is article n of the news server

ASSUME WorkflowAssumption == /\ Posted \in [Article -> Msg]
                             /\ \A g \in Groups : MessagesOf(g) \subseteq Msg

VARIABLE download \* where the files come from: "groups", "news", or "none" any more

vars == <<crawlVars, newsVars, collectionVars, galaxyVars, download>>

(* The downloaded files: names to messages.  The crawler's names are ids   *)
(* of messages, here the messages; two files of news can have one text.    *)
Files == CASE download = "groups" -> [m \in saved |-> m]
           [] download = "news"   -> [name \in DOMAIN file |-> Posted[file[name]]]
           [] download = "none"   -> << >>

Downloaded == Range(Files)

TypeOK ==
    /\ CrawlTypeOK /\ NewsTypeOK
    /\ download \in {"groups", "news", "none"}
    /\ Len(archive) \in 0..MaxArchives
    /\ \A a \in DOMAIN archive :
          /\ Len(archive[a].mid) \in {0, Len(archive[a].raw.meta), Len(archive[a].z.meta)}
          /\ Range(archive[a].from) \subseteq 1..(a - 1)
    /\ job # NoJob => /\ {job.src, job.old} \subseteq DOMAIN archive
                      /\ job.view \in 0..JobSize /\ job.cnt \in 1..(JobSize + 1)
                      /\ job.busy \subseteq Cpu

Init == /\ CrawlInit /\ NewsInit /\ CollectionInit /\ GalaxyInit
        /\ download \in {"groups", "news"}
        /\ download = "groups" => newest = 0

Running == Crawling \/ session # "no" \/ job # NoJob

(* The files are imported and removed.                                     *)
ImportFiles ==
    /\ download # "none" /\ ~Running /\ DOMAIN Files # {}
    /\ Import(Files)
    /\ download' = "none"
    /\ group' = NoGroup /\ crawl' = "no" /\ saved' = {} /\ untold' = {} /\ count' = NoCount
    /\ numpages' = NoPages /\ pagenum' = 0 /\ spurious' = 0
    /\ UNCHANGED <<queue, busy, looking, mainTask, mainWaits, holding, handles>>
    /\ server' = {} /\ newest' = 0 /\ current' = 0 /\ article' = 0 /\ last' = 0
    /\ file' = << >> /\ sessions' = 0
    /\ UNCHANGED <<session, galaxyVars>>

Next == \/ /\ download = "groups" /\ CrawlNext
           /\ UNCHANGED <<newsVars, collectionVars, galaxyVars, download>>
        \/ /\ download = "news" /\ NewsNext
           /\ UNCHANGED <<crawlVars, collectionVars, galaxyVars, download>>
        \/ ImportFiles
        \/ /\ download = "none" /\ galaxy = NoGalaxy /\ CollectionNext
           /\ UNCHANGED <<crawlVars, newsVars, galaxyVars, download>>
        \/ /\ download = "none" /\ GalaxyNext
           /\ UNCHANGED <<crawlVars, newsVars, collectionVars, download>>

Spec == Init /\ [][Next]_vars

FairSpec == Spec /\ CrawlFairness
-----------------------------------------------------------------------------
Contents(a) == Texts(IF HasRaw(a) THEN archive[a].raw ELSE archive[a].z)
Identities(messages) == {IF IdOf[m] = NoId THEN m ELSE IdOf[m] : m \in messages}

(* Every entry of every archive is a message, in whatever form and by      *)
(* whatever chain of programs it was written, and the forms of an archive  *)
(* and its message ids agree entry by entry.  Excepted is what             *)
(* relative-complement writes beyond the reach of its 32 bits.             *)
EntriesReadBack == TypeOK /\
    \A a \in DOMAIN archive : ~Wrapped(a) =>
        /\ \A i \in DOMAIN archive[a].raw.meta : Readable(archive[a].raw, i)
        /\ \A i \in DOMAIN archive[a].z.meta : Readable(archive[a].z, i)
        /\ HasRaw(a) /\ HasZ(a) => Texts(archive[a].raw) = Texts(archive[a].z)
        /\ HasMid(a) => \A i \in DOMAIN Contents(a) :
              IdOf[Contents(a)[i]] \in {archive[a].mid[i], NoId}

Unique(a) == \A i, j \in DOMAIN Contents(a) :
                IdOf[Contents(a)[i]] = IdOf[Contents(a)[j]] /\ i # j
                    => IdOf[Contents(a)[i]] = NoId

(* Archives without duplicates are merged and updated to one without, and  *)
(* of a message both have, the version the man page promises is in it: the *)
(* first source's for uat-merge-raw and uat-update-zstd, the update's with *)
(* -o.  Three or more archives can be merged to one with duplicates.       *)
VersionsChosen ==
    \A a \in DOMAIN archive :
        LET made == archive[a].made
            from == archive[a].from
            Has(m) == m \in Range(Contents(a))
        IN  /\ made = "kill-duplicates" => Unique(a)
            /\ made \in {"merge-raw", "update-zstd", "update-zstd -o"} /\ Len(from) = 2 =>
                  /\ Unique(from[1]) /\ Unique(from[2]) => Unique(a)
                  /\ \A m \in Range(Contents(from[IF made = "update-zstd -o" THEN 2 ELSE 1])) : Has(m)

(* The utilities do to the set of messages what MessageSets says; where    *)
(* relative-complement has lost messages, the set is what it should be.    *)
Holds(a) ==
    LET Had(k) == Identities(Range(Contents(archive[a].from[k])))
    IN  IF Wrapped(a) THEN Had(1) \ (Had(2) \cap MsgId) ELSE Identities(Range(Contents(a)))

Kind(a) == CASE archive[a].made = "kill-duplicates"     -> "copy"
             [] archive[a].made = "filter-newsgroups"   -> "filter"
             [] archive[a].made = "relative-complement" -> "complement"
             [] archive[a].made \in {"merge-raw", "update-zstd", "update-zstd -o"} -> "union"
             [] OTHER -> archive[a].made

Sets == INSTANCE MessageSets WITH
    Identity <- Identities(Msg),
    Wanted   <- Identities(Msg) \ Identities(Msg \ (Dated \cap InGroup)),
    Unwanted <- Identities(Msg) \ Identities(Dated \cap InGroup),
    fetched  <- Identities(Downloaded),
    held     <- [a \in DOMAIN archive |->
                    [kind |-> Kind(a), from |-> archive[a].from, has |-> Holds(a)]]
ImplementsSets == Sets!Spec
=============================================================================
