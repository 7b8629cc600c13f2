SPECIFICATION FairSpec
CONSTANTS
    m1 = m1
    m2 = m2
    m3 = m3
    m4 = m4
    a = a
    b = b
    Workers = 3
    PageWorkers = 2
    PageSize = 2
    Groups <- MCGroups
    MaxSpurious = 1
    MaxArticle = 3
    MaxSessions = 2
    References <- MCReferences
    Posted <- MCPosted
    Msg = {m1, m2, m3, m4}
    Size <- MCSize
    MsgId = {a, b}
    NoId = none
    IdOf <- MCIdOf
    Dated = {m1, m2, m3}
    InGroup = {m1, m4}
    OldArchives <- MCOldArchives
    Cpus = 2
    Wrap = 2
    MaxArchives = 4
INVARIANTS HandlesSuffice CrawlAccounted NothingSkipped EntriesReadBack VersionsChosen IndirectLinksRight GalaxyAnswers
PROPERTIES CrawlEnds ImplementsSets
CHECK_DEADLOCK FALSE
