SPECIFICATION FairSpec
CONSTANTS
    cat = cat
    fa = fa
    fb = fb
    t1 = t1
    t2 = t2
    Node = {cat, fa, fb}
    NoNode = root
    Parent <- MCParent
    Category = {cat}
    Sitemap = {cat, fa, fb}
    Thread = {t1, t2}
    NoThread = nothread
    ThreadsOf <- MCThreadsOf
    MaxPage <- MCMaxPage
    Bare = {t2}
    Untitled = {t1}
    StartCaches <- MCCaches
    MaxFlight = 2
    MaxDepth = 2
    MaxListPage = 2
    MaxKeys = 4
INVARIANTS
    TypeOK
    BusyHasLoad
    ReaderSettles
PROPERTIES
    BusyEnds
CHECK_DEADLOCK FALSE
