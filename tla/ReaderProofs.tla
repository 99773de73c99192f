---------------------------- MODULE ReaderProofs ----------------------------
(***************************************************************************)
(* For every site, cache and order in which loads end: the status line     *)
(* announces a load only while one is under way, and the reader settles on *)
(* the posts of its thread, under its title when its pages have one.       *)
(***************************************************************************)
EXTENDS Reader, FiniteSetTheorems, SequenceTheorems, TLAPS

Place == Node \cup {NoNode}

\* What a command and a message are about exists.
CmdOK(c) ==
    /\ c.op = "children" => c.node \in Place
    /\ c.op \in {"forum", "category", "subforums"} => c.node \in Node
    /\ c.op = "threads" => c.url \in Place /\ c.forum \in Place /\ c.page \in Nat
    /\ c.op = "posts" => c.thread \in Thread
    /\ c.op = "page" => c.thread \in Thread /\ c.page \in Nat
TitleOK(t, title) == title = t \/ (title = NoThread /\ t \in Untitled)
Results == Thread \X (Thread \cup {NoThread})
MsgOK(m) ==
    /\ m.kind = "forums" /\ ~m.err => m.forums \subseteq Node /\ m.parent \in Place
    /\ m.kind = "threads" /\ ~m.err => m.threads \subseteq Thread /\ m.page \in Nat
    /\ m.kind = "posts" /\ ~m.err =>
         /\ m.thread \in Thread /\ m.pages \in SUBSET Nat /\ m.page \in Nat /\ m.count \in Nat
         /\ TitleOK(m.thread, m.title)
    /\ m.kind = "search" /\ ~m.err => m.results \subseteq Results

ReaderType == [thread : Thread \cup {NoThread}, title : Thread \cup {NoThread},
               page : Nat, max : Nat, shown : Thread \cup {NoThread}, pages : SUBSET Nat]
SearchType == [results : SUBSET Results, page : Nat]

Types ==
    /\ db \in Caches /\ view \in Views
    /\ stack \in Seq(Node) /\ pane \subseteq Node /\ list \subseteq Thread /\ listPage \in Nat
    /\ reader \in ReaderType /\ search \in SearchType
    /\ prompt \in {"none", "remote", "local"} /\ status \in {"idle", "busy", "error"}

\* The reader is open on a thread.
Reading == view = "reader" => reader.thread \in Thread

\* What is under way is typed, and within the bound.
UnderWay ==
    /\ \A c \in flight : CmdOK(c)
    /\ \A m \in inbox : MsgOK(m)
    /\ IsFiniteSet(flight) /\ IsFiniteSet(inbox)
    /\ Cardinality(flight) + Cardinality(inbox) <= MaxFlight

\* The inductive invariant.
IInv == Types /\ Reading /\ UnderWay /\ BusyHasLoad /\ ReaderSettles

-----------------------------------------------------------------------------
(* Commands end.                                                           *)

\* A command that ends leaves a message of its kind.
LEMMA EndsKeep ==
    ASSUME IInv, NEW c \in flight, NEW d \in Caches, NEW msg, MsgOK(msg), Ends(c, d, msg),
           c.op # "dashboard" => msg.kind # "dashboard",
           c.op \in {"posts", "page"} => msg.kind = "posts"
    PROVE  IInv'
<1>0. /\ flight' = flight \ {c} /\ inbox' = inbox \cup {msg} /\ db' = d
      /\ UNCHANGED <<view, nav, reader, search, overlays, status, lost>>
  BY DEF Ends
<1> USE DEF IInv
<1>1. Types' /\ Reading'
  BY <1>0 DEF Types, Reading, nav, overlays
<1>2. UnderWay'
  <2>1. IsFiniteSet(flight \ {c}) /\ Cardinality(flight \ {c}) = Cardinality(flight) - 1
    BY FS_RemoveElement DEF UnderWay
  <2>2. /\ IsFiniteSet(inbox \cup {msg})
        /\ \/ Cardinality(inbox \cup {msg}) = Cardinality(inbox)
           \/ Cardinality(inbox \cup {msg}) = Cardinality(inbox) + 1
    BY FS_AddElement DEF UnderWay
  <2>3. Cardinality(flight) \in Nat /\ Cardinality(inbox) \in Nat /\ MaxFlight \in Nat
    BY FS_CardinalityType, ReaderAssumption DEF UnderWay
  <2>4. Cardinality(flight \ {c}) + Cardinality(inbox \cup {msg}) <= MaxFlight
    BY <2>1, <2>2, <2>3 DEF UnderWay
  <2>5. \A x \in flight \ {c} : CmdOK(x)
    BY DEF UnderWay
  <2>6. \A m \in inbox \cup {msg} : MsgOK(m)
    BY DEF UnderWay
  <2> QED BY <1>0, <2>1, <2>2, <2>4, <2>5, <2>6 DEF UnderWay
<1>3. BusyHasLoad'
  BY <1>0 DEF BusyHasLoad, DataLoads, DataMsgs
<1>4. PostsUnderWay => PostsUnderWay'
  BY <1>0 DEF PostsUnderWay
<1>5. ReaderSettles'
  BY <1>0, <1>4 DEF ReaderSettles
<1> QED BY <1>1, <1>2, <1>3, <1>5

\* What the cache holds has its type, whatever is saved in it.
LEMMA CacheType ==
    ASSUME NEW d \in Caches
    PROVE  /\ \A n : CachedChildren(d, n) \subseteq Node
           /\ \A nodes \in SUBSET Node : /\ SaveForums(d, nodes) \in Caches
                                         /\ ReplaceForumSnapshot(d, nodes) \in Caches
           /\ \A threads \in SUBSET Thread : SaveThreads(d, threads) \in Caches
           /\ \A t \in Thread : \A p \in 1..MaxPage[t] : SavePage(d, t, p) \in Caches
<1>1. \A n : CachedChildren(d, n) \subseteq Node
  BY DEF CachedChildren, Children
<1>2. ASSUME NEW nodes \in SUBSET Node
      PROVE  SaveForums(d, nodes) \in Caches /\ ReplaceForumSnapshot(d, nodes) \in Caches
  <2> DEFINE f == d.forums \cup nodes
  <2>1. f \in SUBSET Node /\ SaveForums(d, nodes) = [d EXCEPT !.forums = f]
    BY DEF Caches, SaveForums
  <2> HIDE DEF f
  <2>2. SaveForums(d, nodes) \in Caches
    BY <2>1 DEF Caches
  <2>3. ReplaceForumSnapshot(d, nodes) \in Caches
    BY DEF ReplaceForumSnapshot, Caches
  <2> QED BY <2>2, <2>3
<1>3. ASSUME NEW threads \in SUBSET Thread PROVE SaveThreads(d, threads) \in Caches
  <2> DEFINE titled == d.titled \cup threads
  <2>1. titled \in SUBSET Thread /\ SaveThreads(d, threads) = [d EXCEPT !.titled = titled]
    BY DEF Caches, SaveThreads
  <2> HIDE DEF titled
  <2> QED BY <2>1 DEF Caches
<1>4. ASSUME NEW t \in Thread, NEW p \in 1..MaxPage[t] PROVE SavePage(d, t, p) \in Caches
  <2> DEFINE s == d.pages \cup {<<t, p>>}
             titled == d.titled \cup ({t} \ Untitled)
  <2>1. d.pages \subseteq Pages /\ d.titled \subseteq Thread /\ MaxPage[t] \in Nat
    BY ReaderAssumption DEF Caches
  <2>2. <<t, p>> \in Thread \X (Nat \ {0}) /\ p <= MaxPage[t]
    BY <2>1
  <2>3. <<t, p>> \in Pages
    BY <2>2 DEF Pages
  <2>4. s \in SUBSET Pages /\ titled \in SUBSET Thread
    BY <2>1, <2>3
  <2>5. SavePage(d, t, p) = [d EXCEPT !.pages = s, !.titled = titled]
    BY DEF SavePage
  <2> HIDE DEF s, titled
  <2> QED BY <2>4, <2>5 DEF Caches
<1> QED BY <1>1, <1>2, <1>3, <1>4

\* The number of pages of a thread, and the page that the site answers with.
LEMMA PageType ==
    ASSUME NEW t \in Thread
    PROVE  /\ MaxPage[t] \in Nat \ {0}
           /\ \A p \in Nat : SitePage(t, p) \in 1..MaxPage[t]
<1>1. MaxPage[t] \in Nat \ {0}
  BY ReaderAssumption
<1> QED BY <1>1 DEF SitePage

\* Messages are about what exists.
LEMMA MsgType ==
    /\ \A kind : MsgOK(ErrMsg(kind))
    /\ \A nodes \in SUBSET Node, refresh \in BOOLEAN, parent \in Place :
         MsgOK(ForumsMsg(nodes, refresh, parent))
    /\ \A threads \in SUBSET Thread, page \in Nat : MsgOK(ThreadsMsg(threads, page))
    /\ \A t \in Thread, p \in Nat, page \in Nat, count \in Nat : \A title :
         TitleOK(t, title) => MsgOK(PostsMsg(t, title, p, page, count))
    /\ \A results \in SUBSET Results : MsgOK(Found(results))
  BY DEF MsgOK, ErrMsg, ForumsMsg, ThreadsMsg, PostsMsg, Found

\* Loads of forums and of categories.
LEMMA ForumLoadsKeep ==
    ASSUME IInv,
           LoadRoot \/ LoadChildren \/ LoadForumChildren \/ RefreshNavigation
             \/ RefreshCategoryNavigation \/ RefreshForumNavigation
    PROVE  IInv'
<1>0. /\ db \in Caches /\ Sitemap \in SUBSET Node /\ NoNode \in Place
      /\ \A c \in flight : CmdOK(c)
      /\ \A n \in Node : ThreadsOf[n] \in SUBSET Thread /\ n \in Place
  BY ReaderAssumption DEF IInv, Types, UnderWay, Place
<1>1. \A d \in Caches : \A n : CachedChildren(d, n) \in SUBSET Node
  BY CacheType
<1>2. ReplaceForumSnapshot(db, Sitemap) \in Caches
  BY <1>0, CacheType
<1>a. ASSUME NEW c \in flight, NEW d \in Caches, NEW nodes \in SUBSET Node,
             NEW refresh \in BOOLEAN, NEW parent \in Place, c.op \notin {"posts", "page"},
             Ends(c, d, ForumsMsg(nodes, refresh, parent))
      PROVE  IInv'
  <2>1. ForumsMsg(nodes, refresh, parent).kind = "forums"
    BY DEF ForumsMsg
  <2>2. MsgOK(ForumsMsg(nodes, refresh, parent))
    BY MsgType
  <2> QED BY <1>a, <2>1, <2>2, EndsKeep
<1>b. ASSUME NEW c \in flight, NEW d \in Caches, NEW threads \in SUBSET Thread,
             c.op \notin {"posts", "page"}, Ends(c, d, ThreadsMsg(threads, 0))
      PROVE  IInv'
  <2>1. ThreadsMsg(threads, 0).kind = "threads"
    BY DEF ThreadsMsg
  <2>2. MsgOK(ThreadsMsg(threads, 0))
    BY MsgType
  <2> QED BY <1>b, <2>1, <2>2, EndsKeep
<1>c. ASSUME NEW c \in flight, NEW kind \in {"forums", "threads"}, c.op \notin {"posts", "page"},
             Ends(c, db, ErrMsg(kind))
      PROVE  IInv'
  <2>1. ErrMsg(kind).kind \notin {"dashboard", "posts"}
    BY DEF ErrMsg
  <2>2. MsgOK(ErrMsg(kind))
    BY MsgType
  <2> QED BY <1>0, <1>c, <2>1, <2>2, EndsKeep
<1>3. CASE LoadRoot
  BY <1>0, <1>1, <1>2, <1>3, <1>a DEF LoadRoot
<1>4. CASE LoadChildren
  BY <1>0, <1>1, <1>4, <1>a DEF LoadChildren
<1>5. CASE LoadForumChildren
  <2>1. PICK c \in flight :
        LET n == c.node
            kids == CachedChildren(db, n)
            fetched == Children(n) \ Category
        IN
        /\ c.op = "forum"
        /\ \/ \E stale \in BOOLEAN : Ends(c, db, ForumsMsg(kids, stale, n))
           \/ LET d == ReplaceForumSnapshot(db, Sitemap)
              IN  Ends(c, d, ForumsMsg(CachedChildren(d, n), FALSE, NoNode))
           \/ Ends(c, SaveForums(db, fetched), ForumsMsg(fetched, FALSE, NoNode))
           \/ Ends(c, SaveThreads(db, ThreadsOf[n]), ThreadsMsg(ThreadsOf[n], 0))
           \/ Ends(c, db, ErrMsg("threads"))
           \/ Ends(c, db, ErrMsg("forums"))
    BY <1>5 DEF LoadForumChildren
  <2> DEFINE n == c.node
             fetched == Children(n) \ Category
  <2>2. n \in Node /\ n \in Place
    BY <1>0, <2>1 DEF CmdOK
  <2>3. fetched \in SUBSET Node
    BY DEF Children
  <2>4. SaveForums(db, fetched) \in Caches /\ SaveThreads(db, ThreadsOf[n]) \in Caches
    BY <1>0, <2>2, <2>3, CacheType
  <2>5. CASE \E stale \in BOOLEAN : Ends(c, db, ForumsMsg(CachedChildren(db, n), stale, n))
    BY <1>0, <1>1, <1>a, <2>1, <2>2, <2>5
  <2>6. CASE Ends(c, ReplaceForumSnapshot(db, Sitemap),
                  ForumsMsg(CachedChildren(ReplaceForumSnapshot(db, Sitemap), n), FALSE, NoNode))
    BY <1>0, <1>1, <1>2, <1>a, <2>1, <2>6
  <2>7. CASE Ends(c, SaveForums(db, fetched), ForumsMsg(fetched, FALSE, NoNode))
    BY <1>0, <1>a, <2>1, <2>3, <2>4, <2>7
  <2>8. CASE Ends(c, SaveThreads(db, ThreadsOf[n]), ThreadsMsg(ThreadsOf[n], 0))
    BY <1>0, <1>b, <2>1, <2>2, <2>4, <2>8
  <2>9. CASE Ends(c, db, ErrMsg("threads")) \/ Ends(c, db, ErrMsg("forums"))
    BY <1>c, <2>1, <2>9
  <2> QED BY <2>1, <2>5, <2>6, <2>7, <2>8, <2>9
<1>6. CASE RefreshNavigation
  <2>1. {n \in Sitemap : Parent[n] = NoNode} \in SUBSET Node
    BY <1>0
  <2> QED BY <1>0, <1>2, <1>6, <1>a, <2>1 DEF RefreshNavigation
<1>7. CASE RefreshCategoryNavigation
  BY <1>0, <1>1, <1>2, <1>7, <1>a DEF RefreshCategoryNavigation
<1>8. CASE RefreshForumNavigation
  <2>1. PICK c \in flight :
        /\ c.op = "subforums"
        /\ \/ LET d == SaveForums(db, Children(c.node) \ Category)
              IN  Ends(c, d, ForumsMsg(CachedChildren(d, c.node), FALSE, NoNode))
           \/ Ends(c, db, ErrMsg("forums"))
    BY <1>8 DEF RefreshForumNavigation
  <2> DEFINE d == SaveForums(db, Children(c.node) \ Category)
  <2>2. Children(c.node) \ Category \in SUBSET Node
    BY DEF Children
  <2>3. d \in Caches
    BY <1>0, <2>2, CacheType
  <2>4. CASE Ends(c, d, ForumsMsg(CachedChildren(d, c.node), FALSE, NoNode))
    <3> HIDE DEF d
    <3> QED BY <1>0, <1>1, <1>a, <2>1, <2>3, <2>4
  <2>5. CASE Ends(c, db, ErrMsg("forums"))
    BY <1>c, <2>1, <2>5
  <2> QED BY <2>1, <2>4, <2>5
<1> QED BY <1>3, <1>4, <1>5, <1>6, <1>7, <1>8

\* Loads of listings, of posts and of the feeds, and searches.
LEMMA OtherLoadsKeep ==
    ASSUME IInv,
           RefreshThreads \/ LoadPosts \/ LoadThreadPage \/ RemoteSearch \/ LocalSearch
             \/ LoadCachedEvents \/ RefreshEvents \/ LoadDashboard
    PROVE  IInv'
<1>0. db \in Caches /\ \A c \in flight : CmdOK(c)
  BY DEF IInv, Types, UnderWay
<1>c. ASSUME NEW c \in flight, NEW kind \in {"threads", "posts", "search"},
             c.op \in {"posts", "page"} => kind = "posts", Ends(c, db, ErrMsg(kind))
      PROVE  IInv'
  <2>1. ErrMsg(kind).kind = kind
    BY DEF ErrMsg
  <2>2. MsgOK(ErrMsg(kind))
    BY MsgType
  <2> QED BY <1>0, <1>c, <2>1, <2>2, EndsKeep
<1>p. ASSUME NEW c \in flight, NEW d \in Caches, NEW t \in Thread, NEW title, TitleOK(t, title),
             NEW p \in Nat, NEW page \in Nat, NEW count \in Nat,
             Ends(c, d, PostsMsg(t, title, p, page, count))
      PROVE  IInv'
  <2>1. PostsMsg(t, title, p, page, count).kind = "posts"
    BY DEF PostsMsg
  <2>2. MsgOK(PostsMsg(t, title, p, page, count))
    BY <1>p, MsgType
  <2> QED BY <1>p, <2>1, <2>2, EndsKeep
<1>s. ASSUME NEW c \in flight, c.op \in {"remote", "local"}, NEW results \in SUBSET Results,
             Ends(c, db, Found(results))
      PROVE  IInv'
  <2>1. Found(results).kind = "search"
    BY DEF Found
  <2>2. MsgOK(Found(results))
    BY MsgType
  <2> QED BY <1>0, <1>s, <2>1, <2>2, EndsKeep
<1>1. CASE RefreshThreads
  <2>1. PICK c \in flight :
        LET found == IF c.page = 1 /\ c.url # NoNode THEN ThreadsOf[c.url] ELSE {}
        IN
        /\ c.op = "threads"
        /\ \/ Ends(c, SaveThreads(db, found), ThreadsMsg(found, c.page))
           \/ Ends(c, db, ErrMsg("threads"))
    BY <1>1 DEF RefreshThreads
  <2> DEFINE found == IF c.page = 1 /\ c.url # NoNode THEN ThreadsOf[c.url] ELSE {}
  <2>2. c.url \in Place /\ c.page \in Nat
    BY <1>0, <2>1 DEF CmdOK
  <2>3. found \in SUBSET Thread
    BY <2>2, ReaderAssumption DEF Place
  <2>4. \/ Ends(c, SaveThreads(db, found), ThreadsMsg(found, c.page))
        \/ Ends(c, db, ErrMsg("threads"))
    BY <2>1
  <2> HIDE DEF found
  <2>5. CASE Ends(c, SaveThreads(db, found), ThreadsMsg(found, c.page))
    <3>1. SaveThreads(db, found) \in Caches
      BY <1>0, <2>3, CacheType
    <3>2. ThreadsMsg(found, c.page).kind = "threads"
      BY DEF ThreadsMsg
    <3>3. MsgOK(ThreadsMsg(found, c.page))
      BY <2>2, <2>3, MsgType
    <3> QED BY <2>1, <2>5, <3>1, <3>2, <3>3, EndsKeep
  <2>6. CASE Ends(c, db, ErrMsg("threads"))
    BY <1>c, <2>1, <2>6
  <2> QED BY <2>4, <2>5, <2>6
<1>2. CASE LoadPosts
  <2>1. PICK c \in flight :
        LET t == c.thread
            title == IF t \in Untitled \ db.titled THEN NoThread ELSE t
        IN
        /\ c.op = "posts"
        /\ \/ Ends(c, SavePage(db, t, 1), PostsMsg(t, title, 1, 1, MaxPage[t]))
           \/ Ends(c, db, ErrMsg("posts"))
    BY <1>2 DEF LoadPosts
  <2> DEFINE t == c.thread
             title == IF t \in Untitled \ db.titled THEN NoThread ELSE t
  <2>2. t \in Thread
    BY <1>0, <2>1 DEF CmdOK
  <2>3. 1 \in 1..MaxPage[t] /\ MaxPage[t] \in Nat /\ TitleOK(t, title)
    BY <2>2, PageType DEF TitleOK
  <2>4. SavePage(db, t, 1) \in Caches
    BY <1>0, <2>2, <2>3, CacheType
  <2>5. \/ Ends(c, SavePage(db, t, 1), PostsMsg(t, title, 1, 1, MaxPage[t]))
        \/ Ends(c, db, ErrMsg("posts"))
    BY <2>1
  <2> HIDE DEF title
  <2>6. CASE Ends(c, SavePage(db, t, 1), PostsMsg(t, title, 1, 1, MaxPage[t]))
    BY <1>p, <2>2, <2>3, <2>4, <2>6
  <2>7. CASE Ends(c, db, ErrMsg("posts"))
    BY <1>c, <2>7
  <2> QED BY <2>5, <2>6, <2>7
<1>3. CASE LoadThreadPage
  <2>1. PICK c \in flight :
        LET t == c.thread
            p == SitePage(t, c.page)
            title == IF t \in Untitled THEN NoThread ELSE t
            count == IF c.page > MaxPage[t] THEN c.page ELSE MaxPage[t]
        IN
        /\ c.op = "page"
        /\ \/ Ends(c, SavePage(db, t, p), PostsMsg(t, title, p, c.page, count))
           \/ Ends(c, db, ErrMsg("posts"))
    BY <1>3 DEF LoadThreadPage
  <2> DEFINE t == c.thread
             p == SitePage(t, c.page)
             title == IF t \in Untitled THEN NoThread ELSE t
             count == IF c.page > MaxPage[t] THEN c.page ELSE MaxPage[t]
  <2>2. t \in Thread /\ c.page \in Nat
    BY <1>0, <2>1 DEF CmdOK
  <2>3. p \in 1..MaxPage[t] /\ p \in Nat /\ count \in Nat /\ TitleOK(t, title)
    BY <2>2, PageType DEF TitleOK
  <2>4. SavePage(db, t, p) \in Caches
    BY <1>0, <2>2, <2>3, CacheType
  <2>5. \/ Ends(c, SavePage(db, t, p), PostsMsg(t, title, p, c.page, count))
        \/ Ends(c, db, ErrMsg("posts"))
    BY <2>1
  <2> HIDE DEF p, title, count
  <2>6. CASE Ends(c, SavePage(db, t, p), PostsMsg(t, title, p, c.page, count))
    BY <1>p, <2>2, <2>3, <2>4, <2>6
  <2>7. CASE Ends(c, db, ErrMsg("posts"))
    BY <1>c, <2>7
  <2> QED BY <2>5, <2>6, <2>7
<1>4. CASE RemoteSearch
  <2> DEFINE all == {<<t, t>> : t \in Thread}
  <2>1. PICK c \in flight : c.op = "remote" /\ (\/ \E found \in {all, {}} : Ends(c, db, Found(found))
                                                \/ Ends(c, db, ErrMsg("search")))
    BY <1>4 DEF RemoteSearch
  <2>2. all \in SUBSET Results /\ {} \in SUBSET Results
    BY DEF Results
  <2> HIDE DEF all
  <2> QED BY <1>c, <1>s, <2>1, <2>2
<1>5. CASE LocalSearch
  <2> DEFINE hits == {<<x[1], NoThread>> : x \in db.pages}
  <2>1. PICK c \in flight : c.op = "local" /\ (\/ \E found \in {hits, {}} : Ends(c, db, Found(found))
                                               \/ Ends(c, db, ErrMsg("search")))
    BY <1>5 DEF LocalSearch
  <2>2. hits \in SUBSET Results /\ {} \in SUBSET Results
    BY <1>0 DEF Caches, Pages, Results
  <2> HIDE DEF hits
  <2> QED BY <1>c, <1>s, <2>1, <2>2
<1>6. CASE LoadCachedEvents \/ RefreshEvents
  <2>1. PICK c \in flight, failed \in BOOLEAN, again \in BOOLEAN :
          c.op \in {"events", "refreshevents"}
          /\ Ends(c, db, [kind |-> "events", err |-> failed, refresh |-> again])
    BY <1>6 DEF LoadCachedEvents, RefreshEvents
  <2> DEFINE m == [kind |-> "events", err |-> failed, refresh |-> again]
  <2>2. MsgOK(m) /\ m.kind = "events"
    BY DEF MsgOK
  <2> HIDE DEF m
  <2>3. Ends(c, db, m)
    BY <2>1 DEF m
  <2> QED BY <1>0, <2>1, <2>2, <2>3, EndsKeep
<1>7. CASE LoadDashboard
  <2>1. PICK c \in flight, failed \in BOOLEAN :
          c.op = "dashboard" /\ Ends(c, db, [kind |-> "dashboard", err |-> failed])
    BY <1>7 DEF LoadDashboard
  <2> DEFINE m == [kind |-> "dashboard", err |-> failed]
  <2>2. MsgOK(m)
    BY DEF MsgOK
  <2> HIDE DEF m
  <2>3. Ends(c, db, m)
    BY <2>1 DEF m
  <2> QED BY <1>0, <2>1, <2>2, <2>3, EndsKeep
<1> QED BY <1>1, <1>2, <1>3, <1>4, <1>5, <1>6, <1>7

-----------------------------------------------------------------------------
(* Messages are applied.                                                   *)

\* A message that is taken starts one command at most.
LEMMA TakesKeep ==
    ASSUME IInv, NEW m \in inbox, NEW k, CmdOK(k), NEW started \in {{}, {k}}, Takes(m, started)
    PROVE  UnderWay' /\ UNCHANGED <<db, overlays>> /\ inbox' = inbox \ {m}
           /\ flight' = flight \cup started
<1>0. inbox' = inbox \ {m} /\ flight' = flight \cup started /\ UNCHANGED <<db, overlays>>
  BY DEF Takes
<1> USE DEF IInv, UnderWay
<1>1. IsFiniteSet(inbox \ {m}) /\ Cardinality(inbox \ {m}) = Cardinality(inbox) - 1
  BY FS_RemoveElement
<1>2. /\ IsFiniteSet(flight \cup {k})
      /\ \/ Cardinality(flight \cup {k}) = Cardinality(flight)
         \/ Cardinality(flight \cup {k}) = Cardinality(flight) + 1
  BY FS_AddElement
<1>3. flight \cup {} = flight
  OBVIOUS
<1>4. /\ IsFiniteSet(flight')
      /\ Cardinality(flight') \in {Cardinality(flight), Cardinality(flight) + 1}
  BY <1>0, <1>2, <1>3
<1>5. Cardinality(flight) \in Nat /\ Cardinality(inbox) \in Nat /\ MaxFlight \in Nat
  BY FS_CardinalityType, ReaderAssumption
<1>6. Cardinality(flight') + Cardinality(inbox \ {m}) <= MaxFlight
  BY <1>1, <1>4, <1>5
<1>7. (\A c \in flight' : CmdOK(c)) /\ \A x \in inbox \ {m} : MsgOK(x)
  BY <1>0
<1> QED BY <1>0, <1>1, <1>4, <1>6, <1>7

\* Every message that is applied.
LEMMA ApplyKeeps ==
    ASSUME IInv, Apply
    PROVE  IInv'
<1> USE DEF IInv
<1>0. CmdOK([op |-> "navigation"]) /\ CmdOK([op |-> "refreshevents"])
  BY DEF CmdOK
<1>t. \A m \in inbox : MsgOK(m)
  BY DEF UnderWay
<1>1. CASE ApplyError
  <2>1. PICK m \in inbox :
          /\ Takes(m, {}) /\ status' = "error" /\ lost' = (lost \/ m.kind = "posts")
          /\ UNCHANGED <<view, nav, reader, search>>
    BY <1>1 DEF ApplyError
  <2>2. UnderWay' /\ UNCHANGED <<db, overlays>> /\ inbox' = inbox \ {m} /\ flight' = flight
    BY <1>0, <2>1, TakesKeep
  <2>3. Types' /\ Reading'
    BY <2>1, <2>2 DEF Types, Reading, nav, overlays
  <2>4. BusyHasLoad'
    BY <2>1 DEF BusyHasLoad
  <2>5. ~lost' => ~lost /\ (PostsUnderWay => PostsUnderWay')
    BY <2>1, <2>2 DEF PostsUnderWay
  <2>6. ReaderSettles'
    BY <2>1, <2>5 DEF ReaderSettles
  <2> QED BY <2>2, <2>3, <2>4, <2>6
<1>2. CASE ApplyForums
  <2>1. PICK m \in inbox :
          /\ m.kind = "forums" /\ ~m.err
          /\ pane' = m.forums /\ view' = "forums"
          /\ status' = IF m.refresh THEN "busy" ELSE "idle"
          /\ Takes(m, IF ~m.refresh THEN {}
                      ELSE IF m.parent = NoNode THEN {[op |-> "navigation"]}
                      ELSE {[op |-> "subforums", node |-> m.parent]})
          /\ UNCHANGED <<stack, list, listPage, reader, search, lost>>
    BY <1>2 DEF ApplyForums
  <2> DEFINE k == IF m.parent = NoNode THEN [op |-> "navigation"]
                  ELSE [op |-> "subforums", node |-> m.parent]
  <2>2. m.forums \subseteq Node /\ m.parent \in Place
    BY <1>t, <2>1 DEF MsgOK
  <2>3. CmdOK(k) /\ k.op # "dashboard"
    BY <1>0, <2>2 DEF CmdOK, Place
  <2>4. Takes(m, IF m.refresh THEN {k} ELSE {})
    BY <2>1
  <2> HIDE DEF k
  <2>5. UnderWay' /\ UNCHANGED <<db, overlays>> /\ (m.refresh => k \in flight')
    BY <2>3, <2>4, TakesKeep
  <2>6. Types' /\ Reading'
    BY <2>1, <2>2, <2>5 DEF Types, Reading, overlays, Views
  <2>7. BusyHasLoad'
    BY <2>1, <2>3, <2>5 DEF BusyHasLoad, DataLoads
  <2>8. ReaderSettles'
    BY <2>1 DEF ReaderSettles
  <2> QED BY <2>5, <2>6, <2>7, <2>8
<1>3. CASE ApplyThreads
  <2>1. PICK m \in inbox :
          /\ m.kind = "threads" /\ ~m.err
          /\ list' = m.threads /\ view' = "threads" /\ status' = "idle"
          /\ listPage' = IF m.page > 0 THEN m.page ELSE listPage
          /\ Takes(m, {})
          /\ UNCHANGED <<stack, pane, reader, search, lost>>
    BY <1>3 DEF ApplyThreads
  <2>2. m.threads \subseteq Thread /\ m.page \in Nat
    BY <1>t, <2>1 DEF MsgOK
  <2>3. listPage' \in Nat
    BY <2>1, <2>2 DEF Types
  <2>4. UnderWay' /\ UNCHANGED <<db, overlays>>
    BY <1>0, <2>1, TakesKeep
  <2>5. Types' /\ Reading'
    BY <2>1, <2>2, <2>3, <2>4 DEF Types, Reading, overlays, Views
  <2>6. BusyHasLoad' /\ ReaderSettles'
    BY <2>1 DEF BusyHasLoad, ReaderSettles
  <2> QED BY <2>4, <2>5, <2>6
<1>4. CASE ApplyPosts
  <2>1. PICK m \in inbox :
          /\ m.kind = "posts" /\ ~m.err
          /\ view' = "reader" /\ status' = "idle"
          /\ reader' = [thread |-> m.thread, shown |-> m.thread, pages |-> m.pages,
                        title |-> IF m.title # NoThread THEN m.title ELSE reader.title,
                        page |-> IF m.page > 0 THEN m.page ELSE reader.page,
                        max |-> IF m.count > 0 THEN m.count ELSE reader.max]
          /\ Takes(m, {})
          /\ UNCHANGED <<nav, search, lost>>
    BY <1>4 DEF ApplyPosts
  <2> DEFINE title == IF m.title # NoThread THEN m.title ELSE reader.title
             p == IF m.page > 0 THEN m.page ELSE reader.page
             n == IF m.count > 0 THEN m.count ELSE reader.max
  <2>2. /\ m.thread \in Thread /\ m.pages \in SUBSET Nat /\ m.page \in Nat /\ m.count \in Nat
        /\ TitleOK(m.thread, m.title)
    BY <1>t, <2>1 DEF MsgOK
  <2>3. /\ title \in Thread \cup {NoThread}
        /\ m.thread \notin Untitled => title = m.thread
    BY <2>2, ReaderAssumption DEF TitleOK, Types, ReaderType
  <2>4. p \in Nat /\ n \in Nat
    BY <2>2 DEF Types, ReaderType
  <2>5. reader' = [thread |-> m.thread, shown |-> m.thread, pages |-> m.pages,
                   title |-> title, page |-> p, max |-> n]
    BY <2>1
  <2> HIDE DEF title, p, n
  <2>6. UnderWay' /\ UNCHANGED <<db, overlays>>
    BY <1>0, <2>1, TakesKeep
  <2>7. /\ reader' \in ReaderType /\ reader'.thread = m.thread /\ reader'.shown = m.thread
        /\ reader'.title = title
    BY <2>2, <2>3, <2>4, <2>5 DEF ReaderType
  <2>8. Types' /\ Reading'
    BY <2>1, <2>2, <2>6, <2>7 DEF Types, Reading, overlays, nav, Views
  <2>9. BusyHasLoad' /\ ReaderSettles'
    BY <2>1, <2>3, <2>7 DEF BusyHasLoad, ReaderSettles
  <2> QED BY <2>6, <2>8, <2>9
<1>5. CASE ApplySearch
  <2>1. PICK m \in inbox :
          /\ m.kind = "search" /\ ~m.err
          /\ search' = [search EXCEPT !.results = m.results]
          /\ view' = "search" /\ status' = "idle"
          /\ Takes(m, {})
          /\ UNCHANGED <<nav, reader, lost>>
    BY <1>5 DEF ApplySearch
  <2>2. m.results \subseteq Results
    BY <1>t, <2>1 DEF MsgOK
  <2>3. UnderWay' /\ UNCHANGED <<db, overlays>>
    BY <1>0, <2>1, TakesKeep
  <2>4. search' \in SearchType
    BY <2>1, <2>2 DEF Types, SearchType
  <2>5. Types' /\ Reading'
    BY <2>1, <2>3, <2>4 DEF Types, Reading, overlays, nav, Views
  <2>6. BusyHasLoad' /\ ReaderSettles'
    BY <2>1 DEF BusyHasLoad, ReaderSettles
  <2> QED BY <2>3, <2>5, <2>6
<1>6. CASE ApplyFeeds
  <2>1. PICK m \in inbox :
          /\ m.kind \in {"events", "dashboard"} /\ ~m.err
          /\ status' = IF m.kind = "events" THEN "idle" ELSE status
          /\ Takes(m, IF m.kind = "events" /\ m.refresh THEN {[op |-> "refreshevents"]} ELSE {})
          /\ UNCHANGED <<view, nav, reader, search, lost>>
    BY <1>6 DEF ApplyFeeds
  <2>2. /\ UnderWay' /\ UNCHANGED <<db, overlays>> /\ inbox' = inbox \ {m}
        /\ flight \subseteq flight'
    BY <1>0, <2>1, TakesKeep
  <2>3. Types' /\ Reading'
    BY <2>1, <2>2 DEF Types, Reading, overlays, nav
  <2>4. BusyHasLoad'
    BY <2>1, <2>2 DEF BusyHasLoad, DataLoads, DataMsgs
  <2>5. PostsUnderWay => PostsUnderWay'
    BY <2>1, <2>2 DEF PostsUnderWay
  <2>6. ReaderSettles'
    BY <2>1, <2>5 DEF ReaderSettles
  <2> QED BY <2>2, <2>3, <2>4, <2>6
<1> QED BY <1>1, <1>2, <1>3, <1>4, <1>5, <1>6 DEF Apply

-----------------------------------------------------------------------------
(* Keys.                                                                   *)

\* A key that starts commands: what is under way only grows.
LEMMA StartsKeep ==
    ASSUME IInv, NEW cmds, IsFiniteSet(cmds), \A k \in cmds : CmdOK(k), Starts(cmds)
    PROVE  /\ UnderWay' /\ UNCHANGED <<db, inbox, lost>>
           /\ status' # "busy" \/ status' = status \/ (\E k \in cmds : k.op # "dashboard")
                => BusyHasLoad'
           /\ \/ UNCHANGED reader /\ (view' # "reader" \/ view' = view)
              \/ \E k \in cmds : k.op \in {"posts", "page"}
              => ReaderSettles'
<1>0. /\ flight' = flight \cup cmds /\ UNCHANGED <<db, inbox, lost>>
      /\ Cardinality(flight \cup cmds) + Cardinality(inbox) <= MaxFlight
  BY DEF Starts
<1> USE DEF IInv
<1>1. UnderWay'
  BY <1>0, FS_Union DEF UnderWay
<1>2. status' # "busy" \/ status' = status \/ (\E k \in cmds : k.op # "dashboard") => BusyHasLoad'
  BY <1>0 DEF BusyHasLoad, DataLoads, DataMsgs
<1>3. PostsUnderWay => PostsUnderWay'
  BY <1>0 DEF PostsUnderWay
<1>4. UNCHANGED reader /\ (view' # "reader" \/ view' = view) => ReaderSettles'
  BY <1>0, <1>3 DEF ReaderSettles
<1>5. (\E k \in cmds : k.op \in {"posts", "page"}) => ReaderSettles'
  BY <1>0 DEF ReaderSettles, PostsUnderWay
<1> QED BY <1>0, <1>1, <1>2, <1>4, <1>5

\* The forum on top of the stack.
LEMMA TopType ==
    ASSUME NEW s \in Seq(Node)
    PROVE  s # <<>> => s[Len(s)] \in Node
<1>1. s # <<>> => Len(s) \in 1..Len(s)
  BY EmptySeq, LenProperties
<1> QED BY <1>1, ElementOfSeq

\* Keys that only change the view.
LEMMA ViewKeysKeep ==
    ASSUME IInv, Home \/ Forums \/ Events \/ Mesh \/ Saved, prompt' \in {"none", "remote", "local"}
    PROVE  IInv'
<1> USE DEF IInv
<1>1. PICK k : /\ k.op \in {"dashboard", "root", "events"} /\ CmdOK(k)
               /\ Starts({}) \/ Starts({k})
  <2>1. CmdOK([op |-> "dashboard"]) /\ CmdOK([op |-> "root"]) /\ CmdOK([op |-> "events"])
    BY DEF CmdOK
  <2> QED BY <2>1 DEF Home, Forums, Events, Mesh, Saved
<1>2. IsFiniteSet({}) /\ IsFiniteSet({k})
  BY FS_EmptySet, FS_Singleton
<1>3. /\ view' \in {"overview", "forums", "events", "mesh"} /\ stack' \in {stack, <<>>}
      /\ UNCHANGED <<pane, list, listPage, reader, search>> /\ status' \in {status, "idle"}
  BY DEF Home, Forums, Events, Mesh, Saved, nav
<1>4. UnderWay' /\ UNCHANGED db /\ BusyHasLoad' /\ ReaderSettles'
  BY <1>1, <1>2, <1>3, StartsKeep
<1>5. stack' \in Seq(Node) /\ view' \in Views /\ status' \in {"idle", "busy", "error"}
  <2>1. <<>> \in Seq(Node) /\ stack \in Seq(Node)
    BY DEF Types
  <2>2. stack' \in Seq(Node)
    BY <1>3, <2>1
  <2>3. view' \in Views /\ status' \in {"idle", "busy", "error"}
    BY <1>3 DEF Types, Views
  <2> QED BY <2>2, <2>3
<1>6. Types' /\ Reading'
  BY <1>3, <1>4, <1>5 DEF Types, Reading
<1> QED BY <1>4, <1>6

\* Back to the forum above, or to the overview.
LEMMA BackKeeps ==
    ASSUME IInv, Back, UNCHANGED overlays
    PROVE  IInv'
<1> USE DEF IInv
<1>0. stack \in Seq(Node)
  BY DEF Types
<1>1. CASE stack # <<>>
  <2> DEFINE s == SubSeq(stack, 1, Len(stack) - 1)
             n == IF s = <<>> THEN NoNode ELSE s[Len(s)]
             k == [op |-> "children", node |-> n]
  <2>1. /\ stack' = s /\ Starts({k})
        /\ UNCHANGED <<view, pane, list, listPage, reader, search, status>>
    BY <1>1 DEF Back
  <2>2. s \in Seq(Node)
    BY <1>0, <1>1, EmptySeq, LenProperties, SubSeqProperties
  <2>3. CmdOK(k)
    <3> HIDE DEF s
    <3> QED BY <2>2, TopType DEF CmdOK, Place
  <2> HIDE DEF k, s
  <2>4. IsFiniteSet({k})
    BY FS_Singleton
  <2>5. UnderWay' /\ UNCHANGED db /\ BusyHasLoad' /\ ReaderSettles'
    BY <2>1, <2>3, <2>4, StartsKeep
  <2>6. Types' /\ Reading'
    BY <2>1, <2>2, <2>5 DEF Types, Reading, overlays
  <2> QED BY <2>5, <2>6
<1>2. CASE stack = <<>>
  <2> DEFINE k == [op |-> "dashboard"]
  <2>1. /\ view' = "overview" /\ Starts({k}) /\ UNCHANGED <<nav, reader, search, status>>
    BY <1>2 DEF Back
  <2>2. CmdOK(k)
    BY DEF CmdOK
  <2> HIDE DEF k
  <2>3. IsFiniteSet({k})
    BY FS_Singleton
  <2>4. UnderWay' /\ UNCHANGED db /\ BusyHasLoad' /\ ReaderSettles'
    BY <2>1, <2>2, <2>3, StartsKeep
  <2>5. Types' /\ Reading'
    BY <2>1, <2>4 DEF Types, Reading, overlays, nav, Views
  <2> QED BY <2>4, <2>5
<1> QED BY <1>1, <1>2

\* A row is opened.
LEMMA OpenKeeps ==
    ASSUME IInv, OpenForum \/ OpenThread \/ OpenResult, UNCHANGED overlays
    PROVE  IInv'
<1> USE DEF IInv
<1>1. CASE OpenForum
  <2>1. PICK n \in pane :
          /\ stack' = Append(stack, n) /\ listPage' = 1 /\ status' = "busy"
          /\ Starts({[op |-> "forum", node |-> n]})
          /\ UNCHANGED <<view, pane, list, reader, search>>
    BY <1>1 DEF OpenForum
  <2> DEFINE k == [op |-> "forum", node |-> n]
  <2>2. n \in Node /\ stack' \in Seq(Node)
    BY <2>1, AppendProperties DEF Types
  <2>3. CmdOK(k) /\ k.op = "forum" /\ Starts({k})
    BY <2>1, <2>2 DEF CmdOK
  <2> HIDE DEF k
  <2>4. IsFiniteSet({k})
    BY FS_Singleton
  <2>5. UnderWay' /\ UNCHANGED db /\ BusyHasLoad' /\ ReaderSettles'
    BY <2>1, <2>3, <2>4, StartsKeep
  <2>6. Types' /\ Reading'
    BY <2>1, <2>2, <2>5 DEF Types, Reading, overlays
  <2> QED BY <2>5, <2>6
<1>a. ASSUME NEW t \in Thread, Starts({[op |-> "posts", thread |-> t]}), view' = "reader",
             reader' \in ReaderType, reader'.thread = t, status' \in {status, "busy"},
             UNCHANGED <<nav, search>>
      PROVE  IInv'
  <2> DEFINE k == [op |-> "posts", thread |-> t]
  <2>1. CmdOK(k) /\ k.op = "posts" /\ Starts({k})
    BY <1>a DEF CmdOK
  <2> HIDE DEF k
  <2>2. IsFiniteSet({k})
    BY FS_Singleton
  <2>3. UnderWay' /\ UNCHANGED db /\ BusyHasLoad' /\ ReaderSettles'
    BY <2>1, <2>2, StartsKeep
  <2>4. Types' /\ Reading'
    BY <1>a, <2>3 DEF Types, Reading, overlays, nav, Views
  <2> QED BY <2>3, <2>4
<1>2. CASE OpenThread
  <2>1. PICK t \in list, n \in {0} \cup {MaxPage[x] : x \in Thread} :
          /\ view' = "reader"
          /\ reader' = [reader EXCEPT !.thread = t, !.title = t, !.page = 1, !.max = n]
          /\ Starts({[op |-> "posts", thread |-> t]})
          /\ UNCHANGED <<nav, search, status>>
    BY <1>2 DEF OpenThread
  <2>2. t \in Thread /\ n \in Nat /\ reader \in ReaderType
    BY ReaderAssumption DEF Types
  <2>3. reader' \in ReaderType /\ reader'.thread = t
    BY <2>1, <2>2 DEF ReaderType
  <2> QED BY <1>a, <2>1, <2>2, <2>3
<1>3. CASE OpenResult
  <2>1. PICK r \in search.results :
          /\ view' = "reader" /\ status' = "busy"
          /\ reader' = [reader EXCEPT !.thread = r[1], !.title = r[2]]
          /\ Starts({[op |-> "posts", thread |-> r[1]]})
          /\ UNCHANGED <<nav, search>>
    BY <1>3 DEF OpenResult
  <2>2. r[1] \in Thread /\ r[2] \in Thread \cup {NoThread} /\ reader \in ReaderType
    BY DEF Types, SearchType, Results
  <2>3. reader' \in ReaderType /\ reader'.thread = r[1]
    BY <2>1, <2>2 DEF ReaderType
  <2> QED BY <1>a, <2>1, <2>2, <2>3
<1> QED BY <1>1, <1>2, <1>3

\* A listing and a page of the thread that is open.
LEMMA LoadsType ==
    ASSUME IInv, NEW p \in Nat
    PROVE  /\ ActiveForum \in Place /\ (stack # <<>> => ActiveForum \in Node)
           /\ CmdOK(ListingOf(p)) /\ ListingOf(p).op = "threads"
           /\ view = "reader" => CmdOK(ReaderPageOf(p)) /\ ReaderPageOf(p).op = "page"
<1>1. ActiveForum \in Place /\ (stack # <<>> => ActiveForum \in Node)
  BY TopType DEF IInv, Types, ActiveForum, Place
<1>2. CmdOK(ListingOf(p)) /\ ListingOf(p).op = "threads"
  BY <1>1 DEF ListingOf, CmdOK
<1>3. view = "reader" => CmdOK(ReaderPageOf(p)) /\ ReaderPageOf(p).op = "page"
  BY DEF IInv, Reading, ReaderPageOf, CmdOK
<1> QED BY <1>1, <1>2, <1>3

\* r announces a load and starts one.
LEMMA RefreshKeeps ==
    ASSUME IInv, Refresh, UNCHANGED overlays
    PROVE  IInv'
<1> USE DEF IInv
<1>1. PICK cmds : /\ Starts(cmds) /\ IsFiniteSet(cmds)
                  /\ (\A k \in cmds : CmdOK(k)) /\ \E k \in cmds : k.op # "dashboard"
  <2>1. CASE view = "overview" /\ Starts({[op |-> "dashboard"], [op |-> "events"]})
    <3> DEFINE a == [op |-> "dashboard"]
               b == [op |-> "events"]
    <3>1. CmdOK(a) /\ CmdOK(b) /\ b.op = "events" /\ Starts({a, b})
      BY <2>1 DEF CmdOK
    <3> HIDE DEF a, b
    <3>2. IsFiniteSet({a} \cup {b}) /\ {a} \cup {b} = {a, b}
      BY FS_Singleton, FS_Union
    <3> QED BY <3>1, <3>2
  <2>2. ASSUME NEW k, CmdOK(k), k.op # "dashboard", Starts({k})
        PROVE  \E cmds : /\ Starts(cmds) /\ IsFiniteSet(cmds)
                         /\ (\A x \in cmds : CmdOK(x)) /\ \E x \in cmds : x.op # "dashboard"
    BY <2>2, FS_Singleton
  <2>3. CASE /\ view = "forums"
             /\ Starts({IF stack = <<>> THEN [op |-> "navigation"]
                        ELSE IF ActiveForum \in Category THEN [op |-> "category", node |-> ActiveForum]
                        ELSE [op |-> "subforums", node |-> ActiveForum]})
    <3> DEFINE k == IF stack = <<>> THEN [op |-> "navigation"]
                    ELSE IF ActiveForum \in Category THEN [op |-> "category", node |-> ActiveForum]
                    ELSE [op |-> "subforums", node |-> ActiveForum]
    <3>1. stack # <<>> => ActiveForum \in Node
      BY LoadsType
    <3>2. CmdOK(k) /\ k.op # "dashboard"
      BY <3>1 DEF CmdOK
    <3> HIDE DEF k
    <3>3. Starts({k})
      BY <2>3 DEF k
    <3> QED BY <2>2, <3>2, <3>3
  <2>4. CASE view = "threads" /\ stack # <<>> /\ Starts({ListingOf(listPage)})
    <3>1. listPage \in Nat
      BY DEF Types
    <3> QED BY <2>2, <2>4, <3>1, LoadsType
  <2>5. CASE view = "reader" /\ Starts({ReaderPageOf(reader.page)})
    <3>1. reader.page \in Nat
      BY DEF Types, ReaderType
    <3> QED BY <2>2, <2>5, <3>1, LoadsType
  <2>6. CASE view = "events" /\ Starts({[op |-> "refreshevents"]})
    <3>1. CmdOK([op |-> "refreshevents"])
      BY DEF CmdOK
    <3> QED BY <2>2, <2>6, <3>1
  <2> QED BY <2>1, <2>3, <2>4, <2>5, <2>6 DEF Refresh
<1>2. status' = "busy" /\ UNCHANGED <<view, nav, reader, search>>
  BY DEF Refresh
<1>3. UnderWay' /\ UNCHANGED db /\ BusyHasLoad' /\ ReaderSettles'
  BY <1>1, <1>2, StartsKeep
<1>4. Types' /\ Reading'
  BY <1>2, <1>3 DEF Types, Reading, overlays, nav
<1> QED BY <1>3, <1>4

\* Pages of a search, of a listing and of a thread.
LEMMA TurnKeeps ==
    ASSUME IInv, Turn, UNCHANGED overlays
    PROVE  IInv'
<1> USE DEF IInv
<1>0. /\ search \in SearchType /\ search.page \in Nat /\ listPage \in Nat
      /\ reader \in ReaderType /\ reader.page \in Nat /\ MaxListPage \in Nat
  BY ReaderAssumption DEF Types, SearchType, ReaderType
<1>1. ASSUME NEW p, TurnSearch(p) PROVE IInv'
  <2> DEFINE k == [op |-> "remote"]
  <2>1. /\ p \in Nat /\ search' = [search EXCEPT !.page = p] /\ Starts({k})
        /\ UNCHANGED <<view, nav, reader, status>>
    BY <1>0, <1>1 DEF TurnSearch
  <2>2. CmdOK(k)
    BY DEF CmdOK
  <2> HIDE DEF k
  <2>3. IsFiniteSet({k})
    BY FS_Singleton
  <2>4. UnderWay' /\ UNCHANGED db /\ BusyHasLoad' /\ ReaderSettles'
    BY <2>1, <2>2, <2>3, StartsKeep
  <2>5. search' \in SearchType
    BY <1>0, <2>1 DEF SearchType
  <2>6. Types' /\ Reading'
    BY <2>1, <2>4, <2>5 DEF Types, Reading, overlays, nav
  <2> QED BY <2>4, <2>6
<1>2. ASSUME NEW p, TurnListing(p) PROVE IInv'
  <2>1. /\ p \in Nat /\ listPage' = p /\ status' = "busy" /\ Starts({ListingOf(p)})
        /\ UNCHANGED <<view, stack, pane, list, reader, search>>
    BY <1>0, <1>2 DEF TurnListing
  <2>2. IsFiniteSet({ListingOf(p)}) /\ CmdOK(ListingOf(p)) /\ ListingOf(p).op = "threads"
    BY <2>1, FS_Singleton, LoadsType
  <2>3. UnderWay' /\ UNCHANGED db /\ BusyHasLoad' /\ ReaderSettles'
    BY <2>1, <2>2, StartsKeep
  <2>4. Types' /\ Reading'
    BY <2>1, <2>3 DEF Types, Reading, overlays
  <2> QED BY <2>3, <2>4
<1>3. ASSUME NEW p \in Nat, TurnPage(p) PROVE IInv'
  <2>1. /\ view = "reader" /\ reader' = [reader EXCEPT !.page = p] /\ status' = "busy"
        /\ Starts({ReaderPageOf(p)}) /\ UNCHANGED <<view, nav, search>>
    BY <1>3 DEF TurnPage
  <2>2. IsFiniteSet({ReaderPageOf(p)}) /\ CmdOK(ReaderPageOf(p)) /\ ReaderPageOf(p).op = "page"
    BY <2>1, FS_Singleton, LoadsType
  <2>3. UnderWay' /\ UNCHANGED db /\ BusyHasLoad' /\ ReaderSettles'
    BY <2>1, <2>2, StartsKeep
  <2>4. reader' \in ReaderType /\ reader'.thread = reader.thread
    BY <1>0, <2>1 DEF ReaderType
  <2>5. Types' /\ Reading'
    BY <2>1, <2>3, <2>4 DEF Types, Reading, overlays, nav
  <2> QED BY <2>3, <2>5
<1>4. reader.page + 1 \in Nat /\ (reader.page > 1 => reader.page - 1 \in Nat)
  BY <1>0
<1> QED BY <1>1, <1>2, <1>3, <1>4 DEF Turn

\* The inputs of a search and the palette.
LEMMA OverlaysKeep ==
    ASSUME IInv, (\E kind \in {"remote", "local"} : AskSearch(kind)) \/ Submit \/ TogglePalette
    PROVE  IInv'
<1> USE DEF IInv
<1>1. CASE \E kind \in {"remote", "local"} : AskSearch(kind)
  <2>1. /\ prompt' \in {"remote", "local"}
        /\ UNCHANGED <<db, view, nav, reader, search, status, flight, inbox, lost>>
    BY <1>1 DEF AskSearch
  <2>2. Types' /\ Reading' /\ UnderWay'
    BY <2>1 DEF Types, Reading, UnderWay, nav
  <2>3. BusyHasLoad' /\ ReaderSettles'
    BY <2>1 DEF BusyHasLoad, DataLoads, DataMsgs, ReaderSettles, PostsUnderWay
  <2> QED BY <2>2, <2>3
<1>a. ASSUME NEW cmds, IsFiniteSet(cmds), \A k \in cmds : CmdOK(k), Starts(cmds),
             search' \in SearchType, prompt' \in {"none", "remote", "local"},
             UNCHANGED <<view, nav, reader, status>>
      PROVE  IInv'
  <2>1. UnderWay' /\ UNCHANGED db /\ BusyHasLoad' /\ ReaderSettles'
    BY <1>a, StartsKeep
  <2>2. Types' /\ Reading'
    BY <1>a, <2>1 DEF Types, Reading, nav
  <2> QED BY <2>1, <2>2
<1>b. IsFiniteSet({}) /\ search \in SearchType
  BY FS_EmptySet DEF Types
<1>2. CASE Submit
  <2> DEFINE k == [op |-> prompt]
  <2>1. prompt \in {"remote", "local"} /\ prompt' = "none" /\ UNCHANGED <<view, nav, reader, status>>
    BY <1>2 DEF Submit, Types
  <2>2. CmdOK(k)
    BY <2>1 DEF CmdOK
  <2>3. search' \in SearchType /\ (Starts({k}) \/ Starts({}))
    <3>1. [search EXCEPT !.page = 1] \in SearchType
      BY <1>b DEF SearchType
    <3> QED BY <1>2, <1>b, <3>1 DEF Submit
  <2> HIDE DEF k
  <2>4. IsFiniteSet({k})
    BY FS_Singleton
  <2> QED BY <1>a, <1>b, <2>1, <2>2, <2>3, <2>4
<1>3. CASE TogglePalette
  BY <1>3, <1>a, <1>b DEF TogglePalette, Types
<1> QED BY <1>1, <1>2, <1>3

-----------------------------------------------------------------------------
(* The theorems.                                                           *)

\* The inductive invariant holds at the start.
LEMMA InvInit == Init => IInv
<1> SUFFICES ASSUME Init PROVE IInv
  OBVIOUS
<1>1. Types
  <2>1. db \in Caches
    BY ReaderAssumption DEF Init
  <2>2. reader \in ReaderType /\ search \in SearchType
    BY DEF Init, ReaderType, SearchType
  <2> QED BY <2>1, <2>2 DEF Init, Types, Views
<1>2. UnderWay
  <2> DEFINE a == [op |-> "dashboard"]
             b == [op |-> "events"]
  <2>1. CmdOK(a) /\ CmdOK(b) /\ a # b
    BY DEF CmdOK
  <2>2. flight = {a} \cup {b} /\ inbox = {}
    BY DEF Init
  <2> HIDE DEF a, b
  <2>3. IsFiniteSet({a}) /\ Cardinality({a}) = 1 /\ b \notin {a}
    BY <2>1, FS_Singleton
  <2>4. IsFiniteSet({a} \cup {b}) /\ Cardinality({a} \cup {b}) = Cardinality({a}) + 1
    BY <2>3, FS_AddElement
  <2>5. IsFiniteSet({}) /\ Cardinality({}) = 0
    BY FS_EmptySet
  <2>6. Cardinality(flight) + Cardinality(inbox) <= MaxFlight
    <3>1. MaxFlight \in Nat /\ MaxFlight >= 2
      BY ReaderAssumption
    <3>2. Cardinality(flight) = 2 /\ Cardinality(inbox) = 0
      BY <2>2, <2>3, <2>4, <2>5
    <3> QED BY <3>1, <3>2
  <2> QED BY <2>1, <2>2, <2>4, <2>5, <2>6 DEF UnderWay
<1>3. Reading /\ BusyHasLoad /\ ReaderSettles
  BY DEF Init, Reading, BusyHasLoad, ReaderSettles
<1> QED BY <1>1, <1>2, <1>3 DEF IInv

\* Every step keeps it.
LEMMA InvStep == IInv /\ [Next]_vars => IInv'
<1> SUFFICES ASSUME IInv, [Next]_vars PROVE IInv'
  OBVIOUS
<1>0. prompt \in {"none", "remote", "local"}
  BY DEF IInv, Types
<1>1. CASE Run
  BY <1>1, ForumLoadsKeep, OtherLoadsKeep DEF Run
<1>2. CASE Apply
  BY <1>2, ApplyKeeps
<1>3. CASE Key
  <2>1. CASE (Home \/ Forums \/ Events \/ Mesh \/ Saved) /\ UNCHANGED prompt
    BY <1>0, <2>1, ViewKeysKeep
  <2>2. CASE (Back \/ OpenForum \/ OpenThread \/ OpenResult \/ Refresh \/ Turn) /\ UNCHANGED overlays
    BY <2>2, BackKeeps, OpenKeeps, RefreshKeeps, TurnKeeps
  <2>3. CASE (\E kind \in {"remote", "local"} : AskSearch(kind)) \/ Submit \/ TogglePalette
    BY <2>3, OverlaysKeep
  <2> QED BY <1>3, <2>1, <2>2, <2>3 DEF Key, PaletteItem, overlays
<1>4. CASE UNCHANGED vars
  <2>1. UNCHANGED <<db, view, nav, reader, search, overlays, status, flight, inbox, lost>>
    BY <1>4 DEF vars
  <2>2. Types' /\ Reading' /\ UnderWay'
    BY <2>1 DEF IInv, Types, Reading, UnderWay, nav, overlays
  <2>3. BusyHasLoad' /\ ReaderSettles'
    BY <2>1 DEF IInv, BusyHasLoad, DataLoads, DataMsgs, ReaderSettles, PostsUnderWay
  <2> QED BY <2>2, <2>3 DEF IInv
<1> QED BY <1>1, <1>2, <1>3, <1>4 DEF Next

\* The inductive invariant is an invariant.
THEOREM InvHolds == Spec => []IInv
  BY InvInit, InvStep, PTL DEF Spec

\* Every variable has its type, and what is under way stays within the bound.
THEOREM TypeCorrect == Spec => []TypeOK
<1>1. IInv => TypeOK
  BY DEF IInv, Types, UnderWay, TypeOK, ReaderType, SearchType, Results
<1> QED BY <1>1, InvHolds, PTL

\* A load is announced only while one is under way whose message will replace
\* the announcement.
THEOREM AnnouncedLoadsRun == Spec => []BusyHasLoad
<1>1. IInv => BusyHasLoad
  BY DEF IInv
<1> QED BY <1>1, InvHolds, PTL

\* Once no load of posts is under way and none has failed, the posts on screen
\* are those of the thread the reader is on, and so is the title if the pages
\* of that thread have one.
THEOREM ReaderAgrees == Spec => []ReaderSettles
<1>1. IInv => ReaderSettles
  BY DEF IInv
<1> QED BY <1>1, InvHolds, PTL
=============================================================================
