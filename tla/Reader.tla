------------------------------- MODULE Reader -------------------------------
(***************************************************************************)
(* The forum reader (internal/tui/app.go) over its SQLite cache            *)
(* (internal/store/sqlite.go) and the Flashback client.                    *)
(*                                                                         *)
(* Every key press is handled by Update at once; what it needs from the    *)
(* cache or from the network is a command that runs in a goroutine of its  *)
(* own and ends in one dataMsg.  Update applies the messages one at a      *)
(* time, in whatever order the commands end, to whatever view the user has *)
(* reached by then.  A command is in `flight` until it has run, its        *)
(* message is in `inbox` until Update has taken it.                        *)
(*                                                                         *)
(* Rows of the database are abstracted to their keys, the items of a list  *)
(* to the set of them; the row under the cursor is any row of the list.    *)
(* A title is the thread it names, and NoThread when it is empty.          *)
(* Whether the stored sync state is old enough for a refresh is left open. *)
(***************************************************************************)
EXTENDS Naturals, Sequences, FiniteSets

CONSTANTS
    Node,        \* forum nodes
    NoNode,      \* the root's parent; the forum of an empty stack
    Parent,      \* the parent of each node
    Category,    \* local sitemap nodes without a page of their own
    Sitemap,     \* the nodes of the embedded sitemap
    Thread,
    NoThread,
    ThreadsOf,   \* the threads on the page of each forum
    MaxPage,     \* the pages of each thread
    Bare,        \* threads whose listing row does not show a page count
    Untitled,    \* threads whose page has neither a heading nor a title
    StartCaches, \* the contents the database may have at the start
    MaxFlight,   \* bound: commands and messages under way
    MaxDepth,    \* bound: length of the breadcrumb
    MaxListPage, \* bound: pages of a listing or of a search
    MaxKeys      \* bound: keys pressed, other than those that open a search

Pages == {x \in Thread \X (Nat \ {0}) : x[2] <= MaxPage[x[1]]}

Caches == [forums : SUBSET Node, pages : SUBSET Pages, titled : SUBSET Thread]

ASSUME ReaderAssumption ==
    /\ NoNode \notin Node /\ NoThread \notin Thread
    /\ Parent \in [Node -> Node \cup {NoNode}]
    /\ Category \subseteq Sitemap /\ Sitemap \subseteq Node
    /\ ThreadsOf \in [Node -> SUBSET Thread]
    /\ MaxPage \in [Thread -> Nat \ {0}]
    /\ Bare \subseteq Thread /\ Untitled \subseteq Thread
    /\ {MaxFlight, MaxDepth, MaxListPage, MaxKeys} \subseteq Nat
    /\ StartCaches \subseteq Caches
    /\ MaxFlight >= 2 \* Init asks for the dashboard and the events

VARIABLES
    db,       \* the cache: forums, pages (posts), titled (threads)
    view,     \* App.CurrentView
    stack,    \* App.Stack, the breadcrumb
    pane,     \* App.Forums
    list,     \* App.Threads
    listPage, \* App.ForumPage
    reader,   \* App.ThreadID, ThreadTitle, ReaderPage, ReaderMaxPage, and the posts shown
    search,   \* App.Results, RemotePage
    prompt,   \* the focused input: none, remote or local search
    palette,  \* App.PaletteOpen
    status,   \* App.Status: idle, busy (a load was announced), error
    flight, inbox,
    lost,     \* history: some load of posts has failed
    keys      \* the keys pressed, other than those that open a search

nav == <<stack, pane, list, listPage>>
overlays == <<prompt, palette>>
vars == <<db, view, nav, reader, search, overlays, status, flight, inbox, lost, keys>>

Views == {"overview", "forums", "threads", "reader", "search", "events", "mesh"}
Init ==
    /\ db \in StartCaches
    /\ view = "overview" /\ stack = <<>> /\ pane = {} /\ list = {} /\ listPage = 1
    /\ reader = [thread |-> NoThread, title |-> NoThread, page |-> 0, max |-> 0,
                 shown |-> NoThread, pages |-> {}]
    /\ search = [results |-> {}, page |-> 1]
    /\ prompt = "none" /\ palette = FALSE /\ status = "idle"
    /\ flight = {[op |-> "dashboard"], [op |-> "events"]}
    /\ inbox = {} /\ lost = FALSE /\ keys = 0

-----------------------------------------------------------------------------
(* The cache.                                                              *)

Children(n) == {c \in Node : Parent[c] = n}

\* Forums: the cached children of a node, or the roots.
CachedChildren(d, n) == d.forums \cap Children(n)

\* SaveForums: upserts the rows of one forum page.
SaveForums(d, nodes) == [d EXCEPT !.forums = @ \cup nodes]

\* ReplaceForumSnapshot: DELETE FROM forums, then the snapshot.  The rows of
\* forum_threads go with it, which nothing here reads back.
ReplaceForumSnapshot(d, nodes) == [d EXCEPT !.forums = nodes]

\* SaveThreads: fails as a whole on the foreign key when the forum has no row.
SaveThreads(d, threads) == [d EXCEPT !.titled = @ \cup threads]
CanSaveThreads(d, f, threads) == f \in d.forums \/ threads = {}

\* SavePage: an empty title leaves that of the row.
SavePage(d, t, p) == [d EXCEPT !.pages = @ \cup {<<t, p>>}, !.titled = @ \cup ({t} \ Untitled)]

-----------------------------------------------------------------------------
(* Commands.  Each takes itself out of flight and leaves one message; the  *)
(* network may fail where the code asks it.                                *)

ErrMsg(kind) == [kind |-> kind, err |-> TRUE]
ForumsMsg(nodes, refresh, parent) ==
    [kind |-> "forums", err |-> FALSE, forums |-> nodes, refresh |-> refresh, parent |-> parent]
ThreadsMsg(threads, page) ==
    [kind |-> "threads", err |-> FALSE, threads |-> threads, page |-> page]
PostsMsg(t, title, p, page, count) ==
    [kind |-> "posts", err |-> FALSE, thread |-> t, title |-> title, pages |-> {p},
     page |-> page, count |-> count]

Ends(c, d, msg) ==
    /\ flight' = flight \ {c}
    /\ inbox' = inbox \cup {msg}
    /\ db' = d
    /\ UNCHANGED <<view, nav, reader, search, overlays, status, lost, keys>>

\* loadRoot: the cached roots, with a refresh when they are old, or else the
\* whole embedded sitemap, which needs no network.
LoadRoot ==
    \E c \in flight :
        /\ c.op = "root"
        /\ \/ /\ CachedChildren(db, NoNode) # {}
              /\ \E stale \in BOOLEAN :
                    Ends(c, db, ForumsMsg(CachedChildren(db, NoNode), stale, NoNode))
           \/ /\ CachedChildren(db, NoNode) = {}
              /\ Ends(c, ReplaceForumSnapshot(db, Sitemap), ForumsMsg(Sitemap, FALSE, NoNode))

\* loadChildren: only from the cache.
LoadChildren ==
    \E c \in flight :
        /\ c.op = "children"
        /\ Ends(c, db, ForumsMsg(CachedChildren(db, c.node), FALSE, NoNode))

\* loadForumChildren: cached subforums, then the page itself, read as subforums
\* and, if it shows none, as a thread listing.  The cached threads in between
\* are never an answer: last_post_at is TEXT, or NULL, and does not scan into a
\* time.Time, so cachedThreads ends in an error at its first row.
LoadForumChildren ==
    \E c \in flight :
        LET n == c.node
            kids == CachedChildren(db, n)
            fetched == Children(n) \ Category
        IN
        /\ c.op = "forum"
        /\ \/ /\ kids # {}
              /\ \E stale \in BOOLEAN :
                    /\ n \in Category => ~stale
                    /\ Ends(c, db, ForumsMsg(kids, stale, n))
           \/ /\ kids = {} /\ n \in Category
              /\ LET d == ReplaceForumSnapshot(db, Sitemap)
                 IN  Ends(c, d, ForumsMsg(CachedChildren(d, n), FALSE, NoNode))
           \/ /\ kids = {} /\ n \notin Category
              /\ \/ fetched # {} /\ Ends(c, SaveForums(db, fetched), ForumsMsg(fetched, FALSE, NoNode))
                 \/ /\ fetched = {} /\ CanSaveThreads(db, n, ThreadsOf[n])
                    /\ Ends(c, SaveThreads(db, ThreadsOf[n]), ThreadsMsg(ThreadsOf[n], 0))
                 \/ /\ fetched = {} /\ ~CanSaveThreads(db, n, ThreadsOf[n])
                    /\ Ends(c, db, ErrMsg("threads"))
                 \/ Ends(c, db, ErrMsg("forums"))

\* refreshNavigation: the root's page is the embedded sitemap.
RefreshNavigation ==
    \E c \in flight :
        /\ c.op = "navigation"
        /\ Ends(c, ReplaceForumSnapshot(db, Sitemap),
                ForumsMsg({n \in Sitemap : Parent[n] = NoNode}, FALSE, NoNode))

\* refreshCategoryNavigation
RefreshCategoryNavigation ==
    \E c \in flight :
        /\ c.op = "category"
        /\ LET d == ReplaceForumSnapshot(db, Sitemap)
           IN  Ends(c, d, ForumsMsg(CachedChildren(d, c.node), FALSE, NoNode))

\* refreshForumNavigation
RefreshForumNavigation ==
    \E c \in flight :
        /\ c.op = "subforums"
        /\ \/ LET d == SaveForums(db, Children(c.node) \ Category)
              IN  Ends(c, d, ForumsMsg(CachedChildren(d, c.node), FALSE, NoNode))
           \/ Ends(c, db, ErrMsg("forums"))

\* refreshThreads: the page at `url` is saved as a listing of `forum`.
RefreshThreads ==
    \E c \in flight :
        LET found == IF c.page = 1 /\ c.url # NoNode THEN ThreadsOf[c.url] ELSE {}
        IN
        /\ c.op = "threads"
        /\ \/ /\ CanSaveThreads(db, c.forum, found)
              /\ Ends(c, SaveThreads(db, found), ThreadsMsg(found, c.page))
           \/ ~CanSaveThreads(db, c.forum, found) /\ Ends(c, db, ErrMsg("threads"))
           \/ Ends(c, db, ErrMsg("threads"))

\* loadPosts: page one from the site or, when the site fails, from the cache
\* mesh.  The cached posts are never an answer: their timestamp is TEXT, or
\* NULL, and does not scan into a time.Time, so every row is skipped.  A page
\* without a title goes by that of the thread's row.
LoadPosts ==
    \E c \in flight :
        LET t == c.thread
            title == IF t \in Untitled \ db.titled THEN NoThread ELSE t
        IN
        /\ c.op = "posts"
        /\ \/ Ends(c, SavePage(db, t, 1), PostsMsg(t, title, 1, 1, MaxPage[t]))
           \/ Ends(c, db, ErrMsg("posts"))

\* Mutant of SitePage: the number asked for is taken as it is.
SitePageUnchecked(t, p) == p

\* Client.Thread: the page the site answers with when page p is asked for.
SitePage(t, p) == IF p < 1 THEN 1 ELSE IF p > MaxPage[t] THEN MaxPage[t] ELSE p

\* loadThreadPage: from the site, under the number asked for and with the
\* page's own title.
LoadThreadPage ==
    \E c \in flight :
        LET t == c.thread
            p == SitePage(t, c.page)
            title == IF t \in Untitled THEN NoThread ELSE t
            count == IF c.page > MaxPage[t] THEN c.page ELSE MaxPage[t]
        IN
        /\ c.op = "page"
        /\ \/ Ends(c, SavePage(db, t, p), PostsMsg(t, title, p, c.page, count))
           \/ Ends(c, db, ErrMsg("posts"))

\* A result is a thread and the title it goes by.
Found(results) == [kind |-> "search", err |-> FALSE, results |-> results]

RemoteSearch ==
    \E c \in flight :
        /\ c.op = "remote"
        /\ \/ \E found \in {{<<t, t>> : t \in Thread}, {}} : Ends(c, db, Found(found))
           \/ Ends(c, db, ErrMsg("search"))

\* localSearch: the posts in the cache, without the titles of their threads;
\* the text may be no valid query.
LocalSearch ==
    \E c \in flight :
        /\ c.op = "local"
        /\ \/ \E found \in {{<<x[1], NoThread>> : x \in db.pages}, {}} : Ends(c, db, Found(found))
           \/ Ends(c, db, ErrMsg("search"))

\* The data of these feeds is not used here.
LoadCachedEvents ==
    \E c \in flight, failed \in BOOLEAN, stale \in BOOLEAN :
        /\ c.op = "events"
        /\ Ends(c, db, [kind |-> "events", err |-> failed, refresh |-> stale /\ ~failed])
RefreshEvents ==
    \E c \in flight, failed \in BOOLEAN :
        /\ c.op = "refreshevents"
        /\ Ends(c, db, [kind |-> "events", err |-> failed, refresh |-> FALSE])
LoadDashboard ==
    \E c \in flight, failed \in BOOLEAN :
        /\ c.op = "dashboard"
        /\ Ends(c, db, [kind |-> "dashboard", err |-> failed])

Run == \/ LoadRoot \/ LoadChildren \/ LoadForumChildren \/ RefreshNavigation
       \/ RefreshCategoryNavigation \/ RefreshForumNavigation \/ RefreshThreads
       \/ LoadPosts \/ LoadThreadPage \/ RemoteSearch \/ LocalSearch
       \/ LoadCachedEvents \/ RefreshEvents \/ LoadDashboard

-----------------------------------------------------------------------------
(* Update: a dataMsg or a dashboardMsg.  What it shows replaces the view,  *)
(* whichever it is.                                                        *)

ActiveForum == IF stack = <<>> THEN NoNode ELSE stack[Len(stack)]

Takes(m, started) ==
    /\ inbox' = inbox \ {m}
    /\ flight' = flight \cup started
    /\ UNCHANGED <<db, overlays, keys>>

\* Mutant of ApplyError: the error is dropped and the status stays.
ApplyErrorSilent ==
    \E m \in inbox :
        /\ m.err
        /\ Takes(m, {})
        /\ lost' = (lost \/ m.kind = "posts")
        /\ UNCHANGED <<view, nav, reader, search, status>>

ApplyError ==
    \E m \in inbox :
        /\ m.err
        /\ Takes(m, {})
        /\ status' = "error"
        /\ lost' = (lost \/ m.kind = "posts")
        /\ UNCHANGED <<view, nav, reader, search>>

ApplyForums ==
    \E m \in inbox :
        /\ m.kind = "forums" /\ ~m.err
        /\ pane' = m.forums /\ view' = "forums"
        /\ status' = IF m.refresh THEN "busy" ELSE "idle"
        /\ Takes(m, IF ~m.refresh THEN {}
                    ELSE IF m.parent = NoNode THEN {[op |-> "navigation"]}
                    ELSE {[op |-> "subforums", node |-> m.parent]})
        /\ UNCHANGED <<stack, list, listPage, reader, search, lost>>

\* The refresh asked for here and in ApplyPosts goes with cached rows, which no
\* message brings.
ApplyThreads ==
    \E m \in inbox :
        /\ m.kind = "threads" /\ ~m.err
        /\ list' = m.threads /\ view' = "threads" /\ status' = "idle"
        /\ listPage' = IF m.page > 0 THEN m.page ELSE listPage
        /\ Takes(m, {})
        /\ UNCHANGED <<stack, pane, reader, search, lost>>

\* Mutant of ApplyPosts: the title stays that of the thread opened last.
ApplyPostsKeepTitle ==
    \E m \in inbox :
        /\ m.kind = "posts" /\ ~m.err
        /\ view' = "reader" /\ status' = "idle"
        /\ reader' = [reader EXCEPT !.thread = m.thread, !.shown = m.thread,
                                    !.pages = m.pages, !.page = m.page, !.max = m.count]
        /\ Takes(m, {})
        /\ UNCHANGED <<nav, search, lost>>

\* Every message of posts names its thread; an empty title leaves the old one.
ApplyPosts ==
    \E m \in inbox :
        /\ m.kind = "posts" /\ ~m.err
        /\ view' = "reader" /\ status' = "idle"
        /\ reader' = [thread |-> m.thread, shown |-> m.thread, pages |-> m.pages,
                      title |-> IF m.title # NoThread THEN m.title ELSE reader.title,
                      page |-> IF m.page > 0 THEN m.page ELSE reader.page,
                      max |-> IF m.count > 0 THEN m.count ELSE reader.max]
        /\ Takes(m, {})
        /\ UNCHANGED <<nav, search, lost>>

ApplySearch ==
    \E m \in inbox :
        /\ m.kind = "search" /\ ~m.err
        /\ search' = [search EXCEPT !.results = m.results]
        /\ view' = "search" /\ status' = "idle"
        /\ Takes(m, {})
        /\ UNCHANGED <<nav, reader, lost>>

ApplyFeeds ==
    \E m \in inbox :
        /\ m.kind \in {"events", "dashboard"} /\ ~m.err
        /\ status' = IF m.kind = "events" THEN "idle" ELSE status
        /\ Takes(m, IF m.kind = "events" /\ m.refresh THEN {[op |-> "refreshevents"]} ELSE {})
        /\ UNCHANGED <<view, nav, reader, search, lost>>

Apply == ApplyError \/ ApplyForums \/ ApplyThreads \/ ApplyPosts \/ ApplySearch \/ ApplyFeeds

-----------------------------------------------------------------------------
(* Update: keys.  `keys` and MaxFlight only bound how much is asked for.   *)

Starts(cmds) ==
    /\ keys < MaxKeys /\ keys' = keys + 1
    /\ Cardinality(flight \cup cmds) + Cardinality(inbox) <= MaxFlight
    /\ flight' = flight \cup cmds
    /\ UNCHANGED <<db, inbox, lost>>

Home ==
    /\ Starts({[op |-> "dashboard"]})
    /\ view' = "overview"
    /\ UNCHANGED <<nav, reader, search, status>>

Forums ==
    /\ Starts({[op |-> "root"]})
    /\ view' = "forums" /\ stack' = <<>>
    /\ UNCHANGED <<pane, list, listPage, reader, search, status>>

Events ==
    /\ Starts({[op |-> "events"]})
    /\ view' = "events"
    /\ UNCHANGED <<nav, reader, search, status>>

Mesh ==
    /\ Starts({})
    /\ view' = "mesh"
    /\ UNCHANGED <<nav, reader, search, status>>

Saved ==
    /\ Starts({})
    /\ view' = "overview" /\ status' = "idle"
    /\ UNCHANGED <<nav, reader, search>>

Back ==
    \/ /\ stack # <<>>
       /\ stack' = SubSeq(stack, 1, Len(stack) - 1)
       /\ Starts({[op |-> "children", node |-> IF stack' = <<>> THEN NoNode ELSE stack'[Len(stack')]]})
       /\ UNCHANGED <<view, pane, list, listPage, reader, search, status>>
    \/ /\ stack = <<>>
       /\ view' = "overview"
       /\ Starts({[op |-> "dashboard"]})
       /\ UNCHANGED <<nav, reader, search, status>>

\* openSelected; a row of a bare listing carries no page count.
OpenForum ==
    \E n \in pane :
        /\ view = "forums" /\ Len(stack) < MaxDepth
        /\ stack' = Append(stack, n) /\ listPage' = 1 /\ status' = "busy"
        /\ Starts({[op |-> "forum", node |-> n]})
        /\ UNCHANGED <<view, pane, list, reader, search>>
OpenThread ==
    \E t \in list, n \in {0} \cup {MaxPage[x] : x \in Thread} :
        /\ view = "threads"
        /\ n = MaxPage[t] \/ (t \in Bare /\ n = 0)
        /\ view' = "reader"
        /\ reader' = [reader EXCEPT !.thread = t, !.title = t, !.page = 1, !.max = n]
        /\ Starts({[op |-> "posts", thread |-> t]})
        /\ UNCHANGED <<nav, search, status>>
OpenResult ==
    \E r \in search.results :
        /\ view = "search"
        /\ view' = "reader" /\ status' = "busy"
        /\ reader' = [reader EXCEPT !.thread = r[1], !.title = r[2]]
        /\ Starts({[op |-> "posts", thread |-> r[1]]})
        /\ UNCHANGED <<nav, search>>

ListingOf(page) == [op |-> "threads", url |-> ActiveForum, forum |-> ActiveForum, page |-> page]
ReaderPageOf(page) == [op |-> "page", thread |-> reader.thread, page |-> page]

\* Mutant of Refresh: every view announces a load, whether it starts one or not.
RefreshAnnounced ==
    /\ status' = "busy" /\ Starts({})
    /\ UNCHANGED <<view, nav, reader, search>>

\* The keys r and f5: only a view that starts a load announces one.
Refresh ==
    /\ status' = "busy"
    /\ \/ view = "overview" /\ Starts({[op |-> "dashboard"], [op |-> "events"]})
       \/ /\ view = "forums"
          /\ Starts({IF stack = <<>> THEN [op |-> "navigation"]
                     ELSE IF ActiveForum \in Category THEN [op |-> "category", node |-> ActiveForum]
                     ELSE [op |-> "subforums", node |-> ActiveForum]})
       \/ view = "threads" /\ stack # <<>> /\ Starts({ListingOf(listPage)})
       \/ view = "reader" /\ Starts({ReaderPageOf(reader.page)})
       \/ view = "events" /\ Starts({[op |-> "refreshevents"]})
    /\ UNCHANGED <<view, nav, reader, search>>

\* The keys ] and [, by one page forth or back.
TurnSearch(p) ==
    /\ view = "search" /\ p \in 1..MaxListPage
    /\ search' = [search EXCEPT !.page = p]
    /\ Starts({[op |-> "remote"]})
    /\ UNCHANGED <<view, nav, reader, status>>
TurnListing(p) ==
    /\ view = "threads" /\ stack # <<>> /\ p \in 1..MaxListPage
    /\ listPage' = p /\ status' = "busy"
    /\ Starts({ListingOf(p)})
    /\ UNCHANGED <<view, stack, pane, list, reader, search>>
TurnPage(p) ==
    /\ view = "reader" /\ p >= 1 /\ (p <= reader.max \/ p < reader.page)
    /\ reader' = [reader EXCEPT !.page = p] /\ status' = "busy"
    /\ Starts({ReaderPageOf(p)})
    /\ UNCHANGED <<view, nav, search>>
Turn ==
    \/ TurnSearch(search.page + 1) \/ (search.page > 1 /\ TurnSearch(search.page - 1))
    \/ TurnListing(listPage + 1) \/ (listPage > 1 /\ TurnListing(listPage - 1))
    \/ TurnPage(reader.page + 1) \/ (reader.page > 1 /\ TurnPage(reader.page - 1))

\* / and ctrl+f focus the input; enter submits what was typed, or nothing.
AskSearch(kind) ==
    /\ prompt' = kind
    /\ UNCHANGED <<db, view, nav, reader, search, status, flight, inbox, lost, keys>>
Submit ==
    /\ prompt # "none" /\ prompt' = "none" /\ UNCHANGED palette
    /\ \/ /\ Starts({[op |-> prompt]})
          /\ search' = IF prompt = "remote" THEN [search EXCEPT !.page = 1] ELSE search
       \/ Starts({}) /\ UNCHANGED search
    /\ UNCHANGED <<view, nav, reader, status>>

\* runPaletteItem
PaletteItem ==
    /\ palette /\ palette' = FALSE
    /\ \/ (Home \/ Forums \/ Events \/ Mesh) /\ UNCHANGED prompt
       \/ AskSearch("remote") \/ AskSearch("local")
TogglePalette ==
    /\ prompt = "none" /\ palette' = ~palette /\ Starts({})
    /\ UNCHANGED <<view, nav, reader, search, prompt, status>>

Key ==
    \/ /\ ~palette /\ prompt = "none"
       /\ \/ /\ \/ Home \/ Forums \/ Events \/ Mesh \/ Saved \/ Back
                \/ OpenForum \/ OpenThread \/ OpenResult \/ Refresh \/ Turn
             /\ UNCHANGED overlays
          \/ (AskSearch("remote") \/ AskSearch("local")) /\ UNCHANGED palette
    \/ Submit \/ PaletteItem \/ TogglePalette

Next == Run \/ Apply \/ Key

Spec == Init /\ [][Next]_vars

\* The HTTP client gives up after 15 s and every command ends in a message;
\* the event loop takes every message.
FairSpec == Spec /\ WF_vars(Run) /\ WF_vars(Apply)

-----------------------------------------------------------------------------
(* Properties.                                                             *)

DataLoads == {c \in flight : c.op # "dashboard"}
DataMsgs == {m \in inbox : m.kind # "dashboard"}
PostsUnderWay ==
    \/ \E c \in flight : c.op \in {"posts", "page"}
    \/ \E m \in inbox : m.kind = "posts"

TypeOK ==
    /\ db \in Caches /\ view \in Views
    /\ stack \in Seq(Node) /\ pane \subseteq Node /\ list \subseteq Thread
    /\ {reader.thread, reader.title, reader.shown} \subseteq Thread \cup {NoThread}
    /\ {reader.page, reader.max, listPage} \subseteq Nat
    /\ search.results \subseteq Thread \X (Thread \cup {NoThread}) /\ prompt \in {"none", "remote", "local"}
    /\ status \in {"idle", "busy", "error"}
    /\ Cardinality(flight) + Cardinality(inbox) <= MaxFlight

\* The status line announces a load only while one is under way whose message
\* will replace it, whatever order loads end in and wherever the user has gone
\* (the promise at the f5 key of Update).
BusyHasLoad == status = "busy" => DataLoads # {} \/ DataMsgs # {}

\* An announced load is never announced for ever.
BusyEnds == (status = "busy") ~> (status # "busy")

\* When no load of posts is under way and none has failed, the reader shows
\* posts of the thread it would turn the page of, under that thread's title,
\* however the loads of several threads and pages were interleaved (ApplyPosts).
\* A thread whose pages have no title may be shown under that of another.
ReaderSettles ==
    view = "reader" /\ ~PostsUnderWay /\ ~lost =>
        /\ reader.shown = reader.thread
        /\ reader.thread \notin Untitled => reader.title = reader.thread
=============================================================================
