------------------------------ MODULE GandrTui ------------------------------
(***************************************************************************)
(* The gandr terminal client (gandr/pkg/tui) over its encrypted database   *)
(* (gandr/pkg/clientdb) and its connections to gandrd: what the daemon     *)
(* pushes is filed into lists and badges, keys act on what is on screen,   *)
(* and a client that has lost the daemon dials again.                      *)
(*                                                                         *)
(* A connection is here what Ipc shows it to be: a request ends, and what  *)
(* is pushed waits in a channel until a listener command takes it.  Only   *)
(* the requests that change what is pushed, the subscriptions, are         *)
(* modelled; the others end in a line of status.  Cursors are left out: a  *)
(* key that acts on the selected item acts on any item of the list, and a  *)
(* line that is typed is any of the lines that Update tells apart.         *)
(***************************************************************************)
EXTENDS Integers, Sequences, FiniteSets

CONSTANTS
    Channel, Person,
    Me,
    Env,          \* envelopes: id, kind, from, and the channel or item they are about
    Own,          \* envelopes the user may make, likewise
    Tab,          \* messages, people, feed, forum, network, settings
    StartDb,      \* the contents the database may have at the start
    QueueCap,     \* pushes a connection's client keeps
    MaxDelay,     \* seconds between two attempts, 30
    MaxClients,   \* bound: connections dialled
    Plan          \* bounds: the envelopes pushed, the tabs visited, whether lines are typed
                  \* and the daemon stops, and how many keys, pushes and stops there are

User == Person \cup {Me}
Letter == Env \cup Own \cup UNION {DOMAIN d.sealed : d \in StartDb}

\* A channel is joined once: it is the key of its table.  The table of the
\* sealed messages can hold each that may come.
DbType(d) ==
    /\ d \in [channels : Seq(Channel), sealed : [DOMAIN d.sealed -> {"none", "unread", "read"}],
              nick : [User -> {"none", "name", "note"}],
              blocked : SUBSET User, profiles : SUBSET User, accepted : BOOLEAN]
    /\ \A i, j \in DOMAIN d.channels : d.channels[i] = d.channels[j] => i = j
    /\ DOMAIN d.sealed \subseteq Letter /\ IsFiniteSet(DOMAIN d.sealed)
    /\ {e \in Env : e.kind = "sealed"} \subseteq DOMAIN d.sealed

ASSUME TuiAssumption ==
    /\ Me \notin Person /\ Env \cap Own = {}
    /\ \A e \in Letter : e.from \in User /\ (e.kind = "chat" => e.about \in Channel)
    /\ {QueueCap, MaxDelay, MaxClients} \subseteq Nat \ {0}
    /\ {"messages", "people", "feed", "forum", "network", "settings"} \subseteq Tab
    /\ \A d \in StartDb : DbType(d)
    /\ Plan \subseteq [env : SUBSET Env, tabs : SUBSET Tab, lines : BOOLEAN, stops : BOOLEAN,
                       events : Nat]

VARIABLES
    up,      \* whether gandrd runs
    link,    \* the connections: state, subs, queue, listeners
    conn,    \* Model.cli, connected, retryDelay, retryIn
    timers,  \* retry ticks, dials under way, dials that have failed
    flight,  \* subscriptions under way
    inbox,   \* messages for Update
    screen,  \* tab, subview, overlay, gate, open thread
    lists,   \* what has come in
    badge,   \* the unread counts
    db,      \* the database
    pushed,  \* what the daemon has pushed
    plan, events \* the bounds of this behaviour, and what is used of them

vars == <<up, link, conn, timers, flight, inbox, screen, lists, badge, db, pushed, plan, events>>
net == <<up, link, conn, timers, flight, inbox, pushed, plan>>

Cli == 1..MaxClients
Elems(s) == {s[i] : i \in DOMAIN s}
Senders(s) == {s[i].e.from : i \in DOMAIN s}

\* The sequence without the first of the given places, if there is one.
Cut(s, places) ==
    LET first == {i \in places : \A j \in places : i <= j}
    IN  [i \in 1..(Len(s) - Cardinality(first)) |->
            IF \A f \in first : i < f THEN s[i] ELSE s[i + 1]]

Event == events < plan.events /\ events' = events + 1

-----------------------------------------------------------------------------
(* The database.                                                           *)

JoinChannel(d, c) == [d EXCEPT !.channels = IF c \in Elems(@) THEN @ ELSE Append(@, c)]
LeaveChannel(d, c) == [d EXCEPT !.channels = Cut(@, {i \in DOMAIN @ : @[i] = c})]

\* INSERT OR IGNORE
PutSealed(d, e) == [d EXCEPT !.sealed[e] = IF @ = "none" THEN "unread" ELSE @]
ListSealed(d) == {e \in DOMAIN d.sealed : d.sealed[e] # "none"}
MarkSealedRead(d, e) == [d EXCEPT !.sealed[e] = "read"]
UnreadSealedCount(d) == Cardinality({e \in DOMAIN d.sealed : d.sealed[e] = "unread"})

SetNickname(d, p, n) == [d EXCEPT !.nick[p] = n]
DeleteNickname(d, p) == [d EXCEPT !.nick[p] = "none"]
Block(d, p) == [d EXCEPT !.blocked = @ \cup {p}]
Unblock(d, p) == [d EXCEPT !.blocked = @ \ {p}]
CacheProfile(d, p) == [d EXCEPT !.profiles = @ \cup {p}]
SetSetting(d) == [d EXCEPT !.accepted = TRUE]

-----------------------------------------------------------------------------
(* New, Init and the listeners.                                            *)

NoLink == [state |-> "none", subs |-> {}, queue |-> <<>>, waiters |-> 0, gone |-> FALSE]

\* clientCmds: listeners for the connection c, and a subscription each.
Listens(c) == [link EXCEPT ![c].waiters = @ + 1, ![c].gone = TRUE]
SubscribeAll(c) == {[op |-> "sub", c |-> c, ch |-> ch] : ch \in Elems(db.channels)}

Lists(d) ==
    [talk |-> [c \in Channel |-> <<>>], posts |-> <<>>, threads |-> <<>>, replies |-> {},
     guestbook |-> {}, people |-> {}, peers |-> {}, revealed |-> {},
     sealed |-> {[e |-> e, read |-> d.sealed[e] = "read", copy |-> 1] : e \in ListSealed(d)}]
Badge(d) == [chat |-> [c \in Channel |-> 0], feed |-> 0, forum |-> 0,
             sealed |-> UnreadSealedCount(d)]
Screen(d) ==
    [tab |-> "messages", view |-> "chat", overlay |-> "none", target |-> Me, profile |-> Me, sel |-> 1,
     gate |-> IF d.accepted THEN "off" ELSE "first", detail |-> FALSE, open |-> 0,
     section |-> FALSE]

Fresh ==
    [conn |-> [cli |-> 1, connected |-> TRUE, delay |-> 1, in |-> 0],
     link |-> [c \in Cli |-> IF c = 1 THEN [NoLink EXCEPT !.state = "open", !.waiters = 1, !.gone = TRUE]
                             ELSE NoLink],
     timers |-> [ticks |-> 0, dials |-> 0, fails |-> 0]]

Init ==
    /\ db \in StartDb
    /\ up = TRUE /\ pushed = {} /\ plan \in Plan /\ events = 0
    /\ conn = Fresh.conn /\ link = Fresh.link /\ timers = Fresh.timers
    /\ flight = SubscribeAll(1) /\ inbox = {}
    /\ lists = Lists(db) /\ badge = Badge(db) /\ screen = Screen(db)

\* The client quits and is started again: all that is kept is the database.
Restart ==
    /\ Event /\ up
    /\ conn' = Fresh.conn /\ link' = Fresh.link /\ timers' = Fresh.timers
    /\ flight' = SubscribeAll(1) /\ inbox' = {}
    /\ lists' = Lists(db) /\ badge' = Badge(db) /\ screen' = Screen(db)
    /\ UNCHANGED <<up, db, pushed, plan>>

-----------------------------------------------------------------------------
(* gandrd and the connections.                                             *)

DaemonStops ==
    /\ Event /\ plan.stops /\ up /\ up' = FALSE
    /\ link' = [c \in Cli |-> IF link[c].state = "open" THEN [link[c] EXCEPT !.state = "dead", !.subs = {}]
                              ELSE link[c]]
    /\ UNCHANGED <<conn, timers, flight, inbox, screen, lists, badge, db, pushed, plan>>
DaemonStarts ==
    /\ ~up /\ up' = TRUE
    /\ UNCHANGED <<link, conn, timers, flight, inbox, screen, lists, badge, db, pushed, plan, events>>

\* A subscription reaches the daemon, or fails with the connection.
Subscribes ==
    \E x \in flight :
        /\ flight' = flight \ {x}
        /\ link' = IF link[x.c].state # "open" THEN link
                   ELSE [link EXCEPT ![x.c].subs = IF x.op = "sub" THEN @ \cup {x.ch} ELSE @ \ {x.ch}]
        /\ UNCHANGED <<up, conn, timers, inbox, screen, lists, badge, db, pushed, plan, events>>

\* Chat goes to the subscribers, all else to every connection; a connection
\* whose channel is full drops it.
Push ==
    \E e \in plan.env \ pushed :
        /\ Event /\ up /\ pushed' = pushed \cup {e}
        /\ link' = [c \in Cli |->
                IF /\ link[c].state = "open" /\ Len(link[c].queue) < QueueCap
                   /\ e.kind = "chat" => e.about \in link[c].subs
                THEN [link[c] EXCEPT !.queue = Append(@, e)] ELSE link[c]]
        /\ UNCHANGED <<up, conn, timers, flight, inbox, screen, lists, badge, db, plan>>

\* waitIncoming and waitGone.  The channel of a connection that is gone is
\* never closed: what it holds can still be taken, then its listener waits
\* for ever.
WaitIncoming ==
    \E c \in Cli :
        /\ link[c].waiters > 0 /\ link[c].queue # <<>>
        /\ inbox' = inbox \cup {[kind |-> "incoming", e |-> Head(link[c].queue), c |-> c]}
        /\ link' = [link EXCEPT ![c].waiters = @ - 1, ![c].queue = Tail(@)]
        /\ UNCHANGED <<up, conn, timers, flight, screen, lists, badge, db, pushed, plan, events>>
WaitGone ==
    \E c \in Cli :
        /\ link[c].gone /\ link[c].state = "dead"
        /\ inbox' = inbox \cup {[kind |-> "gone", c |-> c]}
        /\ link' = [link EXCEPT ![c].gone = FALSE]
        /\ UNCHANGED <<up, conn, timers, flight, screen, lists, badge, db, pushed, plan, events>>

\* daemonGoneMsg
ApplyGone ==
    \E m \in inbox :
        /\ m.kind = "gone" /\ inbox' = inbox \ {m}
        /\ IF ~conn.connected THEN UNCHANGED <<conn, timers>>
           ELSE /\ conn' = [conn EXCEPT !.connected = FALSE, !.delay = 1, !.in = 1]
                /\ timers' = [timers EXCEPT !.ticks = @ + 1]
        /\ UNCHANGED <<up, link, flight, screen, lists, badge, db, pushed, plan, events>>

\* retryTickMsg: the countdown goes below 0 when a tick of an earlier wait is
\* still pending after r.
RetryTick ==
    /\ timers.ticks > 0
    /\ IF conn.connected
       THEN timers' = [timers EXCEPT !.ticks = @ - 1] /\ UNCHANGED conn
       ELSE /\ conn' = [conn EXCEPT !.in = @ - 1]
            /\ timers' = IF conn.in > 1 THEN timers
                         ELSE [timers EXCEPT !.ticks = @ - 1, !.dials = @ + 1]
    /\ UNCHANGED <<up, link, flight, inbox, screen, lists, badge, db, pushed, plan, events>>

\* r, while disconnected and not typing
RetryNow ==
    /\ Event /\ screen.gate = "off" /\ screen.overlay = "none" /\ ~conn.connected
    /\ conn' = [conn EXCEPT !.in = 0]
    /\ timers' = [timers EXCEPT !.dials = @ + 1]
    /\ UNCHANGED <<up, link, flight, inbox, screen, lists, badge, db, pushed, plan>>

\* attemptReconnect
AttemptReconnect ==
    /\ timers.dials > 0
    /\ IF ~up
       THEN timers' = [timers EXCEPT !.dials = @ - 1, !.fails = @ + 1] /\ UNCHANGED <<link, inbox>>
       ELSE /\ timers' = [timers EXCEPT !.dials = @ - 1]
            /\ \E c \in Cli :
                 /\ link[c].state = "none" /\ \A x \in Cli : x < c => link[x].state # "none"
                 /\ link' = [link EXCEPT ![c].state = "open"]
                 /\ inbox' = inbox \cup {[kind |-> "reconnect", c |-> c]}
    /\ UNCHANGED <<up, conn, flight, screen, lists, badge, db, pushed, plan, events>>

\* Mutant of ApplyFail: the delay is set and nothing counts it down.
ApplyFailOnce ==
    /\ timers.fails > 0
    /\ LET delay == IF 2 * conn.delay > MaxDelay THEN MaxDelay ELSE 2 * conn.delay
       IN  conn' = [conn EXCEPT !.delay = delay, !.in = delay]
    /\ timers' = [timers EXCEPT !.fails = @ - 1]
    /\ UNCHANGED <<up, link, flight, inbox, screen, lists, badge, db, pushed, plan, events>>

\* retryFailMsg: the delay doubles.
ApplyFail ==
    /\ timers.fails > 0
    /\ LET delay == IF 2 * conn.delay > MaxDelay THEN MaxDelay ELSE 2 * conn.delay
       IN  conn' = [conn EXCEPT !.delay = delay, !.in = delay]
    /\ timers' = [timers EXCEPT !.fails = @ - 1, !.ticks = @ + 1]
    /\ UNCHANGED <<up, link, flight, inbox, screen, lists, badge, db, pushed, plan, events>>

\* Mutant of ApplyReconnect: nobody watches for the end of the new connection.
ApplyReconnectUnwatched ==
    \E m \in inbox :
        /\ m.kind = "reconnect" /\ inbox' = inbox \ {m}
        /\ conn' = [conn EXCEPT !.cli = m.c, !.connected = TRUE, !.delay = 1]
        /\ link' = [link EXCEPT ![m.c].waiters = @ + 1]
        /\ flight' = flight \cup SubscribeAll(m.c)
        /\ UNCHANGED <<up, timers, screen, lists, badge, db, pushed, plan, events>>

\* reconnectMsg: the connection is replaced, whichever it was.
ApplyReconnect ==
    \E m \in inbox :
        /\ m.kind = "reconnect" /\ inbox' = inbox \ {m}
        /\ conn' = [conn EXCEPT !.cli = m.c, !.connected = TRUE, !.delay = 1]
        /\ link' = Listens(m.c)
        /\ flight' = flight \cup SubscribeAll(m.c)
        /\ UNCHANGED <<up, timers, screen, lists, badge, db, pushed, plan, events>>

\* peerUpdateMsg
PeerUpdate ==
    /\ Event
    /\ \E ps \in SUBSET Person : ps # lists.peers /\ lists' = [lists EXCEPT !.peers = ps]
    /\ UNCHANGED <<up, link, conn, timers, flight, inbox, screen, badge, db, pushed, plan>>

-----------------------------------------------------------------------------
(* handleIncoming.  seen is history: the item was on screen, or its badge  *)
(* has been cleared since.                                                 *)

Item(e, seen) == [e |-> e, seen |-> seen]
Prepend(s, x) == <<x>> \o s
\* The first with the identifier is removed.
Without(s, id) == Cut(s, {i \in DOMAIN s : s[i].e.id = id})

\* trackPerson
Track(l, p) == IF p = Me THEN l ELSE [l EXCEPT !.people = @ \cup {p}]
ActiveChannel == IF db.channels = <<>> THEN {} ELSE {db.channels[screen.sel]}

HandleChat(e) ==
    LET on == screen.tab = "messages" /\ screen.view = "chat" /\ e.about \in ActiveChannel
    IN  /\ lists' = Track([lists EXCEPT !.talk[e.about] = Append(@, Item(e, on))], e.from)
        /\ badge' = [badge EXCEPT !.chat[e.about] = IF on THEN @ ELSE @ + 1]
        /\ UNCHANGED db

HandlePost(e) ==
    LET on == screen.tab = "feed"
    IN  /\ lists' = Track([lists EXCEPT !.posts = Prepend(@, Item(e, on))], e.from)
        /\ badge' = [badge EXCEPT !.feed = IF on THEN @ ELSE @ + 1]
        /\ UNCHANGED db

\* A new thread moves the open one: openThread is an index.
HandleThread(e) ==
    LET on == screen.tab = "forum"
    IN  /\ lists' = Track([lists EXCEPT !.threads = Prepend(@, Item(e, on))], e.from)
        /\ badge' = [badge EXCEPT !.forum = IF on THEN @ ELSE @ + 1]
        /\ UNCHANGED db

HandleReply(e) ==
    /\ lists' = Track([lists EXCEPT !.replies = @ \cup {e}], e.from)
    /\ UNCHANGED <<badge, db>>
HandleProfile(e) == db' = CacheProfile(db, e.from) /\ UNCHANGED <<lists, badge>>
HandleGuestbook(e) ==
    lists' = [lists EXCEPT !.guestbook = @ \cup {e}] /\ UNCHANGED <<badge, db>>
HandleStatus(e) == lists' = Track(lists, e.from) /\ UNCHANGED <<badge, db>>

\* openSealed: stored, listed and counted.
OpenSealed(e) ==
    /\ db' = PutSealed(db, e)
    /\ lists' = Track([lists EXCEPT !.sealed = @ \cup
            {[e |-> e, read |-> FALSE, copy |-> 1 + Cardinality({x \in @ : x.e = e})]}], e.from)
    /\ badge' = [badge EXCEPT !.sealed = @ + 1]

\* applyDelete: the badges stay.
ApplyDelete(e) ==
    /\ lists' = [lists EXCEPT !.talk = [c \in Channel |-> Without(@[c], e.about)],
                              !.posts = Without(@, e.about), !.threads = Without(@, e.about)]
    /\ UNCHANGED <<badge, db>>

\* incomingMsg: the listener is armed again, on the connection of now.
HandleIncoming ==
    \E m \in inbox :
        /\ m.kind = "incoming" /\ inbox' = inbox \ {m}
        /\ link' = [link EXCEPT ![conn.cli].waiters = @ + 1]
        /\ IF m.e.from \in db.blocked THEN UNCHANGED <<lists, badge, db>>
           ELSE \/ m.e.kind = "chat" /\ HandleChat(m.e)
                \/ m.e.kind = "post" /\ HandlePost(m.e)
                \/ m.e.kind = "thread" /\ HandleThread(m.e)
                \/ m.e.kind = "reply" /\ HandleReply(m.e)
                \/ m.e.kind = "profile" /\ HandleProfile(m.e)
                \/ m.e.kind = "guestbook" /\ HandleGuestbook(m.e)
                \/ m.e.kind = "status" /\ HandleStatus(m.e)
                \/ m.e.kind = "sealed" /\ OpenSealed(m.e)
                \/ m.e.kind = "delete" /\ ApplyDelete(m.e)
        /\ UNCHANGED <<up, conn, timers, flight, screen, pushed, plan, events>>

-----------------------------------------------------------------------------
(* Keys and clicks.                                                        *)

\* handleKey: the gate first, then an overlay, then the tab.
Keys(t) == screen.gate = "off" /\ screen.overlay = "none" /\ screen.tab = t
Chatting == Keys("messages") /\ screen.view = "chat"
Sealing == Keys("messages") /\ screen.view = "sealed"
ScreenOnly == Event /\ UNCHANGED <<net, lists, badge, db>>
DbOnly == Event /\ UNCHANGED <<net, lists, badge, screen>>

AllSeen(s) == [i \in DOMAIN s |-> [s[i] EXCEPT !.seen = TRUE]]
Shown(talk, cs) == [c \in Channel |-> IF c \in cs THEN AllSeen(talk[c]) ELSE talk[c]]

\* switchTab clears the badge of the tab.
SwitchTab(t, scr) ==
    /\ screen' = [scr EXCEPT !.tab = t]
    /\ badge' = [badge EXCEPT
            !.feed = IF t = "feed" THEN 0 ELSE @, !.forum = IF t = "forum" THEN 0 ELSE @,
            !.chat = [c \in Channel |-> IF t = "messages" /\ scr.view = "chat" /\ c \in ActiveChannel
                                        THEN 0 ELSE @[c]]]
    /\ lists' = [lists EXCEPT !.posts = IF t = "feed" THEN AllSeen(@) ELSE @,
                              !.threads = IF t = "forum" THEN AllSeen(@) ELSE @,
                              !.talk = IF t = "messages" /\ scr.view = "chat" THEN Shown(@, ActiveChannel) ELSE @]
    /\ Event /\ UNCHANGED <<net, db>>

\* tab, shift+tab, 1 to 6 and the tab bar
PressTab ==
    /\ screen.gate = "off" /\ screen.overlay = "none"
    /\ \E t \in plan.tabs : SwitchTab(t, screen)

\* handleGateKey: accepted once, or read again and left with any key.
GateKey ==
    /\ screen.gate # "off"
    /\ screen' = [screen EXCEPT !.gate = "off"]
    /\ db' = IF screen.gate = "first" THEN SetSetting(db) ELSE db
    /\ Event /\ UNCHANGED <<net, lists, badge>>

\* openNickOverlay, openSealOverlay, openCompose
Opens(kind, target) == screen' = [screen EXCEPT !.overlay = kind, !.target = target] /\ ScreenOnly
ShowProfile(p) == SwitchTab("people", [screen EXCEPT !.detail = TRUE, !.profile = p])

\* ? and q, in every tab
GlobalKey ==
    /\ screen.gate = "off" /\ screen.overlay = "none"
    /\ \E kind \in {"help", "quit"} : Opens(kind, Me)

\* i, and n, p, s on the message under the cursor
ChatKey ==
    /\ Chatting
    /\ \/ screen' = [screen EXCEPT !.view = "sealed"] /\ ScreenOnly
       \/ \E c \in ActiveChannel : \E p \in Senders(lists.talk[c]) :
             Opens("nick", p) \/ Opens("seal", p) \/ ShowProfile(p)

PeopleKey ==
    /\ Keys("people") /\ ~screen.detail
    /\ \/ \E p \in lists.people \cup {Me} :
             screen' = [screen EXCEPT !.detail = TRUE, !.profile = p] /\ ScreenOnly
       \/ /\ screen' = [screen EXCEPT !.detail = TRUE, !.profile = Me, !.overlay = "profile"]
          /\ ScreenOnly
       \/ \E p \in lists.people :
             \/ Opens("nick", p) \/ Opens("seal", p)
             \/ db' = (IF p \in db.blocked THEN Unblock(db, p) ELSE Block(db, p)) /\ DbOnly

ProfileKey ==
    /\ Keys("people") /\ screen.detail
    /\ \/ screen.profile # Me /\ \E kind \in {"seal", "guestbook", "nick"} : Opens(kind, screen.profile)
       \/ screen.profile = Me /\ Opens("profile", screen.target)
       \/ screen' = [screen EXCEPT !.detail = FALSE, !.profile = Me] /\ ScreenOnly

\* r replies to the selected post; while disconnected it is RetryNow.
FeedKey ==
    /\ Keys("feed")
    /\ \/ Opens("post", Me)
       \/ conn.connected /\ lists.posts # <<>> /\ Opens("reply", Me)
       \/ \E p \in Senders(lists.posts) : ShowProfile(p) \/ Opens("seal", p)

ForumKey ==
    /\ Keys("forum")
    /\ \/ /\ screen.open = 0
          /\ \/ Opens("thread", Me)
             \/ \E p \in Senders(lists.threads) : ShowProfile(p)
             \/ \E i \in DOMAIN lists.threads : screen' = [screen EXCEPT !.open = i] /\ ScreenOnly
       \/ /\ screen.open > 0
          /\ \/ screen' = [screen EXCEPT !.open = 0] /\ ScreenOnly
             \/ /\ screen.open <= Len(lists.threads)
                /\ \/ conn.connected /\ Opens("reply", Me)
                   \/ Opens("nick", lists.threads[screen.open].e.from)

\* Mutant of Reveal: what was read in an earlier run counts again.
RevealAgain(x) ==
    /\ lists' = [lists EXCEPT !.revealed = @ \cup {x.e},
                              !.sealed = (@ \ {x}) \cup {[x EXCEPT !.read = TRUE]}]
    /\ db' = MarkSealedRead(db, x.e)
    /\ badge' = [badge EXCEPT !.sealed = IF @ > 0 THEN @ - 1 ELSE 0]

\* The first opening of an unread message marks it read, in the database too.
Reveal(x) ==
    /\ lists' = [lists EXCEPT !.revealed = @ \cup {x.e},
                              !.sealed = (@ \ {x}) \cup {[x EXCEPT !.read = TRUE]}]
    /\ IF x.read THEN UNCHANGED <<badge, db>>
       ELSE /\ db' = MarkSealedRead(db, x.e)
            /\ badge' = [badge EXCEPT !.sealed = IF @ > 0 THEN @ - 1 ELSE 0]

\* enter, s, d, n, p on a sealed message; esc
SealedKey ==
    /\ Sealing
    /\ \/ screen' = [screen EXCEPT !.view = "chat"] /\ ScreenOnly
       \/ \E x \in lists.sealed :
             \/ x.e \notin lists.revealed /\ Reveal(x) /\ Event /\ UNCHANGED <<net, screen>>
             \/ x.e \in lists.revealed /\ Opens("seal", x.e.from)
             \/ Opens("nick", x.e.from) \/ ShowProfile(x.e.from)

PeersKey ==
    /\ Keys("network")
    /\ Opens("connect", Me) \/ \E p \in lists.peers : Opens("nick", p)

\* A section of the settings, and the manifesto again.
SettingsKey ==
    /\ Keys("settings")
    /\ \/ screen' = [screen EXCEPT !.section = ~@] /\ ScreenOnly
       \/ screen.section /\ screen' = [screen EXCEPT !.gate = "again"] /\ ScreenOnly

\* handleMouse: a channel, the sealed inbox or a person of the side bar
ClickSidebar ==
    /\ screen.gate = "off" /\ screen.overlay = "none"
    /\ \/ \E i \in DOMAIN db.channels :
             /\ screen' = [screen EXCEPT !.sel = i, !.tab = "messages", !.view = "chat"]
             /\ badge' = [badge EXCEPT !.chat[db.channels[i]] = 0]
             /\ lists' = [lists EXCEPT !.talk = Shown(@, {db.channels[i]})]
             /\ Event /\ UNCHANGED <<net, db>>
       \/ screen' = [screen EXCEPT !.tab = "messages", !.view = "sealed"] /\ ScreenOnly
       \/ lists.people # {} /\ SwitchTab("people", [screen EXCEPT !.detail = FALSE])

-----------------------------------------------------------------------------
(* Lines and overlays.                                                     *)

\* /join: the database and the list at once, the daemon later.
Join ==
    \E ch \in Channel :
        LET d == JoinChannel(db, ch)
        IN
        /\ db' = d
        /\ screen' = [screen EXCEPT !.sel = CHOOSE i \in DOMAIN d.channels : d.channels[i] = ch]
        /\ flight' = flight \cup {[op |-> "sub", c |-> conn.cli, ch |-> ch]}
        /\ Event /\ UNCHANGED <<up, link, conn, timers, inbox, lists, badge, pushed, plan>>

\* Mutant of Leave: the selection stays where it was.
LeaveUnclamped ==
    \E ch \in ActiveChannel :
        /\ db' = LeaveChannel(db, ch)
        /\ flight' = flight \cup {[op |-> "unsub", c |-> conn.cli, ch |-> ch]}
        /\ Event /\ UNCHANGED <<up, link, conn, timers, inbox, screen, lists, badge, pushed, plan>>

\* /leave
Leave ==
    \E ch \in ActiveChannel :
        LET d == LeaveChannel(db, ch)
        IN
        /\ db' = d
        /\ screen' = [screen EXCEPT !.sel = IF @ <= Len(d.channels) \/ @ = 1 THEN @ ELSE @ - 1]
        /\ flight' = flight \cup {[op |-> "unsub", c |-> conn.cli, ch |-> ch]}
        /\ Event /\ UNCHANGED <<up, link, conn, timers, inbox, lists, badge, pushed, plan>>

\* /nick keeps a note that there is, /note a name.
LocalCommand ==
    \E p \in Person \cup {Me} :
        /\ db' \in {SetNickname(db, p, IF db.nick[p] = "note" THEN "note" ELSE "name"),
                    SetNickname(db, p, "note"), Block(db, p), Unblock(db, p)}
        /\ DbOnly

\* sendChat, with local echo
SendChat ==
    \E ch \in ActiveChannel, e \in Own :
        /\ e.kind = "chat" /\ e.about = ch
        /\ lists' = [lists EXCEPT !.talk[ch] = Append(@, Item(e, TRUE))]
        /\ Event /\ UNCHANGED <<net, screen, badge, db>>

\* The other commands of runCommand.
RunCommand ==
    \/ Join \/ Leave \/ LocalCommand \/ Opens("help", Me)
    \/ \E p \in Person \cup {Me} : Opens("seal", p)
    \/ screen' = [screen EXCEPT !.view = "sealed"] /\ ScreenOnly
    \/ \E p \in Person \cup {Me} : ShowProfile(p)
    \/ SwitchTab("people", [screen EXCEPT !.detail = FALSE])
    \/ SwitchTab("network", screen)

\* enter in the chat
EnterLine == Chatting /\ plan.lines /\ (RunCommand \/ SendChat)

\* submitOverlay closes the overlay first; what is made locally is shown.
Closed == [screen EXCEPT !.overlay = "none"]
SubmitOverlay ==
    LET made(kind) == {e \in Own : e.kind = kind}
    IN
    /\ screen' = Closed
    /\ \/ /\ screen.overlay = "nick"
          /\ \/ \E n \in {"name", "note"} : db' = SetNickname(db, screen.target, n)
             \/ db' = DeleteNickname(db, screen.target)
          /\ UNCHANGED lists
       \/ /\ UNCHANGED db
          /\ \/ /\ screen.overlay = "guestbook"
                /\ \E e \in made("guestbook") : lists' = [lists EXCEPT !.guestbook = @ \cup {e}]
             \/ /\ screen.overlay = "post"
                /\ \E e \in made("post") : lists' = [lists EXCEPT !.posts = Prepend(@, Item(e, TRUE))]
             \/ /\ screen.overlay = "reply"
                /\ \E e \in made("reply") : lists' = [lists EXCEPT !.replies = @ \cup {e}]
             \/ /\ screen.overlay = "thread"
                /\ \E e \in made("thread") : lists' = [lists EXCEPT !.threads = Prepend(@, Item(e, TRUE))]
             \/ screen.overlay \in {"seal", "profile", "connect"} /\ UNCHANGED lists
    /\ Event /\ UNCHANGED <<net, badge>>

\* esc, or an empty field
CloseOverlay == screen.overlay # "none" /\ screen' = Closed /\ ScreenOnly

Key ==
    \/ GlobalKey \/ PressTab \/ GateKey \/ ChatKey \/ PeopleKey \/ ProfileKey \/ FeedKey \/ ForumKey
    \/ SealedKey \/ PeersKey \/ SettingsKey \/ ClickSidebar \/ EnterLine \/ SubmitOverlay
    \/ CloseOverlay \/ RetryNow

Next ==
    \/ Restart \/ DaemonStops \/ DaemonStarts \/ Subscribes \/ Push \/ WaitIncoming \/ WaitGone
    \/ ApplyGone \/ RetryTick \/ AttemptReconnect \/ ApplyFail \/ ApplyReconnect
    \/ PeerUpdate \/ HandleIncoming \/ Key

\* Timers fire, commands run and their messages are applied.
Fairness ==
    /\ WF_vars(WaitGone) /\ WF_vars(ApplyGone) /\ WF_vars(RetryTick)
    /\ WF_vars(AttemptReconnect) /\ WF_vars(ApplyFail) /\ WF_vars(ApplyReconnect)

Spec == Init /\ [][Next]_vars /\ Fairness

-----------------------------------------------------------------------------
Unseen(s) == \E i \in DOMAIN s : ~s[i].seen

\* Every variable has its type; the selected channel is one of the list.  The
\* countdown has no lower bound: each r can leave a tick behind.
TypeOK ==
    /\ conn.cli \in Cli /\ conn.delay \in 1..MaxDelay
    /\ conn.in \in Int /\ conn.in <= MaxDelay
    /\ \A c \in Cli : Len(link[c].queue) <= QueueCap
    /\ screen.tab \in Tab /\ {screen.target, screen.profile} \subseteq Person \cup {Me}
    /\ db.channels # <<>> => screen.sel \in DOMAIN db.channels
    /\ db.blocked \subseteq Person \cup {Me} /\ lists.people \subseteq Person

\* A client that shows itself connected hears what its connection brings and
\* when it ends; one that does not is about to try again.
NeverDeaf ==
    IF conn.connected
    THEN /\ link[conn.cli].waiters > 0 \/ \E m \in inbox : m.kind = "incoming"
         /\ link[conn.cli].gone \/ \E m \in inbox : m.kind = "gone"
    ELSE \/ timers.ticks + timers.dials + timers.fails > 0
         \/ \E m \in inbox : m.kind = "reconnect"

\* The badges hide nothing: the sealed one counts the unread messages of the
\* list, which has all the database holds as unread, so that it is right again
\* after a restart; without a badge there is no line, post or thread unseen.
BadgesTell ==
    /\ badge.sealed = Cardinality({x \in lists.sealed : ~x.read})
    /\ \A e \in ListSealed(db) : db.sealed[e] = "unread" => \E x \in lists.sealed : x.e = e /\ ~x.read
    /\ badge.feed = 0 => ~Unseen(lists.posts)
    /\ badge.forum = 0 => ~Unseen(lists.threads)
    /\ \A c \in Channel : badge.chat[c] = 0 => ~Unseen(lists.talk[c])

\* When gandrd stays up, the client is in the end connected to it for good.
Reconnects == <>[]up => <>[](conn.connected /\ link[conn.cli].state = "open")
=============================================================================
