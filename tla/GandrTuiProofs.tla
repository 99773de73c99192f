--------------------------- MODULE GandrTuiProofs ---------------------------
(***************************************************************************)
(* For every daemon, database and sequence of keys: the client hears what  *)
(* its connection brings or is about to dial again, its selections are     *)
(* within their lists, and its badges hide nothing.                        *)
(***************************************************************************)
EXTENDS GandrTui, FiniteSetTheorems, FunctionTheorems, SequenceTheorems, TLAPS

LinkType == [state : {"none", "open", "dead"}, subs : SUBSET Channel, queue : Seq(Env),
             waiters : Nat, gone : BOOLEAN]
ConnType == [cli : Cli, connected : BOOLEAN, delay : 1..MaxDelay, in : {i \in Int : i <= MaxDelay}]
TimersType == [ticks : Nat, dials : Nat, fails : Nat]
Flights == [op : {"sub", "unsub"}, c : Cli, ch : Channel]
Messages == [kind : {"incoming"}, e : Env, c : Cli] \cup [kind : {"gone", "reconnect"}, c : Cli]

\* The types of the connections and of what is on its way.
NetTypes ==
    /\ link \in [Cli -> LinkType] /\ \A c \in Cli : Len(link[c].queue) <= QueueCap
    /\ conn \in ConnType /\ timers \in TimersType
    /\ flight \subseteq Flights /\ inbox \subseteq Messages /\ plan \in Plan

ItemType == [e : Letter, seen : BOOLEAN]
Items == Seq(ItemType)
SealedItem == [e : Letter, read : BOOLEAN, copy : Nat]
ListsType == [talk : [Channel -> Items], posts : Items, threads : Items,
              replies : SUBSET Letter, guestbook : SUBSET Letter, people : SUBSET Person,
              peers : SUBSET Person, revealed : SUBSET Letter, sealed : SUBSET SealedItem]
BadgeType == [chat : [Channel -> Nat], feed : Nat, forum : Nat, sealed : Nat]
Overlays == {"none", "help", "quit", "nick", "seal", "profile", "guestbook", "post", "reply",
             "thread", "connect"}
ScreenType == [tab : Tab, view : {"chat", "sealed"}, overlay : Overlays, target : User,
               profile : User, sel : Nat, gate : {"off", "first", "again"}, detail : BOOLEAN,
               open : Nat, section : BOOLEAN]

\* The types of what is shown and kept.
ViewTypes ==
    /\ lists \in ListsType /\ badge \in BadgeType /\ screen \in ScreenType /\ DbType(db)

\* A channel that is selected is there.
Selects == db.channels # <<>> => screen.sel \in DOMAIN db.channels

\* The copies of a sealed message are told apart by their numbers, which
\* leave the next number free.
Copies(e) == {x \in lists.sealed : x.e = e}
CopiesDiffer ==
    /\ IsFiniteSet(lists.sealed)
    /\ \A x, y \in lists.sealed : x.e = y.e /\ x.copy = y.copy => x = y
    /\ \A x \in lists.sealed : x.copy <= Cardinality(Copies(x.e))

\* The two halves of BadgesTell.
Sealeds == {x \in lists.sealed : ~x.read}
SealedTells ==
    /\ badge.sealed = Cardinality(Sealeds)
    /\ \A e \in DOMAIN db.sealed : db.sealed[e] = "unread" => \E x \in lists.sealed : x.e = e /\ ~x.read
LinesTell ==
    /\ badge.feed = 0 => ~Unseen(lists.posts)
    /\ badge.forum = 0 => ~Unseen(lists.threads)
    /\ \A c \in Channel : badge.chat[c] = 0 => ~Unseen(lists.talk[c])

ViewInv == ViewTypes /\ Selects /\ CopiesDiffer /\ SealedTells /\ LinesTell

\* The inductive invariant.
IInv == NetTypes /\ NeverDeaf /\ ViewInv

-----------------------------------------------------------------------------
(* The connections.                                                        *)

\* A connection of which one field is changed is a connection.
LEMMA OneLink ==
    ASSUME NetTypes, NEW c \in Cli, NEW k \in LinkType, Len(k.queue) <= QueueCap
    PROVE  LET new == [link EXCEPT ![c] = k]
           IN  /\ new \in [Cli -> LinkType] /\ new[c] = k
               /\ \A x \in Cli \ {c} : new[x] = link[x]
               /\ \A x \in Cli : Len(new[x].queue) <= QueueCap
  BY DEF NetTypes

\* What the listeners of a new connection are.
LEMMA ListensType ==
    ASSUME NetTypes, NEW c \in Cli
    PROVE  /\ Listens(c) \in [Cli -> LinkType]
           /\ Listens(c)[c].waiters > 0 /\ Listens(c)[c].gone
           /\ \A x \in Cli : Len(Listens(c)[x].queue) <= QueueCap
<1> DEFINE w == link[c].waiters + 1
           k == [link[c] EXCEPT !.waiters = w, !.gone = TRUE]
<1>1. link \in [Cli -> LinkType] /\ link[c] \in LinkType /\ w \in Nat /\ w > 0
  BY DEF NetTypes, LinkType
<1>3. Listens(c) = [link EXCEPT ![c] = k]
  BY <1>1 DEF Listens
<1> HIDE DEF w
<1>2. k \in LinkType /\ k.waiters > 0 /\ k.gone /\ k.queue = link[c].queue
  BY <1>1 DEF LinkType
<1>4. Len(k.queue) <= QueueCap
  BY <1>2 DEF NetTypes
<1> HIDE DEF k
<1> QED BY <1>1, <1>2, <1>3, <1>4, OneLink

\* The subscriptions that a connection is to make.
LEMMA SubscribeAllType ==
    ASSUME DbType(db), NEW c \in Cli
    PROVE  SubscribeAll(c) \subseteq Flights
<1>1. Elems(db.channels) \subseteq Channel
  BY DEF DbType, Elems
<1> QED BY <1>1 DEF SubscribeAll, Flights

\* What a client has when it starts: one connection, and its listeners.
LEMMA FreshType ==
    /\ Fresh.conn \in ConnType /\ Fresh.timers \in TimersType
    /\ Fresh.link \in [Cli -> LinkType] /\ 1 \in Cli
    /\ \A c \in Cli : Len(Fresh.link[c].queue) <= QueueCap
    /\ Fresh.conn.connected /\ Fresh.conn.cli = 1
    /\ Fresh.link[1].waiters > 0 /\ Fresh.link[1].gone
<1>1. QueueCap \in Nat /\ MaxDelay \in Nat \ {0} /\ 1 \in Cli
  BY TuiAssumption DEF Cli
<1>2. NoLink \in LinkType /\ Len(NoLink.queue) = 0
  BY DEF NoLink, LinkType
<1> DEFINE k == [NoLink EXCEPT !.state = "open", !.waiters = 1, !.gone = TRUE]
<1>3. k \in LinkType /\ Len(k.queue) = 0 /\ k.waiters = 1 /\ k.gone
  BY <1>2 DEF LinkType
<1> HIDE DEF k
<1>4. Fresh.link = [c \in Cli |-> IF c = 1 THEN k ELSE NoLink]
  BY DEF Fresh, k
<1>5. /\ Fresh.link \in [Cli -> LinkType] /\ Fresh.link[1] = k
      /\ \A c \in Cli : Len(Fresh.link[c].queue) = 0
  BY <1>1, <1>2, <1>3, <1>4
<1>6. Fresh.conn \in ConnType /\ Fresh.timers \in TimersType
      /\ Fresh.conn.connected /\ Fresh.conn.cli = 1
  BY <1>1 DEF Fresh, ConnType, TimersType
<1> QED BY <1>1, <1>3, <1>5, <1>6

\* A start leaves the client hearing.
LEMMA StartHears ==
    /\ plan \in Plan /\ DbType(db) /\ conn = Fresh.conn /\ link = Fresh.link
    /\ timers = Fresh.timers /\ flight = SubscribeAll(1) /\ inbox = {}
    => NetTypes /\ NeverDeaf
<1> SUFFICES ASSUME plan \in Plan, DbType(db), conn = Fresh.conn, link = Fresh.link,
                    timers = Fresh.timers, flight = SubscribeAll(1), inbox = {}
             PROVE  NetTypes /\ NeverDeaf
  OBVIOUS
<1>1. NetTypes
  BY FreshType, SubscribeAllType DEF NetTypes
<1>2. NeverDeaf
  BY FreshType DEF NeverDeaf
<1> QED BY <1>1, <1>2

\* The connections are left alone, but for subscriptions asked for.
LEMMA NetStays ==
    ASSUME NetTypes, NeverDeaf, UNCHANGED <<link, conn, timers, inbox, plan>>,
           flight' \subseteq flight \cup Flights
    PROVE  NetTypes' /\ NeverDeaf'
  BY DEF NetTypes, NeverDeaf

\* Steps of the daemon, of the listeners and of the dialling.
LEMMA DaemonHears ==
    ASSUME NetTypes, NeverDeaf, DaemonStops \/ DaemonStarts \/ Subscribes \/ Push
    PROVE  NetTypes' /\ NeverDeaf'
<1>0. link \in [Cli -> LinkType] /\ conn.cli \in Cli /\ conn \in ConnType
  BY DEF NetTypes, ConnType
<1>a. ASSUME UNCHANGED <<conn, timers, inbox, plan>>, flight' \subseteq flight,
             link' \in [Cli -> LinkType], \A c \in Cli : Len(link'[c].queue) <= QueueCap,
             \A c \in Cli : link'[c].waiters = link[c].waiters /\ link'[c].gone = link[c].gone
      PROVE  NetTypes' /\ NeverDeaf'
  <2>1. NetTypes'
    BY <1>a DEF NetTypes
  <2>2. NeverDeaf'
    BY <1>0, <1>a DEF NeverDeaf
  <2> QED BY <2>1, <2>2
<1>1. CASE DaemonStops
  <2>1. ASSUME NEW c \in Cli
        PROVE  /\ link'[c] \in LinkType /\ Len(link'[c].queue) <= QueueCap
               /\ link'[c].waiters = link[c].waiters /\ link'[c].gone = link[c].gone
    <3>1. link[c] \in LinkType /\ Len(link[c].queue) <= QueueCap
      BY DEF NetTypes
    <3>2. link'[c] \in {link[c], [link[c] EXCEPT !.state = "dead", !.subs = {}]}
      BY <1>1 DEF DaemonStops
    <3>3. [link[c] EXCEPT !.state = "dead", !.subs = {}] \in LinkType
          /\ [link[c] EXCEPT !.state = "dead", !.subs = {}].queue = link[c].queue
          /\ [link[c] EXCEPT !.state = "dead", !.subs = {}].waiters = link[c].waiters
          /\ [link[c] EXCEPT !.state = "dead", !.subs = {}].gone = link[c].gone
      BY <3>1 DEF LinkType
    <3> QED BY <3>1, <3>2, <3>3
  <2>2. link' = [c \in Cli |-> link'[c]] /\ UNCHANGED <<conn, timers, inbox, plan, flight>>
    BY <1>1 DEF DaemonStops
  <2>3. link' \in [Cli -> LinkType]
    BY <2>1, <2>2
  <2> QED BY <1>a, <2>1, <2>2, <2>3
<1>2. CASE DaemonStarts
  BY <1>2, NetStays DEF DaemonStarts
<1>3. CASE Subscribes
  <2>1. PICK x \in flight :
          /\ flight' = flight \ {x} /\ UNCHANGED <<conn, timers, inbox, plan>>
          /\ link' = IF link[x.c].state # "open" THEN link
                     ELSE [link EXCEPT ![x.c].subs = IF x.op = "sub" THEN @ \cup {x.ch} ELSE @ \ {x.ch}]
    BY <1>3 DEF Subscribes
  <2>2. x.c \in Cli /\ x.ch \in Channel
    BY DEF NetTypes, Flights
  <2> DEFINE s == IF x.op = "sub" THEN link[x.c].subs \cup {x.ch} ELSE link[x.c].subs \ {x.ch}
             k == [link[x.c] EXCEPT !.subs = s]
  <2>3. link[x.c] \in LinkType /\ Len(link[x.c].queue) <= QueueCap
    BY <2>2 DEF NetTypes
  <2>4. s \in SUBSET Channel
    BY <2>2, <2>3 DEF LinkType
  <2>5. link' = link \/ link' = [link EXCEPT ![x.c] = k]
    BY <2>1
  <2> HIDE DEF s
  <2>6. /\ k \in LinkType /\ k.queue = link[x.c].queue
        /\ k.waiters = link[x.c].waiters /\ k.gone = link[x.c].gone
    BY <2>3, <2>4 DEF LinkType
  <2> HIDE DEF k
  <2>7. CASE link' = link
    BY <2>1, <2>7, NetStays
  <2>8. CASE link' = [link EXCEPT ![x.c] = k]
    BY <1>a, <2>1, <2>2, <2>3, <2>6, <2>8, OneLink
  <2> QED BY <2>5, <2>7, <2>8
<1>4. CASE Push
  <2>1. PICK e \in plan.env :
          /\ link' = [c \in Cli |->
                IF /\ link[c].state = "open" /\ Len(link[c].queue) < QueueCap
                   /\ e.kind = "chat" => e.about \in link[c].subs
                THEN [link[c] EXCEPT !.queue = Append(@, e)] ELSE link[c]]
          /\ UNCHANGED <<conn, timers, inbox, plan, flight>>
    BY <1>4 DEF Push
  <2>2. e \in Env
    BY TuiAssumption DEF NetTypes
  <2>3. ASSUME NEW c \in Cli
        PROVE  /\ link'[c] \in LinkType /\ Len(link'[c].queue) <= QueueCap
               /\ link'[c].waiters = link[c].waiters /\ link'[c].gone = link[c].gone
    <3>1. link[c] \in LinkType /\ Len(link[c].queue) <= QueueCap /\ link[c].queue \in Seq(Env)
      BY DEF NetTypes, LinkType
    <3>2. CASE link'[c] = link[c]
      BY <3>1, <3>2
    <3>3. CASE link'[c] = [link[c] EXCEPT !.queue = Append(@, e)] /\ Len(link[c].queue) < QueueCap
      <4> DEFINE q == Append(link[c].queue, e)
      <4>1. q \in Seq(Env) /\ Len(q) = Len(link[c].queue) + 1 /\ Len(link[c].queue) \in Nat
        BY <2>2, <3>1, AppendProperties, LenProperties
      <4>2. link'[c] = [link[c] EXCEPT !.queue = q]
        BY <3>3
      <4> HIDE DEF q
      <4>3. /\ link'[c] \in LinkType /\ link'[c].queue = q
            /\ link'[c].waiters = link[c].waiters /\ link'[c].gone = link[c].gone
        BY <3>1, <4>1, <4>2 DEF LinkType
      <4>4. Len(q) <= QueueCap
        BY <3>3, <4>1, TuiAssumption
      <4> QED BY <4>3, <4>4
    <3> QED BY <2>1, <3>2, <3>3
  <2>4. link' \in [Cli -> LinkType]
    BY <2>1, <2>3
  <2> QED BY <1>a, <2>1, <2>3, <2>4
<1> QED BY <1>1, <1>2, <1>3, <1>4

\* The listeners take what came, and learn of the end.
LEMMA ListenersHear ==
    ASSUME NetTypes, NeverDeaf, WaitIncoming \/ WaitGone
    PROVE  NetTypes' /\ NeverDeaf'
<1>0. link \in [Cli -> LinkType] /\ conn.cli \in Cli
  BY DEF NetTypes, ConnType
<1>1. CASE WaitIncoming
  <2>1. PICK c \in Cli :
          /\ link[c].waiters > 0 /\ link[c].queue # <<>>
          /\ inbox' = inbox \cup {[kind |-> "incoming", e |-> Head(link[c].queue), c |-> c]}
          /\ link' = [link EXCEPT ![c].waiters = @ - 1, ![c].queue = Tail(@)]
          /\ UNCHANGED <<conn, timers, flight, plan>>
    BY <1>1 DEF WaitIncoming
  <2> DEFINE w == link[c].waiters - 1
             q == Tail(link[c].queue)
             k == [link[c] EXCEPT !.waiters = w, !.queue = q]
             m == [kind |-> "incoming", e |-> Head(link[c].queue), c |-> c]
  <2>2. link[c] \in LinkType /\ link[c].waiters \in Nat /\ link[c].queue \in Seq(Env)
        /\ Len(link[c].queue) <= QueueCap /\ QueueCap \in Nat
    BY TuiAssumption DEF NetTypes, LinkType
  <2>3. w \in Nat
    BY <2>1, <2>2
  <2>4. q \in Seq(Env) /\ Len(q) <= QueueCap /\ Head(link[c].queue) \in Env
    BY <2>1, <2>2, EmptySeq, HeadTailProperties, LenProperties
  <2>5. link' = [link EXCEPT ![c] = k]
    BY <1>0, <2>1
  <2>6. m \in Messages /\ m.kind = "incoming" /\ inbox' = inbox \cup {m}
    BY <2>1, <2>4 DEF Messages
  <2> HIDE DEF w, q, m
  <2>7. k \in LinkType /\ k.queue = q /\ k.gone = link[c].gone
    BY <2>2, <2>3, <2>4 DEF LinkType
  <2> HIDE DEF k
  <2>a. link' \in [Cli -> LinkType] /\ \A x \in Cli : Len(link'[x].queue) <= QueueCap
    BY <2>4, <2>5, <2>7, OneLink
  <2>8. NetTypes'
    BY <2>1, <2>6, <2>a DEF NetTypes
  <2>9. \A x \in Cli : link'[x].gone = link[x].gone
    BY <1>0, <2>5, <2>7
  <2>10. NeverDeaf'
    BY <1>0, <2>1, <2>6, <2>9 DEF NeverDeaf
  <2> QED BY <2>8, <2>10
<1>2. CASE WaitGone
  <2>1. PICK c \in Cli :
          /\ inbox' = inbox \cup {[kind |-> "gone", c |-> c]}
          /\ link' = [link EXCEPT ![c].gone = FALSE]
          /\ UNCHANGED <<conn, timers, flight, plan>>
    BY <1>2 DEF WaitGone
  <2> DEFINE k == [link[c] EXCEPT !.gone = FALSE]
             m == [kind |-> "gone", c |-> c]
  <2>2. link[c] \in LinkType /\ Len(link[c].queue) <= QueueCap
    BY DEF NetTypes
  <2>3. k \in LinkType /\ k.queue = link[c].queue /\ k.waiters = link[c].waiters
    BY <2>2 DEF LinkType
  <2>4. link' = [link EXCEPT ![c] = k]
    BY <2>1
  <2>5. m \in Messages /\ m.kind = "gone" /\ inbox' = inbox \cup {m}
    BY <2>1 DEF Messages
  <2> HIDE DEF k, m
  <2>a. link' \in [Cli -> LinkType] /\ \A x \in Cli : Len(link'[x].queue) <= QueueCap
    BY <2>2, <2>3, <2>4, OneLink
  <2>6. NetTypes'
    BY <2>1, <2>5, <2>a DEF NetTypes
  <2>7. \A x \in Cli : link'[x].waiters = link[x].waiters
    BY <1>0, <2>3, <2>4
  <2>8. NeverDeaf'
    BY <1>0, <2>1, <2>5, <2>7 DEF NeverDeaf
  <2> QED BY <2>6, <2>8
<1> QED BY <1>1, <1>2

\* A client that has lost its connection keeps dialling until it has one.
LEMMA DiallingHears ==
    ASSUME NetTypes, NeverDeaf,
           ApplyGone \/ RetryTick \/ RetryNow \/ AttemptReconnect \/ ApplyFail
    PROVE  NetTypes' /\ NeverDeaf'
<1>0. /\ link \in [Cli -> LinkType] /\ conn \in ConnType /\ conn.cli \in Cli
      /\ timers \in TimersType /\ timers.ticks \in Nat /\ timers.dials \in Nat /\ timers.fails \in Nat
      /\ MaxDelay \in Nat \ {0} /\ conn.in \in Int /\ conn.in <= MaxDelay /\ conn.delay \in 1..MaxDelay
  BY TuiAssumption DEF NetTypes, ConnType, TimersType
<1>1. CASE ApplyGone
  <2>1. PICK m \in inbox :
          /\ m.kind = "gone" /\ inbox' = inbox \ {m}
          /\ IF ~conn.connected THEN UNCHANGED <<conn, timers>>
             ELSE /\ conn' = [conn EXCEPT !.connected = FALSE, !.delay = 1, !.in = 1]
                  /\ timers' = [timers EXCEPT !.ticks = @ + 1]
          /\ UNCHANGED <<link, flight, plan>>
    BY <1>1 DEF ApplyGone
  <2>2. CASE ~conn.connected
    BY <1>0, <2>1, <2>2 DEF NetTypes, NeverDeaf
  <2>3. CASE conn.connected
    <3> DEFINE t == timers.ticks + 1
    <3>1. t \in Nat /\ t > 0
      BY <1>0
    <3>2. timers' = [timers EXCEPT !.ticks = t]
          /\ conn' = [conn EXCEPT !.connected = FALSE, !.delay = 1, !.in = 1]
      BY <2>1, <2>3
    <3> HIDE DEF t
    <3>3. /\ timers' \in TimersType /\ timers'.ticks = t /\ timers'.dials = timers.dials
          /\ timers'.fails = timers.fails
      BY <1>0, <3>1, <3>2 DEF TimersType
    <3>4. timers'.ticks + timers'.dials + timers'.fails > 0
      BY <1>0, <3>1, <3>3
    <3>5. 1 \in 1..MaxDelay /\ 1 \in Int /\ 1 <= MaxDelay
      BY <1>0
    <3>6. conn' \in ConnType /\ ~conn'.connected
      BY <1>0, <3>2, <3>5 DEF ConnType
    <3>7. NetTypes'
      BY <2>1, <3>3, <3>6 DEF NetTypes
    <3> QED BY <3>4, <3>6, <3>7 DEF NeverDeaf
  <2> QED BY <2>2, <2>3
<1>2. CASE RetryTick
  <2>0. /\ timers.ticks > 0 /\ UNCHANGED <<link, flight, inbox, plan>>
    BY <1>2 DEF RetryTick
  <2>1. CASE conn.connected
    <3> DEFINE t == timers.ticks - 1
    <3>1. t \in Nat /\ timers' = [timers EXCEPT !.ticks = t] /\ UNCHANGED conn
      BY <1>0, <1>2, <2>0, <2>1 DEF RetryTick
    <3> HIDE DEF t
    <3>2. timers' \in TimersType
      BY <1>0, <3>1 DEF TimersType
    <3> QED BY <2>0, <2>1, <3>1, <3>2 DEF NetTypes, NeverDeaf
  <2>2. CASE ~conn.connected
    <3> DEFINE i == conn.in - 1
               t == timers.ticks - 1
               d == timers.dials + 1
    <3>1. i \in Int /\ i <= MaxDelay /\ t \in Nat /\ d \in Nat /\ d > 0
      BY <1>0, <2>0
    <3>2. /\ conn' = [conn EXCEPT !.in = i]
          /\ timers' \in {timers, [timers EXCEPT !.ticks = t, !.dials = d]}
      BY <1>2, <2>2 DEF RetryTick
    <3> HIDE DEF i, t, d
    <3>3. /\ conn' \in ConnType /\ ~conn'.connected
      BY <1>0, <2>2, <3>1, <3>2 DEF ConnType
    <3>4. /\ timers' \in TimersType /\ (timers' = timers \/ timers'.dials = d)
      BY <1>0, <3>1, <3>2 DEF TimersType
    <3>5. timers'.ticks \in Nat /\ timers'.dials \in Nat /\ timers'.fails \in Nat
      BY <3>4 DEF TimersType
    <3>6. timers'.ticks + timers'.dials + timers'.fails > 0
      BY <1>0, <2>0, <3>1, <3>4, <3>5
    <3> QED BY <2>0, <3>3, <3>4, <3>6 DEF NetTypes, NeverDeaf
  <2> QED BY <2>1, <2>2
<1>3. CASE RetryNow
  <2> DEFINE d == timers.dials + 1
  <2>1. /\ ~conn.connected /\ conn' = [conn EXCEPT !.in = 0] /\ timers' = [timers EXCEPT !.dials = d]
        /\ UNCHANGED <<link, flight, inbox, plan>> /\ d \in Nat /\ d > 0
    BY <1>0, <1>3 DEF RetryNow
  <2> HIDE DEF d
  <2>2. conn' \in ConnType /\ ~conn'.connected
    BY <1>0, <2>1 DEF ConnType
  <2>3. timers' \in TimersType /\ timers'.dials = d
    BY <1>0, <2>1 DEF TimersType
  <2>4. timers'.ticks \in Nat /\ timers'.dials \in Nat /\ timers'.fails \in Nat
    BY <2>3 DEF TimersType
  <2>5. timers'.ticks + timers'.dials + timers'.fails > 0
    BY <2>1, <2>3, <2>4
  <2> QED BY <2>1, <2>2, <2>3, <2>5 DEF NetTypes, NeverDeaf
<1>4. CASE AttemptReconnect
  <2> DEFINE d == timers.dials - 1
             f == timers.fails + 1
  <2>0. /\ timers.dials > 0 /\ UNCHANGED <<conn, flight, plan>> /\ d \in Nat /\ f \in Nat /\ f > 0
    BY <1>0, <1>4 DEF AttemptReconnect
  <2>1. CASE ~up
    <3>1. timers' = [timers EXCEPT !.dials = d, !.fails = f] /\ UNCHANGED <<link, inbox>>
      BY <1>4, <2>1 DEF AttemptReconnect
    <3> HIDE DEF d, f
    <3>2. timers' \in TimersType /\ timers'.fails = f
      BY <1>0, <2>0, <3>1 DEF TimersType
    <3>3. timers'.ticks \in Nat /\ timers'.dials \in Nat /\ timers'.fails \in Nat
      BY <3>2 DEF TimersType
    <3>4. timers'.ticks + timers'.dials + timers'.fails > 0
      BY <2>0, <3>2, <3>3
    <3> QED BY <2>0, <3>1, <3>2, <3>4 DEF NetTypes, NeverDeaf
  <2>2. CASE up
    <3>1. timers' = [timers EXCEPT !.dials = d]
      BY <1>4, <2>2 DEF AttemptReconnect
    <3>2. PICK c \in Cli : /\ link' = [link EXCEPT ![c].state = "open"]
                           /\ inbox' = inbox \cup {[kind |-> "reconnect", c |-> c]}
      BY <1>4, <2>2 DEF AttemptReconnect
    <3> DEFINE k == [link[c] EXCEPT !.state = "open"]
               m == [kind |-> "reconnect", c |-> c]
    <3>3. link[c] \in LinkType /\ Len(link[c].queue) <= QueueCap
      BY DEF NetTypes
    <3>4. /\ k \in LinkType /\ k.queue = link[c].queue /\ k.waiters = link[c].waiters
          /\ k.gone = link[c].gone
      BY <3>3 DEF LinkType
    <3>5. link' = [link EXCEPT ![c] = k] /\ m \in Messages /\ m.kind = "reconnect"
          /\ inbox' = inbox \cup {m}
      BY <3>2 DEF Messages
    <3> HIDE DEF d, k, m
    <3>6. timers' \in TimersType
      BY <1>0, <2>0, <3>1 DEF TimersType
    <3>7. NetTypes'
      BY <1>0, <2>0, <3>3, <3>4, <3>5, <3>6, OneLink DEF NetTypes
    <3>8. \A x \in Cli : link'[x].waiters = link[x].waiters /\ link'[x].gone = link[x].gone
      BY <1>0, <3>4, <3>5
    <3>9. NeverDeaf'
      BY <1>0, <2>0, <3>5, <3>8 DEF NeverDeaf
    <3> QED BY <3>7, <3>9
  <2> QED BY <2>1, <2>2
<1>5. CASE ApplyFail
  <2> DEFINE delay == IF 2 * conn.delay > MaxDelay THEN MaxDelay ELSE 2 * conn.delay
             t == timers.ticks + 1
             f == timers.fails - 1
  <2>1. /\ UNCHANGED <<link, flight, inbox, plan>> /\ timers.fails > 0
        /\ conn' = [conn EXCEPT !.delay = delay, !.in = delay]
        /\ timers' = [timers EXCEPT !.fails = f, !.ticks = t]
    BY <1>5 DEF ApplyFail
  <2>2. delay \in 1..MaxDelay /\ delay \in Int /\ delay <= MaxDelay /\ t \in Nat /\ t > 0 /\ f \in Nat
    BY <1>0, <2>1
  <2> HIDE DEF delay, t, f
  <2>3. conn' \in ConnType /\ conn'.connected = conn.connected /\ conn'.cli = conn.cli
    BY <1>0, <2>1, <2>2 DEF ConnType
  <2>4. timers' \in TimersType /\ timers'.ticks = t
    BY <1>0, <2>1, <2>2 DEF TimersType
  <2>5. timers'.ticks \in Nat /\ timers'.dials \in Nat /\ timers'.fails \in Nat
    BY <2>4 DEF TimersType
  <2>6. timers'.ticks + timers'.dials + timers'.fails > 0
    BY <2>2, <2>4, <2>5
  <2> QED BY <2>1, <2>3, <2>4, <2>6 DEF NetTypes, NeverDeaf
<1> QED BY <1>1, <1>2, <1>3, <1>4, <1>5

\* A new connection is listened to from the step that takes it.
LEMMA ReconnectHears ==
    ASSUME NetTypes, NeverDeaf, DbType(db), ApplyReconnect
    PROVE  NetTypes' /\ NeverDeaf'
<1>1. PICK m \in inbox :
        /\ m.kind = "reconnect" /\ inbox' = inbox \ {m}
        /\ conn' = [conn EXCEPT !.cli = m.c, !.connected = TRUE, !.delay = 1]
        /\ link' = Listens(m.c)
        /\ flight' = flight \cup SubscribeAll(m.c)
        /\ UNCHANGED <<timers, plan>>
  BY DEF ApplyReconnect
<1>2. m.c \in Cli
  BY DEF NetTypes, Messages
<1>3. conn \in ConnType /\ 1 \in 1..MaxDelay
  BY TuiAssumption DEF NetTypes
<1>4. conn' \in ConnType /\ conn'.connected /\ conn'.cli = m.c
  BY <1>1, <1>2, <1>3 DEF ConnType
<1>5. NetTypes'
  BY <1>1, <1>2, <1>4, ListensType, SubscribeAllType DEF NetTypes
<1>6. NeverDeaf'
  BY <1>1, <1>2, <1>4, ListensType DEF NeverDeaf
<1> QED BY <1>5, <1>6

\* What was taken is filed, and the listener armed again where it is needed.
LEMMA IncomingHears ==
    ASSUME NetTypes, NeverDeaf, HandleIncoming
    PROVE  NetTypes' /\ NeverDeaf'
<1>1. PICK m \in inbox :
        /\ m.kind = "incoming" /\ inbox' = inbox \ {m}
        /\ link' = [link EXCEPT ![conn.cli].waiters = @ + 1]
        /\ UNCHANGED <<conn, timers, flight, plan>>
  BY DEF HandleIncoming
<1> DEFINE c == conn.cli
           w == link[c].waiters + 1
           k == [link[c] EXCEPT !.waiters = w]
<1>2. c \in Cli /\ link \in [Cli -> LinkType]
  BY DEF NetTypes, ConnType
<1>3. link[c] \in LinkType /\ w \in Nat /\ w > 0 /\ Len(link[c].queue) <= QueueCap
  BY <1>2 DEF NetTypes, LinkType
<1>4. link' = [link EXCEPT ![c] = k]
  BY <1>1
<1> HIDE DEF w
<1>5. k \in LinkType /\ k.queue = link[c].queue /\ k.waiters = w /\ k.gone = link[c].gone
  BY <1>3 DEF LinkType
<1> HIDE DEF k
<1>6. NetTypes'
  BY <1>1, <1>2, <1>3, <1>4, <1>5, OneLink DEF NetTypes
<1>7. link'[conn'.cli].waiters > 0 /\ link'[conn'.cli].gone = link[conn.cli].gone
  BY <1>1, <1>2, <1>3, <1>4, <1>5
<1>8. NeverDeaf'
  BY <1>1, <1>7 DEF NeverDeaf
<1> QED BY <1>6, <1>8

-----------------------------------------------------------------------------
(* Lists.                                                                  *)

\* Cut takes one place out, or none, and keeps the order of the others.
LEMMA CutType ==
    ASSUME NEW S, NEW s \in Seq(S), NEW places, places \subseteq DOMAIN s
    PROVE  /\ Cut(s, places) \in Seq(S)
           /\ Len(Cut(s, places)) = Len(s) \/ Len(Cut(s, places)) = Len(s) - 1
           /\ \E shift \in [DOMAIN Cut(s, places) -> DOMAIN s] :
                /\ \A i \in DOMAIN Cut(s, places) : Cut(s, places)[i] = s[shift[i]]
                /\ \A i, j \in DOMAIN Cut(s, places) : shift[i] = shift[j] => i = j
<1> DEFINE first == {i \in places : \A j \in places : i <= j}
           n == Len(s) - Cardinality(first)
           t == Cut(s, places)
<1>1. DOMAIN s = 1..Len(s) /\ Len(s) \in Nat
  BY LenProperties
<1>2. t = [i \in 1..n |-> IF \A f \in first : i < f THEN s[i] ELSE s[i + 1]]
  BY DEF Cut
<1>3. CASE first = {}
  <2>1. n = Len(s)
    <3> HIDE DEF first
    <3>1. Cardinality(first) = 0
      BY <1>3, FS_EmptySet
    <3> QED BY <1>1, <3>1
  <2>2. t = [i \in 1..Len(s) |-> s[i]]
    BY <1>2, <1>3, <2>1
  <2> HIDE DEF t, n, first
  <2>3. t = s
    BY <1>1, <2>2
  <2> DEFINE sh == [i \in DOMAIN t |-> i]
  <2>4. /\ sh \in [DOMAIN t -> DOMAIN s] /\ \A i \in DOMAIN t : t[i] = s[sh[i]]
        /\ \A i, j \in DOMAIN t : sh[i] = sh[j] => i = j
    BY <2>3
  <2> HIDE DEF sh
  <2>5. \E shift \in [DOMAIN t -> DOMAIN s] :
          /\ \A i \in DOMAIN t : t[i] = s[shift[i]]
          /\ \A i, j \in DOMAIN t : shift[i] = shift[j] => i = j
    BY <2>4
  <2> QED BY <2>3, <2>5 DEF t
<1>4. CASE first # {}
  <2>1. PICK f \in first : TRUE
    BY <1>4
  <2>2. \A g \in first : g = f
    <3> SUFFICES ASSUME NEW g \in first PROVE g = f
      OBVIOUS
    <3>1. f <= g /\ g <= f /\ f \in Nat /\ g \in Nat
      BY <1>1, <2>1
    <3> QED BY <3>1
  <2>3. first = {f} /\ f \in 1..Len(s)
    BY <1>1, <2>1, <2>2
  <2>4. n = Len(s) - 1
    BY <2>3, FS_Singleton
  <2>5. t = [i \in 1..(Len(s) - 1) |-> IF i < f THEN s[i] ELSE s[i + 1]]
    BY <1>2, <2>3, <2>4
  <2> HIDE DEF t, n, first
  <2>6. /\ t \in Seq(S) /\ Len(t) = Len(s) - 1 /\ DOMAIN t = 1..(Len(s) - 1)
    <3>1. Len(s) - 1 \in Nat
      BY <1>1, <2>3
    <3>2. \A i \in 1..(Len(s) - 1) : (IF i < f THEN s[i] ELSE s[i + 1]) \in S
      BY <1>1, ElementOfSeq
    <3> QED BY <2>5, <3>1, <3>2
  <2> DEFINE sh == [i \in 1..(Len(s) - 1) |-> IF i < f THEN i ELSE i + 1]
  <2>7. /\ sh \in [DOMAIN t -> DOMAIN s] /\ \A i \in DOMAIN t : t[i] = s[sh[i]]
    BY <1>1, <2>3, <2>5, <2>6
  <2>8. \A i, j \in DOMAIN t : sh[i] = sh[j] => i = j
    BY <1>1, <2>3, <2>6
  <2> HIDE DEF sh
  <2>9. \E shift \in [DOMAIN t -> DOMAIN s] :
          /\ \A i \in DOMAIN t : t[i] = s[shift[i]]
          /\ \A i, j \in DOMAIN t : shift[i] = shift[j] => i = j
    BY <2>7, <2>8
  <2> QED BY <2>6, <2>9 DEF t
<1> QED BY <1>3, <1>4

\* An item at the end or at the head of a list.
LEMMA AddItem ==
    ASSUME NEW s \in Items, NEW x \in ItemType
    PROVE  /\ Append(s, x) \in Items /\ Prepend(s, x) \in Items
           /\ ~Unseen(s) /\ x.seen => ~Unseen(Append(s, x)) /\ ~Unseen(Prepend(s, x))
<1>1. s \in Seq(ItemType) /\ DOMAIN s = 1..Len(s) /\ Len(s) \in Nat
  BY LenProperties DEF Items
<1>2. /\ Append(s, x) \in Seq(ItemType) /\ DOMAIN Append(s, x) = 1..(Len(s) + 1)
      /\ \A i \in 1..Len(s) : Append(s, x)[i] = s[i]
      /\ Append(s, x)[Len(s) + 1] = x
  BY <1>1, AppendProperties
<1>3. /\ <<x>> \in Seq(ItemType) /\ Len(<<x>>) = 1 /\ <<x>>[1] = x
  OBVIOUS
<1>4. /\ Prepend(s, x) \in Seq(ItemType) /\ Len(Prepend(s, x)) = 1 + Len(s)
      /\ \A i \in 1..(1 + Len(s)) : Prepend(s, x)[i] = IF i <= 1 THEN <<x>>[i] ELSE s[i - 1]
  BY <1>1, <1>3, ConcatProperties DEF Prepend
<1>5. DOMAIN Prepend(s, x) = 1..(1 + Len(s))
  BY <1>4, LenProperties
<1>6. ~Unseen(s) /\ x.seen => ~Unseen(Append(s, x))
  BY <1>1, <1>2 DEF Unseen
<1>7. ~Unseen(s) /\ x.seen => ~Unseen(Prepend(s, x))
  <2> SUFFICES ASSUME \A i \in 1..Len(s) : s[i].seen, x.seen, NEW i \in 1..(1 + Len(s))
               PROVE  Prepend(s, x)[i].seen
    BY <1>1, <1>5 DEF Unseen
  <2>1. CASE i = 1
    BY <1>3, <1>4, <2>1
  <2>2. CASE i # 1
    <3>1. i - 1 \in 1..Len(s) /\ ~(i <= 1)
      BY <1>1, <2>2
    <3> QED BY <1>4, <3>1
  <2> QED BY <2>1, <2>2
<1> QED BY <1>2, <1>4, <1>6, <1>7 DEF Items

\* A list of which all has been seen.
LEMMA AllSeenType ==
    ASSUME NEW s \in Items
    PROVE  AllSeen(s) \in Items /\ ~Unseen(AllSeen(s))
<1>1. s \in Seq(ItemType) /\ DOMAIN s = 1..Len(s) /\ Len(s) \in Nat
  BY LenProperties DEF Items
<1>2. \A i \in 1..Len(s) : s[i] \in ItemType
  BY <1>1, ElementOfSeq
<1>3. \A i \in 1..Len(s) : [s[i] EXCEPT !.seen = TRUE] \in ItemType /\ [s[i] EXCEPT !.seen = TRUE].seen
  BY <1>2 DEF ItemType
<1>4. AllSeen(s) = [i \in 1..Len(s) |-> [s[i] EXCEPT !.seen = TRUE]]
  BY <1>1 DEF AllSeen
<1>5. AllSeen(s) \in [1..Len(s) -> ItemType] /\ \A i \in 1..Len(s) : AllSeen(s)[i].seen
  BY <1>3, <1>4
<1>6. AllSeen(s) \in Seq(ItemType)
  BY <1>1, <1>5
<1> QED BY <1>4, <1>5, <1>6 DEF Items, Unseen

\* A deletion hides nothing and brings nothing.
LEMMA WithoutType ==
    ASSUME NEW s \in Items, NEW id
    PROVE  Without(s, id) \in Items /\ (~Unseen(s) => ~Unseen(Without(s, id)))
<1> DEFINE places == {i \in DOMAIN s : s[i].e.id = id}
<1>1. s \in Seq(ItemType) /\ places \subseteq DOMAIN s /\ Without(s, id) = Cut(s, places)
  BY DEF Items, Without
<1> HIDE DEF places
<1>2. /\ Cut(s, places) \in Seq(ItemType)
      /\ \E shift \in [DOMAIN Cut(s, places) -> DOMAIN s] :
           \A i \in DOMAIN Cut(s, places) : Cut(s, places)[i] = s[shift[i]]
  BY <1>1, CutType
<1>3. ~Unseen(s) => ~Unseen(Cut(s, places))
  BY <1>2 DEF Unseen
<1> QED BY <1>1, <1>2, <1>3 DEF Items

-----------------------------------------------------------------------------
(* What is shown.                                                          *)

\* A step that leaves the sealed messages alone.
LEMMA ViewKeeps ==
    ASSUME ViewInv, ViewTypes', Selects', LinesTell', lists'.sealed = lists.sealed,
           badge'.sealed = badge.sealed, db'.sealed = db.sealed
    PROVE  ViewInv'
<1>1. CopiesDiffer'
  BY DEF ViewInv, CopiesDiffer, Copies
<1>2. SealedTells'
  BY DEF ViewInv, SealedTells, Sealeds
<1> QED BY <1>1, <1>2 DEF ViewInv

\* A step that changes the screen alone, and not the selected channel.
LEMMA ScreenKeeps ==
    ASSUME ViewInv, screen' \in ScreenType, screen'.sel = screen.sel, UNCHANGED <<lists, badge, db>>
    PROVE  ViewInv'
<1>1. ViewTypes' /\ Selects' /\ LinesTell'
  BY DEF ViewInv, ViewTypes, Selects, LinesTell
<1> QED BY <1>1, ViewKeeps

\* An overlay opens.
LEMMA OpensKeeps ==
    ASSUME ViewInv, NEW kind \in Overlays, NEW target \in User, Opens(kind, target)
    PROVE  ViewInv'
<1>1. screen \in ScreenType /\ screen' = [screen EXCEPT !.overlay = kind, !.target = target]
      /\ UNCHANGED <<lists, badge, db>>
  BY DEF ViewInv, ViewTypes, Opens, ScreenOnly
<1>2. screen' \in ScreenType /\ screen'.sel = screen.sel
  BY <1>1 DEF ScreenType
<1> QED BY <1>1, <1>2, ScreenKeeps

\* A step that changes the names, the blocked or the like in the database alone.
LEMMA DbKeeps ==
    ASSUME ViewInv, DbType(db'), db'.channels = db.channels, db'.sealed = db.sealed,
           UNCHANGED <<lists, badge, screen>>
    PROVE  ViewInv'
<1>1. ViewTypes' /\ Selects' /\ LinesTell'
  BY DEF ViewInv, ViewTypes, Selects, LinesTell, DbType
<1> QED BY <1>1, ViewKeeps

\* A person joins the list of people.
LEMMA TrackType ==
    ASSUME NEW l \in ListsType, NEW p \in User
    PROVE  /\ Track(l, p) \in ListsType /\ Track(l, p).sealed = l.sealed
           /\ Track(l, p).posts = l.posts /\ Track(l, p).threads = l.threads
           /\ Track(l, p).talk = l.talk
<1>1. CASE p = Me
  BY <1>1 DEF Track
<1>2. CASE p # Me
  <2> DEFINE q == l.people \cup {p}
  <2>1. q \in SUBSET Person /\ Track(l, p) = [l EXCEPT !.people = q]
    BY <1>2 DEF Track, User, ListsType
  <2> HIDE DEF q
  <2> QED BY <2>1 DEF ListsType
<1> QED BY <1>1, <1>2

\* A tab is shown: its badge is cleared and its items have been seen.
LEMMA SwitchTabKeeps ==
    ASSUME ViewInv, NEW t \in Tab, NEW scr \in ScreenType, scr.sel = screen.sel, SwitchTab(t, scr)
    PROVE  ViewInv'
<1>0. lists \in ListsType /\ badge \in BadgeType /\ DbType(db) /\ UNCHANGED db
  BY DEF ViewInv, ViewTypes, SwitchTab
<1> DEFINE on == t = "messages" /\ scr.view = "chat"
           f == IF t = "feed" THEN 0 ELSE badge.feed
           g == IF t = "forum" THEN 0 ELSE badge.forum
           b == [c \in Channel |-> IF on /\ c \in ActiveChannel THEN 0 ELSE badge.chat[c]]
           p == IF t = "feed" THEN AllSeen(lists.posts) ELSE lists.posts
           h == IF t = "forum" THEN AllSeen(lists.threads) ELSE lists.threads
           k == IF on THEN Shown(lists.talk, ActiveChannel) ELSE lists.talk
<1>1. /\ screen' = [scr EXCEPT !.tab = t]
      /\ badge' = [badge EXCEPT !.feed = f, !.forum = g, !.chat = b]
      /\ lists' = [lists EXCEPT !.posts = p, !.threads = h, !.talk = k]
  BY DEF SwitchTab
<1>2. f \in Nat /\ g \in Nat /\ b \in [Channel -> Nat]
  BY <1>0 DEF BadgeType
<1>3. p \in Items /\ h \in Items /\ lists.talk \in [Channel -> Items]
      /\ lists.posts \in Items /\ lists.threads \in Items
  BY <1>0, AllSeenType DEF ListsType
<1>4. k \in [Channel -> Items]
  BY <1>3, AllSeenType DEF Shown
<1>5. /\ f = 0 => ~Unseen(p)
      /\ g = 0 => ~Unseen(h)
  BY <1>3, AllSeenType DEF ViewInv, LinesTell
<1>6. \A c \in Channel : b[c] = 0 => ~Unseen(k[c])
  BY <1>3, AllSeenType DEF ViewInv, LinesTell, Shown
<1> HIDE DEF on, f, g, b, p, h, k
<1>7. /\ lists' \in ListsType /\ lists'.sealed = lists.sealed
      /\ lists'.posts = p /\ lists'.threads = h /\ lists'.talk = k
  BY <1>0, <1>1, <1>3, <1>4 DEF ListsType
<1>8. /\ badge' \in BadgeType /\ badge'.sealed = badge.sealed
      /\ badge'.feed = f /\ badge'.forum = g /\ badge'.chat = b
  BY <1>0, <1>1, <1>2 DEF BadgeType
<1>9. screen' \in ScreenType /\ screen'.sel = screen.sel
  BY <1>1 DEF ScreenType
<1>10. ViewTypes' /\ Selects'
  BY <1>0, <1>7, <1>8, <1>9 DEF ViewInv, ViewTypes, Selects, DbType
<1>11. LinesTell'
  BY <1>5, <1>6, <1>7, <1>8 DEF LinesTell
<1> QED BY <1>0, <1>7, <1>8, <1>10, <1>11, ViewKeeps

\* A profile is shown.
LEMMA ShowProfileKeeps ==
    ASSUME ViewInv, NEW p \in User, ShowProfile(p)
    PROVE  ViewInv'
<1> DEFINE scr == [screen EXCEPT !.detail = TRUE, !.profile = p]
<1>1. screen \in ScreenType /\ SwitchTab("people", scr) /\ "people" \in Tab
  BY TuiAssumption DEF ViewInv, ViewTypes, ShowProfile
<1>2. scr \in ScreenType /\ scr.sel = screen.sel
  BY <1>1 DEF ScreenType
<1> HIDE DEF scr
<1> QED BY <1>1, <1>2, SwitchTabKeeps

-----------------------------------------------------------------------------
(* Sealed messages.                                                        *)

\* What a client shows when it starts: what its database holds.
LEMMA StartShows ==
    DbType(db) /\ lists = Lists(db) /\ badge = Badge(db) /\ screen = Screen(db) => ViewInv
<1> SUFFICES ASSUME DbType(db), lists = Lists(db), badge = Badge(db), screen = Screen(db)
             PROVE  ViewInv
  OBVIOUS
<1> DEFINE D == DOMAIN db.sealed
           new(e) == [e |-> e, read |-> db.sealed[e] = "read", copy |-> 1]
           L == {e \in D : db.sealed[e] # "none"}
           U == {e \in D : db.sealed[e] = "unread"}
           f == [e \in L |-> new(e)]
           g == [e \in U |-> new(e)]
<1>1. /\ IsFiniteSet(D) /\ D \subseteq Letter /\ db.sealed \in [D -> {"none", "unread", "read"}]
      /\ db.accepted \in BOOLEAN /\ db.channels \in Seq(Channel)
  BY DEF DbType
<1>2. IsFiniteSet(L) /\ IsFiniteSet(U) /\ Cardinality(U) \in Nat
  <2> HIDE DEF D
  <2> QED BY <1>1, FS_Subset, FS_CardinalityType
<1>3. lists.sealed = {new(e) : e \in L} /\ badge.sealed = Cardinality(U)
  BY DEF Lists, Badge, ListSealed, UnreadSealedCount
<1>4. /\ lists.talk = [c \in Channel |-> <<>>] /\ lists.posts = <<>> /\ lists.threads = <<>>
      /\ badge.chat = [c \in Channel |-> 0] /\ badge.feed = 0 /\ badge.forum = 0
  BY DEF Lists, Badge
<1>5. \A e \in L : new(e) \in SealedItem
  BY <1>1 DEF SealedItem
<1>6. \A x \in lists.sealed : x.e \in L /\ x = new(x.e) /\ x.copy = 1
  BY <1>3
<1>7. IsFiniteSet(lists.sealed)
  <2>1. f \in [L -> lists.sealed] /\ \A x \in lists.sealed : \E e \in L : f[e] = x
    BY <1>3
  <2> HIDE DEF f, L
  <2>2. f \in Surjection(L, lists.sealed)
    BY <2>1, Fun_IsSurj
  <2> QED BY <1>2, <2>2, FS_Surjection
<1>8. Cardinality(Sealeds) = Cardinality(U)
  <2>1. \A e \in U : new(e) \in Sealeds
    BY <1>3 DEF Sealeds
  <2>2. g \in [U -> Sealeds]
    BY <2>1
  <2>3. \A a, b \in U : g[a] = g[b] => a = b
    <3> SUFFICES ASSUME NEW a \in U, NEW b \in U, new(a) = new(b) PROVE a = b
      OBVIOUS
    <3>1. new(a).e = a /\ new(b).e = b
      OBVIOUS
    <3> QED BY <3>1
  <2>4. \A x \in Sealeds : \E e \in U : g[e] = x
    <3> SUFFICES ASSUME NEW x \in Sealeds PROVE x.e \in U /\ x = new(x.e)
      OBVIOUS
    <3>1. x.e \in L /\ x = new(x.e) /\ ~x.read
      BY <1>6 DEF Sealeds
    <3>2. x.read = (db.sealed[x.e] = "read")
      BY <3>1
    <3> QED BY <1>1, <3>1, <3>2
  <2> HIDE DEF g, U
  <2>5. g \in Bijection(U, Sealeds)
    BY <2>2, <2>3, <2>4, Fun_IsBij
  <2> QED BY <1>2, <2>5, FS_Bijection DEF ExistsBijection
<1>9. SealedTells
  <2>1. ASSUME NEW e \in D, db.sealed[e] = "unread"
        PROVE  \E x \in lists.sealed : x.e = e /\ ~x.read
    <3>1. new(e) \in lists.sealed /\ new(e).e = e /\ ~new(e).read
      BY <1>3, <2>1
    <3> QED BY <3>1
  <2> QED BY <1>3, <1>8, <2>1 DEF SealedTells
<1>10. CopiesDiffer
  <2>1. \A x, y \in lists.sealed : x.e = y.e /\ x.copy = y.copy => x = y
    BY <1>6
  <2>2. ASSUME NEW x \in lists.sealed PROVE x.copy <= Cardinality(Copies(x.e))
    <3>1. Copies(x.e) \subseteq lists.sealed /\ x \in Copies(x.e)
      BY DEF Copies
    <3>2. IsFiniteSet(Copies(x.e)) /\ Cardinality(Copies(x.e)) \in Nat /\ Cardinality(Copies(x.e)) # 0
      BY <1>7, <3>1, FS_Subset, FS_CardinalityType, FS_EmptySet
    <3> QED BY <1>6, <3>2
  <2> QED BY <1>7, <2>1, <2>2 DEF CopiesDiffer
<1>11. lists.sealed \in SUBSET SealedItem
  BY <1>3, <1>5
<1>12. LinesTell
  <2>1. ~Unseen(<<>>)
    BY DEF Unseen
  <2> QED BY <1>4, <2>1 DEF LinesTell
<1>13. lists \in ListsType
  <2>1. <<>> \in Items
    BY DEF Items
  <2> DEFINE s == lists.sealed
  <2>2. lists = [talk |-> [c \in Channel |-> <<>>], posts |-> <<>>, threads |-> <<>>, replies |-> {},
                 guestbook |-> {}, people |-> {}, peers |-> {}, revealed |-> {}, sealed |-> s]
    BY DEF Lists
  <2>3. s \in SUBSET SealedItem
    BY <1>11
  <2> HIDE DEF s
  <2> QED BY <2>1, <2>2, <2>3 DEF ListsType
<1>14. badge \in BadgeType
  <2> DEFINE n == UnreadSealedCount(db)
  <2>1. n \in Nat
    BY <1>2 DEF UnreadSealedCount
  <2> HIDE DEF n
  <2>2. badge = [chat |-> [c \in Channel |-> 0], feed |-> 0, forum |-> 0, sealed |-> n]
    BY DEF Badge, n
  <2> QED BY <2>1, <2>2 DEF BadgeType
<1>15. screen \in ScreenType /\ screen.sel = 1
  <2> DEFINE gate == IF db.accepted THEN "off" ELSE "first"
  <2>1. "messages" \in Tab /\ Me \in User /\ gate \in {"off", "first", "again"}
    BY TuiAssumption DEF User
  <2>2. screen = [tab |-> "messages", view |-> "chat", overlay |-> "none", target |-> Me,
                  profile |-> Me, sel |-> 1, gate |-> gate, detail |-> FALSE, open |-> 0,
                  section |-> FALSE]
    BY DEF Screen
  <2> HIDE DEF gate
  <2>3. "none" \in Overlays
    BY DEF Overlays
  <2>4. screen \in ScreenType
    BY <2>1, <2>2, <2>3 DEF ScreenType
  <2> QED BY <2>2, <2>4
<1>16. Selects
  BY <1>1, <1>15, EmptySeq, LenProperties DEF Selects
<1> QED BY <1>9, <1>10, <1>12, <1>13, <1>14, <1>15, <1>16 DEF ViewInv, ViewTypes

\* A sealed message that comes in: a copy with a number of its own, unread
\* and counted.
LEMMA OpenSealedKeeps ==
    ASSUME ViewInv, NEW e \in Env, e.kind = "sealed", OpenSealed(e), UNCHANGED screen
    PROVE  ViewInv'
<1> DEFINE C == Copies(e)
           n == 1 + Cardinality(C)
           y == [e |-> e, read |-> FALSE, copy |-> n]
           S == lists.sealed \cup {y}
           L == [lists EXCEPT !.sealed = S]
<1>1. lists \in ListsType /\ badge \in BadgeType /\ screen \in ScreenType /\ DbType(db)
  BY DEF ViewInv, ViewTypes
<1>0. e \in DOMAIN db.sealed
  BY <1>1 DEF DbType
<1> USE DEF ViewInv
<1>2. lists.sealed \subseteq SealedItem /\ IsFiniteSet(lists.sealed)
  BY <1>1 DEF ListsType, CopiesDiffer
<1>3. C \subseteq lists.sealed /\ IsFiniteSet(C) /\ n \in Nat /\ Cardinality(C) \in Nat
  BY <1>2, FS_Subset, FS_CardinalityType DEF Copies
<1>4. e \in Letter /\ e.from \in User
  BY TuiAssumption DEF Letter
<1>5. y \in SealedItem /\ y.e = e /\ y.copy = n /\ ~y.read
  BY <1>3, <1>4 DEF SealedItem
<1>6. lists' = Track(L, e.from) /\ badge' = [badge EXCEPT !.sealed = @ + 1] /\ db' = PutSealed(db, e)
  BY DEF OpenSealed, Copies
<1> HIDE DEF n, y
<1>7. \A x \in C : x.copy < n
  BY <1>2, <1>3 DEF CopiesDiffer, Copies, SealedItem, n
<1>8. y \notin lists.sealed /\ y \notin C
  BY <1>3, <1>5, <1>7 DEF Copies
<1>9. S \in SUBSET SealedItem /\ IsFiniteSet(S)
  BY <1>2, <1>5, FS_AddElement
<1> HIDE DEF S
<1>10. L \in ListsType /\ L.sealed = S /\ L.posts = lists.posts /\ L.threads = lists.threads
       /\ L.talk = lists.talk
  BY <1>1, <1>9 DEF ListsType
<1> HIDE DEF L
<1>11. lists' \in ListsType /\ lists'.sealed = S /\ lists'.posts = lists.posts
       /\ lists'.threads = lists.threads /\ lists'.talk = lists.talk
  BY <1>4, <1>6, <1>10, TrackType
<1>12. badge.sealed \in Nat /\ badge' \in BadgeType /\ badge'.sealed = badge.sealed + 1 /\ badge'.chat = badge.chat
       /\ badge'.feed = badge.feed /\ badge'.forum = badge.forum
  <2> DEFINE k == badge.sealed + 1
  <2>1. badge.sealed \in Nat /\ k \in Nat /\ badge' = [badge EXCEPT !.sealed = k]
    BY <1>1, <1>6 DEF BadgeType
  <2> HIDE DEF k
  <2>2. badge' \in BadgeType /\ badge'.sealed = k /\ badge'.chat = badge.chat
        /\ badge'.feed = badge.feed /\ badge'.forum = badge.forum
    BY <1>1, <2>1 DEF BadgeType
  <2> QED BY <2>1, <2>2 DEF k
<1>13. DbType(db') /\ db'.channels = db.channels /\ DOMAIN db'.sealed = DOMAIN db.sealed
       /\ \A d \in DOMAIN db.sealed : d # e => db'.sealed[d] = db.sealed[d]
  <2> DEFINE D == DOMAIN db.sealed
             v == IF db.sealed[e] = "none" THEN "unread" ELSE db.sealed[e]
             w == [db.sealed EXCEPT ![e] = v]
  <2>1. db.sealed \in [D -> {"none", "unread", "read"}] /\ e \in D
    BY <1>0, <1>1 DEF DbType
  <2>2. v \in {"none", "unread", "read"}
    BY <2>1
  <2>3. db' = [db EXCEPT !.sealed = w]
    BY <1>6 DEF PutSealed
  <2> HIDE DEF v
  <2>4. w \in [D -> {"none", "unread", "read"}] /\ DOMAIN w = D
        /\ \A d \in D : d # e => w[d] = db.sealed[d]
    BY <2>1, <2>2
  <2> HIDE DEF w, D
  <2>5. db' \in [channels : Seq(Channel), sealed : [D -> {"none", "unread", "read"}],
              nick : [User -> {"none", "name", "note"}],
              blocked : SUBSET User, profiles : SUBSET User, accepted : BOOLEAN]
        /\ db'.channels = db.channels /\ db'.sealed = w
    BY <1>1, <2>3, <2>4 DEF DbType, D
  <2>6. DbType(db')
    BY <1>1, <2>4, <2>5 DEF DbType, D
  <2> QED BY <2>4, <2>5, <2>6 DEF D
<1>14. CopiesDiffer'
  <2>1. \A a, b \in S : a.e = b.e /\ a.copy = b.copy => a = b
    <3>1. \A a \in lists.sealed : a.e = e => a \in C /\ a.copy < n /\ a.copy \in Nat
      BY <1>2, <1>7 DEF Copies, SealedItem
    <3> SUFFICES ASSUME NEW a \in S, NEW b \in S, a.e = b.e, a.copy = b.copy PROVE a = b
      OBVIOUS
    <3>2. CASE a = y \/ b = y
      <4>1. a.copy = n
        BY <1>5, <3>2
      <4>2. b.copy = n /\ a.e = e /\ b.e = e
        BY <1>5, <3>2, <4>1
      <4>3. a \notin lists.sealed /\ b \notin lists.sealed
        BY <1>3, <3>1, <4>1, <4>2
      <4> QED BY <4>3 DEF S
    <3>3. CASE a # y /\ b # y
      BY <3>3 DEF S, CopiesDiffer
    <3> QED BY <3>2, <3>3
  <2>2. ASSUME NEW x \in S PROVE x.copy <= Cardinality({z \in S : z.e = x.e})
    <3>1. CASE x.e = e
      <4>1. {z \in S : z.e = x.e} = C \cup {y}
        BY <1>5, <3>1 DEF S, Copies
      <4>2. Cardinality(C \cup {y}) = n
        <5> HIDE DEF C
        <5>1. Cardinality(C \cup {y}) = Cardinality(C) + 1
          BY <1>3, <1>8, FS_AddElement
        <5> QED BY <1>3, <5>1 DEF n
      <4>3. x.copy <= n
        BY <1>2, <1>3, <1>5, <1>7, <3>1 DEF S, Copies, SealedItem
      <4> QED BY <4>1, <4>2, <4>3
    <3>2. CASE x.e # e
      <4>1. {z \in S : z.e = x.e} = Copies(x.e) /\ x \in lists.sealed
        BY <1>5, <3>2 DEF S, Copies
      <4> QED BY <4>1 DEF CopiesDiffer
    <3> QED BY <3>1, <3>2
  <2> QED BY <1>9, <1>11, <2>1, <2>2 DEF CopiesDiffer, Copies
<1>15. SealedTells'
  <2>1. Sealeds' = Sealeds \cup {y} /\ y \notin Sealeds /\ IsFiniteSet(Sealeds)
    BY <1>2, <1>5, <1>8, <1>11, FS_Subset DEF Sealeds, S
  <2>2. Cardinality(Sealeds \cup {y}) = Cardinality(Sealeds) + 1
    BY <2>1, FS_AddElement
  <2>3. badge'.sealed = Cardinality(Sealeds')
    BY <1>12, <2>1, <2>2 DEF SealedTells
  <2>4. \A d \in DOMAIN db'.sealed : db'.sealed[d] = "unread" => \E x \in S : x.e = d /\ ~x.read
    BY <1>5, <1>13 DEF SealedTells, S
  <2> QED BY <1>11, <2>3, <2>4 DEF SealedTells
<1>16. ViewTypes' /\ Selects' /\ LinesTell'
  <2>1. ViewTypes'
    BY <1>1, <1>11, <1>12, <1>13 DEF ViewTypes, DbType
  <2>2. Selects'
    BY <1>13 DEF Selects
  <2>3. LinesTell'
    BY <1>11, <1>12 DEF LinesTell
  <2> QED BY <2>1, <2>2, <2>3
<1> QED BY <1>14, <1>15, <1>16

\* A sealed message that is opened: read in the list, in the database and in
\* the count, of which it was a part.
LEMMA RevealKeeps ==
    ASSUME ViewInv, NEW x \in lists.sealed, Reveal(x), UNCHANGED screen
    PROVE  ViewInv'
<1> USE DEF ViewInv
<1> DEFINE y == [x EXCEPT !.read = TRUE]
           S == (lists.sealed \ {x}) \cup {y}
           R == lists.revealed \cup {x.e}
<1>1. lists \in ListsType /\ badge \in BadgeType /\ screen \in ScreenType /\ DbType(db)
  BY DEF ViewTypes
<1>2. lists.sealed \subseteq SealedItem /\ IsFiniteSet(lists.sealed) /\ x \in SealedItem
      /\ lists.revealed \subseteq Letter /\ x.e \in Letter
  BY <1>1 DEF ListsType, CopiesDiffer, SealedItem
<1>3. y \in SealedItem /\ y.e = x.e /\ y.copy = x.copy /\ y.read
  BY <1>2 DEF SealedItem
<1>4. lists' = [lists EXCEPT !.revealed = R, !.sealed = S]
  BY DEF Reveal
<1>5. S \in SUBSET SealedItem /\ IsFiniteSet(S) /\ R \in SUBSET Letter
  <2>1. IsFiniteSet(lists.sealed \ {x})
    BY <1>2, FS_RemoveElement
  <2> HIDE DEF y
  <2> QED BY <1>2, <1>3, <2>1, FS_AddElement
<1> HIDE DEF S, R
<1>6. lists' \in ListsType /\ lists'.sealed = S /\ lists'.posts = lists.posts
      /\ lists'.threads = lists.threads /\ lists'.talk = lists.talk
  BY <1>1, <1>4, <1>5 DEF ListsType
<1>7. CASE x.read
  <2>1. y = x
    BY <1>2, <1>7 DEF SealedItem
  <2>2. S = lists.sealed /\ UNCHANGED <<badge, db>>
    BY <1>7, <2>1 DEF S, Reveal
  <2>3. ViewTypes' /\ Selects' /\ LinesTell'
    BY <1>6, <2>2 DEF ViewTypes, Selects, LinesTell
  <2> QED BY <1>6, <2>2, <2>3, ViewKeeps
<1>8. CASE ~x.read
  <2>0. y \notin lists.sealed /\ x # y
    BY <1>3, <1>8 DEF CopiesDiffer
  <2>1. db' = MarkSealedRead(db, x.e)
        /\ badge' = [badge EXCEPT !.sealed = IF badge.sealed > 0 THEN badge.sealed - 1 ELSE 0]
    BY <1>8 DEF Reveal
  <2> HIDE DEF y
  <2>2. /\ Sealeds' = Sealeds \ {x} /\ x \in Sealeds /\ IsFiniteSet(Sealeds)
    BY <1>2, <1>3, <1>6, <1>8, FS_Subset DEF Sealeds, S
  <2>3. /\ Cardinality(Sealeds \ {x}) = Cardinality(Sealeds) - 1
        /\ Cardinality(Sealeds) \in Nat /\ Cardinality(Sealeds) # 0
    BY <2>2, FS_RemoveElement, FS_CardinalityType, FS_EmptySet
  <2>4. /\ badge' \in BadgeType /\ badge'.sealed = badge.sealed - 1 /\ badge'.chat = badge.chat
        /\ badge'.feed = badge.feed /\ badge'.forum = badge.forum
    <3> DEFINE k == IF badge.sealed > 0 THEN badge.sealed - 1 ELSE 0
    <3>1. badge.sealed \in Nat /\ badge.sealed # 0
      BY <2>3 DEF SealedTells
    <3>2. k \in Nat /\ k = badge.sealed - 1
      BY <3>1
    <3>3. badge' = [badge EXCEPT !.sealed = k]
      BY <2>1
    <3> HIDE DEF k
    <3>4. badge' \in BadgeType /\ badge'.sealed = k /\ badge'.chat = badge.chat
          /\ badge'.feed = badge.feed /\ badge'.forum = badge.forum
      BY <1>1, <3>2, <3>3 DEF BadgeType
    <3> QED BY <3>2, <3>4
  <2>5. /\ DbType(db') /\ db'.channels = db.channels /\ DOMAIN db'.sealed = DOMAIN db.sealed
        /\ \A d \in DOMAIN db.sealed : d # x.e => db'.sealed[d] = db.sealed[d]
        /\ x.e \in DOMAIN db.sealed => db'.sealed[x.e] = "read"
    <3> DEFINE D == DOMAIN db.sealed
               w == [db.sealed EXCEPT ![x.e] = "read"]
    <3>1. db.sealed \in [D -> {"none", "unread", "read"}]
      BY <1>1 DEF DbType
    <3>2. db' = [db EXCEPT !.sealed = w]
      BY <2>1 DEF MarkSealedRead
    <3>3. /\ w \in [D -> {"none", "unread", "read"}] /\ DOMAIN w = D
          /\ \A d \in D : d # x.e => w[d] = db.sealed[d]
          /\ x.e \in D => w[x.e] = "read"
      BY <3>1
    <3> HIDE DEF w, D
    <3>4. db' \in [channels : Seq(Channel), sealed : [D -> {"none", "unread", "read"}],
              nick : [User -> {"none", "name", "note"}],
              blocked : SUBSET User, profiles : SUBSET User, accepted : BOOLEAN]
          /\ db'.channels = db.channels /\ db'.sealed = w
      BY <1>1, <3>2, <3>3 DEF DbType, D
    <3>5. DbType(db')
      BY <1>1, <3>3, <3>4 DEF DbType, D
    <3>6. db'.sealed[x.e] = w[x.e] /\ \A d \in D : db'.sealed[d] = w[d]
      BY <3>4
    <3>7. DOMAIN db'.sealed = D
      BY <3>3, <3>4
    <3>8. \A d \in D : d # x.e => db'.sealed[d] = db.sealed[d]
      BY <3>3, <3>6
    <3>9. x.e \in D => db'.sealed[x.e] = "read"
      BY <3>3, <3>6
    <3> QED BY <3>4, <3>5, <3>7, <3>8, <3>9 DEF D
  <2>6. CopiesDiffer'
    <3>1. \A a, b \in S : a.e = b.e /\ a.copy = b.copy => a = b
      <4> SUFFICES ASSUME NEW a \in S, NEW b \in S, a.e = b.e, a.copy = b.copy PROVE a = b
        OBVIOUS
      <4>1. \A z \in lists.sealed \ {x} : ~(z.e = y.e /\ z.copy = y.copy)
        BY <1>3 DEF CopiesDiffer
      <4>2. CASE a = y \/ b = y
        BY <4>1, <4>2 DEF S
      <4>3. CASE a # y /\ b # y
        BY <4>3 DEF S, CopiesDiffer
      <4> QED BY <4>2, <4>3
    <3>2. ASSUME NEW z \in S PROVE z.copy <= Cardinality({s \in S : s.e = z.e})
      <4>1. CASE z.e # x.e
        <5>1. {s \in S : s.e = z.e} = Copies(z.e) /\ z \in lists.sealed
          BY <1>3, <4>1 DEF S, Copies
        <5> QED BY <5>1 DEF CopiesDiffer
      <4>2. CASE z.e = x.e
        <5> DEFINE C == Copies(x.e)
        <5>1. {s \in S : s.e = z.e} = (C \ {x}) \cup {y} /\ y \notin C /\ x \in C
          BY <1>3, <2>0, <4>2 DEF S, Copies
        <5>2. IsFiniteSet(C)
          BY <1>2, FS_Subset DEF Copies
        <5>3. \E s \in lists.sealed : s.e = x.e /\ s.copy = z.copy
          BY <1>3, <4>2 DEF S
        <5>4. z.copy <= Cardinality(C)
          BY <5>3 DEF CopiesDiffer
        <5> HIDE DEF C
        <5>5. Cardinality((C \ {x}) \cup {y}) = Cardinality(C)
          <6>1. IsFiniteSet(C \ {x}) /\ Cardinality(C \ {x}) = Cardinality(C) - 1
            BY <5>1, <5>2, FS_RemoveElement
          <6>2. Cardinality((C \ {x}) \cup {y}) = Cardinality(C \ {x}) + 1
            BY <5>1, <6>1, FS_AddElement
          <6> QED BY <5>2, <6>1, <6>2, FS_CardinalityType
        <5> QED BY <5>1, <5>4, <5>5
      <4> QED BY <4>1, <4>2
    <3> QED BY <1>5, <1>6, <3>1, <3>2 DEF CopiesDiffer, Copies
  <2>7. SealedTells'
    <3>1. badge'.sealed = Cardinality(Sealeds')
      BY <2>2, <2>3, <2>4 DEF SealedTells
    <3>2. ASSUME NEW d \in DOMAIN db'.sealed, db'.sealed[d] = "unread"
          PROVE  \E z \in S : z.e = d /\ ~z.read
      <4>1. d # x.e /\ db.sealed[d] = "unread" /\ d \in DOMAIN db.sealed
        BY <2>5, <3>2
      <4>2. PICK z \in lists.sealed : z.e = d /\ ~z.read
        BY <4>1 DEF SealedTells
      <4> QED BY <4>1, <4>2 DEF S
    <3> QED BY <1>6, <3>1, <3>2 DEF SealedTells
  <2>8. ViewTypes' /\ Selects' /\ LinesTell'
    <3>1. ViewTypes'
      BY <1>1, <1>6, <2>4, <2>5 DEF ViewTypes, DbType
    <3>2. Selects'
      BY <2>5 DEF Selects
    <3>3. LinesTell'
      BY <1>6, <2>4 DEF LinesTell
    <3> QED BY <3>1, <3>2, <3>3
  <2> QED BY <2>6, <2>7, <2>8
<1> QED BY <1>7, <1>8

-----------------------------------------------------------------------------
(* What comes in.                                                          *)

\* A step that changes the lists and their badges, not the sealed messages,
\* the screen or the database.
LEMMA ListsKeep ==
    ASSUME ViewInv, lists' \in ListsType, badge' \in BadgeType, LinesTell',
           lists'.sealed = lists.sealed, badge'.sealed = badge.sealed, UNCHANGED <<screen, db>>
    PROVE  ViewInv'
<1>1. ViewTypes' /\ Selects'
  BY DEF ViewInv, ViewTypes, Selects, DbType
<1> QED BY <1>1, ViewKeeps

\* A new line, post or thread counts unless it is shown.
LEMMA CountItem ==
    ASSUME NEW s \in Items, NEW n \in Nat, NEW e \in Letter, NEW on \in BOOLEAN, n = 0 => ~Unseen(s)
    PROVE  LET m == IF on THEN n ELSE n + 1
               x == Item(e, on)
           IN  /\ m \in Nat /\ Append(s, x) \in Items /\ Prepend(s, x) \in Items
               /\ m = 0 => ~Unseen(Append(s, x)) /\ ~Unseen(Prepend(s, x))
<1> DEFINE m == IF on THEN n ELSE n + 1
           x == Item(e, on)
<1>1. m \in Nat /\ (m = 0 => n = 0 /\ on)
  OBVIOUS
<1>2. x \in ItemType /\ x.seen = on
  BY DEF Item, ItemType
<1> HIDE DEF m, x
<1>3. Append(s, x) \in Items /\ Prepend(s, x) \in Items
      /\ (~Unseen(s) /\ x.seen => ~Unseen(Append(s, x)) /\ ~Unseen(Prepend(s, x)))
  BY <1>2, AddItem
<1>4. m = 0 => ~Unseen(Append(s, x)) /\ ~Unseen(Prepend(s, x))
  BY <1>1, <1>2, <1>3
<1> QED BY <1>1, <1>3, <1>4 DEF m, x

\* A line of chat.
LEMMA HandleChatKeeps ==
    ASSUME ViewInv, NEW e \in Letter, e.kind = "chat", HandleChat(e), UNCHANGED screen
    PROVE  ViewInv'
<1> DEFINE c == e.about
           on == screen.tab = "messages" /\ screen.view = "chat" /\ c \in ActiveChannel
           a == Append(lists.talk[c], Item(e, on))
           n == IF on THEN badge.chat[c] ELSE badge.chat[c] + 1
           t == [lists.talk EXCEPT ![c] = a]
           b == [badge.chat EXCEPT ![c] = n]
           L == [lists EXCEPT !.talk = t]
<1>1. lists \in ListsType /\ badge \in BadgeType /\ c \in Channel /\ e.from \in User
  BY TuiAssumption DEF ViewInv, ViewTypes
<1>2. lists.talk \in [Channel -> Items] /\ badge.chat \in [Channel -> Nat] /\ on \in BOOLEAN
  BY <1>1 DEF ListsType, BadgeType
<1>3. lists' = Track(L, e.from) /\ badge' = [badge EXCEPT !.chat = b] /\ UNCHANGED db
  BY DEF HandleChat
<1> HIDE DEF on, c
<1>4. a \in Items /\ n \in Nat /\ (n = 0 => ~Unseen(a))
  BY <1>1, <1>2, CountItem DEF ViewInv, LinesTell
<1> HIDE DEF a, n
<1>5. /\ t \in [Channel -> Items] /\ b \in [Channel -> Nat]
      /\ \A d \in Channel : b[d] = 0 => ~Unseen(t[d])
  BY <1>1, <1>2, <1>4 DEF ViewInv, LinesTell
<1> HIDE DEF t, b
<1>6. /\ L \in ListsType /\ L.sealed = lists.sealed /\ L.talk = t /\ L.posts = lists.posts
      /\ L.threads = lists.threads
  BY <1>1, <1>5 DEF ListsType
<1> HIDE DEF L
<1>7. /\ lists' \in ListsType /\ lists'.sealed = lists.sealed /\ lists'.talk = t
      /\ lists'.posts = lists.posts /\ lists'.threads = lists.threads
  BY <1>1, <1>3, <1>6, TrackType
<1>8. /\ badge' \in BadgeType /\ badge'.sealed = badge.sealed /\ badge'.chat = b
      /\ badge'.feed = badge.feed /\ badge'.forum = badge.forum
  BY <1>1, <1>3, <1>5 DEF BadgeType
<1>9. LinesTell'
  BY <1>5, <1>7, <1>8 DEF ViewInv, LinesTell
<1> QED BY <1>3, <1>7, <1>8, <1>9, ListsKeep

\* A post.
LEMMA HandlePostKeeps ==
    ASSUME ViewInv, NEW e \in Letter, HandlePost(e), UNCHANGED screen
    PROVE  ViewInv'
<1> DEFINE on == screen.tab = "feed"
           a == Prepend(lists.posts, Item(e, on))
           n == IF on THEN badge.feed ELSE badge.feed + 1
           L == [lists EXCEPT !.posts = a]
<1>1. lists \in ListsType /\ badge \in BadgeType /\ e.from \in User
  BY TuiAssumption DEF ViewInv, ViewTypes
<1>2. lists.posts \in Items /\ badge.feed \in Nat /\ on \in BOOLEAN
  BY <1>1 DEF ListsType, BadgeType
<1>3. lists' = Track(L, e.from) /\ badge' = [badge EXCEPT !.feed = n] /\ UNCHANGED db
  BY DEF HandlePost
<1> HIDE DEF on
<1>4. a \in Items /\ n \in Nat /\ (n = 0 => ~Unseen(a))
  BY <1>1, <1>2, CountItem DEF ViewInv, LinesTell
<1> HIDE DEF a, n
<1>6. /\ L \in ListsType /\ L.sealed = lists.sealed /\ L.talk = lists.talk /\ L.posts = a
      /\ L.threads = lists.threads
  BY <1>1, <1>4 DEF ListsType
<1> HIDE DEF L
<1>7. /\ lists' \in ListsType /\ lists'.sealed = lists.sealed /\ lists'.talk = lists.talk
      /\ lists'.posts = a /\ lists'.threads = lists.threads
  BY <1>1, <1>3, <1>6, TrackType
<1>8. /\ badge' \in BadgeType /\ badge'.sealed = badge.sealed /\ badge'.chat = badge.chat
      /\ badge'.feed = n /\ badge'.forum = badge.forum
  BY <1>1, <1>3, <1>4 DEF BadgeType
<1>9. LinesTell'
  BY <1>4, <1>7, <1>8 DEF ViewInv, LinesTell
<1> QED BY <1>3, <1>7, <1>8, <1>9, ListsKeep

\* A thread.
LEMMA HandleThreadKeeps ==
    ASSUME ViewInv, NEW e \in Letter, HandleThread(e), UNCHANGED screen
    PROVE  ViewInv'
<1> DEFINE on == screen.tab = "forum"
           a == Prepend(lists.threads, Item(e, on))
           n == IF on THEN badge.forum ELSE badge.forum + 1
           L == [lists EXCEPT !.threads = a]
<1>1. lists \in ListsType /\ badge \in BadgeType /\ e.from \in User
  BY TuiAssumption DEF ViewInv, ViewTypes
<1>2. lists.threads \in Items /\ badge.forum \in Nat /\ on \in BOOLEAN
  BY <1>1 DEF ListsType, BadgeType
<1>3. lists' = Track(L, e.from) /\ badge' = [badge EXCEPT !.forum = n] /\ UNCHANGED db
  BY DEF HandleThread
<1> HIDE DEF on
<1>4. a \in Items /\ n \in Nat /\ (n = 0 => ~Unseen(a))
  BY <1>1, <1>2, CountItem DEF ViewInv, LinesTell
<1> HIDE DEF a, n
<1>6. /\ L \in ListsType /\ L.sealed = lists.sealed /\ L.talk = lists.talk /\ L.posts = lists.posts
      /\ L.threads = a
  BY <1>1, <1>4 DEF ListsType
<1> HIDE DEF L
<1>7. /\ lists' \in ListsType /\ lists'.sealed = lists.sealed /\ lists'.talk = lists.talk
      /\ lists'.posts = lists.posts /\ lists'.threads = a
  BY <1>1, <1>3, <1>6, TrackType
<1>8. /\ badge' \in BadgeType /\ badge'.sealed = badge.sealed /\ badge'.chat = badge.chat
      /\ badge'.feed = badge.feed /\ badge'.forum = n
  BY <1>1, <1>3, <1>4 DEF BadgeType
<1>9. LinesTell'
  BY <1>4, <1>7, <1>8 DEF ViewInv, LinesTell
<1> QED BY <1>3, <1>7, <1>8, <1>9, ListsKeep

\* Lists that nothing counts: replies, guest book, people and peers.
LEMMA QuietKeeps ==
    ASSUME ViewInv, lists' \in ListsType, lists'.sealed = lists.sealed, lists'.talk = lists.talk,
           lists'.posts = lists.posts, lists'.threads = lists.threads, UNCHANGED <<badge, screen, db>>
    PROVE  ViewInv'
<1>1. LinesTell' /\ badge' \in BadgeType
  BY DEF ViewInv, ViewTypes, LinesTell
<1> QED BY <1>1, ListsKeep

\* Replies, guest book entries, the peers of the daemon, and the profiles and
\* statuses of people.
LEMMA QuietIncomingKeeps ==
    ASSUME ViewInv, NEW e \in Letter, UNCHANGED screen,
           HandleReply(e) \/ HandleGuestbook(e) \/ HandleStatus(e) \/ HandleProfile(e)
    PROVE  ViewInv'
<1>1. lists \in ListsType /\ DbType(db) /\ e.from \in User
  BY TuiAssumption DEF ViewInv, ViewTypes
<1>2. CASE HandleReply(e)
  <2> DEFINE r == lists.replies \cup {e}
             L == [lists EXCEPT !.replies = r]
  <2>1. r \in SUBSET Letter /\ lists' = Track(L, e.from) /\ UNCHANGED <<badge, db>>
    BY <1>1, <1>2 DEF ListsType, HandleReply
  <2> HIDE DEF r
  <2>2. /\ L \in ListsType /\ L.sealed = lists.sealed /\ L.talk = lists.talk
        /\ L.posts = lists.posts /\ L.threads = lists.threads
    BY <1>1, <2>1 DEF ListsType
  <2> HIDE DEF L
  <2> QED BY <1>1, <2>1, <2>2, TrackType, QuietKeeps
<1>3. CASE HandleGuestbook(e)
  <2> DEFINE r == lists.guestbook \cup {e}
  <2>1. r \in SUBSET Letter /\ lists' = [lists EXCEPT !.guestbook = r] /\ UNCHANGED <<badge, db>>
    BY <1>1, <1>3 DEF ListsType, HandleGuestbook
  <2> HIDE DEF r
  <2>2. /\ lists' \in ListsType /\ lists'.sealed = lists.sealed /\ lists'.talk = lists.talk
        /\ lists'.posts = lists.posts /\ lists'.threads = lists.threads
    BY <1>1, <2>1 DEF ListsType
  <2> QED BY <2>1, <2>2, QuietKeeps
<1>4. CASE HandleStatus(e)
  BY <1>1, <1>4, TrackType, QuietKeeps DEF HandleStatus
<1>5. CASE HandleProfile(e)
  <2> DEFINE r == db.profiles \cup {e.from}
  <2>1. r \in SUBSET User /\ db' = [db EXCEPT !.profiles = r] /\ UNCHANGED <<lists, badge, screen>>
    BY <1>1, <1>5 DEF DbType, HandleProfile, CacheProfile
  <2> HIDE DEF r
  <2>2. DbType(db') /\ db'.channels = db.channels /\ db'.sealed = db.sealed
    BY <1>1, <2>1 DEF DbType
  <2> QED BY <2>1, <2>2, DbKeeps
<1> QED BY <1>2, <1>3, <1>4, <1>5

\* A deletion: what is deleted was seen, or its badge stays.
LEMMA ApplyDeleteKeeps ==
    ASSUME ViewInv, NEW e, ApplyDelete(e), UNCHANGED screen
    PROVE  ViewInv'
<1> DEFINE t == [c \in Channel |-> Without(lists.talk[c], e.about)]
           p == Without(lists.posts, e.about)
           h == Without(lists.threads, e.about)
<1>1. lists \in ListsType /\ badge \in BadgeType
  BY DEF ViewInv, ViewTypes
<1>2. lists' = [lists EXCEPT !.talk = t, !.posts = p, !.threads = h] /\ UNCHANGED <<badge, db>>
  BY DEF ApplyDelete
<1>3. lists.talk \in [Channel -> Items] /\ lists.posts \in Items /\ lists.threads \in Items
  BY <1>1 DEF ListsType
<1>4. /\ p \in Items /\ (~Unseen(lists.posts) => ~Unseen(p))
      /\ h \in Items /\ (~Unseen(lists.threads) => ~Unseen(h))
      /\ t \in [Channel -> Items] /\ \A c \in Channel : ~Unseen(lists.talk[c]) => ~Unseen(t[c])
  BY <1>3, WithoutType
<1> HIDE DEF t, p, h
<1>5. /\ lists' \in ListsType /\ lists'.sealed = lists.sealed /\ lists'.talk = t
      /\ lists'.posts = p /\ lists'.threads = h
  BY <1>1, <1>2, <1>4 DEF ListsType
<1>6. LinesTell'
  BY <1>2, <1>4, <1>5 DEF ViewInv, LinesTell
<1> QED BY <1>1, <1>2, <1>5, <1>6, ListsKeep

\* Whatever the daemon pushes.
LEMMA IncomingKeeps ==
    ASSUME ViewInv, NetTypes, HandleIncoming
    PROVE  ViewInv'
<1>1. PICK m \in inbox :
        /\ m.kind = "incoming" /\ UNCHANGED screen
        /\ IF m.e.from \in db.blocked THEN UNCHANGED <<lists, badge, db>>
           ELSE \/ m.e.kind = "chat" /\ HandleChat(m.e)
                \/ m.e.kind = "post" /\ HandlePost(m.e)
                \/ m.e.kind = "thread" /\ HandleThread(m.e)
                \/ m.e.kind = "reply" /\ HandleReply(m.e)
                \/ m.e.kind = "profile" /\ HandleProfile(m.e)
                \/ m.e.kind = "guestbook" /\ HandleGuestbook(m.e)
                \/ m.e.kind = "status" /\ HandleStatus(m.e)
                \/ m.e.kind = "sealed" /\ OpenSealed(m.e)
                \/ m.e.kind = "delete" /\ ApplyDelete(m.e)
  BY DEF HandleIncoming
<1>2. m.e \in Env /\ m.e \in Letter
  BY <1>1 DEF NetTypes, Messages, Letter
<1>3. CASE UNCHANGED <<lists, badge, db>>
  <2>1. screen \in ScreenType
    BY DEF ViewInv, ViewTypes
  <2> QED BY <1>1, <1>3, <2>1, ScreenKeeps
<1>4. CASE m.e.kind = "chat" /\ HandleChat(m.e)
  BY <1>1, <1>2, <1>4, HandleChatKeeps
<1>5. CASE HandlePost(m.e)
  BY <1>1, <1>2, <1>5, HandlePostKeeps
<1>6. CASE HandleThread(m.e)
  BY <1>1, <1>2, <1>6, HandleThreadKeeps
<1>7. CASE HandleReply(m.e) \/ HandleGuestbook(m.e) \/ HandleStatus(m.e) \/ HandleProfile(m.e)
  BY <1>1, <1>2, <1>7, QuietIncomingKeeps
<1>8. CASE m.e.kind = "sealed" /\ OpenSealed(m.e)
  BY <1>1, <1>2, <1>8, OpenSealedKeeps
<1>9. CASE ApplyDelete(m.e)
  BY <1>1, <1>9, ApplyDeleteKeeps
<1> QED BY <1>1, <1>3, <1>4, <1>5, <1>6, <1>7, <1>8, <1>9

-----------------------------------------------------------------------------
(* Keys and lines.                                                         *)

\* A channel that is shown is a channel that is joined.
LEMMA ActiveChannelType ==
    ASSUME ViewInv
    PROVE  \A c \in ActiveChannel : c \in Channel /\ screen.sel \in DOMAIN db.channels
                                    /\ db.channels[screen.sel] = c /\ db.channels # <<>>
<1>1. db.channels \in Seq(Channel)
  BY DEF ViewInv, ViewTypes, DbType
<1> QED BY <1>1, ElementOfSeq, LenProperties DEF ViewInv, Selects, ActiveChannel

\* The senders of what a list has.
LEMMA SendersType ==
    ASSUME NEW s \in Items
    PROVE  Senders(s) \subseteq User
<1>1. \A i \in DOMAIN s : s[i] \in ItemType
  BY ElementOfSeq, LenProperties DEF Items
<1>2. \A i \in DOMAIN s : s[i].e \in Letter
  BY <1>1 DEF ItemType
<1> QED BY <1>2, TuiAssumption DEF Senders

\* A step that shows another channel: its badge is cleared.
LEMMA ShowChannelKeeps ==
    ASSUME ViewInv, NEW i \in DOMAIN db.channels,
           screen' = [screen EXCEPT !.sel = i, !.tab = "messages", !.view = "chat"],
           badge' = [badge EXCEPT !.chat[db.channels[i]] = 0],
           lists' = [lists EXCEPT !.talk = Shown(@, {db.channels[i]})], UNCHANGED db
    PROVE  ViewInv'
<1> DEFINE c == db.channels[i]
           b == [badge.chat EXCEPT ![c] = 0]
           t == Shown(lists.talk, {c})
<1>1. lists \in ListsType /\ badge \in BadgeType /\ screen \in ScreenType /\ "messages" \in Tab
      /\ DbType(db) /\ db.channels \in Seq(Channel)
  BY TuiAssumption DEF ViewInv, ViewTypes, DbType
<1>2. i \in Nat /\ c \in Channel
  BY <1>1, ElementOfSeq, LenProperties
<1>3. badge' = [badge EXCEPT !.chat = b] /\ lists' = [lists EXCEPT !.talk = t]
  OBVIOUS
<1> HIDE DEF c
<1>4. lists.talk \in [Channel -> Items] /\ badge.chat \in [Channel -> Nat]
  BY <1>1 DEF ListsType, BadgeType
<1>5. t \in [Channel -> Items] /\ b \in [Channel -> Nat]
  BY <1>2, <1>4, AllSeenType DEF Shown
<1>6. \A d \in Channel : b[d] = 0 => ~Unseen(t[d])
  BY <1>2, <1>4, AllSeenType DEF Shown, ViewInv, LinesTell
<1> HIDE DEF b, t
<1>7. /\ lists' \in ListsType /\ lists'.sealed = lists.sealed /\ lists'.talk = t
      /\ lists'.posts = lists.posts /\ lists'.threads = lists.threads
  BY <1>1, <1>3, <1>5 DEF ListsType
<1>8. /\ badge' \in BadgeType /\ badge'.sealed = badge.sealed /\ badge'.chat = b
      /\ badge'.feed = badge.feed /\ badge'.forum = badge.forum
  BY <1>1, <1>3, <1>5 DEF BadgeType
<1>9. screen' \in ScreenType /\ screen'.sel = i
  BY <1>1, <1>2 DEF ScreenType
<1>10. ViewTypes' /\ Selects'
  BY <1>1, <1>7, <1>8, <1>9 DEF ViewTypes, Selects, DbType
<1>11. LinesTell'
  BY <1>6, <1>7, <1>8 DEF ViewInv, LinesTell
<1> QED BY <1>7, <1>8, <1>10, <1>11, ViewKeeps

\* A step of the database and the screen that changes the joined channels.
LEMMA ChannelsKeep ==
    ASSUME ViewInv, NEW cs \in Seq(Channel), \A i, j \in DOMAIN cs : cs[i] = cs[j] => i = j,
           NEW k \in Nat, cs # <<>> => k \in DOMAIN cs,
           db' = [db EXCEPT !.channels = cs], screen' = [screen EXCEPT !.sel = k],
           UNCHANGED <<lists, badge>>
    PROVE  ViewInv'
<1>1. screen \in ScreenType /\ DbType(db)
  BY DEF ViewInv, ViewTypes
<1>2. screen' \in ScreenType /\ screen'.sel = k
  BY <1>1 DEF ScreenType
<1>3. db'.channels = cs /\ db'.sealed = db.sealed /\ DbType(db')
  BY <1>1 DEF DbType
<1>4. ViewTypes' /\ Selects' /\ LinesTell'
  BY <1>2, <1>3 DEF ViewInv, ViewTypes, Selects, LinesTell, DbType
<1> QED BY <1>3, <1>4, ViewKeeps

\* /join adds the channel once, and selects it.
LEMMA JoinKeeps ==
    ASSUME ViewInv, Join
    PROVE  ViewInv'
<1>1. PICK ch \in Channel :
        LET d == JoinChannel(db, ch)
        IN  /\ db' = d
            /\ screen' = [screen EXCEPT !.sel = CHOOSE i \in DOMAIN d.channels : d.channels[i] = ch]
            /\ UNCHANGED <<lists, badge>>
  BY DEF Join
<1> DEFINE s == db.channels
           cs == IF ch \in Elems(s) THEN s ELSE Append(s, ch)
           k == CHOOSE i \in DOMAIN cs : cs[i] = ch
<1>2. s \in Seq(Channel) /\ \A i, j \in DOMAIN s : s[i] = s[j] => i = j
  BY DEF ViewInv, ViewTypes, DbType
<1>3. db \in [channels : Seq(Channel), sealed : [DOMAIN db.sealed -> {"none", "unread", "read"}],
              nick : [User -> {"none", "name", "note"}],
              blocked : SUBSET User, profiles : SUBSET User, accepted : BOOLEAN]
  BY DEF ViewInv, ViewTypes, DbType
<1>4. db' = [db EXCEPT !.channels = cs] /\ db'.channels = cs
  BY <1>1, <1>3 DEF JoinChannel
<1>5. screen' = [screen EXCEPT !.sel = k]
  BY <1>1, <1>4
<1>6. /\ cs \in Seq(Channel) /\ \E i \in DOMAIN cs : cs[i] = ch
      /\ \A i, j \in DOMAIN cs : cs[i] = cs[j] => i = j
  <2>1. CASE ch \in Elems(s)
    BY <1>2, <2>1 DEF Elems
  <2>2. CASE ch \notin Elems(s)
    <3> DEFINE a == Append(s, ch)
    <3>1. DOMAIN s = 1..Len(s) /\ Len(s) \in Nat
      BY <1>2, LenProperties
    <3>2. /\ a \in Seq(Channel) /\ DOMAIN a = 1..(Len(s) + 1) /\ a[Len(s) + 1] = ch
          /\ \A i \in 1..Len(s) : a[i] = s[i]
      BY <1>2, <3>1, AppendProperties
    <3>3. \A i \in 1..Len(s) : s[i] # ch
      BY <2>2, <3>1 DEF Elems
    <3>4. cs = a
      BY <2>2
    <3> HIDE DEF a, cs
    <3>5. \A i, j \in 1..(Len(s) + 1) : a[i] = a[j] => i = j
      <4> SUFFICES ASSUME NEW i \in 1..(Len(s) + 1), NEW j \in 1..(Len(s) + 1), a[i] = a[j]
                   PROVE  i = j
        OBVIOUS
      <4>1. (i \in 1..Len(s) \/ i = Len(s) + 1) /\ (j \in 1..Len(s) \/ j = Len(s) + 1)
        BY <3>1
      <4> QED BY <1>2, <3>1, <3>2, <3>3, <4>1
    <3>6. Len(s) + 1 \in 1..(Len(s) + 1)
      BY <3>1
    <3> QED BY <3>2, <3>4, <3>5, <3>6
  <2> QED BY <2>1, <2>2
<1> HIDE DEF cs
<1>7. k \in DOMAIN cs
  BY <1>6
<1> HIDE DEF k
<1>8. k \in Nat
  BY <1>6, <1>7, LenProperties
<1> QED BY <1>1, <1>4, <1>5, <1>6, <1>7, <1>8, ChannelsKeep

\* /leave cuts the channel out, and the selection stays within the list.
LEMMA LeaveKeeps ==
    ASSUME ViewInv, Leave
    PROVE  ViewInv'
<1>1. PICK ch \in ActiveChannel :
        LET d == LeaveChannel(db, ch)
        IN  /\ db' = d
            /\ screen' = [screen EXCEPT !.sel = IF screen.sel <= Len(d.channels) \/ screen.sel = 1
                                                THEN screen.sel ELSE screen.sel - 1]
            /\ UNCHANGED <<lists, badge>>
  BY DEF Leave
<1> DEFINE s == db.channels
           places == {i \in DOMAIN s : s[i] = ch}
           cs == Cut(s, places)
           k == IF screen.sel <= Len(cs) \/ screen.sel = 1 THEN screen.sel ELSE screen.sel - 1
<1>2. s \in Seq(Channel) /\ \A i, j \in DOMAIN s : s[i] = s[j] => i = j
  BY DEF ViewInv, ViewTypes, DbType
<1>3. db \in [channels : Seq(Channel), sealed : [DOMAIN db.sealed -> {"none", "unread", "read"}],
              nick : [User -> {"none", "name", "note"}],
              blocked : SUBSET User, profiles : SUBSET User, accepted : BOOLEAN]
  BY DEF ViewInv, ViewTypes, DbType
<1>4. db' = [db EXCEPT !.channels = cs] /\ db'.channels = cs
  BY <1>1, <1>3 DEF LeaveChannel
<1>5. screen' = [screen EXCEPT !.sel = k]
  BY <1>1, <1>4
<1>6. DOMAIN s = 1..Len(s) /\ Len(s) \in Nat /\ screen.sel \in 1..Len(s)
  BY <1>2, ActiveChannelType, LenProperties
<1>7. /\ cs \in Seq(Channel) /\ (Len(cs) = Len(s) \/ Len(cs) = Len(s) - 1)
      /\ \E shift \in [DOMAIN cs -> DOMAIN s] :
           /\ \A i \in DOMAIN cs : cs[i] = s[shift[i]]
           /\ \A i, j \in DOMAIN cs : shift[i] = shift[j] => i = j
  <2>1. places \subseteq DOMAIN s
    OBVIOUS
  <2> HIDE DEF places
  <2> QED BY <1>2, <2>1, CutType
<1> HIDE DEF cs
<1>8. \A i, j \in DOMAIN cs : cs[i] = cs[j] => i = j
  BY <1>2, <1>7
<1>9. DOMAIN cs = 1..Len(cs) /\ Len(cs) \in Nat
  BY <1>7, LenProperties
<1>10. k \in Nat /\ (Len(cs) # 0 => k \in 1..Len(cs))
  BY <1>6, <1>7, <1>9
<1>11. cs # <<>> => k \in DOMAIN cs
  BY <1>7, <1>9, <1>10, EmptySeq
<1> HIDE DEF k
<1> QED BY <1>1, <1>4, <1>5, <1>7, <1>8, <1>10, <1>11, ChannelsKeep

\* A name or a note is set or deleted, a person is blocked or unblocked, the
\* manifesto is accepted.
LEMMA NamesType ==
    ASSUME DbType(db), NEW p \in User, NEW n \in {"name", "note"},
           NEW d \in {SetNickname(db, p, n), DeleteNickname(db, p), Block(db, p), Unblock(db, p),
                      SetSetting(db), db}
    PROVE  DbType(d) /\ d.channels = db.channels /\ d.sealed = db.sealed
<1>1. ASSUME NEW v \in {"none", "name", "note"}, d = [db EXCEPT !.nick[p] = v]
      PROVE  DbType(d) /\ d.channels = db.channels /\ d.sealed = db.sealed
  <2> DEFINE w == [db.nick EXCEPT ![p] = v]
  <2>1. w \in [User -> {"none", "name", "note"}] /\ d = [db EXCEPT !.nick = w]
    BY <1>1 DEF DbType
  <2> HIDE DEF w
  <2> QED BY <2>1 DEF DbType
<1>2. ASSUME NEW v \in SUBSET User, d = [db EXCEPT !.blocked = v]
      PROVE  DbType(d) /\ d.channels = db.channels /\ d.sealed = db.sealed
  BY <1>2 DEF DbType
<1>3. CASE d = SetNickname(db, p, n) \/ d = DeleteNickname(db, p)
  BY <1>1, <1>3 DEF SetNickname, DeleteNickname
<1>4. CASE d = Block(db, p) \/ d = Unblock(db, p)
  <2>1. db.blocked \cup {p} \in SUBSET User /\ db.blocked \ {p} \in SUBSET User
    BY DEF DbType
  <2> QED BY <1>2, <1>4, <2>1 DEF Block, Unblock
<1>5. CASE d = SetSetting(db)
  BY <1>5 DEF SetSetting, DbType
<1>6. CASE d = db
  BY <1>6
<1> QED BY <1>3, <1>4, <1>5, <1>6

\* ... and nothing else changes.
LEMMA NamesKeep ==
    ASSUME ViewInv, NEW p \in User, NEW n \in {"name", "note"},
           db' \in {SetNickname(db, p, n), DeleteNickname(db, p), Block(db, p), Unblock(db, p),
                    SetSetting(db), db},
           screen' \in ScreenType, screen'.sel = screen.sel, UNCHANGED <<lists, badge>>
    PROVE  ViewInv'
<1>1. DbType(db)
  BY DEF ViewInv, ViewTypes
<1>2. DbType(db') /\ db'.channels = db.channels /\ db'.sealed = db.sealed
  BY <1>1, NamesType
<1>3. ViewTypes' /\ Selects' /\ LinesTell'
  BY <1>2 DEF ViewInv, ViewTypes, Selects, LinesTell, DbType
<1> QED BY <1>2, <1>3, ViewKeeps

\* The person a sealed message, a peer or an entry is from.
LEMMA PeopleType ==
    ASSUME ViewInv
    PROVE  /\ lists.people \subseteq User /\ lists.peers \subseteq User /\ Me \in User
           /\ \A x \in lists.sealed : x.e.from \in User
           /\ \A c \in Channel : Senders(lists.talk[c]) \subseteq User
           /\ Senders(lists.posts) \subseteq User /\ Senders(lists.threads) \subseteq User
           /\ screen.target \in User /\ screen.profile \in User
<1>1. lists \in ListsType /\ screen \in ScreenType
  BY DEF ViewInv, ViewTypes
<1>2. lists.people \subseteq User /\ lists.peers \subseteq User /\ Me \in User
  BY <1>1 DEF ListsType, User
<1>3. \A x \in lists.sealed : x.e.from \in User
  BY <1>1, TuiAssumption DEF ListsType, SealedItem
<1>4. /\ \A c \in Channel : lists.talk[c] \in Items
      /\ lists.posts \in Items /\ lists.threads \in Items
  BY <1>1 DEF ListsType
<1>5. screen.target \in User /\ screen.profile \in User
  BY <1>1 DEF ScreenType
<1> QED BY <1>2, <1>3, <1>4, <1>5, SendersType

\* Keys that open an overlay, show a tab or a profile, or move on the screen.
LEMMA ScreenKeysKeep ==
    ASSUME ViewInv, NetTypes,
           GlobalKey \/ PressTab \/ ChatKey \/ ProfileKey \/ FeedKey \/ ForumKey \/ PeersKey
             \/ SettingsKey \/ CloseOverlay
    PROVE  ViewInv'
<1> USE DEF Overlays
<1>0. screen \in ScreenType
  BY DEF ViewInv, ViewTypes
<1>1. CASE GlobalKey
  BY <1>1, PeopleType, OpensKeeps DEF GlobalKey
<1>2. CASE PressTab
  <2>1. PICK t \in plan.tabs : SwitchTab(t, screen)
    BY <1>2 DEF PressTab
  <2>2. t \in Tab
    BY TuiAssumption DEF NetTypes
  <2> QED BY <1>0, <2>1, <2>2, SwitchTabKeeps
<1>3. CASE ChatKey
  <2>1. CASE screen' = [screen EXCEPT !.view = "sealed"] /\ ScreenOnly
    <3>1. screen' \in ScreenType /\ screen'.sel = screen.sel
      BY <1>0, <2>1 DEF ScreenType
    <3> QED BY <2>1, <3>1, ScreenKeeps DEF ScreenOnly
  <2>2. CASE \E c \in ActiveChannel : \E p \in Senders(lists.talk[c]) :
               Opens("nick", p) \/ Opens("seal", p) \/ ShowProfile(p)
    BY <2>2, ActiveChannelType, PeopleType, OpensKeeps, ShowProfileKeeps
  <2> QED BY <1>3, <2>1, <2>2 DEF ChatKey
<1>4. CASE ProfileKey
  <2>1. CASE \E kind \in {"seal", "guestbook", "nick"} : Opens(kind, screen.profile)
    BY <2>1, PeopleType, OpensKeeps
  <2>2. CASE Opens("profile", screen.target)
    BY <2>2, PeopleType, OpensKeeps
  <2>3. CASE screen' = [screen EXCEPT !.detail = FALSE, !.profile = Me] /\ ScreenOnly
    <3>1. screen' \in ScreenType /\ screen'.sel = screen.sel
      BY <1>0, <2>3, PeopleType DEF ScreenType
    <3> QED BY <2>3, <3>1, ScreenKeeps DEF ScreenOnly
  <2> QED BY <1>4, <2>1, <2>2, <2>3 DEF ProfileKey
<1>5. CASE FeedKey
  BY <1>5, PeopleType, OpensKeeps, ShowProfileKeeps DEF FeedKey
<1>6. CASE ForumKey
  <2>0. lists.threads \in Items
    BY DEF ViewInv, ViewTypes, ListsType
  <2>1. CASE Opens("thread", Me) \/ Opens("reply", Me)
    BY <2>1, PeopleType, OpensKeeps
  <2>2. CASE \E p \in Senders(lists.threads) : ShowProfile(p)
    BY <2>2, PeopleType, ShowProfileKeeps
  <2>3. ASSUME NEW i \in Nat, screen' = [screen EXCEPT !.open = i], ScreenOnly PROVE ViewInv'
    <3>1. screen' \in ScreenType /\ screen'.sel = screen.sel
      BY <1>0, <2>3 DEF ScreenType
    <3> QED BY <2>3, <3>1, ScreenKeeps DEF ScreenOnly
  <2>4. \A i \in DOMAIN lists.threads : i \in Nat
    BY <2>0, LenProperties DEF Items
  <2>5. CASE screen.open > 0 /\ screen.open <= Len(lists.threads)
             /\ Opens("nick", lists.threads[screen.open].e.from)
    <3>1. screen.open \in DOMAIN lists.threads
      BY <1>0, <2>0, <2>5, LenProperties DEF Items, ScreenType
    <3>2. lists.threads[screen.open].e.from \in User
      BY <3>1, PeopleType DEF Senders
    <3> QED BY <2>5, <3>2, OpensKeeps
  <2> QED BY <1>6, <2>1, <2>2, <2>3, <2>4, <2>5 DEF ForumKey
<1>7. CASE PeersKey
  BY <1>7, PeopleType, OpensKeeps DEF PeersKey
<1>8. CASE SettingsKey
  <2>1. screen' = [screen EXCEPT !.section = ~screen.section]
        \/ screen' = [screen EXCEPT !.gate = "again"]
    BY <1>8 DEF SettingsKey
  <2>2. screen' \in ScreenType /\ screen'.sel = screen.sel
    BY <1>0, <2>1 DEF ScreenType
  <2> QED BY <1>8, <2>2, ScreenKeeps DEF SettingsKey, ScreenOnly
<1>9. CASE CloseOverlay
  <2>1. screen' \in ScreenType /\ screen'.sel = screen.sel
    BY <1>0, <1>9 DEF CloseOverlay, Closed, ScreenType
  <2> QED BY <1>9, <2>1, ScreenKeeps DEF CloseOverlay, ScreenOnly
<1> QED BY <1>1, <1>2, <1>3, <1>4, <1>5, <1>6, <1>7, <1>8, <1>9

\* Keys that act on people and sealed messages, the gate, and clicks.
LEMMA ActingKeysKeep ==
    ASSUME ViewInv, NetTypes, GateKey \/ PeopleKey \/ SealedKey \/ ClickSidebar
    PROVE  ViewInv'
<1> USE DEF Overlays
<1>0. screen \in ScreenType /\ "people" \in Tab /\ "messages" \in Tab
  BY TuiAssumption DEF ViewInv, ViewTypes
<1>1. CASE GateKey
  <2>1. screen' \in ScreenType /\ screen'.sel = screen.sel
    BY <1>0, <1>1 DEF GateKey, ScreenType
  <2>2. db' \in {SetSetting(db), db} /\ UNCHANGED <<lists, badge>>
    BY <1>1 DEF GateKey
  <2>3. Me \in User /\ "name" \in {"name", "note"}
    BY PeopleType
  <2> QED BY <2>1, <2>2, <2>3, NamesKeep
<1>2. CASE PeopleKey
  <2>1. ASSUME NEW p \in User, NEW o \in {screen.overlay, "profile"}, ScreenOnly,
               screen' = [screen EXCEPT !.detail = TRUE, !.profile = p, !.overlay = o]
        PROVE  ViewInv'
    <3>1. screen' \in ScreenType /\ screen'.sel = screen.sel
      BY <1>0, <2>1 DEF ScreenType
    <3> QED BY <2>1, <3>1, ScreenKeeps DEF ScreenOnly
  <2>2. CASE \E p \in lists.people \cup {Me} :
               screen' = [screen EXCEPT !.detail = TRUE, !.profile = p] /\ ScreenOnly
    <3>1. PICK p \in User : screen' = [screen EXCEPT !.detail = TRUE, !.profile = p] /\ ScreenOnly
      BY <2>2, PeopleType
    <3>2. screen' \in ScreenType /\ screen'.sel = screen.sel
      BY <1>0, <3>1 DEF ScreenType
    <3> QED BY <3>1, <3>2, ScreenKeeps DEF ScreenOnly
  <2>3. CASE screen' = [screen EXCEPT !.detail = TRUE, !.profile = Me, !.overlay = "profile"]
             /\ ScreenOnly
    BY <2>1, <2>3, PeopleType
  <2>4. CASE \E p \in lists.people : Opens("nick", p) \/ Opens("seal", p)
    BY <2>4, PeopleType, OpensKeeps
  <2>5. CASE \E p \in lists.people :
               db' = (IF p \in db.blocked THEN Unblock(db, p) ELSE Block(db, p)) /\ DbOnly
    <3>1. PICK p \in User : db' \in {Block(db, p), Unblock(db, p)} /\ DbOnly
      BY <2>5, PeopleType
    <3>2. "name" \in {"name", "note"}
      OBVIOUS
    <3> QED BY <1>0, <3>1, <3>2, NamesKeep DEF DbOnly
  <2> QED BY <1>2, <2>2, <2>3, <2>4, <2>5 DEF PeopleKey
<1>3. CASE SealedKey
  <2>1. CASE screen' = [screen EXCEPT !.view = "chat"] /\ ScreenOnly
    <3>1. screen' \in ScreenType /\ screen'.sel = screen.sel
      BY <1>0, <2>1 DEF ScreenType
    <3> QED BY <2>1, <3>1, ScreenKeeps DEF ScreenOnly
  <2>2. ASSUME NEW x \in lists.sealed, Reveal(x), UNCHANGED <<net, screen>> PROVE ViewInv'
    BY <2>2, RevealKeeps
  <2>3. CASE \E x \in lists.sealed : Opens("seal", x.e.from) \/ Opens("nick", x.e.from)
                                     \/ ShowProfile(x.e.from)
    BY <2>3, PeopleType, OpensKeeps, ShowProfileKeeps
  <2> QED BY <1>3, <2>1, <2>2, <2>3 DEF SealedKey
<1>4. CASE ClickSidebar
  <2>1. CASE \E i \in DOMAIN db.channels :
             /\ screen' = [screen EXCEPT !.sel = i, !.tab = "messages", !.view = "chat"]
             /\ badge' = [badge EXCEPT !.chat[db.channels[i]] = 0]
             /\ lists' = [lists EXCEPT !.talk = Shown(@, {db.channels[i]})]
             /\ Event /\ UNCHANGED <<net, db>>
    BY <2>1, ShowChannelKeeps
  <2>2. CASE screen' = [screen EXCEPT !.tab = "messages", !.view = "sealed"] /\ ScreenOnly
    <3>1. screen' \in ScreenType /\ screen'.sel = screen.sel
      BY <1>0, <2>2 DEF ScreenType
    <3> QED BY <2>2, <3>1, ScreenKeeps DEF ScreenOnly
  <2>3. CASE SwitchTab("people", [screen EXCEPT !.detail = FALSE])
    <3> DEFINE scr == [screen EXCEPT !.detail = FALSE]
    <3>1. scr \in ScreenType /\ scr.sel = screen.sel
      BY <1>0 DEF ScreenType
    <3> HIDE DEF scr
    <3>2. SwitchTab("people", scr)
      BY <2>3 DEF scr
    <3> QED BY <1>0, <3>1, <3>2, SwitchTabKeeps
  <2> QED BY <1>4, <2>1, <2>2, <2>3 DEF ClickSidebar
<1> QED BY <1>1, <1>2, <1>3, <1>4

\* A line in the chat: a command, or something said.
LEMMA EnterLineKeeps ==
    ASSUME ViewInv, EnterLine
    PROVE  ViewInv'
<1> USE DEF Overlays
<1>0. screen \in ScreenType /\ lists \in ListsType /\ "people" \in Tab /\ "network" \in Tab
  BY TuiAssumption DEF ViewInv, ViewTypes
<1>a. Person \cup {Me} = User
  BY DEF User
<1>1. CASE Join
  BY <1>1, JoinKeeps
<1>2. CASE Leave
  BY <1>2, LeaveKeeps
<1>3. CASE LocalCommand
  <2>1. PICK p \in User :
          /\ db' \in {SetNickname(db, p, IF db.nick[p] = "note" THEN "note" ELSE "name"),
                      SetNickname(db, p, "note"), Block(db, p), Unblock(db, p)}
          /\ UNCHANGED <<lists, badge, screen>>
    BY <1>3, <1>a DEF LocalCommand, DbOnly
  <2>2. \E n \in {"name", "note"} : db' \in {SetNickname(db, p, n), Block(db, p), Unblock(db, p)}
    BY <2>1
  <2> QED BY <1>0, <2>1, <2>2, NamesKeep
<1>4. CASE Opens("help", Me) \/ \E p \in Person \cup {Me} : Opens("seal", p)
  BY <1>4, <1>a, PeopleType, OpensKeeps
<1>5. CASE screen' = [screen EXCEPT !.view = "sealed"] /\ ScreenOnly
  <2>1. screen' \in ScreenType /\ screen'.sel = screen.sel
    BY <1>0, <1>5 DEF ScreenType
  <2> QED BY <1>5, <2>1, ScreenKeeps DEF ScreenOnly
<1>6. CASE \E p \in Person \cup {Me} : ShowProfile(p)
  BY <1>6, <1>a, ShowProfileKeeps
<1>7. CASE SwitchTab("people", [screen EXCEPT !.detail = FALSE])
  <2> DEFINE scr == [screen EXCEPT !.detail = FALSE]
  <2>1. scr \in ScreenType /\ scr.sel = screen.sel
    BY <1>0 DEF ScreenType
  <2> HIDE DEF scr
  <2>2. SwitchTab("people", scr)
    BY <1>7 DEF scr
  <2> QED BY <1>0, <2>1, <2>2, SwitchTabKeeps
<1>8. CASE SwitchTab("network", screen)
  BY <1>0, <1>8, SwitchTabKeeps
<1>9. CASE SendChat
  <2>1. PICK ch \in ActiveChannel, e \in Own :
          /\ lists' = [lists EXCEPT !.talk[ch] = Append(@, Item(e, TRUE))]
          /\ UNCHANGED <<screen, badge, db>>
    BY <1>9 DEF SendChat
  <2> DEFINE a == Append(lists.talk[ch], Item(e, TRUE))
             t == [lists.talk EXCEPT ![ch] = a]
  <2>2. ch \in Channel /\ e \in Letter /\ lists.talk \in [Channel -> Items]
    BY <1>0, ActiveChannelType DEF Letter, ListsType
  <2>3. Item(e, TRUE) \in ItemType /\ Item(e, TRUE).seen
    BY <2>2 DEF Item, ItemType
  <2>4. a \in Items /\ (~Unseen(lists.talk[ch]) => ~Unseen(a)) /\ lists' = [lists EXCEPT !.talk = t]
    BY <2>1, <2>2, <2>3, AddItem
  <2> HIDE DEF a
  <2>5. /\ t \in [Channel -> Items]
        /\ \A d \in Channel : ~Unseen(lists.talk[d]) => ~Unseen(t[d])
    BY <2>2, <2>4
  <2> HIDE DEF t
  <2>6. /\ lists' \in ListsType /\ lists'.sealed = lists.sealed /\ lists'.talk = t
        /\ lists'.posts = lists.posts /\ lists'.threads = lists.threads
    BY <1>0, <2>4, <2>5 DEF ListsType
  <2>7. LinesTell' /\ badge' \in BadgeType
    BY <2>1, <2>5, <2>6 DEF ViewInv, ViewTypes, LinesTell
  <2> QED BY <2>1, <2>6, <2>7, ListsKeep
<1> QED BY <1>1, <1>2, <1>3, <1>4, <1>5, <1>6, <1>7, <1>8, <1>9 DEF EnterLine, RunCommand

\* An overlay is submitted: what it makes is shown as seen.
LEMMA SubmitOverlayKeeps ==
    ASSUME ViewInv, SubmitOverlay
    PROVE  ViewInv'
<1>0. lists \in ListsType /\ badge \in BadgeType /\ screen \in ScreenType
  BY DEF ViewInv, ViewTypes
<1>1. screen' \in ScreenType /\ screen'.sel = screen.sel /\ UNCHANGED badge
  BY <1>0 DEF SubmitOverlay, Closed, ScreenType, Overlays
<1>a. ASSUME UNCHANGED db, lists' \in ListsType, lists'.sealed = lists.sealed,
             lists'.talk = lists.talk,
             ~Unseen(lists.posts) => ~Unseen(lists'.posts),
             ~Unseen(lists.threads) => ~Unseen(lists'.threads)
      PROVE  ViewInv'
  <2>1. ViewTypes' /\ Selects'
    BY <1>0, <1>1, <1>a DEF ViewInv, ViewTypes, Selects
  <2>2. LinesTell'
    BY <1>1, <1>a DEF ViewInv, LinesTell
  <2> QED BY <1>1, <1>a, <2>1, <2>2, ViewKeeps
<1>2. CASE UNCHANGED lists /\ ((\E n \in {"name", "note"} : db' = SetNickname(db, screen.target, n))
                              \/ db' = DeleteNickname(db, screen.target))
  <2>1. \E n \in {"name", "note"} :
          db' \in {SetNickname(db, screen.target, n), DeleteNickname(db, screen.target)}
    BY <1>2
  <2> QED BY <1>1, <1>2, <2>1, PeopleType, NamesKeep
<1>3. ASSUME NEW e \in Own, UNCHANGED db,
             lists' \in {[lists EXCEPT !.guestbook = @ \cup {e}], [lists EXCEPT !.replies = @ \cup {e}]}
      PROVE  ViewInv'
  <2> DEFINE g == lists.guestbook \cup {e}
             r == lists.replies \cup {e}
  <2>1. g \in SUBSET Letter /\ r \in SUBSET Letter
    BY <1>0 DEF ListsType, Letter
  <2>2. lists' = [lists EXCEPT !.guestbook = g] \/ lists' = [lists EXCEPT !.replies = r]
    BY <1>3
  <2> HIDE DEF g, r
  <2>3. /\ lists' \in ListsType /\ lists'.sealed = lists.sealed /\ lists'.talk = lists.talk
        /\ lists'.posts = lists.posts /\ lists'.threads = lists.threads
    BY <1>0, <2>1, <2>2 DEF ListsType
  <2> QED BY <1>3, <1>a, <2>3
<1>4. ASSUME NEW e \in Own, UNCHANGED db,
             \/ lists' = [lists EXCEPT !.posts = Prepend(@, Item(e, TRUE))]
             \/ lists' = [lists EXCEPT !.threads = Prepend(@, Item(e, TRUE))]
      PROVE  ViewInv'
  <2> DEFINE p == Prepend(lists.posts, Item(e, TRUE))
             h == Prepend(lists.threads, Item(e, TRUE))
  <2>1. Item(e, TRUE) \in ItemType /\ Item(e, TRUE).seen
    BY DEF Item, ItemType, Letter
  <2>2. /\ p \in Items /\ (~Unseen(lists.posts) => ~Unseen(p))
        /\ h \in Items /\ (~Unseen(lists.threads) => ~Unseen(h))
    BY <1>0, <2>1, AddItem DEF ListsType
  <2>3. lists' = [lists EXCEPT !.posts = p] \/ lists' = [lists EXCEPT !.threads = h]
    BY <1>4
  <2> HIDE DEF p, h
  <2>4. /\ lists' \in ListsType /\ lists'.sealed = lists.sealed /\ lists'.talk = lists.talk
        /\ lists'.posts \in {p, lists.posts} /\ lists'.threads \in {h, lists.threads}
    BY <1>0, <2>2, <2>3 DEF ListsType
  <2> QED BY <1>4, <1>a, <2>2, <2>4
<1>5. CASE UNCHANGED <<lists, db>>
  BY <1>0, <1>5, <1>a
<1>6. \/ UNCHANGED lists /\ ((\E n \in {"name", "note"} : db' = SetNickname(db, screen.target, n))
                            \/ db' = DeleteNickname(db, screen.target))
      \/ UNCHANGED <<lists, db>>
      \/ \E e \in Own : UNCHANGED db /\
             lists' \in {[lists EXCEPT !.guestbook = @ \cup {e}], [lists EXCEPT !.replies = @ \cup {e}]}
      \/ \E e \in Own : UNCHANGED db /\
             \/ lists' = [lists EXCEPT !.posts = Prepend(@, Item(e, TRUE))]
             \/ lists' = [lists EXCEPT !.threads = Prepend(@, Item(e, TRUE))]
  BY DEF SubmitOverlay
<1> QED BY <1>2, <1>3, <1>4, <1>5, <1>6

-----------------------------------------------------------------------------
(* The theorems.                                                           *)

\* Keys leave the connections alone, but for a retry by hand and the
\* subscriptions that /join and /leave ask for.
LEMMA KeyNet ==
    ASSUME NetTypes, ViewInv, Key, ~RetryNow
    PROVE  UNCHANGED <<link, conn, timers, inbox, plan>> /\ flight' \subseteq flight \cup Flights
<1> USE DEF net, Opens, ScreenOnly, DbOnly, ShowProfile, SwitchTab
<1>1. CASE GlobalKey \/ PressTab \/ GateKey \/ ChatKey \/ PeopleKey \/ ProfileKey
  BY <1>1 DEF GlobalKey, PressTab, GateKey, ChatKey, PeopleKey, ProfileKey
<1>2. CASE FeedKey \/ ForumKey \/ SealedKey \/ PeersKey \/ SettingsKey \/ ClickSidebar
  BY <1>2 DEF FeedKey, ForumKey, SealedKey, PeersKey, SettingsKey, ClickSidebar
<1>3. CASE SubmitOverlay \/ CloseOverlay
  BY <1>3 DEF SubmitOverlay, CloseOverlay
<1>4. CASE EnterLine
  <2>0. conn.cli \in Cli
    BY DEF NetTypes, ConnType
  <2>1. CASE Join
    BY <2>0, <2>1 DEF Join, Flights
  <2>2. CASE Leave
    BY <2>0, <2>2, ActiveChannelType DEF Leave, Flights
  <2>3. CASE ~Join /\ ~Leave
    BY <1>4, <2>3 DEF EnterLine, RunCommand, LocalCommand, SendChat
  <2> QED BY <2>1, <2>2, <2>3
<1> QED BY <1>1, <1>2, <1>3, <1>4 DEF Key

\* The inductive invariant holds at the start.
LEMMA InvInit == Init => IInv
<1> SUFFICES ASSUME Init PROVE IInv
  OBVIOUS
<1>1. DbType(db)
  BY TuiAssumption DEF Init
<1>2. NetTypes /\ NeverDeaf
  BY <1>1, StartHears DEF Init
<1>3. ViewInv
  BY <1>1, StartShows DEF Init
<1> QED BY <1>2, <1>3 DEF IInv

\* Every step keeps it.
LEMMA InvStep == IInv /\ [Next]_vars => IInv'
<1> SUFFICES ASSUME IInv, [Next]_vars PROVE IInv'
  OBVIOUS
<1>0. NetTypes /\ NeverDeaf /\ ViewInv
  BY DEF IInv
<1>a. ASSUME UNCHANGED <<screen, lists, badge, db>> PROVE ViewInv'
  <2>1. screen' \in ScreenType
    BY <1>0, <1>a DEF ViewInv, ViewTypes
  <2> QED BY <1>0, <1>a, <2>1, ScreenKeeps
<1>1. CASE Restart
  <2>1. DbType(db)' /\ (plan \in Plan)'
    BY <1>0, <1>1 DEF Restart, ViewInv, ViewTypes, DbType, NetTypes
  <2>2. /\ (conn = Fresh.conn)' /\ (link = Fresh.link)' /\ (timers = Fresh.timers)'
        /\ (flight = SubscribeAll(1))' /\ (inbox = {})'
        /\ (lists = Lists(db))' /\ (badge = Badge(db))' /\ (screen = Screen(db))'
    BY <1>1 DEF Restart, Fresh, SubscribeAll
  <2>3. ViewInv'
    BY <2>1, <2>2, StartShows, PTL
  <2>4. NetTypes' /\ NeverDeaf'
    BY <2>1, <2>2, StartHears, PTL
  <2> QED BY <2>3, <2>4 DEF IInv
<1>2. CASE DaemonStops \/ DaemonStarts \/ Subscribes \/ Push
  <2>1. UNCHANGED <<screen, lists, badge, db>>
    BY <1>2 DEF DaemonStops, DaemonStarts, Subscribes, Push
  <2> QED BY <1>0, <1>2, <1>a, <2>1, DaemonHears DEF IInv
<1>3. CASE WaitIncoming \/ WaitGone
  <2>1. UNCHANGED <<screen, lists, badge, db>>
    BY <1>3 DEF WaitIncoming, WaitGone
  <2> QED BY <1>0, <1>3, <1>a, <2>1, ListenersHear DEF IInv
<1>4. CASE ApplyGone \/ RetryTick \/ RetryNow \/ AttemptReconnect \/ ApplyFail
  <2>1. UNCHANGED <<screen, lists, badge, db>>
    BY <1>4 DEF ApplyGone, RetryTick, RetryNow, AttemptReconnect, ApplyFail
  <2> QED BY <1>0, <1>4, <1>a, <2>1, DiallingHears DEF IInv
<1>5. CASE ApplyReconnect
  <2>1. UNCHANGED <<screen, lists, badge, db>> /\ DbType(db)
    BY <1>0, <1>5 DEF ApplyReconnect, ViewInv, ViewTypes
  <2> QED BY <1>0, <1>5, <1>a, <2>1, ReconnectHears DEF IInv
<1>6. CASE HandleIncoming
  BY <1>0, <1>6, IncomingHears, IncomingKeeps DEF IInv
<1>7. CASE PeerUpdate
  <2>1. PICK ps \in SUBSET Person : lists' = [lists EXCEPT !.peers = ps]
    BY <1>7 DEF PeerUpdate
  <2>2. lists \in ListsType
    BY <1>0 DEF ViewInv, ViewTypes
  <2>3. /\ lists' \in ListsType /\ lists'.sealed = lists.sealed /\ lists'.talk = lists.talk
        /\ lists'.posts = lists.posts /\ lists'.threads = lists.threads
    BY <2>1, <2>2 DEF ListsType
  <2>4. UNCHANGED <<link, conn, timers, inbox, plan, flight, badge, screen, db>>
    BY <1>7 DEF PeerUpdate
  <2> QED BY <1>0, <2>3, <2>4, QuietKeeps, NetStays DEF IInv
<1>8. CASE Key /\ ~RetryNow
  <2>1. NetTypes' /\ NeverDeaf'
    BY <1>0, <1>8, KeyNet, NetStays
  <2>2. ViewInv'
    BY <1>0, <1>8, ScreenKeysKeep, ActingKeysKeep, EnterLineKeeps, SubmitOverlayKeeps DEF Key
  <2> QED BY <2>1, <2>2 DEF IInv
<1>9. CASE UNCHANGED vars
  <2>1. UNCHANGED <<screen, lists, badge, db, link, conn, timers, inbox, plan, flight>>
    BY <1>9 DEF vars
  <2> QED BY <1>0, <1>a, <2>1, NetStays DEF IInv
<1> QED BY <1>1, <1>2, <1>3, <1>4, <1>5, <1>6, <1>7, <1>8, <1>9 DEF Next

\* The inductive invariant is an invariant.
THEOREM InvHolds == Spec => []IInv
  BY InvInit, InvStep, PTL DEF Spec

\* Every variable has its type, the queues and delays stay within their
\* bounds, and the selected channel is one of the list.
THEOREM TypeCorrect == Spec => []TypeOK
<1>1. IInv => TypeOK
  <2> SUFFICES ASSUME IInv PROVE TypeOK
    OBVIOUS
  <2>1. conn.cli \in Cli /\ conn.delay \in 1..MaxDelay
        /\ conn.in \in Int /\ conn.in <= MaxDelay
        /\ \A c \in Cli : Len(link[c].queue) <= QueueCap
    BY DEF IInv, NetTypes, ConnType
  <2>2. screen.tab \in Tab /\ {screen.target, screen.profile} \subseteq Person \cup {Me}
        /\ lists.people \subseteq Person
    BY DEF IInv, ViewInv, ViewTypes, ScreenType, ListsType, User
  <2>3. db.blocked \subseteq Person \cup {Me} /\ (db.channels # <<>> => screen.sel \in DOMAIN db.channels)
    BY DEF IInv, ViewInv, ViewTypes, DbType, User, Selects
  <2> QED BY <2>1, <2>2, <2>3 DEF TypeOK
<1> QED BY <1>1, InvHolds, PTL

\* A client that shows itself connected hears what comes and when the
\* connection ends; one that does not is about to dial again.
THEOREM HearsOrDials == Spec => []NeverDeaf
<1>1. IInv => NeverDeaf
  BY DEF IInv
<1> QED BY <1>1, InvHolds, PTL

\* Without a badge there is nothing unread: sealed messages, lines, posts and
\* threads, after a restart as before.
THEOREM BadgesHideNothing == Spec => []BadgesTell
<1>1. IInv => BadgesTell
  <2> SUFFICES ASSUME IInv PROVE BadgesTell
    OBVIOUS
  <2>1. SealedTells /\ LinesTell
    BY DEF IInv, ViewInv
  <2> QED BY <2>1 DEF BadgesTell, SealedTells, LinesTell, Sealeds, ListSealed
<1> QED BY <1>1, InvHolds, PTL
=============================================================================
