-------------------------------- MODULE Chat --------------------------------
(***************************************************************************)
(* The end-to-end encrypted chat of the reader: the vault screen and the   *)
(* chat screen (internal/tui/app.go) over the vault and the sessions       *)
(* (internal/gandr: boundary.go, session.go, embedded.go).                 *)
(*                                                                         *)
(* As in Reader, a key press is handled at once and starts commands; each  *)
(* command runs in a goroutine of its own (`flight`) and ends in a message *)
(* (`inbox`) that Update applies later, to whatever the screen is by then. *)
(* Two unlocks may be under way at once, so there may be several sessions; *)
(* `cur` is the one the screen holds.  One more command per session waits  *)
(* for the messages its daemon pushes (`waiters`).                         *)
(*                                                                         *)
(* A password is right or wrong; a group key is the password it comes from *)
(* ("right" for a direct conversation, whose key is derived).  What is     *)
(* typed at a prompt is any of the forms Update tells apart.               *)
(***************************************************************************)
EXTENDS Naturals, Sequences, FiniteSets

CONSTANTS
    Channel,      \* public channels
    Defaults,     \* the default channels, as a sequence
    Group,        \* private conversations
    Direct,       \* those between two people
    NoGroup,
    Remote,       \* messages others send
    Own,          \* messages the user sends
    Conv,         \* the conversation of each message of Remote
    StartData,    \* the contents the client database may have at the start
    Transports,   \* what connecting may end in
    StartVaults,  \* whether there is a vault at the start, or both
    MaxTalk,      \* gandrMaxMessagesPerConversation
    HistoryLimit, \* messages read back from the database
    QueueCap,     \* pushes that wait at a session's client
    MaxVaults,    \* bound: vaults made
    MaxSessions,  \* bound: sessions opened
    MaxFlight,    \* bound: commands and messages under way when a key starts one
    MaxKeys       \* bound: keys pressed, clicks and lines entered

Conversation == Channel \cup Group
Message == Remote \cup Own
Session == 1..MaxSessions
Gen == 1..(MaxVaults + 1)
GroupKey == {"none", "right", "wrong"}

Elems(s) == {s[i] : i \in DOMAIN s}
Distinct(s) == \A i, j \in DOMAIN s : s[i] = s[j] => i = j

\* The tables of the client database: channels by their key, messages by
\* their hash, those of a group sealed under a group key.
DbType == [channels : Seq(Channel), chat : [Channel -> Seq([m : Message])],
           groups : SUBSET Group, rows : [Group -> Seq([m : Message, key : GroupKey])],
           contacts : BOOLEAN]

ASSUME ChatAssumption ==
    /\ Channel \cap Group = {} /\ Direct \subseteq Group /\ NoGroup \notin Group
    /\ Defaults \in Seq(Channel) /\ Distinct(Defaults) /\ Remote \cap Own = {}
    /\ Conv \in [Remote -> Channel \cup Group]
    /\ Transports \subseteq {"ipc", "embedded", "offline"} /\ StartVaults \subseteq BOOLEAN
    /\ \A d \in StartData : d \in DbType /\ Distinct(d.channels)
    /\ HistoryLimit <= MaxTalk
    /\ {MaxTalk, HistoryLimit, QueueCap, MaxVaults, MaxSessions} \subseteq Nat \ {0}
    /\ {MaxFlight, MaxKeys} \subseteq Nat

VARIABLES
    vault,    \* the keyfile and the identity in memory, 0 for none; vaults made
    login,    \* the vault screen: GandrCreating, Confirming, Failures, ...
    screen,   \* CurrentView, the focused input, Cursor, GandrActiveGroup, modes
    cur,      \* App.GandrSession, 0 for nil
    channels, \* App.GandrChannels
    groups,   \* App.GandrGroups
    talk,     \* App.GandrMessages and GandrGroupMessages; seen is history
    read,     \* App.GandrReadCounts
    stray,    \* App.GandrMessages under the ids of groups, which nobody lists
    lowered,  \* history: groups whose count a trim of those has lowered
    sess,     \* the sessions opened; alone is history: no other while open
    db, gen,  \* the client database, one per deletion, and the one at the path
    flight, inbox,
    sent, pushed, \* own messages typed, and messages the daemon has stored
    keys

shown == <<talk, read, stray, lowered>>
chat == <<cur, channels, groups, shown>>
world == <<sent, pushed>>
vars == <<vault, login, screen, chat, sess, db, gen, flight, inbox, world, keys>>

Least(x, y) == IF x < y THEN x ELSE y
Last(s, n) == SubSeq(s, IF Len(s) > n THEN Len(s) - n + 1 ELSE 1, Len(s))

NoSession == [state |-> "none", kind |-> "offline", gen |-> 1, subs |-> {},
              keys |-> [g \in Group |-> "none"], queue |-> <<>>, waiters |-> 0, alone |-> TRUE]
NoData == [channels |-> <<>>, chat |-> [c \in Channel |-> <<>>], groups |-> {},
           rows |-> [g \in Group |-> <<>>], contacts |-> FALSE]
NoTalk == [c \in Conversation |-> <<>>]
NoStray == [g \in Group |-> <<>>]

Init ==
    /\ \E has \in StartVaults :
          LET n == IF has THEN 1 ELSE 0
          IN  /\ vault = [file |-> n, identity |-> 0, made |-> n]
              /\ \E start \in IF has THEN StartData ELSE {NoData} :
                    db = [x \in Gen |-> IF x = 1 THEN start ELSE NoData]
    /\ login = [creating |-> FALSE, confirming |-> FALSE, failures |-> 0,
                paused |-> FALSE, deleting |-> FALSE, recreate |-> FALSE]
    /\ screen = [view |-> "other", focus |-> FALSE, menu |-> FALSE, adding |-> FALSE,
                 unlocking |-> NoGroup, cursor |-> 1, active |-> NoGroup]
    /\ cur = 0 /\ channels = <<>> /\ groups = {} /\ talk = NoTalk
    /\ read = [c \in Conversation |-> 0] /\ stray = NoStray /\ lowered = {}
    /\ sess = [s \in Session |-> NoSession]
    /\ gen = 1
    /\ flight = {} /\ inbox = {} /\ sent = {} /\ pushed = {} /\ keys = 0

-----------------------------------------------------------------------------
(* What commands and messages have in common.                              *)

Starts(cs) == flight' = flight \cup cs

\* A key or a click that may start a command.
Key ==
    /\ keys < MaxKeys /\ keys' = keys + 1
    /\ Cardinality(flight) + Cardinality(inbox) < MaxFlight

Ends(c, msgs) ==
    /\ flight' = flight \ {c}
    /\ inbox' = inbox \cup msgs
    /\ UNCHANGED <<login, screen, chat, world, keys>>

Takes(m, started) ==
    /\ inbox' = inbox \ {m}
    /\ Starts(started)
    /\ UNCHANGED <<vault, gen, keys, world>>

IsOpen(s) == s # 0 /\ sess[s].state = "open"
Data(s) == db[sess[s].gen]
Stored(s, d) == [db EXCEPT ![sess[s].gen] = d]

-----------------------------------------------------------------------------
(* The client database (gandr/pkg/clientdb).                               *)

\* The sequence without the one row at the given places, if there is one.
Cut(s, places) ==
    [i \in 1..(Len(s) - Cardinality(places)) |->
        IF \A f \in places : i < f THEN s[i] ELSE s[i + 1]]

JoinChannel(d, c) == [d EXCEPT !.channels = IF c \in Elems(@) THEN @ ELSE Append(@, c)]
LeaveChannel(d, c) == [d EXCEPT !.channels = Cut(@, {i \in DOMAIN @ : @[i] = c})]
SavePrivateGroup(d, g) == [d EXCEPT !.groups = @ \cup {g}]
SetNickname(d) == [d EXCEPT !.contacts = TRUE]
PruneChatMessages(d) == [d EXCEPT !.chat = [c \in Channel |-> <<>>]]

\* INSERT OR IGNORE, on the hash of the message
Insert(rows, row) == IF \E i \in DOMAIN rows : rows[i].m = row.m THEN rows ELSE Append(rows, row)
SaveChatMessage(d, c, m) == [d EXCEPT !.chat[c] = Insert(@, [m |-> m])]
SavePrivateGroupMessage(d, g, m, key) ==
    [d EXCEPT !.rows[g] = Insert(@, [m |-> m, key |-> key])]

\* The newest rows, oldest first.
ListChatMessages(d, c) == Last(d.chat[c], HistoryLimit)
ListPrivateGroupMessages(d, g) == Last(d.rows[g], HistoryLimit)

-----------------------------------------------------------------------------
(* What a session does (internal/gandr/session.go).                        *)

GroupErr == [kind |-> "group", err |-> TRUE]
GroupMsg(gs, g, loaded, t) ==
    [kind |-> "group", err |-> FALSE, groups |-> gs, active |-> g, loaded |-> loaded, talk |-> t]
ChannelsErr == [kind |-> "channels", err |-> TRUE]
ChannelsMsg(list) == [kind |-> "channels", err |-> FALSE, channels |-> list]

\* PrivateGroupMessages: one row the cached key does not open fails the list.
PrivateGroupMessages(d, g, key) ==
    LET rows == ListPrivateGroupMessages(d, g)
    IN  IF \E i \in DOMAIN rows : rows[i].key # key THEN GroupErr
        ELSE GroupMsg(d.groups, g, TRUE, [i \in DOMAIN rows |-> [m |-> rows[i].m, seen |-> TRUE]])

Subscribe(s, c) ==
    IF sess[s].kind = "offline" THEN sess ELSE [sess EXCEPT ![s].subs = @ \cup {c}]
Unsubscribe(s, c) == [sess EXCEPT ![s].subs = @ \ {c}]

\* UnlockPrivateGroup: any password gives a key, and it replaces the cached
\* one; subscribeGroup.
UnlockPrivateGroup(s, g, key) == [Subscribe(s, g) EXCEPT ![s].keys[g] = key]

\* StartDirectMessage derives the key when none is cached.
StartDirectMessage(s, g) ==
    IF sess[s].keys[g] = "none" THEN UnlockPrivateGroup(s, g, "right") ELSE Subscribe(s, g)

\* A message that came is kept when the session it is kept in is open, and
\* one of a group under the key the session has for the group now, if any.
SaveMessage(s, c, m) == IF IsOpen(s) THEN Stored(s, SaveChatMessage(Data(s), c, m)) ELSE db
SaveReceivedPrivateGroupMessage(s, g, m) ==
    IF IsOpen(s) /\ sess[s].keys[g] # "none"
    THEN Stored(s, SavePrivateGroupMessage(Data(s), g, m, sess[s].keys[g])) ELSE db

CreatePrivateGroup(s, g) == UnlockPrivateGroup(s, g, "right")

\* EnsureDefaultChannels: joins the defaults into an empty database.
EnsureDefaultChannels(d) == IF d.channels = <<>> THEN [d EXCEPT !.channels = Defaults] ELSE d

-----------------------------------------------------------------------------
(* The vault.                                                              *)

\* unlockGandr: Load reads the keyfile; a failure also drops the identity.
UnlockGandr ==
    \E c \in flight :
        LET ok == vault.file # 0 /\ c.right
        IN
        /\ c.op = "unlock"
        /\ vault' = [vault EXCEPT !.identity = IF ok THEN vault.file ELSE 0]
        /\ Ends(c, {[kind |-> "vault", err |-> ~ok, created |-> FALSE, n |-> c.n]})
        /\ UNCHANGED <<sess, db, gen>>

\* createGandr: Create looks for a keyfile, derives the key, which takes its
\* time, and renames the new keyfile into place.
CreateGandr ==
    \E c \in flight :
        /\ c.op = "create"
        /\ IF vault.file # 0
           THEN Ends(c, {[kind |-> "vault", err |-> TRUE, created |-> TRUE, n |-> c.n]})
           ELSE /\ flight' = (flight \ {c}) \cup {[op |-> "save", n |-> c.n]}
                /\ UNCHANGED <<login, screen, chat, world, keys, inbox>>
        /\ UNCHANGED <<vault, sess, db, gen>>
SaveKeyfile ==
    \E c \in flight :
        /\ c.op = "save" /\ vault.made < MaxVaults
        /\ LET n == vault.made + 1
           IN  vault' = [file |-> n, identity |-> n, made |-> n]
        /\ Ends(c, {[kind |-> "vault", err |-> FALSE, created |-> TRUE, n |-> c.n]})
        /\ UNCHANGED <<sess, db, gen>>

\* deleteGandr: refused while an identity is in memory.
DeleteGandr ==
    \E c \in flight :
        /\ c.op = "delete"
        /\ IF vault.identity # 0
           THEN UNCHANGED <<vault, gen>>
           ELSE /\ vault' = [vault EXCEPT !.file = 0]
                /\ gen' = IF gen < MaxVaults + 1 THEN gen + 1 ELSE gen
        /\ Ends(c, {[kind |-> "delete", err |-> vault.identity # 0]})
        /\ UNCHANGED <<sess, db>>

\* ConnectEmbedded: a session with nothing but its subscriptions.
NewSession(kind, list) ==
    [NoSession EXCEPT !.state = "open", !.kind = kind, !.gen = gen,
                      !.subs = IF kind = "offline" THEN {} ELSE Elems(list),
                      !.alone = \A y \in Session : ~IsOpen(y)]

\* Connect: a subscription that gandrd refuses closes the session again.
Connect(kind, list, subscribed) ==
    [NewSession(kind, list) EXCEPT !.state = IF subscribed THEN @ ELSE "closed"]

\* The new session s on the database d, and what connectGandr tells of it.
Opens(c, s, kind, d, subscribed) ==
    /\ sess' = [x \in Session |-> IF x # s THEN [sess[x] EXCEPT !.alone = @ /\ ~IsOpen(x)]
                                  ELSE Connect(kind, d.channels, subscribed)]
    /\ db' = [db EXCEPT ![gen] = d]
    /\ Ends(c, {IF subscribed THEN [kind |-> "session", err |-> FALSE, s |-> s,
                                    channels |-> d.channels, groups |-> d.groups]
                ELSE [kind |-> "session", err |-> TRUE]})

\* connectGandr: an external gandrd, or else the embedded daemon, or else the
\* database alone; chat messages that are too old are pruned; the default
\* channels are joined when there are none, and every channel is subscribed to.
\* A gandrd that refuses a subscription costs the session.
ConnectGandr ==
    \E c \in flight, kind \in Transports, subscribed, old \in BOOLEAN :
        LET free == {s \in Session : sess[s].state = "none"}
            d == EnsureDefaultChannels(IF old THEN PruneChatMessages(db[gen]) ELSE db[gen])
        IN
        /\ c.op = "connect"
        /\ subscribed \/ kind = "ipc"
        /\ \/ /\ vault.identity = 0
              /\ Ends(c, {[kind |-> "session", err |-> TRUE]})
              /\ UNCHANGED <<sess, db>>
           \/ /\ vault.identity # 0 /\ free # {}
              /\ Opens(c, CHOOSE s \in free : TRUE, kind, d, subscribed)
        /\ UNCHANGED <<vault, gen>>

-----------------------------------------------------------------------------
(* The commands of a session.  On a closed session the database refuses.   *)

\* A command that ends in msgs, or in refusal when its session is closed.
Does(c, d, sessions, msgs) ==
    /\ IsOpen(c.s) /\ db' = Stored(c.s, d) /\ sess' = sessions
    /\ Ends(c, msgs) /\ UNCHANGED <<vault, gen>>
Fails(c, msg) == Ends(c, {msg}) /\ UNCHANGED <<vault, sess, db, gen>>
Refused(c, msg) == ~IsOpen(c.s) /\ Fails(c, msg)
Continues(c, op, d, sessions) ==
    /\ IsOpen(c.s) /\ db' = Stored(c.s, d) /\ sess' = sessions
    /\ flight' = (flight \ {c}) \cup {[c EXCEPT !.op = op]}
    /\ UNCHANGED <<vault, gen, login, screen, chat, world, keys, inbox>>

\* gandrJoin, Session.Join: the database first, then the subscription.
GandrJoin ==
    \E c \in flight :
        /\ c.op = "join"
        /\ \/ Refused(c, ChannelsErr)
           \/ Continues(c, "joined", JoinChannel(Data(c.s), c.channel), sess)

\* Mutant of Joined: the channel is listed and never subscribed to.
JoinedOnly ==
    \E c \in flight :
        /\ c.op = "joined"
        /\ \/ Refused(c, ChannelsErr)
           \/ sess[c.s].kind = "ipc" /\ Fails(c, ChannelsErr)
           \/ Does(c, Data(c.s), sess, {ChannelsMsg(Data(c.s).channels)})

Joined ==
    \E c \in flight :
        /\ c.op = "joined"
        /\ \/ Refused(c, ChannelsErr)
           \/ sess[c.s].kind = "ipc" /\ Fails(c, ChannelsErr)
           \/ Does(c, Data(c.s), Subscribe(c.s, c.channel), {ChannelsMsg(Data(c.s).channels)})

\* gandrLeave, Session.Leave: the subscription first, then the database.
GandrLeave ==
    \E c \in flight :
        /\ c.op = "leave"
        /\ \/ Refused(c, ChannelsErr)
           \/ Continues(c, "left", Data(c.s), Unsubscribe(c.s, c.channel))
Left ==
    \E c \in flight :
        /\ c.op = "left"
        /\ \/ Refused(c, ChannelsErr)
           \/ LET d == LeaveChannel(Data(c.s), c.channel)
              IN  Does(c, d, sess, {ChannelsMsg(d.channels)})

\* SendChannel: saved only when the daemon has taken it.
SendChannel ==
    \E c \in flight :
        /\ c.op = "send"
        /\ \/ Refused(c, ChannelsErr)
           \/ sess[c.s].kind # "offline" /\ Fails(c, ChannelsErr)
           \/ Does(c, SaveChatMessage(Data(c.s), c.channel, c.m), sess, {})

\* unlockAndOpenGandrGroup and /grupp oppna
UnlockAndOpenGandrGroup ==
    \E c \in flight :
        /\ c.op = "unlockgroup"
        /\ \/ Refused(c, GroupErr)
           \/ LET d == SavePrivateGroup(Data(c.s), c.group)
              IN  Does(c, d, UnlockPrivateGroup(c.s, c.group, c.key),
                       {PrivateGroupMessages(d, c.group, c.key)})

StartGandrDM ==
    \E c \in flight :
        /\ c.op = "dm"
        /\ \/ Refused(c, GroupErr)
           \/ LET d == SavePrivateGroup(Data(c.s), c.group)
              IN  Does(c, d, StartDirectMessage(c.s, c.group),
                       {PrivateGroupMessages(d, c.group, "right")})

OpenGandrGroup ==
    \E c \in flight :
        /\ c.op = "opengroup"
        /\ \/ Refused(c, GroupErr)
           \/ Does(c, Data(c.s), sess,
                   {PrivateGroupMessages(Data(c.s), c.group, sess[c.s].keys[c.group])})

\* The other forms of /grupp: skapa makes a group, which has no history; lista
\* and stang name no group, which closes the open one; bjud names the one that
\* was open, if the password is its own (VerifyGroupPassword).
GandrGroupCommand ==
    \E c \in flight :
        /\ c.op = "group"
        /\ \/ Refused(c, GroupErr)
           \/ /\ c.new
              /\ LET d == SavePrivateGroup(Data(c.s), c.group)
                 IN  Does(c, d, CreatePrivateGroup(c.s, c.group),
                          {GroupMsg(d.groups, c.group, FALSE, <<>>)})
           \/ /\ ~c.new
              /\ Does(c, Data(c.s), sess, {GroupMsg(Data(c.s).groups, c.group, FALSE, <<>>)})
           \/ ~c.new /\ c.group # NoGroup /\ Fails(c, GroupErr)

\* SendPrivateGroup, and the history again.
SendPrivateGroup ==
    \E c \in flight :
        LET key == sess[c.s].keys[c.group]
            d == SavePrivateGroupMessage(Data(c.s), c.group, c.m, key)
        IN
        /\ c.op = "groupsend"
        /\ \/ Refused(c, GroupErr)
           \/ (sess[c.s].kind # "offline" \/ key = "none") /\ Fails(c, GroupErr)
           \/ key # "none" /\ Does(c, d, sess, {PrivateGroupMessages(d, c.group, key)})

ContactMsg(err, invited) == [kind |-> "contact", err |-> err, invited |-> invited]

\* addGandrContact; what was typed may be no key.
AddGandrContact ==
    \E c \in flight :
        /\ c.op = "contact" /\ ~c.invited
        /\ \/ Fails(c, ContactMsg(TRUE, FALSE))
           \/ Does(c, SetNickname(Data(c.s)), sess, {ContactMsg(FALSE, FALSE)})

\* AcceptInvitation: one that is malformed, expired or forged adds nobody.
AcceptInvitation ==
    \E c \in flight, valid \in BOOLEAN :
        /\ c.op = "contact" /\ c.invited
        /\ IF valid /\ IsOpen(c.s)
           THEN Does(c, SetNickname(Data(c.s)), sess, {ContactMsg(FALSE, TRUE)})
           ELSE Fails(c, ContactMsg(TRUE, TRUE))

-----------------------------------------------------------------------------
(* Messages from the daemon.                                               *)

\* Mutant of Wants: the queue grows without limit.
WantsUnbounded(s, m) == Conv[m] \in sess[s].subs

\* embeddedClient.wants, and the room Push finds in the queue.
Wants(s, m) == Conv[m] \in sess[s].subs /\ Len(sess[s].queue) < QueueCap

\* The daemon pushes a message it has not stored yet: the embedded one to its
\* own client, gandrd to every connection.
Push ==
    \E m \in Remote \ pushed, s \in Session :
        LET to == IF sess[s].kind = "ipc"
                  THEN {x \in Session : IsOpen(x) /\ sess[x].kind = "ipc"} ELSE {s}
        IN
        /\ IsOpen(s) /\ sess[s].kind # "offline"
        /\ sess' = [x \in Session |->
                        IF x \in to /\ Wants(x, m)
                        THEN [sess[x] EXCEPT !.queue = Append(@, m)] ELSE sess[x]]
        /\ pushed' = pushed \cup {m}
        /\ UNCHANGED <<vault, login, screen, chat, db, gen, flight, inbox, sent, keys>>

\* DecryptGroupMessage: the session holds the key the message was sent under.
Decrypts(s, m) == Conv[m] \in Group /\ sess[s].keys[Conv[m]] = "right"

\* waitGandrIncoming: what is not a readable group message is a chat message.
WaitGandrIncoming ==
    \E s \in Session :
        /\ sess[s].waiters > 0 /\ sess[s].queue # <<>>
        /\ LET m == Head(sess[s].queue)
           IN  inbox' = inbox \cup {[kind |-> "incoming", err |-> FALSE, m |-> m, s |-> s,
                                     group |-> Decrypts(s, m)]}
        /\ sess' = [sess EXCEPT ![s].waiters = @ - 1, ![s].queue = Tail(@)]
        /\ UNCHANGED <<vault, login, screen, chat, db, gen, flight, world, keys>>

Run == \/ UnlockGandr \/ CreateGandr \/ SaveKeyfile \/ DeleteGandr \/ ConnectGandr
       \/ GandrJoin \/ Joined \/ GandrLeave \/ Left \/ SendChannel
       \/ UnlockAndOpenGandrGroup \/ StartGandrDM \/ OpenGandrGroup
       \/ GandrGroupCommand \/ SendPrivateGroup \/ AddGandrContact \/ AcceptInvitation
       \/ Push \/ WaitGandrIncoming

-----------------------------------------------------------------------------
(* Update: the messages.                                                   *)

\* gandrMsg: the third failure in a row pauses the prompt; success connects.
ApplyVault ==
    \E m \in inbox :
        LET failures == IF m.created THEN login.failures ELSE Least(login.failures + 1, 3)
        IN
        /\ m.kind = "vault"
        /\ IF m.err
           THEN /\ login' = [login EXCEPT !.failures = failures,
                                          !.paused = @ \/ failures >= 3]
                /\ screen' = [screen EXCEPT !.focus = failures < 3 /\ (@ \/ ~m.created)]
                /\ Takes(m, {})
           ELSE /\ login' = [login EXCEPT !.creating = FALSE, !.confirming = FALSE,
                                          !.failures = 0, !.paused = FALSE]
                /\ Takes(m, {[op |-> "connect", n |-> m.n]})
                /\ UNCHANGED screen
        /\ UNCHANGED <<chat, sess, db>>

PauseEnds ==
    /\ login.paused
    /\ login' = [login EXCEPT !.paused = FALSE]
    /\ UNCHANGED <<vault, screen, chat, sess, db, gen, flight, inbox, world, keys>>

\* gandrSessionMsg: the new session replaces the one the screen holds, which
\* nobody closes; its history is loaded and counts as read.
ApplySession ==
    \E m \in inbox :
        /\ m.kind = "session"
        /\ IF m.err
           THEN UNCHANGED <<screen, chat, sess>>
           ELSE LET history(c) == IF c \in Elems(m.channels)
                                  THEN ListChatMessages(Data(m.s), c) ELSE <<>>
                IN
                /\ cur' = m.s /\ channels' = m.channels /\ groups' = m.groups
                /\ screen' = [screen EXCEPT !.active = NoGroup]
                /\ talk' = [c \in Conversation |-> IF c \in Group THEN <<>> ELSE
                        [i \in DOMAIN history(c) |-> [m |-> history(c)[i].m, seen |-> TRUE]]]
                /\ read' = [c \in Conversation |-> Len(talk'[c])]
                /\ stray' = NoStray /\ lowered' = {}
                /\ sess' = IF sess[m.s].kind = "offline" THEN sess
                           ELSE [sess EXCEPT ![m.s].waiters = @ + 1]
        /\ Takes(m, {})
        /\ UNCHANGED <<login, db>>

\* Mutant of TrimAndAdjust: what is trimmed stays in the count.
TrimOnly(c, t) == [talk |-> Last(t, MaxTalk), read |-> read[c]]

\* gandrTrimAndAdjustReadCount
TrimAndAdjust(c, t) ==
    LET trimmed == IF Len(t) > MaxTalk THEN Len(t) - MaxTalk ELSE 0
    IN  [talk |-> Last(t, MaxTalk),
         read |-> IF read[c] > trimmed THEN read[c] - trimmed ELSE 0]

Seen(t) == [i \in DOMAIN t |-> [t[i] EXCEPT !.seen = TRUE]]

\* The conversation c becomes t, and is marked read when it is on the screen.
Shows(c, t, r, onScreen) ==
    /\ talk' = [talk EXCEPT ![c] = IF onScreen THEN Seen(t) ELSE t]
    /\ read' = [read EXCEPT ![c] = IF onScreen THEN Len(t) ELSE r]
    /\ lowered' = IF onScreen THEN lowered \ {c} ELSE lowered
    /\ UNCHANGED stray

OnScreen(c) ==
    /\ screen.view = "chat"
    /\ IF c \in Group THEN screen.active = c
       ELSE /\ screen.active = NoGroup
            /\ screen.cursor <= Len(channels) /\ channels[screen.cursor] = c

\* appendGandrMessage: a message with a hash is shown once.
Appended(c, m, seen) == Append(talk[c], [m |-> m, seen |-> seen])
Known(c, m) == m \in Remote /\ \E i \in DOMAIN talk[c] : talk[c][i].m = m

Rearmed(x) == IF cur = 0 \/ x[cur].kind = "offline" THEN x ELSE [x EXCEPT ![cur].waiters = @ + 1]

\* Mutant of ApplyIncoming: it returns once the channel on screen is marked.
ApplyIncomingOnce ==
    \E m \in inbox :
        LET c == Conv[m.m]
            after == IF Known(c, m.m) THEN [talk |-> talk[c], read |-> read[c]]
                     ELSE TrimAndAdjust(c, Appended(c, m.m, FALSE))
        IN
        /\ m.kind = "incoming" /\ ~m.group /\ c \in Channel
        /\ Shows(c, after.talk, after.read, OnScreen(c))
        /\ db' = SaveMessage(cur, c, m.m)
        /\ sess' = IF OnScreen(c) THEN sess ELSE Rearmed(sess)
        /\ Takes(m, {})
        /\ UNCHANGED <<login, screen, cur, channels, groups>>

\* gandrIncomingMsg: saved, shown, and the wait armed on the session there is.
ApplyIncoming ==
    \E m \in inbox :
        LET c == Conv[m.m]
            after == IF Known(c, m.m) THEN [talk |-> talk[c], read |-> read[c]]
                     ELSE TrimAndAdjust(c, Appended(c, m.m, FALSE))
        IN
        /\ m.kind = "incoming" /\ ~m.group /\ c \in Channel
        /\ Shows(c, after.talk, after.read, OnScreen(c))
        /\ db' = SaveMessage(cur, c, m.m)
        /\ sess' = Rearmed(sess)
        /\ Takes(m, {})
        /\ UNCHANGED <<login, screen, cur, channels, groups>>

\* A group message that could not be decrypted is filed as one of a channel
\* with the group's id, which nobody lists or marks read; trimming those
\* lowers the read count that the group's own transcript has under that id.
ApplyUnreadable ==
    \E m \in inbox :
        LET g == Conv[m.m]
            after == TrimAndAdjust(g, Append(stray[g], m.m))
        IN
        /\ m.kind = "incoming" /\ ~m.group /\ g \in Group
        /\ IF m.m \in Elems(stray[g]) THEN UNCHANGED <<stray, read, lowered>>
           ELSE /\ stray' = [stray EXCEPT ![g] = after.talk]
                /\ read' = [read EXCEPT ![g] = after.read]
                /\ lowered' = IF after.read < read[g] THEN lowered \cup {g} ELSE lowered
        /\ sess' = Rearmed(sess)
        /\ Takes(m, {})
        /\ UNCHANGED <<login, screen, cur, channels, groups, talk, db>>

\* gandrGroupIncomingMsg: kept under the key the session has now, if any.
ApplyGroupIncoming ==
    \E m \in inbox :
        LET g == Conv[m.m]
            after == TrimAndAdjust(g, Appended(g, m.m, FALSE))
        IN
        /\ m.kind = "incoming" /\ m.group
        /\ Shows(g, after.talk, after.read, OnScreen(g))
        /\ db' = SaveReceivedPrivateGroupMessage(cur, g, m.m)
        /\ sess' = Rearmed(sess)
        /\ Takes(m, {})
        /\ UNCHANGED <<login, screen, cur, channels, groups>>

\* gandrGroupMsg: opens the group it names, or closes the open one.
ApplyGroup ==
    \E m \in inbox :
        /\ m.kind = "group"
        /\ IF m.err
           THEN UNCHANGED <<screen, groups, shown>>
           ELSE /\ groups' = m.groups
                /\ screen' = [screen EXCEPT !.active = m.active]
                /\ IF m.active = NoGroup THEN UNCHANGED shown
                   ELSE Shows(m.active, IF m.loaded THEN m.talk ELSE talk[m.active], 0, TRUE)
        /\ Takes(m, {})
        /\ UNCHANGED <<login, cur, channels, sess, db>>

\* gandrChannelsMsg
ApplyChannels ==
    \E m \in inbox :
        /\ m.kind = "channels"
        /\ IF m.err
           THEN UNCHANGED <<screen, channels>>
           ELSE /\ channels' = m.channels
                /\ screen' = [screen EXCEPT !.cursor =
                        Least(@, IF m.channels = <<>> THEN 1 ELSE Len(m.channels))]
        /\ Takes(m, {})
        /\ UNCHANGED <<login, cur, groups, shown, sess, db>>

\* gandrContactMsg, gandrInvitationMsg
ApplyContact ==
    \E m \in inbox :
        /\ m.kind = "contact"
        /\ screen' = [screen EXCEPT !.adding = @ /\ (m.err \/ m.invited \/ cur = 0)]
        /\ Takes(m, {})
        /\ UNCHANGED <<login, chat, sess, db>>

\* gandrDeleteMsg
ApplyDelete ==
    \E m \in inbox :
        /\ m.kind = "delete"
        /\ IF m.err THEN UNCHANGED <<login, screen>>
           ELSE /\ login' = IF login.recreate
                            THEN [login EXCEPT !.deleting = FALSE, !.recreate = FALSE,
                                               !.creating = TRUE, !.confirming = FALSE]
                            ELSE [login EXCEPT !.deleting = FALSE]
                /\ screen' = [screen EXCEPT !.focus = @ \/ login.recreate]
        /\ Takes(m, {})
        /\ UNCHANGED <<chat, sess, db>>

Update == \/ ApplyVault \/ PauseEnds \/ ApplySession \/ ApplyIncoming \/ ApplyUnreadable
          \/ ApplyGroupIncoming \/ ApplyGroup \/ ApplyChannels \/ ApplyContact
          \/ ApplyDelete

-----------------------------------------------------------------------------
(* Update: keys and clicks.  An open user menu takes every key first, then *)
(* the focused input.                                                      *)

Free == ~screen.menu /\ ~screen.focus
Typing(v) == ~screen.menu /\ screen.focus /\ screen.view = v
InChat == screen.view = "chat"
ChatOnly == UNCHANGED <<vault, sess, db, gen, inbox, pushed>>
Plain == ChatOnly /\ Key /\ UNCHANGED <<flight, sent>>

\* closeGandrSession: the read counts stay.
CloseSession ==
    IF cur = 0 THEN UNCHANGED <<chat, sess>>
    ELSE /\ sess' = [sess EXCEPT ![cur].state = "closed"]
         /\ cur' = 0 /\ channels' = <<>> /\ groups' = {} /\ talk' = NoTalk
         /\ stray' = NoStray /\ UNCHANGED <<read, lowered>>

\* g
OpenGandr ==
    /\ Free
    /\ IF cur # 0
       THEN screen' = [screen EXCEPT !.view = "chat", !.cursor = 1] /\ UNCHANGED login
       ELSE /\ screen' = [screen EXCEPT !.view = "vault", !.cursor = 1,
                                        !.focus = ~login.paused /\ vault.file # 0]
            /\ login' = [login EXCEPT !.creating = FALSE, !.confirming = FALSE]
    /\ Plain /\ UNCHANGED chat

\* q, home: the session stays.
LeaveView ==
    /\ Free
    /\ screen' = [screen EXCEPT !.view = "other", !.cursor = 1]
    /\ login' = [login EXCEPT !.creating = FALSE, !.confirming = FALSE]
    /\ Plain /\ UNCHANGED chat

\* c
BeginCreate ==
    /\ Free /\ screen.view = "vault" /\ vault.file = 0
    /\ login' = [login EXCEPT !.creating = TRUE, !.confirming = FALSE]
    /\ screen' = [screen EXCEPT !.focus = TRUE]
    /\ Plain /\ UNCHANGED chat

\* d, x, ctrl+x, the last row of the side bar; n, to make a new vault.
BeginDelete ==
    /\ vault.file # 0
    /\ \E recreate \in BOOLEAN :
          /\ \/ Free /\ screen.view = "vault"
             \/ ~recreate /\ Typing("vault")
             \/ ~recreate /\ InChat
          /\ login' = [login EXCEPT !.deleting = TRUE, !.recreate = recreate]
    /\ CloseSession
    /\ screen' = [screen EXCEPT !.view = "vault", !.focus = TRUE,
                                !.active = IF cur = 0 THEN @ ELSE NoGroup]
    /\ Key
    /\ UNCHANGED <<vault, db, gen, flight, inbox, world>>

Esc ==
    /\ ~screen.menu /\ screen.focus
    /\ screen' = [screen EXCEPT !.focus = FALSE]
    /\ Plain /\ UNCHANGED <<login, chat>>

\* Tells two unlocks that are under way apart.
Unlocks == Cardinality({c \in flight : c.op \in {"unlock", "create", "save", "connect"}}
                       \cup {m \in inbox : m.kind = "vault"})

\* Enter at the prompt of the vault screen.  The second password of a new
\* vault is right when it is the first one again.
EnterVault ==
    /\ Typing("vault") /\ Key
    /\ \E text \in {"RADERA", "right", "wrong", ""} :
          LET back(f) == screen' = [screen EXCEPT !.focus = f]
          IN
          \/ /\ login.deleting /\ text # "RADERA"
             /\ back(FALSE) /\ Starts({}) /\ UNCHANGED <<login, chat, sess>>
          \/ /\ login.deleting /\ text = "RADERA"
             /\ login' = [login EXCEPT !.deleting = FALSE]
             /\ CloseSession
             /\ screen' = [screen EXCEPT !.focus = FALSE, !.active = IF cur = 0 THEN @ ELSE NoGroup]
             /\ Starts({[op |-> "delete"]})
          \/ /\ ~login.deleting /\ login.paused
             /\ back(FALSE) /\ Starts({}) /\ UNCHANGED <<login, chat, sess>>
          \/ /\ ~login.deleting /\ ~login.paused /\ login.creating
             /\ \/ /\ ~login.confirming
                   /\ login' = [login EXCEPT !.confirming = text # ""]
                   /\ back(TRUE) /\ Starts({})
                \/ /\ login.confirming /\ text # "right"
                   /\ login' = [login EXCEPT !.confirming = FALSE]
                   /\ back(TRUE) /\ Starts({})
                \/ /\ login.confirming /\ text = "right"
                   /\ back(FALSE) /\ Starts({[op |-> "create", n |-> Unlocks]})
                   /\ UNCHANGED login
             /\ UNCHANGED <<chat, sess>>
          \/ /\ ~login.deleting /\ ~login.paused /\ ~login.creating
             /\ Starts({[op |-> "unlock", right |-> text = "right", n |-> Unlocks]})
             /\ back(FALSE) /\ UNCHANGED <<login, chat, sess>>
    /\ UNCHANGED <<vault, db, gen, inbox, world>>

\* enter on the vault screen, with a session
EnterChat ==
    /\ Free /\ screen.view = "vault" /\ cur # 0
    /\ screen' = [screen EXCEPT !.view = "chat", !.cursor = 1]
    /\ Plain /\ UNCHANGED <<login, chat>>

\* enter, /, a click below the side bar; a and the contact pane for a contact.
FocusInput ==
    /\ Free /\ InChat
    /\ \E adding \in BOOLEAN :
          /\ adding => cur # 0
          /\ screen' = [screen EXCEPT !.focus = TRUE, !.adding = @ \/ adding]
    /\ Plain /\ UNCHANGED <<login, chat>>

\* b
CloseGroup ==
    /\ Free /\ InChat
    /\ screen' = [screen EXCEPT !.active = NoGroup]
    /\ Plain /\ UNCHANGED <<login, chat>>

MarkRead(c) == Shows(c, talk[c], 0, TRUE) /\ UNCHANGED <<cur, channels, groups>>

\* j and k move to a channel and mark it read, unless a group is open; a
\* click on a channel marks it read in any case.
SelectChannel ==
    /\ InChat /\ ~screen.menu
    /\ \E i \in DOMAIN channels, click \in BOOLEAN :
          /\ click \/ ~screen.focus
          /\ screen' = [screen EXCEPT !.cursor = i]
          /\ IF click \/ screen.active = NoGroup THEN MarkRead(channels[i]) ELSE UNCHANGED chat
    /\ Plain /\ UNCHANGED login

\* The user menu, from n or from a click on a message of somebody else:
\* rename, open a direct conversation, copy the key or close.
OpenMenu ==
    /\ InChat /\ ~screen.menu
    /\ \E c \in Conversation :
          OnScreen(c) /\ \E i \in DOMAIN talk[c] : talk[c][i].m \in Remote
    /\ screen' = [screen EXCEPT !.menu = TRUE]
    /\ Plain /\ UNCHANGED <<login, chat>>
MenuAction ==
    /\ screen.menu
    /\ \/ /\ screen' = [screen EXCEPT !.menu = FALSE]
          /\ Plain
       \/ /\ screen' = [screen EXCEPT !.menu = FALSE, !.adding = TRUE, !.focus = TRUE]
          /\ Plain
       \/ /\ cur # 0 /\ Key
          /\ \E g \in Direct :
                Starts({[op |-> "dm", s |-> cur, group |-> g]})
          /\ screen' = [screen EXCEPT !.menu = FALSE]
          /\ ChatOnly /\ UNCHANGED sent
    /\ UNCHANGED <<login, chat>>

Selected == channels[Least(screen.cursor, Len(channels))]

\* gandrHandleSidebarClick, a click on a group: it is opened, derived again,
\* or its password asked for; and the other rows that start a command.
ClickGroup ==
    /\ InChat /\ ~screen.menu /\ cur # 0 /\ Key
    /\ \E g \in groups :
          /\ g # screen.active
          /\ \/ /\ g \in Direct
                /\ Starts({[op |-> "dm", s |-> cur, group |-> g]})
                /\ UNCHANGED screen
             \/ /\ g \notin Direct /\ sess[cur].keys[g] # "none"
                /\ Starts({[op |-> "opengroup", s |-> cur, group |-> g]})
                /\ UNCHANGED screen
             \/ /\ g \notin Direct /\ sess[cur].keys[g] = "none"
                /\ screen' = [screen EXCEPT !.unlocking = g, !.focus = TRUE]
                /\ Starts({})
    /\ ChatOnly /\ UNCHANGED <<login, chat, sent>>

Leave == channels # <<>> /\ Starts({[op |-> "leave", s |-> cur, channel |-> Selected]})

\* Enter at the prompt of the chat screen: what was typed is a contact when
\* one was asked for, then a password when one was asked for, then a command
\* or a message to the open group or the selected channel.
EnterText ==
    /\ Typing("chat") /\ Key
    /\ \/ /\ \E invited \in BOOLEAN :
                /\ Starts({[op |-> "contact", s |-> cur, invited |-> invited]})
                /\ screen' = [screen EXCEPT !.focus = FALSE, !.adding = @ /\ invited]
          /\ UNCHANGED <<sent, shown>>
       \/ /\ ~screen.adding /\ screen.unlocking # NoGroup
          /\ \E key \in {"right", "wrong"} :
                Starts({[op |-> "unlockgroup", s |-> cur, group |-> screen.unlocking, key |-> key]})
          /\ screen' = [screen EXCEPT !.focus = FALSE, !.unlocking = NoGroup]
          /\ UNCHANGED <<sent, shown>>
       \/ /\ ~screen.adding /\ screen.unlocking = NoGroup
          /\ screen' = [screen EXCEPT !.focus = FALSE]
          /\ \/ cur = 0 /\ Starts({}) /\ UNCHANGED <<sent, shown>>
             \/ /\ cur # 0 /\ UNCHANGED <<sent, shown>>
                /\ \/ \E c \in Channel : Starts({[op |-> "join", s |-> cur, channel |-> c]})
                   \/ Leave
                   \/ \E g \in {NoGroup, screen.active} :
                        Starts({[op |-> "group", s |-> cur, group |-> g, new |-> FALSE]})
                   \/ \E g \in Group \ Direct, key \in {"right", "wrong"} :
                        Starts({[op |-> "unlockgroup", s |-> cur, group |-> g, key |-> key]})
                   \/ \E g \in Group \ Direct :
                        /\ \A x \in Gen : g \notin db[x].groups
                        /\ Starts({[op |-> "group", s |-> cur, group |-> g, new |-> TRUE]})
             \/ /\ cur # 0 /\ screen.active # NoGroup
                /\ \E m \in Own \ sent :
                      /\ sent' = sent \cup {m}
                      /\ Starts({[op |-> "groupsend", s |-> cur, group |-> screen.active, m |-> m]})
                /\ UNCHANGED shown
             \/ /\ cur # 0 /\ screen.active = NoGroup /\ channels # <<>>
                /\ \E m \in Own \ sent :
                      LET c == Selected
                          after == TrimAndAdjust(c, Appended(c, m, TRUE))
                      IN
                      /\ sent' = sent \cup {m}
                      /\ Starts({[op |-> "send", s |-> cur, channel |-> c, m |-> m]})
                      /\ Shows(c, after.talk, after.read, FALSE)
    /\ UNCHANGED <<vault, login, cur, channels, groups, sess, db, gen, inbox, pushed>>

\* Elsewhere what was typed is a search (Reader).
EnterSearch ==
    /\ Typing("other")
    /\ screen' = [screen EXCEPT !.focus = FALSE]
    /\ Plain /\ UNCHANGED <<login, chat>>

\* /leave in the side bar
ClickLeave ==
    /\ InChat /\ ~screen.menu /\ cur # 0 /\ Key /\ Leave
    /\ ChatOnly /\ UNCHANGED <<login, screen, chat, sent>>

KeyPress == \/ OpenGandr \/ LeaveView \/ BeginCreate \/ BeginDelete \/ Esc \/ EnterVault
            \/ EnterChat \/ FocusInput \/ CloseGroup \/ SelectChannel \/ OpenMenu
            \/ MenuAction \/ ClickGroup \/ EnterText \/ EnterSearch \/ ClickLeave

Next == Run \/ Update \/ KeyPress
Spec == Init /\ [][Next]_vars

-----------------------------------------------------------------------------
Talks == UNION {[1..n -> [m : Message, seen : BOOLEAN]] : n \in 0..MaxTalk}

\* Every variable has its type; the input modes and counts are within bounds.
TypeOK ==
    /\ vault \in [file : 0..MaxVaults, identity : 0..MaxVaults, made : 0..MaxVaults]
    /\ login.failures \in 0..3
    /\ screen.view \in {"other", "vault", "chat"}
    /\ screen.active \in Group \cup {NoGroup} /\ screen.unlocking \in Group \cup {NoGroup}
    /\ cur \in 0..MaxSessions
    /\ Elems(channels) \subseteq Channel /\ groups \subseteq Group
    /\ talk \in [Conversation -> Talks] /\ read \in [Conversation -> 0..MaxTalk]
    /\ \A g \in Group : Elems(stray[g]) \subseteq Remote /\ Len(stray[g]) <= MaxTalk
    /\ lowered \subseteq Group
    /\ \A s \in Session : /\ sess[s].kind \in Transports \cup {"offline"} /\ sess[s].subs \subseteq Conversation
                          /\ Len(sess[s].queue) <= QueueCap
    /\ gen \in Gen

\* The count of c: up to it the transcript was seen, and after it everything is
\* unseen, sent by the user, or had its count lowered by unreadable messages.
Counts(c) ==
    /\ read[c] <= Len(talk[c])
    /\ \A i \in DOMAIN talk[c] :
          IF i <= read[c] THEN talk[c][i].seen
          ELSE talk[c][i].seen => talk[c][i].m \in Own \/ c \in lowered

\* The unread badge of a conversation counts every message of somebody else
\* that came since it was last marked read, whatever was trimmed or loaded again
\* since.  What it counts besides, against the comment on GandrReadCounts, is
\* what the user sent to a channel since, and in a group with more unreadable
\* messages than are held, as many read ones as trimming those put it back.
UnreadCounted == cur # 0 => \A c \in Conversation : Counts(c)

\* The client of an embedded session that has not met another is subscribed
\* to every channel its database lists, unless a join or a leave is half way.
JoinedSubscribed ==
    \A s \in Session :
        (IsOpen(s) /\ sess[s].kind = "embedded" /\ sess[s].alone) =>
            \A c \in Elems(Data(s).channels) \ sess[s].subs :
                \E x \in flight : x.op \in {"joined", "left"} /\ x.s = s /\ x.channel = c

\* Somebody waits for the messages of the session on the screen, or a message
\* that was waited for is about to be applied and will arm the wait again.
ListenerArmed ==
    (cur # 0 /\ sess[cur].kind # "offline") =>
        sess[cur].waiters > 0 \/ \E m \in inbox : m.kind = "incoming"
=============================================================================
